----------------------------- MODULE OrderView ------------------------------
(***************************************************************************)
(* The market data a node shows: the order keeper publishes events to an   *)
(* in-memory queue (types/mem_backend.go) while it executes a block, and a *)
(* consumer goroutine (types/service.go) applies them to rows of a local   *)
(* database (embedded/order/keeper.go) of its own accord.  Queries of the  *)
(* order book and of the orders of an owner read the rows.                 *)
(*                                                                         *)
(* The chain state is committed at the end of a block, the rows as soon as *)
(* an event is consumed, and the queue is never written to disk.  After a  *)
(* crash the node starts from the last commit and Tendermint replays the   *)
(* transactions of the block that was lost; an operation of the block is   *)
(* remembered in `log` for that.  A message that is executed for its gas   *)
(* (simulation) or whose transaction fails later leaves no state but has   *)
(* published its event.                                                    *)
(***************************************************************************)
EXTENDS Exchange

CONSTANT MaxFaults   \* bound: crashes, and orders that are discarded

ASSUME OrderViewAssumption == MaxFaults \in Nat

VARIABLES queue,      \* MemBackend.items
          rows,       \* id -> row of the embedded order table
          openIndex,  \* openOrderKey entries, <<market, id>>
          ownerIndex, \* ownerOrderKey entries, <<owner, id>>
          committed,  \* the chain state of the last commit
          log,        \* what the current block has executed
          replay,     \* what a lost block had executed and is executed again
          crashes, discards

viewTables == <<rows, openIndex, ownerIndex>>
nodeVars   == <<committed, log, replay, crashes, discards>>
viewVars   == <<exchangeVars, queue, viewTables, nodeVars>>

ChainState == [markets |-> markets, orders |-> orders, seq |-> seq, balance |-> balance]

ViewInit ==
  /\ Init
  /\ queue = <<>>
  /\ rows = [i \in {} |-> {}]
  /\ openIndex = {}
  /\ ownerIndex = {}
  /\ committed = ChainState
  /\ log = <<>>
  /\ replay = <<>>
  /\ crashes = 0
  /\ discards = 0

-----------------------------------------------------------------------------
(* Events.                                                                 *)
\* Mutant: the event carries the id given to the order before.
CreatedWithOldId(id, o) == [type |-> "created", id |-> id - 1, owner |-> o.owner,
                            market |-> o.market, qty |-> o.qty]
OrderCreated(id, o) == [type |-> "created", id |-> id, owner |-> o.owner,
                        market |-> o.market, qty |-> o.qty]

Publish(events) == queue' = queue \o events

-----------------------------------------------------------------------------
(* The embedded order keeper, on v = [rows, open, owned].                  *)
SetRow(v, id, row) ==
  [v EXCEPT !.rows = With(@, id, row),
            !.open = IF row.status = "OPEN" THEN @ \cup {<<row.market, id>>}
                                            ELSE @ \ {<<row.market, id>>}]

OnOrderCreated(v, e) ==
  [SetRow(v, e.id, [owner |-> e.owner, market |-> e.market, qty |-> e.qty,
                    filled |-> 0, status |-> "OPEN"])
     EXCEPT !.owned = @ \cup {<<e.owner, e.id>>}]

\* Mutant: any fill closes the order.
FilledAtOnce(row) == row.filled > 0
FilledUp(row)     == row.filled = row.qty

OnFill(v, e) ==
  IF e.id \notin DOMAIN v.rows THEN v
  ELSE LET row == [v.rows[e.id] EXCEPT !.filled = @ + e.filled]
       IN  SetRow(v, e.id, IF FilledUp(row) THEN [row EXCEPT !.status = "FILLED"] ELSE row)

OnOrderCancelled(v, e) ==
  IF e.id \notin DOMAIN v.rows THEN v
  ELSE SetRow(v, e.id, [v.rows[e.id] EXCEPT !.status = "CANCELLED"])

OnEvent(v, e) ==
  CASE e.type = "created"   -> OnOrderCreated(v, e)
    [] e.type = "fill"      -> OnFill(v, e)
    [] e.type = "cancelled" -> OnOrderCancelled(v, e)
    [] OTHER                -> v

View == [rows |-> rows, open |-> openIndex, owned |-> ownerIndex]

\* LocalConsumer: Consume and handleItem.
Consume ==
  /\ queue # <<>>
  /\ LET v == OnEvent(View, Head(queue))
     IN  rows' = v.rows /\ openIndex' = v.open /\ ownerIndex' = v.owned
  /\ queue' = Tail(queue)
  /\ UNCHANGED <<exchangeVars, nodeVars>>

-----------------------------------------------------------------------------
(* The block.                                                              *)

\* An order whose transaction fails after Post: a later message of the same
\* transaction is refused.
Discarded(base, op) ==
  LET o == NewOrder(op.owner, op.market, op.direction, op.price, op.qty, op.tif)
  IN  /\ halted = "no"
      /\ base.seq < MaxOrders
      /\ op.market \in DOMAIN base.markets
      /\ PostedCoin(o).amount > 0
      /\ CanSend(base.balance, op.owner, PostedCoin(o))
      /\ Publish(<<OrderCreated(base.seq + 1, o)>>)
      /\ UNCHANGED exchangeVars

\* One operation of the block, and the events it publishes.
Execute(op) ==
  \/ /\ op.type = "market"
     /\ CreateMarket(op.owner, op.pair)
     /\ UNCHANGED queue
  \/ /\ op.type = "post"
     /\ Post(op.owner, op.market, op.direction, op.price, op.qty, op.tif)
     /\ Publish(<<OrderCreated(seq', orders'[seq'])>>)
  \/ /\ op.type = "failed"
     /\ Discarded(ChainState, op)
  \/ /\ op.type = "cancel"
     /\ MsgCancel(op.owner, op.id)
     /\ UNCHANGED queue
  \/ /\ op.type = "end"
     /\ \E s \in {Batch(ms) : ms \in MarketOrders} : EndWith(s) /\ Publish(s.events)

PostMessages(types) ==
  [type : types, owner : Users, market : DOMAIN markets, direction : Directions,
   price : Prices, qty : Quantities, tif : 1 .. MaxTimeInForce]

Messages ==
  [type : {"market"}, owner : Nominees, pair : AssetPairs]
  \cup PostMessages({"post"})
  \cup (IF crashes + discards < MaxFaults THEN PostMessages({"failed"}) ELSE {})
  \cup [type : {"cancel"}, owner : Users, id : DOMAIN orders]
  \cup [type : {"end"}]

BlockEnded == log # <<>> /\ Last(log).type = "end"

\* A node that catches up executes the lost block again; else the block goes
\* on with any message, or ends.
Deliver ==
  /\ ~BlockEnded
  /\ \E op \in IF replay = <<>> THEN Messages ELSE {Head(replay)} :
       /\ Execute(op)
       /\ log' = Append(log, op)
       /\ discards' = IF replay = <<>> /\ op.type = "failed" THEN discards + 1 ELSE discards
  /\ replay' = IF replay = <<>> THEN <<>> ELSE Tail(replay)
  /\ UNCHANGED <<viewTables, committed, crashes>>

Commit ==
  /\ BlockEnded
  /\ halted = "no"
  /\ committed' = ChainState
  /\ log' = <<>>
  /\ UNCHANGED <<exchangeVars, queue, viewTables, replay, crashes, discards>>

\* A client estimates the gas of an order: the message runs on the committed
\* state.
Simulate ==
  /\ replay = <<>>
  /\ crashes + discards < MaxFaults
  /\ \E op \in PostMessages({"simulated"}) : Discarded(committed, op)
  /\ discards' = discards + 1
  /\ UNCHANGED <<viewTables, committed, log, replay, crashes>>

\* What an event that is being consumed leaves on disk: Set writes the row,
\* then the open index; the owner index comes last.
PartlyConsumed ==
  \/ UNCHANGED viewTables
  \/ /\ queue # <<>>
     /\ LET v == OnEvent(View, Head(queue))
        IN  rows' = v.rows /\ openIndex' \in {openIndex, v.open}
     /\ UNCHANGED ownerIndex

\* The process stops and starts: the queue and the uncommitted state are
\* gone, the rows and the committed state are on disk.
Crash ==
  /\ halted = "no"
  /\ crashes + discards < MaxFaults
  /\ markets' = committed.markets
  /\ orders' = committed.orders
  /\ seq' = committed.seq
  /\ balance' = committed.balance
  /\ PartlyConsumed
  /\ queue' = <<>>
  /\ replay' = log \o replay
  /\ log' = <<>>
  /\ crashes' = crashes + 1
  /\ UNCHANGED <<halted, committed, discards>>

ViewNext == Consume \/ Deliver \/ Commit \/ Simulate \/ Crash

ViewSpec == ViewInit /\ [][ViewNext]_viewVars

-----------------------------------------------------------------------------
(* What the rows will show when the queue is consumed.                     *)
Settled == FoldLeft(OnEvent, View, queue)

(* Every order in the store is on its way to be shown, open, with what is  *)
(* left of it and in both indexes, whatever was posted, matched, expired   *)
(* and consumed in between, and a row that says FILLED or CANCELLED is     *)
(* never ahead of the store.  The events of Post and ExecuteFill against   *)
(* the embedded keeper, while the node does not stop and no order is       *)
(* discarded.                                                              *)
EveryOrderIsShown ==
  halted = "no" /\ crashes = 0 /\ discards = 0 =>
    /\ \A id \in DOMAIN orders :
         LET v == Settled
             o == orders[id]
         IN  /\ id \in DOMAIN v.rows
             /\ v.rows[id].status = "OPEN"
             /\ v.rows[id].qty - v.rows[id].filled = o.qty
             /\ <<o.market, id>> \in v.open
             /\ <<o.owner, id>> \in v.owned
    /\ \A id \in DOMAIN rows : rows[id].status # "OPEN" => id \notin DOMAIN orders

(* Even with events of orders that were never posted, as long as there is  *)
(* one market, the open index lists the open rows and no others: Set of    *)
(* the embedded keeper against OpenOrdersByMarket.  A crash between its    *)
(* two writes leaves them apart.                                           *)
OpenOrdersListed ==
  crashes = 0 =>
    openIndex = {<<rows[id].market, id>> : id \in {i \in DOMAIN rows : rows[i].status = "OPEN"}}

(* Through a crash at any point and the replay of the lost block, an owner *)
(* is only ever shown orders of his own: the ids of the lost block are     *)
(* given again to the same orders.  incrementSeq, OrdersByOwner.           *)
OwnersSeeTheirOrders ==
  discards = 0 =>
    \A entry \in ownerIndex :
      LET id == entry[2]
      IN  /\ id \in DOMAIN rows
          /\ rows[id].owner = entry[1]
          /\ id \in DOMAIN orders => orders[id].owner = entry[1]

(* The three writes of an event never send a reader astray: whatever       *)
(* failed, was only simulated or was replayed, the open index lists open   *)
(* rows and the owner's index orders of that owner.  Keeper.Set,           *)
(* OnOrderCreatedEvent.                                                    *)
IndexesMatchRows == OpenOrdersListed /\ OwnersSeeTheirOrders
=============================================================================
