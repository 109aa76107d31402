------------------------------- MODULE Market -------------------------------
(***************************************************************************)
(* The market view of the web interface: the exchange duck, the book and   *)
(* batch pollers of the sync middleware, the header, the list of batches,  *)
(* the chart panel with its batch chart (its candles are in module Feed).  *)
(* The node counts heights for each market; a book is known by the height  *)
(* it was read at, a batch by its block.  A call is served when it is      *)
(* sent: blocks that come before the serving may as well come before the   *)
(* sending, for the page sees neither.                                     *)
(*                                                                         *)
(* The book poller waits for its answer before it sets its timer again;    *)
(* the batch poller does not, so its calls overlap and are answered in any *)
(* order.                                                                  *)
(***************************************************************************)
EXTENDS Integers, FiniteSetsExt

CONSTANTS
    Markets,      \* ids of the markets of the store
    Home,         \* the market selected at first
    FirstHeight,  \* no batch of any market was executed up to this height
    MaxHeight,    \* bound on the heights, of each market
    MaxBatches,   \* MAX_BATCHES, 50 in the code
    MaxCalls      \* bound on the batch calls under way

\* Ids are compared as strings (StringBefore), here of nine digits at most.
LastId == 999999999

ASSUME MarketAssumption ==
    /\ Home \in Markets
    /\ FirstHeight \in Nat
    /\ MaxHeight \in [Markets -> FirstHeight .. LastId]
    /\ {MaxBatches, MaxCalls} \subseteq Nat \ {0}

ChartTypes == {"TradingView", "Depth", "Batch"}
NoBlock == 0

VARIABLES
    height,    \* node: the last block with a batch, of each market
    store,     \* selectedMarket, selectedChartType, selectedBatch
    books,     \* store: bids and asks of each market
    batches,   \* store: ids of the batches kept of each market
    received,  \* history: ids of the batches ever added, of each market
    loop,      \* the book poller
    calls,     \* the batch calls under way, with the block that is answered
    chart      \* the batch chart of the panel

data == <<books, batches, received>>
vars == <<height, store, books, batches, received, loop, calls, chart>>

Executed(m) == FirstHeight + 1 .. height[m]

-----------------------------------------------------------------------------
(* The chart panel.                                                        *)

NoChart == [drawn |-> <<>>, missed |-> FALSE, mounted |-> FALSE]

\* mapStateToProps of BatchExecutionChart.
BatchProp(s, kept) ==
    IF s.selectedBatch \in kept[s.selectedMarket]
    THEN <<s.selectedMarket, s.selectedBatch>>
    ELSE <<>>

\* componentDidMount, shouldComponentUpdate, componentDidUpdate.  Nothing is
\* drawn again when the batch was missing before or is missing now.
DrawnOn(c, previous, next) ==
    [drawn   |-> IF ~ c.mounted \/ (previous # <<>> /\ next # <<>>) THEN next ELSE c.drawn,
     missed  |-> (c.mounted /\ c.missed) \/ next = <<>>,
     mounted |-> TRUE]

\* What React does after a change of the store: the switch of renderContent.
Rendered(s, kept) ==
    IF s.selectedChartType = "Batch"
    THEN DrawnOn(chart, BatchProp(store, batches), BatchProp(s, kept))
    ELSE NoChart

Choose(s) ==
    /\ store' = s
    /\ chart' = Rendered(s, batches)
    /\ UNCHANGED <<height, data, loop, calls>>

\* The drop-down of the header.  The batch stays selected.
SelectMarket(m) == Choose([store EXCEPT !.selectedMarket = m])

\* The third button is there while a batch is selected.
SetChartType(t) ==
    /\ t = "Batch" => store.selectedBatch # NoBlock
    /\ Choose([store EXCEPT !.selectedChartType = t])

\* Mutant: the panel is left as it is when the batch is closed.
SelectOnly(s, blockId) ==
    [s EXCEPT !.selectedBatch = blockId,
              !.selectedChartType = IF blockId # NoBlock THEN "Batch" ELSE @]

HandleSelectBatch(s, blockId) ==
    [s EXCEPT !.selectedBatch = blockId,
              !.selectedChartType = IF blockId # NoBlock THEN "Batch" ELSE "TradingView"]

\* A row of List, or the cross of the third button.
SelectBatch(blockId) ==
    /\ \/ blockId \in batches[store.selectedMarket]
       \/ blockId = NoBlock /\ store.selectedChartType = "Batch"
    /\ Choose(HandleSelectBatch(store, blockId))

\* The sidebar, and back: the panel is mounted afresh, the store stays.
\* (Nothing here looks at the panel in between.)
ReopenPage ==
    /\ chart' = IF store.selectedChartType = "Batch"
                THEN DrawnOn(NoChart, <<>>, BatchProp(store, batches)) ELSE NoChart
    /\ UNCHANGED <<height, store, data, loop, calls>>

-----------------------------------------------------------------------------
(* The book poller.                                                        *)

Idle == [at |-> "timer", market |-> Home, version |-> NoBlock]

GetDepth ==
    /\ loop.at = "timer"
    /\ LET m == store.selectedMarket
       IN  loop' = [at |-> "asked", market |-> m, version |-> height[m]]
    /\ UNCHANGED <<height, store, data, calls, chart>>

\* Mutant: the market is read when the answer is there.
BookOfSelected ==
    /\ loop.at = "asked"
    /\ loop' = Idle
    /\ books' = [books EXCEPT ![store.selectedMarket] = loop.version]
    /\ UNCHANGED <<height, store, batches, received, calls, chart>>

\* setOpenBidsByMarketId, setOpenAsksByMarketId.
BookSettled ==
    /\ loop.at = "asked"
    /\ loop' = Idle
    /\ books' = [books EXCEPT ![loop.market] = loop.version]
    /\ UNCHANGED <<height, store, batches, received, calls, chart>>

\* Mutant: only an answer sets the timer again.
BookLostForGood ==
    /\ loop.at = "asked"
    /\ loop' = [Idle EXCEPT !.at = "dead"]
    /\ UNCHANGED <<height, store, data, calls, chart>>

BookLost ==
    /\ loop.at = "asked"
    /\ loop' = Idle
    /\ UNCHANGED <<height, store, data, calls, chart>>

-----------------------------------------------------------------------------
(* The batch poller.                                                       *)

\* The order of Array.prototype.sort on block ids: as strings.
Digits(n) == Min({d \in 1 .. 9 : n < 10 ^ d})
Padded(n) == n * 10 ^ (9 - Digits(n))
StringBefore(a, b) ==
    \/ Padded(a) < Padded(b)
    \/ Padded(a) = Padded(b) /\ Digits(a) < Digits(b)

\* slicedBatches: the last MAX_BATCHES of the sorted ids.
Sliced(ids) ==
    {i \in ids : Cardinality({j \in ids : StringBefore(i, j)}) < MaxBatches}

\* Mutant: the list is cut before the batch is added.
CutFirst(kept, blockId) == Sliced(kept) \cup {blockId}

HandleAddBatch(kept, blockId) == Sliced(kept \cup {blockId})

\* A market without batches answers 404, and nothing happens.  Two calls
\* with the same answer count as one: adding a batch twice is adding it once.
GetBatch ==
    LET m == store.selectedMarket
    IN  /\ Executed(m) # {}
        /\ Cardinality(calls) < MaxCalls
        /\ calls' = calls \cup {[market |-> m, block |-> height[m]]}
        /\ UNCHANGED <<height, store, data, loop, chart>>

\* addBatchByMarketId.
BatchSettled(c) ==
    LET kept == [batches EXCEPT ![c.market] = HandleAddBatch(@, c.block)]
    IN  /\ calls' = calls \ {c}
        /\ batches' = kept
        /\ received' = [received EXCEPT ![c.market] = @ \cup {c.block}]
        /\ chart' = Rendered(store, kept)
        /\ UNCHANGED <<height, store, books, loop>>

\* The promise is rejected, and nobody looks.
BatchLost(c) ==
    /\ calls' = calls \ {c}
    /\ UNCHANGED <<height, store, data, loop, chart>>

-----------------------------------------------------------------------------
\* A block of the chain in which a batch of m is executed.  (Blocks that
\* change the book alone are left out.)
Block(m) ==
    /\ height[m] < MaxHeight[m]
    /\ height' = [height EXCEPT ![m] = @ + 1]
    /\ UNCHANGED <<store, data, loop, calls, chart>>

Init ==
    /\ height = [m \in Markets |-> FirstHeight]
    /\ store = [selectedMarket |-> Home, selectedChartType |-> "TradingView",
                selectedBatch |-> NoBlock]
    /\ books = [m \in Markets |-> NoBlock]
    /\ batches = [m \in Markets |-> {}]
    /\ received = [m \in Markets |-> {}]
    /\ loop = Idle
    /\ calls = {}
    /\ chart = NoChart

User ==
    \/ \E m \in Markets : SelectMarket(m)
    \/ \E t \in ChartTypes : SetChartType(t)
    \/ \E b \in {NoBlock} \cup UNION {batches[m] : m \in Markets} : SelectBatch(b)
    \/ ReopenPage

Next ==
    \/ User
    \/ GetDepth \/ BookSettled \/ BookLost
    \/ GetBatch \/ \E c \in calls : BatchSettled(c) \/ BatchLost(c)
    \/ \E m \in Markets : Block(m)

\* Timers fire and promises are settled.  Any number of calls is lost, but
\* not all of those that are repeated for ever.
Fairness ==
    /\ WF_vars(GetDepth) /\ SF_vars(BookSettled)
    /\ WF_vars(GetBatch) /\ SF_vars(\E c \in calls : BatchSettled(c))

Spec == Init /\ [][Next]_vars /\ Fairness

-----------------------------------------------------------------------------
(* Properties.                                                             *)

TypeOK ==
    /\ \A m \in Markets : height[m] \in FirstHeight .. MaxHeight[m]
    /\ store.selectedMarket \in Markets
    /\ store.selectedChartType \in ChartTypes
    /\ loop.at \in {"timer", "asked"} /\ loop.market \in Markets
    /\ calls \subseteq [market : Markets, block : UNION {Executed(m) : m \in Markets}]

\* Whatever market is chosen while a call is under way, the book of a market
\* is one that this market had, and it is never replaced by an older one:
\* getDepth uses the market it asked for, and asks again only when it has its
\* answer.
BookNeverGoesBack ==
    [][\A m \in Markets : books[m] <= books'[m] /\ books'[m] <= height'[m]]_vars

\* However the batch calls overtake each other, the batches kept of a market
\* are batches this market executed, and of all that came the greatest - in
\* the order of strings, which is not that of the blocks: see
\* MarketCatchesUp.  handleAddBatchByMarketId cuts one answer at a time.
KeptAreGreatest ==
    \A m \in Markets : /\ received[m] \subseteq Executed(m)
                       /\ batches[m] = Sliced(received[m])

\* The header names what is shown: the third button is there while the panel
\* shows a batch, and that is the batch drawn, unless it was missing from the
\* store at some time since the chart was mounted (shouldComponentUpdate is
\* false then, and the old lines stay).
HeaderAndChartAgree ==
    /\ TypeOK
    /\ store.selectedChartType = "Batch" =>
         /\ store.selectedBatch # NoBlock
         /\ chart.missed \/ chart.drawn = <<store.selectedMarket, store.selectedBatch>>

\* A market that stays selected is shown as it is: its book, and its newest
\* batch unless the list is full of blocks that are greater as strings (a
\* chain that crosses a power of ten lists no batch for long).
Shown(m) ==
    /\ books[m] = height[m]
    /\ \/ Executed(m) = {}
       \/ height[m] \in batches[m]
       \/ /\ Cardinality(batches[m]) = MaxBatches
          /\ \A b \in batches[m] : StringBefore(height[m], b)

MarketCatchesUp ==
    []<>Shown(store.selectedMarket) \/ []<><<\E m \in Markets : SelectMarket(m)>>_store
=============================================================================
