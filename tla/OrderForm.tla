----------------------------- MODULE OrderForm -----------------------------
(***************************************************************************)
(* The limit-order form of the exchange page                               *)
(* (src/ui/src/pages/Exchange/OrderForm.tsx).  A field holds a decimal of  *)
(* any precision; amounts here are integers, Fine of them to a unit of the *)
(* ledger and Unit units to a coin (10^8 in the code).  toFixed(8) rounds  *)
(* half up to whole units, an empty field counts as zero.                  *)
(*                                                                         *)
(* An order is placed by two awaited calls: the answer finds the form      *)
(* edited, for another market, or unmounted.                               *)
(***************************************************************************)
EXTENDS Naturals, FiniteSets

CONSTANTS
    Unit, Fine,   \* ledger units of a coin, typed steps of a unit
    Typed,        \* what can be typed in a field
    Markets,
    MaxOrders     \* orders sent in one behaviour

ASSUME OrderFormAssumption ==
    /\ Unit \in Nat \ {0} /\ Fine \in Nat \ {0}
    /\ Typed \subseteq Nat
    /\ MaxOrders \in Nat

VARIABLES
    mounted,         \* the exchange page is shown
    loggedIn,        \* user.isLoggedIn; otherwise an overlay covers the form
    selectedMarket,
    fields,          \* side -> price, amount and total shown
    placing,         \* isPlacingBid, isPlacingAsk
    failed,          \* bidErrorMessage, askErrorMessage are set
    requests,        \* orders whose answer is still to come
    sent             \* orders sent so far

formVars == <<fields, placing, failed>>
vars == <<mounted, loggedIn, selectedMarket, fields, placing, failed, requests, sent>>

Sides == {"buy", "sell"}

-----------------------------------------------------------------------------
(* Decimals.                                                               *)

\* n / d rounded to an integer, halves up.
HalfUp(n, d) == (2 * n + d) \div (2 * d)

\* price * amount to eight places.
CostOf(price, amount) == Fine * HalfUp(price * amount, Unit * Fine * Fine)

\* total / price to eight places, '0' without a price.
AmountFor(total, price) ==
    IF price = 0 THEN 0 ELSE Fine * HalfUp(total * Unit, price)

\* The integer of ledger units an order carries: multipliedBy(10^8).toFixed(0).
Units(n) == HalfUp(n, Fine)

-----------------------------------------------------------------------------
(* The form.                                                               *)

Blank == [price |-> 0, amount |-> 0, total |-> 0]
BlankFields == [s \in Sides |-> Blank]
Idle == [s \in Sides |-> FALSE]

Init ==
    /\ mounted \in BOOLEAN
    /\ loggedIn \in BOOLEAN
    /\ selectedMarket \in Markets
    /\ fields = BlankFields
    /\ placing = Idle
    /\ failed = Idle
    /\ requests = {}
    /\ sent = 0

\* Mutant: only the own button is looked at.
IsValidOnItsOwn(s) ==
    /\ ~ placing[s]
    /\ fields[s].price > 0 /\ fields[s].amount > 0 /\ fields[s].total > 0

IsValid(s) ==
    /\ \A t \in Sides : ~ placing[t]
    /\ fields[s].price > 0 /\ fields[s].amount > 0 /\ fields[s].total > 0

Reachable == mounted /\ loggedIn

OnPriceChange(s, price) ==
    /\ Reachable
    /\ fields' = [fields EXCEPT ![s].price = price,
                                ![s].total = CostOf(price, fields[s].amount)]
    /\ UNCHANGED <<mounted, loggedIn, selectedMarket, placing, failed, requests, sent>>

\* Mutant: the total keeps the value of the old amount.
AmountKeepsTotal(s, amount) ==
    /\ Reachable
    /\ fields' = [fields EXCEPT ![s].amount = amount]
    /\ UNCHANGED <<mounted, loggedIn, selectedMarket, placing, failed, requests, sent>>

OnAmountChange(s, amount) ==
    /\ Reachable
    /\ fields' = [fields EXCEPT ![s].amount = amount,
                                ![s].total = CostOf(fields[s].price, amount)]
    /\ UNCHANGED <<mounted, loggedIn, selectedMarket, placing, failed, requests, sent>>

OnTotalChange(s, total) ==
    /\ Reachable
    /\ fields' = [fields EXCEPT ![s].amount = AmountFor(total, fields[s].price),
                                ![s].total = total]
    /\ UNCHANGED <<mounted, loggedIn, selectedMarket, placing, failed, requests, sent>>

\* bid and ask: the market and the fields of this moment go out.
Place(s) ==
    /\ Reachable
    /\ IsValid(s)
    /\ sent < MaxOrders
    /\ sent' = sent + 1
    /\ placing' = [placing EXCEPT ![s] = TRUE]
    /\ requests' = requests \cup
         {[id |-> sent + 1, side |-> s, market |-> selectedMarket,
           price |-> Units(fields[s].price), quantity |-> Units(fields[s].amount),
           mine |-> TRUE]}
    /\ UNCHANGED <<mounted, loggedIn, selectedMarket, fields, failed>>

\* The form of the side is cleared, whatever it holds by now; the message of
\* an earlier failure stays.
Accepted(r) ==
    /\ requests' = requests \ {r}
    /\ IF r.mine
       THEN /\ fields' = [fields EXCEPT ![r.side] = Blank]
            /\ placing' = [placing EXCEPT ![r.side] = FALSE]
       ELSE UNCHANGED <<fields, placing>>
    /\ UNCHANGED <<mounted, loggedIn, selectedMarket, failed, sent>>

\* json.error, an answer that is no JSON, or a rejected fetch.
Refused(r) ==
    /\ requests' = requests \ {r}
    /\ IF r.mine
       THEN /\ placing' = [placing EXCEPT ![r.side] = FALSE]
            /\ failed' = [failed EXCEPT ![r.side] = TRUE]
       ELSE UNCHANGED <<placing, failed>>
    /\ UNCHANGED <<mounted, loggedIn, selectedMarket, fields, sent>>

-----------------------------------------------------------------------------
(* What surrounds the form.                                                *)

\* The dropdown of the exchange header: the fields keep their values.
SelectMarket(m) ==
    /\ mounted
    /\ selectedMarket' = m
    /\ UNCHANGED <<mounted, loggedIn, formVars, requests, sent>>

\* A mounted form is a new one; calls that are under way outlive the old one.
Leave ==
    /\ mounted
    /\ mounted' = FALSE
    /\ fields' = BlankFields /\ placing' = Idle /\ failed' = Idle
    /\ requests' = {[r EXCEPT !.mine = FALSE] : r \in requests}
    /\ UNCHANGED <<loggedIn, selectedMarket, sent>>

Return ==
    /\ ~ mounted
    /\ mounted' = TRUE
    /\ UNCHANGED <<loggedIn, selectedMarket, formVars, requests, sent>>

LogInOrOut ==
    /\ loggedIn' = ~ loggedIn
    /\ UNCHANGED <<mounted, selectedMarket, formVars, requests, sent>>

Edit == \E s \in Sides, v \in Typed :
           OnPriceChange(s, v) \/ OnAmountChange(s, v) \/ OnTotalChange(s, v)

Answer == \E r \in requests : Accepted(r) \/ Refused(r)

Next ==
    \/ Edit
    \/ \E s \in Sides : Place(s)
    \/ Answer
    \/ \E m \in Markets : SelectMarket(m)
    \/ Leave \/ Return \/ LogInOrOut

\* A fetch settles; nobody has to use the form.
Spec == Init /\ [][Next]_vars /\ WF_vars(Answer)

-----------------------------------------------------------------------------
(* Properties.                                                             *)

Request == [id : Nat, side : Sides, market : Markets, price : Nat,
            quantity : Nat, mine : BOOLEAN]

TypeOK ==
    /\ mounted \in BOOLEAN /\ loggedIn \in BOOLEAN
    /\ selectedMarket \in Markets
    /\ fields \in [Sides -> [price : Nat, amount : Nat, total : Nat]]
    /\ placing \in [Sides -> BOOLEAN] /\ failed \in [Sides -> BOOLEAN]
    /\ requests \subseteq Request
    /\ sent \in Nat

\* One order at a time: the form that is shown waits for one answer at most,
\* and it waits exactly while a button says so.  A second click, the other
\* side's button and an answer to a form that was left must not break this
\* (isValid in OrderForm.tsx is the only guard).
OneOrderAtATime ==
    /\ \A r, q \in requests : r.mine /\ q.mine => r = q
    /\ \A s \in Sides : placing[s] <=> \E r \in requests : r.mine /\ r.side = s

\* The form adds up whenever it can be sent: the total is the price of the
\* amount, to the unit that either of them is rounded to, in whatever order
\* the three fields were filled, cleared and filled again.
Difference(a, b) == IF a >= b THEN a - b ELSE b - a

FormAddsUp ==
    \A s \in Sides :
        LET f == fields[s] IN
        (f.price > 0 /\ f.amount > 0 /\ f.total > 0) =>
            2 * Difference(f.total * Unit * Fine, f.price * f.amount)
                <= Fine * (IF f.price > Unit * Fine THEN f.price ELSE Unit * Fine)

\* Every answer is awaited to its end: a button that says an order is being
\* placed comes back.
PlacingEnds == \A s \in Sides : placing[s] ~> ~ placing[s]

=============================================================================
