---------------------------- MODULE Pages_proofs ----------------------------
(***************************************************************************)
(* Proofs about the visitor's way through the page: the session, for any   *)
(* bounds on reloads, lost calls and log-in attempts; and the order form   *)
(* with the pages around it, for any fineness of the decimals, any markets *)
(* and texts and a phrase of any length.                                   *)
(***************************************************************************)
EXTENDS Pages, Session, TLAPS

-----------------------------------------------------------------------------
(* The session: a page which says it is logged in has what it needs.       *)

\* Every path has a component: the route of the empty path matches it when no
\* other does, and the first of the matching routes is taken.  Main.
LEMMA RouteIsComponent ==
  ASSUME NEW path \in Paths
  PROVE  Route(path) \in Components
<1> DEFINE matching == {i \in DOMAIN Table : IsPrefixOf(Table[i].path, path)}
           IsFirst(i) == i \in matching /\ \A j \in matching : i <= j
<1>1. DOMAIN Table = 1 .. 6
  BY DEF Table
<1>2. \A i \in 1 .. 6 : Table[i].component \in Components
  BY DEF Table, Components
<1>3. 6 \in matching
  <2>1. Table[6].path = <<>> /\ Len(<<>>) = 0
    BY DEF Table, HOME
  <2>2. Len(path) \in Nat
    BY DEF Paths, EXCHANGE, WALLET, AUTHENTICATE, CONNECT_WALLET, CONNECT_WALLET__SOFTWARE,
           CREATE_WALLET__SOFTWARE, CONFIRM_SEEDPHRASE_BACKUP__SOFTWARE, TRANSFER, HOME
  <2>3. IsPrefixOf(<<>>, path)
    BY <2>1, <2>2 DEF IsPrefixOf
  <2> QED BY <1>1, <2>1, <2>3
<1>4. \E i : IsFirst(i)
  <2> HIDE DEF matching
  <2>1. matching \subseteq {1, 2, 3, 4, 5, 6}
    BY <1>1 DEF matching
  <2> QED BY <1>3, <2>1
<1>5. IsFirst(CHOOSE i \in matching : \A j \in matching : i <= j)
  BY <1>4
<1> QED BY <1>1, <1>2, <1>5 DEF Route

\* Starting a poller twice starts it once.  sync.ts, the handles.
LEMMA StartedOnce ==
  ASSUME chains \in [Loops -> 0 .. 1], NEW names
  PROVE  /\ Started(names) \in [Loops -> 0 .. 1]
         /\ \A k \in Loops \cap names : Started(names)[k] = 1
  BY DEF Started

LEMMA CountsOnce ==
  ASSUME NEW f \in [Loops -> 0 .. 1] PROVE f \in [Loops -> Nat]
  OBVIOUS

LEMMA FreshOnce == FreshChains \in [Loops -> 0 .. 1]
  BY DEF FreshChains

-----------------------------------------------------------------------------
\* The inductive invariant: the types, with no poller running twice, and what
\* a page that is logged in has.
SessionInv ==
  /\ SessionTypeOK
  /\ chains \in [Loops -> 0 .. 1]
  /\ isLoggedIn = "true" => address # "" /\ \A k \in Private : chains[k] = 1

LEMMA SessionStart == SessionInit => SessionInv
<1> SUFFICES ASSUME SessionInit PROVE SessionInv
  OBVIOUS
<1>1. page \in Components
  BY RouteIsComponent DEF SessionInit
<1>2. chains \in [Loops -> 0 .. 1] /\ chains \in [Loops -> Nat]
  BY FreshOnce, CountsOnce DEF SessionInit
<1>3. /\ valid \in BOOLEAN /\ isLoggedIn = "undefined" /\ address = ""
      /\ check = [call |-> "balances", at |-> "sent"]
      /\ form = [isLoggingIn |-> FALSE, errorMessage |-> FALSE]
  BY DEF SessionInit, FirstCheck, BlankForm
<1> QED BY <1>1, <1>2, <1>3 DEF SessionInv, SessionTypeOK

\* A log-in that is accepted, whichever it was.
LEMMA EnterKeepsInv ==
  ASSUME SessionInv, NEW a \in {"node", "file"}, EnterAs(a)
  PROVE  /\ isLoggedIn' = "true" /\ address' = a
         /\ chains' \in [Loops -> 0 .. 1]
         /\ \A k \in Private : chains'[k] = 1
<1>1. Private \subseteq Loops
  BY DEF Loops
<1> QED BY <1>1, StartedOnce DEF EnterAs, SessionInv

LEMMA SessionStep == SessionInv /\ [SessionNext]_sessionVars => SessionInv'
<1> SUFFICES ASSUME SessionInv, [SessionNext]_sessionVars PROVE SessionInv'
  OBVIOUS
<1> USE DEF SessionInv, SessionTypeOK, login, pages
<1>0. \A f : f \in [Loops -> 0 .. 1] => f \in [Loops -> Nat]
  BY CountsOnce
<1>1. CASE Check
  <2>1. CASE CheckServed
    BY <2>1 DEF CheckServed
  <2>2. CASE CheckRefused
    BY <2>2, <1>0, StartedOnce DEF CheckRefused
  <2>3. CASE CheckAsksMe
    BY <2>3 DEF CheckAsksMe
  <2>4. CASE CheckPasses
    <3>1. EnterAs("node") /\ UNCHANGED <<valid, spent, pages>>
      BY <2>4 DEF CheckPasses
    <3> QED BY <2>4, <3>1, <1>0, EnterKeepsInv DEF CheckPasses
  <2>5. CASE CheckThrows
    BY <2>5 DEF CheckThrows
  <2> QED BY <1>1, <2>1, <2>2, <2>3, <2>4, <2>5 DEF Check
<1>2. CASE CheckFails
  BY <1>2 DEF CheckFails
<1>3. ASSUME NEW m \in Methods, Submit(m)
      PROVE  SessionInv'
  <2>1. /\ form' = [isLoggingIn |-> TRUE, errorMessage |-> FALSE]
        /\ UNCHANGED <<valid, spent, login, check, chains, page>>
    BY <1>3 DEF Submit
  <2> QED BY <2>1
<1>4. CASE SubmitIncomplete \/ EditLogin
  BY <1>4 DEF SubmitIncomplete, EditLogin
<1>5. ASSUME NEW i \in DOMAIN attempts, Attempt(i) \/ AttemptLost(i)
      PROVE  SessionInv'
  <2>1. CASE AttemptServed(i)
    BY <2>1, ZenonT(30) DEF AttemptServed
  <2>2. CASE AttemptRefused(i)
    BY <2>2 DEF AttemptRefused
  <2>3. CASE LocalAsksMe(i)
    BY <2>3 DEF LocalAsksMe
  <2>4. CASE LocalEnters(i)
    <3>1. EnterAs("node") /\ ToWallet(i) /\ UNCHANGED <<valid, spent, check>>
      BY <2>4 DEF LocalEnters
    <3> QED BY <3>1, <1>0, EnterKeepsInv DEF ToWallet, BlankForm, Components
  <2>5. CASE ZAREnters(i)
    BY <2>5 DEF ZAREnters, ToWallet, BlankForm, Components
  <2>6. CASE KeystoreEnters(i)
    <3>1. EnterAs("file") /\ UNCHANGED <<valid, spent, check, page>>
      BY <2>6 DEF KeystoreEnters
    <3>2. form' \in [isLoggingIn : BOOLEAN, errorMessage : BOOLEAN]
      BY <2>6 DEF KeystoreEnters
    <3> QED BY <3>1, <3>2, <1>0, EnterKeepsInv
  <2>7. CASE AttemptLost(i)
    BY <2>7 DEF AttemptLost
  <2> QED BY <1>5, <2>1, <2>2, <2>3, <2>4, <2>5, <2>6, <2>7 DEF Attempt
<1>6. CASE Logout
  <2>1. Route(HOME) \in Components
    BY RouteIsComponent DEF Paths
  <2> QED BY <1>6, <2>1 DEF Logout, Go, BlankForm
<1>7. ASSUME NEW path \in Paths, NavigateTo(path)
      PROVE  SessionInv'
  BY <1>7, RouteIsComponent DEF NavigateTo, Go, BlankForm
<1>8. ASSUME NEW path \in Paths, Reload(path)
      PROVE  SessionInv'
  <2>1. /\ isLoggedIn' = "undefined" /\ address' = "" /\ UNCHANGED valid
        /\ check' = [call |-> "balances", at |-> "sent"]
        /\ form' = [isLoggingIn |-> FALSE, errorMessage |-> FALSE]
        /\ page' \in Components
    BY <1>8, RouteIsComponent DEF Reload, FirstCheck, BlankForm
  <2>2. chains' \in [Loops -> 0 .. 1]
    BY <1>8, FreshOnce DEF Reload
  <2> QED BY <2>1, <2>2, <1>0
<1>9. CASE SessionEnds
  BY <1>9 DEF SessionEnds
<1>10. CASE UNCHANGED sessionVars
  BY <1>10 DEF sessionVars
<1> QED BY <1>1, <1>2, <1>3, <1>4, <1>5, <1>6, <1>7, <1>8, <1>9, <1>10 DEF SessionNext

LEMMA SessionAlways == SessionSpec => []SessionInv
  BY SessionStart, SessionStep, PTL DEF SessionSpec

-----------------------------------------------------------------------------
\* Every variable of the session keeps its type; in particular every location
\* shows a page.  The user duck, the log-in pages, Main.
THEOREM SessionTypes == SessionSpec => []SessionTypeOK
<1>1. SessionInv => SessionTypeOK
  BY DEF SessionInv
<1> QED BY <1>1, SessionAlways, PTL

\* A page that says it is logged in shows an address and polls the account,
\* and no poller runs twice, however checks, log-ins, log-outs and late
\* answers are interleaved.  sync.ts, the user duck.
THEOREM LoggedInIsAlwaysWhole == SessionSpec => []LoggedInIsWhole
<1>1. ASSUME SessionInv PROVE LoggedInIsWhole
  <2>1. \A k \in Loops : chains[k] \in 0 .. 1
    BY <1>1 DEF SessionInv
  <2>2. \A k \in Loops : chains[k] <= 1
    BY <2>1
  <2> QED BY <1>1, <2>2 DEF SessionInv, LoggedInIsWhole
<1> QED BY <1>1, SessionAlways, PTL

-----------------------------------------------------------------------------
(* The decimals of the form: how far rounding can take a total from the    *)
(* price of the amount.                                                    *)

LEMMA Division ==
  ASSUME NEW a \in Nat, NEW b \in Nat \ {0}
  PROVE  /\ a \div b \in Nat
         /\ b * (a \div b) <= a
         /\ a < b * (a \div b) + b
  OBVIOUS

LEMMA Rounding ==
  ASSUME NEW n \in Nat, NEW d \in Nat \ {0}
  PROVE  /\ HalfUp(n, d) \in Nat
         /\ 2 * (d * HalfUp(n, d)) <= 2 * n + d
         /\ 2 * n < 2 * (d * HalfUp(n, d)) + d
<1> DEFINE h == HalfUp(n, d)
<1>1. 2 * n + d \in Nat /\ 2 * d \in Nat \ {0}
  OBVIOUS
<1>2. /\ h \in Nat
      /\ (2 * d) * h <= 2 * n + d
      /\ 2 * n + d < (2 * d) * h + 2 * d
  BY <1>1, Division DEF HalfUp
<1> HIDE DEF h
<1>3. (2 * d) * h = 2 * (d * h) /\ d * h \in Nat
  BY <1>2
<1> QED BY <1>2, <1>3 DEF h

LEMMA Monotone ==
  ASSUME NEW a \in Nat, NEW b \in Nat, NEW c \in Nat, a <= b
  PROVE  c * a <= c * b
  OBVIOUS

LEMMA DifferenceBound ==
  ASSUME NEW a \in Nat, NEW b \in Nat, NEW c \in Nat,
         2 * a <= 2 * b + c, 2 * b <= 2 * a + c
  PROVE  2 * Difference(a, b) <= c
  BY DEF Difference

\* What FormAddsUp says of one side.
Slack(price) == Fine * (IF price > Unit * Fine THEN price ELSE Unit * Fine)
Near(price, amount, total) ==
  2 * Difference(total * Unit * Fine, price * amount) <= Slack(price)

LEMMA SlackBound ==
  ASSUME NEW price \in Nat
  PROVE  /\ Slack(price) \in Nat
         /\ Fine * price <= Slack(price)
         /\ Fine * (Unit * Fine) <= Slack(price)
<1> USE OrderFormAssumption
<1>1. Unit * Fine \in Nat /\ Fine \in Nat
  OBVIOUS
<1>2. CASE price > Unit * Fine
  <2>1. Slack(price) = Fine * price
    BY <1>2 DEF Slack
  <2> QED BY <1>1, <1>2, <2>1, Monotone
<1>3. CASE ~ (price > Unit * Fine)
  <2>1. Slack(price) = Fine * (Unit * Fine) /\ price <= Unit * Fine
    BY <1>1, <1>3 DEF Slack
  <2> QED BY <1>1, <2>1, Monotone
<1> QED BY <1>2, <1>3

\* The total that is computed from a price and an amount.  onPriceChange,
\* onAmountChange.
LEMMA CostIsNear ==
  ASSUME NEW price \in Nat, NEW amount \in Nat
  PROVE  CostOf(price, amount) \in Nat /\ Near(price, amount, CostOf(price, amount))
<1> USE OrderFormAssumption
<1> DEFINE d == Unit * Fine * Fine
           n == price * amount
           h == HalfUp(n, d)
<1>1. d \in Nat \ {0} /\ n \in Nat
  OBVIOUS
<1>2. /\ h \in Nat
      /\ 2 * (d * h) <= 2 * n + d
      /\ 2 * n < 2 * (d * h) + d
  BY <1>1, Rounding
<1>3. CostOf(price, amount) = Fine * h
  BY DEF CostOf
<1> HIDE DEF h
<1>4. CostOf(price, amount) * Unit * Fine = d * h
  BY <1>2, <1>3
<1>5. d = Fine * (Unit * Fine)
  OBVIOUS
<1>6. d <= Slack(price) /\ Slack(price) \in Nat
  BY <1>5, SlackBound
<1>7. d * h \in Nat
  BY <1>1, <1>2
<1> HIDE DEF d, n
<1>8. 2 * Difference(d * h, n) <= Slack(price)
  BY <1>1, <1>2, <1>6, <1>7, DifferenceBound
<1> QED BY <1>2, <1>3, <1>4, <1>8 DEF Near, n

\* The amount that is computed from a price and a total.  onTotalChange.
LEMMA AmountIsNear ==
  ASSUME NEW price \in Nat, NEW total \in Nat
  PROVE  /\ AmountFor(total, price) \in Nat
         /\ price > 0 => Near(price, AmountFor(total, price), total)
<1> USE OrderFormAssumption
<1> DEFINE n == total * Unit
           h == HalfUp(n, price)
<1>1. CASE price = 0
  BY <1>1 DEF AmountFor
<1>2. CASE price > 0
  <2>1. n \in Nat /\ price \in Nat \ {0}
    BY <1>2
  <2>2. /\ h \in Nat
        /\ 2 * (price * h) <= 2 * n + price
        /\ 2 * n < 2 * (price * h) + price
    BY <2>1, Rounding
  <2>3. AmountFor(total, price) = Fine * h
    BY <1>2 DEF AmountFor
  <2> HIDE DEF h
  <2>4. total * Unit * Fine = Fine * n /\ price * AmountFor(total, price) = Fine * (price * h)
    BY <2>2, <2>3
  <2>5. price * h \in Nat
    BY <2>2
  <2> HIDE DEF n
  <2>6. /\ Fine * (2 * (price * h)) <= Fine * (2 * n + price)
        /\ Fine * (2 * n) <= Fine * (2 * (price * h) + price)
    BY <2>1, <2>2, <2>5, Monotone
  <2>7. /\ 2 * (Fine * (price * h)) <= 2 * (Fine * n) + Fine * price
        /\ 2 * (Fine * n) <= 2 * (Fine * (price * h)) + Fine * price
    BY <2>1, <2>5, <2>6
  <2>8. 2 * Difference(Fine * n, Fine * (price * h)) <= Fine * price
    <3>1. Fine * n \in Nat /\ Fine * (price * h) \in Nat /\ Fine * price \in Nat
      BY <2>1, <2>5
    <3> QED BY <2>7, <3>1, DifferenceBound
  <2>9. Difference(Fine * n, Fine * (price * h)) \in Nat
    BY <2>1, <2>5 DEF Difference
  <2>10. Fine * price <= Slack(price) /\ Slack(price) \in Nat /\ Fine * price \in Nat
    BY SlackBound
  <2> QED BY <2>2, <2>3, <2>4, <2>8, <2>9, <2>10 DEF Near
<1> QED BY <1>1, <1>2

-----------------------------------------------------------------------------
(* The form.                                                               *)

Good(f) ==
  /\ f \in [price : Nat, amount : Nat, total : Nat]
  /\ (f.price > 0 /\ f.amount > 0 /\ f.total > 0) => Near(f.price, f.amount, f.total)

\* The inductive invariant: types, a waiting button for every call, and the
\* fields of each side.
FormInv ==
  /\ TypeOK
  /\ OneOrderAtATime
  /\ \A s \in Sides : Good(fields[s])

LEMMA FormInvImplies == FormInv => TypeOK /\ OneOrderAtATime /\ FormAddsUp
<1> SUFFICES ASSUME FormInv PROVE FormAddsUp
  BY DEF FormInv
<1>1. ASSUME NEW s \in Sides,
             fields[s].price > 0 /\ fields[s].amount > 0 /\ fields[s].total > 0
      PROVE  2 * Difference(fields[s].total * Unit * Fine, fields[s].price * fields[s].amount)
                <= Fine * (IF fields[s].price > Unit * Fine THEN fields[s].price ELSE Unit * Fine)
  BY <1>1 DEF FormInv, Good, Near, Slack
<1> QED BY <1>1 DEF FormAddsUp

LEMMA BlankIsGood == Good(Blank)
  BY DEF Good, Blank

LEMMA FormInit == Init => FormInv
<1> SUFFICES ASSUME Init PROVE FormInv
  OBVIOUS
<1>1. TypeOK
  BY DEF Init, TypeOK, BlankFields, Blank, Idle
<1>2. OneOrderAtATime
  BY DEF Init, OneOrderAtATime, Idle
<1>3. \A s \in Sides : Good(fields[s])
  BY BlankIsGood DEF Init, BlankFields
<1> QED BY <1>1, <1>2, <1>3 DEF FormInv

\* A step that gives one side new fields and leaves the rest of the form.
LEMMA EditKeepsInv ==
  ASSUME FormInv, NEW s \in Sides, NEW f, Good(f),
         fields' = [fields EXCEPT ![s] = f],
         UNCHANGED <<mounted, loggedIn, selectedMarket, placing, failed, requests, sent>>
  PROVE  FormInv'
<1>1. fields \in [Sides -> [price : Nat, amount : Nat, total : Nat]]
  BY DEF FormInv, TypeOK
<1>2. \A t \in Sides : fields'[t] = IF t = s THEN f ELSE fields[t]
  BY <1>1
<1>3. \A t \in Sides : Good(fields'[t])
  BY <1>2 DEF FormInv
<1>4. fields' \in [Sides -> [price : Nat, amount : Nat, total : Nat]]
  BY <1>1 DEF Good
<1>5. TypeOK'
  BY <1>4 DEF FormInv, TypeOK
<1>6. OneOrderAtATime'
  BY DEF FormInv, OneOrderAtATime
<1>7. (\A t \in Sides : Good(fields[t]))'
  BY <1>3
<1> QED BY <1>5, <1>6, <1>7 DEF FormInv

LEMMA EditStep == ASSUME FormInv, Edit PROVE FormInv'
<1>1. PICK s \in Sides, v \in Typed :
        OnPriceChange(s, v) \/ OnAmountChange(s, v) \/ OnTotalChange(s, v)
  BY DEF Edit
<1>2. v \in Nat
  BY OrderFormAssumption
<1>3. /\ fields \in [Sides -> [price : Nat, amount : Nat, total : Nat]]
      /\ fields[s] \in [price : Nat, amount : Nat, total : Nat]
  BY DEF FormInv, TypeOK
<1> DEFINE p == fields[s].price
           a == fields[s].amount
<1>4. CASE OnPriceChange(s, v)
  <2> DEFINE f == [fields[s] EXCEPT !.price = v, !.total = CostOf(v, a)]
  <2>1. f.price = v /\ f.amount = a /\ f.total = CostOf(v, a)
    BY <1>3
  <2>2. Good(f)
    BY <1>2, <1>3, <2>1, CostIsNear DEF Good
  <2>3. fields' = [fields EXCEPT ![s] = f]
    BY <1>3, <1>4 DEF OnPriceChange
  <2> QED BY <1>4, <2>2, <2>3, EditKeepsInv DEF OnPriceChange
<1>5. CASE OnAmountChange(s, v)
  <2> DEFINE f == [fields[s] EXCEPT !.amount = v, !.total = CostOf(p, v)]
  <2>1. f.price = p /\ f.amount = v /\ f.total = CostOf(p, v)
    BY <1>3
  <2>2. Good(f)
    BY <1>2, <1>3, <2>1, CostIsNear DEF Good
  <2>3. fields' = [fields EXCEPT ![s] = f]
    BY <1>3, <1>5 DEF OnAmountChange
  <2> QED BY <1>5, <2>2, <2>3, EditKeepsInv DEF OnAmountChange
<1>6. CASE OnTotalChange(s, v)
  <2> DEFINE f == [fields[s] EXCEPT !.amount = AmountFor(v, p), !.total = v]
  <2>1. f.price = p /\ f.amount = AmountFor(v, p) /\ f.total = v
    BY <1>3
  <2>2. Good(f)
    BY <1>2, <1>3, <2>1, AmountIsNear DEF Good
  <2>3. fields' = [fields EXCEPT ![s] = f]
    BY <1>3, <1>6 DEF OnTotalChange
  <2> QED BY <1>6, <2>2, <2>3, EditKeepsInv DEF OnTotalChange
<1> QED BY <1>1, <1>4, <1>5, <1>6

LEMMA UnitsAreNat == ASSUME NEW n \in Nat PROVE Units(n) \in Nat
  BY OrderFormAssumption, Rounding DEF Units

\* bid, ask: no call of the form that is shown was under way.
LEMMA PlaceStep == ASSUME FormInv, NEW s \in Sides, Place(s) PROVE FormInv'
<1> USE DEF FormInv, TypeOK
<1> DEFINE new == [id |-> sent + 1, side |-> s, market |-> selectedMarket,
                   price |-> Units(fields[s].price), quantity |-> Units(fields[s].amount),
                   mine |-> TRUE]
<1>1. /\ requests' = requests \cup {new}
      /\ placing' = [placing EXCEPT ![s] = TRUE]
      /\ sent' = sent + 1
      /\ UNCHANGED <<mounted, loggedIn, selectedMarket, fields, failed>>
      /\ \A t \in Sides : ~ placing[t]
  BY DEF Place, IsValid
<1>2. new \in Request
  <2>1. fields[s].price \in Nat /\ fields[s].amount \in Nat
    OBVIOUS
  <2> QED BY <2>1, UnitsAreNat DEF Request
<1>3. \A r \in requests : ~ r.mine
  <2>1. \A r \in requests : r.side \in Sides
    BY DEF Request
  <2> QED BY <1>1, <2>1 DEF OneOrderAtATime
<1>4. new.mine /\ new.side = s
  OBVIOUS
<1> HIDE DEF new
<1>5. TypeOK'
  BY <1>1, <1>2
<1>6. OneOrderAtATime'
  <2>1. \A r, q \in requests' : r.mine /\ q.mine => r = q
    BY <1>1, <1>3
  <2>2. ASSUME NEW t \in Sides
        PROVE  placing'[t] <=> \E r \in requests' : r.mine /\ r.side = t
    BY <1>1, <1>3, <1>4
  <2> QED BY <2>1, <2>2 DEF OneOrderAtATime
<1>7. (\A t \in Sides : Good(fields[t]))'
  BY <1>1
<1> QED BY <1>5, <1>6, <1>7

\* An answer that reaches the form it was sent from is the only one it waits
\* for; the others leave the form alone.
LEMMA AnswerKeepsOne ==
  ASSUME FormInv, NEW r \in requests,
         requests' = requests \ {r},
         placing' = IF r.mine THEN [placing EXCEPT ![r.side] = FALSE] ELSE placing
  PROVE  /\ OneOrderAtATime'
         /\ requests' \subseteq Request
         /\ placing' \in [Sides -> BOOLEAN]
<1> USE DEF FormInv, TypeOK
<1>1. r.side \in Sides /\ r.mine \in BOOLEAN
  BY DEF Request
<1>2. \A q, t \in requests' : q.mine /\ t.mine => q = t
  BY DEF OneOrderAtATime
<1>3. ASSUME NEW t \in Sides
      PROVE  placing'[t] <=> \E q \in requests' : q.mine /\ q.side = t
  <2>1. CASE r.mine
    <3>1. \A q \in requests' : ~ q.mine
      BY <2>1 DEF OneOrderAtATime
    <3>2. \A u \in Sides : u # r.side => ~ placing[u]
      BY <2>1 DEF OneOrderAtATime
    <3> QED BY <1>1, <2>1, <3>1, <3>2
  <2>2. CASE ~ r.mine
    BY <2>2 DEF OneOrderAtATime
  <2> QED BY <2>1, <2>2
<1>4. placing' \in [Sides -> BOOLEAN]
  BY <1>1
<1> QED BY <1>2, <1>3, <1>4 DEF OneOrderAtATime

LEMMA AnswerStep == ASSUME FormInv, Answer PROVE FormInv'
<1>1. PICK r \in requests : Accepted(r) \/ Refused(r)
  BY DEF Answer
<1>2. r.side \in Sides /\ r.mine \in BOOLEAN
  BY DEF FormInv, TypeOK, Request
<1>3. /\ requests' = requests \ {r}
      /\ placing' = IF r.mine THEN [placing EXCEPT ![r.side] = FALSE] ELSE placing
      /\ UNCHANGED <<mounted, loggedIn, selectedMarket, sent>>
  BY <1>1 DEF Accepted, Refused
<1>4. fields' = IF Accepted(r) /\ r.mine THEN [fields EXCEPT ![r.side] = Blank] ELSE fields
  BY <1>1 DEF Accepted, Refused
<1>5. failed' = IF ~ Accepted(r) /\ r.mine THEN [failed EXCEPT ![r.side] = TRUE] ELSE failed
  BY <1>1 DEF Accepted, Refused
<1>6. (\A t \in Sides : Good(fields[t]))'
  <2>1. \A t \in Sides : fields'[t] = fields[t] \/ fields'[t] = Blank
    BY <1>4 DEF FormInv, TypeOK
  <2> QED BY <2>1, BlankIsGood DEF FormInv
<1>7. fields' \in [Sides -> [price : Nat, amount : Nat, total : Nat]]
  BY <1>4, BlankIsGood DEF FormInv, TypeOK, Good
<1>8. failed' \in [Sides -> BOOLEAN]
  BY <1>2, <1>5 DEF FormInv, TypeOK
<1>9. /\ OneOrderAtATime'
      /\ requests' \subseteq Request
      /\ placing' \in [Sides -> BOOLEAN]
  BY <1>3, AnswerKeepsOne
<1>10. TypeOK'
  BY <1>3, <1>7, <1>8, <1>9 DEF FormInv, TypeOK
<1> QED BY <1>6, <1>9, <1>10 DEF FormInv

\* A form that is left waits for nothing, whatever is still under way.
LEMMA LeaveStep == ASSUME FormInv, Leave PROVE FormInv'
<1> DEFINE left(r) == [r EXCEPT !.mine = FALSE]
<1>1. /\ mounted' = FALSE /\ fields' = BlankFields /\ placing' = Idle /\ failed' = Idle
      /\ requests' = {left(r) : r \in requests}
      /\ UNCHANGED <<loggedIn, selectedMarket, sent>>
  BY DEF Leave
<1>2. \A r \in Request : left(r) \in Request /\ ~ left(r).mine
  BY DEF Request
<1>3. requests \subseteq Request
  BY DEF FormInv, TypeOK
<1>4. requests' \subseteq Request /\ \A q \in requests' : ~ q.mine
  BY <1>1, <1>2, <1>3
<1>5. TypeOK'
  BY <1>1, <1>4, BlankIsGood DEF FormInv, TypeOK, BlankFields, Idle, Good
<1>6. OneOrderAtATime'
  BY <1>1, <1>4 DEF OneOrderAtATime, Idle
<1>7. (\A t \in Sides : Good(fields[t]))'
  BY <1>1, BlankIsGood DEF BlankFields
<1> QED BY <1>5, <1>6, <1>7 DEF FormInv

LEMMA FormStep == FormInv /\ [Next]_vars => FormInv'
<1> SUFFICES ASSUME FormInv, [Next]_vars PROVE FormInv'
  OBVIOUS
<1>1. CASE Edit
  BY <1>1, EditStep
<1>2. CASE \E s \in Sides : Place(s)
  BY <1>2, PlaceStep
<1>3. CASE Answer
  BY <1>3, AnswerStep
<1>4. CASE \E m \in Markets : SelectMarket(m)
  BY <1>4 DEF SelectMarket, formVars, FormInv, TypeOK, OneOrderAtATime
<1>5. CASE Leave
  BY <1>5, LeaveStep
<1>6. CASE Return
  BY <1>6 DEF Return, formVars, FormInv, TypeOK, OneOrderAtATime
<1>7. CASE LogInOrOut
  BY <1>7 DEF LogInOrOut, formVars, FormInv, TypeOK, OneOrderAtATime
<1>8. CASE UNCHANGED vars
  BY <1>8 DEF vars, FormInv, TypeOK, OneOrderAtATime
<1> QED BY <1>1, <1>2, <1>3, <1>4, <1>5, <1>6, <1>7, <1>8 DEF Next

-----------------------------------------------------------------------------
(* The pages around the form.                                              *)

LEMMA PushIsFormStep == ASSUME NEW path, Push(path) PROVE [Next]_vars
  BY DEF Push, Next

LEMMA NavigateIsFormStep == ASSUME Navigate PROVE [Next]_vars
  BY PushIsFormStep DEF Navigate

LEMMA OnBackupIsLocal == ASSUME NEW next, OnBackup(next) PROVE UNCHANGED vars
  BY DEF OnBackup

LEMMA OnTransferIsLocal == ASSUME NEW next, OnTransfer(next) PROVE UNCHANGED vars
  BY DEF OnTransfer

\* A step of a page is a step of the form or none.
LEMMA PagesStepIsFormStep == ASSUME [PagesNext]_pageVars PROVE [Next]_vars
<1>1. CASE Navigate
  BY <1>1, NavigateIsFormStep
<1>2. CASE OnExchange
  BY <1>2 DEF OnExchange, Next
<1>3. CASE OrderAnswered
  BY <1>3 DEF OrderAnswered, Next
<1>4. CASE EditCreate
  BY <1>4 DEF EditCreate
<1>5. CASE SetPassword
  BY <1>5, PushIsFormStep DEF SetPassword
<1>6. CASE EditTransfer \/ Review \/ BackToTransfer \/ Send \/ SendTimer
  BY <1>6, OnTransferIsLocal DEF EditTransfer, Review, BackToTransfer, Send, SendTimer
<1>7. CASE OnEntry \/ OnDownload \/ OnManualCopy
  BY <1>7, OnBackupIsLocal DEF OnEntry, OnDownload, OnManualCopy
<1>8. CASE \E i \in Cells, w \in Cells \cup {NoWord} : OnSeedChange(i, w)
  BY <1>8, OnBackupIsLocal DEF OnSeedChange
<1>9. CASE \E i \in Cells, words \in Clipboard : OnSeedPaste(i, words)
  BY <1>9, OnBackupIsLocal DEF OnSeedPaste
<1>10. CASE BackToManualCopy \/ CompleteManualCopy
  BY <1>10, OnBackupIsLocal DEF BackToManualCopy, CompleteManualCopy
<1>11. CASE UNCHANGED pageVars
  BY <1>11 DEF pageVars
<1> QED BY <1>1, <1>2, <1>3, <1>4, <1>5, <1>6, <1>7, <1>8, <1>9, <1>10, <1>11 DEF PagesNext

LEMMA FormAlways == PagesSpec => []FormInv
<1>1. PagesInit => FormInv
  BY FormInit DEF PagesInit
<1>2. FormInv /\ [PagesNext]_pageVars => FormInv'
  BY FormStep, PagesStepIsFormStep
<1> QED BY <1>1, <1>2, PTL DEF PagesSpec

\* Whatever page is shown, left and shown again, the order form on it is that
\* of OrderForm: no step of another page disturbs it.  Main, Exchange.
THEOREM PagesKeepTheForm == PagesSpec => Init /\ [][Next]_vars
<1>1. PagesInit => Init
  BY DEF PagesInit
<1> QED BY <1>1, PagesStepIsFormStep, PTL DEF PagesSpec

\* Every variable of the form keeps its type; in particular the units sent are
\* whole numbers.  OrderForm.
THEOREM FormTypes == PagesSpec => []TypeOK
  BY FormAlways, FormInvImplies, PTL

\* The form that is shown waits for one answer at most, and exactly while a
\* button says so.  OrderForm.isValid, bid, ask.
THEOREM OneOrderIsPlacedAtATime == PagesSpec => []OneOrderAtATime
  BY FormAlways, FormInvImplies, PTL

\* The total is the price of the amount up to the rounding, for every unit,
\* every fineness and whatever was typed in whatever order.
\* OrderForm.onPriceChange, onAmountChange, onTotalChange.
THEOREM FormAlwaysAddsUp == PagesSpec => []FormAddsUp
  BY FormAlways, FormInvImplies, PTL

-----------------------------------------------------------------------------
(* The back-up of the phrase, and the transfer.                            *)

Views == {"Entry", "Download", "Manual"}
Seeds == {<<>>} \cup [Cells -> Cells \cup {NoWord}]

\* The inductive invariant.  The mark of the manual copy may stand without the
\* phrase only in the manual view, which resets it on the way back.
BackupInv ==
  /\ backup \in [currentView : Views, hasAcknowledgedDownload : BOOLEAN,
                  hasAcknowledgedManualCopy : BOOLEAN, isShowingSeed : BOOLEAN,
                  isConfirmingSeed : BOOLEAN, isShowingSkipModal : BOOLEAN, seeds : Seeds]
  /\ backup.isConfirmingSeed => backup.isShowingSeed /\ backup.currentView = "Manual"
  /\ backup.hasAcknowledgedManualCopy /\ backup.currentView # "Manual" => backup.seeds = Phrase

TransferInv ==
  /\ transfer \in [recipientAddress : Texts \cup {Empty}, amount : Texts \cup {Empty},
                    isReviewing : BOOLEAN, isSending : BOOLEAN, isCompleted : BOOLEAN,
                    timers : Nat]
  /\ TransferIsSentOnce

LEMMA BlankBackupInv == backup = BlankBackup => BackupInv
  BY DEF BlankBackup, BackupInv, Views, Seeds

LEMMA BlankTransferInv == transfer = BlankTransfer => TransferInv
  BY DEF BlankTransfer, TransferInv, TransferIsSentOnce

LEMMA PushStep == ASSUME BackupInv, TransferInv, NEW path, Push(path)
                  PROVE  BackupInv' /\ TransferInv'
<1>1. backup' = BlankBackup /\ (transfer' = transfer \/ transfer' = BlankTransfer)
  BY DEF Push
<1>2. BackupInv'
  BY <1>1 DEF BlankBackup, BackupInv, Views, Seeds
<1>3. TransferInv'
  <2>1. CASE transfer' = transfer
    BY <2>1 DEF TransferInv, TransferIsSentOnce
  <2>2. CASE transfer' = BlankTransfer
    BY <2>2 DEF BlankTransfer, TransferInv, TransferIsSentOnce
  <2> QED BY <1>1, <2>1, <2>2
<1> QED BY <1>2, <1>3

LEMMA TransferStep ==
  ASSUME BackupInv, TransferInv, EditTransfer \/ Review \/ BackToTransfer \/ Send \/ SendTimer
  PROVE  BackupInv' /\ TransferInv'
<1> USE DEF TransferInv, TransferIsSentOnce, OnTransfer
<1>0. UNCHANGED backup
  BY DEF EditTransfer, Review, BackToTransfer, Send, SendTimer
<1>1. BackupInv'
  BY <1>0 DEF BackupInv
<1>2. CASE EditTransfer
  <2>1. PICK t \in Texts \cup {Empty} : \/ transfer' = [transfer EXCEPT !.recipientAddress = t]
                                        \/ transfer' = [transfer EXCEPT !.amount = t]
    BY <1>2 DEF EditTransfer
  <2> QED BY <1>1, <2>1
<1>3. CASE Review
  BY <1>1, <1>3 DEF Review
<1>4. CASE BackToTransfer
  BY <1>1, <1>4 DEF BackToTransfer
<1>5. CASE Send
  <2>1. ~ transfer.isSending /\ transfer.timers = 0
    BY <1>5 DEF Send, TransferIsValid
  <2>2. transfer' = [transfer EXCEPT !.isSending = TRUE, !.timers = 1]
    BY <1>5, <2>1 DEF Send
  <2> QED BY <1>1, <2>2
<1>6. CASE SendTimer
  <2>1. transfer.timers = 1 /\ transfer.timers - 1 = 0
    BY <1>6 DEF SendTimer
  <2>2. transfer' = [transfer EXCEPT !.isSending = FALSE, !.isReviewing = FALSE,
                                     !.isCompleted = TRUE, !.timers = 0]
    BY <1>6, <2>1, Zenon DEF SendTimer
  <2> QED BY <1>1, <2>2
<1> QED BY <1>2, <1>3, <1>4, <1>5, <1>6

\* Typing and pasting fill the cells with words.
LEMMA FilledCells ==
  ASSUME NEW seeds \in Seeds
  PROVE  Filled(seeds) \in [Cells -> Cells \cup {NoWord}]
  BY DEF Filled, Seeds

LEMMA ClipboardIsWords == Clipboard \subseteq Seq(Cells \cup {NoWord})
<1>1. Phrase \in Seq(Cells \cup {NoWord})
  <2>1. PhraseLength \in Nat /\ Phrase \in [1 .. PhraseLength -> Cells \cup {NoWord}]
    BY PagesAssumption DEF Phrase, Cells
  <2> QED BY <2>1
<1>2. <<NoWord>> \in Seq(Cells \cup {NoWord})
  OBVIOUS
<1> QED BY <1>1, <1>2 DEF Clipboard

LEMMA SplicedCells ==
  ASSUME NEW cells \in [Cells -> Cells \cup {NoWord}], NEW i \in Cells, NEW words \in Clipboard
  PROVE  Spliced(cells, i, words) \in [Cells -> Cells \cup {NoWord}]
<1>1. words \in Seq(Cells \cup {NoWord})
  BY ClipboardIsWords
<1>2. PhraseLength \in Nat
  BY PagesAssumption
<1>3. ASSUME NEW c \in Cells, c \in i .. (i + Len(words) - 1)
      PROVE  words[c - i + 1] \in Cells \cup {NoWord}
  <2>1. i \in Nat /\ c \in Nat /\ Len(words) \in Nat
    BY <1>1, <1>2 DEF Cells
  <2>2. c - i + 1 \in 1 .. Len(words)
    BY <1>3, <2>1
  <2> QED BY <1>1, <2>2
<1> QED BY <1>3 DEF Spliced

\* A step of the back-up page, by the new value of its state.
LEMMA BackupStep ==
  ASSUME BackupInv, TransferInv,
         \/ OnEntry \/ OnDownload \/ OnManualCopy
         \/ \E i \in Cells, w \in Cells \cup {NoWord} : OnSeedChange(i, w)
         \/ \E i \in Cells, words \in Clipboard : OnSeedPaste(i, words)
         \/ BackToManualCopy \/ CompleteManualCopy
  PROVE  BackupInv' /\ TransferInv'
<1> USE DEF BackupInv, Views, View
<1>0. TransferInv'
  <2>1. UNCHANGED transfer
    BY DEF OnEntry, OnDownload, OnManualCopy, OnSeedChange, OnSeedPaste, BackToManualCopy,
           CompleteManualCopy, OnBackup
  <2> QED BY <2>1 DEF TransferInv, TransferIsSentOnce
<1>1. CASE OnEntry
  BY <1>0, <1>1 DEF OnEntry, OnBackup
<1>2. CASE OnDownload
  BY <1>0, <1>2 DEF OnDownload, OnBackup
<1>3. CASE OnManualCopy
  BY <1>0, <1>3 DEF OnManualCopy, ManualCopy, OnBackup
<1>4. ASSUME NEW i \in Cells, NEW w \in Cells \cup {NoWord}, OnSeedChange(i, w)
      PROVE  BackupInv'
  <2>1. [Filled(backup.seeds) EXCEPT ![i] = w] \in Seeds
    BY FilledCells DEF Seeds
  <2>2. /\ backup.isConfirmingSeed
        /\ backup' = [backup EXCEPT !.seeds = [Filled(backup.seeds) EXCEPT ![i] = w]]
    BY <1>4 DEF OnSeedChange, ConfirmCopy, OnBackup
  <2> QED BY <2>1, <2>2
<1>5. ASSUME NEW i \in Cells, NEW words \in Clipboard, OnSeedPaste(i, words)
      PROVE  BackupInv'
  <2>1. Spliced(Filled(backup.seeds), i, words) \in Seeds
    BY FilledCells, SplicedCells DEF Seeds
  <2>2. /\ backup.isConfirmingSeed
        /\ backup' = [backup EXCEPT !.seeds = Spliced(Filled(backup.seeds), i, words)]
    BY <1>5 DEF OnSeedPaste, ConfirmCopy, OnBackup
  <2> QED BY <2>1, <2>2
<1>6. CASE BackToManualCopy
  BY <1>0, <1>6 DEF BackToManualCopy, ConfirmCopy, OnBackup, Seeds
<1>7. CASE CompleteManualCopy
  BY <1>0, <1>7 DEF CompleteManualCopy, ConfirmCopy, OnBackup, IsValidSeed
<1> QED BY <1>0, <1>1, <1>2, <1>3, <1>4, <1>5, <1>6, <1>7

LEMMA GuidedStep ==
  BackupInv /\ TransferInv /\ [PagesNext]_pageVars => BackupInv' /\ TransferInv'
<1> SUFFICES ASSUME BackupInv, TransferInv, [PagesNext]_pageVars
             PROVE  BackupInv' /\ TransferInv'
  OBVIOUS
<1>1. CASE Navigate
  BY <1>1, PushStep DEF Navigate
<1>2. CASE SetPassword
  BY <1>2, PushStep DEF SetPassword
<1>3. CASE UNCHANGED <<transfer, backup>>
  BY <1>3 DEF BackupInv, TransferInv, TransferIsSentOnce
<1>4. OnExchange \/ OrderAnswered \/ EditCreate \/ UNCHANGED pageVars => UNCHANGED <<transfer, backup>>
  BY DEF OnExchange, OrderAnswered, EditCreate, pageVars, localVars
<1> QED BY <1>1, <1>2, <1>3, <1>4, TransferStep, BackupStep DEF PagesNext

\* The back-up is marked as copied by hand only with the phrase entered, nobody
\* is asked for a phrase that was not on display, and a transfer is sent once,
\* for a phrase of any length.  ConfirmSeedphrase, Transfer.
THEOREM NoStepIsSkipped == PagesSpec => []NoStepSkipped
<1>1. PagesInit => BackupInv /\ TransferInv
  BY BlankBackupInv, BlankTransferInv DEF PagesInit
<1>2. BackupInv /\ TransferInv => NoStepSkipped
  BY DEF BackupInv, TransferInv, NoStepSkipped, BackupIsVerified
<1> QED BY <1>1, <1>2, GuidedStep, PTL DEF PagesSpec
=============================================================================
