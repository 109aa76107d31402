------------------------------ MODULE Session ------------------------------
(***************************************************************************)
(* The session of the web interface: the user duck, the starting of the    *)
(* pollers of the sync middleware, the pages Authentication and Login, the *)
(* log-out buttons and the routes.  The node keeps ONE hot keybase in      *)
(* memory (src/embedded/auth): a cookie is good while it names that        *)
(* keybase, so a restart of the node or a login from another browser ends  *)
(* the session without telling the page.                                   *)
(*                                                                         *)
(* Every HTTP call is three steps: the page sends it, the node serves it   *)
(* (or it is lost) and the promise is settled in the page.                 *)
(***************************************************************************)
EXTENDS Routes, FiniteSets

CONSTANTS
    MaxFailures,  \* calls the network may lose, and answers that are neither 200 nor 401
    MaxReloads,   \* page reloads
    MaxAttempts   \* log-in attempts between two reloads

ASSUME BoundsAssumption ==
    {MaxFailures, MaxReloads, MaxAttempts} \subseteq Nat

VARIABLES
    valid,       \* the cookie of this browser names the keybase of the node
    spent,       \* how much of each bound is used
    isLoggedIn,  \* user.isLoggedIn of the store
    address,     \* user.address of the store
    check,       \* where the checkLogin thunk of this page load is
    chains,      \* how many chains of timers each poller of sync.ts runs
    page,        \* the component the router shows
    form,        \* local state of the log-in page that is mounted
    attempts     \* the log-in promises of this page load

login == <<isLoggedIn, address>>
pages == <<page, form, attempts>>
sessionVars == <<valid, spent, isLoggedIn, address, check, chains, page, form, attempts>>

Public == {"batch", "book", "markets"}
Private == {"orders", "balances"}
Loops == Public \cup Private
Methods == {"Keystore", "ZAR", "Local"}

LoginPages == {"Authentication", "Login"}

-----------------------------------------------------------------------------
(* The store.                                                              *)

\* Mutant: the handle is not looked at.
StartedAgain(names) ==
    [k \in Loops |-> IF k \in names THEN chains[k] + 1 ELSE chains[k]]

\* A poller of sync.ts is started when its handle is still unset, and the
\* handle is never cleared.
Started(names) ==
    [k \in Loops |-> IF k \in names /\ chains[k] = 0 THEN 1 ELSE chains[k]]

\* setAddress, then '%INIT': the reducer sets isLoggedIn, the middleware
\* starts every poller.
EnterAs(a) ==
    /\ address' = a
    /\ isLoggedIn' = "true"
    /\ chains' = Started(Loops)

BlankForm == [isLoggingIn |-> FALSE, errorMessage |-> FALSE]

\* history.push: the page that is left loses its state.
Go(p) ==
    /\ page' = p
    /\ form' = IF p = page THEN form ELSE BlankForm

Left(p) == [i \in DOMAIN attempts |->
              [attempts[i] EXCEPT !.mine = @ /\ p = page]]

-----------------------------------------------------------------------------
(* checkLogin, dispatched when Main is mounted.                            *)

CheckServed ==
    /\ check.at = "sent"
    /\ check' = [check EXCEPT !.at = IF valid THEN "200" ELSE "401"]
    /\ UNCHANGED <<valid, spent, login, chains, pages>>

\* A lost call rejects; a status that is neither 401 nor 200 does nothing.
CheckFails ==
    /\ check.at = "sent"
    /\ spent.failures < MaxFailures
    /\ check' = [check EXCEPT !.at = "failed"]
    /\ spent' = [spent EXCEPT !.failures = @ + 1]
    /\ UNCHANGED <<valid, login, chains, pages>>

\* Mutant: a visitor without a session gets no pollers.
CheckRefusedSilently ==
    /\ check = [call |-> "balances", at |-> "401"]
    /\ check' = [check EXCEPT !.at = "done"]
    /\ isLoggedIn' = "false"
    /\ UNCHANGED <<valid, spent, address, chains, pages>>

\* '%NOLOG' starts the public pollers only.
CheckRefused ==
    /\ check = [call |-> "balances", at |-> "401"]
    /\ check' = [check EXCEPT !.at = "done"]
    /\ isLoggedIn' = "false"
    /\ chains' = Started(Public)
    /\ UNCHANGED <<valid, spent, address, pages>>

CheckAsksMe ==
    /\ check = [call |-> "balances", at |-> "200"]
    /\ check' = [call |-> "me", at |-> "sent"]
    /\ UNCHANGED <<valid, spent, login, chains, pages>>

CheckPasses ==
    /\ check = [call |-> "me", at |-> "200"]
    /\ check' = [check EXCEPT !.at = "done"]
    /\ EnterAs("node")
    /\ UNCHANGED <<valid, spent, pages>>

\* The 401 body is plain text: json() throws and checkLogin logs it.
CheckThrows ==
    /\ check = [call |-> "me", at |-> "401"]
    /\ check' = [check EXCEPT !.at = "failed"]
    /\ UNCHANGED <<valid, spent, login, chains, pages>>

-----------------------------------------------------------------------------
(* The pages Authentication and Login.                                     *)

\* Login and the local tab of Authentication send the password as it is.
\* Enter submits whether or not an attempt is under way: only the button is
\* disabled by isLoggingIn.
Submit(m) ==
    /\ page \in LoginPages
    /\ page = "Login" => m = "Local"
    /\ Len(attempts) < MaxAttempts
    /\ form' = [isLoggingIn |-> TRUE, errorMessage |-> FALSE]
    /\ attempts' = Append(attempts, [method |-> m, phase |-> "posted", mine |-> TRUE])
    /\ UNCHANGED <<valid, spent, login, check, chains, page>>

\* loginKeystore and loginZAR want their fields filled.
SubmitIncomplete ==
    /\ page = "Authentication"
    /\ form' = [form EXCEPT !.errorMessage = TRUE]
    /\ UNCHANGED <<valid, spent, login, check, chains, page, attempts>>

\* Typing in a field or choosing another method clears the message.
EditLogin ==
    /\ page \in LoginPages
    /\ form' = [form EXCEPT !.errorMessage = FALSE]
    /\ UNCHANGED <<valid, spent, login, check, chains, page, attempts>>

Phase(i, p) == attempts' = [attempts EXCEPT ![i].phase = p]

\* The node checks the password and replaces the hot keybase; ZAR's server
\* and the key derivation answer without touching the session.
AttemptServed(i) ==
    /\ UNCHANGED <<spent, login, check, chains, page, form>>
    /\ \/ /\ attempts[i].phase = "posted"
          /\ \/ Phase(i, "204") /\ valid' = (valid \/ attempts[i].method = "Local")
             \/ Phase(i, IF attempts[i].method = "Keystore" THEN "rejected" ELSE "401")
                /\ UNCHANGED valid
       \/ /\ attempts[i].phase = "me"
          /\ Phase(i, IF valid THEN "me 200" ELSE "rejected")
          /\ UNCHANGED valid

\* A lost call rejects the promise: nothing resets isLoggingIn.
AttemptLost(i) ==
    /\ attempts[i].phase \in {"posted", "me"}
    /\ attempts[i].method # "Keystore"
    /\ spent.failures < MaxFailures
    /\ spent' = [spent EXCEPT !.failures = @ + 1]
    /\ Phase(i, "rejected")
    /\ UNCHANGED <<valid, login, check, chains, page, form>>

\* Mutant: a refusal leaves the button disabled.
RefusedStaysBusy(i) ==
    /\ attempts[i].phase = "401"
    /\ Phase(i, "done")
    /\ form' = IF attempts[i].mine THEN [form EXCEPT !.errorMessage = TRUE] ELSE form
    /\ UNCHANGED <<valid, spent, login, check, chains, page>>

AttemptRefused(i) ==
    /\ attempts[i].phase = "401"
    /\ Phase(i, "done")
    /\ form' = IF attempts[i].mine THEN [isLoggingIn |-> FALSE, errorMessage |-> TRUE]
                                   ELSE form
    /\ UNCHANGED <<valid, spent, login, check, chains, page>>

LocalAsksMe(i) ==
    /\ attempts[i].phase = "204" /\ attempts[i].method = "Local"
    /\ Phase(i, "me")
    /\ UNCHANGED <<valid, spent, login, check, chains, page, form>>

\* The page pushes the wallet even when it was left meanwhile.
ToWallet(i) ==
    /\ page' = "Wallet"
    /\ form' = BlankForm
    /\ attempts' = [Left("Wallet") EXCEPT ![i].phase = "done"]

LocalEnters(i) ==
    /\ attempts[i].phase = "me 200"
    /\ EnterAs("node")
    /\ ToWallet(i)
    /\ UNCHANGED <<valid, spent, check>>

\* loginZAR keeps no session yet: it only opens the wallet.
ZAREnters(i) ==
    /\ attempts[i].phase = "204" /\ attempts[i].method = "ZAR"
    /\ ToWallet(i)
    /\ UNCHANGED <<valid, spent, login, check, chains>>

\* loginKeystore takes the address from the file and stays on the page.
KeystoreEnters(i) ==
    /\ attempts[i].phase = "204" /\ attempts[i].method = "Keystore"
    /\ EnterAs("file")
    /\ form' = [form EXCEPT !.isLoggingIn = @ /\ ~ attempts[i].mine]
    /\ Phase(i, "done")
    /\ UNCHANGED <<valid, spent, check, page>>

\* The store forgets the address; the cookie, the pollers and what they
\* fetched stay.
Logout ==
    /\ isLoggedIn = "true"
    /\ address' = ""
    /\ isLoggedIn' = "false"
    /\ Go(Route(HOME))
    /\ attempts' = Left(Route(HOME))
    /\ UNCHANGED <<valid, spent, check, chains>>

\* The sidebar and the Login button of the header.
NavigateTo(path) ==
    /\ \/ path = EXCHANGE
       \/ path = WALLET /\ isLoggedIn = "true"
       \/ path = AUTHENTICATE /\ isLoggedIn # "true"
    /\ Go(Route(path))
    /\ attempts' = Left(Route(path))
    /\ UNCHANGED <<valid, spent, login, check, chains>>

-----------------------------------------------------------------------------
(* The environment: the chain, the node and the browser.                   *)

\* The node restarts, or another browser logs in and replaces the keybase.
SessionEnds ==
    /\ valid
    /\ valid' = FALSE
    /\ UNCHANGED <<spent, login, check, chains, pages>>

FreshChains == [k \in Loops |-> 0]
FirstCheck == [call |-> "balances", at |-> "sent"]

SessionInit ==
    /\ valid \in BOOLEAN
    /\ spent = [failures |-> 0, reloads |-> 0]
    /\ isLoggedIn = "undefined" /\ address = ""
    /\ check = FirstCheck
    /\ chains = FreshChains
    /\ page \in {Route(path) : path \in Paths}
    /\ form = BlankForm /\ attempts = <<>>

\* A reload drops everything but the cookie.
Reload(path) ==
    /\ spent.reloads < MaxReloads
    /\ spent' = [spent EXCEPT !.reloads = @ + 1]
    /\ isLoggedIn' = "undefined" /\ address' = ""
    /\ check' = FirstCheck
    /\ chains' = FreshChains
    /\ page' = Route(path)
    /\ form' = BlankForm /\ attempts' = <<>>
    /\ UNCHANGED valid

Check == \/ CheckServed \/ CheckRefused \/ CheckAsksMe \/ CheckPasses \/ CheckThrows

Attempt(i) == \/ AttemptServed(i) \/ AttemptRefused(i) \/ LocalAsksMe(i)
              \/ LocalEnters(i) \/ ZAREnters(i) \/ KeystoreEnters(i)

SessionNext ==
    \/ Check \/ CheckFails
    \/ \E m \in Methods : Submit(m)
    \/ SubmitIncomplete \/ EditLogin
    \/ \E i \in DOMAIN attempts : Attempt(i) \/ AttemptLost(i)
    \/ Logout
    \/ \E path \in Paths : NavigateTo(path) \/ Reload(path)
    \/ SessionEnds

\* Timers fire and promises settle; the user, the chain and the node's
\* restarts are under no obligation.
SessionFairness ==
    /\ WF_sessionVars(Check)
    /\ \A i \in 1..MaxAttempts : WF_sessionVars(i \in DOMAIN attempts /\ Attempt(i))

SessionSpec == SessionInit /\ [][SessionNext]_sessionVars /\ SessionFairness

-----------------------------------------------------------------------------
(* Properties.                                                             *)

SessionTypeOK ==
    /\ valid \in BOOLEAN
    /\ isLoggedIn \in {"undefined", "true", "false"}
    /\ address \in {"", "node", "file"}
    /\ check \in [call : {"balances", "me"}, at : {"sent", "200", "401", "done", "failed"}]
    /\ chains \in [Loops -> Nat]
    /\ page \in Components
    /\ form \in [isLoggingIn : BOOLEAN, errorMessage : BOOLEAN]

\* Whatever the checks, logins, log-outs and late answers did before, a page
\* that says it is logged in shows an address and polls the account, and no
\* poller ever runs twice (src/ui/src/store/middlewares/sync.ts starts them
\* behind a handle; src/ui/src/ducks/user sets the flag and the address in
\* separate dispatches).
LoggedInIsWhole ==
    /\ isLoggedIn = "true" => address # "" /\ \A k \in Private : chains[k] = 1
    /\ \A k \in Loops : chains[k] <= 1

\* The log-in button comes back: an attempt that is under way on the page is
\* answered, or its promise was rejected and the page is stuck.
LoginIsAnswered ==
    form.isLoggingIn ~> \/ ~ form.isLoggingIn
                        \/ \E i \in DOMAIN attempts :
                              attempts[i].mine /\ attempts[i].phase = "rejected"

\* The market is polled whoever visits, unless the first check fails.
MarketIsPolled ==
    []<>(check.at = "failed" \/ \A k \in Public : chains[k] = 1)

=============================================================================
