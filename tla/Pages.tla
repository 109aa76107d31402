------------------------------- MODULE Pages -------------------------------
(***************************************************************************)
(* The pages with a state of their own: the exchange with its order form   *)
(* (module OrderForm), the wallet's Transfer, CreateWallet and the back-up *)
(* of the seed phrase.  One page is mounted at a time; a page that is left *)
(* loses its state, but not its timers and calls.                          *)
(***************************************************************************)
EXTENDS OrderForm, Routes

CONSTANTS
    Texts,        \* what can be typed as a password, an address, an amount
    PhraseLength  \* words of the seed phrase (12 in the code)

ASSUME PagesAssumption == PhraseLength \in Nat \ {0}

VARIABLES
    location,  \* the path of the address bar
    create,    \* state of CreateWallet
    transfer,  \* state of Transfer
    backup     \* state of ConfirmSeedphrase

localVars == <<create, transfer, backup>>
exchangeVars == <<mounted, fields, placing, failed, requests, sent>>
pageVars == <<vars, location, localVars>>

\* No route mounts ConfirmSeedphrase: CREATE_WALLET__SOFTWARE is a prefix of
\* its path and comes first.  It is modelled as the page it is written to be.
BACKUP == <<"backup">>

Page(path) ==
    CASE path = BACKUP           -> "ConfirmSeedphrase"
      [] Route(path) = "Wallet"  -> WalletRoute(path)
      [] OTHER                   -> Route(path)

At(page) == Page(location) = page

-----------------------------------------------------------------------------
(* Local states of the pages.                                              *)

Empty == ""
Cells == 1..PhraseLength
Phrase == [i \in Cells |-> i]      \* the words of the phrase, all different
NoWord == 0

BlankCreate == [password |-> Empty, confirmPassword |-> Empty, hasAcknowledged |-> FALSE]

BlankTransfer == [recipientAddress |-> Empty, amount |-> Empty, isReviewing |-> FALSE,
                  isSending |-> FALSE, isCompleted |-> FALSE, timers |-> 0]

BlankBackup == [currentView |-> "Entry", hasAcknowledgedDownload |-> FALSE,
                hasAcknowledgedManualCopy |-> FALSE, isShowingSeed |-> FALSE,
                isConfirmingSeed |-> FALSE, isShowingSkipModal |-> FALSE,
                seeds |-> <<>>]

\* history.push.  Leaving the exchange unmounts its form, coming back mounts
\* a blank one; the path may change with the page staying the same.
Push(path) ==
    /\ location' = path
    /\ create' = IF Page(path) = "CreateWallet" THEN create ELSE BlankCreate
    /\ transfer' = IF Page(path) = "Transfer" THEN transfer ELSE BlankTransfer
    /\ backup' = BlankBackup
    /\ CASE mounted /\ Page(path) # "Exchange" -> Leave
         [] ~ mounted /\ Page(path) = "Exchange" -> Return
         [] OTHER -> UNCHANGED vars

-----------------------------------------------------------------------------
(* CreateWallet.                                                           *)

CreateIsValid ==
    /\ create.password # Empty /\ create.confirmPassword # Empty
    /\ create.password = create.confirmPassword
    /\ create.hasAcknowledged

EditCreate ==
    /\ At("CreateWallet")
    /\ \/ \E t \in Texts \cup {Empty} :
            create' \in {[create EXCEPT !.password = t], [create EXCEPT !.confirmPassword = t]}
       \/ create' = [create EXCEPT !.hasAcknowledged = ~ @]
    /\ UNCHANGED <<vars, location, transfer, backup>>

SetPassword ==
    /\ At("CreateWallet")
    /\ CreateIsValid
    /\ Push(CONFIRM_SEEDPHRASE_BACKUP__SOFTWARE)

-----------------------------------------------------------------------------
(* Transfer.                                                               *)

TransferIsValid ==
    transfer.amount # Empty /\ transfer.recipientAddress # Empty /\ ~ transfer.isSending

OnTransfer(next) ==
    /\ At("Transfer")
    /\ transfer' = next
    /\ UNCHANGED <<vars, location, create, backup>>

\* renderSend: shown unless the review or the end is.
EditTransfer ==
    /\ ~ transfer.isReviewing /\ ~ transfer.isCompleted
    /\ \E t \in Texts \cup {Empty} :
         \/ OnTransfer([transfer EXCEPT !.recipientAddress = t])
         \/ OnTransfer([transfer EXCEPT !.amount = t])

Review ==
    /\ ~ transfer.isReviewing /\ ~ transfer.isCompleted
    /\ TransferIsValid
    /\ OnTransfer([transfer EXCEPT !.isReviewing = TRUE])

\* The link of the header: it works while the transfer is being sent.
BackToTransfer ==
    /\ transfer.isReviewing /\ ~ transfer.isCompleted
    /\ OnTransfer([transfer EXCEPT !.isReviewing = FALSE])

\* send starts a timer of two seconds; no call leaves the browser.
Send ==
    /\ transfer.isReviewing /\ ~ transfer.isCompleted
    /\ TransferIsValid
    /\ OnTransfer([transfer EXCEPT !.isSending = TRUE, !.timers = @ + 1])

\* Mutant: the timer looks for the review that was left.
TimerOnReview ==
    /\ transfer.timers > 0 /\ transfer.isReviewing
    /\ OnTransfer([transfer EXCEPT !.isSending = FALSE, !.isReviewing = FALSE,
                                   !.isCompleted = TRUE, !.timers = @ - 1])

SendTimer ==
    /\ transfer.timers > 0
    /\ OnTransfer([transfer EXCEPT !.isSending = FALSE, !.isReviewing = FALSE,
                                   !.isCompleted = TRUE, !.timers = @ - 1])

-----------------------------------------------------------------------------
(* ConfirmSeedphrase.                                                      *)

OnBackup(next) ==
    /\ At("ConfirmSeedphrase")
    /\ backup' = next
    /\ UNCHANGED <<vars, location, create, transfer>>

\* Twelve cells, those never filled empty.
Filled(seeds) == [i \in Cells |-> IF i \in DOMAIN seeds THEN seeds[i] ELSE NoWord]

\* Mutant: any twelve words will do.
IsFilledSeed == Len(backup.seeds) = PhraseLength

IsValidSeed == backup.seeds = Phrase

View(v) == backup.currentView = v /\ ~ backup.isShowingSkipModal
ManualCopy == View("Manual") /\ ~ backup.isConfirmingSeed
ConfirmCopy == View("Manual") /\ backup.isConfirmingSeed

OnEntry ==
    \/ /\ View("Entry")
       /\ \/ \E v \in {"Download", "Manual"} :
               OnBackup([backup EXCEPT !.currentView = v])
          \/ OnBackup([backup EXCEPT !.isShowingSkipModal = TRUE])
    \/ /\ backup.isShowingSkipModal
       /\ OnBackup([backup EXCEPT !.isShowingSkipModal = FALSE])

OnDownload ==
    /\ View("Download")
    /\ \/ OnBackup([backup EXCEPT !.hasAcknowledgedDownload = ~ @])
       \/ OnBackup([backup EXCEPT !.currentView = "Entry",
                                  !.hasAcknowledgedDownload = FALSE])
       \/ /\ backup.hasAcknowledgedDownload
          /\ OnBackup([backup EXCEPT !.currentView = "Entry"])

OnManualCopy ==
    /\ ManualCopy
    /\ \/ OnBackup([backup EXCEPT !.isShowingSeed = TRUE])
       \/ OnBackup([backup EXCEPT !.currentView = "Entry",
                                  !.hasAcknowledgedManualCopy = FALSE,
                                  !.isShowingSeed = FALSE])
       \/ /\ backup.isShowingSeed
          /\ OnBackup([backup EXCEPT !.isConfirmingSeed = TRUE])

OnSeedChange(i, word) ==
    /\ ConfirmCopy
    /\ OnBackup([backup EXCEPT !.seeds = [Filled(@) EXCEPT ![i] = word]])

\* splice(index, n, ...words) on the cells, then the first twelve: words that
\* do not fit are dropped.  A single word is left to OnSeedChange.
Spliced(cells, i, words) ==
    [c \in Cells |-> IF c \in i..(i + Len(words) - 1) THEN words[c - i + 1] ELSE cells[c]]

OnSeedPaste(i, words) ==
    /\ ConfirmCopy
    /\ Len(words) >= 2
    /\ OnBackup([backup EXCEPT !.seeds = Spliced(Filled(@), i, words)])

BackToManualCopy ==
    /\ ConfirmCopy
    /\ OnBackup([backup EXCEPT !.isConfirmingSeed = FALSE, !.seeds = <<>>])

CompleteManualCopy ==
    /\ ConfirmCopy
    /\ IsValidSeed
    /\ OnBackup([backup EXCEPT !.isConfirmingSeed = FALSE,
                               !.currentView = "Entry",
                               !.hasAcknowledgedManualCopy = TRUE])

\* The phrase as the clipboard has it: alone, or with the white space before
\* or after it that split makes an empty word of.
Clipboard == {Phrase, <<NoWord>> \o Phrase, Phrase \o <<NoWord>>}

-----------------------------------------------------------------------------

PagesInit ==
    /\ Init
    /\ location \in Paths \cup {BACKUP}
    /\ mounted = At("Exchange")
    /\ create = BlankCreate /\ transfer = BlankTransfer /\ backup = BlankBackup

\* The sidebar, the links of CreateWallet and Transfer, the button of the
\* wallet table, and the overlay of the order form.
Navigate ==
    \/ Push(EXCHANGE)
    \/ loggedIn /\ Push(WALLET)
    \/ ~ loggedIn /\ Push(AUTHENTICATE)
    \/ At("CreateWallet") /\ Push(CONNECT_WALLET)
    \/ At("WalletTable") /\ Push(TRANSFER)
    \/ At("Transfer") /\ Push(WALLET)

\* The order form, while the page it is on stays.
OnExchange ==
    /\ \/ Edit \/ \E s \in Sides : Place(s)
       \/ \E m \in Markets : SelectMarket(m)
       \/ LogInOrOut
    /\ UNCHANGED <<location, localVars>>

OrderAnswered == Answer /\ UNCHANGED <<location, localVars>>

PagesNext ==
    \/ Navigate
    \/ OnExchange \/ OrderAnswered
    \/ EditCreate \/ SetPassword
    \/ EditTransfer \/ Review \/ BackToTransfer \/ Send \/ SendTimer
    \/ OnEntry \/ OnDownload \/ OnManualCopy
    \/ \E i \in Cells, w \in Cells \cup {NoWord} : OnSeedChange(i, w)
    \/ \E i \in Cells, words \in Clipboard : OnSeedPaste(i, words)
    \/ BackToManualCopy \/ CompleteManualCopy

PagesSpec == /\ PagesInit /\ [][PagesNext]_pageVars
             /\ WF_pageVars(OrderAnswered) /\ WF_pageVars(SendTimer)

-----------------------------------------------------------------------------
(* Properties.                                                             *)

\* No step of the two guided pages is skipped.  The back-up is marked as
\* copied by hand only with the phrase entered: no way through the views,
\* with seeds left over from an earlier visit, marks it otherwise, and nobody
\* is asked for a phrase that was not on display.  A transfer is sent once,
\* whatever is clicked while it is being sent (Transfer.isValid,
\* ConfirmSeedphrase.isValidSeed).
BackupIsVerified ==
    /\ backup.currentView = "Entry" /\ backup.hasAcknowledgedManualCopy =>
          backup.seeds = Phrase
    /\ backup.isConfirmingSeed => backup.isShowingSeed

TransferIsSentOnce == transfer.timers = IF transfer.isSending THEN 1 ELSE 0

NoStepSkipped == BackupIsVerified /\ TransferIsSentOnce

\* Every wait ends: a button that says an order is being placed comes back,
\* and so does the page that is sending a transfer.
WaitingEnds == PlacingEnds /\ (transfer.isSending ~> ~ transfer.isSending)

=============================================================================
