------------------------------- MODULE Routes -------------------------------
(***************************************************************************)
(* The routes of the web interface.  A path is the sequence of its         *)
(* segments.  Main takes the first route whose path is a prefix of the     *)
(* location; the Switch of Wallet compares whole paths.                    *)
(***************************************************************************)
EXTENDS Naturals, Sequences

EXCHANGE == <<"exchange">>
WALLET == <<"wallet">>
AUTHENTICATE == <<"authenticate">>
CONNECT_WALLET == <<"wallet", "connect">>
CONNECT_WALLET__SOFTWARE == <<"wallet", "connect", "software">>
CREATE_WALLET__SOFTWARE == <<"wallet", "create", "software">>
CONFIRM_SEEDPHRASE_BACKUP__SOFTWARE == <<"wallet", "create", "software", "confirm">>
TRANSFER == <<"wallet", "transfer">>
HOME == <<>>

Paths == {EXCHANGE, WALLET, AUTHENTICATE, CONNECT_WALLET, CONNECT_WALLET__SOFTWARE,
          CREATE_WALLET__SOFTWARE, CONFIRM_SEEDPHRASE_BACKUP__SOFTWARE, TRANSFER, HOME}

Table == << [path |-> EXCHANGE, component |-> "Exchange"],
            [path |-> CONNECT_WALLET__SOFTWARE, component |-> "Login"],
            [path |-> CREATE_WALLET__SOFTWARE, component |-> "CreateWallet"],
            [path |-> WALLET, component |-> "Wallet"],
            [path |-> AUTHENTICATE, component |-> "Authentication"],
            [path |-> HOME, component |-> "Exchange"] >>

Components == {"Exchange", "Login", "CreateWallet", "Wallet", "Authentication"}

IsPrefixOf(p, path) ==
    Len(p) <= Len(path) /\ \A j \in 1..Len(p) : p[j] = path[j]

\* The empty path matches everything, so Main's Redirect is never reached.
Route(path) ==
    LET matching == {i \in DOMAIN Table : IsPrefixOf(Table[i].path, path)}
        first == CHOOSE i \in matching : \A j \in matching : i <= j
    IN  Table[first].component

\* The part of the wallet under the side panel: nothing for its other paths.
WalletRoute(path) ==
    CASE path = WALLET   -> "WalletTable"
      [] path = TRANSFER -> "Transfer"
      [] OTHER           -> "nothing"

=============================================================================
