--------------------------- MODULE WalletAccounts ---------------------------
(***************************************************************************)
(* What the booking wallets promise: one account per contact.  A step pays *)
(* into one account, takes out of one, or sets the limit of one; what it   *)
(* takes out never leaves the balance below the credit of its contact.     *)
(***************************************************************************)
EXTENDS Integers

CONSTANTS
  Contacts,  \* the owners of the accounts
  Limits,    \* limits a contact may be given
  Credits,   \* the credit of a contact without a limit of its own
  None       \* no limit of one's own

VARIABLE accounts  \* per contact, balance and limit

Init == accounts = [c \in Contacts |-> [balance |-> 0, limit |-> None]]

CreditOf(c) == IF accounts[c].limit = None THEN Credits ELSE {accounts[c].limit}

\* Only the balance of c moves.
OnlyBalance(c) ==
  accounts' = [accounts EXCEPT ![c].balance = accounts'[c].balance]

PayIn(c) ==
  /\ OnlyBalance(c)
  /\ accounts'[c].balance > accounts[c].balance

TakeOut(c) ==
  /\ OnlyBalance(c)
  /\ accounts'[c].balance < accounts[c].balance
  /\ \E credit \in CreditOf(c) : accounts'[c].balance >= -credit

SetLimit(c, limit) ==
  accounts' = [accounts EXCEPT ![c].limit = limit]

Next ==
  \E c \in Contacts :
    \/ PayIn(c) \/ TakeOut(c)
    \/ \E limit \in Limits \cup {None} : SetLimit(c, limit)

Spec == Init /\ [][Next]_accounts

=============================================================================
