-------------------------- MODULE FacilityBilling --------------------------
(***************************************************************************)
(* Invoices and wallets of facility bookings: FacilityBookingBillingService *)
(* with its invoice, ledger and wallet repositories, as concurrent requests *)
(* against one database (transactions at READ COMMITTED).                  *)
(*                                                                         *)
(* get_or_create of a wallet is an upsert: it waits for the wallet's row,  *)
(* returns it as last committed and locks it until the transaction ends    *)
(* (walletLock).  Unbilled entries and the status of an invoice are read   *)
(* without a lock.  What a handler writes becomes visible when it commits, *)
(* so all its writes are one step.                                         *)
(*                                                                         *)
(* Entries are the postings an invoice can list: positive charges of an    *)
(* invoiceable type (refunds and payments are never listed).  Invoice      *)
(* numbers, due dates, references and notifications are left out, and so   *)
(* are the checks of project membership and of enabled payment methods,    *)
(* which only refuse a request before it has read anything.                *)
(***************************************************************************)
EXTENDS Integers, FiniteSets, Functions

CONSTANTS
  Contacts,       \* residents with a wallet
  Entries,        \* ledger entries that can be posted (the model's bound)
  Invoices,       \* invoices that can be issued (the model's bound)
  Reqs,           \* requests in flight at once
  Amounts,        \* what an entry or a top-up may come to
  Adjustments,    \* amounts staff adjust a wallet by
  CustomLimits,   \* credit limits staff set on a wallet
  DefaultLimits,  \* credit limits staff set for the project
  Fallback,       \* the limit used for a project limit of zero (10000 in the code)
  MaxBalance,     \* top-ups and adjustments stop here (the model's bound)
  None            \* SQL NULL

Methods == {"wallet", "cash", "online"}

ASSUME BillingAssumption ==
  /\ IsFiniteSet(Entries)
  /\ Amounts \subseteq Nat \ {0}
  /\ Adjustments \subseteq Int \ {0}
  /\ CustomLimits \subseteq Nat
  /\ DefaultLimits \subseteq Nat
  /\ Fallback \in Nat
  /\ MaxBalance \in Nat
  /\ None \notin Contacts \cup Entries \cup Invoices \cup Reqs \cup Nat

VARIABLES
  entries,     \* facility_booking_ledger_entries that are invoiceable
  invoices,    \* facility_booking_invoices
  payments,    \* per invoice, how many payment entries the ledger holds
  wallets,     \* facility_booking_wallets
  txns,        \* per contact, the sum of facility_booking_wallet_transactions
  settings,    \* project_booking_settings.wallet_credit_limit
  walletLock,  \* per contact, the request that holds the wallet's row
  req          \* the requests' local state

vars == <<entries, invoices, payments, wallets, txns, settings, walletLock, req>>

-----------------------------------------------------------------------------
(* Rows *)

Entry == [contact : Contacts, amount : Amounts, invoice : Invoices \cup {None}]

Invoice == [contact : Contacts, lines : SUBSET Entries, total : Nat \ {0},
            status : {"issued", "paid"}]

\* NULL is no row.
ASSUME RowsAssumption == None \notin Entry \cup Invoice

Wallet == [balance : Int, limit : CustomLimits \cup {None}]

NewWallet == [balance |-> 0, limit |-> None]

IdleRequest == [pc |-> "idle", contact |-> None, amount |-> 0, limit |-> None,
                invoice |-> None, lines |-> {}, default |-> 0, wallet |-> NewWallet]

\* "adjust" and "pay_wallet" wait for the wallet, the "..._locked" ones hold it.
PCs == {"idle", "bill", "pay_direct", "pay_wallet", "pay_locked",
        "adjust", "adjust_locked", "top_up_locked", "limit_locked"}

Locked == {"pay_locked", "adjust_locked", "top_up_locked", "limit_locked"}

Request == [pc : PCs, contact : Contacts \cup {None}, amount : Int,
            limit : CustomLimits \cup {None}, invoice : Invoices \cup {None},
            lines : SUBSET Entries, default : Nat, wallet : Wallet]

FreeEntries  == {e \in Entries : entries[e] = None}
FreeInvoices == {i \in Invoices : invoices[i] = None}

\* The limit in force: the wallet's own, else the project's, where zero counts as unset.
DefaultLimit(setting) == IF setting = 0 THEN Fallback ELSE setting

EffectiveLimit(wallet, default) == IF wallet.limit = None THEN default ELSE wallet.limit

Init ==
  /\ entries = [e \in Entries |-> None]
  /\ invoices = [i \in Invoices |-> None]
  /\ payments = [i \in Invoices |-> 0]
  /\ wallets = [c \in Contacts |-> NewWallet]
  /\ txns = [c \in Contacts |-> 0]
  /\ settings \in DefaultLimits
  /\ walletLock = [c \in Contacts |-> None]
  /\ req = [r \in Reqs |-> IdleRequest]

-----------------------------------------------------------------------------
(* Charges, settings, the end of a request *)

\* A reservation or staff post a charge.
PostCharge(e, c, amount) ==
  /\ e \in FreeEntries
  /\ entries' = [entries EXCEPT ![e] = [contact |-> c, amount |-> amount, invoice |-> None]]
  /\ UNCHANGED <<invoices, payments, wallets, txns, settings, walletLock, req>>

UpdateSettings(limit) ==
  /\ settings' = limit
  /\ UNCHANGED <<entries, invoices, payments, wallets, txns, walletLock, req>>

\* The transaction ends, by commit or rollback: its lock is freed.
End(r) ==
  /\ req' = [req EXCEPT ![r] = IdleRequest]
  /\ walletLock' = [c \in Contacts |-> IF walletLock[c] = r THEN None ELSE walletLock[c]]

\* Any request can fail at any point, and is rolled back.
Abort(r) ==
  /\ req[r].pc # "idle"
  /\ End(r)
  /\ UNCHANGED <<entries, invoices, payments, wallets, txns, settings>>

-----------------------------------------------------------------------------
(* Generating invoices *)

Unbilled == {e \in Entries \ FreeEntries : entries[e].invoice = None}

\* list_invoiceable, for all contacts or the chosen ones.
BeginGenerate(r, contacts) ==
  LET lines == {e \in Unbilled : entries[e].contact \in contacts} IN
  /\ req[r].pc = "idle"
  /\ lines # {}
  /\ req' = [req EXCEPT ![r] = [IdleRequest EXCEPT !.pc = "bill", !.lines = lines]]
  /\ UNCHANGED <<entries, invoices, payments, wallets, txns, settings, walletLock>>

\* The entries of `lines` that belong to contact c.
LinesOf(lines, c) == {e \in lines : entries[e].contact = c}

InvoiceFor(lines, c) ==
  [contact |-> c, lines |-> LinesOf(lines, c),
   total |-> SumFunction([e \in LinesOf(lines, c) |-> entries[e].amount]),
   status |-> "issued"]

\* (fault: every entry that was read is attached to each contact's invoice)
AttachAll(r) ==
  LET lines  == req[r].lines
      billed == {entries[e].contact : e \in lines}
  IN
  /\ req[r].pc = "bill"
  /\ \E id \in Injection(billed, FreeInvoices) :
       /\ invoices' = [i \in Invoices |->
                         IF i \in Range(id)
                           THEN InvoiceFor(lines, CHOOSE c \in billed : id[c] = i)
                           ELSE invoices[i]]
       /\ \E c \in billed :
            entries' = [e \in Entries |->
                          IF e \in lines THEN [entries[e] EXCEPT !.invoice = id[c]] ELSE entries[e]]
  /\ End(r)
  /\ UNCHANGED <<payments, wallets, txns, settings>>

\* One invoice per contact with the entries that were read, each attached to it.
Generate(r) ==
  LET lines  == req[r].lines
      billed == {entries[e].contact : e \in lines}
  IN
  /\ req[r].pc = "bill"
  /\ \E id \in Injection(billed, FreeInvoices) :
       /\ invoices' = [i \in Invoices |->
                         IF i \in Range(id)
                           THEN InvoiceFor(lines, CHOOSE c \in billed : id[c] = i)
                           ELSE invoices[i]]
       /\ entries' = [e \in Entries |->
                        IF e \in lines THEN [entries[e] EXCEPT !.invoice = id[entries[e].contact]]
                        ELSE entries[e]]
  /\ End(r)
  /\ UNCHANGED <<payments, wallets, txns, settings>>

-----------------------------------------------------------------------------
(* Wallets *)

\* (fault: the wallet is read with a plain SELECT)
ReadWalletOnly(r, c, q) ==
  /\ req' = [req EXCEPT ![r] = [q EXCEPT !.contact = c, !.wallet = wallets[c]]]
  /\ UNCHANGED <<entries, invoices, payments, wallets, txns, settings, walletLock>>

\* get_or_create: the row is locked, and returned as it is.
LockWallet(r, c, q) ==
  /\ walletLock[c] = None
  /\ walletLock' = [walletLock EXCEPT ![c] = r]
  /\ req' = [req EXCEPT ![r] = [q EXCEPT !.contact = c, !.wallet = wallets[c]]]
  /\ UNCHANGED <<entries, invoices, payments, wallets, txns, settings>>

\* update_balance with insert_transaction.
PostToWallet(c, wallet, amount) ==
  /\ wallets' = [wallets EXCEPT ![c].balance = wallet.balance + amount]
  /\ txns' = [txns EXCEPT ![c] = @ + amount]

BeginTopUp(r, c, amount) ==
  /\ req[r].pc = "idle"
  /\ LockWallet(r, c, [IdleRequest EXCEPT !.pc = "top_up_locked", !.amount = amount])

TopUp(r) ==
  LET q == req[r] IN
  /\ q.pc = "top_up_locked"
  /\ q.wallet.balance + q.amount <= MaxBalance
  /\ PostToWallet(q.contact, q.wallet, q.amount)
  /\ End(r)
  /\ UNCHANGED <<entries, invoices, payments, settings>>

BeginSetLimit(r, c, limit) ==
  /\ req[r].pc = "idle"
  /\ LockWallet(r, c, [IdleRequest EXCEPT !.pc = "limit_locked", !.limit = limit])

\* (fault: clearing the limit stores zero)
ClearToZero(r) ==
  LET q == req[r] IN
  /\ q.pc = "limit_locked"
  /\ wallets' = [wallets EXCEPT ![q.contact].limit = IF q.limit = None THEN 0 ELSE q.limit]
  /\ End(r)
  /\ UNCHANGED <<entries, invoices, payments, txns, settings>>

SetLimit(r) ==
  LET q == req[r] IN
  /\ q.pc = "limit_locked"
  /\ wallets' = [wallets EXCEPT ![q.contact].limit = q.limit]
  /\ End(r)
  /\ UNCHANGED <<entries, invoices, payments, txns, settings>>

\* The project's limit is read before the wallet.
BeginAdjust(r, c, amount) ==
  /\ req[r].pc = "idle"
  /\ req' = [req EXCEPT ![r] = [IdleRequest EXCEPT !.pc = "adjust", !.contact = c,
               !.amount = amount, !.default = DefaultLimit(settings)]]
  /\ UNCHANGED <<entries, invoices, payments, wallets, txns, settings, walletLock>>

LockToAdjust(r) ==
  /\ req[r].pc = "adjust"
  /\ LockWallet(r, req[r].contact, [req[r] EXCEPT !.pc = "adjust_locked"])

\* The balance after `amount` would be below the credit limit.
ExceedsCredit(q, amount) ==
  q.wallet.balance + amount < -EffectiveLimit(q.wallet, q.default)

Adjust(r) ==
  LET q == req[r] IN
  /\ q.pc = "adjust_locked"
  /\ ~ExceedsCredit(q, q.amount)
  /\ q.wallet.balance + q.amount <= MaxBalance
  /\ PostToWallet(q.contact, q.wallet, q.amount)
  /\ End(r)
  /\ UNCHANGED <<entries, invoices, payments, settings>>

-----------------------------------------------------------------------------
(* Paying an invoice *)

\* The settings and the invoice are read; one that is paid already is refused.
BeginPay(r, i, method) ==
  /\ req[r].pc = "idle"
  /\ i \notin FreeInvoices
  /\ invoices[i].status # "paid"
  /\ req' = [req EXCEPT ![r] = [IdleRequest EXCEPT
               !.pc = IF method = "wallet" THEN "pay_wallet" ELSE "pay_direct",
               !.invoice = i, !.contact = invoices[i].contact,
               !.amount = invoices[i].total, !.default = DefaultLimit(settings)]]
  /\ UNCHANGED <<entries, invoices, payments, wallets, txns, settings, walletLock>>

LockToPay(r) ==
  /\ req[r].pc = "pay_wallet"
  /\ LockWallet(r, req[r].contact, [req[r] EXCEPT !.pc = "pay_locked"])

\* mark_paid and the payment entry of the ledger.
Settle(i) ==
  /\ invoices' = [invoices EXCEPT ![i].status = "paid"]
  /\ payments' = [payments EXCEPT ![i] = @ + 1]

\* Cash or online.
PayDirect(r) ==
  /\ req[r].pc = "pay_direct"
  /\ Settle(req[r].invoice)
  /\ End(r)
  /\ UNCHANGED <<entries, wallets, txns, settings>>

\* (fault: the credit limit is not compared)
PayOnCredit(r) ==
  LET q == req[r] IN
  /\ q.pc = "pay_locked"
  /\ PostToWallet(q.contact, q.wallet, -q.amount)
  /\ Settle(q.invoice)
  /\ End(r)
  /\ UNCHANGED <<entries, settings>>

\* The wallet pays if the credit limit allows.
PayFromWallet(r) ==
  LET q == req[r] IN
  /\ q.pc = "pay_locked"
  /\ ~ExceedsCredit(q, -q.amount)
  /\ PostToWallet(q.contact, q.wallet, -q.amount)
  /\ Settle(q.invoice)
  /\ End(r)
  /\ UNCHANGED <<entries, settings>>

\* wallet_credit_exceeded: the transaction is rolled back.
RefuseCredit(r) ==
  LET q == req[r] IN
  /\ \/ q.pc = "adjust_locked" /\ ExceedsCredit(q, q.amount)
     \/ q.pc = "pay_locked" /\ ExceedsCredit(q, -q.amount)
  /\ End(r)
  /\ UNCHANGED <<entries, invoices, payments, wallets, txns, settings>>

-----------------------------------------------------------------------------
Begin(r) ==
  \/ \E contacts \in SUBSET Contacts : BeginGenerate(r, contacts)
  \/ \E c \in Contacts, amount \in Amounts : BeginTopUp(r, c, amount)
  \/ \E c \in Contacts, limit \in CustomLimits \cup {None} : BeginSetLimit(r, c, limit)
  \/ \E c \in Contacts, amount \in Adjustments : BeginAdjust(r, c, amount)
  \/ \E i \in Invoices, method \in Methods : BeginPay(r, i, method)

Answer(r) ==
  \/ Generate(r)
  \/ TopUp(r) \/ SetLimit(r)
  \/ LockToAdjust(r) \/ Adjust(r)
  \/ LockToPay(r) \/ PayFromWallet(r) \/ PayDirect(r)
  \/ RefuseCredit(r)

Next ==
  \/ \E r \in Reqs : Begin(r) \/ Answer(r) \/ Abort(r)
  \/ \E e \in Entries, c \in Contacts, amount \in Amounts : PostCharge(e, c, amount)
  \/ \E limit \in DefaultLimits : UpdateSettings(limit)

Spec == Init /\ [][Next]_vars

-----------------------------------------------------------------------------
(* Properties *)

\* The variables stay in their types.
TypeOK ==
  /\ entries \in [Entries -> Entry \cup {None}]
  /\ invoices \in [Invoices -> Invoice \cup {None}]
  /\ payments \in [Invoices -> Nat]
  /\ wallets \in [Contacts -> Wallet]
  /\ txns \in [Contacts -> Int]
  /\ settings \in DefaultLimits
  /\ walletLock \in [Contacts -> Reqs \cup {None}]
  /\ req \in [Reqs -> Request]

\* The balance of a wallet is the sum of its transactions, however top-ups,
\* adjustments and payments of one contact interleave: each writes a balance it
\* computed from the row that get_or_create returned, and none is lost.
WalletBalances == \A c \in Contacts : wallets[c].balance = txns[c]

\* A charge that is no longer offered for billing is a line of the invoice it is
\* attached to, an invoice of the contact who owes it; and a line of an invoice is
\* never offered again.  So no charge gets lost between two runs of the billing.
BilledOnItsInvoice ==
  /\ \A e \in Entries \ FreeEntries :
       entries[e].invoice # None =>
         LET invoice == invoices[entries[e].invoice]
         IN invoice # None /\ e \in invoice.lines /\ invoice.contact = entries[e].contact
  /\ \A i \in Invoices \ FreeInvoices : invoices[i].lines \cap (Unbilled \cup FreeEntries) = {}

\* The transactions of the wallets are the history of accounts that keep their
\* credit limits: the service implements WalletAccounts, the balance being the sum
\* of the transactions and the limit the one staff set (or a project limit).
Accounts == INSTANCE WalletAccounts WITH
  Limits   <- CustomLimits,
  Credits  <- {DefaultLimit(limit) : limit \in DefaultLimits},
  accounts <- [c \in Contacts |-> [balance |-> txns[c], limit |-> wallets[c].limit]]

KeepsAccounts == Accounts!Spec

=============================================================================
