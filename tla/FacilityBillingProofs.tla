----------------------- MODULE FacilityBillingProofs -----------------------
(***************************************************************************)
(* Proofs about FacilityBilling, for any number of contacts, entries,      *)
(* invoices and requests, any amounts and any credit limits.               *)
(***************************************************************************)
EXTENDS FacilityBilling, SumLemmas, TLAPS

-----------------------------------------------------------------------------
(* The inductive invariant *)

ProjectCredits == {DefaultLimit(limit) : limit \in DefaultLimits}

\* What a request in flight has read is of the kind its next step needs, and one
\* that is past its wallet's upsert holds the row, which is still what it read.
RequestShape ==
  \A r \in Reqs :
    /\ req[r].pc \in Locked => walletLock[req[r].contact] = r /\ req[r].wallet = wallets[req[r].contact]
    /\ req[r].pc \in Locked \cup {"adjust", "pay_wallet"} => req[r].contact \in Contacts
    /\ req[r].pc \in {"adjust", "adjust_locked"} => req[r].amount # 0
    /\ req[r].pc \in {"top_up_locked", "pay_direct", "pay_wallet", "pay_locked"} =>
         req[r].amount \in Nat \ {0}
    /\ req[r].pc \in {"pay_direct", "pay_wallet", "pay_locked"} =>
         req[r].invoice \in Invoices \ FreeInvoices
    /\ req[r].pc \in {"adjust", "adjust_locked", "pay_wallet", "pay_locked"} =>
         req[r].default \in ProjectCredits
    /\ req[r].pc = "bill" => req[r].lines \cap FreeEntries = {}

BillingInv == TypeOK /\ RequestShape /\ WalletBalances /\ BilledOnItsInvoice

-----------------------------------------------------------------------------
(* Helpers *)

\* NULL is none of the values it stands in for.
LEMMA Distinct ==
  /\ None \notin Contacts /\ None \notin Entries /\ None \notin Invoices /\ None \notin Reqs
  /\ None \notin Entry /\ None \notin Invoice
BY BillingAssumption, RowsAssumption

\* The credit of a project is a natural number.
LEMMA CreditType == \A limit \in DefaultLimits : DefaultLimit(limit) \in Nat
BY BillingAssumption DEF DefaultLimit

\* The idle request is well-typed.
LEMMA IdleType == IdleRequest \in Request
BY DEF IdleRequest, Request, PCs, NewWallet, Wallet

\* The end of a request leaves the others as they are and frees its locks only.
LEMMA EndKeeps ==
  ASSUME TypeOK, NEW r \in Reqs, End(r)
  PROVE  /\ req'[r] = IdleRequest /\ req' \in [Reqs -> Request]
         /\ \A s \in Reqs \ {r} : req'[s] = req[s]
         /\ walletLock' \in [Contacts -> Reqs \cup {None}]
         /\ \A c \in Contacts : walletLock[c] # r => walletLock'[c] = walletLock[c]
<1>1. req' = [req EXCEPT ![r] = IdleRequest] /\ req \in [Reqs -> Request]
  BY DEF End, TypeOK
<1>2. walletLock' = [c \in Contacts |-> IF walletLock[c] = r THEN None ELSE walletLock[c]]
  BY DEF End
<1>3. walletLock \in [Contacts -> Reqs \cup {None}]
  BY DEF TypeOK
<1> QED
  BY <1>1, <1>2, <1>3, IdleType

\* The end of a request keeps the shape of the others, if the wallets they hold and
\* the rows they have read stay.
LEMMA EndShape ==
  ASSUME TypeOK, RequestShape, NEW r \in Reqs, End(r),
         \A c \in Contacts : wallets'[c] = wallets[c] \/ walletLock[c] = r,
         \A i \in Invoices : invoices[i] # None => invoices'[i] # None,
         \A e \in Entries : entries[e] # None => entries'[e] # None
  PROVE  RequestShape'
<1> DEFINE Shape(s) ==
      /\ req[s].pc \in Locked => walletLock[req[s].contact] = s /\ req[s].wallet = wallets[req[s].contact]
      /\ req[s].pc \in Locked \cup {"adjust", "pay_wallet"} => req[s].contact \in Contacts
      /\ req[s].pc \in {"adjust", "adjust_locked"} => req[s].amount # 0
      /\ req[s].pc \in {"top_up_locked", "pay_direct", "pay_wallet", "pay_locked"} =>
           req[s].amount \in Nat \ {0}
      /\ req[s].pc \in {"pay_direct", "pay_wallet", "pay_locked"} =>
           req[s].invoice \in Invoices \ FreeInvoices
      /\ req[s].pc \in {"adjust", "adjust_locked", "pay_wallet", "pay_locked"} =>
           req[s].default \in ProjectCredits
      /\ req[s].pc = "bill" => req[s].lines \cap FreeEntries = {}
<1>1. Shape(r)'
  BY EndKeeps DEF IdleRequest, Locked
<1>2. ASSUME NEW s \in Reqs \ {r}
      PROVE  Shape(s)'
  <2>1. req'[s] = req[s] /\ Shape(s)
    BY EndKeeps DEF RequestShape
  <2>2. req[s].pc \in Locked =>
          walletLock'[req[s].contact] = s /\ req[s].wallet = wallets'[req[s].contact]
    BY <2>1, EndKeeps
  <2>3. FreeInvoices' \subseteq FreeInvoices /\ FreeEntries' \subseteq FreeEntries
    BY DEF FreeInvoices, FreeEntries
  <2> HIDE DEF ProjectCredits
  <2>4. ProjectCredits' = ProjectCredits
    BY DEF ProjectCredits, DefaultLimit
  <2> QED
    BY <2>1, <2>2, <2>3, <2>4
<1> QED
  BY <1>1, <1>2 DEF RequestShape

-----------------------------------------------------------------------------
(* Types and shapes, action by action *)

\* A request that begins, or goes on to wait, keeps types and shapes.
LEMMA RequestStep ==
  ASSUME TypeOK, RequestShape, NEW r \in Reqs, NEW q \in Request,
         req' = [req EXCEPT ![r] = q],
         UNCHANGED <<entries, invoices, payments, wallets, txns, settings, walletLock>>,
         q.pc \notin Locked,
         q.pc \in {"adjust", "pay_wallet"} => q.contact \in Contacts /\ q.default \in ProjectCredits,
         q.pc = "adjust" => q.amount # 0,
         q.pc \in {"pay_direct", "pay_wallet"} =>
           q.amount \in Nat \ {0} /\ q.invoice \in Invoices \ FreeInvoices,
         q.pc = "bill" => q.lines \cap FreeEntries = {}
  PROVE  TypeOK' /\ RequestShape'
<1>1. TypeOK'
  BY DEF TypeOK
<1>2. req'[r] = q /\ \A s \in Reqs \ {r} : req'[s] = req[s]
  BY DEF TypeOK
<1>3. FreeInvoices' = FreeInvoices /\ FreeEntries' = FreeEntries /\ ProjectCredits' = ProjectCredits
  BY DEF FreeInvoices, FreeEntries, ProjectCredits, DefaultLimit
<1> HIDE DEF ProjectCredits
<1>4. RequestShape'
  BY <1>2, <1>3 DEF RequestShape, Locked
<1> QED
  BY <1>1, <1>4

\* Taking a wallet's row keeps types and shapes: nobody else holds it.
LEMMA LockStep ==
  ASSUME TypeOK, RequestShape, NEW r \in Reqs, NEW c \in Contacts, NEW q \in Request,
         req[r].pc \notin Locked, LockWallet(r, c, q), q.pc \in Locked,
         q.pc = "adjust_locked" => q.amount # 0,
         q.pc \in {"top_up_locked", "pay_locked"} => q.amount \in Nat \ {0},
         q.pc \in {"adjust_locked", "pay_locked"} => q.default \in ProjectCredits,
         q.pc = "pay_locked" => q.invoice \in Invoices \ FreeInvoices
  PROVE  TypeOK' /\ RequestShape'
<1> DEFINE p == [q EXCEPT !.contact = c, !.wallet = wallets[c]]
<1>1. /\ req' = [req EXCEPT ![r] = p]
      /\ walletLock[c] = None /\ walletLock' = [walletLock EXCEPT ![c] = r]
      /\ UNCHANGED <<entries, invoices, payments, wallets, txns, settings>>
  BY DEF LockWallet
<1>2. wallets[c] \in Wallet
  BY DEF TypeOK
<1>3. /\ p \in Request /\ p.pc = q.pc /\ p.contact = c /\ p.wallet = wallets[c]
      /\ p.amount = q.amount /\ p.default = q.default /\ p.invoice = q.invoice
  BY <1>2 DEF Request
<1> HIDE DEF p
<1>4. TypeOK'
  BY <1>1, <1>3 DEF TypeOK
<1>5. req'[r] = p /\ \A s \in Reqs \ {r} : req'[s] = req[s]
  BY <1>1 DEF TypeOK
<1>6. FreeInvoices' = FreeInvoices /\ FreeEntries' = FreeEntries /\ ProjectCredits' = ProjectCredits
  BY <1>1 DEF FreeInvoices, FreeEntries, ProjectCredits, DefaultLimit
<1>7. walletLock'[c] = r /\ \A d \in Contacts \ {c} : walletLock'[d] = walletLock[d]
  BY <1>1 DEF TypeOK
<1>8. ASSUME NEW s \in Reqs \ {r}, req[s].pc \in Locked
      PROVE  walletLock'[req[s].contact] = s
  <2>1. walletLock[req[s].contact] = s /\ req[s].contact \in Contacts
    BY <1>8 DEF RequestShape
  <2>2. req[s].contact # c
    BY <1>1, <2>1, Distinct
  <2> QED
    BY <1>7, <2>1, <2>2
<1> HIDE DEF ProjectCredits
<1>9. RequestShape'
  BY <1>1, <1>3, <1>5, <1>6, <1>7, <1>8 DEF RequestShape, Locked
<1> QED
  BY <1>4, <1>9

\* A wallet is written by the request that holds its row, from what it read there:
\* the balance moves by the amount of the transaction.
LEMMA WalletStep ==
  ASSUME TypeOK, RequestShape, WalletBalances, NEW r \in Reqs, req[r].pc \in Locked,
         NEW amount \in Int, PostToWallet(req[r].contact, req[r].wallet, amount)
  PROVE  /\ wallets' \in [Contacts -> Wallet] /\ txns' \in [Contacts -> Int]
         /\ txns' = [txns EXCEPT ![req[r].contact] = @ + amount]
         /\ \A c \in Contacts : wallets'[c].limit = wallets[c].limit
         /\ \A c \in Contacts : wallets'[c] = wallets[c] \/ walletLock[c] = r
         /\ WalletBalances'
<1>1. PICK c \in Contacts : c = req[r].contact /\ walletLock[c] = r /\ req[r].wallet = wallets[c]
  BY DEF RequestShape
<1>2. wallets' = [wallets EXCEPT ![c].balance = wallets[c].balance + amount]
      /\ txns' = [txns EXCEPT ![c] = @ + amount]
  BY <1>1 DEF PostToWallet
<1>3. wallets[c] \in Wallet /\ wallets \in [Contacts -> Wallet] /\ txns \in [Contacts -> Int]
  BY DEF TypeOK
<1>4. wallets' \in [Contacts -> Wallet] /\ txns' \in [Contacts -> Int]
  BY <1>2, <1>3 DEF Wallet
<1>5. /\ wallets'[c].balance = wallets[c].balance + amount /\ wallets'[c].limit = wallets[c].limit
      /\ \A d \in Contacts \ {c} : wallets'[d] = wallets[d]
  BY <1>2, <1>3 DEF Wallet
<1>6. WalletBalances'
  BY <1>2, <1>3, <1>5 DEF WalletBalances
<1> QED
  BY <1>1, <1>2, <1>4, <1>5, <1>6

\* Settling an invoice marks it and keeps the rest of it.
LEMMA SettleStep ==
  ASSUME TypeOK, BilledOnItsInvoice, UNCHANGED entries,
         NEW i \in Invoices \ FreeInvoices, Settle(i)
  PROVE  /\ invoices' \in [Invoices -> Invoice \cup {None}] /\ payments' \in [Invoices -> Nat]
         /\ \A j \in Invoices : invoices[j] # None => invoices'[j] # None
         /\ BilledOnItsInvoice'
<1>1. invoices[i] \in Invoice /\ i \in Invoices
  BY DEF FreeInvoices, TypeOK
<1>2. /\ invoices' = [invoices EXCEPT ![i] = [invoices[i] EXCEPT !.status = "paid"]]
      /\ payments' = [payments EXCEPT ![i] = @ + 1]
  BY DEF Settle
<1>3. /\ [invoices[i] EXCEPT !.status = "paid"] \in Invoice
      /\ [invoices[i] EXCEPT !.status = "paid"].lines = invoices[i].lines
      /\ [invoices[i] EXCEPT !.status = "paid"].contact = invoices[i].contact
  BY <1>1 DEF Invoice
<1>4. invoices' \in [Invoices -> Invoice \cup {None}] /\ payments' \in [Invoices -> Nat]
  BY <1>2, <1>3 DEF TypeOK
<1>5. \A j \in Invoices : /\ invoices'[j] = None <=> invoices[j] = None
                          /\ invoices[j] # None => /\ invoices'[j].lines = invoices[j].lines
                                                   /\ invoices'[j].contact = invoices[j].contact
  BY <1>1, <1>2, <1>3, Distinct DEF TypeOK
<1>6. FreeEntries' = FreeEntries /\ Unbilled' = Unbilled /\ FreeInvoices' = FreeInvoices
  BY <1>5 DEF FreeEntries, Unbilled, FreeInvoices
<1>7. \A e \in Entries \ FreeEntries : entries[e].invoice \in Invoices \cup {None}
  BY DEF FreeEntries, TypeOK, Entry
<1>8. BilledOnItsInvoice'
  BY <1>5, <1>6, <1>7 DEF BilledOnItsInvoice, FreeInvoices
<1> QED
  BY <1>4, <1>5, <1>8

\* What is billed depends on the entries and the invoices only.
LEMMA BilledStays ==
  ASSUME BilledOnItsInvoice, UNCHANGED <<entries, invoices>>
  PROVE  BilledOnItsInvoice'
<1>1. FreeEntries' = FreeEntries /\ Unbilled' = Unbilled /\ FreeInvoices' = FreeInvoices
  BY DEF FreeEntries, Unbilled, FreeInvoices
<1> QED
  BY <1>1 DEF BilledOnItsInvoice

\* A new charge is on no invoice.
LEMMA ChargeStep ==
  ASSUME TypeOK, RequestShape, BilledOnItsInvoice,
         NEW e \in Entries, NEW c \in Contacts, NEW amount \in Amounts, PostCharge(e, c, amount)
  PROVE  TypeOK' /\ RequestShape' /\ BilledOnItsInvoice'
<1> DEFINE new == [contact |-> c, amount |-> amount, invoice |-> None]
<1>1. /\ e \in FreeEntries /\ entries' = [entries EXCEPT ![e] = new]
      /\ UNCHANGED <<invoices, payments, wallets, txns, settings, walletLock, req>>
  BY DEF PostCharge
<1>2. new \in Entry /\ new # None /\ new.invoice = None
  BY Distinct DEF Entry
<1> HIDE DEF new
<1>3. TypeOK'
  BY <1>1, <1>2 DEF TypeOK
<1>4. entries'[e] = new /\ \A d \in Entries \ {e} : entries'[d] = entries[d]
  BY <1>1 DEF TypeOK
<1>5. /\ FreeEntries' = FreeEntries \ {e} /\ FreeInvoices' = FreeInvoices
      /\ Unbilled' = Unbilled \cup {e}
  BY <1>1, <1>2, <1>4 DEF FreeEntries, FreeInvoices, Unbilled
<1>6. ProjectCredits' = ProjectCredits
  BY DEF ProjectCredits, DefaultLimit
<1> HIDE DEF ProjectCredits
<1>7. RequestShape'
  BY <1>1, <1>5, <1>6 DEF RequestShape
<1>8. ASSUME NEW d \in Entries \ FreeEntries', entries'[d].invoice # None
      PROVE  LET invoice == invoices'[entries'[d].invoice]
             IN invoice # None /\ d \in invoice.lines /\ invoice.contact = entries'[d].contact
  BY <1>1, <1>2, <1>4, <1>5, <1>8 DEF BilledOnItsInvoice
<1>9. ASSUME NEW i \in Invoices \ FreeInvoices'
      PROVE  invoices'[i].lines \cap (Unbilled' \cup FreeEntries') = {}
  BY <1>1, <1>5 DEF BilledOnItsInvoice
<1> QED
  BY <1>3, <1>7, <1>8, <1>9 DEF BilledOnItsInvoice

\* One or more positive amounts come to a positive total.
LEMMA TotalPositive ==
  ASSUME NEW lines \in (SUBSET Entries) \ {{}}, NEW amount \in [lines -> Amounts]
  PROVE  SumFunction(amount) \in Nat \ {0}
<1>1. PICK e \in lines : TRUE
  OBVIOUS
<1>2. IsFiniteSet(lines) /\ IsFiniteSet(lines \ {e})
  BY Parts, BillingAssumption
<1>3. \A x \in lines : amount[x] \in Nat \ {0}
  BY BillingAssumption
<1>4. SumFunctionOnSet(amount, lines) = amount[e] + SumFunctionOnSet(amount, lines \ {e})
  BY <1>2, <1>3, SumTakes
<1>5. SumFunctionOnSet(amount, lines \ {e}) \in Nat
  BY <1>2, <1>3, SumNatural
<1>6. SumFunction(amount) = SumFunctionOnSet(amount, lines)
  BY DEF SumFunction
<1> QED
  BY <1>3, <1>4, <1>5, <1>6

\* Generating invoices issues one per contact, with the entries that were read for
\* the contact, attached to it, and changes no other invoice.
LEMMA GenerateStep ==
  ASSUME TypeOK, RequestShape, BilledOnItsInvoice, NEW r \in Reqs, Generate(r)
  PROVE  TypeOK' /\ RequestShape' /\ BilledOnItsInvoice'
<1> DEFINE lines  == req[r].lines
           billed == {entries[e].contact : e \in lines}
<1>1. req[r].pc = "bill" /\ End(r) /\ UNCHANGED <<payments, wallets, txns, settings>>
  BY DEF Generate
<1>2. lines \subseteq Entries \ FreeEntries
  BY <1>1 DEF RequestShape, TypeOK, Request
<1>3. \A e \in lines : entries[e] \in Entry /\ entries[e] # None
  BY <1>2 DEF FreeEntries, TypeOK
<1>4. billed \subseteq Contacts
  BY <1>3 DEF Entry
<1>5. PICK id \in Injection(billed, FreeInvoices) :
        /\ invoices' = [i \in Invoices |->
                          IF i \in Range(id)
                            THEN InvoiceFor(lines, CHOOSE c \in billed : id[c] = i)
                            ELSE invoices[i]]
        /\ entries' = [e \in Entries |->
                         IF e \in lines THEN [entries[e] EXCEPT !.invoice = id[entries[e].contact]]
                         ELSE entries[e]]
  BY DEF Generate
<1>6. /\ id \in [billed -> FreeInvoices]
      /\ \A c, d \in billed : id[c] = id[d] => c = d
      /\ Range(id) = {id[c] : c \in billed}
  BY DEF Injection, IsInjective, Range
<1>7. FreeInvoices \subseteq Invoices
  BY DEF FreeInvoices
<1> HIDE DEF billed, lines
<1>8. \A c \in billed : invoices'[id[c]] = InvoiceFor(lines, c) /\ id[c] \in FreeInvoices
  <2> SUFFICES ASSUME NEW c \in billed
               PROVE  invoices'[id[c]] = InvoiceFor(lines, c) /\ id[c] \in FreeInvoices
    OBVIOUS
  <2>1. id[c] \in Range(id) /\ id[c] \in FreeInvoices /\ id[c] \in Invoices
    BY <1>6, <1>7
  <2>2. (CHOOSE d \in billed : id[d] = id[c]) = c
    BY <1>6
  <2> QED
    BY <1>5, <2>1, <2>2
<1>9. \A i \in Invoices \ Range(id) : invoices'[i] = invoices[i]
  BY <1>5
<1>10. ASSUME NEW c \in billed
       PROVE  /\ InvoiceFor(lines, c) \in Invoice /\ InvoiceFor(lines, c) # None
              /\ InvoiceFor(lines, c).lines = LinesOf(lines, c)
              /\ InvoiceFor(lines, c).contact = c
  <2> DEFINE mine   == LinesOf(lines, c)
             amount == [e \in mine |-> entries[e].amount]
  <2>1. mine \in (SUBSET Entries) \ {{}}
    BY <1>2 DEF LinesOf, billed
  <2>2. amount \in [mine -> Amounts]
    BY <1>3 DEF LinesOf, Entry
  <2> HIDE DEF mine, amount
  <2>3. SumFunction(amount) \in Nat \ {0}
    BY <2>1, <2>2, TotalPositive
  <2>4. InvoiceFor(lines, c) = [contact |-> c, lines |-> mine, total |-> SumFunction(amount), status |-> "issued"]
    BY DEF InvoiceFor, mine, amount
  <2>5. InvoiceFor(lines, c) \in Invoice
    BY <1>4, <2>1, <2>3, <2>4 DEF Invoice
  <2> QED
    BY <2>4, <2>5, Distinct DEF mine
<1>11. /\ \A e \in lines : /\ entries'[e].contact = entries[e].contact
                           /\ entries'[e].invoice = id[entries[e].contact]
                           /\ entries[e].contact \in billed
                           /\ entries'[e] \in Entry /\ entries'[e] # None
       /\ \A e \in Entries \ lines : entries'[e] = entries[e]
  <2>1. ASSUME NEW e \in lines
        PROVE  /\ entries'[e].contact = entries[e].contact
               /\ entries'[e].invoice = id[entries[e].contact]
               /\ entries[e].contact \in billed
               /\ entries'[e] \in Entry /\ entries'[e] # None
    <3>1. entries[e].contact \in billed
      BY DEF billed
    <3>2. id[entries[e].contact] \in Invoices
      BY <3>1, <1>6, <1>7
    <3>3. entries'[e] = [entries[e] EXCEPT !.invoice = id[entries[e].contact]]
      BY <1>2, <1>5
    <3>4. entries[e] \in Entry
      BY <1>3
    <3>5. entries'[e] \in Entry
      BY <3>2, <3>3, <3>4 DEF Entry
    <3> QED
      BY <3>1, <3>3, <3>4, <3>5, Distinct DEF Entry
  <2> QED
    BY <2>1, <1>5
<1>12. TypeOK'
  <2>1. entries' \in [Entries -> Entry \cup {None}]
    BY <1>5, <1>11 DEF TypeOK
  <2>2. invoices' \in [Invoices -> Invoice \cup {None}]
    <3>1. ASSUME NEW i \in Invoices
          PROVE  invoices'[i] \in Invoice \cup {None}
      <4>1. CASE i \in Range(id)
        BY <4>1, <1>6, <1>8, <1>10
      <4>2. CASE i \notin Range(id)
        BY <4>2, <1>9 DEF TypeOK
      <4> QED
        BY <4>1, <4>2
    <3> QED
      BY <3>1, <1>5
  <2> QED
    BY <2>1, <2>2, <1>1, EndKeeps DEF TypeOK
<1>13. RequestShape'
  <2>1. \A i \in Invoices : invoices[i] # None => invoices'[i] # None
    BY <1>6, <1>9 DEF FreeInvoices
  <2>2. \A e \in Entries : entries[e] # None => entries'[e] # None
    BY <1>11
  <2> QED
    BY <2>1, <2>2, <1>1, EndShape
<1>14. ASSUME NEW e \in Entries \ FreeEntries', entries'[e].invoice # None
       PROVE  LET invoice == invoices'[entries'[e].invoice]
              IN invoice # None /\ e \in invoice.lines /\ invoice.contact = entries'[e].contact
  <2>1. CASE e \in lines
    <3>1. e \in LinesOf(lines, entries[e].contact)
      BY <2>1 DEF LinesOf
    <3> QED
      BY <3>1, <2>1, <1>8, <1>10, <1>11
  <2>2. CASE e \notin lines
    <3>1. entries'[e] = entries[e] /\ e \notin FreeEntries
      BY <2>2, <1>11 DEF FreeEntries
    <3>2. LET invoice == invoices[entries[e].invoice]
          IN invoice # None /\ e \in invoice.lines /\ invoice.contact = entries[e].contact
      BY <1>14, <3>1 DEF BilledOnItsInvoice
    <3>3. entries[e].invoice \in Invoices
      BY <1>14, <3>1 DEF TypeOK, Entry, FreeEntries
    <3>4. entries[e].invoice \notin Range(id)
      BY <3>2, <3>3, <1>6 DEF FreeInvoices
    <3> QED
      BY <3>1, <3>2, <3>3, <3>4, <1>9
  <2> QED
    BY <2>1, <2>2
<1>15. Unbilled' \cup FreeEntries' \subseteq (Unbilled \cup FreeEntries) \ lines
  <2>1. \A e \in lines : e \notin FreeEntries' /\ e \notin Unbilled'
    BY <1>6, <1>7, <1>11, Distinct DEF FreeEntries, Unbilled
  <2>2. \A e \in Entries \ lines : e \in Unbilled' \cup FreeEntries' => e \in Unbilled \cup FreeEntries
    BY <1>11 DEF FreeEntries, Unbilled
  <2>3. Unbilled' \cup FreeEntries' \subseteq Entries
    BY DEF FreeEntries, Unbilled
  <2> QED
    BY <2>1, <2>2, <2>3
<1>16. ASSUME NEW i \in Invoices \ FreeInvoices'
       PROVE  invoices'[i].lines \cap (Unbilled' \cup FreeEntries') = {}
  <2>1. CASE i \in Range(id)
    <3>1. invoices'[i].lines \subseteq lines
      BY <2>1, <1>6, <1>8, <1>10 DEF LinesOf
    <3> QED
      BY <3>1, <1>15
  <2>2. CASE i \notin Range(id)
    <3>1. invoices'[i] = invoices[i] /\ i \in Invoices \ FreeInvoices
      BY <2>2, <1>9 DEF FreeInvoices
    <3> QED
      BY <3>1, <1>15 DEF BilledOnItsInvoice
  <2> QED
    BY <2>1, <2>2
<1>17. BilledOnItsInvoice'
  BY <1>14, <1>16 DEF BilledOnItsInvoice
<1> QED
  BY <1>12, <1>13, <1>17

-----------------------------------------------------------------------------
(* Every step keeps the invariant *)

\* A payment or a correction of a wallet that is committed keeps types and shapes.
LEMMA PostStep ==
  ASSUME TypeOK, RequestShape, WalletBalances, NEW r \in Reqs, req[r].pc \in Locked,
         NEW amount \in Int, PostToWallet(req[r].contact, req[r].wallet, amount), End(r),
         UNCHANGED <<entries, settings>>,
         invoices' \in [Invoices -> Invoice \cup {None}], payments' \in [Invoices -> Nat],
         \A i \in Invoices : invoices[i] # None => invoices'[i] # None
  PROVE  TypeOK' /\ RequestShape' /\ WalletBalances'
<1>1. /\ wallets' \in [Contacts -> Wallet] /\ txns' \in [Contacts -> Int]
      /\ \A c \in Contacts : wallets'[c] = wallets[c] \/ walletLock[c] = r
      /\ WalletBalances'
  BY WalletStep
<1>2. TypeOK'
  BY <1>1, EndKeeps DEF TypeOK
<1>3. RequestShape'
  BY <1>1, EndShape
<1> QED
  BY <1>1, <1>2, <1>3

\* A request that begins.
LEMMA BeginStep ==
  ASSUME BillingInv, NEW r \in Reqs, Begin(r)
  PROVE  BillingInv'
<1> USE DEF BillingInv
<1>1. ASSUME NEW contacts \in SUBSET Contacts, BeginGenerate(r, contacts)
      PROVE  TypeOK' /\ RequestShape' /\ UNCHANGED <<entries, invoices, wallets, txns>>
  <2> DEFINE q == [IdleRequest EXCEPT !.pc = "bill",
                     !.lines = {e \in Unbilled : entries[e].contact \in contacts}]
  <2>1. /\ req' = [req EXCEPT ![r] = q]
        /\ UNCHANGED <<entries, invoices, payments, wallets, txns, settings, walletLock>>
    BY <1>1 DEF BeginGenerate
  <2>2. q \in Request /\ q.pc = "bill" /\ q.lines \cap FreeEntries = {}
    BY IdleType DEF IdleRequest, Request, PCs, Unbilled
  <2> HIDE DEF q
  <2> QED
    BY <2>1, <2>2, RequestStep DEF Locked
<1>2. ASSUME NEW c \in Contacts, NEW amount \in Amounts, BeginTopUp(r, c, amount)
      PROVE  TypeOK' /\ RequestShape' /\ UNCHANGED <<entries, invoices, wallets, txns>>
  <2> DEFINE q == [IdleRequest EXCEPT !.pc = "top_up_locked", !.amount = amount]
  <2>1. req[r].pc = "idle" /\ LockWallet(r, c, q)
    BY <1>2 DEF BeginTopUp
  <2>2. amount \in Nat \ {0} /\ amount \in Int
    BY BillingAssumption
  <2>3. q \in Request /\ q.pc = "top_up_locked" /\ q.amount = amount
    BY <2>2, IdleType DEF Request, PCs
  <2> HIDE DEF q
  <2>4. TypeOK' /\ RequestShape'
    BY <2>1, <2>2, <2>3, LockStep DEF Locked
  <2> QED
    BY <2>1, <2>4 DEF LockWallet
<1>3. ASSUME NEW c \in Contacts, NEW limit \in CustomLimits \cup {None}, BeginSetLimit(r, c, limit)
      PROVE  TypeOK' /\ RequestShape' /\ UNCHANGED <<entries, invoices, wallets, txns>>
  <2> DEFINE q == [IdleRequest EXCEPT !.pc = "limit_locked", !.limit = limit]
  <2>1. req[r].pc = "idle" /\ LockWallet(r, c, q)
    BY <1>3 DEF BeginSetLimit
  <2>2. q \in Request /\ q.pc = "limit_locked"
    BY IdleType DEF Request, PCs
  <2> HIDE DEF q
  <2>3. TypeOK' /\ RequestShape'
    BY <2>1, <2>2, LockStep DEF Locked
  <2> QED
    BY <2>1, <2>3 DEF LockWallet
<1>4. ASSUME NEW c \in Contacts, NEW amount \in Adjustments, BeginAdjust(r, c, amount)
      PROVE  TypeOK' /\ RequestShape' /\ UNCHANGED <<entries, invoices, wallets, txns>>
  <2> DEFINE q == [IdleRequest EXCEPT !.pc = "adjust", !.contact = c, !.amount = amount,
                     !.default = DefaultLimit(settings)]
  <2>1. /\ req' = [req EXCEPT ![r] = q]
        /\ UNCHANGED <<entries, invoices, payments, wallets, txns, settings, walletLock>>
    BY <1>4 DEF BeginAdjust
  <2>2. DefaultLimit(settings) \in Nat /\ DefaultLimit(settings) \in ProjectCredits
    BY CreditType DEF TypeOK, ProjectCredits
  <2>3. q \in Request /\ q.pc = "adjust" /\ q.contact \in Contacts /\ q.amount # 0
        /\ q.default \in ProjectCredits
    BY <2>2, IdleType, BillingAssumption DEF Request, PCs
  <2> HIDE DEF q
  <2> QED
    BY <2>1, <2>3, RequestStep DEF Locked
<1>5. ASSUME NEW i \in Invoices, NEW method \in Methods, BeginPay(r, i, method)
      PROVE  TypeOK' /\ RequestShape' /\ UNCHANGED <<entries, invoices, wallets, txns>>
  <2> DEFINE q == [IdleRequest EXCEPT
                     !.pc = IF method = "wallet" THEN "pay_wallet" ELSE "pay_direct",
                     !.invoice = i, !.contact = invoices[i].contact,
                     !.amount = invoices[i].total, !.default = DefaultLimit(settings)]
  <2>1. /\ req' = [req EXCEPT ![r] = q] /\ i \in Invoices \ FreeInvoices
        /\ UNCHANGED <<entries, invoices, payments, wallets, txns, settings, walletLock>>
    BY <1>5 DEF BeginPay
  <2>2. DefaultLimit(settings) \in Nat /\ DefaultLimit(settings) \in ProjectCredits
    BY CreditType DEF TypeOK, ProjectCredits
  <2>3. invoices[i].contact \in Contacts /\ invoices[i].total \in Nat \ {0}
    BY <2>1 DEF FreeInvoices, TypeOK, Invoice
  <2>4. PICK pc \in {"pay_wallet", "pay_direct"}, d \in Contacts, n \in Nat \ {0},
             credit \in ProjectCredits :
          /\ credit \in Nat
          /\ q = [IdleRequest EXCEPT !.pc = pc, !.invoice = i, !.contact = d,
                                    !.amount = n, !.default = credit]
    BY <2>2, <2>3
  <2> HIDE DEF q
  <2>5. q \in Request
    <3>1. /\ pc \in PCs /\ n \in Int /\ credit \in Nat /\ d \in Contacts \cup {None}
          /\ i \in Invoices \cup {None}
      BY <2>4 DEF PCs
    <3> QED
      BY <3>1, <2>4, IdleType DEF Request
  <2>6. q.pc = pc /\ q.contact = d /\ q.amount = n /\ q.default = credit /\ q.invoice = i
    BY <2>4, IdleType DEF Request
  <2>7. /\ q.pc \in {"pay_wallet", "pay_direct"} /\ q.contact \in Contacts
        /\ q.amount \in Nat \ {0} /\ q.default \in ProjectCredits
    BY <2>4, <2>6
  <2> QED
    BY <2>1, <2>5, <2>6, <2>7, RequestStep DEF Locked
<1>6. TypeOK' /\ RequestShape' /\ UNCHANGED <<entries, invoices, wallets, txns>>
  BY <1>1, <1>2, <1>3, <1>4, <1>5 DEF Begin
<1>7. WalletBalances' /\ BilledOnItsInvoice'
  BY <1>6, BilledStays DEF WalletBalances
<1> QED
  BY <1>6, <1>7

\* A request that goes on to its answer.
LEMMA AnswerStep ==
  ASSUME BillingInv, NEW r \in Reqs, Answer(r)
  PROVE  BillingInv'
<1> USE DEF BillingInv
<1>1. req[r] \in Request
  BY DEF TypeOK
<1>2. CASE Generate(r)
  <2>1. WalletBalances'
    BY <1>2 DEF Generate, WalletBalances
  <2> QED
    BY <1>2, <2>1, GenerateStep
<1>3. CASE TopUp(r)
  <2>1. /\ req[r].pc \in Locked /\ req[r].amount \in Int /\ End(r)
        /\ PostToWallet(req[r].contact, req[r].wallet, req[r].amount)
        /\ UNCHANGED <<entries, invoices, payments, settings>>
    BY <1>3, <1>1 DEF TopUp, Locked, Request
  <2>2. TypeOK' /\ RequestShape' /\ WalletBalances'
    BY <2>1, PostStep DEF TypeOK
  <2> QED
    BY <2>1, <2>2, BilledStays
<1>4. CASE SetLimit(r)
  <2>1. /\ req[r].pc = "limit_locked" /\ End(r)
        /\ wallets' = [wallets EXCEPT ![req[r].contact].limit = req[r].limit]
        /\ UNCHANGED <<entries, invoices, payments, txns, settings>>
    BY <1>4 DEF SetLimit
  <2>2. PICK c \in Contacts : c = req[r].contact /\ walletLock[c] = r
    BY <2>1 DEF RequestShape, Locked
  <2>3. /\ wallets' \in [Contacts -> Wallet]
        /\ \A d \in Contacts : wallets'[d].balance = wallets[d].balance
        /\ \A d \in Contacts : wallets'[d] = wallets[d] \/ walletLock[d] = r
    BY <1>1, <2>1, <2>2 DEF TypeOK, Wallet, Request
  <2>4. TypeOK'
    BY <2>1, <2>3, EndKeeps DEF TypeOK
  <2>5. RequestShape'
    BY <2>1, <2>3, EndShape
  <2> QED
    BY <2>1, <2>3, <2>4, <2>5, BilledStays DEF WalletBalances
<1>5. CASE LockToAdjust(r)
  <2> DEFINE q == [req[r] EXCEPT !.pc = "adjust_locked"]
  <2>1. req[r].pc = "adjust" /\ LockWallet(r, req[r].contact, q)
    BY <1>5 DEF LockToAdjust
  <2>2. req[r].contact \in Contacts /\ req[r].amount # 0 /\ req[r].default \in ProjectCredits
    BY <2>1 DEF RequestShape
  <2>3. /\ q \in Request /\ q.pc = "adjust_locked"
        /\ q.amount = req[r].amount /\ q.default = req[r].default
    BY <1>1 DEF Request, PCs
  <2> HIDE DEF q
  <2>4. TypeOK' /\ RequestShape'
    BY <2>1, <2>2, <2>3, LockStep DEF Locked
  <2> QED
    BY <2>1, <2>4, BilledStays DEF LockWallet, WalletBalances
<1>6. CASE Adjust(r)
  <2>1. /\ req[r].pc \in Locked /\ req[r].amount \in Int /\ End(r)
        /\ PostToWallet(req[r].contact, req[r].wallet, req[r].amount)
        /\ UNCHANGED <<entries, invoices, payments, settings>>
    BY <1>6, <1>1 DEF Adjust, Locked, Request
  <2>2. TypeOK' /\ RequestShape' /\ WalletBalances'
    BY <2>1, PostStep DEF TypeOK
  <2> QED
    BY <2>1, <2>2, BilledStays
<1>7. CASE LockToPay(r)
  <2> DEFINE q == [req[r] EXCEPT !.pc = "pay_locked"]
  <2>1. req[r].pc = "pay_wallet" /\ LockWallet(r, req[r].contact, q)
    BY <1>7 DEF LockToPay
  <2>2. /\ req[r].contact \in Contacts /\ req[r].amount \in Nat \ {0}
        /\ req[r].default \in ProjectCredits /\ req[r].invoice \in Invoices \ FreeInvoices
    BY <2>1 DEF RequestShape
  <2>3. /\ q \in Request /\ q.pc = "pay_locked" /\ q.invoice = req[r].invoice
        /\ q.amount = req[r].amount /\ q.default = req[r].default
    BY <1>1 DEF Request, PCs
  <2> HIDE DEF q
  <2>4. TypeOK' /\ RequestShape'
    BY <2>1, <2>2, <2>3, LockStep DEF Locked
  <2> QED
    BY <2>1, <2>4, BilledStays DEF LockWallet, WalletBalances
<1>8. CASE PayFromWallet(r)
  <2>1. /\ req[r].pc = "pay_locked" /\ req[r].pc \in Locked /\ End(r)
        /\ PostToWallet(req[r].contact, req[r].wallet, -req[r].amount)
        /\ Settle(req[r].invoice) /\ UNCHANGED <<entries, settings>>
    BY <1>8 DEF PayFromWallet, Locked
  <2>2. -req[r].amount \in Int /\ req[r].invoice \in Invoices \ FreeInvoices
    BY <2>1, <1>1 DEF RequestShape, Request
  <2>3. /\ invoices' \in [Invoices -> Invoice \cup {None}] /\ payments' \in [Invoices -> Nat]
        /\ \A j \in Invoices : invoices[j] # None => invoices'[j] # None
        /\ BilledOnItsInvoice'
    BY <2>1, <2>2, SettleStep
  <2>4. TypeOK' /\ RequestShape' /\ WalletBalances'
    BY <2>1, <2>2, <2>3, PostStep
  <2> QED
    BY <2>3, <2>4
<1>9. CASE PayDirect(r)
  <2>1. /\ req[r].pc = "pay_direct" /\ End(r)
        /\ Settle(req[r].invoice) /\ UNCHANGED <<entries, wallets, txns, settings>>
    BY <1>9 DEF PayDirect
  <2>2. req[r].invoice \in Invoices \ FreeInvoices
    BY <2>1 DEF RequestShape
  <2>3. /\ invoices' \in [Invoices -> Invoice \cup {None}] /\ payments' \in [Invoices -> Nat]
        /\ \A j \in Invoices : invoices[j] # None => invoices'[j] # None
        /\ BilledOnItsInvoice'
    BY <2>1, <2>2, SettleStep
  <2>4. TypeOK'
    BY <2>1, <2>3, EndKeeps DEF TypeOK
  <2>5. RequestShape'
    BY <2>1, <2>3, EndShape
  <2> QED
    BY <2>1, <2>3, <2>4, <2>5 DEF WalletBalances
<1>10. CASE RefuseCredit(r)
  <2>1. End(r) /\ UNCHANGED <<entries, invoices, payments, wallets, txns, settings>>
    BY <1>10 DEF RefuseCredit
  <2>2. TypeOK' /\ RequestShape'
    BY <2>1, EndKeeps, EndShape DEF TypeOK
  <2> QED
    BY <2>1, <2>2, BilledStays DEF WalletBalances
<1> QED
  BY <1>2, <1>3, <1>4, <1>5, <1>6, <1>7, <1>8, <1>9, <1>10 DEF Answer

\* Every step keeps the invariant.
LEMMA BillingStep == BillingInv /\ [Next]_vars => BillingInv'
<1> SUFFICES ASSUME BillingInv, [Next]_vars
             PROVE  BillingInv'
  OBVIOUS
<1>1. ASSUME NEW r \in Reqs, Abort(r)
      PROVE  BillingInv'
  <2>1. End(r) /\ UNCHANGED <<entries, invoices, payments, wallets, txns, settings>>
    BY <1>1 DEF Abort
  <2>2. TypeOK' /\ RequestShape'
    BY <2>1, EndKeeps, EndShape DEF TypeOK, BillingInv
  <2> QED
    BY <2>1, <2>2, BilledStays DEF WalletBalances, BillingInv
<1>2. ASSUME NEW e \in Entries, NEW c \in Contacts, NEW amount \in Amounts, PostCharge(e, c, amount)
      PROVE  BillingInv'
  <2>1. WalletBalances'
    BY <1>2 DEF PostCharge, WalletBalances, BillingInv
  <2> QED
    BY <1>2, <2>1, ChargeStep DEF BillingInv
<1>3. ASSUME \/ \E limit \in DefaultLimits : UpdateSettings(limit)
             \/ UNCHANGED vars
      PROVE  BillingInv'
  <2>1. /\ settings' \in DefaultLimits
        /\ UNCHANGED <<entries, invoices, payments, wallets, txns, walletLock, req>>
    BY <1>3 DEF UpdateSettings, vars, BillingInv, TypeOK
  <2>2. TypeOK' /\ WalletBalances' /\ BilledOnItsInvoice'
    BY <2>1, BilledStays DEF TypeOK, WalletBalances, BillingInv
  <2>3. FreeInvoices' = FreeInvoices /\ FreeEntries' = FreeEntries /\ ProjectCredits' = ProjectCredits
    BY <2>1 DEF FreeInvoices, FreeEntries, ProjectCredits, DefaultLimit
  <2> HIDE DEF ProjectCredits
  <2>4. RequestShape'
    BY <2>1, <2>3 DEF RequestShape, BillingInv
  <2> QED
    BY <2>2, <2>4 DEF BillingInv
<1> QED
  BY <1>1, <1>2, <1>3, BeginStep, AnswerStep DEF Next

\* It holds at first.
LEMMA BillingInit == Init => BillingInv
<1> SUFFICES ASSUME Init
             PROVE  BillingInv
  OBVIOUS
<1>1. TypeOK
  BY IdleType DEF Init, TypeOK, NewWallet, Wallet
<1>2. RequestShape
  BY DEF Init, RequestShape, IdleRequest, Locked
<1>3. WalletBalances
  BY DEF Init, WalletBalances, NewWallet
<1>4. FreeEntries = Entries /\ FreeInvoices = Invoices
  BY DEF Init, FreeEntries, FreeInvoices
<1>5. BilledOnItsInvoice
  BY <1>4 DEF BilledOnItsInvoice
<1> QED
  BY <1>1, <1>2, <1>3, <1>5 DEF BillingInv

\* The invariant holds throughout.
LEMMA BillingAlways == Spec => []BillingInv
BY BillingInit, BillingStep, PTL DEF Spec

-----------------------------------------------------------------------------
(* Results *)

\* The variables of the billing stay in their types.
THEOREM BillingTypeCorrect == Spec => []TypeOK
BY BillingAlways, PTL DEF BillingInv

\* No update of a wallet's balance is ever lost: it is the sum of the wallet's
\* transactions, for any number of concurrent top-ups, adjustments and payments.
THEOREM WalletsAlwaysBalance == Spec => []WalletBalances
BY BillingAlways, PTL DEF BillingInv

\* Whatever the billing runs and payments in flight, a charge is either offered for
\* billing or a line of the invoice of its contact that it is attached to.
THEOREM AlwaysBilledOnItsInvoice == Spec => []BilledOnItsInvoice
BY BillingAlways, PTL DEF BillingInv

-----------------------------------------------------------------------------
(* The billing implements WalletAccounts *)

\* What WalletAccounts sees of the wallets.
View == [c \in Contacts |-> [balance |-> txns[c], limit |-> wallets[c].limit]]

Account == [balance : Int, limit : CustomLimits \cup {None}]

\* Accounts that differ in one balance at most.
LEMMA OneBalance ==
  ASSUME NEW before \in [Contacts -> Account], NEW after \in [Contacts -> Account],
         NEW c \in Contacts, \A d \in Contacts \ {c} : after[d] = before[d],
         after[c].limit = before[c].limit
  PROVE  after = [before EXCEPT ![c].balance = after[c].balance]
<1>1. /\ after[c] \in Account /\ before[c] \in Account
      /\ after[c] = [before[c] EXCEPT !.balance = after[c].balance]
  BY DEF Account
<1> QED
  BY <1>1

ViewOK ==
  /\ View \in [Contacts -> Account]
  /\ \A c \in Contacts : View[c].balance = txns[c] /\ View[c].limit = wallets[c].limit

\* The view is well-typed.
LEMMA ViewType == TypeOK => ViewOK
<1> SUFFICES ASSUME TypeOK
             PROVE  ViewOK
  OBVIOUS
<1>1. \A c \in Contacts : View[c].balance = txns[c] /\ View[c].limit = wallets[c].limit
  BY DEF View
<1>2. ASSUME NEW c \in Contacts
      PROVE  [balance |-> txns[c], limit |-> wallets[c].limit] \in Account
  BY DEF TypeOK, Wallet, Account
<1>3. View \in [Contacts -> Account]
  BY <1>2 DEF View
<1> QED
  BY <1>1, <1>3 DEF ViewOK

\* A transaction of one wallet moves the balance of that account only.
LEMMA ViewMoves ==
  ASSUME TypeOK, TypeOK', NEW c \in Contacts, NEW amount \in Int,
         txns' = [txns EXCEPT ![c] = @ + amount],
         \A d \in Contacts : wallets'[d].limit = wallets[d].limit
  PROVE  /\ View' = [View EXCEPT ![c].balance = View'[c].balance]
         /\ View[c].balance = txns[c] /\ View'[c].balance = txns[c] + amount
<1>1. ViewOK /\ ViewOK'
  BY ViewType, PTL
<1>2. txns'[c] = txns[c] + amount /\ \A d \in Contacts \ {c} : txns'[d] = txns[d]
  BY DEF TypeOK
<1>3. /\ View \in [Contacts -> Account] /\ View' \in [Contacts -> Account]
      /\ \A d \in Contacts : View[d].balance = txns[d] /\ View[d].limit = wallets[d].limit
      /\ \A d \in Contacts : View'[d].balance = txns'[d] /\ View'[d].limit = wallets'[d].limit
  BY <1>1 DEF ViewOK
<1>4. \A d \in Contacts \ {c} : View'[d] = View[d]
  <2> SUFFICES ASSUME NEW d \in Contacts \ {c}
               PROVE  View'[d] = View[d]
    OBVIOUS
  <2>1. View'[d] \in Account /\ View[d] \in Account
    BY <1>3
  <2>2. View'[d].balance = View[d].balance /\ View'[d].limit = View[d].limit
    BY <1>2, <1>3
  <2> QED
    BY <2>1, <2>2 DEF Account
<1>5. View'[c].limit = View[c].limit
  BY <1>3
<1>6. View' = [View EXCEPT ![c].balance = View'[c].balance]
  BY <1>3, <1>4, <1>5, OneBalance
<1> QED
  BY <1>2, <1>3, <1>6

\* A positive transaction pays in.
LEMMA PaysIn ==
  ASSUME TypeOK, TypeOK', NEW c \in Contacts, NEW amount \in Int, amount > 0,
         txns' = [txns EXCEPT ![c] = @ + amount],
         \A d \in Contacts : wallets'[d].limit = wallets[d].limit
  PROVE  Accounts!Next
<1>1. txns[c] \in Int
  BY DEF TypeOK
<1>2. /\ View' = [View EXCEPT ![c].balance = View'[c].balance]
      /\ View[c].balance = txns[c] /\ View'[c].balance = txns[c] + amount
  BY ViewMoves
<1>3. View'[c].balance > View[c].balance
  <2> DEFINE new == View'[c].balance
             old == View[c].balance
  <2>1. old = txns[c] /\ new = txns[c] + amount
    BY <1>2
  <2> HIDE DEF new, old
  <2>2. new > old
    BY <1>1, <2>1
  <2> QED
    BY <2>2 DEF new, old
<1>4. Accounts!PayIn(c)
  BY <1>2, <1>3 DEF Accounts!PayIn, Accounts!OnlyBalance, View
<1> QED
  BY <1>4 DEF Accounts!Next

\* A negative one that was compared with the credit limit takes out within it.
LEMMA TakesOut ==
  ASSUME TypeOK, TypeOK', NEW c \in Contacts, NEW amount \in Int, amount < 0,
         txns' = [txns EXCEPT ![c] = @ + amount],
         \A d \in Contacts : wallets'[d].limit = wallets[d].limit,
         NEW q \in Request, q.wallet = wallets[c], q.default \in ProjectCredits,
         wallets[c].balance = txns[c], ~ExceedsCredit(q, amount)
  PROVE  Accounts!Next
<1>1. txns[c] \in Int /\ wallets[c] \in Wallet /\ q.default \in Nat
  BY DEF TypeOK, Request
<1>2. /\ View' = [View EXCEPT ![c].balance = View'[c].balance]
      /\ View[c].balance = txns[c] /\ View'[c].balance = txns[c] + amount
  BY ViewMoves
<1>3. View[c].limit = wallets[c].limit
  BY ViewType DEF ViewOK
<1>4. View'[c].balance < View[c].balance
  <2> DEFINE new == View'[c].balance
             old == View[c].balance
  <2>1. old = txns[c] /\ new = txns[c] + amount
    BY <1>2
  <2> HIDE DEF new, old
  <2>2. new < old
    BY <1>1, <2>1
  <2> QED
    BY <2>2 DEF new, old
<1> DEFINE credit == EffectiveLimit(wallets[c], q.default)
<1>5. credit \in (IF View[c].limit = None THEN ProjectCredits ELSE {View[c].limit})
  BY <1>3 DEF EffectiveLimit
<1>6. credit \in Nat
  BY <1>1, BillingAssumption DEF EffectiveLimit, Wallet
<1>7. ~(txns[c] + amount < -credit)
  BY DEF ExceedsCredit
<1> HIDE DEF credit
<1>8. View'[c].balance >= -credit
  BY <1>1, <1>2, <1>6, <1>7
<1>9. credit \in Accounts!CreditOf(c)
  BY <1>5 DEF Accounts!CreditOf, View, ProjectCredits
<1>10. Accounts!TakeOut(c)
  BY <1>2, <1>4, <1>8, <1>9 DEF Accounts!TakeOut, Accounts!OnlyBalance, View
<1> QED
  BY <1>10 DEF Accounts!Next

\* What does not touch the wallets is a stutter.
LEMMA ViewStutter ==
  ASSUME TypeOK, UNCHANGED <<wallets, txns>>
  PROVE  View' = View
BY DEF View

\* Every step of the billing is a step of the accounts, or a stutter.
LEMMA AccountsStep ==
  BillingInv /\ BillingInv' /\ [Next]_vars => Accounts!Next \/ View' = View
<1> SUFFICES ASSUME BillingInv, BillingInv', [Next]_vars
             PROVE  Accounts!Next \/ View' = View
  OBVIOUS
<1> USE DEF BillingInv
<1>1. ASSUME NEW r \in Reqs, TopUp(r)
      PROVE  Accounts!Next
  <2>1. /\ req[r].pc = "top_up_locked" /\ req[r].pc \in Locked
        /\ PostToWallet(req[r].contact, req[r].wallet, req[r].amount)
    BY <1>1 DEF TopUp, Locked
  <2>2. /\ req[r].contact \in Contacts /\ req[r].amount \in Nat \ {0}
        /\ req[r].amount \in Int /\ req[r].amount > 0
    BY <2>1 DEF RequestShape
  <2>3. /\ txns' = [txns EXCEPT ![req[r].contact] = @ + req[r].amount]
        /\ \A d \in Contacts : wallets'[d].limit = wallets[d].limit
    BY <2>1, <2>2, WalletStep
  <2> QED
    BY <2>2, <2>3, PaysIn
<1>2. ASSUME NEW r \in Reqs, Adjust(r)
      PROVE  Accounts!Next
  <2>1. /\ req[r].pc = "adjust_locked" /\ req[r].pc \in Locked
        /\ PostToWallet(req[r].contact, req[r].wallet, req[r].amount)
        /\ ~ExceedsCredit(req[r], req[r].amount)
    BY <1>2 DEF Adjust, Locked
  <2>2. /\ req[r] \in Request /\ req[r].contact \in Contacts /\ req[r].amount # 0
        /\ req[r].wallet = wallets[req[r].contact] /\ req[r].default \in ProjectCredits
    BY <2>1 DEF RequestShape, TypeOK
  <2>3. req[r].amount \in Int
    BY <2>2 DEF Request
  <2>4. /\ txns' = [txns EXCEPT ![req[r].contact] = @ + req[r].amount]
        /\ \A d \in Contacts : wallets'[d].limit = wallets[d].limit
    BY <2>1, <2>3, WalletStep
  <2>5. wallets[req[r].contact].balance = txns[req[r].contact]
    BY <2>2 DEF WalletBalances
  <2>6. CASE req[r].amount > 0
    BY <2>2, <2>3, <2>4, <2>6, PaysIn
  <2>7. CASE req[r].amount < 0
    BY <2>1, <2>2, <2>3, <2>4, <2>5, <2>7, TakesOut
  <2>8. req[r].amount > 0 \/ req[r].amount < 0
    BY <2>2, <2>3
  <2> QED
    BY <2>6, <2>7, <2>8
<1>3. ASSUME NEW r \in Reqs, PayFromWallet(r)
      PROVE  Accounts!Next
  <2> DEFINE amount == -req[r].amount
  <2>1. /\ req[r].pc = "pay_locked" /\ req[r].pc \in Locked
        /\ PostToWallet(req[r].contact, req[r].wallet, amount)
        /\ ~ExceedsCredit(req[r], amount)
    BY <1>3 DEF PayFromWallet, Locked
  <2>2. /\ req[r] \in Request /\ req[r].contact \in Contacts /\ req[r].amount \in Nat \ {0}
        /\ req[r].wallet = wallets[req[r].contact] /\ req[r].default \in ProjectCredits
    BY <2>1 DEF RequestShape, TypeOK
  <2>3. amount \in Int /\ amount < 0
    BY <2>2
  <2> HIDE DEF amount
  <2>4. /\ txns' = [txns EXCEPT ![req[r].contact] = @ + amount]
        /\ \A d \in Contacts : wallets'[d].limit = wallets[d].limit
    BY <2>1, <2>3, WalletStep
  <2>5. wallets[req[r].contact].balance = txns[req[r].contact]
    BY <2>2 DEF WalletBalances
  <2> QED
    BY <2>1, <2>2, <2>3, <2>4, <2>5, TakesOut
<1>4. ASSUME NEW r \in Reqs, SetLimit(r)
      PROVE  Accounts!Next
  <2>1. /\ req[r].pc = "limit_locked" /\ req[r].pc \in Locked
        /\ wallets' = [wallets EXCEPT ![req[r].contact].limit = req[r].limit]
        /\ UNCHANGED txns
    BY <1>4 DEF SetLimit, Locked
  <2>2. PICK c \in Contacts, limit \in CustomLimits \cup {None} :
          wallets' = [wallets EXCEPT ![c].limit = limit]
    BY <2>1 DEF RequestShape, TypeOK, Request
  <2>3. View' = [View EXCEPT ![c].limit = limit]
    <3>1. /\ \A d \in Contacts \ {c} : wallets'[d].limit = wallets[d].limit
          /\ wallets'[c].limit = limit
      BY <2>2 DEF TypeOK, Wallet
    <3> QED
      BY <2>1, <3>1 DEF View
  <2>4. Accounts!SetLimit(c, limit)
    BY <2>3 DEF Accounts!SetLimit, View
  <2> QED
    BY <2>4 DEF Accounts!Next
<1>5. ASSUME NEW r \in Reqs, Begin(r) \/ Generate(r) \/ LockToAdjust(r) \/ LockToPay(r)
                               \/ PayDirect(r) \/ RefuseCredit(r) \/ Abort(r)
      PROVE  View' = View
  <2>1. UNCHANGED <<wallets, txns>>
    BY <1>5 DEF Begin, BeginGenerate, BeginTopUp, BeginSetLimit, BeginAdjust, BeginPay,
                LockWallet, Generate, LockToAdjust, LockToPay, PayDirect, RefuseCredit, Abort
  <2> QED
    BY <2>1, ViewStutter
<1>6. ASSUME \/ \E e \in Entries, c \in Contacts, amount \in Amounts : PostCharge(e, c, amount)
             \/ \E limit \in DefaultLimits : UpdateSettings(limit)
             \/ UNCHANGED vars
      PROVE  View' = View
  BY <1>6, ViewStutter DEF PostCharge, UpdateSettings, vars
<1> QED
  BY <1>1, <1>2, <1>3, <1>4, <1>5, <1>6 DEF Next, Answer

\* The wallets of the bookings implement accounts that keep their credit limits:
\* whatever the interleaving, a payment or a correction that is committed was within
\* the limit in force for the balance it changed.
THEOREM WalletsImplementAccounts == Spec => KeepsAccounts
<1>1. Init => Accounts!Init
  BY DEF Init, Accounts!Init, NewWallet
<1>2. BillingInv /\ BillingInv' /\ [Next]_vars => [Accounts!Next]_View
  BY AccountsStep
<1> QED
  BY <1>1, <1>2, BillingAlways, PTL DEF Spec, KeepsAccounts, Accounts!Spec, View

=============================================================================
