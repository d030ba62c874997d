------------------------- MODULE FeeInvoicesProofs -------------------------
(***************************************************************************)
(* Proofs about FeeInvoices, for any number of invoices, credits,          *)
(* transactions and periods and any amounts.                               *)
(***************************************************************************)
EXTENDS FeeInvoices, SumLemmas

-----------------------------------------------------------------------------
(* The inductive invariant: what is true of each transaction, of each two, and *)
(* of what is committed.                                                   *)

\* Its credits are not overdrawn, the one it adds is new and the ones it uses exist.
CreditsSound(q) ==
  /\ \A k \in Credits : Held(q, k) >= 0
  /\ q.credit # None => credits[q.credit] = None
  /\ \A k \in Credits : q.uses[k] > 0 \/ q.pool[k] > 0 => credits[k] # None \/ q.credit = k

\* Its bill is a new invoice of a period that has none.
BillSound(q) ==
  q.new # None =>
    /\ q.bill \in Invoice /\ q.bill.status = "issued"
    /\ invoices[q.new] = None
    /\ \A i \in Invoices : invoices[i] # None => invoices[i].period # q.bill.period

\* What it settles is covered, and what it read as due covers the rest.
PaymentsSound(q) ==
  \A i \in Invoices :
    /\ q.status[i] = "paid" => Row(q, i) # None /\ Row(q, i).total <= Paid(q, i)
    /\ q.due[i] > 0 => Row(q, i) # None /\ Row(q, i).total <= Paid(q, i) + q.due[i]

\* What it closes as carried is in the arrears of its bill, which is a later one.
CarriedSound(q) ==
  \A i \in Invoices :
    /\ q.status[i] = "carried_forward" =>
         /\ q.new # None /\ i \in q.bill.arrears
         /\ invoices[i] # None /\ invoices[i].period < q.bill.period
    /\ q.prior[i] > 0 => invoices[i] # None /\ invoices[i].period < q.period

\* What its next step needs.
ShapeSound(q) ==
  /\ q.pc \in {"pay", "cancel"} => q.invoice \in Invoices /\ invoices[q.invoice] # None
  /\ q.pc \in {"pay", "cancel", "apply_prior"} => q.new = None
  /\ q.pc = "pay" => q.credit = None /\ \A i \in Invoices : q.due[i] = 0

Sound(q) ==
  CreditsSound(q) /\ BillSound(q) /\ PaymentsSound(q) /\ CarriedSound(q) /\ ShapeSound(q)

\* Two transactions add different credits and bills of different periods, and the row
\* of a credit is locked by one of them.
Apart(p, q) ==
  /\ p.credit # None => p.credit # q.credit
  /\ \A k \in Credits : ~(p.uses[k] > 0 /\ q.uses[k] > 0)
  /\ p.new # None /\ q.new # None => p.new # q.new /\ p.bill.period # q.bill.period

RequestsInv ==
  /\ \A r \in Reqs : Sound(req[r])
  /\ \A r, s \in Reqs : r # s => Apart(req[r], req[s])

FeeInv == TypeOK /\ RequestsInv /\ BilledOncePerPeriod /\ PaidIsCovered /\ CarriedIsBilled

-----------------------------------------------------------------------------
(* Helpers *)

\* NULL is none of the values it stands in for.
LEMMA Distinct ==
  /\ None \notin Invoices /\ None \notin Credits /\ None \notin Kinds /\ None \notin Nat
  /\ None \notin Invoice /\ None \notin Statuses /\ None # "keep"
  /\ None # "paid" /\ None # "partial" /\ None # "carried_forward"
BY FeeAssumption, RowsAssumption DEF Statuses, Open

\* The helpers on numbers return natural numbers.
LEMMA NumberTypes ==
  /\ \A n \in Int : Positive(n) \in Nat /\ Positive(n) >= n /\ (Positive(n) > 0 => Positive(n) = n)
  /\ \A m, n \in Nat : Smaller(m, n) \in Nat /\ Smaller(m, n) <= m /\ Smaller(m, n) <= n
<1>1. \A n \in Int : Positive(n) \in Nat /\ Positive(n) >= n /\ (Positive(n) > 0 => Positive(n) = n)
  BY DEF Positive
<1>2. \A m, n \in Nat : Smaller(m, n) \in Nat /\ Smaller(m, n) <= m /\ Smaller(m, n) <= n
  BY DEF Smaller
<1> QED
  BY <1>1, <1>2

\* The idle request is well-typed and sound.
LEMMA IdleSound ==
  ASSUME TypeOK
  PROVE  /\ IdleRequest \in Request /\ Sound(IdleRequest)
         /\ \A p : Apart(IdleRequest, p) /\ Apart(p, IdleRequest)
<1>1. IdleRequest \in Request
  BY FeeAssumption DEF IdleRequest, Request, PCs, Periods
<1>2. CreditsSound(IdleRequest)
  BY Distinct DEF CreditsSound, IdleRequest, Held, TypeOK
<1>3. BillSound(IdleRequest) /\ PaymentsSound(IdleRequest) /\ CarriedSound(IdleRequest)
        /\ ShapeSound(IdleRequest)
  BY Distinct DEF BillSound, PaymentsSound, CarriedSound, ShapeSound, IdleRequest
<1>4. /\ IdleRequest.credit = None /\ IdleRequest.new = None
      /\ \A k \in Credits : IdleRequest.uses[k] = 0
  BY DEF IdleRequest
<1>5. \A p : Apart(IdleRequest, p) /\ Apart(p, IdleRequest)
  BY <1>4, SMT DEF Apart
<1> QED
  BY <1>1, <1>2, <1>3, <1>5 DEF Sound

\* So is it in the next state.
LEMMA IdleSoundNext ==
  ASSUME TypeOK'
  PROVE  Sound(IdleRequest)'
<1>1. CreditsSound(IdleRequest)'
  BY Distinct DEF CreditsSound, IdleRequest, Held, TypeOK
<1>2. (BillSound(IdleRequest) /\ PaymentsSound(IdleRequest) /\ CarriedSound(IdleRequest)
        /\ ShapeSound(IdleRequest))'
  BY Distinct DEF BillSound, PaymentsSound, CarriedSound, ShapeSound, IdleRequest
<1> QED
  BY <1>1, <1>2 DEF Sound

\* An invoice as a transaction sees it is the committed one but for its status.
LEMMA RowFacts ==
  ASSUME TypeOK, NEW q \in Request, NEW i \in Invoices
  PROVE  /\ Row(q, i) \in Invoice \cup {None}
         /\ q.new # i /\ invoices[i] = None => Row(q, i) = None
         /\ q.new # i /\ invoices[i] # None =>
              /\ Row(q, i) # None /\ Row(q, i).total = invoices[i].total
              /\ Row(q, i).period = invoices[i].period /\ Row(q, i).arrears = invoices[i].arrears
              /\ Row(q, i).status = (IF q.status[i] = None THEN invoices[i].status ELSE q.status[i])
         /\ q.new = i /\ q.bill # None =>
              /\ Row(q, i) # None /\ Row(q, i).total = q.bill.total
              /\ Row(q, i).period = q.bill.period /\ Row(q, i).arrears = q.bill.arrears
              /\ Row(q, i).status = (IF q.status[i] = None THEN q.bill.status ELSE q.status[i])
<1> DEFINE row == IF q.new = i THEN q.bill ELSE invoices[i]
<1>1. row \in Invoice \cup {None} /\ q.status[i] \in Statuses \cup {None}
  BY DEF TypeOK, Request
<1>2. Row(q, i) = IF row = None \/ q.status[i] = None THEN row
                  ELSE [row EXCEPT !.status = q.status[i]]
  BY DEF Row
<1>3. ASSUME row # None, q.status[i] # None
      PROVE  [row EXCEPT !.status = q.status[i]] \in Invoice
  BY <1>1, <1>3 DEF Invoice
<1>4. Row(q, i) \in Invoice \cup {None}
  BY <1>1, <1>2, <1>3
<1>5. row # None => /\ Row(q, i) # None /\ Row(q, i).total = row.total
                    /\ Row(q, i).period = row.period /\ Row(q, i).arrears = row.arrears
                    /\ Row(q, i).status = (IF q.status[i] = None THEN row.status ELSE q.status[i])
  BY <1>1, <1>2, <1>3, Distinct DEF Invoice
<1>6. row = None => Row(q, i) = None
  BY <1>2
<1> QED
  BY <1>4, <1>5, <1>6

\* What a transaction sees as due and held is a natural number, and no less than what
\* is left of the invoice.
LEMMA DueFacts ==
  ASSUME TypeOK, NEW q \in Request
  PROVE  /\ \A i \in Invoices : Due(q, i) \in Nat
         /\ \A i \in Invoices : Due(q, i) > 0 =>
              Row(q, i) # None /\ Row(q, i).total = Paid(q, i) + Due(q, i)
         /\ \A i \in Invoices : Paid(q, i) \in Nat
         /\ \A k \in Credits : Held(q, k) \in Int /\ Positive(Held(q, k)) \in Nat
<1>1. ASSUME NEW i \in Invoices
      PROVE  /\ Paid(q, i) \in Nat /\ Due(q, i) \in Nat
             /\ Due(q, i) > 0 => Row(q, i) # None /\ Row(q, i).total = Paid(q, i) + Due(q, i)
  <2>1. Paid(q, i) \in Nat
    BY DEF Paid, TypeOK, Request
  <2>2. Row(q, i) # None => Row(q, i).total \in Nat
    BY RowFacts DEF Invoice
  <2>3. Row(q, i) # None => Outstanding(q, i) \in Int /\ Row(q, i).total = Paid(q, i) + Outstanding(q, i)
    BY <2>1, <2>2 DEF Outstanding
  <2> QED
    BY <2>1, <2>3, NumberTypes DEF Due
<1>2. ASSUME NEW k \in Credits
      PROVE  Held(q, k) \in Int /\ Positive(Held(q, k)) \in Nat
  <2>1. Held(q, k) \in Int
    BY DEF Held, TypeOK, Request
  <2> QED
    BY <2>1, NumberTypes
<1> QED
  BY <1>1, <1>2

\* Reading the credits and invoices keeps a sound transaction sound.
LEMMA ReadSound ==
  ASSUME TypeOK, NEW q \in Request,
         CreditsSound(q), BillSound(q), PaymentsSound(q), CarriedSound(q), NEW pc \in {"apply_prior", "apply"},
         pc = "apply_prior" => q.new = None
  PROVE  /\ ReadCredits(q, pc) \in Request /\ Sound(ReadCredits(q, pc))
         /\ \A p : Apart(q, p) => Apart(ReadCredits(q, pc), p)
         /\ \A p : Apart(p, q) => Apart(p, ReadCredits(q, pc))
<1> DEFINE due == [i \in Invoices |-> Due(q, i)]
           pool == [k \in Credits |-> Positive(Held(q, k))]
           q2 == [q EXCEPT !.pc = pc, !.due = due, !.pool = pool]
<1>0. ReadCredits(q, pc) = q2
  BY DEF ReadCredits
<1>1. due \in [Invoices -> Nat] /\ pool \in [Credits -> Nat]
  BY DueFacts
<1>d. \A i \in Invoices : due[i] > 0 => Row(q, i) # None /\ Row(q, i).total <= Paid(q, i) + due[i]
  <2> TAKE i \in Invoices
  <2>1. due[i] = Due(q, i) /\ Due(q, i) \in Nat /\ Paid(q, i) \in Nat
    BY DueFacts
  <2>2. Due(q, i) > 0 => Row(q, i) # None /\ Row(q, i).total = Paid(q, i) + Due(q, i)
    BY DueFacts
  <2> QED
    BY <2>1, <2>2
<1>p. \A k \in Credits : pool[k] > 0 => credits[k] # None \/ q.credit = k
  <2> TAKE k \in Credits
  <2>1. Held(q, k) \in Int /\ q.uses[k] \in Nat
    BY DueFacts DEF Request
  <2>2. pool[k] > 0 => Held(q, k) > 0
    BY <2>1, NumberTypes
  <2> QED
    BY <2>1, <2>2 DEF Held
<1> HIDE DEF due, pool
<1>2. q2 \in Request
  BY <1>1 DEF Request, PCs
<1>3. /\ q2.pc = pc /\ q2.due = due /\ q2.pool = pool /\ q2.status = q.status /\ q2.new = q.new
      /\ q2.bill = q.bill /\ q2.credit = q.credit /\ q2.uses = q.uses /\ q2.pays = q.pays
      /\ q2.surplus = q.surplus /\ q2.prior = q.prior /\ q2.period = q.period
  BY DEF Request
<1> HIDE DEF q2
<1>4. \A i \in Invoices : Row(q2, i) = Row(q, i) /\ Paid(q2, i) = Paid(q, i)
  BY <1>3 DEF Row, Paid
<1>5. \A k \in Credits : Held(q2, k) = Held(q, k)
  BY <1>3 DEF Held
<1>6. CreditsSound(q2)
  BY <1>3, <1>5, <1>p DEF CreditsSound
<1>7. BillSound(q2) /\ CarriedSound(q2)
  BY <1>3 DEF BillSound, CarriedSound
<1>8. PaymentsSound(q2)
  BY <1>3, <1>4, <1>d DEF PaymentsSound
<1>9. ShapeSound(q2)
  BY <1>3 DEF ShapeSound
<1>10. \A p : (Apart(q, p) => Apart(q2, p)) /\ (Apart(p, q) => Apart(p, q2))
  BY <1>3 DEF Apart
<1> QED
  BY <1>0, <1>2, <1>6, <1>7, <1>8, <1>9, <1>10 DEF Sound

\* A step of one transaction that commits nothing keeps the invariant if the
\* transaction stays sound and apart from the others.
LEMMA ContinueKeeps ==
  ASSUME FeeInv, NEW r \in Reqs, NEW q \in Request, Sound(q),
         \A s \in Reqs \ {r} : Apart(q, req[s]) /\ Apart(req[s], q),
         Continue(r, q)
  PROVE  FeeInv'
<1>1. /\ req' = [req EXCEPT ![r] = q] /\ req \in [Reqs -> Request]
      /\ UNCHANGED <<now, invoices, paid, credits, override, blocked, received>>
  BY DEF Continue, FeeInv, TypeOK
<1>2. req' \in [Reqs -> Request] /\ req'[r] = q /\ \A s \in Reqs \ {r} : req'[s] = req[s]
  BY <1>1
<1>3. TypeOK'
  BY <1>1, <1>2 DEF FeeInv, TypeOK
<1>4. \A p : Sound(p) => (\A s \in Reqs : req'[s] = p => Sound(req[s])')
  <2> SUFFICES ASSUME NEW p, Sound(p), NEW s \in Reqs, req'[s] = p
               PROVE  Sound(req[s])'
    OBVIOUS
  <2> QED
    BY <1>1 DEF Sound, CreditsSound, BillSound, PaymentsSound, CarriedSound, ShapeSound,
                Row, Paid, Held
<1>5. \A s \in Reqs : Sound(req[s])'
  <2> TAKE s \in Reqs
  <2>1. CASE s = r
    BY <2>1, <1>2, <1>4
  <2>2. CASE s # r
    BY <2>2, <1>2, <1>4 DEF FeeInv, RequestsInv
  <2> QED
    BY <2>1, <2>2
<1>6. \A s, t \in Reqs : s # t => Apart(req[s], req[t])'
  BY <1>2 DEF FeeInv, RequestsInv, Apart
<1>7. (BilledOncePerPeriod /\ PaidIsCovered /\ CarriedIsBilled)'
  BY <1>1 DEF FeeInv, BilledOncePerPeriod, PaidIsCovered, CarriedIsBilled
<1> QED
  BY <1>3, <1>5, <1>6, <1>7 DEF FeeInv, RequestsInv

-----------------------------------------------------------------------------
(* The steps of a transaction *)

\* It has written nothing but perhaps an override, and read no credits.
Fresh(q) ==
  /\ q.credit = None /\ q.new = None
  /\ \A i \in Invoices : q.status[i] = None /\ q.due[i] = 0
  /\ \A k \in Credits : q.uses[k] = 0 /\ q.pool[k] = 0

LEMMA FreshSound ==
  ASSUME TypeOK, NEW q \in Request, Fresh(q),
         q.pc \in {"pay", "cancel"} => q.invoice \in Invoices /\ invoices[q.invoice] # None,
         \A i \in Invoices : q.prior[i] > 0 => invoices[i] # None /\ invoices[i].period < q.period
  PROVE  Sound(q) /\ \A p : Apart(q, p) /\ Apart(p, q)
<1>1. CreditsSound(q)
  BY Distinct DEF Fresh, CreditsSound, Held, TypeOK
<1>2. BillSound(q) /\ PaymentsSound(q) /\ CarriedSound(q) /\ ShapeSound(q)
  BY Distinct DEF Fresh, BillSound, PaymentsSound, CarriedSound, ShapeSound
<1>3. \A p : Apart(q, p) /\ Apart(p, q)
  BY SMT DEF Fresh, Apart
<1> QED
  BY <1>1, <1>2, <1>3 DEF Sound

\* A payment, a cancellation or an override begins.
LEMMA BeginPayKeeps ==
  ASSUME FeeInv, NEW r \in Reqs, NEW i \in Invoices, NEW amount \in Receipts,
         BeginPay(r, i, amount)
  PROVE  FeeInv'
<1> DEFINE applied == AppliedTo(i, amount)
           q == [IdleRequest EXCEPT !.pc = "pay", !.invoice = i, !.applied = applied,
                                    !.surplus = amount - applied]
<1>1. /\ amount \in Nat /\ invoices[i] # None /\ invoices[i] \in Invoice /\ paid[i] \in Nat
      /\ TypeOK /\ IdleRequest \in Request
  BY FeeAssumption, IdleSound DEF BeginPay, FeeInv, TypeOK
<1>2. applied \in Nat /\ applied <= amount
  <2>1. invoices[i].total - paid[i] \in Int
    BY <1>1 DEF Invoice
  <2> QED
    BY <1>1, <2>1, NumberTypes DEF AppliedTo
<1>3. Continue(r, q)
  BY DEF BeginPay
<1> HIDE DEF applied
<1>4. amount - applied \in Nat
  BY <1>1, <1>2
<1>5. q \in Request
  BY <1>1, <1>2, <1>4 DEF Request, PCs
<1>6. /\ Fresh(q) /\ q.pc = "pay" /\ q.invoice = i /\ \A j \in Invoices : q.prior[j] = 0
  BY DEF IdleRequest, Fresh
<1> HIDE DEF q
<1> QED
  BY <1>1, <1>3, <1>5, <1>6, FreshSound, ContinueKeeps

LEMMA BeginCancelKeeps ==
  ASSUME FeeInv, NEW r \in Reqs, NEW i \in Invoices, BeginCancel(r, i)
  PROVE  FeeInv'
<1> DEFINE q == [IdleRequest EXCEPT !.pc = "cancel", !.invoice = i]
<1>1. TypeOK /\ IdleRequest \in Request /\ invoices[i] # None /\ Continue(r, q)
  BY IdleSound DEF FeeInv, BeginCancel
<1>2. q \in Request
  BY <1>1 DEF Request, PCs
<1>3. /\ Fresh(q) /\ q.invoice = i /\ \A j \in Invoices : q.prior[j] = 0
  BY DEF IdleRequest, Fresh
<1> HIDE DEF q
<1> QED
  BY <1>1, <1>2, <1>3, FreshSound, ContinueKeeps

LEMMA OverrideKeeps ==
  ASSUME FeeInv, NEW r \in Reqs, NEW kind \in Kinds \cup {None},
         Continue(r, [IdleRequest EXCEPT !.pc = "apply", !.override = kind])
  PROVE  FeeInv'
<1> DEFINE q == [IdleRequest EXCEPT !.pc = "apply", !.override = kind]
<1>1. TypeOK /\ IdleRequest \in Request /\ Continue(r, q)
  BY IdleSound DEF FeeInv
<1>2. q \in Request
  BY <1>1 DEF Request, PCs
<1>3. /\ Fresh(q) /\ q.pc = "apply" /\ \A j \in Invoices : q.prior[j] = 0
  BY DEF IdleRequest, Fresh
<1> HIDE DEF q
<1> QED
  BY <1>1, <1>2, <1>3, FreshSound, ContinueKeeps

\* The job begins with what it reads.
LEMMA BeginJobKeeps ==
  ASSUME FeeInv, NEW r \in Reqs, BeginJob(r)
  PROVE  FeeInv'
<1> DEFINE prior == [i \in Invoices |->
                       IF invoices[i] # None /\ invoices[i].period < now THEN Due(IdleRequest, i) ELSE 0]
           q == [IdleRequest EXCEPT !.period = now, !.prior = prior]
<1>1. TypeOK /\ IdleRequest \in Request
  BY IdleSound DEF FeeInv
<1>2. prior \in [Invoices -> Nat] /\ now \in Periods
  BY <1>1, DueFacts DEF TypeOK
<1>3. \A i \in Invoices : prior[i] > 0 => invoices[i] # None /\ invoices[i].period < now
  OBVIOUS
<1>4. Continue(r, ReadCredits([IdleRequest EXCEPT !.period = now, !.prior = prior], "apply_prior"))
  BY DEF BeginJob
<1> HIDE DEF prior
<1>5. q \in Request
  BY <1>1, <1>2 DEF Request
<1>6. Fresh(q) /\ q.pc = "idle" /\ q.prior = prior /\ q.period = now
  BY DEF IdleRequest, Fresh
<1> HIDE DEF q
<1>7. Sound(q) /\ \A p : Apart(q, p) /\ Apart(p, q)
  BY <1>1, <1>3, <1>5, <1>6, FreshSound
<1>8. Continue(r, ReadCredits(q, "apply_prior"))
  BY <1>4 DEF q
<1> QED
  BY <1>1, <1>5, <1>6, <1>7, <1>8, ReadSound, ContinueKeeps DEF Fresh, Sound

\* A job without a bill, and an evaluation, change nothing the invariant speaks of.
LEMMA MoveOn ==
  ASSUME FeeInv, NEW r \in Reqs, NEW pc \in {"apply", "commit"},
         NEW kind \in Kinds \cup {None, "keep"}, NEW verdict \in BOOLEAN,
         Continue(r, [req[r] EXCEPT !.pc = pc, !.override = kind, !.verdict = verdict])
  PROVE  FeeInv'
<1> DEFINE q == req[r]
           q2 == [q EXCEPT !.pc = pc, !.override = kind, !.verdict = verdict]
<1>1. q \in Request /\ Sound(q) /\ \A s \in Reqs \ {r} : Apart(q, req[s]) /\ Apart(req[s], q)
  BY DEF FeeInv, TypeOK, RequestsInv
<1>2. Continue(r, q2)
  OBVIOUS
<1> HIDE DEF q
<1>3. q2 \in Request
  BY <1>1 DEF Request, PCs
<1>4. /\ q2.pc = pc /\ q2.due = q.due /\ q2.pool = q.pool /\ q2.status = q.status
      /\ q2.new = q.new /\ q2.bill = q.bill /\ q2.credit = q.credit /\ q2.uses = q.uses
      /\ q2.pays = q.pays /\ q2.surplus = q.surplus /\ q2.prior = q.prior /\ q2.period = q.period
  BY <1>1 DEF Request
<1> HIDE DEF q2
<1>5. \A i \in Invoices : Row(q2, i) = Row(q, i) /\ Paid(q2, i) = Paid(q, i)
  BY <1>4 DEF Row, Paid
<1>6. \A k \in Credits : Held(q2, k) = Held(q, k)
  BY <1>4 DEF Held
<1>7. CreditsSound(q2) /\ BillSound(q2) /\ CarriedSound(q2)
  BY <1>1, <1>4, <1>6 DEF Sound, CreditsSound, BillSound, CarriedSound
<1>8. PaymentsSound(q2) /\ ShapeSound(q2)
  BY <1>1, <1>4, <1>5 DEF Sound, PaymentsSound, ShapeSound
<1>9. \A s \in Reqs \ {r} : Apart(q2, req[s]) /\ Apart(req[s], q2)
  BY <1>1, <1>4 DEF Apart
<1> QED
  BY <1>2, <1>3, <1>7, <1>8, <1>9, ContinueKeeps DEF Sound

LEMMA CancelKeeps ==
  ASSUME FeeInv, NEW r \in Reqs, CancelInvoice(r)
  PROVE  FeeInv'
<1> DEFINE q == req[r]
           i == q.invoice
           q2 == [q EXCEPT !.pc = "apply", !.status[i] = "cancelled"]
<1>1. /\ q \in Request /\ Sound(q) /\ TypeOK
      /\ \A s \in Reqs \ {r} : Apart(q, req[s]) /\ Apart(req[s], q)
  BY DEF FeeInv, TypeOK, RequestsInv
<1>2. q.pc = "cancel" /\ Continue(r, q2)
  BY DEF CancelInvoice
<1>3. i \in Invoices /\ q.new = None
  BY <1>1, <1>2 DEF Sound, ShapeSound
<1> HIDE DEF q, i
<1>4. q2 \in Request
  BY <1>1, <1>3 DEF Request, PCs, Statuses
<1>5. /\ q2.pc = "apply" /\ q2.due = q.due /\ q2.pool = q.pool
      /\ q2.status = [q.status EXCEPT ![i] = "cancelled"]
      /\ q2.new = q.new /\ q2.bill = q.bill /\ q2.credit = q.credit /\ q2.uses = q.uses
      /\ q2.pays = q.pays /\ q2.surplus = q.surplus /\ q2.prior = q.prior /\ q2.period = q.period
  BY <1>1 DEF Request
<1> HIDE DEF q2
<1>6. \A k \in Credits : Held(q2, k) = Held(q, k)
  BY <1>5 DEF Held
<1>7. \A j \in Invoices : q2.status[j] = (IF j = i THEN "cancelled" ELSE q.status[j])
  BY <1>1, <1>3, <1>5 DEF Request
<1>8. CreditsSound(q2) /\ BillSound(q2) /\ CarriedSound(q2) /\ ShapeSound(q2)
  BY <1>1, <1>3, <1>5, <1>6, <1>7 DEF Sound, CreditsSound, BillSound, CarriedSound, ShapeSound
<1>9. PaymentsSound(q2)
  <2> SUFFICES ASSUME NEW j \in Invoices
               PROVE  /\ q2.status[j] = "paid" => Row(q2, j) # None /\ Row(q2, j).total <= Paid(q2, j)
                      /\ q2.due[j] > 0 => Row(q2, j) # None /\ Row(q2, j).total <= Paid(q2, j) + q2.due[j]
    BY DEF PaymentsSound
  <2>1. /\ q.status[j] = "paid" => Row(q, j) # None /\ Row(q, j).total <= Paid(q, j)
        /\ q.due[j] > 0 => Row(q, j) # None /\ Row(q, j).total <= Paid(q, j) + q.due[j]
    BY <1>1 DEF Sound, PaymentsSound
  <2>2. Paid(q2, j) = Paid(q, j) /\ q2.due[j] = q.due[j]
    BY <1>5 DEF Paid
  <2>3. Row(q, j) # None => Row(q2, j) # None /\ Row(q2, j).total = Row(q, j).total
    BY <1>1, <1>3, <1>4, <1>5, RowFacts, Distinct
  <2> QED
    BY <1>7, <2>1, <2>2, <2>3
<1>10. \A s \in Reqs \ {r} : Apart(q2, req[s]) /\ Apart(req[s], q2)
  BY <1>1, <1>5 DEF Apart
<1> QED
  BY <1>2, <1>4, <1>8, <1>9, <1>10, ContinueKeeps DEF Sound

\* What a payment settles, or a credit adds to, an invoice it sees.
LEMMA PayKeeps ==
  ASSUME FeeInv, NEW r \in Reqs, Pay(r)
  PROVE  FeeInv'
<1> DEFINE q == req[r]
           i == q.invoice
           paying == [q EXCEPT !.pays[i] = q.applied,
                               !.status[i] = StatusAfter(invoices[i].total, q.applied)]
           entered == IF q.applied = 0 THEN q ELSE paying
<1>1. /\ q \in Request /\ Sound(q) /\ TypeOK
      /\ \A s \in Reqs \ {r} : Apart(q, req[s]) /\ Apart(req[s], q)
  BY DEF FeeInv, TypeOK, RequestsInv
<1>2. q.pc = "pay" /\ \E k \in IF q.surplus = 0 THEN {None} ELSE NewCredits :
         Continue(r, ReadCredits([entered EXCEPT !.credit = k], "apply"))
  BY DEF Pay
<1>3. i \in Invoices /\ invoices[i] # None /\ q.new = None /\ q.credit = None
  BY <1>1, <1>2 DEF Sound, ShapeSound
<1>4. PICK k \in IF q.surplus = 0 THEN {None} ELSE NewCredits :
        Continue(r, ReadCredits([entered EXCEPT !.credit = k], "apply"))
  BY <1>2
<1>5. k \in Credits \cup {None} /\ (k = None \/ k \in NewCredits)
  BY <1>4 DEF NewCredits
<1>t. invoices[i].total \in Nat /\ q.applied \in Nat /\ q.surplus \in Nat
      /\ StatusAfter(invoices[i].total, q.applied) \in Statuses
  BY <1>1, <1>3 DEF TypeOK, Invoice, Request, StatusAfter, Statuses, Open
<1> HIDE DEF q, i
<1>6. entered \in Request
  BY <1>1, <1>3, <1>t DEF Request
<1>7. /\ entered.pc = q.pc /\ entered.due = q.due /\ entered.pool = q.pool
      /\ entered.new = q.new /\ entered.bill = q.bill /\ entered.credit = q.credit
      /\ entered.uses = q.uses /\ entered.surplus = q.surplus /\ entered.prior = q.prior
      /\ entered.period = q.period /\ entered.invoice = q.invoice
  BY <1>1 DEF Request
<1>8. /\ \A j \in Invoices \ {i} : entered.status[j] = q.status[j] /\ entered.pays[j] = q.pays[j]
      /\ q.applied = 0 => entered.status[i] = q.status[i] /\ entered.pays[i] = q.pays[i]
      /\ q.applied # 0 => /\ entered.status[i] = StatusAfter(invoices[i].total, q.applied)
                          /\ entered.pays[i] = q.applied
  BY <1>1, <1>3 DEF Request
<1> HIDE DEF entered
<1> DEFINE q2 == [entered EXCEPT !.credit = k]
<1>9. q2 \in Request
  BY <1>5, <1>6 DEF Request
<1>10. /\ q2.pc = q.pc /\ q2.due = q.due /\ q2.pool = q.pool /\ q2.new = None
       /\ q2.bill = q.bill /\ q2.credit = k /\ q2.uses = q.uses /\ q2.surplus = q.surplus
       /\ q2.prior = q.prior /\ q2.period = q.period /\ q2.invoice = q.invoice
       /\ q2.status = entered.status /\ q2.pays = entered.pays
  BY <1>3, <1>6, <1>7 DEF Request
<1>11. Continue(r, ReadCredits(q2, "apply"))
  BY <1>4
<1> HIDE DEF q2
<1>12. CreditsSound(q2)
  <2>1. \A c \in Credits : (q.uses[c] > 0 \/ q.pool[c] > 0 => credits[c] # None)
    BY <1>1, <1>3, Distinct DEF Sound, CreditsSound
  <2>2. \A c \in Credits : Held(q, c) >= 0 /\ q.uses[c] \in Nat
    BY <1>1 DEF Sound, CreditsSound, Request
  <2>3. k # None => credits[k] = None
    BY <1>5 DEF NewCredits
  <2>4. \A c \in Credits : Held(q2, c) >= 0
    BY <1>3, <1>10, <1>t, <2>1, <2>2, <2>3, Distinct DEF Held
  <2> QED
    BY <1>10, <2>1, <2>3, <2>4 DEF CreditsSound
<1>13. BillSound(q2)
  BY <1>10 DEF BillSound
<1>s. StatusAfter(invoices[i].total, q.applied) # "carried_forward"
  BY DEF StatusAfter
<1>14. CarriedSound(q2)
  <2>1. \A j \in Invoices : q.status[j] # "carried_forward"
    BY <1>1, <1>3 DEF Sound, CarriedSound
  <2>2. \A j \in Invoices : q2.status[j] # "carried_forward"
    BY <1>8, <1>10, <1>s, <2>1
  <2>3. \A j \in Invoices : q.prior[j] > 0 => invoices[j] # None /\ invoices[j].period < q.period
    BY <1>1 DEF Sound, CarriedSound
  <2> QED
    BY <1>10, <2>2, <2>3 DEF CarriedSound
<1>15. PaymentsSound(q2)
  <2> SUFFICES ASSUME NEW j \in Invoices
               PROVE  /\ q2.status[j] = "paid" => Row(q2, j) # None /\ Row(q2, j).total <= Paid(q2, j)
                      /\ q2.due[j] > 0 => Row(q2, j) # None /\ Row(q2, j).total <= Paid(q2, j) + q2.due[j]
    BY DEF PaymentsSound
  <2>1. /\ q.status[j] = "paid" => Row(q, j) # None /\ Row(q, j).total <= Paid(q, j)
        /\ q.due[j] > 0 => Row(q, j) # None /\ Row(q, j).total <= Paid(q, j) + q.due[j]
    BY <1>1 DEF Sound, PaymentsSound
  <2>2. Row(q, j) # None => Row(q2, j) # None /\ Row(q2, j).total = Row(q, j).total
    BY <1>1, <1>3, <1>9, <1>10, RowFacts, Distinct
  <2>3. paid[j] \in Nat /\ q.pays[j] \in Nat /\ q.due[j] \in Nat /\ q2.due[j] = q.due[j]
    BY <1>1, <1>10 DEF TypeOK, Request
  <2>4. Row(q, j) # None => Row(q, j).total \in Nat
    BY <1>1, RowFacts DEF Invoice
  <2>5. CASE j # i \/ q.applied = 0
    <3>1. q2.status[j] = q.status[j] /\ q2.pays[j] = q.pays[j]
      BY <1>8, <1>10, <2>5
    <3> QED
      BY <2>1, <2>2, <2>3, <3>1 DEF Paid
  <2>6. CASE j = i /\ q.applied # 0
    <3>1. /\ Row(q, i) # None /\ Row(q, i).total = invoices[i].total
          /\ Row(q2, i) # None /\ Row(q2, i).total = invoices[i].total
      BY <1>1, <1>3, <1>9, <1>10, RowFacts, Distinct
    <3>2. q2.pays[i] = q.applied /\ q2.status[i] = StatusAfter(invoices[i].total, q.applied)
      BY <1>8, <1>10, <2>6
    <3>3. q.due[i] = 0
      BY <1>1, <1>2, <1>3 DEF Sound, ShapeSound
    <3> QED
      BY <1>t, <2>1, <2>3, <2>6, <3>1, <3>2, <3>3 DEF Paid, StatusAfter
  <2> QED
    BY <2>5, <2>6
<1>16. \A s \in Reqs \ {r} : Apart(q2, req[s]) /\ Apart(req[s], q2)
  <2>1. \A s \in Reqs : k # None => req[s].credit # k
    BY <1>5 DEF NewCredits
  <2> QED
    BY <1>1, <1>10, <2>1 DEF Apart
<1> QED
  BY <1>1, <1>9, <1>11, <1>12, <1>13, <1>14, <1>15, <1>16, ReadSound, ContinueKeeps

LEMMA ApplyKeeps ==
  ASSUME FeeInv, NEW r \in Reqs, ApplyCredit(r)
  PROVE  FeeInv'
<1> DEFINE q == req[r]
<1>1. /\ q \in Request /\ Sound(q) /\ TypeOK
      /\ \A s \in Reqs \ {r} : Apart(q, req[s]) /\ Apart(req[s], q)
  BY DEF FeeInv, TypeOK, RequestsInv
<1>2. PICK i \in Invoices, k \in Credits :
        /\ Smaller(q.due[i], q.pool[k]) > 0
        /\ Free(r, {i, k})
        /\ Continue(r, WithCredit(q, i, k, Smaller(q.due[i], q.pool[k])))
  BY DEF ApplyCredit
<1>3. PICK take : take = Smaller(q.due[i], q.pool[k])
  OBVIOUS
<1>pc. q.pc \in {"apply_prior", "apply"}
  BY DEF ApplyCredit
<1>4. PICK used : used = Consumed(q, k, take)
  OBVIOUS
<1>5. PICK status : status = StatusAfter(q.due[i], take)
  OBVIOUS
<1>6. PICK prior : prior = Positive(q.prior[i] - take)
  OBVIOUS
<1> HIDE DEF q
<1> DEFINE q2 == [q EXCEPT !.due[i] = @ - take, !.pool[k] = @ - take, !.prior[i] = prior,
                           !.pays[i] = @ + take, !.uses[k] = @ + used, !.status[i] = status]
<1>7. Continue(r, q2)
  BY <1>2, <1>3, <1>4, <1>5, <1>6 DEF WithCredit
<1>8. /\ q.due[i] \in Nat /\ q.pool[k] \in Nat /\ q.prior[i] \in Nat /\ q.pays[i] \in Nat
      /\ q.uses[k] \in Nat /\ Held(q, k) \in Int
  BY <1>1, DueFacts DEF Request
<1>9. take \in Nat /\ take > 0 /\ take <= q.due[i] /\ take <= q.pool[k]
  BY <1>2, <1>3, <1>8, NumberTypes
<1>10. used \in Nat /\ (used > 0 => used <= Held(q, k))
  BY <1>4, <1>8, <1>9 DEF Consumed
<1>11. status \in {"paid", "partial"} /\ (status = "paid" => q.due[i] <= take)
  BY <1>5 DEF StatusAfter
<1>12. prior \in Nat /\ (prior > 0 => q.prior[i] > 0)
  <2>1. PICK left : left = q.prior[i] - take
    OBVIOUS
  <2>2. left \in Int /\ (left > 0 => q.prior[i] > 0)
    BY <1>8, <1>9, <2>1
  <2>3. prior = Positive(left)
    BY <1>6, <2>1
  <2> QED
    BY <2>2, <2>3, NumberTypes
<1>13. q2 \in Request
  <2>1. q.due[i] - take \in Nat /\ q.pool[k] - take \in Nat
    BY <1>8, <1>9
  <2>2. q.pays[i] + take \in Nat /\ q.uses[k] + used \in Nat /\ status \in Statuses
    BY <1>8, <1>9, <1>10, <1>11 DEF Statuses, Open
  <2> QED
    BY <1>1, <1>12, <2>1, <2>2 DEF Request
<1>14. /\ q2.pc = q.pc /\ q2.new = q.new /\ q2.bill = q.bill /\ q2.credit = q.credit
       /\ q2.surplus = q.surplus /\ q2.period = q.period /\ q2.invoice = q.invoice
       /\ q2.due = [q.due EXCEPT ![i] = @ - take] /\ q2.pool = [q.pool EXCEPT ![k] = @ - take]
       /\ q2.prior = [q.prior EXCEPT ![i] = prior] /\ q2.pays = [q.pays EXCEPT ![i] = @ + take]
       /\ q2.uses = [q.uses EXCEPT ![k] = @ + used] /\ q2.status = [q.status EXCEPT ![i] = status]
  BY <1>1 DEF Request
<1> HIDE DEF q2
<1>15. \A j \in Invoices :
         /\ q2.due[j] = (IF j = i THEN q.due[j] - take ELSE q.due[j])
         /\ q2.pays[j] = (IF j = i THEN q.pays[j] + take ELSE q.pays[j])
         /\ q2.status[j] = (IF j = i THEN status ELSE q.status[j])
         /\ q2.prior[j] = (IF j = i THEN prior ELSE q.prior[j])
  BY <1>1, <1>14 DEF Request
<1>16. \A c \in Credits :
         /\ q2.pool[c] = (IF c = k THEN q.pool[c] - take ELSE q.pool[c])
         /\ q2.uses[c] = (IF c = k THEN q.uses[c] + used ELSE q.uses[c])
  BY <1>1, <1>14 DEF Request
<1>17. CreditsSound(q2)
  <2>1. \A c \in Credits : Held(q, c) \in Int /\ Held(q, c) >= 0 /\ q.uses[c] \in Nat
    BY <1>1, DueFacts DEF Sound, CreditsSound, Request
  <2>2. \A c \in Credits : Held(q2, c) = (IF c = k THEN Held(q, c) - used ELSE Held(q, c))
    <3> TAKE c \in Credits
    <3>1. (IF q.credit = c THEN q.surplus ELSE IF credits[c] = None THEN 0 ELSE credits[c]) \in Nat
      BY <1>1 DEF TypeOK, Request
    <3>2. PICK base : base = IF q.credit = c THEN q.surplus ELSE IF credits[c] = None THEN 0 ELSE credits[c]
      OBVIOUS
    <3>3. Held(q, c) = base - q.uses[c] /\ Held(q2, c) = base - q2.uses[c] /\ base \in Nat
      BY <1>14, <3>1, <3>2 DEF Held
    <3> QED
      BY <1>10, <1>16, <2>1, <3>3
  <2>3. \A c \in Credits : Held(q2, c) >= 0
    BY <1>10, <2>1, <2>2
  <2>4. \A c \in Credits : q.uses[c] > 0 \/ q.pool[c] > 0 => credits[c] # None \/ q.credit = c
    BY <1>1 DEF Sound, CreditsSound
  <2>5. \A c \in Credits : q2.uses[c] > 0 \/ q2.pool[c] > 0 => credits[c] # None \/ q.credit = c
    BY <1>8, <1>9, <1>16, <2>4
  <2>6. q.credit # None => credits[q.credit] = None
    BY <1>1 DEF Sound, CreditsSound
  <2> QED
    BY <1>14, <2>3, <2>5, <2>6 DEF CreditsSound
<1>18. BillSound(q2) /\ ShapeSound(q2)
  BY <1>1, <1>pc, <1>14 DEF Sound, BillSound, ShapeSound
<1>19. CarriedSound(q2)
  BY <1>1, <1>11, <1>12, <1>14, <1>15 DEF Sound, CarriedSound
<1>20. PaymentsSound(q2)
  <2> SUFFICES ASSUME NEW j \in Invoices
               PROVE  /\ q2.status[j] = "paid" => Row(q2, j) # None /\ Row(q2, j).total <= Paid(q2, j)
                      /\ q2.due[j] > 0 => Row(q2, j) # None /\ Row(q2, j).total <= Paid(q2, j) + q2.due[j]
    BY DEF PaymentsSound
  <2>1. /\ q.status[j] = "paid" => Row(q, j) # None /\ Row(q, j).total <= Paid(q, j)
        /\ q.due[j] > 0 => Row(q, j) # None /\ Row(q, j).total <= Paid(q, j) + q.due[j]
    BY <1>1 DEF Sound, PaymentsSound
  <2>2. Row(q, j) # None =>
          Row(q2, j) # None /\ Row(q2, j).total = Row(q, j).total /\ Row(q, j).total \in Nat
    <3>1. Row(q, j) # None => (q.new # j /\ invoices[j] # None) \/ (q.new = j /\ q.bill # None)
      BY <1>1, RowFacts DEF Row
    <3>2. Row(q, j) # None => Row(q, j).total \in Nat
      BY <1>1, RowFacts DEF Invoice
    <3> QED
      BY <1>1, <1>13, <1>14, <3>1, <3>2, RowFacts
  <2>3. paid[j] \in Nat /\ q.pays[j] \in Nat /\ q.due[j] \in Nat
    BY <1>1 DEF TypeOK, Request
  <2>4. CASE j # i
    BY <1>15, <2>1, <2>2, <2>3, <2>4 DEF Paid
  <2>5. CASE j = i
    <3>1. Row(q, i) # None /\ Row(q, i).total <= Paid(q, i) + q.due[i]
      BY <1>8, <1>9, <2>1, <2>5
    <3>2. Paid(q2, i) = Paid(q, i) + take /\ Paid(q, i) \in Nat
      BY <1>9, <1>15, <2>3, <2>5 DEF Paid
    <3> QED
      BY <1>8, <1>9, <1>11, <1>15, <2>2, <2>5, <3>1, <3>2
  <2> QED
    BY <2>4, <2>5
<1>21. \A s \in Reqs \ {r} : Apart(q2, req[s]) /\ Apart(req[s], q2)
  <2> TAKE s \in Reqs \ {r}
  <2>1. ~(req[s].uses[k] > 0)
    BY <1>2 DEF Free, Written
  <2> QED
    BY <1>1, <1>14, <1>16, <2>1 DEF Apart
<1> QED
  BY <1>7, <1>13, <1>17, <1>18, <1>19, <1>20, <1>21, ContinueKeeps DEF Sound

\* The job finds the bill of its period.
LEMMA FindBillKeeps ==
  ASSUME FeeInv, NEW r \in Reqs, FindBill(r)
  PROVE  FeeInv'
<1> DEFINE q == req[r]
<1>1. /\ q \in Request /\ Sound(q) /\ TypeOK
      /\ \A s \in Reqs \ {r} : Apart(q, req[s]) /\ Apart(req[s], q)
  BY DEF FeeInv, TypeOK, RequestsInv
<1>2. Continue(r, ReadCredits(q, "apply"))
  BY DEF FindBill
<1> HIDE DEF q
<1> QED
  BY <1>1, <1>2, ReadSound, ContinueKeeps DEF Sound

\* The job bills its period.
LEMMA BillKeeps ==
  ASSUME FeeInv, NEW r \in Reqs, Bill(r)
  PROVE  FeeInv'
<1> DEFINE q == req[r]
<1>1. /\ q \in Request /\ Sound(q) /\ TypeOK
      /\ \A s \in Reqs \ {r} : Apart(q, req[s]) /\ Apart(req[s], q)
  BY DEF FeeInv, TypeOK, RequestsInv
<1>2. PICK i \in NewInvoices, carried \in SUBSET Carriable(q), late \in LateFees :
        Continue(r, ReadCredits(Kept(WithBill(q, i, carried, late)), "apply"))
  BY DEF Bill
<1>3. /\ q.pc = "apply_prior" /\ Free(r, {BillKey(q.period)}) /\ ~Billed(q)
  BY DEF Bill
<1>4. i \in Invoices /\ invoices[i] = None /\ \A s \in Reqs : req[s].new # i
  BY DEF NewInvoices
<1>5. carried \subseteq Invoices /\ \A j \in carried : q.prior[j] > 0
  BY DEF Carriable
<1>6. q.new = None
  BY <1>1, <1>3 DEF Sound, ShapeSound
<1>7. \A s \in Reqs \ {r} : req[s].new # None => req[s].bill.period # q.period
  BY <1>3 DEF Free, Written
<1> HIDE DEF q
<1> DEFINE bill == BillFor(q, carried, late)
           status == [j \in Invoices |-> IF j \in carried THEN "carried_forward" ELSE q.status[j]]
           billed == [q EXCEPT !.new = i, !.bill = bill, !.status = status]
<1>kind. PICK kind : kind = IF Lapsed(billed) THEN None ELSE q.override
  OBVIOUS
<1> DEFINE q2 == [q EXCEPT !.new = i, !.bill = bill, !.status = status, !.override = kind]
<1>8. Kept(WithBill(q, i, carried, late)) = q2
  <2>1. WithBill(q, i, carried, late) = billed
    BY DEF WithBill
  <2>2. CASE Lapsed(billed)
    <3> HIDE DEF bill, status
    <3>1. q2 = [billed EXCEPT !.override = None]
      BY <1>1, <1>kind, <2>2 DEF Request
    <3> HIDE DEF billed, q2
    <3> QED
      BY <2>1, <2>2, <3>1 DEF Kept
  <2>3. CASE ~Lapsed(billed)
    <3> HIDE DEF bill, status
    <3>1. q2 = billed
      BY <1>1, <1>kind, <2>3 DEF Request
    <3> HIDE DEF billed, q2
    <3> QED
      BY <2>1, <2>3, <3>1 DEF Kept
  <2> QED
    BY <2>2, <2>3
<1>9. /\ bill \in Invoice /\ bill.status = "issued" /\ bill.period = q.period
      /\ bill.arrears = carried
  <2> DEFINE copies == [j \in carried |-> Positive(q.prior[j])]
  <2>s. SumFunction(copies) \in Nat
    <3>1. \A j \in carried : copies[j] \in Nat
      <4> TAKE j \in carried
      <4>1. q.prior[j] \in Int
        BY <1>1, <1>5 DEF Request
      <4>2. Positive(q.prior[j]) \in Nat
        BY <4>1, NumberTypes
      <4> QED
        BY <4>2
    <3>2. IsFiniteSet(carried) /\ DOMAIN copies = carried
      BY <1>5, FS_Subset, FeeAssumption
    <3> HIDE DEF copies
    <3> QED
      BY <3>1, <3>2, SumNatural DEF SumFunction
  <2>1. Charge + late + SumFunction(copies) \in Nat
    <3>1. PICK sum \in Nat : sum = SumFunction(copies)
      BY <2>s
    <3> HIDE DEF copies
    <3> QED
      BY <3>1, FeeAssumption
  <2>2. bill = [period |-> q.period, arrears |-> carried, status |-> "issued",
               total |-> Charge + late + SumFunction(copies)]
    BY DEF BillFor
  <2> HIDE DEF copies, bill
  <2> QED
    BY <1>1, <1>5, <2>1, <2>2 DEF Invoice, Request, Statuses, Open
<1>10. status \in [Invoices -> Statuses \cup {None}]
  BY <1>1 DEF Request, Statuses
<1>11. \A j \in Invoices : status[j] = (IF j \in carried THEN "carried_forward" ELSE q.status[j])
  OBVIOUS
<1> HIDE DEF bill, status
<1>12. q2 \in Request
  <2>1. kind \in Kinds \cup {None, "keep"}
    BY <1>1, <1>kind DEF Request
  <2> QED
    BY <1>1, <1>4, <1>9, <1>10, <2>1 DEF Request
<1>13. /\ q2.new = i /\ q2.bill = bill /\ q2.status = status /\ q2.credit = q.credit
       /\ q2.surplus = q.surplus /\ q2.period = q.period /\ q2.due = q.due /\ q2.pool = q.pool
       /\ q2.prior = q.prior /\ q2.pays = q.pays /\ q2.uses = q.uses
  BY <1>1 DEF Request
<1> HIDE DEF q2
<1>14. \A k \in Credits : Held(q2, k) = Held(q, k)
  BY <1>13 DEF Held
<1>15. CreditsSound(q2)
  BY <1>1, <1>13, <1>14 DEF Sound, CreditsSound
<1>16. BillSound(q2)
  <2>1. ASSUME NEW j \in Invoices, invoices[j] # None
        PROVE  invoices[j].period # q.period
    <3>1. Row(q, j) # None /\ Row(q, j).period = invoices[j].period
      BY <1>1, <1>6, <2>1, RowFacts, Distinct
    <3> QED
      BY <1>3, <3>1 DEF Billed, HasBill
  <2> QED
    BY <1>4, <1>9, <1>13, <2>1 DEF BillSound
<1>17. PaymentsSound(q2)
  <2> SUFFICES ASSUME NEW j \in Invoices
               PROVE  /\ q2.status[j] = "paid" => Row(q2, j) # None /\ Row(q2, j).total <= Paid(q2, j)
                      /\ q2.due[j] > 0 => Row(q2, j) # None /\ Row(q2, j).total <= Paid(q2, j) + q2.due[j]
    BY DEF PaymentsSound
  <2>1. /\ q.status[j] = "paid" => Row(q, j) # None /\ Row(q, j).total <= Paid(q, j)
        /\ q.due[j] > 0 => Row(q, j) # None /\ Row(q, j).total <= Paid(q, j) + q.due[j]
    BY <1>1 DEF Sound, PaymentsSound
  <2>2. Row(q, j) # None => Row(q2, j) # None /\ Row(q2, j).total = Row(q, j).total
    BY <1>1, <1>4, <1>6, <1>12, <1>13, RowFacts, Distinct
  <2>3. Paid(q2, j) = Paid(q, j)
    BY <1>13 DEF Paid
  <2>4. q2.status[j] = "paid" => q.status[j] = "paid"
    BY <1>11, <1>13
  <2> QED
    BY <1>13, <2>1, <2>2, <2>3, <2>4
<1>18. CarriedSound(q2)
  <2>1. \A j \in Invoices : q.status[j] # "carried_forward"
    BY <1>1, <1>6 DEF Sound, CarriedSound
  <2>2. \A j \in Invoices : q.prior[j] > 0 => invoices[j] # None /\ invoices[j].period < q.period
    BY <1>1 DEF Sound, CarriedSound
  <2> QED
    BY <1>4, <1>5, <1>9, <1>11, <1>13, <2>1, <2>2, Distinct DEF CarriedSound
<1>19. \A s \in Reqs \ {r} : Apart(q2, req[s]) /\ Apart(req[s], q2)
  BY <1>1, <1>4, <1>7, <1>9, <1>13 DEF Apart
<1>20. Continue(r, ReadCredits(q2, "apply"))
  BY <1>2, <1>8
<1> QED
  BY <1>1, <1>12, <1>15, <1>16, <1>17, <1>18, <1>19, <1>20, ReadSound, ContinueKeeps

-----------------------------------------------------------------------------
(* The end of a transaction *)

\* A change of status keeps an invoice's other columns.
LEMMA Remarked ==
  ASSUME NEW row \in Invoice, NEW status
  PROVE  /\ [row EXCEPT !.status = status].total = row.total
         /\ [row EXCEPT !.status = status].period = row.period
         /\ [row EXCEPT !.status = status].arrears = row.arrears
         /\ [row EXCEPT !.status = status] # None \/ status \notin Statuses
<1>1. status \in Statuses => [row EXCEPT !.status = status] \in Invoice
  BY DEF Invoice
<1> QED
  BY <1>1, Distinct DEF Invoice

\* What the commit of q does to the books.
Committed(q) ==
  /\ \A i \in Invoices :
       /\ invoices[i] # None =>
            /\ invoices'[i] # None /\ invoices'[i].total = invoices[i].total
            /\ invoices'[i].period = invoices[i].period
            /\ invoices'[i].arrears = invoices[i].arrears
            /\ invoices'[i].status = (IF q.status[i] = None THEN invoices[i].status ELSE q.status[i])
       /\ invoices[i] = None /\ invoices'[i] # None =>
            /\ q.new = i /\ invoices'[i].period = q.bill.period
            /\ invoices'[i].status = (IF q.status[i] = None THEN "issued" ELSE q.status[i])
       /\ q.new = i => invoices'[i] # None /\ invoices'[i].arrears = q.bill.arrears
                                           /\ invoices'[i].period = q.bill.period
       /\ invoices'[i] = Row(q, i) /\ invoices'[i] \in Invoice \cup {None}
       /\ paid'[i] = Paid(q, i) /\ paid'[i] \in Nat /\ paid'[i] >= paid[i]
  /\ \A k \in Credits :
       /\ credits[k] = None /\ q.credit # k => credits'[k] = None
       /\ ~(credits[k] = None /\ q.credit # k) => credits'[k] \in Nat
       /\ credits[k] # None /\ q.uses[k] = 0 => credits'[k] = credits[k]

LEMMA CommitFacts ==
  ASSUME FeeInv, NEW r \in Reqs, Commit(r)
  PROVE  Committed(req[r])
<1> DEFINE q == req[r]
<1>1. q \in Request /\ Sound(q) /\ TypeOK
  BY DEF FeeInv, TypeOK, RequestsInv
<1>2. /\ invoices' = [i \in Invoices |-> Row(q, i)]
      /\ paid' = [i \in Invoices |-> Paid(q, i)]
      /\ credits' = [k \in Credits |->
                       IF credits[k] = None /\ q.credit # k THEN None ELSE Held(q, k)]
  BY DEF Commit
<1> HIDE DEF q
<1>3. ASSUME NEW i \in Invoices
      PROVE  /\ invoices'[i] = Row(q, i) /\ Row(q, i) \in Invoice \cup {None}
             /\ paid'[i] = Paid(q, i) /\ paid'[i] \in Nat /\ paid'[i] >= paid[i]
  <2>1. paid[i] \in Nat /\ q.pays[i] \in Nat
    BY <1>1 DEF TypeOK, Request
  <2> QED
    BY <1>1, <1>2, <2>1, RowFacts DEF Paid
<1>4. q.new # None => q.bill # None /\ q.bill.status = "issued" /\ invoices[q.new] = None
  BY <1>1, Distinct DEF Sound, BillSound
<1>5. ASSUME NEW i \in Invoices
      PROVE  /\ invoices[i] # None =>
                  /\ invoices'[i] # None /\ invoices'[i].total = invoices[i].total
                  /\ invoices'[i].period = invoices[i].period
                  /\ invoices'[i].arrears = invoices[i].arrears
                  /\ invoices'[i].status = (IF q.status[i] = None THEN invoices[i].status ELSE q.status[i])
             /\ invoices[i] = None /\ invoices'[i] # None =>
                  /\ q.new = i /\ invoices'[i].period = q.bill.period
                  /\ invoices'[i].status = (IF q.status[i] = None THEN "issued" ELSE q.status[i])
             /\ q.new = i => invoices'[i] # None /\ invoices'[i].arrears = q.bill.arrears
                                                 /\ invoices'[i].period = q.bill.period
  BY <1>1, <1>3, <1>4, RowFacts, Distinct
<1>6. ASSUME NEW k \in Credits
      PROVE  /\ credits[k] = None /\ q.credit # k => credits'[k] = None
             /\ ~(credits[k] = None /\ q.credit # k) => credits'[k] \in Nat
             /\ credits[k] # None /\ q.uses[k] = 0 => credits'[k] = credits[k]
  <2>1. Held(q, k) \in Int /\ Held(q, k) >= 0
    BY <1>1, DueFacts DEF Sound, CreditsSound
  <2>2. credits[k] # None => q.credit # k /\ credits[k] \in Nat
    BY <1>1, Distinct DEF Sound, CreditsSound, TypeOK
  <2>3. credits[k] # None /\ q.uses[k] = 0 => Held(q, k) = credits[k]
    BY <2>2 DEF Held
  <2> QED
    BY <1>2, <2>1, <2>2, <2>3
<1>7. Committed(q)
  BY <1>3, <1>5, <1>6 DEF Committed
<1> QED
  BY <1>7 DEF q

\* A commit keeps the others' transactions sound.
LEMMA CommitKeepsOthers ==
  ASSUME FeeInv, NEW q \in Request, NEW p \in Request, Sound(p), Sound(q),
         Apart(p, q), Apart(q, p), Committed(q)
  PROVE  Sound(p)'
<1>0. TypeOK
  BY DEF FeeInv
<1>1. \A i \in Invoices : invoices[i] # None =>
         /\ invoices'[i] # None /\ invoices'[i].total = invoices[i].total
         /\ invoices'[i].period = invoices[i].period
  BY DEF Committed
<1>2. \A i \in Invoices : invoices[i] = None /\ invoices'[i] # None =>
         q.new = i /\ invoices'[i].period = q.bill.period
  BY DEF Committed
<1>3. CreditsSound(p)'
  <2>1. \A k \in Credits : p.uses[k] > 0 \/ p.pool[k] > 0 => credits[k] # None \/ p.credit = k
    BY DEF Sound, CreditsSound
  <2>2. p.credit # None => credits[p.credit] = None /\ q.credit # p.credit /\ p.credit \in Credits
    BY DEF Sound, CreditsSound, Apart, Request
  <2>3. \A k \in Credits : credits[k] # None => credits'[k] \in Nat
    BY DEF Committed
  <2>4. ASSUME NEW k \in Credits
        PROVE  Held(p, k)' >= 0
    <3>1. Held(p, k) >= 0 /\ p.uses[k] \in Nat /\ q.uses[k] \in Nat
      BY DEF Sound, CreditsSound, Request
    <3>2. CASE p.credit = k
      BY <3>1, <3>2 DEF Held
    <3>3. CASE p.credit # k /\ p.uses[k] = 0
      <4>1. credits'[k] = None \/ credits'[k] \in Nat
        BY DEF Committed
      <4> QED
        BY <3>3, <4>1 DEF Held
    <3>4. CASE p.credit # k /\ p.uses[k] > 0
      <4>1. credits[k] # None /\ q.uses[k] = 0
        BY <2>1, <3>1, <3>4 DEF Apart
      <4>2. credits'[k] = credits[k]
        BY <4>1 DEF Committed
      <4> QED
        BY <3>1, <3>4, <4>1, <4>2 DEF Held
    <3> QED
      BY <3>1, <3>2, <3>3, <3>4
  <2>5. p.credit # None => credits'[p.credit] = None
    BY <2>2 DEF Committed
  <2>6. \A k \in Credits : p.uses[k] > 0 \/ p.pool[k] > 0 => credits'[k] # None \/ p.credit = k
    BY <2>1, <2>3, Distinct
  <2> QED
    BY <2>4, <2>5, <2>6 DEF CreditsSound
<1>4. BillSound(p)'
  <2> SUFFICES ASSUME p.new # None
               PROVE  /\ p.bill \in Invoice /\ p.bill.status = "issued"
                      /\ invoices'[p.new] = None
                      /\ \A i \in Invoices : invoices'[i] # None => invoices'[i].period # p.bill.period
    BY DEF BillSound
  <2>1. /\ p.bill \in Invoice /\ p.bill.status = "issued" /\ invoices[p.new] = None
        /\ \A i \in Invoices : invoices[i] # None => invoices[i].period # p.bill.period
        /\ p.new \in Invoices
    BY DEF Sound, BillSound, Request
  <2>2. q.new # None => q.new # p.new /\ q.bill.period # p.bill.period
    BY DEF Apart
  <2> QED
    BY <1>1, <1>2, <2>1, <2>2, Distinct
<1>5. PaymentsSound(p)'
  <2> SUFFICES ASSUME NEW i \in Invoices
               PROVE  /\ p.status[i] = "paid" => Row(p, i)' # None /\ Row(p, i)'.total <= Paid(p, i)'
                      /\ p.due[i] > 0 => Row(p, i)' # None /\ Row(p, i)'.total <= Paid(p, i)' + p.due[i]
    BY DEF PaymentsSound
  <2>1. /\ p.status[i] = "paid" => Row(p, i) # None /\ Row(p, i).total <= Paid(p, i)
        /\ p.due[i] > 0 => Row(p, i) # None /\ Row(p, i).total <= Paid(p, i) + p.due[i]
    BY DEF Sound, PaymentsSound
  <2>2. /\ Paid(p, i) \in Nat /\ Paid(p, i)' \in Nat /\ Paid(p, i)' >= Paid(p, i) /\ p.due[i] \in Nat
    <3>1. paid[i] \in Nat /\ paid'[i] \in Nat /\ paid'[i] >= paid[i] /\ p.pays[i] \in Nat
      BY <1>0 DEF TypeOK, Committed, Request
    <3> QED
      BY <3>1 DEF Paid, Request
  <2>3. Row(p, i) # None => /\ Row(p, i)' # None /\ Row(p, i)'.total = Row(p, i).total
                            /\ Row(p, i).total \in Nat
    <3>1. Row(p, i) # None => Row(p, i).total \in Nat
      BY <1>0, RowFacts DEF Invoice
    <3>2. CASE p.new = i
      BY <3>1, <3>2 DEF Row
    <3>3. CASE p.new # i /\ invoices[i] # None
      <4>1. invoices'[i] \in Invoice /\ invoices'[i].total = invoices[i].total
        BY <1>1, <3>3 DEF Committed
      <4>2. PICK row : row = invoices'[i]
        OBVIOUS
      <4>3. p.status[i] # None => p.status[i] \in Statuses
        BY DEF Request
      <4>4. Row(p, i)' # None /\ Row(p, i)'.total = row.total
        BY <3>3, <4>1, <4>2, <4>3, Remarked, Distinct DEF Row
      <4>5. Row(p, i).total = invoices[i].total
        BY <1>0, <3>3, RowFacts
      <4> QED
        BY <3>1, <4>1, <4>2, <4>4, <4>5
    <3>4. CASE p.new # i /\ invoices[i] = None
      BY <1>0, <3>4, RowFacts
    <3> QED
      BY <3>2, <3>3, <3>4
  <2> QED
    BY <2>1, <2>2, <2>3
<1>6. CarriedSound(p)'
  BY <1>1 DEF Sound, CarriedSound
<1>7. ShapeSound(p)'
  BY <1>1 DEF Sound, ShapeSound
<1> QED
  BY <1>3, <1>4, <1>5, <1>6, <1>7 DEF Sound

\* A commit keeps the books in order.
LEMMA CommitKeepsBooks ==
  ASSUME FeeInv, NEW q \in Request, Sound(q), Committed(q)
  PROVE  (BilledOncePerPeriod /\ PaidIsCovered /\ CarriedIsBilled)'
<1>1. \A i \in Invoices : invoices[i] # None =>
         /\ invoices'[i] # None /\ invoices'[i].total = invoices[i].total
         /\ invoices'[i].period = invoices[i].period /\ invoices'[i].arrears = invoices[i].arrears
         /\ invoices'[i].status = (IF q.status[i] = None THEN invoices[i].status ELSE q.status[i])
  BY DEF Committed
<1>2. \A i \in Invoices : invoices[i] = None /\ invoices'[i] # None =>
         /\ q.new = i /\ invoices'[i].period = q.bill.period
         /\ invoices'[i].status = (IF q.status[i] = None THEN "issued" ELSE q.status[i])
  BY DEF Committed
<1>3. BilledOncePerPeriod'
  <2> SUFFICES ASSUME NEW i \in Invoices, NEW j \in Invoices,
                      invoices'[i] # None, invoices'[j] # None, i # j
               PROVE  invoices'[i].period # invoices'[j].period
    BY DEF BilledOncePerPeriod
  <2>1. q.new # None => \A k \in Invoices : invoices[k] # None => invoices[k].period # q.bill.period
    BY DEF Sound, BillSound
  <2>2. CASE invoices[i] # None /\ invoices[j] # None
    BY <1>1, <2>2 DEF FeeInv, BilledOncePerPeriod
  <2>3. CASE invoices[i] = None /\ invoices[j] # None
    BY <1>1, <1>2, <2>1, <2>3, Distinct
  <2>4. CASE invoices[i] # None /\ invoices[j] = None
    BY <1>1, <1>2, <2>1, <2>4, Distinct
  <2>5. CASE invoices[i] = None /\ invoices[j] = None
    BY <1>2, <2>5
  <2> QED
    BY <2>2, <2>3, <2>4, <2>5
<1>4. PaidIsCovered'
  <2> SUFFICES ASSUME NEW i \in Invoices, invoices'[i] # None, invoices'[i].status = "paid"
               PROVE  paid'[i] >= invoices'[i].total
    BY DEF PaidIsCovered
  <2>1. /\ invoices'[i] = Row(q, i) /\ invoices'[i].total \in Nat
        /\ paid'[i] = Paid(q, i) /\ paid'[i] \in Nat /\ paid'[i] >= paid[i] /\ paid[i] \in Nat
    BY DEF Committed, Invoice, FeeInv, TypeOK
  <2>2. CASE q.status[i] = "paid"
    BY <2>1, <2>2 DEF Sound, PaymentsSound
  <2>3. CASE q.status[i] # "paid"
    <3>1. invoices[i] # None /\ invoices[i].status = "paid"
      BY <1>1, <1>2, <2>3
    <3>2. paid[i] >= invoices[i].total /\ invoices'[i].total = invoices[i].total
      BY <1>1, <3>1 DEF FeeInv, PaidIsCovered
    <3> QED
      BY <2>1, <3>2
  <2> QED
    BY <2>2, <2>3
<1>5. CarriedIsBilled'
  <2> SUFFICES ASSUME NEW i \in Invoices, invoices'[i] # None,
                      invoices'[i].status = "carried_forward"
               PROVE  \E j \in Invoices : /\ invoices'[j] # None
                                          /\ i \in invoices'[j].arrears
                                          /\ invoices'[i].period < invoices'[j].period
    BY DEF CarriedIsBilled
  <2>1. CASE q.status[i] = "carried_forward"
    <3>1. /\ q.new # None /\ i \in q.bill.arrears
          /\ invoices[i] # None /\ invoices[i].period < q.bill.period
      BY <2>1 DEF Sound, CarriedSound
    <3>2. q.new \in Invoices
      BY <3>1 DEF Request
    <3>3. /\ invoices'[q.new] # None /\ invoices'[q.new].arrears = q.bill.arrears
          /\ invoices'[q.new].period = q.bill.period
      BY <3>2 DEF Committed
    <3> QED
      BY <1>1, <3>1, <3>2, <3>3
  <2>2. CASE q.status[i] # "carried_forward"
    <3>1. invoices[i] # None /\ invoices[i].status = "carried_forward"
      BY <1>1, <1>2, <2>2
    <3>2. PICK j \in Invoices : /\ invoices[j] # None /\ i \in invoices[j].arrears
                                /\ invoices[i].period < invoices[j].period
      BY <3>1 DEF FeeInv, CarriedIsBilled
    <3> QED
      BY <1>1, <3>1, <3>2
  <2> QED
    BY <2>1, <2>2
<1> QED
  BY <1>3, <1>4, <1>5

\* The transaction that commits is done; the books and the others keep the invariant.
LEMMA CommitKeeps ==
  ASSUME FeeInv, NEW r \in Reqs, Commit(r)
  PROVE  FeeInv'
<1>1. /\ TypeOK /\ req[r] \in Request /\ Sound(req[r]) /\ Committed(req[r])
  BY CommitFacts DEF FeeInv, TypeOK, RequestsInv
<1>2. PICK q \in Request : q = req[r]
  BY <1>1
<1>3. TypeOK'
  <2>1. /\ invoices' = [i \in Invoices |-> Row(q, i)] /\ paid' = [i \in Invoices |-> Paid(q, i)]
        /\ credits' = [k \in Credits |->
                        IF credits[k] = None /\ q.credit # k THEN None ELSE Held(q, k)]
        /\ override' = Kind(q) /\ blocked' = q.verdict
        /\ received' = received + q.applied + q.surplus
        /\ req' = [req EXCEPT ![r] = IdleRequest] /\ now' = now
    BY <1>2 DEF Commit
  <2>2. \A i \in Invoices : Row(q, i) \in Invoice \cup {None} /\ Paid(q, i) \in Nat
    BY <1>1, <1>2 DEF Committed
  <2>3. \A k \in Credits : credits'[k] \in Nat \cup {None}
    BY <1>1, <1>2 DEF Committed
  <2>4. Kind(q) \in Kinds \cup {None} /\ q.verdict \in BOOLEAN /\ q.applied \in Nat /\ q.surplus \in Nat
    BY <1>1 DEF Kind, TypeOK, Request
  <2>5. IdleRequest \in Request
    BY <1>1, IdleSound
  <2>6. invoices' \in [Invoices -> Invoice \cup {None}] /\ paid' \in [Invoices -> Nat]
    BY <2>1, <2>2
  <2>7. credits' \in [Credits -> Nat \cup {None}]
    BY <2>1, <2>3
  <2>8. req' \in [Reqs -> Request]
    BY <1>1, <2>1, <2>5 DEF TypeOK
  <2>9. /\ now' \in Periods /\ override' \in Kinds \cup {None} /\ blocked' \in BOOLEAN
        /\ received' \in Nat
    BY <1>1, <2>1, <2>4 DEF TypeOK
  <2> QED
    BY <2>6, <2>7, <2>8, <2>9 DEF TypeOK
<1>4. req'[r] = IdleRequest /\ \A s \in Reqs \ {r} : req'[s] = req[s]
  BY <1>1 DEF Commit, TypeOK
<1>5. /\ \A s \in Reqs \ {r} : req[s] \in Request /\ Sound(req[s])
      /\ \A s \in Reqs \ {r} : Apart(req[s], req[r]) /\ Apart(req[r], req[s])
  BY DEF FeeInv, TypeOK, RequestsInv
<1>6. ASSUME NEW s \in Reqs
      PROVE  Sound(req[s])'
  <2>1. CASE s = r
    <3>1. Sound(IdleRequest)'
      BY <1>3, IdleSoundNext
    <3> QED
      BY <1>4, <2>1, <3>1 DEF Sound, CreditsSound, BillSound, PaymentsSound, CarriedSound,
                              ShapeSound, Row, Paid, Held
  <2>2. CASE s # r
    <3>1. PICK p \in Request : p = req[s]
      BY <1>5, <2>2
    <3>2. Sound(p) /\ Apart(p, q) /\ Apart(q, p)
      BY <1>2, <1>5, <2>2, <3>1
    <3>3. Sound(p)'
      BY <1>1, <1>2, <3>2, CommitKeepsOthers
    <3>4. req'[s] = p
      BY <1>4, <2>2, <3>1
    <3> QED
      BY <3>3, <3>4 DEF Sound, CreditsSound, BillSound, PaymentsSound, CarriedSound,
                        ShapeSound, Row, Paid, Held
  <2> QED
    BY <2>1, <2>2
<1>7. ASSUME NEW s \in Reqs, NEW t \in Reqs, s # t
      PROVE  Apart(req'[s], req'[t])
  <2>1. \A p : Apart(IdleRequest, p) /\ Apart(p, IdleRequest)
    BY <1>1, IdleSound
  <2> QED
    BY <1>4, <1>7, <2>1 DEF FeeInv, RequestsInv
<1>8. (BilledOncePerPeriod /\ PaidIsCovered /\ CarriedIsBilled)'
  BY <1>1, CommitKeepsBooks
<1>9. RequestsInv'
  BY <1>6, <1>7 DEF RequestsInv, Apart
<1> QED
  BY <1>3, <1>8, <1>9 DEF FeeInv

LEMMA AbortKeeps ==
  ASSUME FeeInv, NEW r \in Reqs, Abort(r)
  PROVE  FeeInv'
<1>1. TypeOK /\ Continue(r, IdleRequest)
  BY DEF FeeInv, Abort
<1> QED
  BY <1>1, IdleSound, ContinueKeeps

\* A job without a bill, and the evaluation of the hold.
LEMMA NoBillKeeps ==
  ASSUME FeeInv, NEW r \in Reqs, NoBill(r)
  PROVE  FeeInv'
<1>1. req[r] \in Request /\ Sound(req[r]) /\ TypeOK
      /\ \A s \in Reqs \ {r} : Apart(req[r], req[s]) /\ Apart(req[s], req[r])
  BY DEF FeeInv, TypeOK, RequestsInv
<1>2. PICK q \in Request : q = req[r]
  BY <1>1
<1>3. [q EXCEPT !.pc = "apply"] =
        [q EXCEPT !.pc = "apply", !.override = q.override, !.verdict = q.verdict]
  BY DEF Request
<1>4. q.override \in Kinds \cup {None, "keep"} /\ q.verdict \in BOOLEAN
  BY DEF Request
<1>5. PICK kind \in Kinds \cup {None, "keep"}, verdict \in BOOLEAN :
        kind = q.override /\ verdict = q.verdict
  BY <1>4
<1>6. CASE Continue(r, [req[r] EXCEPT !.pc = "apply"])
  <2>1. Continue(r, [req[r] EXCEPT !.pc = "apply", !.override = kind, !.verdict = verdict])
    BY <1>2, <1>3, <1>5, <1>6
  <2> QED
    BY <2>1, MoveOn
<1>7. CASE Continue(r, ReadCredits(req[r], "apply"))
  BY <1>1, <1>7, ReadSound, ContinueKeeps DEF Sound
<1> QED
  BY <1>6, <1>7 DEF NoBill

LEMMA EvaluateKeeps ==
  ASSUME FeeInv, NEW r \in Reqs, Evaluate(r)
  PROVE  FeeInv'
<1>1. PICK q \in Request : q = req[r]
  BY DEF FeeInv, TypeOK
<1>2. PICK kept : kept = Kept(q)
  OBVIOUS
<1>3. PICK verdict \in BOOLEAN : verdict = Blocked(kept)
  BY DEF Blocked
<1>4. Continue(r, [kept EXCEPT !.pc = "commit", !.verdict = verdict])
  BY <1>1, <1>2, <1>3 DEF Evaluate
<1>5. PICK kind : kind = IF Lapsed(q) THEN None ELSE q.override
  OBVIOUS
<1>6. kind \in Kinds \cup {None, "keep"}
  BY <1>5 DEF Request
<1>7. [kept EXCEPT !.pc = "commit", !.verdict = verdict] =
        [q EXCEPT !.pc = "commit", !.override = kind, !.verdict = verdict]
  <2>1. CASE Lapsed(q)
    BY <1>2, <1>5, <2>1 DEF Kept, Request
  <2>2. CASE ~Lapsed(q)
    BY <1>2, <1>5, <2>2 DEF Kept, Request
  <2> QED
    BY <2>1, <2>2
<1> QED
  BY <1>1, <1>4, <1>6, <1>7, MoveOn

LEMMA SameBooks ==
  ASSUME RequestsInv, UNCHANGED <<invoices, paid, credits, req>>
  PROVE  RequestsInv'
<1>1. ASSUME NEW r \in Reqs
      PROVE  Sound(req[r])'
  <2>1. Sound(req[r])
    BY DEF RequestsInv
  <2> QED
    BY <2>1 DEF Sound, CreditsSound, BillSound, PaymentsSound, CarriedSound, ShapeSound,
                Row, Paid, Held
<1>2. ASSUME NEW r \in Reqs, NEW s \in Reqs, r # s
      PROVE  Apart(req[r], req[s])'
  BY <1>2 DEF RequestsInv, Apart
<1> QED
  BY <1>1, <1>2 DEF RequestsInv

LEMMA TickKeeps ==
  ASSUME FeeInv, Tick
  PROVE  FeeInv'
<1>1. UNCHANGED <<invoices, paid, credits, override, blocked, received, req>>
  BY DEF Tick
<1>2. TypeOK'
  BY FeeAssumption DEF FeeInv, TypeOK, Tick, Periods
<1>3. RequestsInv'
  BY <1>1, SameBooks DEF FeeInv
<1>4. (BilledOncePerPeriod /\ PaidIsCovered /\ CarriedIsBilled)'
  BY <1>1 DEF FeeInv, BilledOncePerPeriod, PaidIsCovered, CarriedIsBilled
<1> QED
  BY <1>2, <1>3, <1>4 DEF FeeInv

-----------------------------------------------------------------------------
(* What residents have paid *)

\* A transaction enters no more credit than it takes off invoices, and what it received
\* it enters as payments or keeps as a credit.
Balanced(q) ==
  /\ q.pc = "pay" => /\ \A i \in Invoices : q.pays[i] = 0
                     /\ \A k \in Credits : q.uses[k] = 0
  /\ q.pc # "pay" => /\ q.surplus = 0 \/ q.credit # None
                     /\ q.applied + SumFunction(q.uses) <= SumFunction(q.pays)

ReceiptsInv == FeeInv /\ (\A r \in Reqs : Balanced(req[r])) /\ NoReceiptLost

\* A sum over a table of numbers.
LEMMA Totals ==
  ASSUME NEW S, IsFiniteSet(S), NEW f \in [S -> Int]
  PROVE  /\ SumFunction(f) \in Int
         /\ SumFunction(f) = SumFunctionOnSet(f, S)
         /\ (\A x \in S : f[x] = 0) => SumFunction(f) = 0
<1>1. SumFunction(f) = SumFunctionOnSet(f, S)
  BY DEF SumFunction
<1>2. SumFunctionOnSet(f, S) \in Int
  BY SumType
<1>3. ASSUME \A x \in S : f[x] = 0
      PROVE  SumFunctionOnSet(f, S) = 0
  <2>1. SumFunctionOnSet(f, {}) = SumFunctionOnSet(f, S)
    BY <1>3, SumSupport
  <2> QED
    BY <2>1, SumEmpty
<1> QED
  BY <1>1, <1>2, <1>3

\* One entry grows.
LEMMA Grows ==
  ASSUME NEW S, IsFiniteSet(S), NEW f \in [S -> Int], NEW g \in [S -> Int], NEW e \in S,
         NEW n \in Int, g[e] = f[e] + n, \A x \in S \ {e} : g[x] = f[x]
  PROVE  SumFunction(g) = SumFunction(f) + n
<1>1. SumFunctionOnSet(g, S) = SumFunctionOnSet(f, S) - f[e] + g[e]
  BY SumChanges
<1>2. /\ SumFunction(f) \in Int /\ SumFunction(f) = SumFunctionOnSet(f, S)
      /\ SumFunction(g) = SumFunctionOnSet(g, S)
  BY Totals
<1>3. f[e] \in Int
  OBVIOUS
<1> QED
  BY <1>1, <1>2, <1>3

\* The tables of a request, and what is paid and held, are tables of numbers.
LEMMA Tables ==
  ASSUME NEW q \in Request
  PROVE  /\ q.pays \in [Invoices -> Int] /\ q.uses \in [Credits -> Int]
         /\ SumFunction(q.pays) \in Int /\ SumFunction(q.uses) \in Int
         /\ IsFiniteSet(Invoices) /\ IsFiniteSet(Credits)
<1>1. q.pays \in [Invoices -> Int] /\ q.uses \in [Credits -> Int]
  BY DEF Request
<1> QED
  BY <1>1, Totals, FeeAssumption

\* A transaction that has paid and used nothing, and received nothing yet, is balanced.
LEMMA NothingYet ==
  ASSUME NEW q \in Request, \A i \in Invoices : q.pays[i] = 0, \A k \in Credits : q.uses[k] = 0,
         q.pc = "pay" \/ (q.applied = 0 /\ q.surplus = 0)
  PROVE  Balanced(q)
<1>1. SumFunction(q.pays) = 0 /\ SumFunction(q.uses) = 0
  BY Tables, Totals
<1> QED
  BY <1>1 DEF Balanced

\* What a step leaves alone keeps a transaction balanced.
LEMMA StillBalanced ==
  ASSUME NEW p, NEW q, Balanced(p), p.pc # "pay", q.pc # "pay", q.pays = p.pays,
         q.uses = p.uses, q.applied = p.applied, q.surplus = p.surplus, q.credit = p.credit
  PROVE  Balanced(q)
BY DEF Balanced

LEMMA IdleBalanced ==
  ASSUME TypeOK
  PROVE  IdleRequest \in Request /\ Balanced(IdleRequest)
<1>1. IdleRequest \in Request
  BY IdleSound
<1>2. /\ \A i \in Invoices : IdleRequest.pays[i] = 0
      /\ \A k \in Credits : IdleRequest.uses[k] = 0
      /\ IdleRequest.applied = 0 /\ IdleRequest.surplus = 0
  BY DEF IdleRequest
<1> HIDE DEF IdleRequest
<1> QED
  BY <1>1, <1>2, NothingYet

\* The first step of each kind of transaction.
LEMMA BeginBalanced ==
  ASSUME TypeOK, NEW r \in Reqs, Begin(r)
  PROVE  \E q : Continue(r, q) /\ Balanced(q)
<1>1. IdleRequest \in Request /\ Balanced(IdleRequest) /\ IdleRequest.pc = "idle"
  BY IdleBalanced DEF IdleRequest
<1>2. ASSUME NEW i \in Invoices, NEW amount \in Receipts, BeginPay(r, i, amount)
      PROVE  \E q : Continue(r, q) /\ Balanced(q)
  <2> DEFINE q == [IdleRequest EXCEPT !.pc = "pay", !.invoice = i,
                     !.applied = AppliedTo(i, amount), !.surplus = amount - AppliedTo(i, amount)]
  <2>1. Continue(r, q)
    BY <1>2 DEF BeginPay
  <2>2. /\ q.pc = "pay" /\ \A j \in Invoices : q.pays[j] = 0
        /\ \A k \in Credits : q.uses[k] = 0
    BY DEF IdleRequest
  <2> HIDE DEF q
  <2> QED
    BY <2>1, <2>2 DEF Balanced
<1>3. ASSUME NEW q, Continue(r, q), q.pc # "pay", q.pays = IdleRequest.pays,
             q.uses = IdleRequest.uses, q.applied = IdleRequest.applied,
             q.surplus = IdleRequest.surplus, q.credit = IdleRequest.credit
      PROVE  \E p : Continue(r, p) /\ Balanced(p)
  BY <1>1, <1>3, StillBalanced
<1>4. ASSUME NEW i \in Invoices, BeginCancel(r, i)
      PROVE  \E q : Continue(r, q) /\ Balanced(q)
  <2> DEFINE q == [IdleRequest EXCEPT !.pc = "cancel", !.invoice = i]
  <2>1. Continue(r, q)
    BY <1>4 DEF BeginCancel
  <2>2. /\ q.pc = "cancel" /\ q.pays = IdleRequest.pays /\ q.uses = IdleRequest.uses
        /\ q.applied = IdleRequest.applied /\ q.surplus = IdleRequest.surplus
        /\ q.credit = IdleRequest.credit
    BY DEF IdleRequest
  <2> HIDE DEF q
  <2> QED
    BY <1>3, <2>1, <2>2
<1>5. ASSUME BeginJob(r)
      PROVE  \E q : Continue(r, q) /\ Balanced(q)
  <2> DEFINE prior == [i \in Invoices |->
                 IF invoices[i] # None /\ invoices[i].period < now THEN Due(IdleRequest, i) ELSE 0]
             read == [IdleRequest EXCEPT !.period = now, !.prior = prior]
             q == ReadCredits(read, "apply_prior")
  <2>1. Continue(r, q)
    BY <1>5 DEF BeginJob
  <2> HIDE DEF prior
  <2>2. /\ q.pc = "apply_prior" /\ q.pays = IdleRequest.pays /\ q.uses = IdleRequest.uses
        /\ q.applied = IdleRequest.applied /\ q.surplus = IdleRequest.surplus
        /\ q.credit = IdleRequest.credit
    BY DEF IdleRequest, ReadCredits
  <2> HIDE DEF q, read
  <2> QED
    BY <1>3, <2>1, <2>2
<1>6. ASSUME NEW kind, Continue(r, [IdleRequest EXCEPT !.pc = "apply", !.override = kind])
      PROVE  \E q : Continue(r, q) /\ Balanced(q)
  <2> DEFINE q == [IdleRequest EXCEPT !.pc = "apply", !.override = kind]
  <2>1. Continue(r, q)
    BY <1>6
  <2>2. /\ q.pc = "apply" /\ q.pays = IdleRequest.pays /\ q.uses = IdleRequest.uses
        /\ q.applied = IdleRequest.applied /\ q.surplus = IdleRequest.surplus
        /\ q.credit = IdleRequest.credit
    BY DEF IdleRequest
  <2> HIDE DEF q
  <2> QED
    BY <1>3, <2>1, <2>2
<1>7. ASSUME NEW kind, SetOverride(r, kind)
      PROVE  \E q : Continue(r, q) /\ Balanced(q)
  BY <1>6, <1>7 DEF SetOverride
<1>8. ASSUME ClearOverride(r)
      PROVE  \E q : Continue(r, q) /\ Balanced(q)
  BY <1>6, <1>8 DEF ClearOverride
<1> QED
  BY <1>2, <1>4, <1>5, <1>7, <1>8 DEF Begin

\* record_payment enters what it applied, and keeps the rest as a credit.
LEMMA PayBalanced ==
  ASSUME FeeInv, NEW r \in Reqs, Balanced(req[r]), Pay(r)
  PROVE  \E q : Continue(r, q) /\ Balanced(q)
<1> DEFINE q == req[r]
           i == q.invoice
           paying == [q EXCEPT !.pays[i] = q.applied,
                               !.status[i] = StatusAfter(invoices[i].total, q.applied)]
           entered == IF q.applied = 0 THEN q ELSE paying
<1>1. q \in Request /\ Sound(q) /\ Balanced(q) /\ q.pc = "pay"
  BY DEF FeeInv, TypeOK, RequestsInv, Pay
<1>2. PICK k \in IF q.surplus = 0 THEN {None} ELSE NewCredits :
        Continue(r, ReadCredits([entered EXCEPT !.credit = k], "apply"))
  BY DEF Pay
<1>3. i \in Invoices /\ q.surplus \in Nat /\ q.applied \in Nat
  BY <1>1 DEF Sound, ShapeSound, Request
<1>4. q.surplus = 0 \/ k # None
  BY <1>2, Distinct DEF NewCredits
<1> HIDE DEF q, i
<1>5. /\ entered.uses = q.uses /\ entered.applied = q.applied /\ entered.surplus = q.surplus
      /\ entered.pays = [q.pays EXCEPT ![i] = q.applied]
  <2>1. q.pays[i] = 0 /\ q.pays \in [Invoices -> Nat]
    BY <1>1, <1>3 DEF Balanced, Request
  <2>2. q.applied = 0 => q.pays = [q.pays EXCEPT ![i] = q.applied]
    BY <2>1
  <2> QED
    BY <1>1, <2>2 DEF Request
<1>r. {"pc", "credit", "uses", "applied", "surplus", "pays", "due", "pool"} \subseteq DOMAIN entered
  BY <1>1 DEF Request
<1> HIDE DEF entered
<1> DEFINE q2 == ReadCredits([entered EXCEPT !.credit = k], "apply")
<1>6. /\ q2.pc = "apply" /\ q2.credit = k /\ q2.uses = q.uses /\ q2.applied = q.applied
      /\ q2.surplus = q.surplus /\ q2.pays = [q.pays EXCEPT ![i] = q.applied]
  BY <1>5, <1>r DEF ReadCredits
<1> HIDE DEF q2
<1>7. SumFunction(q.uses) = 0 /\ SumFunction(q.pays) = 0
  BY <1>1, Tables, Totals DEF Balanced
<1>8. SumFunction(q2.pays) = SumFunction(q.pays) + q.applied
  <2>1. q.pays \in [Invoices -> Int] /\ q.pays[i] = 0 /\ IsFiniteSet(Invoices)
    BY <1>1, <1>3, Tables DEF Balanced
  <2>2. /\ q2.pays \in [Invoices -> Int] /\ q2.pays[i] = q.pays[i] + q.applied
        /\ \A j \in Invoices \ {i} : q2.pays[j] = q.pays[j]
    BY <1>3, <1>6, <2>1
  <2> QED
    BY <1>3, <2>1, <2>2, Grows
<1>9. Balanced(q2)
  BY <1>3, <1>4, <1>6, <1>7, <1>8 DEF Balanced
<1> QED
  BY <1>2, <1>9 DEF q2

\* A credit is used for no more than the payment it makes.
LEMMA ApplyBalanced ==
  ASSUME FeeInv, NEW r \in Reqs, Balanced(req[r]), ApplyCredit(r)
  PROVE  \E q : Continue(r, q) /\ Balanced(q)
<1> DEFINE q == req[r]
<1>1. q \in Request /\ Balanced(q) /\ q.pc # "pay" /\ TypeOK
  BY DEF FeeInv, TypeOK, ApplyCredit
<1>2. PICK i \in Invoices, k \in Credits :
        /\ Smaller(q.due[i], q.pool[k]) > 0
        /\ Continue(r, WithCredit(q, i, k, Smaller(q.due[i], q.pool[k])))
  BY DEF ApplyCredit
<1>3. PICK take : take = Smaller(q.due[i], q.pool[k])
  OBVIOUS
<1>4. PICK used : used = Consumed(q, k, take)
  OBVIOUS
<1> HIDE DEF q
<1>5. take \in Nat
  <2>1. q.due[i] \in Nat /\ q.pool[k] \in Nat
    BY <1>1 DEF Request
  <2> QED
    BY <1>3, <2>1, NumberTypes
<1>6. used \in Nat /\ used <= take
  BY <1>4, <1>5 DEF Consumed
<1> DEFINE q2 == WithCredit(q, i, k, take)
<1>7. /\ q2.pc = q.pc /\ q2.applied = q.applied /\ q2.surplus = q.surplus
      /\ q2.credit = q.credit
      /\ q2.pays = [q.pays EXCEPT ![i] = @ + take]
      /\ q2.uses = [q.uses EXCEPT ![k] = @ + used]
  <2>1. PICK status : status = StatusAfter(q.due[i], take)
    OBVIOUS
  <2>2. PICK prior : prior = Positive(q.prior[i] - take)
    OBVIOUS
  <2>3. q2 = [q EXCEPT !.due[i] = @ - take, !.pool[k] = @ - take, !.prior[i] = prior,
                       !.pays[i] = @ + take, !.uses[k] = @ + used, !.status[i] = status]
    BY <1>4, <2>1, <2>2 DEF WithCredit
  <2> HIDE DEF q2
  <2> QED
    BY <1>1, <2>3 DEF Request
<1> HIDE DEF q2
<1>8. /\ q.pays \in [Invoices -> Nat] /\ q.uses \in [Credits -> Nat]
  BY <1>1 DEF Request
<1>9. SumFunction(q2.pays) = SumFunction(q.pays) + take
  <2>1. /\ q2.pays \in [Invoices -> Int] /\ q2.pays[i] = q.pays[i] + take
        /\ \A j \in Invoices \ {i} : q2.pays[j] = q.pays[j]
    BY <1>5, <1>7, <1>8
  <2> QED
    BY <1>1, <1>5, <2>1, Tables, Grows
<1>10. SumFunction(q2.uses) = SumFunction(q.uses) + used
  <2>1. /\ q2.uses \in [Credits -> Int] /\ q2.uses[k] = q.uses[k] + used
        /\ \A c \in Credits \ {k} : q2.uses[c] = q.uses[c]
    BY <1>6, <1>7, <1>8
  <2> QED
    BY <1>1, <1>6, <2>1, Tables, Grows
<1>11. SumFunction(q.pays) \in Int /\ SumFunction(q.uses) \in Int /\ q.applied \in Nat
  BY <1>1, Tables DEF Request
<1>12. Balanced(q2)
  BY <1>1, <1>5, <1>6, <1>7, <1>9, <1>10, <1>11 DEF Balanced
<1> QED
  BY <1>2, <1>3, <1>12 DEF q2

\* The other steps of a transaction enter nothing.
LEMMA ContinuedBalanced ==
  ASSUME FeeInv, NEW r \in Reqs, Balanced(req[r]), Continued(r)
  PROVE  \E q : Continue(r, q) /\ Balanced(q)
<1> DEFINE q == req[r]
<1>1. q \in Request /\ Balanced(q)
  BY DEF FeeInv, TypeOK
<1>2. CASE Pay(r)
  BY <1>2, PayBalanced
<1>3. CASE ApplyCredit(r)
  BY <1>3, ApplyBalanced
<1>4. CASE CancelInvoice(r)
  <2> DEFINE q2 == [q EXCEPT !.pc = "apply", !.status[q.invoice] = "cancelled"]
  <2>1. Continue(r, q2) /\ q.pc # "pay"
    BY <1>4 DEF CancelInvoice
  <2> HIDE DEF q
  <2>2. /\ q2.pc = "apply" /\ q2.pays = q.pays /\ q2.uses = q.uses /\ q2.applied = q.applied
        /\ q2.surplus = q.surplus /\ q2.credit = q.credit
    BY <1>1 DEF Request
  <2> HIDE DEF q2
  <2> QED
    BY <1>1, <2>1, <2>2, StillBalanced
<1>5. ASSUME NEW p, {"pc", "pays", "uses", "applied", "surplus", "credit", "due", "pool"} \subseteq DOMAIN p,
             p.pays = q.pays, p.uses = q.uses, p.applied = q.applied, p.surplus = q.surplus,
             p.credit = q.credit, q.pc # "pay", Continue(r, ReadCredits(p, "apply"))
      PROVE  \E s : Continue(r, s) /\ Balanced(s)
  <2> DEFINE q2 == ReadCredits(p, "apply")
  <2>1. /\ q2.pc = "apply" /\ q2.pays = q.pays /\ q2.uses = q.uses /\ q2.applied = q.applied
        /\ q2.surplus = q.surplus /\ q2.credit = q.credit
    BY <1>5 DEF ReadCredits
  <2> HIDE DEF q2, q
  <2>2. Balanced(q2)
    BY <1>1, <1>5, <2>1, StillBalanced
  <2> QED
    BY <1>5, <2>2 DEF q2
<1>d. {"pc", "pays", "uses", "applied", "surplus", "credit", "due", "pool"} \subseteq DOMAIN q
  BY <1>1 DEF Request
<1>6. CASE NoBill(r)
  <2>1. CASE Continue(r, [q EXCEPT !.pc = "apply"])
    <3> DEFINE q2 == [q EXCEPT !.pc = "apply"]
    <3>1. q.pc # "pay" /\ Continue(r, q2)
      BY <1>6, <2>1 DEF NoBill
    <3> HIDE DEF q
    <3>2. /\ q2.pc = "apply" /\ q2.pays = q.pays /\ q2.uses = q.uses /\ q2.applied = q.applied
          /\ q2.surplus = q.surplus /\ q2.credit = q.credit
      BY <1>d
    <3> HIDE DEF q2
    <3> QED
      BY <1>1, <3>1, <3>2, StillBalanced
  <2>2. CASE Continue(r, ReadCredits(q, "apply"))
    <3>1. q.pc # "pay"
      BY <1>6 DEF NoBill
    <3> HIDE DEF q
    <3> QED
      BY <1>5, <1>d, <2>2, <3>1
  <2> QED
    BY <1>6, <2>1, <2>2 DEF NoBill
<1>7. CASE FindBill(r)
  <2>1. q.pc # "pay" /\ Continue(r, ReadCredits(q, "apply"))
    BY <1>7 DEF FindBill
  <2> HIDE DEF q
  <2> QED
    BY <1>5, <1>d, <2>1
<1>k. ASSUME NEW p, DOMAIN p = DOMAIN q
      PROVE  /\ DOMAIN Kept(p) = DOMAIN q
             /\ Kept(p).pays = p.pays /\ Kept(p).uses = p.uses /\ Kept(p).applied = p.applied
             /\ Kept(p).surplus = p.surplus /\ Kept(p).credit = p.credit
  <2> HIDE DEF q
  <2> QED
    BY <1>d, <1>k DEF Kept
<1>8. CASE Bill(r)
  <2>1. PICK i \in NewInvoices, carried \in SUBSET Carriable(q), late \in LateFees :
          Continue(r, ReadCredits(Kept(WithBill(q, i, carried, late)), "apply"))
    BY <1>8 DEF Bill
  <2>2. q.pc # "pay"
    BY <1>8 DEF Bill
  <2> HIDE DEF q
  <2>3. PICK p : p = WithBill(q, i, carried, late)
    OBVIOUS
  <2>4. /\ DOMAIN p = DOMAIN q /\ p.pays = q.pays /\ p.uses = q.uses /\ p.applied = q.applied
        /\ p.surplus = q.surplus /\ p.credit = q.credit
    BY <1>d, <2>3 DEF WithBill
  <2>5. Continue(r, ReadCredits(Kept(p), "apply"))
    BY <2>1, <2>3
  <2> QED
    BY <1>5, <1>d, <1>k, <2>2, <2>4, <2>5
<1>9. CASE Evaluate(r)
  <2> DEFINE q2 == [Kept(q) EXCEPT !.pc = "commit", !.verdict = Blocked(Kept(q))]
  <2>1. q.pc # "pay" /\ Continue(r, q2)
    BY <1>9 DEF Evaluate
  <2> HIDE DEF q
  <2>2. PICK p : p = Kept(q)
    OBVIOUS
  <2>3. PICK verdict : verdict = Blocked(Kept(q))
    OBVIOUS
  <2>4. q2 = [p EXCEPT !.pc = "commit", !.verdict = verdict]
    BY <2>2, <2>3
  <2>5. /\ DOMAIN p = DOMAIN q /\ p.pays = q.pays /\ p.uses = q.uses /\ p.applied = q.applied
        /\ p.surplus = q.surplus /\ p.credit = q.credit
    BY <1>k, <2>2
  <2> HIDE DEF q2
  <2>6. /\ q2.pc = "commit" /\ q2.pays = q.pays /\ q2.uses = q.uses /\ q2.applied = q.applied
        /\ q2.surplus = q.surplus /\ q2.credit = q.credit
    BY <1>d, <2>4, <2>5
  <2> QED
    BY <1>1, <2>1, <2>6, StillBalanced
<1> QED
  BY <1>2, <1>3, <1>4, <1>6, <1>7, <1>8, <1>9 DEF Continued

\* Entry by entry.
LEMMA Adds ==
  ASSUME NEW S, IsFiniteSet(S), NEW f \in [S -> Int], NEW g \in [S -> Int], NEW h \in [S -> Int],
         \A x \in S : h[x] = f[x] + g[x]
  PROVE  SumFunction(h) = SumFunction(f) + SumFunction(g)
BY SumPlus, Totals

\* What a credit holds once it is committed.
LEMMA StockFacts ==
  ASSUME NEW k \in Credits, credits[k] \in Nat \cup {None}
  PROVE  Held(IdleRequest, k) = IF credits[k] = None THEN 0 ELSE credits[k]
<1>1. IdleRequest.credit = None /\ IdleRequest.uses[k] = 0
  BY DEF IdleRequest
<1> QED
  BY <1>1, Distinct DEF Held

\* A commit adds to payments and credits what the transaction received.
LEMMA CommitKeepsReceipts ==
  ASSUME FeeInv, FeeInv', NoReceiptLost, NEW r \in Reqs, Balanced(req[r]), Commit(r)
  PROVE  NoReceiptLost'
<1> DEFINE q == req[r]
           stock == [k \in Credits |-> Held(IdleRequest, k)]
           stock2 == [k \in Credits |-> IF credits'[k] = None THEN 0 ELSE credits'[k]]
           given == [k \in Credits |-> IF q.credit = k THEN q.surplus ELSE stock[k]]
<1>1. /\ q \in Request /\ CreditsSound(q) /\ Balanced(q) /\ q.pc # "pay" /\ TypeOK /\ TypeOK'
      /\ paid' = [i \in Invoices |-> Paid(q, i)]
      /\ credits' = [k \in Credits |->
                       IF credits[k] = None /\ q.credit # k THEN None ELSE Held(q, k)]
      /\ received' = received + q.applied + q.surplus
  BY DEF FeeInv, TypeOK, RequestsInv, Sound, Commit
<1> HIDE DEF q
<1>2. /\ SumFunction(q.pays) \in Int /\ SumFunction(q.uses) \in Int
      /\ q.pays \in [Invoices -> Int] /\ q.uses \in [Credits -> Int]
      /\ IsFiniteSet(Invoices) /\ IsFiniteSet(Credits)
  BY <1>1, Tables
<1>3. q.applied \in Nat /\ q.surplus \in Nat /\ q.credit \in Credits \cup {None} /\ received \in Nat
  BY <1>1 DEF Request, TypeOK
<1>4. paid \in [Invoices -> Int] /\ paid' \in [Invoices -> Int]
  BY <1>1 DEF TypeOK
<1>5. SumFunction(paid') = SumFunction(paid) + SumFunction(q.pays)
  <2>1. \A i \in Invoices : paid'[i] = paid[i] + q.pays[i]
    BY <1>1 DEF Paid
  <2> QED
    BY <1>2, <1>4, <2>1, Adds
<1>6. \A k \in Credits : stock[k] = (IF credits[k] = None THEN 0 ELSE credits[k])
  BY <1>1, StockFacts DEF TypeOK
<1>7. stock \in [Credits -> Int] /\ stock2 \in [Credits -> Int]
  BY <1>1, <1>6 DEF TypeOK
<1>8. [k \in Credits |-> Held(IdleRequest, k)]' = stock2
  <2>1. ASSUME NEW k \in Credits
        PROVE  Held(IdleRequest, k)' = IF credits'[k] = None THEN 0 ELSE credits'[k]
    <3>1. IdleRequest.credit = None /\ IdleRequest.uses[k] = 0
      BY DEF IdleRequest
    <3>2. credits'[k] \in Nat \cup {None}
      BY <1>1 DEF TypeOK
    <3> QED
      BY <3>1, <3>2, Distinct DEF Held
  <2> QED
    BY <2>1
<1>9. \A k \in Credits : given[k] = (IF q.credit = k THEN q.surplus ELSE stock[k])
  OBVIOUS
<1>10. given \in [Credits -> Int]
  BY <1>3, <1>7
<1>11. \A k \in Credits : stock2[k] \in Int /\ given[k] = stock2[k] + q.uses[k]
  <2> TAKE k \in Credits
  <2>1. /\ q.uses[k] \in Nat /\ (q.uses[k] > 0 => credits[k] # None \/ q.credit = k)
        /\ credits[k] \in Nat \cup {None} /\ (q.credit = k => credits[k] = None)
    BY <1>1, <1>3, Distinct DEF CreditsSound, Request, TypeOK
  <2>2. stock2[k] = (IF credits'[k] = None THEN 0 ELSE credits'[k]) /\ stock2[k] \in Int
    BY <1>7
  <2>3. CASE q.credit = k
    <3>1. credits'[k] = q.surplus - q.uses[k]
      BY <1>1, <2>3 DEF Held
    <3>2. credits'[k] \in Nat
      <4>1. credits'[k] \in Nat \cup {None}
        BY <1>1 DEF TypeOK
      <4>2. q.surplus - q.uses[k] \in Int
        BY <1>3, <2>1
      <4>3. q.surplus - q.uses[k] >= 0
        BY <1>1, <2>3 DEF CreditsSound, Held
      <4> QED
        BY <3>1, <4>2, <4>3
    <3> QED
      BY <1>3, <1>9, <2>1, <2>2, <2>3, <3>1, <3>2, Distinct
  <2>4. CASE q.credit # k /\ credits[k] = None
    <3>1. credits'[k] = None /\ q.uses[k] = 0
      BY <1>1, <2>1, <2>4
    <3> QED
      BY <1>6, <1>9, <2>2, <2>4, <3>1
  <2>5. CASE q.credit # k /\ credits[k] # None
    <3>1. credits'[k] = credits[k] - q.uses[k]
      BY <1>1, <2>5 DEF Held
    <3>2. credits[k] - q.uses[k] >= 0 /\ credits[k] \in Nat
      BY <1>1, <2>1, <2>5 DEF CreditsSound, Held
    <3>3. credits'[k] # None
      BY <2>1, <3>1, <3>2, Distinct
    <3> QED
      BY <1>6, <1>9, <2>1, <2>2, <2>5, <3>1, <3>2, <3>3
  <2> QED
    BY <2>3, <2>4, <2>5
<1> HIDE DEF stock2, given
<1>12. SumFunction(given) = SumFunction(stock2) + SumFunction(q.uses)
  BY <1>2, <1>7, <1>10, <1>11, Adds
<1>13. SumFunction(given) = SumFunction(stock) + q.surplus
  <2>1. CASE q.credit \in Credits
    <3>1. stock[q.credit] = 0
      BY <1>1, <1>6, <2>1, Distinct DEF CreditsSound
    <3>2. given[q.credit] = stock[q.credit] + q.surplus
      BY <1>3, <1>9, <2>1, <3>1
    <3>3. \A k \in Credits \ {q.credit} : given[k] = stock[k]
      BY <1>9
    <3> HIDE DEF stock
    <3> QED
      BY <1>2, <1>3, <1>7, <1>10, <2>1, <3>2, <3>3, Grows
  <2>2. CASE q.credit = None
    <3>1. q.surplus = 0
      BY <1>1, <2>2 DEF Balanced
    <3>2. given = stock
      BY <1>7, <1>9, <1>10, <2>2, Distinct
    <3>3. SumFunction(stock) \in Int
      BY <1>2, <1>7, Totals
    <3> HIDE DEF stock
    <3> QED
      BY <3>1, <3>2, <3>3
  <2> QED
    BY <1>3, <2>1, <2>2
<1>14. q.applied + SumFunction(q.uses) <= SumFunction(q.pays)
  BY <1>1 DEF Balanced
<1>15. received <= SumFunction(paid) + SumFunction(stock)
  BY DEF NoReceiptLost
<1>16. received' <= SumFunction(paid') + SumFunction(stock2)
  <2>1. /\ SumFunction(paid) \in Int /\ SumFunction(stock) \in Int /\ SumFunction(stock2) \in Int
    BY <1>2, <1>4, <1>7, Totals
  <2> HIDE DEF stock
  <2> QED
    BY <1>1, <1>2, <1>3, <1>5, <1>12, <1>13, <1>14, <1>15, <2>1
<1> QED
  BY <1>8, <1>16 DEF NoReceiptLost

-----------------------------------------------------------------------------
(* The invariant *)

LEMMA InitFeeInv == Init => FeeInv
<1> SUFFICES ASSUME Init
             PROVE  FeeInv
  OBVIOUS
<1>1. TypeOK
  <2>1. IdleRequest \in Request
    BY FeeAssumption DEF IdleRequest, Request, PCs, Periods
  <2>2. now \in Periods
    BY FeeAssumption DEF Init, Periods
  <2>3. req \in [Reqs -> Request]
    BY <2>1 DEF Init
  <2>4. /\ invoices \in [Invoices -> Invoice \cup {None}] /\ paid \in [Invoices -> Nat]
        /\ credits \in [Credits -> Nat \cup {None}] /\ override \in Kinds \cup {None}
        /\ blocked \in BOOLEAN /\ received \in Nat
    BY DEF Init
  <2> QED
    BY <2>2, <2>3, <2>4 DEF TypeOK
<1>2. RequestsInv
  BY <1>1, IdleSound DEF Init, RequestsInv
<1>3. BilledOncePerPeriod /\ PaidIsCovered /\ CarriedIsBilled
  BY DEF Init, BilledOncePerPeriod, PaidIsCovered, CarriedIsBilled
<1> QED
  BY <1>1, <1>2, <1>3 DEF FeeInv

LEMMA NextKeepsFeeInv == FeeInv /\ [Next]_vars => FeeInv'
<1> SUFFICES ASSUME FeeInv, [Next]_vars
             PROVE  FeeInv'
  OBVIOUS
<1>1. ASSUME NEW r \in Reqs, Begin(r)
      PROVE  FeeInv'
  <2>1. CASE \E i \in Invoices, amount \in Receipts : BeginPay(r, i, amount)
    BY <2>1, BeginPayKeeps
  <2>2. CASE \E i \in Invoices : BeginCancel(r, i)
    BY <2>2, BeginCancelKeeps
  <2>3. CASE BeginJob(r)
    BY <2>3, BeginJobKeeps
  <2>4. CASE \E kind \in Kinds : SetOverride(r, kind)
    BY <2>4, OverrideKeeps DEF SetOverride
  <2>5. CASE ClearOverride(r)
    BY <2>5, OverrideKeeps DEF ClearOverride
  <2> QED
    BY <1>1, <2>1, <2>2, <2>3, <2>4, <2>5 DEF Begin
<1>2. ASSUME NEW r \in Reqs, Continued(r)
      PROVE  FeeInv'
  BY <1>2, PayKeeps, CancelKeeps, NoBillKeeps, FindBillKeeps, BillKeeps, ApplyKeeps,
     EvaluateKeeps DEF Continued
<1>3. ASSUME NEW r \in Reqs, Commit(r) \/ Abort(r)
      PROVE  FeeInv'
  BY <1>3, CommitKeeps, AbortKeeps
<1>4. CASE UNCHANGED vars
  <2>1. RequestsInv'
    BY <1>4, SameBooks DEF vars, FeeInv
  <2>2. TypeOK'
    BY <1>4 DEF vars, FeeInv, TypeOK
  <2>3. (BilledOncePerPeriod /\ PaidIsCovered /\ CarriedIsBilled)'
    BY <1>4 DEF vars, FeeInv, BilledOncePerPeriod, PaidIsCovered, CarriedIsBilled
  <2> QED
    BY <2>1, <2>2, <2>3 DEF FeeInv
<1> QED
  BY <1>1, <1>2, <1>3, <1>4, TickKeeps DEF Next

LEMMA InitReceiptsInv == Init => ReceiptsInv
<1> SUFFICES ASSUME Init
             PROVE  ReceiptsInv
  OBVIOUS
<1>1. FeeInv
  BY InitFeeInv
<1>2. \A r \in Reqs : Balanced(req[r])
  BY <1>1, IdleBalanced DEF FeeInv, Init
<1>3. NoReceiptLost
  <2> DEFINE stock == [k \in Credits |-> Held(IdleRequest, k)]
  <2>1. \A k \in Credits : stock[k] = 0
    BY StockFacts, Distinct DEF Init
  <2>2. /\ paid \in [Invoices -> Int] /\ stock \in [Credits -> Int]
        /\ \A i \in Invoices : paid[i] = 0
    BY <2>1 DEF Init
  <2> HIDE DEF stock
  <2>3. SumFunction(paid) = 0 /\ SumFunction(stock) = 0
    BY <2>1, <2>2, FeeAssumption, Totals
  <2> QED
    BY <2>3 DEF Init, NoReceiptLost, stock
<1> QED
  BY <1>1, <1>2, <1>3 DEF ReceiptsInv

LEMMA NextKeepsReceiptsInv == ReceiptsInv /\ [Next]_vars => ReceiptsInv'
<1> SUFFICES ASSUME ReceiptsInv, [Next]_vars
             PROVE  ReceiptsInv'
  OBVIOUS
<1>1. FeeInv /\ FeeInv' /\ (\A r \in Reqs : Balanced(req[r])) /\ NoReceiptLost
  BY NextKeepsFeeInv DEF ReceiptsInv
<1>2. ASSUME UNCHANGED <<paid, credits, received>>
      PROVE  NoReceiptLost'
  BY <1>1, <1>2 DEF NoReceiptLost, Held
<1>3. ASSUME NEW r \in Reqs, NEW q, Continue(r, q), Balanced(q)
      PROVE  ReceiptsInv'
  <2>1. \A s \in Reqs : req'[s] = q \/ req'[s] = req[s]
    BY <1>1, <1>3 DEF Continue, FeeInv, TypeOK
  <2>2. \A s \in Reqs : Balanced(req'[s])
    BY <1>1, <1>3, <2>1
  <2>3. NoReceiptLost'
    BY <1>2, <1>3 DEF Continue
  <2>4. \A s \in Reqs : Balanced(req[s])'
    BY <2>2 DEF Balanced
  <2> QED
    BY <1>1, <2>3, <2>4 DEF ReceiptsInv
<1>4. ASSUME NEW r \in Reqs, Begin(r) \/ Continued(r) \/ Abort(r)
      PROVE  ReceiptsInv'
  <2>1. Balanced(IdleRequest)
    BY <1>1, IdleBalanced DEF FeeInv
  <2>2. \E q : Continue(r, q) /\ Balanced(q)
    BY <1>1, <1>4, <2>1, BeginBalanced, ContinuedBalanced DEF FeeInv, Abort
  <2> QED
    BY <1>3, <2>2
<1>5. ASSUME NEW r \in Reqs, Commit(r)
      PROVE  ReceiptsInv'
  <2>1. NoReceiptLost'
    BY <1>1, <1>5, CommitKeepsReceipts
  <2>2. \A s \in Reqs : req'[s] = IdleRequest \/ req'[s] = req[s]
    BY <1>1, <1>5 DEF Commit, FeeInv, TypeOK
  <2>3. \A s \in Reqs : Balanced(req'[s])
    BY <1>1, <2>2, IdleBalanced DEF FeeInv
  <2>4. \A s \in Reqs : Balanced(req[s])'
    BY <2>3 DEF Balanced
  <2> QED
    BY <1>1, <2>1, <2>4 DEF ReceiptsInv
<1>6. ASSUME UNCHANGED <<paid, credits, received, req>>
      PROVE  ReceiptsInv'
  <2>1. \A s \in Reqs : Balanced(req[s])'
    BY <1>1, <1>6 DEF Balanced
  <2> QED
    BY <1>1, <1>2, <1>6, <2>1 DEF ReceiptsInv
<1>7. CASE Tick
  BY <1>6, <1>7 DEF Tick
<1>8. CASE UNCHANGED vars
  BY <1>6, <1>8 DEF vars
<1> QED
  BY <1>4, <1>5, <1>7, <1>8 DEF Next

-----------------------------------------------------------------------------
(* Theorems *)

\* The variables keep their types and no credit is overdrawn, whatever transactions
\* of record_payment, cancel_invoice, the job and staff interleave.
THEOREM FeesTypeCorrect == Spec => []TypeOK
<1>1. FeeInv => TypeOK
  BY DEF FeeInv
<1> QED
  BY <1>1, InitFeeInv, NextKeepsFeeInv, PTL DEF Spec

\* No two invoices of a unit are for the same billing day and month
\* (FeeBillingService._insert_one_invoice), however many runs of the job overlap.
THEOREM AlwaysBilledOncePerPeriod == Spec => []BilledOncePerPeriod
<1>1. FeeInv => BilledOncePerPeriod
  BY DEF FeeInv
<1> QED
  BY <1>1, InitFeeInv, NextKeepsFeeInv, PTL DEF Spec

\* An invoice marked paid by record_payment, _store_credit_applications or the job is
\* covered by its payments.
THEOREM AlwaysPaidIsCovered == Spec => []PaidIsCovered
<1>1. FeeInv => PaidIsCovered
  BY DEF FeeInv
<1> QED
  BY <1>1, InitFeeInv, NextKeepsFeeInv, PTL DEF Spec

\* An invoice closed by _close_carried_invoices is in the arrears of a later invoice.
THEOREM AlwaysCarriedIsBilled == Spec => []CarriedIsBilled
<1>1. FeeInv => CarriedIsBilled
  BY DEF FeeInv
<1> QED
  BY <1>1, InitFeeInv, NextKeepsFeeInv, PTL DEF Spec

\* What record_payment received is a payment or still a credit, however the credits are
\* consumed by _store_credit_applications meanwhile.
THEOREM AlwaysNoReceiptLost == Spec => []NoReceiptLost
<1>1. ReceiptsInv => NoReceiptLost
  BY DEF ReceiptsInv
<1> QED
  BY <1>1, InitReceiptsInv, NextKeepsReceiptsInv, PTL DEF Spec

=============================================================================
