---------------------------- MODULE FeeInvoices ----------------------------
(***************************************************************************)
(* Maintenance invoices, payments, credits and the access hold of one unit: *)
(* FeeBillingService, AppAccessService.evaluate_unit and the daily job, as  *)
(* concurrent transactions at READ COMMITTED.  Units of a project share    *)
(* only the counters of a run, so one unit's books stand for all.          *)
(*                                                                         *)
(* A transaction sees its own writes and what others have committed.  Its  *)
(* writes are kept in its request until it commits; a row it has written is *)
(* locked for the others until then.                                       *)
(*                                                                         *)
(* A period is a billing day of a month, the key an invoice is unique by;  *)
(* an invoice is overdue from the next period on.  Fee heads, rates, taxes *)
(* and kinds of fees only decide amounts and which overdue invoices a bill *)
(* may carry: both are choices here.  A rule blocks by amount.  Reminders, *)
(* notices, mail, run counters and activities are left out.                *)
(***************************************************************************)
EXTENDS Integers, FiniteSets, Functions

CONSTANTS
  Invoices,     \* invoices that can be issued (the model's bound)
  Credits,      \* surpluses that can be kept (the model's bound)
  Reqs,         \* transactions in flight at once
  Worker,       \* the one the scheduler's runs of the job are among
  LastPeriod,   \* the last billing day (the model's bound)
  Charge,       \* what a period's fee heads come to
  LateFees,     \* late fees a bill may add
  Receipts,     \* amounts a resident may pay
  MaxReceived,  \* no further receipts from here on (the model's bound)
  Threshold,    \* app_access_rules.amount_threshold
  Kinds,        \* overrides staff set: "hold", "release"
  None          \* SQL NULL

Periods == 1 .. LastPeriod

ASSUME FeeAssumption ==
  /\ IsFiniteSet(Invoices) /\ IsFiniteSet(Credits)
  /\ Worker \in Reqs
  /\ LastPeriod \in Nat \ {0}
  /\ Charge \in Nat \ {0}
  /\ LateFees \subseteq Nat
  /\ Receipts \subseteq Nat \ {0}
  /\ MaxReceived \in Nat
  /\ Threshold \in Nat
  /\ Kinds \subseteq {"hold", "release"}
  /\ None \notin Invoices \cup Credits \cup Kinds \cup Nat

\* The keys of the rows of different tables are different.
BillKey(period) == <<"bill", period>>

OverrideKey == <<"override", 0>>

ASSUME KeysAssumption ==
  /\ Invoices \cap Credits = {}
  /\ (Invoices \cup Credits) \cap ({BillKey(p) : p \in Periods} \cup {OverrideKey}) = {}

VARIABLES
  now,        \* the current period
  invoices,   \* fee_invoices with their arrears lines
  paid,       \* per invoice, the sum of fee_invoice_payments
  credits,    \* fee_unit_credits.amount; zero once the row is deleted
  override,   \* app_access_overrides.kind
  blocked,    \* app_access_states.status = BLOCKED
  received,   \* what residents have paid in all
  req         \* the transactions

vars == <<now, invoices, paid, credits, override, blocked, received, req>>

-----------------------------------------------------------------------------
(* Rows and requests *)

Open == {"issued", "partial"}

Statuses == Open \cup {"paid", "cancelled", "carried_forward"}

Invoice == [period : Periods, total : Nat, arrears : SUBSET Invoices, status : Statuses]

\* NULL is neither a row nor a status.
ASSUME RowsAssumption == None \notin Invoice \cup Statuses \cup {"keep"}

IdleRequest ==
  [pc |-> "idle", period |-> 1, invoice |-> None, applied |-> 0, surplus |-> 0,
   due |-> [i \in Invoices |-> 0], prior |-> [i \in Invoices |-> 0],
   pool |-> [k \in Credits |-> 0],
   bill |-> None, new |-> None, credit |-> None, status |-> [i \in Invoices |-> None],
   pays |-> [i \in Invoices |-> 0], uses |-> [k \in Credits |-> 0],
   override |-> "keep", verdict |-> FALSE]

PCs == {"idle", "pay", "cancel", "apply_prior", "apply", "commit"}

\* What a handler has read, then what it has written.
Request ==
  [pc : PCs, period : Periods, invoice : Invoices \cup {None}, applied : Nat, surplus : Nat,
   due : [Invoices -> Nat], prior : [Invoices -> Nat], pool : [Credits -> Nat],
   bill : Invoice \cup {None}, new : Invoices \cup {None}, credit : Credits \cup {None},
   status : [Invoices -> Statuses \cup {None}],
   pays : [Invoices -> Nat], uses : [Credits -> Nat],
   override : Kinds \cup {None, "keep"}, verdict : BOOLEAN]

Positive(n) == IF n > 0 THEN n ELSE 0

Smaller(m, n) == IF m <= n THEN m ELSE n

Init ==
  /\ now = 1
  /\ invoices = [i \in Invoices |-> None]
  /\ paid = [i \in Invoices |-> 0]
  /\ credits = [k \in Credits |-> None]
  /\ override = None
  /\ blocked = FALSE
  /\ received = 0
  /\ req = [r \in Reqs |-> IdleRequest]

-----------------------------------------------------------------------------
(* The books as transaction q sees them: what is committed, and its own writes. *)

Row(q, i) ==
  LET row == IF q.new = i THEN q.bill ELSE invoices[i]
  IN IF row = None \/ q.status[i] = None THEN row ELSE [row EXCEPT !.status = q.status[i]]

Paid(q, i) == paid[i] + q.pays[i]

Held(q, k) ==
  (IF q.credit = k THEN q.surplus ELSE IF credits[k] = None THEN 0 ELSE credits[k]) - q.uses[k]

Outstanding(q, i) == Row(q, i).total - Paid(q, i)

\* What is left to pay on an open invoice, and nothing on another.
Due(q, i) ==
  IF Row(q, i) # None /\ Row(q, i).status \in Open THEN Positive(Outstanding(q, i)) ELSE 0

\* list_unit_dues: the open invoices less the credits.
Owed(q) ==
  Positive(SumFunction([i \in Invoices |-> Due(q, i)]) - SumFunction([k \in Credits |-> Positive(Held(q, k))]))

Overdue(q) == \E i \in Invoices : Due(q, i) > 0 /\ Row(q, i).period < now

Kind(q) == IF q.override = "keep" THEN override ELSE q.override

\* evaluate_unit_status: a hold by hand, or the rule unless released by hand.
Blocked(q) ==
  /\ Owed(q) > 0
  /\ \/ Kind(q) = "hold"
     \/ Kind(q) = None /\ Overdue(q) /\ Owed(q) >= Threshold

\* evaluate_unit deletes an override when nothing is owed.
Lapsed(q) == Kind(q) # None /\ Owed(q) = 0

Kept(q) == IF Lapsed(q) THEN [q EXCEPT !.override = None] ELSE q

\* The rows a transaction has written; a bill's unique key is its period.
Written(q) ==
  {i \in Invoices : q.status[i] # None} \cup {k \in Credits : q.uses[k] > 0}
    \cup (IF q.new = None THEN {} ELSE {BillKey(q.bill.period)})
    \cup (IF q.override = "keep" THEN {} ELSE {OverrideKey})

\* A write of these rows need not wait for another transaction.
Free(r, rows) == \A s \in Reqs \ {r} : Written(req[s]) \cap rows = {}

NewInvoices == {i \in Invoices : invoices[i] = None /\ \A r \in Reqs : req[r].new # i}
NewCredits  == {k \in Credits : credits[k] = None /\ \A r \in Reqs : req[r].credit # k}

Continue(r, q) ==
  /\ req' = [req EXCEPT ![r] = q]
  /\ UNCHANGED <<now, invoices, paid, credits, override, blocked, received>>

-----------------------------------------------------------------------------
(* Credits *)

\* list_open_credits and list_open_invoices.
ReadCredits(q, pc) ==
  [q EXCEPT !.pc = pc, !.due = [i \in Invoices |-> Due(q, i)],
            !.pool = [k \in Credits |-> Positive(Held(q, k))]]

\* Nothing left to pay, or nothing to pay it with.
Applied(q) == \/ \A i \in Invoices : q.due[i] = 0
              \/ \A k \in Credits : q.pool[k] = 0

\* (fault: the credit's row is removed whatever it still holds)
UseUp(q, k, take) == Positive(Held(q, k))

\* (fault: the amount is taken off without WHERE amount >= $2)
Overdraw(q, k, take) == take

\* consume_credit: only from a row that still holds the amount, else nothing happens.
Consumed(q, k, take) == IF take <= Held(q, k) THEN take ELSE 0

\* (fault: any payment settles the invoice)
Settled(left, take) == "paid"

\* _remember_payment, from what was left when the payments were read.
StatusAfter(left, take) == IF left <= take THEN "paid" ELSE "partial"

\* The payment is inserted and the invoice updated whether or not the credit could be
\* consumed.  So is the job's copy of the invoice.
WithCredit(q, i, k, take) ==
  [q EXCEPT !.due[i] = @ - take, !.pool[k] = @ - take, !.prior[i] = Positive(@ - take),
            !.pays[i] = @ + take, !.uses[k] = @ + Consumed(q, k, take),
            !.status[i] = StatusAfter(q.due[i], take)]

\* One application of the plan: the oldest invoice first; credits come in the order
\* of the dates residents paid on, any order here.
ApplyCredit(r) ==
  LET q == req[r] IN
  /\ q.pc \in {"apply_prior", "apply"}
  /\ \E i \in Invoices, k \in Credits :
       LET take == Smaller(q.due[i], q.pool[k]) IN
       /\ take > 0
       /\ \A j \in Invoices : q.due[j] > 0 => Row(q, i).period <= Row(q, j).period
       /\ Free(r, {i, k})
       /\ Continue(r, WithCredit(q, i, k, take))

-----------------------------------------------------------------------------
(* Payments and cancellations *)

\* What a payment settles of the invoice, as the payments stood when they were read.
AppliedTo(i, amount) == Smaller(amount, Positive(invoices[i].total - paid[i]))

\* record_payment reads the invoice and its payments.
BeginPay(r, i, amount) ==
  /\ req[r].pc = "idle"
  /\ received + amount <= MaxReceived
  /\ invoices[i] # None
  /\ invoices[i].status \notin {"cancelled", "carried_forward"}
  /\ Continue(r, [IdleRequest EXCEPT !.pc = "pay", !.invoice = i,
                    !.applied = AppliedTo(i, amount), !.surplus = amount - AppliedTo(i, amount)])

\* The header it read carries no payments, so the new one alone decides the status.
\* A surplus becomes a credit; then the credits are applied.
Pay(r) ==
  LET q == req[r]
      i == q.invoice
      entered == IF q.applied = 0 THEN q
                 ELSE [q EXCEPT !.pays[i] = q.applied,
                                !.status[i] = StatusAfter(invoices[i].total, q.applied)]
  IN
  /\ q.pc = "pay"
  /\ q.applied > 0 => Free(r, {i})
  /\ \E k \in IF q.surplus = 0 THEN {None} ELSE NewCredits :
       Continue(r, ReadCredits([entered EXCEPT !.credit = k], "apply"))

BeginCancel(r, i) ==
  /\ req[r].pc = "idle"
  /\ invoices[i] # None
  /\ invoices[i].status = "issued"
  /\ paid[i] = 0
  /\ Continue(r, [IdleRequest EXCEPT !.pc = "cancel", !.invoice = i])

CancelInvoice(r) ==
  LET i == req[r].invoice IN
  /\ req[r].pc = "cancel"
  /\ Free(r, {i})
  /\ Continue(r, [req[r] EXCEPT !.pc = "apply", !.status[i] = "cancelled"])

-----------------------------------------------------------------------------
(* The daily job *)

\* The job reads what is left to pay on overdue invoices (list_collectible_invoices),
\* then the credits; nothing it waits for lies between the two.
BeginJob(r) ==
  LET q == IdleRequest IN
  /\ req[r].pc = "idle"
  /\ Continue(r, ReadCredits([q EXCEPT !.period = now,
       !.prior = [i \in Invoices |->
                    IF invoices[i] # None /\ invoices[i].period < now THEN Due(q, i) ELSE 0]],
       "apply_prior"))

\* No fee head bills the unit on this date; if one was skipped, the credits are
\* applied once more.
NoBill(r) ==
  /\ req[r].pc = "apply_prior"
  /\ Applied(req[r])
  /\ \/ Continue(r, [req[r] EXCEPT !.pc = "apply"])
     \/ Continue(r, ReadCredits(req[r], "apply"))

HasBill(q, period) == \E i \in Invoices : Row(q, i) # None /\ Row(q, i).period = period

\* The arrears a bill may carry: what the job read of the overdue invoices.
Carriable(q) == {i \in Invoices : q.prior[i] > 0}

BillFor(q, carried, late) ==
  [period |-> q.period, arrears |-> carried, status |-> "issued",
   total |-> Charge + late + SumFunction([i \in carried |-> Positive(q.prior[i])])]

\* The invoice is inserted, and those whose arrears it copies are closed.
WithBill(q, i, carried, late) ==
  [q EXCEPT !.new = i, !.bill = BillFor(q, carried, late),
            !.status = [j \in Invoices |-> IF j \in carried THEN "carried_forward" ELSE @[j]]]

\* (fault: the period is not looked up)
NoRepeat(q) == FALSE

\* find_invoice, then ON CONFLICT DO NOTHING: the period has its invoice already.
Billed(q) == HasBill(q, q.period)

\* (fault: the arrears are closed although the period had its invoice)
CloseAnyway(r) ==
  LET q == req[r] IN
  /\ q.pc = "apply_prior"
  /\ Applied(q)
  /\ Billed(q)
  /\ \E carried \in SUBSET Carriable(q) :
       /\ Free(r, carried)
       /\ Continue(r, ReadCredits([q EXCEPT !.status =
            [j \in Invoices |-> IF j \in carried THEN "carried_forward" ELSE @[j]]], "apply"))

\* A repeated run finds the invoice and only applies the credits again.
FindBill(r) ==
  LET q == req[r] IN
  /\ q.pc = "apply_prior"
  /\ Applied(q)
  /\ Free(r, {BillKey(q.period)})
  /\ Billed(q)
  /\ Continue(r, ReadCredits(q, "apply"))

\* The bill of the period, with the arrears of overdue invoices of its kinds and late
\* fees if there are earlier invoices; the unit is evaluated, for its override's sake
\* here, and the credits are applied once more.
Bill(r) ==
  LET q == req[r] IN
  /\ q.pc = "apply_prior"
  /\ Applied(q)
  /\ Free(r, {BillKey(q.period)})
  /\ ~Billed(q)
  /\ \E i \in NewInvoices, carried \in SUBSET Carriable(q), late \in LateFees :
       /\ late > 0 => \E p \in Periods : p < q.period /\ HasBill(q, p)
       /\ Free(r, carried)
       /\ Lapsed(WithBill(q, i, carried, late)) => Free(r, {OverrideKey})
       /\ Continue(r, ReadCredits(Kept(WithBill(q, i, carried, late)), "apply"))

-----------------------------------------------------------------------------
(* Access holds *)

\* Staff hold or release a unit that owes something.
SetOverride(r, kind) ==
  LET q == IdleRequest IN
  /\ req[r].pc = "idle"
  /\ Owed(q) > 0
  /\ Free(r, {OverrideKey})
  /\ Continue(r, [q EXCEPT !.pc = "apply", !.override = kind])

ClearOverride(r) ==
  LET q == IdleRequest IN
  /\ req[r].pc = "idle"
  /\ override # None
  /\ Free(r, {OverrideKey})
  /\ Continue(r, [q EXCEPT !.pc = "apply", !.override = None])

\* evaluate_unit, the last thing each of these transactions does.
Evaluate(r) ==
  LET q == req[r] IN
  /\ q.pc = "apply"
  /\ Applied(q)
  /\ Lapsed(q) => Free(r, {OverrideKey})
  /\ Continue(r, [Kept(q) EXCEPT !.pc = "commit", !.verdict = Blocked(Kept(q))])

-----------------------------------------------------------------------------
(* The end of a transaction *)

\* (fault: a block that was stored is never lifted)
KeepBlocked(r) ==
  LET q == req[r] IN
  /\ q.pc = "commit"
  /\ invoices' = [i \in Invoices |-> Row(q, i)]
  /\ paid' = [i \in Invoices |-> Paid(q, i)]
  /\ credits' = [k \in Credits |->
                   IF credits[k] = None /\ q.credit # k THEN None ELSE Held(q, k)]
  /\ override' = Kind(q)
  /\ blocked' = (blocked \/ q.verdict)
  /\ received' = received + q.applied + q.surplus
  /\ req' = [req EXCEPT ![r] = IdleRequest]
  /\ UNCHANGED now

Commit(r) ==
  LET q == req[r] IN
  /\ q.pc = "commit"
  /\ invoices' = [i \in Invoices |-> Row(q, i)]
  /\ paid' = [i \in Invoices |-> Paid(q, i)]
  /\ credits' = [k \in Credits |->
                   IF credits[k] = None /\ q.credit # k THEN None ELSE Held(q, k)]
  /\ override' = Kind(q)
  /\ blocked' = q.verdict
  /\ received' = received + q.applied + q.surplus
  /\ req' = [req EXCEPT ![r] = IdleRequest]
  /\ UNCHANGED now

\* A transaction fails, or is chosen to break a deadlock, and is rolled back; so is
\* the whole of the job.
Abort(r) ==
  /\ req[r].pc # "idle"
  /\ Continue(r, IdleRequest)

Tick ==
  /\ now < LastPeriod
  /\ now' = now + 1
  /\ UNCHANGED <<invoices, paid, credits, override, blocked, received, req>>

-----------------------------------------------------------------------------
Begin(r) ==
  \/ \E i \in Invoices, amount \in Receipts : BeginPay(r, i, amount)
  \/ \E i \in Invoices : BeginCancel(r, i)
  \/ BeginJob(r)
  \/ \E kind \in Kinds : SetOverride(r, kind)
  \/ ClearOverride(r)

Continued(r) ==
  \/ Pay(r) \/ CancelInvoice(r)
  \/ NoBill(r) \/ FindBill(r) \/ Bill(r)
  \/ ApplyCredit(r) \/ Evaluate(r)

Next ==
  \/ \E r \in Reqs : Begin(r) \/ Continued(r) \/ Commit(r) \/ Abort(r)
  \/ Tick

Spec == Init /\ [][Next]_vars

\* Every transaction ends, if only by a timeout or as the victim of a deadlock.  The
\* scheduler starts the job every day, and transactions do not fail for ever.
Fairness ==
  /\ \A r \in Reqs : WF_vars(Abort(r)) /\ SF_vars(Evaluate(r)) /\ SF_vars(Commit(r))
  /\ SF_vars(BeginJob(Worker))
  /\ SF_vars(NoBill(Worker) \/ FindBill(Worker) \/ Bill(Worker))

FairSpec == Spec /\ Fairness

-----------------------------------------------------------------------------
(* Properties *)

\* The variables stay in their types; no credit becomes negative.
TypeOK ==
  /\ now \in Periods
  /\ invoices \in [Invoices -> Invoice \cup {None}]
  /\ paid \in [Invoices -> Nat]
  /\ credits \in [Credits -> Nat \cup {None}]
  /\ override \in Kinds \cup {None}
  /\ blocked \in BOOLEAN
  /\ received \in Nat
  /\ req \in [Reqs -> Request]

\* A unit has at most one invoice for a billing day and month, even when two runs of
\* the job overlap or a failed run is repeated.
BilledOncePerPeriod ==
  \A i, j \in Invoices :
    invoices[i] # None /\ invoices[j] # None /\ i # j => invoices[i].period # invoices[j].period

\* An invoice counts as paid only once payments cover its total, whoever set the
\* status from whatever payments it had read.
PaidIsCovered ==
  \A i \in Invoices :
    invoices[i] # None /\ invoices[i].status = "paid" => paid[i] >= invoices[i].total

\* An invoice is closed as carried forward only with its arrears on a later invoice.
CarriedIsBilled ==
  \A i \in Invoices :
    invoices[i] # None /\ invoices[i].status = "carried_forward" =>
      \E j \in Invoices : /\ invoices[j] # None
                          /\ i \in invoices[j].arrears
                          /\ invoices[i].period < invoices[j].period

\* Nothing a resident has paid is lost: it is a payment of an invoice or still a
\* credit (races may count it twice).
NoReceiptLost ==
  received <= SumFunction(paid) + SumFunction([k \in Credits |-> Held(IdleRequest, k)])

\* A unit that owes nothing does not stay blocked: whatever verdicts concurrent
\* transactions left behind, the daily evaluation lifts the hold.
HoldLifted == (Owed(IdleRequest) = 0) ~> (~blocked \/ Owed(IdleRequest) > 0)

-----------------------------------------------------------------------------
(* A claim of the documentation that the code does not keep *)

\* "Record a payment and update the invoice to partial or paid."
\* (services/fee_billing_service.py): an open invoice has something left to pay.
SettledIsPaid ==
  \A i \in Invoices :
    invoices[i] # None /\ invoices[i].status \in Open => paid[i] < invoices[i].total

=============================================================================
