----------------------------- MODULE GateAccess -----------------------------
(***************************************************************************)
(* Who may come in: a walk-in visit to some flats (WalkInService), visitor *)
(* passes (PassesService, PassVerificationService) and the turnover of a   *)
(* flat, which takes both back (UnitOccupancyTurnoverService), as          *)
(* concurrent transactions at READ COMMITTED.  Visits share nothing but    *)
(* turnovers, which treat each in turn: one visit stands for all.          *)
(*                                                                         *)
(* A handler reads, then writes; others may commit in between.  What it    *)
(* writes first keeps its row locked until it commits; its last write and  *)
(* the commit are one step.                                                *)
(*                                                                         *)
(* Dates, residents' links to a flat, access holds and unique codes only   *)
(* refuse a request, which is not to take the step here.  A request that   *)
(* is refused leaves nothing behind, not even the event of a refused       *)
(* check-in: it is rolled back with the rest.  Photos, labels and push     *)
(* notifications are left out.                                             *)
(***************************************************************************)
EXTENDS Integers, FiniteSets

CONSTANTS
  Flats,     \* units
  Passes,    \* passes that can be created (the model's bound)
  Limits,    \* values of max_entries
  MaxMoves,  \* check-ins and check-outs tried (the model's bound)
  Reqs,      \* transactions in flight at once
  None       \* SQL NULL

ASSUME GateAssumption ==
  /\ IsFiniteSet(Flats)
  /\ Limits \subseteq Nat \ {0}
  /\ MaxMoves \in Nat
  /\ None \notin Flats \cup Passes \cup Nat

VARIABLES
  visit,     \* the walk_in_entries row and the cancelled events of the visit
  flat,      \* walk_in_visit_units.status per flat
  approved,  \* flats of the visit with a visit_unit_approved event
  pass,      \* passes, with what their events say
  clock,     \* the order in which check-ins and check-outs began
  req        \* the transactions

vars == <<visit, flat, approved, pass, clock, req>>

-----------------------------------------------------------------------------
(* Rows and requests *)

Decisions == {"awaiting", "approved", "rejected"}

Statuses == {"awaiting", "approved", "entered", "exited", "cancelled"}

\* What the status of a visit is while nobody has come in.
OpenVisit == {"awaiting", "approved"}

Visit == [status : Statuses, count : Nat, cancels : Nat]

\* entries is entry_count, cancels counts the cancelled events; lastIn and lastOut are
\* when the latest check-in and check-out began.
Pass == [status : {"active", "cancelled", "completed"}, flat : Flats, once : BOOLEAN,
         max : Limits \cup {None}, entries : Nat, cancels : Nat,
         lastIn : Nat, lastOut : Nat]

PCs == {"idle", "decide", "turnover", "count", "commit", "leave", "enter", "exit",
        "check_in", "check_out", "cancel_pass", "update_pass"}

\* What a handler has read: the flat and the verdict on it, the status of the visit, the
\* pass; then what it will write to the visit.
Request ==
  [pc : PCs, flat : Flats \cup {None}, verdict : Decisions, seen : Statuses \cup {None},
   status : Statuses \cup {None}, count : Nat \cup {None},
   pass : Passes \cup {None}, passes : SUBSET Passes, once : BOOLEAN, at : Nat]

\* NULL is neither a row nor a status.
ASSUME RowsAssumption == None \notin Visit \cup Pass \cup Decisions \cup Statuses

IdleRequest ==
  [pc |-> "idle", flat |-> None, verdict |-> "awaiting", seen |-> None, status |-> None,
   count |-> None, pass |-> None, passes |-> {}, once |-> FALSE, at |-> 0]

Init ==
  /\ visit = None
  /\ flat = [f \in Flats |-> None]
  /\ approved = {}
  /\ pass = [p \in Passes |-> None]
  /\ clock = 0
  /\ req = [r \in Reqs |-> IdleRequest]

Continue(r, q) ==
  /\ req' = [req EXCEPT ![r] = q]
  /\ UNCHANGED <<visit, flat, approved, pass, clock>>

Done(r) == req' = [req EXCEPT ![r] = IdleRequest]

-----------------------------------------------------------------------------
(* The visit: residents decide, security lets in and out *)

CreateWalkIn ==
  /\ visit = None
  /\ \E flats \in SUBSET Flats \ {{}} :
       flat' = [f \in Flats |-> IF f \in flats THEN "awaiting" ELSE None]
  /\ visit' = [status |-> "awaiting", count |-> 0, cancels |-> 0]
  /\ UNCHANGED <<approved, pass, clock, req>>

\* A flat that transaction q has decided on, and not committed.
Decided(q) == IF q.pc \in {"count", "commit"} THEN {q.flat} ELSE {}

\* The flat's row is not locked by another transaction.
Free(r, f) == \A s \in Reqs \ {r} : f \notin Decided(req[s])

\* The flats as transaction q sees them.
Seen(q, f) == IF f \in Decided(q) THEN q.verdict ELSE flat[f]

\* approve_visit_unit and reject_visit_unit read the flat's row.
BeginDecide(r, f, verdict) ==
  /\ req[r].pc = "idle"
  /\ flat[f] = "awaiting"
  /\ Continue(r, [IdleRequest EXCEPT !.pc = "decide", !.flat = f, !.verdict = verdict])

\* (fault: the UPDATE does not ask for status = 'awaiting' again)
DecideStale(r) ==
  /\ req[r].pc = "decide"
  /\ Free(r, req[r].flat)
  /\ Continue(r, [req[r] EXCEPT !.pc = "count", !.seen = visit.status])

\* The UPDATE takes the decision only while the flat awaits one; then the visit is read.
Decide(r) ==
  /\ req[r].pc = "decide"
  /\ Free(r, req[r].flat)
  /\ flat[req[r].flat] = "awaiting"
  /\ Continue(r, [req[r] EXCEPT !.pc = "count", !.seen = visit.status])

\* (fault: a visit that all flats have rejected gets their status)
Rejected(q) ==
  IF \E f \in Flats : Seen(q, f) \in {"awaiting", "approved"} THEN None ELSE "rejected"

\* (fault: a visit is cancelled as soon as a flat has rejected it)
CancelEarly(q) ==
  IF \E f \in Flats : Seen(q, f) = "approved"
  THEN IF q.seen = "awaiting" THEN "approved" ELSE None
  ELSE IF q.seen \in OpenVisit THEN "cancelled" ELSE None

\* The status the visit gets, NULL to leave it: approved with a flat that approves,
\* cancelled when all have rejected.
NewStatus(q) ==
  IF \E f \in Flats : Seen(q, f) = "approved"
  THEN IF q.seen = "awaiting" THEN "approved" ELSE None
  ELSE IF q.seen \in OpenVisit /\ \A f \in Flats : Seen(q, f) # "awaiting"
       THEN "cancelled" ELSE None

\* (fault: every flat that has decided counts)
CountDecided(q) == Cardinality({f \in Flats : Seen(q, f) \in {"approved", "rejected"}})

ApprovedCount(q) == Cardinality({f \in Flats : Seen(q, f) = "approved"})

\* _recompute_header_after_visit_unit_action counts its own decision and those committed.
Count(r) ==
  LET q == req[r] IN
  /\ q.pc = "count"
  /\ Continue(r, [q EXCEPT !.pc = "commit", !.status = NewStatus(q), !.count = ApprovedCount(q)])

\* enter_walk_in reads the visit.
BeginEnter(r) ==
  /\ req[r].pc = "idle"
  /\ visit # None
  /\ visit.status \in OpenVisit
  /\ visit.count >= 1
  /\ Continue(r, [IdleRequest EXCEPT !.pc = "enter"])

\* exit_walk_in reads the visit.
BeginExit(r) ==
  /\ req[r].pc = "idle"
  /\ visit # None
  /\ visit.status = "entered"
  /\ Continue(r, [IdleRequest EXCEPT !.pc = "exit"])

\* Neither looks at the visit again.
EnterOrExit(r) ==
  /\ req[r].pc \in {"enter", "exit"}
  /\ visit' = [visit EXCEPT !.status = IF req[r].pc = "enter" THEN "entered" ELSE "exited"]
  /\ Done(r)
  /\ UNCHANGED <<flat, approved, pass, clock>>

-----------------------------------------------------------------------------
(* Passes *)

CreatePass(p) ==
  /\ pass[p] = None
  /\ \E f \in Flats, once \in BOOLEAN, max \in Limits \cup {None} :
       pass' = [pass EXCEPT ![p] =
                  [status |-> "active", flat |-> f, once |-> once, max |-> max, entries |-> 0,
                   cancels |-> 0, lastIn |-> 0, lastOut |-> 0]]
  /\ UNCHANGED <<visit, flat, approved, clock, req>>

\* _compute_admissibility; a completed pass is refused only for its entries.
Admissible(p) ==
  /\ pass[p].status # "cancelled"
  /\ pass[p].once => pass[p].entries = 0
  /\ pass[p].max # None => pass[p].entries < pass[p].max

\* The latest check-in began after the latest check-out.
HasOpenCheckIn(p) == pass[p].lastIn > pass[p].lastOut

Editable(p) ==
  /\ pass[p].status = "active"
  /\ pass[p].once => pass[p].entries = 0

\* A request on a pass starts with reading it.
BeginPass(r, p, pc, at) ==
  /\ req[r].pc = "idle"
  /\ pass[p] # None
  /\ req' = [req EXCEPT ![r] = [IdleRequest EXCEPT !.pc = pc, !.pass = p, !.at = at,
                                                   !.once = pass[p].once]]
  /\ UNCHANGED <<visit, flat, approved, pass>>

\* An event carries the time its transaction began.
BeginMove(r, p, pc) ==
  /\ clock < MaxMoves
  /\ clock' = clock + 1
  /\ BeginPass(r, p, pc, clock + 1)

\* The guard admits the guest, or lets in one the pass does not admit.
BeginCheckIn(r, p, granted) ==
  /\ BeginMove(r, p, "check_in")
  /\ granted \/ Admissible(p)

BeginCheckOut(r, p) ==
  /\ BeginMove(r, p, "check_out")
  /\ HasOpenCheckIn(p)

BeginEdit(r, p, pc) ==
  /\ BeginPass(r, p, pc, 0)
  /\ Editable(p)
  /\ UNCHANGED clock

Later(m, n) == IF m > n THEN m ELSE n

\* increment_entry_count adds to what the row holds.
CheckIn(r) ==
  LET q == req[r] IN
  /\ q.pc = "check_in"
  /\ pass' = [pass EXCEPT ![q.pass].entries = @ + 1,
                          ![q.pass].lastIn = Later(@, q.at)]
  /\ Done(r)
  /\ UNCHANGED <<visit, flat, approved, clock>>

\* A one-time pass is complete once its guest has left, whatever has become of it.
CheckOut(r) ==
  LET q == req[r] IN
  /\ q.pc = "check_out"
  /\ pass' = [pass EXCEPT ![q.pass].lastOut = Later(@, q.at),
                          ![q.pass].status = IF q.once THEN "completed" ELSE @]
  /\ Done(r)
  /\ UNCHANGED <<visit, flat, approved, clock>>

\* (fault: the UPDATE does not ask for status = 'active')
CancelAny(row) == [row EXCEPT !.status = "cancelled", !.cancels = @ + 1]

\* PassesRepository.cancel, with the event: only an active pass, else nothing happens.
Cancelled(row) ==
  IF row.status = "active" THEN [row EXCEPT !.status = "cancelled", !.cancels = @ + 1] ELSE row

CancelPass(r) ==
  LET q == req[r] IN
  /\ q.pc = "cancel_pass"
  /\ pass' = [pass EXCEPT ![q.pass] = Cancelled(@)]
  /\ Done(r)
  /\ UNCHANGED <<visit, flat, approved, clock>>

\* The columns that matter at the gate, written whatever has become of the pass.
UpdatePass(r) ==
  LET q == req[r] IN
  /\ q.pc = "update_pass"
  /\ \E once \in BOOLEAN, max \in Limits \cup {None} :
       pass' = [pass EXCEPT ![q.pass].once = once, ![q.pass].max = max]
  /\ Done(r)
  /\ UNCHANGED <<visit, flat, approved, clock>>

-----------------------------------------------------------------------------
(* Turnover of a flat *)

\* _clear_unit_scoped_assets lists the flat's active passes; the UPDATE that rejects its
\* open walk-ins sees the visit as it is when it starts.
BeginTurnover(r, f) ==
  /\ req[r].pc = "idle"
  /\ Continue(r, [IdleRequest EXCEPT
       !.pc = "turnover", !.flat = f, !.verdict = "rejected",
       !.seen = IF visit = None THEN None ELSE visit.status,
       !.passes = {p \in Passes : pass[p] # None /\ pass[p].flat = f
                                                 /\ pass[p].status = "active"}])

\* The UPDATE waits for the flat's row and looks at its decision again.
Release(r) ==
  LET q == req[r] IN
  /\ q.pc = "turnover"
  /\ q.seen \in OpenVisit
  /\ Free(r, q.flat)
  /\ flat[q.flat] \in {"awaiting", "approved"}
  /\ Continue(r, [q EXCEPT !.pc = "count", !.seen = visit.status])

\* (fault: the visit is recomputed although the flat had no open request)
ReleaseAll(r) ==
  LET q == req[r] IN
  /\ q.pc = "turnover"
  /\ IF q.seen \in OpenVisit /\ flat[q.flat] = "rejected"
     THEN Continue(r, [q EXCEPT !.pc = "count", !.seen = visit.status])
     ELSE Continue(r, [q EXCEPT !.pc = "leave"])

\* (fault: the UPDATE skips a row that is locked)
ReleaseUnlocked(r) ==
  LET q == req[r] IN
  /\ q.pc = "turnover"
  /\ q.seen \in OpenVisit /\ Free(r, q.flat) => flat[q.flat] \notin {"awaiting", "approved"}
  /\ Continue(r, [q EXCEPT !.pc = "leave"])

\* Nothing is open: the visit is left alone.
ReleaseNothing(r) ==
  LET q == req[r] IN
  /\ q.pc = "turnover"
  /\ q.seen \in OpenVisit => Free(r, q.flat) /\ flat[q.flat] \notin {"awaiting", "approved"}
  /\ Continue(r, [q EXCEPT !.pc = "leave"])

-----------------------------------------------------------------------------
(* The end of a transaction *)

\* A decision or a turnover commits: the decision with its event, the visit's new status
\* and count, and the passes that are cancelled with the flat.
Commit(r) ==
  LET q == req[r] IN
  /\ q.pc \in {"commit", "leave"}
  /\ flat' = [f \in Flats |-> Seen(q, f)]
  /\ approved' = approved \cup {f \in Decided(q) : q.verdict = "approved"}
  /\ visit' = IF q.count = None THEN visit
              ELSE [status |-> IF q.status = None THEN visit.status ELSE q.status,
                    count |-> q.count,
                    cancels |-> visit.cancels + (IF q.status = "cancelled" THEN 1 ELSE 0)]
  /\ pass' = [p \in Passes |-> IF p \in q.passes THEN Cancelled(pass[p]) ELSE pass[p]]
  /\ Done(r)
  /\ UNCHANGED clock

\* A refused request, or a transaction that fails, is rolled back.
Abort(r) ==
  /\ req[r].pc # "idle"
  /\ Continue(r, IdleRequest)

-----------------------------------------------------------------------------
Begin(r) ==
  \/ \E f \in Flats, verdict \in {"approved", "rejected"} : BeginDecide(r, f, verdict)
  \/ \E f \in Flats : BeginTurnover(r, f)
  \/ BeginEnter(r) \/ BeginExit(r)
  \/ \E p \in Passes, granted \in BOOLEAN : BeginCheckIn(r, p, granted)
  \/ \E p \in Passes : BeginCheckOut(r, p)
  \/ \E p \in Passes, pc \in {"cancel_pass", "update_pass"} : BeginEdit(r, p, pc)

Continued(r) ==
  \/ Decide(r) \/ Count(r) \/ EnterOrExit(r)
  \/ CheckIn(r) \/ CheckOut(r) \/ CancelPass(r) \/ UpdatePass(r)
  \/ Release(r) \/ ReleaseNothing(r) \/ Commit(r)

Next ==
  \/ CreateWalkIn
  \/ \E p \in Passes : CreatePass(p)
  \/ \E r \in Reqs : Begin(r) \/ Continued(r) \/ Abort(r)

Spec == Init /\ [][Next]_vars

-----------------------------------------------------------------------------
(* Properties *)

\* The variables stay in their types.
TypeOK ==
  /\ visit \in Visit \cup {None}
  /\ flat \in [Flats -> Decisions \cup {None}]
  /\ approved \subseteq Flats
  /\ pass \in [Passes -> Pass \cup {None}]
  /\ clock \in Nat
  /\ req \in [Reqs -> Request]

\* Nobody is let in whom no resident had approved, though security trusts a count that
\* concurrent decisions and turnovers overwrite.
EntryWasApproved ==
  visit # None /\ (visit.status \in {"entered", "exited"} \/ visit.count > 0) => approved # {}

\* A visit is cancelled only when every flat has rejected it, whichever of the decisions
\* the cancelling transaction had seen.
CancelledIsRejected ==
  visit # None /\ visit.status = "cancelled" =>
    \A f \in Flats : flat[f] \in {"rejected", None}

\* A visit, and a pass, is cancelled at most once: the last rejections, a resident's
\* cancellation and turnovers of the flats race for it.
CancelledOnce ==
  /\ visit # None => visit.cancels <= 1
  /\ \A p \in Passes : pass[p] # None => pass[p].cancels <= 1

\* A turnover that leaves an open visit alone leaves no request or approval of the old
\* household behind: none in the table, none that another transaction is about to commit.
TurnoverLeavesNothingOpen ==
  \A r \in Reqs :
    req[r].pc = "leave" /\ req[r].seen \in OpenVisit =>
      flat[req[r].flat] \notin {"awaiting", "approved"} /\ Free(r, req[r].flat)

\* A rejection is final, whatever decision on the flat was on its way.
DecisionsFinal ==
  [][\A f \in Flats : flat[f] = "rejected" => flat'[f] = "rejected"]_vars

\* A pass that has been used up stays so: no cancellation that had read it as active
\* changes its status.
CompletedStays ==
  [][\A p \in Passes :
       pass[p] # None /\ pass[p].status = "completed" => pass'[p].status = "completed"]_vars

=============================================================================
