-------------------------- MODULE GateAccessProofs --------------------------
(***************************************************************************)
(* Proofs about GateAccess, for any number of flats, passes and            *)
(* transactions.                                                           *)
(***************************************************************************)
EXTENDS GateAccess, FiniteSetTheorems, TLAPS

-----------------------------------------------------------------------------
(* The inductive invariant: what is true of each transaction, of each two, and *)
(* of what is committed.                                                   *)

\* What it needs of the visit: a flat it has decided on may still be rejected, one it has
\* left alone stays closed, and what it has worked out of the flats stays true.
VisitSound(q) ==
  /\ q.pc \in {"decide", "turnover", "count"} => q.flat # None /\ q.count = None /\ q.status = None
  /\ q.pc \in {"decide", "count"} => visit # None
  /\ q.pc = "turnover" /\ q.seen \in OpenVisit => visit # None
  /\ q.pc \in {"turnover", "count", "decide"} => q.verdict \in {"approved", "rejected"}
  /\ q.pc = "commit" =>
       /\ visit # None /\ q.flat # None /\ q.count # None
       /\ q.verdict \in {"approved", "rejected"}
       /\ q.count # 0 => approved # {} \/ q.verdict = "approved"
       /\ q.status \in {None, "approved", "cancelled"}
       /\ q.status = "cancelled" => \A f \in Flats : Seen(q, f) \in {"rejected", None}
  /\ q.pc = "leave" =>
       /\ q.flat # None /\ q.count = None /\ q.status = None
       /\ q.seen \in OpenVisit => visit # None /\ flat[q.flat] \in {"rejected", None}
  /\ q.pc \in {"enter", "exit"} => visit # None /\ approved # {}
  /\ \A f \in Decided(q) : flat[f] \in {"awaiting", "approved"}

PassSound(q) ==
  /\ q.pc \in {"check_in", "check_out", "cancel_pass", "update_pass"} =>
       q.pass # None /\ pass[q.pass] # None
  /\ \A p \in q.passes : pass[p] # None

RequestsInv ==
  /\ \A r \in Reqs : VisitSound(req[r]) /\ PassSound(req[r])
  /\ \A r, s \in Reqs : r # s => Decided(req[r]) \cap Decided(req[s]) = {}

\* An approved flat has its event, and a visit's cancelled event means all flats rejected.
VisitInv ==
  /\ \A f \in Flats : flat[f] = "approved" => f \in approved
  /\ \A f \in Flats : flat[f] # None => visit # None
  /\ EntryWasApproved
  /\ CancelledIsRejected
  /\ visit # None => /\ visit.cancels <= 1
                     /\ visit.cancels # 0 => \A f \in Flats : flat[f] \in {"rejected", None}

PassInv ==
  \A p \in Passes : pass[p] # None =>
    /\ pass[p].cancels <= 1
    /\ pass[p].status = "active" => pass[p].cancels = 0

GateInv == TypeOK /\ RequestsInv /\ VisitInv /\ PassInv

-----------------------------------------------------------------------------
(* Helpers *)

\* NULL is none of the values it stands in for.
LEMMA Distinct ==
  /\ None \notin Flats /\ None \notin Passes /\ None \notin Nat
  /\ None \notin Visit /\ None \notin Pass /\ None \notin Decisions /\ None \notin Statuses
  /\ None # "awaiting" /\ None # "approved" /\ None # "rejected" /\ None # "cancelled"
  /\ None # "entered" /\ None # "exited" /\ None # 0
BY GateAssumption, RowsAssumption DEF Decisions, Statuses

LEMMA IdleSound ==
  /\ IdleRequest \in Request /\ VisitSound(IdleRequest) /\ PassSound(IdleRequest)
  /\ Decided(IdleRequest) = {}
<1>1. IdleRequest \in Request
  BY DEF IdleRequest, Request, PCs, Decisions
<1>2. Decided(IdleRequest) = {}
  BY DEF IdleRequest, Decided
<1>3. VisitSound(IdleRequest) /\ PassSound(IdleRequest)
  BY <1>2 DEF IdleRequest, VisitSound, PassSound
<1> QED
  BY <1>1, <1>2, <1>3

\* How many flats have approved.
LEMMA CountFacts ==
  ASSUME NEW q
  PROVE  /\ ApprovedCount(q) \in Nat
         /\ ApprovedCount(q) # 0 => \E f \in Flats : Seen(q, f) = "approved"
<1> DEFINE S == {f \in Flats : Seen(q, f) = "approved"}
<1>1. IsFiniteSet(S)
  BY GateAssumption, FS_Subset
<1>2. Cardinality(S) \in Nat /\ (Cardinality(S) = 0 <=> S = {})
  BY <1>1, FS_CardinalityType, FS_EmptySet
<1> QED
  BY <1>2 DEF ApprovedCount

\* A step of one transaction that changes nothing of the visit.
LEMMA PassStepKeeps ==
  ASSUME GateInv, NEW r \in Reqs, NEW q \in Request, VisitSound(q), PassSound(q)',
         \A s \in Reqs \ {r} : Decided(q) \cap Decided(req[s]) = {},
         req' = [req EXCEPT ![r] = q], UNCHANGED <<visit, flat, approved>>, clock' \in Nat,
         pass' \in [Passes -> Pass \cup {None}], PassInv',
         \A p \in Passes : pass[p] # None => pass'[p] # None
  PROVE  GateInv'
<1>1. req \in [Reqs -> Request] /\ UNCHANGED <<visit, flat, approved>>
  BY DEF GateInv, TypeOK
<1>2. req' \in [Reqs -> Request] /\ req'[r] = q /\ \A s \in Reqs \ {r} : req'[s] = req[s]
  BY <1>1
<1>3. TypeOK'
  BY <1>1, <1>2 DEF GateInv, TypeOK
<1>4. \A s \in Reqs : VisitSound(req[s])'
  <2> TAKE s \in Reqs
  <2>1. PICK p : p = req'[s]
    OBVIOUS
  <2>2. VisitSound(p)
    BY <1>2, <2>1 DEF GateInv, RequestsInv
  <2> QED
    BY <1>1, <2>1, <2>2 DEF VisitSound, Seen, Decided
<1>5. \A s \in Reqs : PassSound(req[s])'
  <2> TAKE s \in Reqs
  <2>1. CASE s = r
    BY <1>2, <2>1 DEF PassSound
  <2>2. CASE s # r
    <3>1. PICK p \in Request : p = req[s]
      BY <1>1
    <3>2. PassSound(p) /\ req'[s] = p
      BY <1>2, <2>2, <3>1 DEF GateInv, RequestsInv
    <3>3. p.pass # None => p.pass \in Passes
      BY DEF Request
    <3>4. p.passes \subseteq Passes
      BY DEF Request
    <3> QED
      BY <3>2, <3>3, <3>4 DEF PassSound
  <2> QED
    BY <2>1, <2>2
<1>6. \A s, t \in Reqs : s # t => (Decided(req[s]) \cap Decided(req[t]) = {})'
  BY <1>2 DEF GateInv, RequestsInv, Decided
<1>7. VisitInv'
  BY <1>1 DEF GateInv, VisitInv, EntryWasApproved, CancelledIsRejected
<1> QED
  BY <1>3, <1>4, <1>5, <1>6, <1>7 DEF GateInv, RequestsInv

\* A step of one transaction that commits nothing.
LEMMA ContinueKeeps ==
  ASSUME GateInv, NEW r \in Reqs, NEW q \in Request, VisitSound(q), PassSound(q),
         \A s \in Reqs \ {r} : Decided(q) \cap Decided(req[s]) = {},
         Continue(r, q)
  PROVE  GateInv'
<1>1. /\ req' = [req EXCEPT ![r] = q] /\ UNCHANGED <<visit, flat, approved, pass, clock>>
  BY DEF Continue
<1>2. clock' \in Nat /\ pass' \in [Passes -> Pass \cup {None}] /\ PassInv' /\ PassSound(q)'
  BY <1>1 DEF GateInv, TypeOK, PassInv, PassSound
<1> QED
  BY <1>1, <1>2, PassStepKeeps

-----------------------------------------------------------------------------
(* Decisions and turnovers *)

LEMMA BeginDecideKeeps ==
  ASSUME GateInv, NEW r \in Reqs, NEW f \in Flats, NEW verdict \in {"approved", "rejected"},
         BeginDecide(r, f, verdict)
  PROVE  GateInv'
<1> DEFINE q == [IdleRequest EXCEPT !.pc = "decide", !.flat = f, !.verdict = verdict]
<1>1. Continue(r, q) /\ flat[f] = "awaiting" /\ visit # None
  BY Distinct DEF BeginDecide, GateInv, VisitInv
<1>2. q \in Request
  BY IdleSound DEF Request, PCs, Decisions
<1>3. /\ q.pc = "decide" /\ q.flat = f /\ q.verdict = verdict /\ q.count = None
      /\ q.status = None /\ q.passes = {}
  BY DEF IdleRequest
<1> HIDE DEF q
<1>4. Decided(q) = {}
  BY <1>3 DEF Decided
<1>5. VisitSound(q) /\ PassSound(q)
  BY <1>1, <1>3, <1>4, Distinct DEF VisitSound, PassSound
<1> QED
  BY <1>1, <1>2, <1>4, <1>5, ContinueKeeps

LEMMA BeginTurnoverKeeps ==
  ASSUME GateInv, NEW r \in Reqs, NEW f \in Flats, BeginTurnover(r, f)
  PROVE  GateInv'
<1>1. PICK seen : seen = IF visit = None THEN None ELSE visit.status
  OBVIOUS
<1>2. PICK passes : passes = {p \in Passes : pass[p] # None /\ pass[p].flat = f
                                                            /\ pass[p].status = "active"}
  OBVIOUS
<1> DEFINE q == [IdleRequest EXCEPT !.pc = "turnover", !.flat = f, !.verdict = "rejected",
                                    !.seen = seen, !.passes = passes]
<1>3. Continue(r, q)
  BY <1>1, <1>2 DEF BeginTurnover
<1>4. seen \in Statuses \cup {None} /\ passes \in SUBSET Passes /\ (seen # None => visit # None)
  BY <1>1, <1>2 DEF GateInv, TypeOK, Visit
<1>5. q \in Request
  BY <1>4, IdleSound DEF Request, PCs, Decisions
<1>6. /\ q.pc = "turnover" /\ q.flat = f /\ q.verdict = "rejected" /\ q.count = None
      /\ q.status = None /\ q.passes = passes /\ q.seen = seen
  BY DEF IdleRequest
<1> HIDE DEF q
<1>7. Decided(q) = {}
  BY <1>6 DEF Decided
<1>8. VisitSound(q) /\ PassSound(q)
  BY <1>2, <1>4, <1>6, <1>7, Distinct DEF VisitSound, PassSound, OpenVisit
<1> QED
  BY <1>3, <1>5, <1>7, <1>8, ContinueKeeps

\* The flat's row is changed, which nobody else has done.
LEMMA WriteFlatKeeps ==
  ASSUME GateInv, NEW r \in Reqs, req[r].pc \in {"decide", "turnover"}, Free(r, req[r].flat),
         flat[req[r].flat] \in {"awaiting", "approved"}, visit # None,
         Continue(r, [req[r] EXCEPT !.pc = "count", !.seen = visit.status])
  PROVE  GateInv'
<1>1. PICK q \in Request : q = req[r]
  BY DEF GateInv, TypeOK
<1>2. PICK seen \in Statuses : seen = visit.status
  BY DEF GateInv, TypeOK, Visit
<1> DEFINE q2 == [q EXCEPT !.pc = "count", !.seen = seen]
<1>3. Continue(r, q2) /\ VisitSound(q) /\ PassSound(q)
  BY <1>1, <1>2 DEF GateInv, RequestsInv
<1>4. q2 \in Request
  BY DEF Request, PCs
<1>5. /\ q2.pc = "count" /\ q2.flat = q.flat /\ q2.verdict = q.verdict /\ q2.count = q.count
      /\ q2.status = q.status /\ q2.passes = q.passes
  BY DEF Request
<1> HIDE DEF q2
<1>6. Decided(q2) = {q.flat}
  BY <1>1, <1>3, <1>5 DEF Decided, VisitSound
<1>7. \A s \in Reqs \ {r} : Decided(q2) \cap Decided(req[s]) = {}
  BY <1>1, <1>6 DEF Free
<1>8. VisitSound(q2) /\ PassSound(q2)
  BY <1>1, <1>3, <1>5, <1>6 DEF VisitSound, PassSound
<1> QED
  BY <1>3, <1>4, <1>7, <1>8, ContinueKeeps

LEMMA DecideKeeps ==
  ASSUME GateInv, NEW r \in Reqs, Decide(r)
  PROVE  GateInv'
<1>1. visit # None
  BY DEF Decide, GateInv, RequestsInv, VisitSound
<1> QED
  BY <1>1, WriteFlatKeeps DEF Decide

LEMMA ReleaseKeeps ==
  ASSUME GateInv, NEW r \in Reqs, Release(r)
  PROVE  GateInv'
<1>1. visit # None
  BY DEF Release, GateInv, RequestsInv, VisitSound
<1> QED
  BY <1>1, WriteFlatKeeps DEF Release

LEMMA ReleaseNothingKeeps ==
  ASSUME GateInv, NEW r \in Reqs, ReleaseNothing(r)
  PROVE  GateInv'
<1>1. PICK q \in Request : q = req[r]
  BY DEF GateInv, TypeOK
<1> DEFINE q2 == [q EXCEPT !.pc = "leave"]
<1>2. Continue(r, q2) /\ VisitSound(q) /\ PassSound(q) /\ q.pc = "turnover"
  BY <1>1 DEF ReleaseNothing, GateInv, RequestsInv
<1>3. q2 \in Request
  BY DEF Request, PCs
<1>4. /\ q2.pc = "leave" /\ q2.flat = q.flat /\ q2.count = q.count /\ q2.seen = q.seen
      /\ q2.status = q.status /\ q2.passes = q.passes
  BY DEF Request
<1> HIDE DEF q2
<1>5. Decided(q2) = {}
  BY <1>4 DEF Decided
<1>6. q.seen \in OpenVisit => flat[q.flat] \in {"rejected", None}
  <2>1. q.flat \in Flats
    BY <1>2 DEF VisitSound, Request
  <2>2. flat[q.flat] \in Decisions \cup {None}
    BY <2>1 DEF GateInv, TypeOK
  <2> QED
    BY <1>1, <2>2 DEF ReleaseNothing, Decisions
<1>7. VisitSound(q2) /\ PassSound(q2)
  BY <1>2, <1>4, <1>5, <1>6 DEF VisitSound, PassSound
<1> QED
  BY <1>2, <1>3, <1>5, <1>7, ContinueKeeps

\* The visit is recomputed from what is committed and its own decision.
LEMMA CountKeeps ==
  ASSUME GateInv, NEW r \in Reqs, Count(r)
  PROVE  GateInv'
<1>1. PICK q \in Request : q = req[r]
  BY DEF GateInv, TypeOK
<1>2. PICK status : status = NewStatus(q)
  OBVIOUS
<1>3. PICK count : count = ApprovedCount(q)
  OBVIOUS
<1> DEFINE q2 == [q EXCEPT !.pc = "commit", !.status = status, !.count = count]
<1>4. Continue(r, q2) /\ VisitSound(q) /\ PassSound(q) /\ q.pc = "count"
  BY <1>1, <1>2, <1>3 DEF Count, GateInv, RequestsInv
<1>5. status \in {None, "approved", "cancelled"} /\ count \in Nat
  BY <1>2, <1>3, CountFacts DEF NewStatus
<1>6. q2 \in Request
  BY <1>5 DEF Request, PCs, Statuses
<1>7. /\ q2.pc = "commit" /\ q2.flat = q.flat /\ q2.verdict = q.verdict
      /\ q2.status = status /\ q2.count = count /\ q2.passes = q.passes
  BY DEF Request
<1> HIDE DEF q2
<1>8. Decided(q2) = Decided(q) /\ \A f \in Flats : Seen(q2, f) = Seen(q, f)
  BY <1>4, <1>7 DEF Decided, Seen
<1>9. status = "cancelled" => \A f \in Flats : Seen(q, f) \in {"rejected", None}
  <2> SUFFICES ASSUME status = "cancelled", NEW f \in Flats
               PROVE  Seen(q, f) \in {"rejected", None}
    OBVIOUS
  <2>1. Seen(q, f) # "approved" /\ Seen(q, f) # "awaiting"
    BY <1>2, Distinct DEF NewStatus
  <2>2. Seen(q, f) \in Decisions \cup {None}
    BY DEF Seen, Request, GateInv, TypeOK
  <2> QED
    BY <2>1, <2>2 DEF Decisions
<1>10. count # 0 => approved # {} \/ q.verdict = "approved"
  <2> SUFFICES ASSUME count # 0
               PROVE  approved # {} \/ q.verdict = "approved"
    OBVIOUS
  <2>1. PICK f \in Flats : Seen(q, f) = "approved"
    BY <1>3, CountFacts
  <2> QED
    BY <2>1 DEF Seen, GateInv, VisitInv
<1>11. VisitSound(q2) /\ PassSound(q2)
  BY <1>4, <1>5, <1>7, <1>8, <1>9, <1>10, Distinct DEF VisitSound, PassSound
<1>12. \A s \in Reqs \ {r} : Decided(q2) \cap Decided(req[s]) = {}
  BY <1>1, <1>8 DEF GateInv, RequestsInv
<1> QED
  BY <1>4, <1>6, <1>11, <1>12, ContinueKeeps

-----------------------------------------------------------------------------
(* Passes *)

\* A request that reads a pass.
LEMMA BeginPassKeeps ==
  ASSUME GateInv, NEW r \in Reqs, NEW p \in Passes,
         NEW pc \in {"check_in", "check_out", "cancel_pass", "update_pass"}, NEW at \in Nat,
         BeginPass(r, p, pc, at), clock' \in Nat
  PROVE  GateInv'
<1>1. PICK once \in BOOLEAN : once = pass[p].once
  BY DEF BeginPass, GateInv, TypeOK, Pass
<1>2. [IdleRequest EXCEPT !.pc = pc, !.pass = p, !.at = at, !.once = once] \in Request
  BY IdleSound DEF Request, PCs
<1>3. PICK q \in Request : q = [IdleRequest EXCEPT !.pc = pc, !.pass = p, !.at = at, !.once = once]
  BY <1>2
<1>4. /\ req' = [req EXCEPT ![r] = q] /\ pass[p] # None
      /\ UNCHANGED <<visit, flat, approved, pass>>
  BY <1>1, <1>3 DEF BeginPass
<1>5. q.pc = pc /\ q.pass = p /\ q.passes = {} /\ Decided(q) = {}
  BY <1>3 DEF IdleRequest, Decided
<1>6. VisitSound(q) /\ PassSound(q)'
  <2>1. VisitSound(q)
    BY <1>5 DEF VisitSound
  <2>2. PassSound(q)'
    BY <1>4, <1>5, Distinct DEF PassSound
  <2> QED
    BY <2>1, <2>2
<1>7. PassInv' /\ pass' \in [Passes -> Pass \cup {None}]
  BY <1>4 DEF GateInv, PassInv, TypeOK
<1> QED
  BY <1>4, <1>5, <1>6, <1>7, PassStepKeeps

\* A request that changes its pass and ends.
LEMMA RowKeeps ==
  ASSUME GateInv, NEW r \in Reqs, NEW p \in Passes, NEW row \in Pass,
         pass[p] # None, pass' = [pass EXCEPT ![p] = row], Done(r),
         UNCHANGED <<visit, flat, approved, clock>>,
         row.cancels <= 1, row.status = "active" => row.cancels = 0
  PROVE  GateInv'
<1>1. /\ pass' \in [Passes -> Pass \cup {None}] /\ pass'[p] = row
      /\ \A s \in Passes \ {p} : pass'[s] = pass[s]
  BY DEF GateInv, TypeOK
<1>2. PassInv'
  BY <1>1 DEF GateInv, PassInv
<1>3. \A s \in Passes : pass[s] # None => pass'[s] # None
  BY <1>1, Distinct
<1>4. PassSound(IdleRequest)'
  BY DEF PassSound, IdleRequest
<1>5. clock' \in Nat
  BY DEF GateInv, TypeOK
<1> QED
  BY <1>1, <1>2, <1>3, <1>4, <1>5, IdleSound, PassStepKeeps DEF Done

\* What the request reads of its pass.
LEMMA RowFacts ==
  ASSUME GateInv, NEW r \in Reqs,
         req[r].pc \in {"check_in", "check_out", "cancel_pass", "update_pass"}
  PROVE  \E p \in Passes, row \in Pass :
           /\ p = req[r].pass /\ row = pass[p] /\ pass[p] # None
           /\ row.cancels <= 1
           /\ row.status = "active" => row.cancels = 0
           /\ req[r].at \in Nat
<1>1. req[r].pass \in Passes /\ pass[req[r].pass] # None /\ req[r].at \in Nat
  BY DEF GateInv, RequestsInv, PassSound, TypeOK, Request
<1>2. pass[req[r].pass] \in Pass
  BY <1>1 DEF GateInv, TypeOK
<1> QED
  BY <1>1, <1>2 DEF GateInv, PassInv

LEMMA CheckInKeeps ==
  ASSUME GateInv, NEW r \in Reqs, CheckIn(r)
  PROVE  GateInv'
<1>1. PICK p \in Passes, row \in Pass :
        /\ p = req[r].pass /\ row = pass[p] /\ pass[p] # None
        /\ row.cancels <= 1
        /\ row.status = "active" => row.cancels = 0
        /\ req[r].at \in Nat
  BY RowFacts DEF CheckIn
<1>2. PICK at \in Nat : at = req[r].at
  BY <1>1
<1>3. PICK lastIn \in Nat : lastIn = Later(row.lastIn, at)
  BY DEF Later, Pass
<1> DEFINE row2 == [row EXCEPT !.entries = @ + 1, !.lastIn = lastIn]
<1>4. pass' = [pass EXCEPT ![p] = row2]
  <2>1. pass' = [pass EXCEPT ![p].entries = @ + 1, ![p].lastIn = Later(@, at)]
    BY <1>1, <1>2 DEF CheckIn
  <2>2. pass \in [Passes -> Pass \cup {None}]
    BY DEF GateInv, TypeOK
  <2> QED
    BY <1>1, <1>3, <2>1, <2>2 DEF Pass
<1>5. row.entries + 1 \in Nat
  BY DEF Pass
<1>6. row2 \in Pass
  BY <1>5 DEF Pass
<1>7. row2.cancels = row.cancels /\ row2.status = row.status
  BY DEF Pass
<1> HIDE DEF row2
<1>8. row2.cancels <= 1 /\ (row2.status = "active" => row2.cancels = 0)
  BY <1>1, <1>7
<1>9. Done(r) /\ UNCHANGED <<visit, flat, approved, clock>>
  BY DEF CheckIn
<1> QED
  BY <1>1, <1>4, <1>6, <1>8, <1>9, RowKeeps

LEMMA CheckOutKeeps ==
  ASSUME GateInv, NEW r \in Reqs, CheckOut(r)
  PROVE  GateInv'
<1>1. PICK p \in Passes, row \in Pass :
        /\ p = req[r].pass /\ row = pass[p] /\ pass[p] # None
        /\ row.cancels <= 1
        /\ row.status = "active" => row.cancels = 0
        /\ req[r].at \in Nat
  BY RowFacts DEF CheckOut
<1>2. PICK at \in Nat : at = req[r].at
  BY <1>1
<1>3. PICK lastOut \in Nat : lastOut = Later(row.lastOut, at)
  BY DEF Later, Pass
<1>4. PICK status : status = IF req[r].once THEN "completed" ELSE row.status
  OBVIOUS
<1> DEFINE row2 == [row EXCEPT !.lastOut = lastOut, !.status = status]
<1>5. pass' = [pass EXCEPT ![p] = row2]
  <2>1. pass' = [pass EXCEPT ![p].lastOut = Later(@, at),
                             ![p].status = IF req[r].once THEN "completed" ELSE @]
    BY <1>1, <1>2 DEF CheckOut
  <2>2. pass \in [Passes -> Pass \cup {None}]
    BY DEF GateInv, TypeOK
  <2> QED
    BY <1>1, <1>3, <1>4, <2>1, <2>2 DEF Pass
<1>6. /\ row2 \in Pass /\ row2.cancels = row.cancels
      /\ row2.status = "active" => row.status = "active"
  BY <1>1, <1>4 DEF Pass
<1> HIDE DEF row2
<1>7. row2.cancels <= 1 /\ (row2.status = "active" => row2.cancels = 0)
  BY <1>1, <1>6
<1>8. Done(r) /\ UNCHANGED <<visit, flat, approved, clock>>
  BY DEF CheckOut
<1> QED
  BY <1>1, <1>5, <1>6, <1>7, <1>8, RowKeeps

\* A cancellation changes an active pass only.
LEMMA CancelledFacts ==
  ASSUME NEW row \in Pass, row.cancels <= 1,
         row.status = "active" => row.cancels = 0
  PROVE  /\ Cancelled(row) \in Pass
         /\ Cancelled(row).cancels <= 1 /\ Cancelled(row).status # "active"
         /\ row.status = "completed" => Cancelled(row).status = "completed"
<1>1. CASE row.status = "active"
  <2>1. row.cancels + 1 \in Nat /\ row.cancels + 1 <= 1
    BY <1>1
  <2>2. Cancelled(row) = [row EXCEPT !.status = "cancelled", !.cancels = row.cancels + 1]
    BY <1>1 DEF Cancelled
  <2> QED
    BY <1>1, <2>1, <2>2 DEF Pass
<1>2. CASE row.status # "active"
  BY <1>2 DEF Cancelled
<1> QED
  BY <1>1, <1>2

LEMMA CancelPassKeeps ==
  ASSUME GateInv, NEW r \in Reqs, CancelPass(r)
  PROVE  GateInv'
<1>1. PICK p \in Passes, row \in Pass :
        /\ p = req[r].pass /\ row = pass[p] /\ pass[p] # None
        /\ row.cancels <= 1
        /\ row.status = "active" => row.cancels = 0
        /\ req[r].at \in Nat
  BY RowFacts DEF CancelPass
<1>2. PICK row2 : row2 = Cancelled(row)
  OBVIOUS
<1>3. pass' = [pass EXCEPT ![p] = row2]
  BY <1>1, <1>2 DEF CancelPass, GateInv, TypeOK
<1>4. /\ row2 \in Pass /\ row2.cancels <= 1
      /\ row2.status # "active"
  BY <1>1, <1>2, CancelledFacts
<1> QED
  BY <1>1, <1>3, <1>4, RowKeeps DEF CancelPass

LEMMA UpdatePassKeeps ==
  ASSUME GateInv, NEW r \in Reqs, UpdatePass(r)
  PROVE  GateInv'
<1>1. PICK p \in Passes, row \in Pass :
        /\ p = req[r].pass /\ row = pass[p] /\ pass[p] # None
        /\ row.cancels <= 1
        /\ row.status = "active" => row.cancels = 0
        /\ req[r].at \in Nat
  BY RowFacts DEF UpdatePass
<1>2. PICK once \in BOOLEAN, max \in Limits \cup {None} :
        pass' = [pass EXCEPT ![p].once = once, ![p].max = max]
  BY <1>1 DEF UpdatePass
<1> DEFINE row2 == [row EXCEPT !.once = once, !.max = max]
<1>3. pass' = [pass EXCEPT ![p] = row2]
  BY <1>1, <1>2 DEF GateInv, TypeOK, Pass
<1>4. /\ row2 \in Pass /\ row2.cancels = row.cancels
      /\ row2.status = row.status
  BY <1>1 DEF Pass
<1> HIDE DEF row2
<1> QED
  BY <1>1, <1>3, <1>4, RowKeeps DEF UpdatePass

LEMMA CreatePassKeeps ==
  ASSUME GateInv, NEW p \in Passes, CreatePass(p)
  PROVE  GateInv'
<1>1. PICK f \in Flats, once \in BOOLEAN, max \in Limits \cup {None} :
        pass' = [pass EXCEPT ![p] =
                   [status |-> "active", flat |-> f, once |-> once, max |-> max, entries |-> 0,
                    cancels |-> 0, lastIn |-> 0, lastOut |-> 0]]
  BY DEF CreatePass
<1> DEFINE row == [status |-> "active", flat |-> f, once |-> once, max |-> max, entries |-> 0,
                   cancels |-> 0, lastIn |-> 0, lastOut |-> 0]
<1>2. row \in Pass /\ row.cancels = 0
  BY DEF Pass
<1> HIDE DEF row
<1>3. /\ pass' \in [Passes -> Pass \cup {None}] /\ pass'[p] = row
      /\ \A s \in Passes \ {p} : pass'[s] = pass[s]
  BY <1>1, <1>2 DEF GateInv, TypeOK, row
<1>4. UNCHANGED <<visit, flat, approved, clock, req>>
  BY DEF CreatePass
<1>5. PassInv'
  BY <1>2, <1>3 DEF GateInv, PassInv
<1>6. \A s \in Passes : pass[s] # None => pass'[s] # None
  BY <1>2, <1>3, Distinct
<1>7. TypeOK' /\ VisitInv'
  BY <1>3, <1>4 DEF GateInv, TypeOK, VisitInv, EntryWasApproved, CancelledIsRejected
<1>8. \A s \in Reqs : (VisitSound(req[s]) /\ PassSound(req[s]))'
  <2> TAKE s \in Reqs
  <2>1. PICK q \in Request : q = req[s]
    BY DEF GateInv, TypeOK
  <2>2. VisitSound(q) /\ PassSound(q) /\ req'[s] = q
    BY <1>4, <2>1 DEF GateInv, RequestsInv
  <2>3. VisitSound(q)'
    BY <1>4, <2>2 DEF VisitSound, Seen, Decided
  <2>4. q.passes \subseteq Passes /\ (q.pass # None => q.pass \in Passes)
    BY DEF Request
  <2>5. PassSound(q)'
    BY <1>6, <2>2, <2>4 DEF PassSound
  <2> QED
    BY <2>2, <2>3, <2>5 DEF VisitSound, PassSound, Seen, Decided
<1>9. \A s, t \in Reqs : s # t => (Decided(req[s]) \cap Decided(req[t]) = {})'
  BY <1>4 DEF GateInv, RequestsInv, Decided
<1> QED
  BY <1>5, <1>7, <1>8, <1>9 DEF GateInv, RequestsInv

-----------------------------------------------------------------------------
(* Steps that change the visit *)

\* What is known of a transaction stays true when others write to the visit and to flats
\* it has not written.
LEMMA OthersKeep ==
  ASSUME NEW q \in Request, VisitSound(q), visit # None => visit' # None,
         approved \subseteq approved',
         \A f \in Decided(q) : flat'[f] = flat[f],
         \A f \in Flats : flat[f] \in {"rejected", None} =>
                            flat'[f] \in {"rejected", None} \/ visit = None
  PROVE  VisitSound(q)'
<1>1. q.pc = "commit" /\ q.status = "cancelled" =>
        \A f \in Flats : Seen(q, f)' \in {"rejected", None}
  <2> SUFFICES ASSUME q.pc = "commit", q.status = "cancelled", NEW f \in Flats
               PROVE  Seen(q, f)' \in {"rejected", None}
    OBVIOUS
  <2>1. Seen(q, f) \in {"rejected", None} /\ visit # None
    BY Distinct DEF VisitSound
  <2>2. CASE f \in Decided(q)
    BY <2>1, <2>2 DEF Seen, Decided
  <2>3. CASE f \notin Decided(q)
    BY <2>1, <2>3 DEF Seen, Decided
  <2> QED
    BY <2>2, <2>3
<1>2. \A f \in Decided(q)' : flat'[f] \in {"awaiting", "approved"}
  BY DEF VisitSound, Decided
<1>3. q.pc = "leave" /\ q.seen \in OpenVisit =>
        visit' # None /\ flat'[q.flat] \in {"rejected", None}
  <2> SUFFICES ASSUME q.pc = "leave", q.seen \in OpenVisit
               PROVE  visit' # None /\ flat'[q.flat] \in {"rejected", None}
    OBVIOUS
  <2>1. q.flat \in Flats /\ visit # None /\ flat[q.flat] \in {"rejected", None}
    BY DEF VisitSound, Request
  <2> QED
    BY <2>1
<1> QED
  BY <1>1, <1>2, <1>3 DEF VisitSound

LEMMA EnterOrExitKeeps ==
  ASSUME GateInv, NEW r \in Reqs, EnterOrExit(r)
  PROVE  GateInv'
<1>1. visit # None /\ approved # {} /\ visit \in Visit /\ req[r] \in Request
  BY DEF EnterOrExit, GateInv, RequestsInv, VisitSound, TypeOK
<1>2. PICK status \in {"entered", "exited"} : visit' = [visit EXCEPT !.status = status]
  BY DEF EnterOrExit
<1>3. /\ visit' \in Visit /\ visit'.status = status /\ visit'.count = visit.count
      /\ visit'.cancels = visit.cancels
  BY <1>1, <1>2 DEF Visit, Statuses
<1>4. /\ req' = [req EXCEPT ![r] = IdleRequest] /\ UNCHANGED <<flat, approved, pass, clock>>
      /\ req \in [Reqs -> Request]
  BY DEF EnterOrExit, Done, GateInv, TypeOK
<1>5. req' \in [Reqs -> Request] /\ req'[r] = IdleRequest /\ \A s \in Reqs \ {r} : req'[s] = req[s]
  BY <1>4, IdleSound
<1>6. TypeOK'
  BY <1>3, <1>4, <1>5 DEF GateInv, TypeOK
<1>7. VisitInv'
  BY <1>1, <1>3, <1>4, Distinct DEF GateInv, VisitInv, EntryWasApproved, CancelledIsRejected
<1>8. PassInv'
  BY <1>4 DEF GateInv, PassInv
<1>9. \A s \in Reqs : (VisitSound(req[s]) /\ PassSound(req[s]))'
  <2> TAKE s \in Reqs
  <2>1. PICK q \in Request : q = req'[s]
    BY <1>5
  <2>2. VisitSound(q) /\ PassSound(q)
    BY <1>5, <2>1, IdleSound DEF GateInv, RequestsInv
  <2>3. VisitSound(q)'
    BY <1>1, <1>3, <1>4, <2>2, Distinct, OthersKeep
  <2> QED
    BY <1>4, <2>1, <2>2, <2>3 DEF VisitSound, PassSound, Seen, Decided
<1>10. \A s, t \in Reqs : s # t => (Decided(req[s]) \cap Decided(req[t]) = {})'
  BY <1>5, IdleSound DEF GateInv, RequestsInv, Decided
<1> QED
  BY <1>6, <1>7, <1>8, <1>9, <1>10 DEF GateInv, RequestsInv

LEMMA CreateWalkInKeeps ==
  ASSUME GateInv, CreateWalkIn
  PROVE  GateInv'
<1>1. visit = None /\ UNCHANGED <<approved, pass, clock, req>>
  BY DEF CreateWalkIn
<1>2. /\ visit' \in Visit /\ visit'.status = "awaiting" /\ visit'.count = 0 /\ visit'.cancels = 0
  BY DEF CreateWalkIn, Visit, Statuses
<1>3. /\ flat' \in [Flats -> Decisions \cup {None}]
      /\ \A f \in Flats : flat'[f] \in {"awaiting", None}
  BY DEF CreateWalkIn, Decisions
<1>4. TypeOK'
  BY <1>1, <1>2, <1>3 DEF GateInv, TypeOK
<1>5. VisitInv'
  BY <1>2, <1>3, Distinct DEF VisitInv, EntryWasApproved, CancelledIsRejected
<1>6. PassInv'
  BY <1>1 DEF GateInv, PassInv
<1>7. \A s \in Reqs : (VisitSound(req[s]) /\ PassSound(req[s]))'
  <2> TAKE s \in Reqs
  <2>1. PICK q \in Request : q = req[s]
    BY DEF GateInv, TypeOK
  <2>2. VisitSound(q) /\ PassSound(q) /\ req'[s] = q
    BY <1>1, <2>1 DEF GateInv, RequestsInv
  <2>3. Decided(q) = {} /\ q.pc # "commit" /\ (q.pc = "leave" => q.seen \notin OpenVisit)
    BY <1>1, <2>2 DEF VisitSound, Decided
  <2>4. VisitSound(q)'
    BY <1>1, <1>2, <2>2, <2>3, Distinct DEF VisitSound, Decided
  <2> QED
    BY <1>1, <2>2, <2>4 DEF VisitSound, PassSound, Seen, Decided
<1>8. \A s, t \in Reqs : s # t => (Decided(req[s]) \cap Decided(req[t]) = {})'
  BY <1>1 DEF GateInv, RequestsInv, Decided
<1> QED
  BY <1>4, <1>5, <1>6, <1>7, <1>8 DEF GateInv, RequestsInv

\* A commit changes only the flat its transaction has decided on, which was not rejected.
LEMMA CommitFacts ==
  ASSUME GateInv, NEW r \in Reqs, Commit(r)
  PROVE  /\ req[r] \in Request /\ req[r].pc \in {"commit", "leave"}
         /\ VisitSound(req[r]) /\ PassSound(req[r])
         /\ \A f \in Flats : flat'[f] = Seen(req[r], f) /\ flat'[f] \in Decisions \cup {None}
         /\ flat' \in [Flats -> Decisions \cup {None}]
         /\ \A f \in Flats : f \notin Decided(req[r]) => flat'[f] = flat[f]
         /\ \A f \in Decided(req[r]) : /\ f \in Flats /\ f = req[r].flat
                                       /\ flat[f] \in {"awaiting", "approved"}
                                       /\ flat'[f] = req[r].verdict
                                       /\ req[r].verdict \in {"approved", "rejected"}
         /\ approved \subseteq approved' /\ approved' \subseteq Flats
         /\ visit # None => visit' # None
<1> DEFINE q == req[r]
<1>1. q \in Request /\ q.pc \in {"commit", "leave"} /\ VisitSound(q) /\ PassSound(q) /\ TypeOK
  BY DEF Commit, GateInv, RequestsInv, TypeOK
<1>2. /\ flat' = [f \in Flats |-> Seen(q, f)]
      /\ approved' = approved \cup {f \in Decided(q) : q.verdict = "approved"}
      /\ visit' = IF q.count = None THEN visit
                  ELSE [status |-> IF q.status = None THEN visit.status ELSE q.status,
                        count |-> q.count,
                        cancels |-> visit.cancels + (IF q.status = "cancelled" THEN 1 ELSE 0)]
  BY DEF Commit
<1> HIDE DEF q
<1>3. \A f \in Flats : Seen(q, f) \in Decisions \cup {None}
  BY <1>1 DEF Seen, TypeOK, Request
<1>4. \A f \in Decided(q) : f \in Flats /\ f = q.flat
  BY <1>1 DEF VisitSound, Decided, Request
<1>5. \A f \in Decided(q) : flat[f] \in {"awaiting", "approved"}
                            /\ q.verdict \in {"approved", "rejected"}
  BY <1>1, <1>4 DEF VisitSound, Decided
<1>6. visit # None => visit' # None
  <2> SUFFICES ASSUME visit # None, q.count # None
               PROVE  visit' # None
    BY <1>2
  <2>1. visit \in Visit /\ q.status \in Statuses \cup {None} /\ q.count \in Nat
    BY <1>1 DEF TypeOK, Request
  <2>2. visit' \in Visit
    BY <1>2, <2>1 DEF Visit
  <2> QED
    BY <2>2, Distinct
<1>7. approved \subseteq approved' /\ approved' \subseteq Flats
  BY <1>1, <1>2, <1>4 DEF TypeOK
<1>8. /\ \A f \in Flats : flat'[f] = Seen(q, f) /\ flat'[f] \in Decisions \cup {None}
      /\ flat' \in [Flats -> Decisions \cup {None}]
  BY <1>2, <1>3
<1>9. \A f \in Flats : f \notin Decided(q) => flat'[f] = flat[f]
  BY <1>2 DEF Seen
<1>10. \A f \in Decided(q) : flat'[f] = q.verdict
  BY <1>2, <1>4 DEF Seen
<1> QED
  BY <1>1, <1>4, <1>5, <1>6, <1>7, <1>8, <1>9, <1>10 DEF q

\* The visit and its flats after a commit.
LEMMA CommitKeepsVisit ==
  ASSUME GateInv, NEW r \in Reqs, Commit(r)
  PROVE  VisitInv' /\ visit' \in Visit \cup {None}
<1>1. PICK q \in Request : q = req[r]
  BY CommitFacts
<1>2. /\ VisitSound(q) /\ q.pc \in {"commit", "leave"}
      /\ \A f \in Flats : flat'[f] = Seen(q, f) /\ flat'[f] \in Decisions \cup {None}
      /\ \A f \in Flats : f \notin Decided(q) => flat'[f] = flat[f]
      /\ \A f \in Decided(q) : /\ f \in Flats /\ f = q.flat
                               /\ flat[f] \in {"awaiting", "approved"} /\ flat'[f] = q.verdict
                               /\ q.verdict \in {"approved", "rejected"}
      /\ approved \subseteq approved' /\ (visit # None => visit' # None)
  BY <1>1, CommitFacts
<1>3. /\ approved' = approved \cup {f \in Decided(q) : q.verdict = "approved"}
      /\ visit' = IF q.count = None THEN visit
                  ELSE [status |-> IF q.status = None THEN visit.status ELSE q.status,
                        count |-> q.count,
                        cancels |-> visit.cancels + (IF q.status = "cancelled" THEN 1 ELSE 0)]
  BY <1>1 DEF Commit
<1>4. VisitInv
  BY DEF GateInv
<1>5. \A f \in Flats : flat'[f] = "approved" => f \in approved'
  BY <1>2, <1>3, <1>4 DEF VisitInv
<1>6. \A f \in Flats : flat'[f] # None => visit' # None
  BY <1>2, <1>4, Distinct DEF VisitInv
<1>7. \A f \in Flats : flat[f] \in {"rejected", None} => flat'[f] \in {"rejected", None}
  BY <1>2, Distinct
<1>8. CASE q.count = None
  <2>1. visit' = visit /\ visit' \in Visit \cup {None} /\ Decided(q) = {}
    BY <1>2, <1>3, <1>8 DEF GateInv, TypeOK, VisitSound, Decided
  <2>2. EntryWasApproved'
    BY <1>2, <1>4, <2>1 DEF VisitInv, EntryWasApproved
  <2>3. CancelledIsRejected'
    BY <1>4, <1>7, <2>1 DEF VisitInv, CancelledIsRejected
  <2>4. visit' # None => /\ visit'.cancels <= 1
                         /\ visit'.cancels # 0 => \A f \in Flats : flat'[f] \in {"rejected", None}
    BY <1>4, <1>7, <2>1 DEF VisitInv
  <2> QED
    BY <1>5, <1>6, <2>1, <2>2, <2>3, <2>4 DEF VisitInv
<1>9. CASE q.count # None
  <2>1. /\ q.pc = "commit" /\ visit # None /\ visit \in Visit /\ q.flat \in Decided(q) /\ q.count \in Nat
        /\ q.status \in {None, "approved", "cancelled"}
    BY <1>2, <1>9 DEF VisitSound, Decided, Request, GateInv, TypeOK
  <2>2. /\ visit'.status = (IF q.status = None THEN visit.status ELSE q.status)
        /\ visit'.count = q.count
        /\ visit'.cancels = visit.cancels + (IF q.status = "cancelled" THEN 1 ELSE 0)
    BY <1>3, <1>9
  <2>3. visit.cancels = 0
    BY <1>2, <1>4, <2>1, Distinct DEF VisitInv
  <2>4. visit' \in Visit
    BY <1>3, <1>9, <2>1 DEF Visit, Statuses
  <2>5. q.status = "cancelled" => \A f \in Flats : flat'[f] \in {"rejected", None}
    BY <1>2, <2>1 DEF VisitSound
  <2>6. q.count # 0 => approved' # {}
    BY <1>2, <1>3, <1>9, <2>1 DEF VisitSound
  <2>7. EntryWasApproved'
    <3> SUFFICES ASSUME visit'.status \in {"entered", "exited"} \/ visit'.count > 0
                 PROVE  approved' # {}
      BY DEF EntryWasApproved
    <3>1. CASE visit'.count > 0
      BY <2>1, <2>2, <2>6, <3>1
    <3>2. CASE visit'.status \in {"entered", "exited"}
      <4>1. visit.status \in {"entered", "exited"}
        BY <2>1, <2>2, <3>2
      <4> QED
        BY <1>2, <1>4, <2>1, <4>1 DEF VisitInv, EntryWasApproved
    <3> QED
      BY <3>1, <3>2
  <2>8. CancelledIsRejected'
    <3> SUFFICES ASSUME visit'.status = "cancelled", NEW f \in Flats
                 PROVE  flat'[f] \in {"rejected", None}
      BY DEF CancelledIsRejected
    <3>1. CASE q.status = "cancelled"
      BY <2>5, <3>1
    <3>2. CASE q.status # "cancelled"
      BY <1>4, <1>7, <2>1, <2>2, <3>2 DEF VisitInv, CancelledIsRejected
    <3> QED
      BY <3>1, <3>2
  <2>9. /\ visit'.cancels <= 1
        /\ visit'.cancels # 0 => \A f \in Flats : flat'[f] \in {"rejected", None}
    BY <2>2, <2>3, <2>5
  <2> QED
    BY <1>5, <1>6, <2>4, <2>7, <2>8, <2>9 DEF VisitInv
<1> QED
  BY <1>8, <1>9

LEMMA CommitKeeps ==
  ASSUME GateInv, NEW r \in Reqs, Commit(r)
  PROVE  GateInv'
<1>1. PICK q \in Request : q = req[r]
  BY CommitFacts
<1>2. PassSound(q)
  BY <1>1, CommitFacts
<1>3. /\ req' = [req EXCEPT ![r] = IdleRequest] /\ clock' = clock
      /\ pass' = [p \in Passes |-> IF p \in q.passes THEN Cancelled(pass[p]) ELSE pass[p]]
  BY <1>1 DEF Commit, Done
<1>4. ASSUME NEW p \in Passes
      PROVE  /\ pass'[p] \in Pass \cup {None}
             /\ pass[p] # None => pass'[p] # None
             /\ pass'[p] # None => /\ pass'[p].cancels <= 1
                                   /\ pass'[p].status = "active" => pass'[p].cancels = 0
  <2>1. pass[p] # None => /\ pass[p] \in Pass /\ pass[p].cancels <= 1
                          /\ pass[p].status = "active" => pass[p].cancels = 0
    BY DEF GateInv, TypeOK, PassInv
  <2>2. CASE p \in q.passes
    <3>1. pass[p] # None /\ pass'[p] = Cancelled(pass[p])
      BY <1>2, <1>3, <2>2 DEF PassSound
    <3>2. PICK row \in Pass : row = pass[p]
      BY <2>1, <3>1
    <3>3. /\ Cancelled(row) \in Pass /\ Cancelled(row).cancels <= 1 /\ Cancelled(row).status # "active"
      BY <2>1, <3>1, <3>2, CancelledFacts
    <3> QED
      BY <3>1, <3>2, <3>3, Distinct
  <2>3. CASE p \notin q.passes
    <3>1. pass'[p] = pass[p]
      BY <1>3, <2>3
    <3>2. pass[p] \in Pass \cup {None}
      BY DEF GateInv, TypeOK
    <3> QED
      BY <2>1, <3>1, <3>2
  <2> QED
    BY <2>2, <2>3
<1>5. PassInv' /\ pass' \in [Passes -> Pass \cup {None}]
  BY <1>3, <1>4 DEF PassInv
<1>6. req \in [Reqs -> Request] /\ clock \in Nat
  BY DEF GateInv, TypeOK
<1>7. req' \in [Reqs -> Request] /\ req'[r] = IdleRequest /\ \A s \in Reqs \ {r} : req'[s] = req[s]
  BY <1>3, <1>6, IdleSound
<1>8. TypeOK' /\ VisitInv'
  BY <1>3, <1>5, <1>6, <1>7, CommitFacts, CommitKeepsVisit DEF TypeOK
<1>9. \A f \in Flats : flat[f] \in {"rejected", None} => flat'[f] \in {"rejected", None}
  BY CommitFacts, Distinct
<1>10. ASSUME NEW s \in Reqs
       PROVE  (VisitSound(req[s]) /\ PassSound(req[s]))'
  <2>1. PICK p \in Request : p = req'[s]
    BY <1>7
  <2>2. VisitSound(p) /\ PassSound(p)
    BY <1>7, <2>1, IdleSound DEF GateInv, RequestsInv
  <2>3. \A f \in Decided(p) : flat'[f] = flat[f]
    <3>1. Decided(p) \cap Decided(q) = {}
      BY <1>1, <1>7, <2>1, IdleSound DEF GateInv, RequestsInv
    <3>2. Decided(p) \subseteq Flats
      BY <2>2 DEF VisitSound, Decided, Request
    <3> QED
      BY <1>1, <3>1, <3>2, CommitFacts
  <2>4. VisitSound(p)'
    BY <1>9, <2>2, <2>3, CommitFacts, OthersKeep
  <2>5. PassSound(p)'
    <3>1. p.passes \subseteq Passes /\ (p.pass # None => p.pass \in Passes)
      BY DEF Request
    <3> QED
      BY <1>4, <2>2, <3>1 DEF PassSound
  <2> QED
    BY <2>1, <2>4, <2>5 DEF VisitSound, PassSound, Seen, Decided
<1>11. \A s, t \in Reqs : s # t => (Decided(req[s]) \cap Decided(req[t]) = {})'
  BY <1>7, IdleSound DEF GateInv, RequestsInv, Decided
<1> QED
  BY <1>5, <1>8, <1>10, <1>11 DEF GateInv, RequestsInv

LEMMA AbortKeeps ==
  ASSUME GateInv, NEW r \in Reqs, Abort(r)
  PROVE  GateInv'
BY IdleSound, ContinueKeeps DEF Abort

\* A visit that may be entered, or is, has been approved.
LEMMA BeginEntryKeeps ==
  ASSUME GateInv, NEW r \in Reqs, NEW pc \in {"enter", "exit"}, visit # None, approved # {},
         Continue(r, [IdleRequest EXCEPT !.pc = pc])
  PROVE  GateInv'
<1> DEFINE q == [IdleRequest EXCEPT !.pc = pc]
<1>1. q \in Request /\ Continue(r, q)
  BY IdleSound DEF Request, PCs
<1>2. q.pc = pc /\ q.passes = {}
  BY DEF IdleRequest
<1> HIDE DEF q
<1>3. Decided(q) = {}
  BY <1>2 DEF Decided
<1>4. VisitSound(q) /\ PassSound(q)
  BY <1>2, <1>3 DEF VisitSound, PassSound
<1> QED
  BY <1>1, <1>3, <1>4, ContinueKeeps

LEMMA BeginEnterKeeps ==
  ASSUME GateInv, NEW r \in Reqs, BeginEnter(r)
  PROVE  GateInv'
<1>1. visit # None /\ visit \in Visit /\ visit.count >= 1
  BY DEF BeginEnter, GateInv, TypeOK
<1>2. visit.count > 0
  BY <1>1 DEF Visit
<1>3. approved # {}
  BY <1>1, <1>2 DEF GateInv, VisitInv, EntryWasApproved
<1> QED
  BY <1>1, <1>3, BeginEntryKeeps DEF BeginEnter

LEMMA BeginExitKeeps ==
  ASSUME GateInv, NEW r \in Reqs, BeginExit(r)
  PROVE  GateInv'
<1>1. visit # None /\ approved # {}
  BY DEF BeginExit, GateInv, VisitInv, EntryWasApproved
<1> QED
  BY <1>1, BeginEntryKeeps DEF BeginExit

LEMMA BeginMoveKeeps ==
  ASSUME GateInv, NEW r \in Reqs, NEW p \in Passes, NEW pc \in {"check_in", "check_out"},
         BeginMove(r, p, pc)
  PROVE  GateInv'
<1>1. PICK at \in Nat : at = clock + 1
  BY DEF GateInv, TypeOK
<1>2. clock' \in Nat /\ BeginPass(r, p, pc, at)
  BY <1>1 DEF BeginMove
<1> QED
  BY <1>2, BeginPassKeeps

LEMMA BeginEditKeeps ==
  ASSUME GateInv, NEW r \in Reqs, NEW p \in Passes, NEW pc \in {"cancel_pass", "update_pass"},
         BeginEdit(r, p, pc)
  PROVE  GateInv'
<1>1. clock' \in Nat /\ BeginPass(r, p, pc, 0)
  BY DEF BeginEdit, GateInv, TypeOK
<1> QED
  BY <1>1, BeginPassKeeps

-----------------------------------------------------------------------------
(* The invariant *)

LEMMA InitGateInv == Init => GateInv
<1> SUFFICES ASSUME Init
             PROVE  GateInv
  OBVIOUS
<1>1. TypeOK
  BY IdleSound DEF Init, TypeOK
<1>2. \A r \in Reqs : req[r] = IdleRequest
  BY DEF Init
<1>3. RequestsInv
  BY <1>2, IdleSound DEF RequestsInv
<1>4. VisitInv
  BY Distinct DEF Init, VisitInv, EntryWasApproved, CancelledIsRejected
<1>5. PassInv
  BY DEF Init, PassInv
<1> QED
  BY <1>1, <1>3, <1>4, <1>5 DEF GateInv

LEMMA StutterKeeps ==
  ASSUME GateInv, UNCHANGED vars
  PROVE  GateInv'
<1>1. UNCHANGED <<visit, flat, approved, pass, clock, req>>
  BY DEF vars
<1>2. TypeOK' /\ VisitInv' /\ PassInv'
  BY <1>1 DEF GateInv, TypeOK, VisitInv, EntryWasApproved, CancelledIsRejected, PassInv
<1>3. RequestsInv'
  BY <1>1 DEF GateInv, RequestsInv, VisitSound, PassSound, Seen, Decided
<1> QED
  BY <1>2, <1>3 DEF GateInv

LEMMA NextKeeps == GateInv /\ [Next]_vars => GateInv'
<1> SUFFICES ASSUME GateInv, [Next]_vars
             PROVE  GateInv'
  OBVIOUS
<1>1. CASE UNCHANGED vars
  BY <1>1, StutterKeeps
<1>2. CASE CreateWalkIn
  BY <1>2, CreateWalkInKeeps
<1>3. ASSUME NEW p \in Passes, CreatePass(p)
      PROVE  GateInv'
  BY <1>3, CreatePassKeeps
<1>4. ASSUME NEW r \in Reqs, Begin(r)
      PROVE  GateInv'
  <2>1. ASSUME NEW f \in Flats, NEW verdict \in {"approved", "rejected"}, BeginDecide(r, f, verdict)
        PROVE  GateInv'
    BY <2>1, BeginDecideKeeps
  <2>2. ASSUME NEW f \in Flats, BeginTurnover(r, f)
        PROVE  GateInv'
    BY <2>2, BeginTurnoverKeeps
  <2>3. CASE BeginEnter(r)
    BY <2>3, BeginEnterKeeps
  <2>4. CASE BeginExit(r)
    BY <2>4, BeginExitKeeps
  <2>5. ASSUME NEW p \in Passes, NEW granted \in BOOLEAN, BeginCheckIn(r, p, granted)
        PROVE  GateInv'
    BY <2>5, BeginMoveKeeps DEF BeginCheckIn
  <2>6. ASSUME NEW p \in Passes, BeginCheckOut(r, p)
        PROVE  GateInv'
    BY <2>6, BeginMoveKeeps DEF BeginCheckOut
  <2>7. ASSUME NEW p \in Passes, NEW pc \in {"cancel_pass", "update_pass"}, BeginEdit(r, p, pc)
        PROVE  GateInv'
    BY <2>7, BeginEditKeeps
  <2> QED
    BY <1>4, <2>1, <2>2, <2>3, <2>4, <2>5, <2>6, <2>7 DEF Begin
<1>5. ASSUME NEW r \in Reqs, Continued(r)
      PROVE  GateInv'
  BY <1>5, DecideKeeps, CountKeeps, EnterOrExitKeeps, CheckInKeeps, CheckOutKeeps,
     CancelPassKeeps, UpdatePassKeeps, ReleaseKeeps, ReleaseNothingKeeps, CommitKeeps
     DEF Continued
<1>6. ASSUME NEW r \in Reqs, Abort(r)
      PROVE  GateInv'
  BY <1>6, AbortKeeps
<1> QED
  BY <1>1, <1>2, <1>3, <1>4, <1>5, <1>6 DEF Next

LEMMA SpecGateInv == Spec => []GateInv
BY InitGateInv, NextKeeps, PTL DEF Spec

-----------------------------------------------------------------------------
(* Theorems *)

\* Every variable stays in its type: the handlers never write a status, a count or a pass
\* of another shape (walk_in_repository.py, passes_repository.py).
THEOREM GateTypeCorrect == Spec => []TypeOK
<1>1. GateInv => TypeOK
  BY DEF GateInv
<1> QED
  BY <1>1, SpecGateInv, PTL

\* Nobody enters, or is counted as approved, without a resident's approval of the visit,
\* however many decisions and turnovers recompute the visit at once (enter_walk_in).
THEOREM AlwaysEntryWasApproved == Spec => []EntryWasApproved
<1>1. GateInv => EntryWasApproved
  BY DEF GateInv, VisitInv
<1> QED
  BY <1>1, SpecGateInv, PTL

\* A cancelled visit has been rejected by every flat
\* (_recompute_header_after_visit_unit_action).
THEOREM AlwaysCancelledIsRejected == Spec => []CancelledIsRejected
<1>1. GateInv => CancelledIsRejected
  BY DEF GateInv, VisitInv
<1> QED
  BY <1>1, SpecGateInv, PTL

\* A visit and a pass are cancelled once at most, by whichever of the racing rejections,
\* cancellations and turnovers (release_open_visits_for_unit, _cancel_pass).
THEOREM AlwaysCancelledOnce == Spec => []CancelledOnce
<1>1. GateInv => CancelledOnce
  BY DEF GateInv, VisitInv, PassInv, CancelledOnce
<1> QED
  BY <1>1, SpecGateInv, PTL

\* A turnover that finds nothing open waited for whoever had decided on the flat, and no
\* decision can follow (release_open_visits_for_unit, approve_visit_unit).
THEOREM AlwaysTurnoverLeavesNothingOpen == Spec => []TurnoverLeavesNothingOpen
<1>1. GateInv => TurnoverLeavesNothingOpen
  <2> SUFFICES ASSUME GateInv, NEW r \in Reqs, req[r].pc = "leave", req[r].seen \in OpenVisit
               PROVE  flat[req[r].flat] \notin {"awaiting", "approved"} /\ Free(r, req[r].flat)
    BY DEF TurnoverLeavesNothingOpen
  <2>1. flat[req[r].flat] \in {"rejected", None}
    BY DEF GateInv, RequestsInv, VisitSound
  <2>2. \A s \in Reqs : \A f \in Decided(req[s]) : flat[f] \in {"awaiting", "approved"}
    BY DEF GateInv, RequestsInv, VisitSound
  <2> QED
    BY <2>1, <2>2, Distinct DEF Free
<1> QED
  BY <1>1, SpecGateInv, PTL

\* Only a commit and a new visit write flats.
LEMMA FlatsWritten ==
  ASSUME Next
  PROVE  \/ UNCHANGED flat
         \/ CreateWalkIn
         \/ \E r \in Reqs : Commit(r)
BY DEF Next, CreatePass, Begin, Continued, Abort, Continue, BeginDecide, BeginTurnover,
       BeginEnter, BeginExit, BeginCheckIn, BeginCheckOut, BeginEdit, BeginMove, BeginPass,
       Decide, Count, EnterOrExit, CheckIn, CheckOut, CancelPass, UpdatePass, Release,
       ReleaseNothing

\* No decision overwrites a rejection (approve_visit_unit, reject_visit_unit).
THEOREM AlwaysDecisionsFinal == Spec => DecisionsFinal
<1>1. GateInv /\ [Next]_vars => [\A f \in Flats : flat[f] = "rejected" => flat'[f] = "rejected"]_vars
  <2> SUFFICES ASSUME GateInv, Next, NEW f \in Flats, flat[f] = "rejected"
               PROVE  flat'[f] = "rejected"
    OBVIOUS
  <2>1. CASE UNCHANGED flat
    BY <2>1
  <2>2. CASE CreateWalkIn
    BY <2>2, Distinct DEF CreateWalkIn, GateInv, VisitInv
  <2>3. ASSUME NEW r \in Reqs, Commit(r)
        PROVE  flat'[f] = "rejected"
    BY <2>3, CommitFacts
  <2> QED
    BY <2>1, <2>2, <2>3, FlatsWritten
<1> QED
  BY <1>1, SpecGateInv, PTL DEF Spec, DecisionsFinal

\* Which steps write passes.
LEMMA PassesWritten ==
  ASSUME Next
  PROVE  \/ UNCHANGED pass
         \/ \E p \in Passes : CreatePass(p)
         \/ \E r \in Reqs : CheckIn(r) \/ CheckOut(r) \/ CancelPass(r) \/ UpdatePass(r) \/ Commit(r)
BY DEF Next, CreateWalkIn, Begin, Continued, Abort, Continue, BeginDecide, BeginTurnover,
       BeginEnter, BeginExit, BeginCheckIn, BeginCheckOut, BeginEdit, BeginMove, BeginPass,
       Decide, Count, EnterOrExit, Release, ReleaseNothing

\* No cancellation changes the status of a completed pass (PassesRepository.cancel).
THEOREM AlwaysCompletedStays == Spec => CompletedStays
<1>1. GateInv /\ [Next]_vars =>
        [\A p \in Passes : pass[p] # None /\ pass[p].status = "completed" =>
                             pass'[p].status = "completed"]_vars
  <2> SUFFICES ASSUME GateInv, Next, NEW p \in Passes, pass[p] # None,
                      pass[p].status = "completed"
               PROVE  pass'[p].status = "completed"
    OBVIOUS
  <2>1. PICK row \in Pass : row = pass[p]
    BY DEF GateInv, TypeOK
  <2>2. pass \in [Passes -> Pass \cup {None}]
    BY DEF GateInv, TypeOK
  <2>3. CASE UNCHANGED pass
    BY <2>3
  <2>4. ASSUME NEW s \in Passes, CreatePass(s)
        PROVE  pass'[p].status = "completed"
    <3>1. p # s
      BY <2>4 DEF CreatePass
    <3> QED
      BY <2>2, <2>4, <3>1 DEF CreatePass
  <2>5. ASSUME NEW r \in Reqs, CheckIn(r)
        PROVE  pass'[p].status = "completed"
    BY <2>1, <2>2, <2>5 DEF CheckIn, Pass
  <2>6. ASSUME NEW r \in Reqs, CheckOut(r)
        PROVE  pass'[p].status = "completed"
    BY <2>1, <2>2, <2>6 DEF CheckOut, Pass
  <2>7. ASSUME NEW r \in Reqs, CancelPass(r)
        PROVE  pass'[p].status = "completed"
    BY <2>1, <2>2, <2>7 DEF CancelPass, Cancelled
  <2>8. ASSUME NEW r \in Reqs, UpdatePass(r)
        PROVE  pass'[p].status = "completed"
    BY <2>1, <2>2, <2>8 DEF UpdatePass, Pass
  <2>9. ASSUME NEW r \in Reqs, Commit(r)
        PROVE  pass'[p].status = "completed"
    BY <2>1, <2>2, <2>9 DEF Commit, Cancelled
  <2> QED
    BY <2>3, <2>4, <2>5, <2>6, <2>7, <2>8, <2>9, PassesWritten
<1> QED
  BY <1>1, SpecGateInv, PTL DEF Spec, CompletedStays

=============================================================================
