--------------------- MODULE FacilityReservationsProofs ---------------------
(***************************************************************************)
(* Proofs about FacilityReservations, for any number of reservations,      *)
(* requests, residents, events, drafts, prices and configurations.         *)
(***************************************************************************)
EXTENDS FacilityReservations, SumLemmas

-----------------------------------------------------------------------------
(* The inductive invariant *)

\* What a request in flight has read is of the kind its next step needs.
RequestShape ==
  \A r \in Reqs :
    /\ req[r].pc \in {"move", "no_show", "cancel"} => req[r].id \in Ids /\ rows[req[r].id] # NoRow
    /\ req[r].pc = "cancel" => req[r].actor \in ActorTypes
    /\ req[r].pc = "place_hold" => req[r].event \in Events /\ req[r].draft \in AllDrafts
    /\ req[r].pc = "insert" =>
         /\ req[r].row \in Row
         /\ req[r].row.status \in {"pending_approval", "confirmed"}
         /\ req[r].row.from = req[r].id
         /\ req[r].row.to = None
         /\ req[r].id # None => rows[req[r].id] # NoRow

\* The advisory lock is held by the request that is about to insert, and by no
\* other; a request that moves a booking holds its row, still movable.
LocksHeld ==
  \A r \in Reqs :
    /\ req[r].pc = "insert" <=> facilityLock = r
    /\ req[r].pc \in {"move", "insert"} /\ req[r].id # None =>
         rowLock[req[r].id] = r /\ rows[req[r].id].status \in AllowedFrom.reschedule

\* Booked drafts are drafts of the facility's archetype and run forward in time.
Forward(draft) == draft \in Drafts[config.archetype] /\ draft.day <= draft.dayEnd

DraftsForward ==
  /\ \A i \in Ids : rows[i] # NoRow => Forward(rows[i].draft)
  /\ \A r \in Reqs : req[r].pc = "insert" => Forward(req[r].row.draft)

\* The draft admitted under the advisory lock is still clear when it is inserted.
AdmittedClear ==
  \A r \in Reqs : req[r].pc = "insert" =>
    \A j \in Active \ {req[r].id} :
      ~DoubleBooks(config.archetype, req[r].row.draft, rows[j].draft)

\* A slot or duration booking starts and ends on one day.
SingleDayDrafts ==
  \A a \in {"slot", "duration"} : \A draft \in Drafts[a] : draft.day = draft.dayEnd

TypeInv == TypeOK /\ RequestShape

-----------------------------------------------------------------------------
(* Types of the helpers *)

\* A percentage of a payment is a natural number.
LEMMA PercentOfType ==
  ASSUME NEW paid \in Nat, NEW percent \in 0 .. 100
  PROVE  PercentOf(paid, percent) \in Nat
<1>1. paid * percent \in Nat
  BY SMT
<1>2. 2 * paid * percent = 2 * (paid * percent)
  BY SMT
<1> QED
  BY <1>1, <1>2, SMT DEF PercentOf

\* The neutral records have their types.
LEMMA NeutralTypes ==
  /\ NothingPosted \in Postings
  /\ IdleRequest \in Request
BY DEF NoRow, NoQuote, NothingPosted, Postings, IdleRequest, Request, PCs

\* What is paid towards a reservation is a natural number.
LEMMA PaidType ==
  ASSUME TypeOK, NEW i \in Ids
  PROVE  Paid(i) \in Nat
BY DEF TypeOK, Postings, Paid

\* The configuration in force is well-typed.
LEMMA ConfigType ==
  ASSUME TypeOK
  PROVE  config \in Config
BY ConstantsAssumption DEF TypeOK

\* A quote for a natural price is made of natural amounts.
LEMMA QuoteType ==
  ASSUME NEW cfg \in Config, NEW price \in Nat
  PROVE  Quote(cfg, price) \in [total : Nat, deposit : Nat, dueLater : Nat]
BY DEF Quote, Config

\* The row that _create prepares is an active row that refers to the moved one.
LEMMA NewRowType ==
  ASSUME TypeOK, NEW actor \in ActorTypes, NEW host \in Contacts,
         NEW draft \in AllDrafts, NEW moved \in Ids \cup {None}, NEW price \in Nat
  PROVE  LET row == NewRow(actor, host, draft, moved, price)
         IN /\ row \in Row
            /\ row.status \in {"pending_approval", "confirmed"}
            /\ row.draft = draft
            /\ row.from = moved
            /\ row.to = None
<1>1. Quote(config, price) \in [total : Nat, deposit : Nat, dueLater : Nat]
  BY ConfigType, QuoteType
<1>2. InitialStatus(config.requiresApproval) \in {"pending_approval", "confirmed"}
  BY DEF InitialStatus
<1> QED
  BY <1>1, <1>2 DEF NewRow, Row, NoRow, Status

\* Drafts are drawn from AllDrafts, actors from ActorTypes, prices from Nat.
LEMMA InputTypes ==
  ASSUME TypeOK
  PROVE  /\ Drafts[config.archetype] \subseteq AllDrafts
         /\ Actors \subseteq ActorTypes
         /\ Prices \subseteq Nat
BY ConfigType, ConstantsAssumption DEF AllDrafts, Config

\* NULL is none of the values it stands in for, and no status is "none".
LEMMA Distinct ==
  /\ None \notin Ids /\ None \notin Reqs /\ None \notin Contacts /\ None \notin Events
  /\ None \notin AllDrafts
  /\ NoRow \notin Row /\ NoRow.status = "none" /\ "none" \notin Status
<1>1. AllDrafts \subseteq Draft
  BY ConstantsAssumption DEF AllDrafts
<1> QED
  BY <1>1, ConstantsAssumption DEF NoRow, Row, Status

\* An id that is still free names no row.
LEMMA FreeRow ==
  ASSUME TypeOK, NEW i \in Ids, i \in FreeIds
  PROVE  rows[i] = NoRow
<1>1. rows[i].status = "none" /\ rows[i] \in Row \cup {NoRow}
  BY DEF FreeIds, TypeOK
<1>2. rows[i] \notin Row
  BY <1>1, Distinct DEF Row
<1> QED
  BY <1>1, <1>2

-----------------------------------------------------------------------------
(* Type correctness *)

\* Admitting a draft keeps the types.
LEMMA AdmitType ==
  ASSUME TypeInv, NEW r \in Reqs, NEW actor \in ActorTypes, NEW host \in Contacts,
         NEW draft \in AllDrafts, NEW moved \in Ids \cup {None},
         moved # None => rows[moved] # NoRow,
         Admit(r, actor, host, draft, moved)
  PROVE  TypeInv'
<1> USE DEF TypeInv
<1>1. PICK price \in Prices :
        req' = [req EXCEPT ![r] = [IdleRequest EXCEPT !.pc = "insert", !.id = moved,
                  !.row = NewRow(actor, host, draft, moved, price)]]
  BY DEF Admit
<1> DEFINE row == NewRow(actor, host, draft, moved, price)
<1>2. /\ row \in Row
      /\ row.status \in {"pending_approval", "confirmed"}
      /\ row.from = moved
      /\ row.to = None
  BY InputTypes, NewRowType
<1> HIDE DEF row
<1>3. [IdleRequest EXCEPT !.pc = "insert", !.id = moved, !.row = row] \in Request
  BY <1>2, NeutralTypes DEF Request, IdleRequest, PCs
<1>4. req' = [req EXCEPT ![r] = [IdleRequest EXCEPT !.pc = "insert", !.id = moved, !.row = row]]
  BY <1>1 DEF row
<1>5. TypeOK'
  BY <1>3, <1>4 DEF Admit, TypeOK
<1>6. RequestShape'
  BY <1>2, <1>4 DEF Admit, TypeOK, RequestShape, IdleRequest
<1> QED
  BY <1>5, <1>6

\* The end of one request leaves what the others hold in order, as long as no
\* reservation disappears.
LEMMA ShapeKept ==
  ASSUME TypeOK, RequestShape, NEW r \in Reqs, Finish(r),
         \A j \in Ids : rows[j] # NoRow => rows'[j] # NoRow
  PROVE  RequestShape'
<1>1. ASSUME NEW s \in Reqs, s # r
      PROVE  req'[s] = req[s]
  BY <1>1 DEF TypeOK, Finish
<1>2. req'[r] = IdleRequest
  BY DEF TypeOK, Finish
<1>3. req'[r].pc = "idle"
  BY <1>2 DEF IdleRequest
<1>4. ASSUME NEW s \in Reqs, s # r, req[s].id # None
      PROVE  req[s].id \in Ids
  BY <1>4 DEF TypeOK, Request
<1> QED
  BY <1>1, <1>3, <1>4 DEF RequestShape

\* Every operation keeps the types.
LEMMA TypeStep == TypeInv /\ [Next]_vars => TypeInv'
<1> SUFFICES ASSUME TypeInv, [Next]_vars PROVE TypeInv'
  OBVIOUS
<1> USE InputTypes, ConfigType, NeutralTypes, Distinct DEF TypeInv
<1>1. ASSUME NEW r \in Reqs, NEW actor \in Actors, NEW host \in Contacts,
             NEW draft \in Drafts[config.archetype], BeginCreate(r, actor, host, draft)
      PROVE  TypeInv'
  BY <1>1, AdmitType DEF BeginCreate
<1>2. ASSUME NEW r \in Reqs, NEW i \in Ids, BeginReschedule(r, i)
      PROVE  TypeInv'
  <2>1. TypeOK'
    BY <1>2 DEF BeginReschedule, TypeOK, Request, PCs
  <2>2. RequestShape'
    BY <1>2 DEF BeginReschedule, TypeOK, RequestShape, AllowedFrom, IdleRequest
  <2> QED
    BY <2>1, <2>2
<1>3. ASSUME NEW r \in Reqs, NEW i \in Ids, BeginNoShow(r, i)
      PROVE  TypeInv'
  <2>1. TypeOK'
    BY <1>3, PaidType DEF BeginNoShow, TypeOK, Request, PCs
  <2>2. RequestShape'
    BY <1>3 DEF BeginNoShow, TypeOK, RequestShape, Active, ActiveStatuses, IdleRequest
  <2> QED
    BY <2>1, <2>2
<1>4. ASSUME NEW r \in Reqs, NEW actor \in Actors, NEW i \in Ids, BeginCancel(r, actor, i)
      PROVE  TypeInv'
  <2> DEFINE free == actor = "resident" /\ rows[i].status = "pending_approval"
             paid == IF free THEN 0 ELSE Paid(i)
             fee(percent) == IF free \/ actor = "staff" THEN 0 ELSE PercentOf(paid, percent)
             request(percent) == [IdleRequest EXCEPT !.pc = "cancel", !.actor = actor,
                                    !.id = i, !.paid = paid, !.fee = fee(percent)]
  <2>1. PICK percent \in config.tierPercents : req' = [req EXCEPT ![r] = request(percent)]
    BY <1>4 DEF BeginCancel
  <2>2. percent \in 0 .. 100
    BY DEF Config
  <2>3. paid \in Nat
    BY PaidType
  <2>4. fee(percent) \in Nat
    BY <2>2, <2>3, PercentOfType
  <2> HIDE DEF paid, fee
  <2>5. request(percent) \in Request
    BY <2>3, <2>4 DEF Request, PCs
  <2>6. request(percent).pc = "cancel" /\ request(percent).id = i /\ request(percent).actor = actor
    BY DEF IdleRequest
  <2> HIDE DEF request
  <2>7. TypeOK'
    BY <1>4, <2>1, <2>5 DEF BeginCancel, TypeOK
  <2>8. RequestShape'
    BY <1>4, <2>1, <2>6 DEF BeginCancel, TypeOK, RequestShape, Active, ActiveStatuses
  <2> QED
    BY <2>7, <2>8
<1>5. ASSUME NEW r \in Reqs, NEW e \in Events, NEW draft \in Drafts[config.archetype],
             BeginHold(r, e, draft)
      PROVE  TypeInv'
  <2>1. TypeOK'
    BY <1>5 DEF BeginHold, TypeOK, Request, PCs
  <2>2. RequestShape'
    BY <1>5 DEF BeginHold, TypeOK, RequestShape, IdleRequest
  <2> QED
    BY <2>1, <2>2
<1>6. ASSUME NEW r \in Reqs, NEW actor \in Actors, NEW draft \in Drafts[config.archetype],
             AdmitMove(r, actor, draft)
      PROVE  TypeInv'
  <2>1. req[r].id \in Ids /\ rows[req[r].id] # NoRow /\ rows[req[r].id].host \in Contacts
    BY <1>6 DEF AdmitMove, TypeOK, RequestShape, Row
  <2> QED
    BY <1>6, <2>1, AdmitType DEF AdmitMove
<1>7. ASSUME NEW r \in Reqs, NEW actor \in Actors, NEW draft \in Drafts[config.archetype],
             RefuseMove(r, actor, draft)
      PROVE  TypeInv'
  BY <1>7 DEF RefuseMove, Finish, TypeOK, RequestShape, IdleRequest
<1>8. ASSUME NEW r \in Reqs, NEW i \in Ids, InsertNew(r, i)
      PROVE  TypeInv'
  <2>1. req[r].row \in Row
    BY <1>8 DEF InsertNew, RequestShape
  <2>2. ledger' \in [Ids -> Postings]
    BY <1>8, <2>1 DEF InsertNew, TypeOK, Postings, Row
  <2>3. TypeOK'
    BY <1>8, <2>1, <2>2 DEF InsertNew, Finish, TypeOK
  <2>4. RequestShape'
    BY <1>8, <2>1 DEF InsertNew, Finish, TypeOK, RequestShape, IdleRequest
  <2> QED
    BY <2>3, <2>4
<1>9. ASSUME NEW r \in Reqs, NEW i \in Ids, InsertReplacement(r, i)
      PROVE  TypeInv'
  <2> DEFINE old == req[r].id
             diff == req[r].row.quote.total - Paid(old)
  <2>1. req[r].row \in Row /\ old \in Ids /\ rows[old] \in Row /\ i # old
    BY <1>9 DEF InsertReplacement, RequestShape, TypeOK, Request, FreeIds, Row
  <2>2. diff \in Int
    BY <2>1, PaidType DEF Row
  <2>3. ledger' \in [Ids -> Postings]
    BY <1>9, <2>2 DEF InsertReplacement, TypeOK, Postings
  <2>4. [rows[old] EXCEPT !.status = "rescheduled", !.to = i] \in Row
    BY <2>1 DEF Row, Status
  <2>5. rows' = [[rows EXCEPT ![i] = req[r].row]
                    EXCEPT ![old] = [rows[old] EXCEPT !.status = "rescheduled", !.to = i]]
    BY <1>9, <2>1 DEF InsertReplacement, TypeOK
  <2>6. TypeOK'
    BY <1>9, <2>1, <2>3, <2>4, <2>5 DEF InsertReplacement, Finish, TypeOK
  <2>7. \A j \in Ids : rows[j] # NoRow => rows'[j] # NoRow
    BY <2>1, <2>4, <2>5 DEF TypeOK
  <2>8. RequestShape'
    BY <1>9, <2>7, ShapeKept DEF InsertReplacement
  <2> QED
    BY <2>6, <2>8
<1>10. ASSUME NEW i \in Ids, NEW action \in DOMAIN AllowedFrom, NEW status \in Status,
              Transition(i, action, status), ledger' \in [Ids -> Postings]
       PROVE  TypeInv'
  <2>1. rows[i] \in Row
    BY <1>10 DEF Transition, TypeOK, AllowedFrom
  <2>2. [rows[i] EXCEPT !.status = status] \in Row
    BY <2>1 DEF Row
  <2>3. TypeOK'
    BY <1>10, <2>2 DEF Transition, TypeOK
  <2>4. RequestShape'
    BY <1>10, <2>2 DEF Transition, TypeOK, RequestShape
  <2> QED
    BY <2>3, <2>4
<1>11. ASSUME NEW i \in Ids, Approve(i)
       PROVE  TypeInv'
  <2>1. rows[i] \in Row
    BY <1>11 DEF Approve, Transition, TypeOK, AllowedFrom
  <2>2. ledger' \in [Ids -> Postings]
    BY <1>11, <2>1 DEF Approve, TypeOK, Row, Postings
  <2> QED
    BY <1>10, <1>11, <2>2 DEF Approve, AllowedFrom, Status
<1>12. ASSUME NEW i \in Ids, Reject(i)
       PROVE  TypeInv'
  BY <1>10, <1>12 DEF Reject, AllowedFrom, Status, TypeOK
<1>13. ASSUME NEW i \in Ids, CheckIn(i)
       PROVE  TypeInv'
  <2>1. rows[i] \in Row
    BY <1>13 DEF CheckIn, Transition, TypeOK, AllowedFrom
  <2>2. ledger' \in [Ids -> Postings]
    BY <1>13, <2>1 DEF CheckIn, TypeOK, Row, Postings
  <2> QED
    BY <1>10, <1>13, <2>2 DEF CheckIn, AllowedFrom, Status
<1>14. ASSUME NEW i \in Ids, Complete(i)
       PROVE  TypeInv'
  BY <1>10, <1>14 DEF Complete, AllowedFrom, Status, TypeOK
<1>15. ASSUME NEW r \in Reqs, MarkNoShow(r)
       PROVE  TypeInv'
  <2> DEFINE q == req[r]
  <2>1. q.id \in Ids /\ rows[q.id] \in Row /\ q.paid \in Nat
    BY <1>15 DEF MarkNoShow, RequestShape, TypeOK, Request
  <2>2. PercentOf(q.paid, config.noShowPercent) \in Nat
    BY <2>1, PercentOfType DEF Config
  <2>3. ledger' \in [Ids -> Postings]
    BY <1>15, <2>1, <2>2 DEF MarkNoShow, TypeOK, Postings
  <2>4. [rows[q.id] EXCEPT !.status = "no_show"] \in Row
    BY <2>1 DEF Row, Status
  <2>5. TypeOK'
    BY <1>15, <2>1, <2>3, <2>4 DEF MarkNoShow, Finish, TypeOK
  <2>6. RequestShape'
    BY <1>15, <2>4 DEF MarkNoShow, Finish, TypeOK, RequestShape, IdleRequest
  <2> QED
    BY <2>5, <2>6
<1>16. ASSUME NEW r \in Reqs, Cancel(r)
       PROVE  TypeInv'
  <2> DEFINE q == req[r]
  <2>1. q.id \in Ids /\ rows[q.id] \in Row /\ q.paid \in Nat /\ q.fee \in Nat
        /\ q.actor \in ActorTypes
    BY <1>16 DEF Cancel, RequestShape, TypeOK, Request
  <2>2. ledger' \in [Ids -> Postings]
    BY <1>16, <2>1 DEF Cancel, TypeOK, Postings
  <2>3. [rows[q.id] EXCEPT !.status = "cancelled", !.cancelledBy = q.actor] \in Row
    BY <2>1 DEF Row, Status
  <2>4. TypeOK'
    BY <1>16, <2>1, <2>2, <2>3 DEF Cancel, Finish, TypeOK
  <2>5. RequestShape'
    BY <1>16, <2>1, <2>3, ShapeKept DEF Cancel, TypeOK
  <2> QED
    BY <2>4, <2>5
<1>17. ASSUME NEW r \in Reqs, TransitionRefused(r) \/ PlaceHold(r) \/ Abort(r)
       PROVE  TypeInv'
  BY <1>17 DEF TransitionRefused, PlaceHold, Abort, Finish, TypeOK, RequestShape, IdleRequest
<1>18. ASSUME NEW cfg \in Configs, UpdateConfig(cfg)
       PROVE  TypeInv'
  BY <1>18 DEF UpdateConfig, TypeOK, RequestShape
<1>19. ASSUME NEW e \in Events, ReleaseHold(e)
       PROVE  TypeInv'
  BY <1>19 DEF ReleaseHold, TypeOK, RequestShape
<1>20. CASE UNCHANGED vars
  BY <1>20 DEF vars, TypeOK, RequestShape
<1> QED
  BY <1>1, <1>2, <1>3, <1>4, <1>5, <1>6, <1>7, <1>8, <1>9, <1>11, <1>12, <1>13, <1>14,
     <1>15, <1>16, <1>17, <1>18, <1>19, <1>20 DEF Next, Begin, Answer

\* The variables keep their types, whatever the constants: the requests in
\* flight hold what their next step needs, and amounts stay natural numbers.
THEOREM TypeCorrect == Spec => []TypeOK
<1>1. Init => TypeInv
  BY NeutralTypes, Distinct DEF Init, TypeInv, TypeOK, RequestShape, IdleRequest
<1>2. TypeInv /\ [Next]_vars => TypeInv'
  BY TypeStep
<1>3. TypeInv => TypeOK
  BY DEF TypeInv
<1> QED
  BY <1>1, <1>2, <1>3, PTL DEF Spec

-----------------------------------------------------------------------------
(* Steps that admit no draft, lock no row and insert nothing *)

\* Rows keep their identity, a locked row does not change, none becomes active.
QuietRows ==
  \A j \in Ids :
    /\ rows'[j] = NoRow <=> rows[j] = NoRow
    /\ rows'[j].draft = rows[j].draft
    /\ rows'[j].host = rows[j].host
    /\ rows'[j].from = rows[j].from
    /\ rows'[j].to = rows[j].to
    /\ rows'[j].status = "rescheduled" <=> rows[j].status = "rescheduled"
    /\ j \in Active' => j \in Active
    /\ j \in Pool' => j \in Pool
    /\ rowLock[j] # None => rows'[j] = rows[j]

\* A request goes on with its locks, or it no longer moves or inserts anything.
QuietRequests ==
  \A r \in Reqs :
    \/ /\ req'[r] = req[r]
       /\ facilityLock' = r <=> facilityLock = r
       /\ \A j \in Ids : rowLock[j] = r => rowLock'[j] = r
    \/ req'[r].pc \notin {"move", "insert"} /\ facilityLock' # r

Quiet == QuietRows /\ QuietRequests /\ config'.archetype = config.archetype

\* One row changes its status, unlocked and active, to another than "rescheduled".
LEMMA StatusChange ==
  ASSUME TypeOK, NEW i \in Ids, NEW status \in Status \ {"rescheduled"}, NEW by,
         rows[i].status \in ActiveStatuses, Unlocked(i),
         rows' = [rows EXCEPT ![i].status = status]
           \/ rows' = [rows EXCEPT ![i].status = status, ![i].cancelledBy = by]
  PROVE  QuietRows
<1>1. rows[i] \in Row
  BY DEF TypeOK, NoRow, ActiveStatuses
<1>2. /\ rows'[i].status = status
      /\ rows'[i].draft = rows[i].draft
      /\ rows'[i].host = rows[i].host
      /\ rows'[i].from = rows[i].from
      /\ rows'[i].to = rows[i].to
  BY <1>1 DEF TypeOK, Row
<1>3. rows'[i] # NoRow /\ rows[i] # NoRow
  BY <1>1, <1>2, Distinct
<1>4. rows[i].status # "rescheduled" /\ i \in Active /\ i \in Pool
  BY DEF ActiveStatuses, Active, Pool, WeeklyCapCountable
<1>5. \A j \in Ids \ {i} : rows'[j] = rows[j]
  BY DEF TypeOK
<1> QED
  BY <1>2, <1>3, <1>4, <1>5 DEF QuietRows, Active, Pool, Unlocked

\* A request that ends, with whatever locks it held, disturbs no other.
LEMMA EndOfRequest ==
  ASSUME TypeOK, NEW r \in Reqs, Finish(r),
         facilityLock' # r, facilityLock # r => facilityLock' = facilityLock,
         facilityLock = r => facilityLock' = None,
         \A j \in Ids : rowLock[j] # r => rowLock'[j] = rowLock[j]
  PROVE  QuietRequests
<1>1. ASSUME NEW s \in Reqs, s # r
      PROVE  req'[s] = req[s]
  BY <1>1 DEF TypeOK, Finish
<1>2. req'[r].pc = "idle"
  BY DEF TypeOK, Finish, IdleRequest
<1> QED
  BY <1>1, <1>2, Distinct DEF QuietRequests

\* Every step is quiet, or is one of the four that are not.
LEMMA StepKinds ==
  ASSUME TypeInv, LocksHeld, [Next]_vars
  PROVE  \/ Quiet
         \/ \E r \in Reqs, actor \in Actors, host \in Contacts, draft \in Drafts[config.archetype] :
              BeginCreate(r, actor, host, draft)
         \/ \E r \in Reqs, actor \in Actors, draft \in Drafts[config.archetype] :
              AdmitMove(r, actor, draft)
         \/ \E r \in Reqs, i \in Ids : BeginReschedule(r, i)
         \/ \E r \in Reqs, i \in Ids : InsertNew(r, i) \/ InsertReplacement(r, i)
<1> USE DEF TypeInv
<1>1. ASSUME NEW r \in Reqs, NEW i \in Ids, BeginNoShow(r, i)
      PROVE  Quiet
  BY <1>1 DEF BeginNoShow, Quiet, QuietRows, QuietRequests, TypeOK, LocksHeld, Active, Pool
<1>2. ASSUME NEW r \in Reqs, NEW actor \in Actors, NEW i \in Ids, BeginCancel(r, actor, i)
      PROVE  Quiet
  <2>1. req'[r].pc = "cancel" /\ \A s \in Reqs \ {r} : req'[s] = req[s]
    BY <1>2 DEF BeginCancel, TypeOK, IdleRequest
  <2> QED
    BY <1>2, <2>1 DEF BeginCancel, Quiet, QuietRows, QuietRequests, LocksHeld, Active, Pool
<1>3. ASSUME NEW r \in Reqs, NEW e \in Events, NEW draft \in Drafts[config.archetype],
             BeginHold(r, e, draft)
      PROVE  Quiet
  BY <1>3 DEF BeginHold, Quiet, QuietRows, QuietRequests, TypeOK, LocksHeld, Active, Pool, IdleRequest
<1>4. ASSUME NEW r \in Reqs, NEW actor \in Actors, NEW draft \in Drafts[config.archetype],
             RefuseMove(r, actor, draft)
      PROVE  Quiet
  <2>1. QuietRequests
    BY <1>4, EndOfRequest, Distinct DEF RefuseMove, TypeOK, LocksHeld, RequestShape
  <2> QED
    BY <1>4, <2>1 DEF RefuseMove, Quiet, QuietRows, Active, Pool
<1>5. ASSUME NEW r \in Reqs, MarkNoShow(r)
      PROVE  Quiet
  <2>1. req[r].id \in Ids /\ rows[req[r].id].status \in ActiveStatuses /\ facilityLock # r
    BY <1>5 DEF MarkNoShow, RequestShape, AllowedFrom, ActiveStatuses, LocksHeld
  <2>2. QuietRows
    BY <1>5, <2>1, StatusChange DEF MarkNoShow, Status
  <2>3. QuietRequests
    BY <1>5, <2>1, EndOfRequest DEF MarkNoShow
  <2> QED
    BY <1>5, <2>2, <2>3 DEF MarkNoShow, Quiet
<1>6. ASSUME NEW r \in Reqs, Cancel(r)
      PROVE  Quiet
  <2>1. req[r].id \in Ids /\ rows[req[r].id].status \in ActiveStatuses /\ facilityLock # r
    BY <1>6 DEF Cancel, CancelAction, RequestShape, AllowedFrom, ActiveStatuses, LocksHeld
  <2>2. QuietRows
    BY <1>6, <2>1, StatusChange DEF Cancel, Status
  <2>3. QuietRequests
    BY <1>6, <2>1, EndOfRequest DEF Cancel
  <2> QED
    BY <1>6, <2>2, <2>3 DEF Cancel, Quiet
<1>7. ASSUME NEW r \in Reqs, TransitionRefused(r) \/ PlaceHold(r)
      PROVE  Quiet
  <2>1. facilityLock # r
    BY <1>7 DEF TransitionRefused, PlaceHold, LocksHeld
  <2>2. QuietRequests
    BY <1>7, <2>1, EndOfRequest DEF TransitionRefused, PlaceHold
  <2> QED
    BY <1>7, <2>2 DEF TransitionRefused, PlaceHold, Quiet, QuietRows, Active, Pool
<1>8. ASSUME NEW r \in Reqs, Abort(r)
      PROVE  Quiet
  <2>1. QuietRequests
    BY <1>8, EndOfRequest, Distinct DEF Abort, TypeOK
  <2> QED
    BY <1>8, <2>1 DEF Abort, Quiet, QuietRows, Active, Pool
<1>9. ASSUME NEW i \in Ids, Approve(i) \/ Reject(i) \/ CheckIn(i) \/ Complete(i)
      PROVE  Quiet
  <2>1. PICK action \in {"approve", "reject", "check_in", "complete"},
             status \in {"confirmed", "rejected", "checked_in", "completed"} :
               Transition(i, action, status)
    BY <1>9 DEF Approve, Reject, CheckIn, Complete
  <2>2. rows[i].status \in ActiveStatuses /\ status \in Status \ {"rescheduled"}
    BY <2>1 DEF Transition, AllowedFrom, ActiveStatuses, Status
  <2>3. rows' = [rows EXCEPT ![i].status = status] /\ Unlocked(i)
    BY <2>1 DEF Transition
  <2>4. QuietRows
    BY <2>2, <2>3, StatusChange
  <2> QED
    BY <2>1, <2>4 DEF Transition, Quiet, QuietRequests
<1>10. ASSUME NEW cfg \in Configs, UpdateConfig(cfg)
       PROVE  Quiet
  BY <1>10 DEF UpdateConfig, Quiet, QuietRows, QuietRequests, Active, Pool
<1>11. ASSUME NEW e \in Events, ReleaseHold(e)
       PROVE  Quiet
  BY <1>11 DEF ReleaseHold, Quiet, QuietRows, QuietRequests, Active, Pool
<1>12. CASE UNCHANGED vars
  BY <1>12 DEF vars, Quiet, QuietRows, QuietRequests, Active, Pool
<1> QED
  BY <1>1, <1>2, <1>3, <1>4, <1>5, <1>6, <1>7, <1>8, <1>9, <1>10, <1>11, <1>12
     DEF Next, Begin, Answer

-----------------------------------------------------------------------------
(* No double booking *)

\* The engine's overlap rules, as different as they are, forbid every double
\* booking of drafts that run forward, a slot or a duration within one day.
LEMMA ClashesSuffice ==
  ASSUME NEW cfg \in Config, NEW draft \in Draft, NEW booked \in Draft,
         draft.day <= draft.dayEnd, booked.day <= booked.dayEnd,
         cfg.archetype \in {"slot", "duration"} => draft.day = draft.dayEnd,
         ~Clashes(cfg, draft, booked)
  PROVE  ~DoubleBooks(cfg.archetype, draft, booked)
<1> USE DEF Draft, Config, Archetypes
<1>1. ASSUME SameTime(draft, booked), draft.day = draft.dayEnd
      PROVE  BusyAround(draft, booked, cfg.buffer)
  BY <1>1 DEF SameTime, BusyAround, OccupiesOn, Overlaps
<1>2. ASSUME SameTime(draft, booked)
      PROVE  \E day \in draft.day .. draft.dayEnd : OccupiesOn(booked, day)
  <2>1. CASE draft.day <= booked.day
    <3>1. booked.day \in draft.day .. draft.dayEnd /\ OccupiesOn(booked, booked.day)
      BY <1>2, <2>1 DEF SameTime, OccupiesOn
    <3> QED
      BY <3>1
  <2>2. CASE booked.day < draft.day
    <3>1. draft.day \in draft.day .. draft.dayEnd /\ OccupiesOn(booked, draft.day)
      BY <1>2, <2>2 DEF SameTime, OccupiesOn
    <3> QED
      BY <3>1
  <2> QED
    BY <2>1, <2>2
<1>3. CASE cfg.archetype \in {"slot", "duration"}
  BY <1>1, <1>3 DEF Clashes, DoubleBooks
<1>4. CASE cfg.archetype = "day_range"
  BY <1>1, <1>2, <1>4 DEF Clashes, DoubleBooks
<1>5. CASE cfg.archetype = "room"
  BY <1>5 DEF Clashes, DoubleBooks, SameNight
<1>6. CASE cfg.archetype = "tee_time"
  BY <1>6 DEF DoubleBooks
<1> QED
  BY <1>3, <1>4, <1>5, <1>6

\* Which of two bookings was there first does not matter.
LEMMA DoubleBooksSymmetric ==
  ASSUME NEW archetype, NEW v \in Draft, NEW w \in Draft
  PROVE  DoubleBooks(archetype, v, w) <=> DoubleBooks(archetype, w, v)
BY DEF DoubleBooks, SameTime, SameNight, Overlaps, Draft

BookingInv ==
  /\ TypeInv
  /\ LocksHeld
  /\ DraftsForward
  /\ MovedOnce
  /\ SingleDayDrafts => AdmittedClear /\ NoDoubleBooking

\* A quiet step keeps the booking invariant.
LEMMA QuietKeepsBookings ==
  ASSUME BookingInv, TypeInv', Quiet
  PROVE  BookingInv'
<1> USE DEF BookingInv, Quiet, QuietRows
<1>1. ASSUME NEW r \in Reqs, req'[r].pc \in {"move", "insert"}
      PROVE  /\ req'[r] = req[r]
             /\ facilityLock' = r <=> facilityLock = r
             /\ \A j \in Ids : rowLock[j] = r => rowLock'[j] = r
  BY <1>1 DEF QuietRequests
<1>2. ASSUME NEW r \in Reqs, req[r].id # None
      PROVE  req[r].id \in Ids
  BY <1>2 DEF TypeInv, TypeOK, Request
<1>3. LocksHeld'
  <2> SUFFICES ASSUME NEW r \in Reqs
               PROVE  /\ req'[r].pc = "insert" <=> facilityLock' = r
                      /\ req'[r].pc \in {"move", "insert"} /\ req'[r].id # None =>
                           /\ rowLock'[req'[r].id] = r
                           /\ rows'[req'[r].id].status \in AllowedFrom.reschedule
    BY DEF LocksHeld
  <2>1. req'[r].pc = "insert" <=> facilityLock' = r
    BY <1>1 DEF QuietRequests, LocksHeld
  <2>2. ASSUME req'[r].pc \in {"move", "insert"}, req'[r].id # None
        PROVE  /\ rowLock'[req'[r].id] = r
               /\ rows'[req'[r].id].status \in AllowedFrom.reschedule
    BY <1>1, <1>2, <2>2, Distinct DEF LocksHeld
  <2> QED
    BY <2>1, <2>2
<1>4. DraftsForward'
  BY <1>1 DEF DraftsForward, Forward
<1>5. SingleDayDrafts => AdmittedClear'
  BY <1>1 DEF AdmittedClear, Active
<1>6. SingleDayDrafts => NoDoubleBooking'
  BY DEF NoDoubleBooking, Active
<1>7. MovedOnce'
  BY DEF MovedOnce, TypeInv, TypeOK, Row, NoRow
<1> QED
  BY <1>3, <1>4, <1>5, <1>6, <1>7

\* Admission keeps the booking invariant: what the engine let through is clear of
\* every active booking but the one that is moved.
LEMMA AdmitKeepsBookings ==
  ASSUME BookingInv, TypeInv', NEW r \in Reqs, NEW actor \in Actors,
         NEW host \in Contacts, NEW draft \in Drafts[config.archetype],
         NEW moved \in Ids \cup {None}, Admit(r, actor, host, draft, moved),
         req[r].pc \notin {"insert"},
         moved # None => rowLock[moved] = r /\ rows[moved].status \in AllowedFrom.reschedule
  PROVE  BookingInv'
<1> USE DEF BookingInv
<1>1. PICK price \in Prices :
        req' = [req EXCEPT ![r] = [IdleRequest EXCEPT !.pc = "insert", !.id = moved,
                  !.row = NewRow(actor, host, draft, moved, price)]]
  BY DEF Admit
<1>2. NewRow(actor, host, draft, moved, price).draft = draft
  BY InputTypes, NewRowType DEF TypeInv
<1>3. /\ req'[r].pc = "insert" /\ req'[r].id = moved /\ req'[r].row.draft = draft
      /\ \A s \in Reqs \ {r} : req'[s] = req[s]
  BY <1>1, <1>2 DEF TypeInv, TypeOK, IdleRequest
<1>4. /\ rows' = rows /\ rowLock' = rowLock /\ config' = config
      /\ facilityLock = None /\ facilityLock' = r
      /\ Bookable(actor, host, draft, moved)
  BY DEF Admit
<1>5. \A s \in Reqs : req[s].pc # "insert"
  BY <1>4, Distinct DEF LocksHeld
<1>6. LocksHeld'
  BY <1>3, <1>4, <1>5 DEF LocksHeld
<1>7. Forward(draft)
  BY <1>4, ConfigType DEF Bookable, WellFormed, Forward
<1>8. DraftsForward'
  BY <1>3, <1>4, <1>5, <1>7 DEF DraftsForward, Forward
<1>9. ASSUME SingleDayDrafts, NEW j \in Active \ {moved}
      PROVE  ~DoubleBooks(config.archetype, draft, rows[j].draft)
  <2>1. rows[j] # NoRow /\ j \in Ids
    BY <1>9, Distinct DEF Active, ActiveStatuses
  <2>2. Forward(rows[j].draft)
    BY <2>1 DEF DraftsForward
  <2>3. draft \in Draft /\ rows[j].draft \in Draft /\ config \in Config
    BY <2>2, InputTypes, ConfigType, ConstantsAssumption DEF TypeInv, Forward, Config
  <2>4. ~Clashes(config, draft, rows[j].draft)
    BY <1>4, <1>9 DEF Bookable
  <2>5. config.archetype \in {"slot", "duration"} => draft.day = draft.dayEnd
    BY <1>9 DEF SingleDayDrafts
  <2> QED
    BY <1>7, <2>2, <2>3, <2>4, <2>5, ClashesSuffice DEF Forward
<1>10. SingleDayDrafts => AdmittedClear'
  BY <1>3, <1>4, <1>5, <1>9 DEF AdmittedClear, Active
<1>11. (SingleDayDrafts => NoDoubleBooking') /\ MovedOnce'
  BY <1>4 DEF NoDoubleBooking, MovedOnce, Active
<1> QED
  BY <1>6, <1>8, <1>10, <1>11

\* Locking the row to move keeps the booking invariant.
LEMMA BeginRescheduleKeepsBookings ==
  ASSUME BookingInv, TypeInv', NEW r \in Reqs, NEW i \in Ids, BeginReschedule(r, i)
  PROVE  BookingInv'
<1> USE DEF BookingInv
<1>1. /\ req'[r].pc = "move" /\ req'[r].id = i
      /\ \A s \in Reqs \ {r} : req'[s] = req[s]
  BY DEF BeginReschedule, TypeInv, TypeOK, IdleRequest
<1>2. LocksHeld'
  <2>1. \A s \in Reqs : rowLock[i] # s
    BY Distinct DEF BeginReschedule, Unlocked
  <2>2. \A s \in Reqs : req[s].id \in Ids \cup {None}
    BY DEF TypeInv, TypeOK, Request
  <2>3. rowLock'[i] = r /\ \A j \in Ids \ {i} : rowLock'[j] = rowLock[j]
    BY DEF BeginReschedule, TypeInv, TypeOK
  <2>4. ASSUME NEW s \in Reqs \ {r}, req[s].pc \in {"move", "insert"}, req[s].id # None
        PROVE  rowLock'[req[s].id] = s
    BY <2>1, <2>2, <2>3, <2>4 DEF LocksHeld
  <2> QED
    BY <1>1, <2>3, <2>4 DEF BeginReschedule, LocksHeld
<1>3. /\ DraftsForward' /\ MovedOnce'
      /\ SingleDayDrafts => AdmittedClear' /\ NoDoubleBooking'
  BY <1>1 DEF BeginReschedule, DraftsForward, Forward, AdmittedClear, NoDoubleBooking, MovedOnce, Active
<1> QED
  BY <1>2, <1>3

\* Inserting the row that was admitted keeps the booking invariant.
LEMMA InsertNewKeepsBookings ==
  ASSUME BookingInv, TypeInv', NEW r \in Reqs, NEW i \in Ids, InsertNew(r, i)
  PROVE  BookingInv'
<1> USE DEF BookingInv
<1> DEFINE row == req[r].row
<1>1. /\ req'[r].pc = "idle"
      /\ \A s \in Reqs \ {r} : req'[s] = req[s]
      /\ facilityLock = r /\ facilityLock' = None
      /\ rowLock' = rowLock /\ config' = config
  BY DEF InsertNew, Finish, TypeInv, TypeOK, IdleRequest, LocksHeld
<1>2. \A s \in Reqs \ {r} : req[s].pc # "insert"
  BY <1>1 DEF LocksHeld
<1>3. /\ rows'[i] = row /\ \A j \in Ids \ {i} : rows'[j] = rows[j]
      /\ row \in Row /\ row.from = None /\ row.to = None /\ row.status # "rescheduled"
      /\ Forward(row.draft)
  BY DEF InsertNew, TypeInv, TypeOK, RequestShape, DraftsForward
<1>4. rows[i] = NoRow
  <2>1. i \in FreeIds
    BY DEF InsertNew
  <2> QED
    BY <2>1, FreeRow DEF TypeInv
<1>5. LocksHeld'
  <2>1. ASSUME NEW s \in Reqs, req[s].pc \in {"move", "insert"}, req[s].id # None
        PROVE  req[s].id \in Ids \ {i}
    BY <1>4, <2>1, Distinct DEF TypeInv, TypeOK, Request, LocksHeld, AllowedFrom
  <2> QED
    BY <1>1, <1>2, <1>3, <2>1, Distinct DEF LocksHeld
<1>6. DraftsForward'
  BY <1>1, <1>2, <1>3 DEF DraftsForward, Forward
<1>7. SingleDayDrafts => AdmittedClear'
  BY <1>1, <1>2 DEF AdmittedClear
<1>8. ASSUME SingleDayDrafts
      PROVE  NoDoubleBooking'
  <2>1. ASSUME NEW j \in Active'\ {i}
        PROVE  ~DoubleBooks(config.archetype, row.draft, rows[j].draft)
    BY <1>3, <1>8, <2>1, Distinct DEF AdmittedClear, InsertNew, Active
  <2>2. ASSUME NEW j \in Active' \ {i}
        PROVE  rows[j].draft \in Draft /\ row.draft \in Draft
    <3>1. rows[j] # NoRow /\ j \in Ids
      BY <1>3, <2>2, Distinct DEF Active, ActiveStatuses
    <3> QED
      BY <1>3, <3>1, InputTypes, ConfigType, ConstantsAssumption
         DEF DraftsForward, Forward, TypeInv, Config
  <2> QED
    BY <1>1, <1>3, <1>8, <2>1, <2>2, DoubleBooksSymmetric DEF NoDoubleBooking, Active
<1>9. MovedOnce'
  BY <1>3, <1>4, Distinct DEF MovedOnce, NoRow, TypeInv, TypeOK, Row
<1> QED
  BY <1>5, <1>6, <1>7, <1>8, <1>9

\* Replacing a booking keeps the booking invariant: the old row leaves the active
\* ones in the step in which the new one joins them.
LEMMA InsertReplacementKeepsBookings ==
  ASSUME BookingInv, TypeInv', NEW r \in Reqs, NEW i \in Ids, InsertReplacement(r, i)
  PROVE  BookingInv'
<1> USE DEF BookingInv
<1> DEFINE row == req[r].row
           old == req[r].id
<1>1. /\ req'[r].pc = "idle"
      /\ \A s \in Reqs \ {r} : req'[s] = req[s]
      /\ facilityLock = r /\ facilityLock' = None
      /\ config' = config
  BY DEF InsertReplacement, Finish, TypeInv, TypeOK, IdleRequest, LocksHeld
<1>2. \A s \in Reqs \ {r} : req[s].pc # "insert"
  BY <1>1 DEF LocksHeld
<1>3. /\ row \in Row /\ row.from = old /\ row.to = None
      /\ row.status \in {"pending_approval", "confirmed"}
      /\ Forward(row.draft)
      /\ old \in Ids /\ rows[old] \in Row /\ rows[old].status \in AllowedFrom.reschedule
      /\ rowLock[old] = r /\ rowLock' = [rowLock EXCEPT ![old] = None]
  BY DEF InsertReplacement, TypeInv, TypeOK, Request, RequestShape, DraftsForward, LocksHeld
<1>4. rows[i] = NoRow /\ i # old
  <2>1. i \in FreeIds
    BY DEF InsertReplacement
  <2>2. rows[i] = NoRow
    BY <2>1, FreeRow DEF TypeInv
  <2> QED
    BY <1>3, <2>2, Distinct
<1>5. /\ rows'[i] = row
      /\ rows'[old].status = "rescheduled" /\ rows'[old].to = i
      /\ rows'[old].draft = rows[old].draft /\ rows'[old].from = rows[old].from
      /\ \A j \in Ids \ {i, old} : rows'[j] = rows[j]
  BY <1>3, <1>4 DEF InsertReplacement, TypeInv, TypeOK, Row
<1>6. LocksHeld'
  <2>1. ASSUME NEW s \in Reqs \ {r}, req[s].pc \in {"move", "insert"}, req[s].id # None
        PROVE  req[s].id \in Ids \ {i, old}
    <3>1. req[s].id \in Ids /\ rowLock[req[s].id] = s
             /\ rows[req[s].id].status \in AllowedFrom.reschedule
      BY <2>1 DEF TypeInv, TypeOK, Request, LocksHeld
    <3> QED
      BY <1>3, <1>4, <3>1, Distinct DEF AllowedFrom
  <2>2. \A j \in Ids \ {old} : rowLock'[j] = rowLock[j]
    BY <1>3 DEF TypeInv, TypeOK
  <2> QED
    BY <1>1, <1>2, <1>5, <2>1, <2>2, Distinct DEF LocksHeld
<1>7. DraftsForward'
  BY <1>1, <1>2, <1>3, <1>4, <1>5, Distinct DEF DraftsForward, Forward
<1>8. SingleDayDrafts => AdmittedClear'
  BY <1>1, <1>2 DEF AdmittedClear
<1>9. Active' = (Active \ {old}) \cup {i}
  BY <1>3, <1>5 DEF Active, ActiveStatuses
<1>10. ASSUME SingleDayDrafts
       PROVE  NoDoubleBooking'
  <2>1. ASSUME NEW j \in Active \ {old}
        PROVE  /\ ~DoubleBooks(config.archetype, row.draft, rows[j].draft)
               /\ rows[j].draft \in Draft /\ row.draft \in Draft /\ rows'[j] = rows[j]
    <3>1. rows[j] # NoRow /\ j \in Ids /\ j # i
      BY <1>4, <2>1, Distinct DEF Active, ActiveStatuses
    <3>2. rows[j].draft \in Draft /\ row.draft \in Draft
      BY <1>3, <3>1, InputTypes, ConfigType, ConstantsAssumption
         DEF DraftsForward, Forward, TypeInv, Config
    <3> QED
      BY <1>5, <1>10, <2>1, <3>1, <3>2 DEF AdmittedClear, InsertReplacement
  <2> QED
    BY <1>1, <1>5, <1>9, <1>10, <2>1, DoubleBooksSymmetric DEF NoDoubleBooking
<1>11. MovedOnce'
  <2>1. \A j \in Ids : rows[j].to # i /\ rows[j].from # i /\ rows[j].from # old
    BY <1>3, <1>4, Distinct DEF MovedOnce, NoRow, AllowedFrom
  <2>2. row.status # "rescheduled" /\ rows[old].to = None
    BY <1>3 DEF MovedOnce, AllowedFrom
  <2>3. ASSUME NEW j \in Ids \ {i, old}
        PROVE  /\ rows'[j] = rows[j]
               /\ rows[j].to # None => rows'[rows[j].to].from = j
               /\ rows[j].from # None => rows'[rows[j].from].to = j
    <3>1. rows[j].to \in Ids \cup {None} /\ rows[j].from \in Ids \cup {None}
      BY DEF TypeInv, TypeOK, Row, NoRow
    <3> QED
      BY <1>5, <2>1, <3>1, <2>3 DEF MovedOnce
  <2>4. rows[old].from # None => rows'[rows[old].from].to = old
    <3>1. rows[old].from \in Ids \cup {None} /\ rows[old].from # old
      BY <1>3, <2>2, Distinct DEF Row, MovedOnce
    <3> QED
      BY <1>3, <1>5, <2>1, <3>1 DEF MovedOnce
  <2> QED
    BY <1>3, <1>4, <1>5, <2>2, <2>3, <2>4, Distinct DEF MovedOnce
<1> QED
  BY <1>6, <1>7, <1>8, <1>10, <1>11

\* Every step keeps the booking invariant.
LEMMA BookingStep ==
  ASSUME BookingInv, [Next]_vars
  PROVE  BookingInv'
<1>1. TypeInv'
  BY TypeStep DEF BookingInv
<1>2. CASE Quiet
  BY <1>1, <1>2, QuietKeepsBookings
<1>3. ASSUME NEW r \in Reqs, NEW actor \in Actors, NEW host \in Contacts,
             NEW draft \in Drafts[config.archetype], BeginCreate(r, actor, host, draft)
      PROVE  BookingInv'
  BY <1>1, <1>3, AdmitKeepsBookings DEF BeginCreate
<1>4. ASSUME NEW r \in Reqs, NEW actor \in Actors, NEW draft \in Drafts[config.archetype],
             AdmitMove(r, actor, draft)
      PROVE  BookingInv'
  <2>1. req[r].id \in Ids /\ rows[req[r].id].host \in Contacts
    BY <1>4 DEF AdmitMove, BookingInv, TypeInv, TypeOK, RequestShape, Row
  <2>2. rowLock[req[r].id] = r /\ rows[req[r].id].status \in AllowedFrom.reschedule
    BY <1>4, <2>1, Distinct DEF AdmitMove, BookingInv, LocksHeld
  <2> QED
    BY <1>1, <1>4, <2>1, <2>2, AdmitKeepsBookings DEF AdmitMove
<1>5. ASSUME NEW r \in Reqs, NEW i \in Ids, BeginReschedule(r, i)
      PROVE  BookingInv'
  BY <1>1, <1>5, BeginRescheduleKeepsBookings
<1>6. ASSUME NEW r \in Reqs, NEW i \in Ids, InsertNew(r, i) \/ InsertReplacement(r, i)
      PROVE  BookingInv'
  BY <1>1, <1>6, InsertNewKeepsBookings, InsertReplacementKeepsBookings
<1> QED
  BY <1>2, <1>3, <1>4, <1>5, <1>6, StepKinds DEF BookingInv

LEMMA InitBookings == Init => BookingInv
<1> SUFFICES ASSUME Init PROVE BookingInv
  OBVIOUS
<1>1. /\ \A i \in Ids : rows[i] = NoRow
      /\ \A r \in Reqs : req[r].pc = "idle"
      /\ facilityLock = None /\ Active = {}
  BY Distinct DEF Init, IdleRequest, Active, ActiveStatuses
<1>2. TypeInv
  BY NeutralTypes, Distinct DEF Init, TypeInv, TypeOK, RequestShape, IdleRequest
<1>3. MovedOnce
  BY <1>1 DEF MovedOnce, NoRow
<1> QED
  BY <1>1, <1>2, <1>3, Distinct
     DEF BookingInv, LocksHeld, DraftsForward, AdmittedClear, NoDoubleBooking

\* The booking invariant holds of every reachable state.
LEMMA BookingsInvariant == Spec => []BookingInv
<1>1. BookingInv /\ [Next]_vars => BookingInv'
  BY BookingStep
<1> QED
  BY <1>1, InitBookings, PTL DEF Spec

\* No two active reservations ever need the same court, hall or room at the same
\* time, if slot and duration bookings stay within a day: the advisory lock of
\* lock_facility alone guarantees it, whatever transitions, moves, configuration
\* changes and rollbacks interleave.
THEOREM NeverDoubleBooked ==
  ASSUME SingleDayDrafts
  PROVE  Spec => []NoDoubleBooking
BY BookingsInvariant, PTL DEF BookingInv

\* A moved reservation and its replacement name each other, one to one.
THEOREM AlwaysMovedOnce == Spec => []MovedOnce
BY BookingsInvariant, PTL DEF BookingInv

\* A step leaves the reservations that have ended as they are.
LEMMA EndedUntouched ==
  ASSUME BookingInv, [Next]_vars, NEW i \in Ids, rows[i].status \in TerminalStatuses
  PROVE  rows'[i] = rows[i] /\ ledger'[i] = ledger[i]
<1> USE DEF BookingInv, TypeInv, TerminalStatuses
<1>1. i \notin Active /\ rows[i].status # "none" /\ i \notin FreeIds
  BY Distinct DEF Active, FreeIds
<1>2. ASSUME NEW r \in Reqs, NEW j \in Ids, InsertNew(r, j) \/ InsertReplacement(r, j)
      PROVE  rows'[i] = rows[i] /\ ledger'[i] = ledger[i]
  <2>1. j # i
    BY <1>1, <1>2 DEF InsertNew, InsertReplacement
  <2>2. CASE InsertNew(r, j)
    BY <2>1, <2>2 DEF InsertNew, TypeOK
  <2>3. CASE InsertReplacement(r, j)
    <3>1. req[r].id \in Ids /\ req[r].id # i
      BY <2>3 DEF InsertReplacement, TypeOK, Request, LocksHeld, AllowedFrom, ActiveStatuses
    <3> QED
      BY <2>1, <2>3, <3>1 DEF InsertReplacement, TypeOK
  <2> QED
    BY <1>2, <2>2, <2>3
<1>3. ASSUME NEW j \in Ids, Approve(j) \/ Reject(j) \/ CheckIn(j) \/ Complete(j)
      PROVE  rows'[i] = rows[i] /\ ledger'[i] = ledger[i]
  <2>1. j # i
    BY <1>3 DEF Approve, Reject, CheckIn, Complete, Transition, AllowedFrom, ActiveStatuses
  <2> QED
    BY <1>3, <2>1 DEF Approve, Reject, CheckIn, Complete, Transition, TypeOK
<1>4. ASSUME NEW r \in Reqs, MarkNoShow(r) \/ Cancel(r)
      PROVE  rows'[i] = rows[i] /\ ledger'[i] = ledger[i]
  <2>1. req[r].id # i
    BY <1>4 DEF MarkNoShow, Cancel, CancelAction, AllowedFrom, ActiveStatuses
  <2> QED
    BY <1>4, <2>1 DEF MarkNoShow, Cancel, TypeOK
<1>5. CASE UNCHANGED <<rows, ledger>>
  BY <1>5
<1>6. \/ UNCHANGED <<rows, ledger>>
      \/ \E r \in Reqs, j \in Ids : InsertNew(r, j) \/ InsertReplacement(r, j)
      \/ \E j \in Ids : Approve(j) \/ Reject(j) \/ CheckIn(j) \/ Complete(j)
      \/ \E r \in Reqs : MarkNoShow(r) \/ Cancel(r)
  <2>1. ASSUME NEW r \in Reqs, Begin(r)
        PROVE  UNCHANGED <<rows, ledger>>
    BY <2>1 DEF Begin, BeginCreate, Admit, BeginReschedule, BeginNoShow, BeginCancel, BeginHold
  <2>2. ASSUME NEW r \in Reqs, Answer(r)
        PROVE  \/ UNCHANGED <<rows, ledger>>
               \/ \E j \in Ids : InsertNew(r, j) \/ InsertReplacement(r, j)
               \/ MarkNoShow(r) \/ Cancel(r)
    BY <2>2 DEF Answer, AdmitMove, Admit, RefuseMove, TransitionRefused, PlaceHold
  <2> QED
    BY <2>1, <2>2 DEF Next, Abort, UpdateConfig, ReleaseHold, vars
<1> QED
  BY <1>2, <1>3, <1>4, <1>5, <1>6

\* A reservation that has ended is final: row and ledger never change again,
\* although cancellations and no-shows begin with reads that take no lock.
THEOREM EndedStaysFinal == Spec => EndedIsFinal
<1>1. BookingInv /\ [Next]_vars =>
        [\A i \in Ids : rows[i].status \in TerminalStatuses =>
                          rows'[i] = rows[i] /\ ledger'[i] = ledger[i]]_vars
  BY EndedUntouched
<1> QED
  BY <1>1, BookingsInvariant, PTL DEF Spec, EndedIsFinal

-----------------------------------------------------------------------------
(* Insertions *)

\* What a step that inserts a reservation does to the table: the moved row, if any,
\* leaves the active ones, and no other request has a row to insert.
LEMMA InsertFacts ==
  ASSUME BookingInv, NEW r \in Reqs, NEW i \in Ids, InsertNew(r, i) \/ InsertReplacement(r, i)
  PROVE  /\ req[r].pc = "insert" /\ req[r].row \in Row /\ config' = config
         /\ rows[i] = NoRow /\ rows'[i] = req[r].row
         /\ \A s \in Reqs : req'[s].pc # "insert"
         /\ \A j \in Ids \ {i} :
              \/ rows'[j] = rows[j] /\ j # req[r].id
              \/ rows'[j].status = "rescheduled" /\ rows[j] # NoRow
<1> USE DEF BookingInv, TypeInv
<1>1. /\ req[r].pc = "insert" /\ req[r].row \in Row /\ config' = config /\ i \in FreeIds
      /\ Finish(r)
  BY DEF InsertNew, InsertReplacement, RequestShape
<1>2. rows[i] = NoRow
  BY <1>1, FreeRow
<1>3. \A s \in Reqs : req'[s].pc # "insert"
  <2>1. \A s \in Reqs \ {r} : req[s].pc # "insert"
    BY <1>1 DEF LocksHeld
  <2> QED
    BY <1>1, <2>1 DEF Finish, TypeOK, IdleRequest
<1>4. CASE InsertNew(r, i)
  <2>1. rows' = [rows EXCEPT ![i] = req[r].row] /\ req[r].id = None
    BY <1>4 DEF InsertNew
  <2> QED
    BY <1>1, <1>2, <1>3, <2>1, Distinct DEF TypeOK
<1>5. CASE InsertReplacement(r, i)
  <2> DEFINE old == req[r].id
  <2>1. old \in Ids /\ rows[old] \in Row /\ rows[old] # NoRow
    BY <1>1, <1>5 DEF InsertReplacement, RequestShape, TypeOK, Request
  <2>2. rows' = [rows EXCEPT ![i] = req[r].row, ![old].status = "rescheduled", ![old].to = i]
    BY <1>5 DEF InsertReplacement
  <2>3. i # old
    BY <1>2, <2>1
  <2> HIDE DEF old
  <2>4. /\ rows'[i] = req[r].row /\ rows'[old].status = "rescheduled"
        /\ \A j \in Ids \ {i, old} : rows'[j] = rows[j]
    BY <2>1, <2>2, <2>3 DEF TypeOK, Row
  <2> QED
    BY <1>1, <1>2, <1>3, <2>1, <2>4 DEF old
<1> QED
  BY <1>4, <1>5

\* So the other active and countable reservations were that before, unchanged, and the
\* moved one is not among them.
LEMMA OthersStay ==
  ASSUME BookingInv, NEW r \in Reqs, NEW i \in Ids, InsertNew(r, i) \/ InsertReplacement(r, i)
  PROVE  /\ \A j \in Active' \ {i} : j \in Active \ {req[r].id} /\ rows'[j] = rows[j]
         /\ \A j \in Pool' \ {i} : j \in Pool \ {req[r].id} /\ rows'[j] = rows[j]
<1>1. \A j \in Ids \ {i} :
              \/ rows'[j] = rows[j] /\ j # req[r].id
              \/ rows'[j].status = "rescheduled"
  BY InsertFacts
<1>2. "rescheduled" \notin ActiveStatuses /\ "rescheduled" \notin WeeklyCapCountable
  BY DEF ActiveStatuses, WeeklyCapCountable
<1> QED
  BY <1>1, <1>2 DEF Active, Pool

-----------------------------------------------------------------------------
(* Capacity of tee times *)

\* Tee times are booked on one day, and staff do not change their capacity.
OneDayTees == \A draft \in Drafts["tee_time"] : draft.day = draft.dayEnd

OneTeeCapacity ==
  \A c, d \in Configs :
    c.archetype = "tee_time" /\ d.archetype = "tee_time" => c.capacity = d.capacity

\* The capacity is kept at every minute, and the draft admitted under the advisory lock
\* still fits when it is inserted.
TeeFits ==
  config.archetype = "tee_time" =>
    \A day \in Nat, minute \in Nat : Headcount(rows, Teeing(day, minute)) <= config.capacity

AdmittedFits ==
  \A r \in Reqs : req[r].pc = "insert" =>
    ~TeeFull(config, rows, Active \ {req[r].id}, req[r].row.draft)

TeeInv == BookingInv /\ TeeFits /\ AdmittedFits

\* The headcount of fewer reservations with the same drafts is not larger.
LEMMA HeadcountFewer ==
  ASSUME NEW S, IsFiniteSet(S), NEW U \in SUBSET S, NEW book, NEW table,
         \A i \in S : book[i].draft.players \in Nat,
         \A i \in U : table[i].draft = book[i].draft
  PROVE  /\ Headcount(table, U) \in Nat /\ Headcount(book, S) \in Nat
         /\ Headcount(table, U) <= Headcount(book, S)
<1> DEFINE f == [i \in S |-> book[i].draft.players]
           g == [i \in U |-> table[i].draft.players]
<1>1. IsFiniteSet(U)
  BY FS_Subset
<1>2. /\ \A i \in S : f[i] \in Nat
      /\ \A i \in U : g[i] \in Nat /\ g[i] \in Int /\ g[i] = f[i]
  OBVIOUS
<1>3. /\ Headcount(book, S) = SumFunctionOnSet(f, S)
      /\ Headcount(table, U) = SumFunctionOnSet(g, U)
  BY DEF Headcount, SumFunction
<1> HIDE DEF f, g
<1>4. SumFunctionOnSet(g, U) = SumFunctionOnSet(f, U)
  BY <1>1, <1>2, SumSame
<1>5. SumFunctionOnSet(f, U) <= SumFunctionOnSet(f, S)
  BY <1>2, SumFewer
<1>6. SumFunctionOnSet(f, S) \in Nat /\ SumFunctionOnSet(g, U) \in Nat
  BY <1>1, <1>2, SumNatural
<1> QED
  BY <1>3, <1>4, <1>5, <1>6

\* One more reservation adds its players.
LEMMA HeadcountAdds ==
  ASSUME NEW S, IsFiniteSet(S), NEW i \in S, NEW book, \A j \in S : book[j].draft.players \in Nat
  PROVE  Headcount(book, S) = Headcount(book, S \ {i}) + book[i].draft.players
<1> DEFINE f == [j \in S |-> book[j].draft.players]
           g == [j \in S \ {i} |-> book[j].draft.players]
<1>1. IsFiniteSet(S \ {i})
  BY FS_Subset
<1>2. /\ \A j \in S : f[j] \in Int
      /\ \A j \in S \ {i} : f[j] \in Int /\ f[j] = g[j]
      /\ f[i] = book[i].draft.players /\ f[i] \in Int
  OBVIOUS
<1>3. /\ Headcount(book, S) = SumFunctionOnSet(f, S)
      /\ Headcount(book, S \ {i}) = SumFunctionOnSet(g, S \ {i})
  BY DEF Headcount, SumFunction
<1> HIDE DEF f, g
<1>4. SumFunctionOnSet(f, S) = f[i] + SumFunctionOnSet(f, S \ {i})
  BY <1>2, SumTakes
<1>5. SumFunctionOnSet(f, S \ {i}) = SumFunctionOnSet(g, S \ {i})
  BY <1>1, <1>2, SumSame
<1>6. SumFunctionOnSet(f, S \ {i}) \in Int
  BY <1>1, <1>2, SumType
<1> QED
  BY <1>2, <1>3, <1>4, <1>5, <1>6

\* Active reservations are finitely many and have a number of players.
LEMMA ActiveFacts ==
  ASSUME BookingInv
  PROVE  /\ Active \subseteq Ids /\ IsFiniteSet(Active)
         /\ \A i \in Active : rows[i].draft \in Draft /\ Forward(rows[i].draft)
<1>1. Active \subseteq Ids
  BY DEF Active
<1>2. IsFiniteSet(Active)
  BY <1>1, ConstantsAssumption, FS_Subset
<1>3. ASSUME NEW i \in Active
      PROVE  rows[i].draft \in Draft /\ Forward(rows[i].draft)
  <2>1. rows[i] # NoRow
    BY Distinct DEF Active, ActiveStatuses
  <2> QED
    BY <2>1, InputTypes, ConfigType, ConstantsAssumption
       DEF BookingInv, DraftsForward, Forward, TypeInv, Active, Config
<1> QED
  BY <1>1, <1>2, <1>3

\* The capacity of tee times is the same in the next configuration.
LEMMA CapacityStays ==
  ASSUME OneTeeCapacity, TypeOK, TypeOK', config'.archetype = config.archetype,
         config.archetype = "tee_time"
  PROVE  config'.capacity = config.capacity /\ config.capacity \in Nat
<1>1. config \in Configs /\ config' \in Configs
  BY DEF TypeOK
<1>2. config.capacity \in Nat
  BY ConfigType DEF Config
<1> QED
  BY <1>1, <1>2 DEF OneTeeCapacity

\* What a draft would meet among fewer reservations with the same drafts.
LEMMA FullForFewer ==
  ASSUME NEW S, IsFiniteSet(S), NEW U \in SUBSET S, NEW book, NEW table, NEW draft \in Draft,
         NEW cfg, NEW next, cfg.archetype = next.archetype,
         cfg.archetype = "tee_time" => cfg.capacity = next.capacity /\ cfg.capacity \in Nat,
         \A i \in S : book[i].draft \in Draft,
         \A i \in U : table[i].draft = book[i].draft,
         ~TeeFull(cfg, book, S, draft)
  PROVE  ~TeeFull(next, table, U, draft)
<1> DEFINE Met(rs, ids) == {i \in ids : /\ OccupiesOn(rs[i].draft, draft.day)
                                        /\ Overlaps(draft.from, draft.to,
                                                    rs[i].draft.from, rs[i].draft.to)}
<1>1. /\ TeeTaken(book, S, draft) = Headcount(book, Met(book, S))
      /\ TeeTaken(table, U, draft) = Headcount(table, Met(table, U))
  BY DEF TeeTaken
<1>2. Met(table, U) \in SUBSET Met(book, S) /\ Met(book, S) \subseteq S
  OBVIOUS
<1>3. IsFiniteSet(Met(book, S))
  BY <1>2, FS_Subset
<1>4. /\ \A i \in Met(book, S) : book[i].draft.players \in Nat
      /\ \A i \in Met(table, U) : table[i].draft = book[i].draft
      /\ draft.players \in Nat
  BY <1>2 DEF Draft
<1> HIDE DEF Met
<1>5. /\ TeeTaken(table, U, draft) \in Nat /\ TeeTaken(book, S, draft) \in Nat
      /\ TeeTaken(table, U, draft) <= TeeTaken(book, S, draft)
  BY <1>1, <1>2, <1>3, <1>4, HeadcountFewer
<1> QED
  BY <1>4, <1>5 DEF TeeFull

LEMMA QuietKeepsTees ==
  ASSUME OneTeeCapacity, TeeInv, BookingInv', Quiet
  PROVE  TeeInv'
<1>1. /\ BookingInv /\ TypeOK /\ TypeOK' /\ config'.archetype = config.archetype
      /\ Active' \subseteq Active
      /\ \A j \in Ids : rows'[j].draft = rows[j].draft
  BY DEF TeeInv, BookingInv, TypeInv, Quiet, QuietRows, Active
<1>2. config.archetype = "tee_time" =>
        config'.capacity = config.capacity /\ config.capacity \in Nat
  BY <1>1, CapacityStays
<1>3. Active \subseteq Ids /\ IsFiniteSet(Active) /\ \A i \in Active : rows[i].draft \in Draft
  BY <1>1, ActiveFacts
<1>4. TeeFits'
  <2> SUFFICES ASSUME config'.archetype = "tee_time", NEW day \in Nat, NEW minute \in Nat
               PROVE  Headcount(rows', Teeing(day, minute)') <= config'.capacity
    BY DEF TeeFits
  <2>1. Teeing(day, minute)' \in SUBSET Teeing(day, minute) /\ Teeing(day, minute) \in SUBSET Active
    BY <1>1, <1>3 DEF Teeing
  <2>2. IsFiniteSet(Teeing(day, minute))
    BY <1>3, <2>1, FS_Subset
  <2>3. /\ \A i \in Teeing(day, minute) : rows[i].draft.players \in Nat
        /\ \A i \in Teeing(day, minute)' : rows'[i].draft = rows[i].draft
    BY <1>1, <1>3, <2>1 DEF Draft
  <2>4. /\ Headcount(rows', Teeing(day, minute)') \in Nat /\ Headcount(rows, Teeing(day, minute)) \in Nat
        /\ Headcount(rows', Teeing(day, minute)') <= Headcount(rows, Teeing(day, minute))
    BY <2>1, <2>2, <2>3, HeadcountFewer
  <2>5. Headcount(rows, Teeing(day, minute)) <= config.capacity
    BY <1>1 DEF TeeInv, TeeFits
  <2> QED
    BY <1>1, <1>2, <2>4, <2>5
<1>5. AdmittedFits'
  <2> SUFFICES ASSUME NEW r \in Reqs, req'[r].pc = "insert"
               PROVE  ~TeeFull(config', rows', Active' \ {req'[r].id}, req'[r].row.draft)
    BY DEF AdmittedFits
  <2>1. req'[r] = req[r]
    BY DEF Quiet, QuietRequests
  <2>2. ~TeeFull(config, rows, Active \ {req[r].id}, req[r].row.draft)
    BY <2>1 DEF TeeInv, AdmittedFits
  <2>3. req[r].row.draft \in Draft
    BY <1>1, <2>1, InputTypes, ConfigType, ConstantsAssumption
       DEF BookingInv, DraftsForward, Forward, Config
  <2>4. /\ IsFiniteSet(Active \ {req[r].id}) /\ Active' \ {req[r].id} \in SUBSET (Active \ {req[r].id})
    BY <1>1, <1>3, FS_RemoveElement
  <2>5. /\ \A i \in Active \ {req[r].id} : rows[i].draft \in Draft
        /\ \A i \in Active' \ {req[r].id} : rows'[i].draft = rows[i].draft
    BY <1>1, <1>3
  <2>6. ~TeeFull(config', rows', Active' \ {req[r].id}, req[r].row.draft)
    BY <1>1, <1>2, <2>2, <2>3, <2>4, <2>5, FullForFewer
  <2> QED
    BY <2>1, <2>6
<1> QED
  BY <1>4, <1>5 DEF TeeInv

\* Steps that leave the table and the configuration alone, and admit what fits.
LEMMA AdmitKeepsTees ==
  ASSUME TeeInv, BookingInv', rows' = rows, config' = config,
         \A s \in Reqs : req'[s].pc = "insert" =>
           \/ req'[s] = req[s]
           \/ ~TeeFull(config, rows, Active \ {req'[s].id}, req'[s].row.draft)
  PROVE  TeeInv'
<1>1. Active' = Active /\ \A day, minute : Teeing(day, minute)' = Teeing(day, minute)
  BY DEF Active, Teeing
<1>2. TeeFits'
  BY <1>1 DEF TeeInv, TeeFits
<1>3. AdmittedFits'
  BY <1>1 DEF TeeInv, AdmittedFits
<1> QED
  BY <1>2, <1>3 DEF TeeInv

\* What is inserted was admitted next to the same reservations, or more.
LEMMA InsertKeepsTees ==
  ASSUME OneDayTees, TeeInv, BookingInv', NEW r \in Reqs, NEW i \in Ids,
         InsertNew(r, i) \/ InsertReplacement(r, i)
  PROVE  TeeInv'
<1> DEFINE draft == req[r].row.draft
<1>1. /\ BookingInv /\ req[r].pc = "insert" /\ config' = config /\ rows'[i] = req[r].row
      /\ \A s \in Reqs : req'[s].pc # "insert"
      /\ \A j \in Active' \ {i} : j \in Active \ {req[r].id} /\ rows'[j] = rows[j]
  BY InsertFacts, OthersStay DEF TeeInv
<1>2. Forward(draft) /\ draft \in Draft /\ config \in Config
  BY <1>1, InputTypes, ConfigType, ConstantsAssumption DEF BookingInv, TypeInv, DraftsForward, Forward, Config
<1>3. /\ Active \subseteq Ids /\ IsFiniteSet(Active) /\ \A j \in Active : rows[j].draft \in Draft
  BY <1>1, ActiveFacts
<1>4. AdmittedFits'
  BY <1>1 DEF AdmittedFits
<1>5. TeeFits'
  <2> SUFFICES ASSUME config.archetype = "tee_time", NEW day \in Nat, NEW minute \in Nat
               PROVE  Headcount(rows', Teeing(day, minute)') <= config.capacity
    BY <1>1 DEF TeeFits
  <2> DEFINE there == Teeing(day, minute)'
  <2>1. /\ there \subseteq Active' /\ there \ {i} \subseteq Active \ {req[r].id}
        /\ \A j \in there \ {i} : rows'[j] = rows[j] /\ rows[j].draft \in Draft
        /\ \A j \in there : /\ OccupiesOn(rows'[j].draft, day)
                            /\ rows'[j].draft.from <= minute /\ minute < rows'[j].draft.to
    BY <1>1, <1>3 DEF Teeing
  <2>2. IsFiniteSet(there \ {i}) /\ IsFiniteSet(there)
    <3>1. there \ {i} \in SUBSET Active
      BY <2>1
    <3>2. IsFiniteSet(there \ {i})
      BY <1>3, <3>1, FS_Subset
    <3>3. there \subseteq (there \ {i}) \cup {i} /\ IsFiniteSet((there \ {i}) \cup {i})
      BY <3>2, FS_AddElement
    <3> QED
      BY <3>2, <3>3, FS_Subset
  <2>3. config.capacity \in Nat /\ draft.players \in Nat
    BY <1>2 DEF Config, Draft
  <2> HIDE DEF there, draft
  <2>4. CASE i \in there
    <3> DEFINE met == {j \in Active \ {req[r].id} :
                         /\ OccupiesOn(rows[j].draft, draft.day)
                         /\ Overlaps(draft.from, draft.to, rows[j].draft.from, rows[j].draft.to)}
    <3>1. rows'[i].draft = draft
      BY <1>1 DEF draft
    <3>2. draft.day = day
      <4>1. draft.day = draft.dayEnd
        BY <1>2 DEF OneDayTees, Forward
      <4> QED
        BY <1>2, <2>1, <2>4, <3>1, <4>1 DEF OccupiesOn, Draft
    <3>3. there \ {i} \in SUBSET met
      <4> SUFFICES ASSUME NEW j \in there \ {i}
                   PROVE  j \in met
        OBVIOUS
      <4>1. /\ j \in Active \ {req[r].id} /\ rows[j].draft \in Draft
            /\ OccupiesOn(rows[j].draft, draft.day)
            /\ rows[j].draft.from <= minute /\ minute < rows[j].draft.to
            /\ draft.from <= minute /\ minute < draft.to
        BY <2>1, <2>4, <3>1, <3>2
      <4>2. Overlaps(draft.from, draft.to, rows[j].draft.from, rows[j].draft.to)
        BY <1>2, <4>1 DEF Overlaps, Draft
      <4> QED
        BY <4>1, <4>2
    <3>4. IsFiniteSet(met) /\ \A j \in met : rows[j].draft.players \in Nat
      <4>1. met \in SUBSET Active
        OBVIOUS
      <4> QED
        BY <1>3, <4>1, FS_Subset DEF Draft
    <3>5. TeeTaken(rows, Active \ {req[r].id}, draft) = Headcount(rows, met)
      BY DEF TeeTaken
    <3>6. Headcount(rows, met) + draft.players <= config.capacity
      <4>1. Headcount(rows, met) \in Nat
        BY <3>3, <3>4, HeadcountFewer
      <4>2. ~(Headcount(rows, met) + draft.players > config.capacity)
        BY <1>1, <3>5 DEF TeeInv, AdmittedFits, TeeFull, draft
      <4> QED
        BY <2>3, <4>1, <4>2
    <3> HIDE DEF met
    <3>7. \A j \in there \ {i} : rows'[j].draft = rows[j].draft
      BY <2>1
    <3>8. /\ Headcount(rows', there \ {i}) \in Nat /\ Headcount(rows, met) \in Nat
          /\ Headcount(rows', there \ {i}) <= Headcount(rows, met)
      BY <3>3, <3>4, <3>7, HeadcountFewer
    <3>9. \A j \in there : rows'[j].draft.players \in Nat
      BY <2>1, <2>3, <3>1 DEF Draft
    <3>10. Headcount(rows', there) = Headcount(rows', there \ {i}) + draft.players
      BY <2>2, <2>4, <3>1, <3>9, HeadcountAdds
    <3> QED
      BY <2>3, <3>6, <3>8, <3>10 DEF there
  <2>5. CASE i \notin there
    <3>1. there \in SUBSET Teeing(day, minute) /\ Teeing(day, minute) \in SUBSET Active
      BY <2>1, <2>5 DEF Teeing
    <3>2. IsFiniteSet(Teeing(day, minute)) /\ \A j \in Teeing(day, minute) : rows[j].draft.players \in Nat
      BY <1>3, <3>1, FS_Subset DEF Draft
    <3>3. \A j \in there : rows'[j].draft = rows[j].draft
      BY <2>1, <2>5
    <3>4. /\ Headcount(rows', there) \in Nat /\ Headcount(rows, Teeing(day, minute)) \in Nat
          /\ Headcount(rows', there) <= Headcount(rows, Teeing(day, minute))
      BY <3>1, <3>2, <3>3, HeadcountFewer
    <3>5. Headcount(rows, Teeing(day, minute)) <= config.capacity
      BY DEF TeeInv, TeeFits
    <3> QED
      BY <2>3, <3>4, <3>5 DEF there
  <2> QED
    BY <2>4, <2>5
<1> QED
  BY <1>4, <1>5 DEF TeeInv

LEMMA TeeStep ==
  ASSUME OneDayTees, OneTeeCapacity, TeeInv, [Next]_vars
  PROVE  TeeInv'
<1>1. BookingInv /\ TypeInv /\ LocksHeld /\ BookingInv'
  BY BookingStep DEF TeeInv, BookingInv
<1>2. CASE Quiet
  BY <1>1, <1>2, QuietKeepsTees
<1>3. ASSUME NEW r \in Reqs, NEW actor, NEW host, NEW draft, NEW moved,
             Admit(r, actor, host, draft, moved), actor \in ActorTypes, host \in Contacts,
             draft \in AllDrafts, moved \in Ids \cup {None}
      PROVE  TeeInv'
  <2>1. PICK price \in Prices :
          req' = [req EXCEPT ![r] = [IdleRequest EXCEPT !.pc = "insert", !.id = moved,
                    !.row = NewRow(actor, host, draft, moved, price)]]
    BY <1>3 DEF Admit
  <2>2. NewRow(actor, host, draft, moved, price).draft = draft
    BY <1>1, <1>3, InputTypes, NewRowType DEF TypeInv
  <2>3. /\ req'[r].id = moved /\ req'[r].row.draft = draft
        /\ \A s \in Reqs \ {r} : req'[s] = req[s]
    BY <1>1, <2>1, <2>2 DEF TypeInv, TypeOK, IdleRequest
  <2>4. rows' = rows /\ config' = config /\ ~TeeFull(config, rows, Active \ {moved}, draft)
    BY <1>3 DEF Admit, Bookable
  <2>5. \A s \in Reqs : req'[s].pc = "insert" =>
          \/ req'[s] = req[s]
          \/ ~TeeFull(config, rows, Active \ {req'[s].id}, req'[s].row.draft)
    BY <2>3, <2>4
  <2> QED
    BY <1>1, <2>4, <2>5, AdmitKeepsTees
<1>4. ASSUME NEW r \in Reqs, NEW actor \in Actors, NEW host \in Contacts,
             NEW draft \in Drafts[config.archetype], BeginCreate(r, actor, host, draft)
      PROVE  TeeInv'
  BY <1>1, <1>3, <1>4, InputTypes DEF BeginCreate, TypeInv
<1>5. ASSUME NEW r \in Reqs, NEW actor \in Actors, NEW draft \in Drafts[config.archetype],
             AdmitMove(r, actor, draft)
      PROVE  TeeInv'
  <2>1. req[r].id \in Ids /\ rows[req[r].id].host \in Contacts
    BY <1>1, <1>5 DEF AdmitMove, TypeInv, TypeOK, RequestShape, Row
  <2> QED
    BY <1>1, <1>3, <1>5, <2>1, InputTypes DEF AdmitMove, TypeInv
<1>6. ASSUME NEW r \in Reqs, NEW i \in Ids, BeginReschedule(r, i)
      PROVE  TeeInv'
  <2>1. /\ rows' = rows /\ config' = config /\ req'[r].pc = "move"
        /\ \A s \in Reqs \ {r} : req'[s] = req[s]
    BY <1>1, <1>6 DEF BeginReschedule, TypeInv, TypeOK, IdleRequest
  <2>2. \A s \in Reqs : req'[s].pc = "insert" => req'[s] = req[s]
    BY <2>1
  <2> QED
    BY <1>1, <2>1, <2>2, AdmitKeepsTees
<1>7. ASSUME NEW r \in Reqs, NEW i \in Ids, InsertNew(r, i) \/ InsertReplacement(r, i)
      PROVE  TeeInv'
  BY <1>1, <1>7, InsertKeepsTees
<1> QED
  BY <1>1, <1>2, <1>4, <1>5, <1>6, <1>7, StepKinds

\* The players at a tee time never exceed its capacity, if staff do not change the
\* capacity and tee times are booked on one day: _validate_tee is asked under the
\* advisory lock, and nothing but an insertion adds players.
THEOREM TeeTimesNeverOverfull ==
  ASSUME OneDayTees, OneTeeCapacity
  PROVE  Spec => []TeeCapacity
<1>1. Init => TeeInv
  <2> SUFFICES ASSUME Init PROVE TeeInv
    OBVIOUS
  <2>1. /\ Active = {} /\ \A r \in Reqs : req[r].pc = "idle"
    BY Distinct DEF Init, IdleRequest, Active, ActiveStatuses
  <2>2. BookingInv
    BY InitBookings
  <2>3. TeeFits
    <3> SUFFICES ASSUME NEW day \in Nat, NEW minute \in Nat
                 PROVE  Headcount(rows, Teeing(day, minute)) <= config.capacity
      BY DEF TeeFits
    <3>1. Teeing(day, minute) = {}
      BY <2>1 DEF Teeing
    <3>2. Headcount(rows, {}) = 0
      BY SumEmpty DEF Headcount, SumFunction
    <3>3. config.capacity \in Nat
      BY <2>2, ConfigType DEF BookingInv, TypeInv, Config
    <3> QED
      BY <3>1, <3>2, <3>3
  <2> QED
    BY <2>1, <2>2, <2>3 DEF TeeInv, AdmittedFits
<1>2. TeeInv /\ [Next]_vars => TeeInv'
  BY TeeStep
<1>3. TeeInv => TeeCapacity
  <2> SUFFICES ASSUME TeeInv, config.archetype = "tee_time", NEW b \in Active,
                      NEW day \in rows[b].draft.day .. rows[b].draft.dayEnd
               PROVE  Headcount(rows, Teeing(day, rows[b].draft.from)) <= config.capacity
    BY DEF TeeCapacity
  <2>1. rows[b].draft \in Draft
    BY ActiveFacts DEF TeeInv
  <2>2. day \in Nat /\ rows[b].draft.from \in Nat
    BY <2>1 DEF Draft
  <2> QED
    BY <2>2 DEF TeeInv, TeeFits
<1> QED
  BY <1>1, <1>2, <1>3, PTL DEF Spec

-----------------------------------------------------------------------------
(* The weekly cap *)

\* Staff choose among finitely many caps.
FinitelyManyCaps == IsFiniteSet({c.weeklyCap : c \in Configs})

\* A resident's draft admitted under the advisory lock leaves its host below the highest
\* cap, itself counted, until it is inserted.
AdmittedWithinCap ==
  \A r \in Reqs :
    req[r].pc = "insert" /\ req[r].row.bookedBy = "resident" /\ 0 \notin CapsInUse =>
      WeeklyUsage(rows, Pool \ {req[r].id}, req[r].row.host, req[r].row.draft.day) + 1 < Max(CapsInUse)

CapInv == BookingInv /\ AdmittedWithinCap

\* The caps in use have a largest one, and the cap in force is among them.
LEMMA CapsFacts ==
  ASSUME FinitelyManyCaps, TypeOK
  PROVE  /\ config.weeklyCap \in CapsInUse /\ Max(CapsInUse) \in Nat
         /\ \A cap \in CapsInUse : cap \in Nat /\ cap <= Max(CapsInUse)
<1> DEFINE all == {c.weeklyCap : c \in Configs}
<1>1. config.weeklyCap \in CapsInUse /\ CapsInUse \in SUBSET all /\ all \subseteq Nat
  BY ConstantsAssumption DEF TypeOK, CapsInUse, Config
<1>2. IsFiniteSet(CapsInUse)
  BY <1>1, FS_Subset DEF FinitelyManyCaps
<1> HIDE DEF all
<1>3. PICK caps : caps = CapsInUse
  OBVIOUS
<1>4. \E x \in caps : \A y \in caps : x >= y
  <2>1. IsFiniteSet(caps) /\ caps \subseteq Int /\ caps # {}
    BY <1>1, <1>2, <1>3
  <2> QED
    BY <2>1, LargestExists
<1>5. Max(caps) \in caps /\ \A y \in caps : Max(caps) >= y
  BY <1>4 DEF Max
<1> QED
  BY <1>1, <1>3, <1>5

\* A host's bookings of a week among fewer reservations with the same hosts and drafts.
LEMMA UsageFewer ==
  ASSUME NEW S, IsFiniteSet(S), NEW U \in SUBSET S, NEW book, NEW table, NEW contact, NEW day,
         \A i \in U : table[i].draft = book[i].draft /\ table[i].host = book[i].host
  PROVE  /\ WeeklyUsage(table, U, contact, day) \in Nat /\ WeeklyUsage(book, S, contact, day) \in Nat
         /\ WeeklyUsage(table, U, contact, day) <= WeeklyUsage(book, S, contact, day)
<1> DEFINE Counted(rs, ids) == {i \in ids : /\ Week(rs[i].draft.day) = Week(day)
                                            /\ contact = rs[i].host \/ contact \in rs[i].draft.mates}
<1>1. /\ WeeklyUsage(table, U, contact, day) = Cardinality(Counted(table, U))
      /\ WeeklyUsage(book, S, contact, day) = Cardinality(Counted(book, S))
  BY DEF WeeklyUsage
<1>2. Counted(table, U) \in SUBSET Counted(book, S) /\ Counted(book, S) \in SUBSET S
  OBVIOUS
<1> HIDE DEF Counted
<1>3. IsFiniteSet(Counted(book, S)) /\ IsFiniteSet(Counted(table, U))
  BY <1>2, FS_Subset
<1> QED
  BY <1>1, <1>2, <1>3, FS_Subset, FS_CardinalityType

\* One more reservation counts once at most.
LEMMA UsageAdds ==
  ASSUME NEW S, IsFiniteSet(S), NEW i, NEW book, NEW contact, NEW day
  PROVE  WeeklyUsage(book, S, contact, day) <= WeeklyUsage(book, S \ {i}, contact, day) + 1
<1> DEFINE Counted(ids) == {j \in ids : /\ Week(book[j].draft.day) = Week(day)
                                        /\ contact = book[j].host \/ contact \in book[j].draft.mates}
<1>1. /\ WeeklyUsage(book, S, contact, day) = Cardinality(Counted(S))
      /\ WeeklyUsage(book, S \ {i}, contact, day) = Cardinality(Counted(S \ {i}))
  BY DEF WeeklyUsage
<1>2. Counted(S) \in SUBSET (Counted(S \ {i}) \cup {i}) /\ Counted(S \ {i}) \in SUBSET S
  OBVIOUS
<1> HIDE DEF Counted
<1>3. IsFiniteSet(Counted(S \ {i}))
  BY <1>2, FS_Subset
<1>4. /\ IsFiniteSet(Counted(S \ {i}) \cup {i})
      /\ Cardinality(Counted(S \ {i})) \in Nat
      /\ Cardinality(Counted(S \ {i}) \cup {i}) <= Cardinality(Counted(S \ {i})) + 1
  <2> DEFINE fewer == Counted(S \ {i})
  <2>1. IsFiniteSet(fewer)
    BY <1>3
  <2> HIDE DEF fewer
  <2>2. /\ IsFiniteSet(fewer \cup {i})
        /\ \/ Cardinality(fewer \cup {i}) = Cardinality(fewer)
           \/ Cardinality(fewer \cup {i}) = Cardinality(fewer) + 1
    BY <2>1, FS_AddElement
  <2>3. Cardinality(fewer) \in Nat
    BY <2>1, FS_CardinalityType
  <2>4. Cardinality(fewer \cup {i}) <= Cardinality(fewer) + 1
    BY <2>2, <2>3
  <2> QED
    BY <2>2, <2>3, <2>4 DEF fewer
<1>5. /\ Cardinality(Counted(S)) <= Cardinality(Counted(S \ {i}) \cup {i})
      /\ Cardinality(Counted(S)) \in Nat /\ Cardinality(Counted(S \ {i}) \cup {i}) \in Nat
  BY <1>2, <1>4, FS_Subset, FS_CardinalityType
<1> QED
  BY <1>1, <1>4, <1>5

LEMMA PoolFinite == Pool \subseteq Ids /\ IsFiniteSet(Pool) /\ \A x : IsFiniteSet(Pool \ {x})
<1>1. Pool \subseteq Ids
  BY DEF Pool
<1> QED
  BY <1>1, ConstantsAssumption, FS_Subset, FS_RemoveElement

\* The step that inserts a resident's booking, and the bound it meets.
LEMMA InsertWithinCap ==
  ASSUME FinitelyManyCaps, CapInv, NEW r \in Reqs, NEW i \in Ids,
         InsertNew(r, i) \/ InsertReplacement(r, i),
         req[r].row.bookedBy = "resident", 0 \notin CapsInUse
  PROVE  WeeklyUsage(rows', Pool', req[r].row.host, req[r].row.draft.day) < Max(CapsInUse)
<1> DEFINE old == Pool \ {req[r].id}
           next == Pool'
<1>1. PICK host, day : host = req[r].row.host /\ day = req[r].row.draft.day
  OBVIOUS
<1>2. /\ req[r].pc = "insert" /\ \A j \in next \ {i} : j \in old /\ rows'[j] = rows[j]
  BY InsertFacts, OthersStay DEF CapInv
<1>3. WeeklyUsage(rows, old, host, day) + 1 < Max(CapsInUse)
  BY <1>1, <1>2 DEF CapInv, AdmittedWithinCap
<1>4. IsFiniteSet(old) /\ next \subseteq Ids /\ next \ {i} \in SUBSET old
  BY <1>2, PoolFinite DEF Pool
<1>5. IsFiniteSet(next)
  BY <1>4, ConstantsAssumption, FS_Subset
<1>6. \A j \in next \ {i} : rows'[j].draft = rows[j].draft /\ rows'[j].host = rows[j].host
  BY <1>2
<1> HIDE DEF old, next
<1>7. /\ WeeklyUsage(rows', next \ {i}, host, day) \in Nat /\ WeeklyUsage(rows, old, host, day) \in Nat
      /\ WeeklyUsage(rows', next \ {i}, host, day) <= WeeklyUsage(rows, old, host, day)
  BY <1>4, <1>6, UsageFewer
<1>8. WeeklyUsage(rows', next, host, day) <= WeeklyUsage(rows', next \ {i}, host, day) + 1
  BY <1>5, UsageAdds
<1>9. WeeklyUsage(rows', next, host, day) \in Nat
  BY <1>5, UsageFewer
<1>10. Max(CapsInUse) \in Nat
  BY CapsFacts DEF CapInv, BookingInv, TypeInv
<1> QED
  BY <1>1, <1>3, <1>7, <1>8, <1>9, <1>10 DEF next

LEMMA QuietKeepsCap ==
  ASSUME FinitelyManyCaps, CapInv, BookingInv', Quiet
  PROVE  CapInv'
<1> SUFFICES ASSUME NEW r \in Reqs, req'[r].pc = "insert", req'[r].row.bookedBy = "resident",
                    0 \notin CapsInUse'
             PROVE  WeeklyUsage(rows', Pool' \ {req'[r].id}, req'[r].row.host, req'[r].row.draft.day)
                      + 1 < Max(CapsInUse')
  BY DEF CapInv, AdmittedWithinCap
<1>1. req'[r] = req[r] /\ CapsInUse' = CapsInUse
  BY DEF Quiet, QuietRequests, CapsInUse
<1> DEFINE old == Pool \ {req[r].id}
           next == Pool' \ {req[r].id}
<1>2. PICK host, day : host = req[r].row.host /\ day = req[r].row.draft.day
  OBVIOUS
<1>3. WeeklyUsage(rows, old, host, day) + 1 < Max(CapsInUse)
  BY <1>1, <1>2 DEF CapInv, AdmittedWithinCap
<1>4. /\ IsFiniteSet(old) /\ next \in SUBSET old
      /\ \A j \in next : rows'[j].draft = rows[j].draft /\ rows'[j].host = rows[j].host
  BY PoolFinite DEF Quiet, QuietRows, Pool
<1> HIDE DEF old, next
<1>5. /\ WeeklyUsage(rows', next, host, day) \in Nat /\ WeeklyUsage(rows, old, host, day) \in Nat
      /\ WeeklyUsage(rows', next, host, day) <= WeeklyUsage(rows, old, host, day)
  BY <1>4, UsageFewer
<1>6. Max(CapsInUse) \in Nat
  BY CapsFacts DEF CapInv, BookingInv, TypeInv
<1>7. WeeklyUsage(rows', next, host, day) + 1 < Max(CapsInUse)
  BY <1>3, <1>5, <1>6
<1> QED
  BY <1>1, <1>2, <1>7 DEF next

\* A resident's draft is admitted below the cap in force, so below the highest.
LEMMA AdmitWithinCap ==
  ASSUME FinitelyManyCaps, CapInv, BookingInv', NEW r \in Reqs, NEW actor \in ActorTypes,
         NEW host \in Contacts, NEW draft \in AllDrafts, NEW moved \in Ids \cup {None},
         Admit(r, actor, host, draft, moved)
  PROVE  CapInv'
<1>1. TypeOK /\ BookingInv
  BY DEF CapInv, BookingInv, TypeInv
<1>2. PICK price \in Prices :
        req' = [req EXCEPT ![r] = [IdleRequest EXCEPT !.pc = "insert", !.id = moved,
                  !.row = NewRow(actor, host, draft, moved, price)]]
  BY DEF Admit
<1>3. /\ NewRow(actor, host, draft, moved, price).draft = draft
      /\ NewRow(actor, host, draft, moved, price).host = host
      /\ NewRow(actor, host, draft, moved, price).bookedBy = actor
  BY DEF NewRow, NoRow
<1>4. /\ req'[r].id = moved /\ req'[r].row.draft = draft /\ req'[r].row.host = host
      /\ req'[r].row.bookedBy = actor
      /\ \A s \in Reqs \ {r} : req'[s] = req[s]
  BY <1>1, <1>2, <1>3 DEF TypeOK, IdleRequest
<1>5. /\ rows' = rows /\ config' = config /\ Pool' = Pool /\ CapsInUse' = CapsInUse
      /\ actor = "resident" => ~CapReached(config, rows, Pool \ {moved}, host, draft.day)
  BY DEF Admit, Bookable, Pool, CapsInUse
<1>6. ASSUME actor = "resident", 0 \notin CapsInUse
      PROVE  WeeklyUsage(rows, Pool \ {moved}, host, draft.day) + 1 < Max(CapsInUse)
  <2>1. /\ config.weeklyCap \in Nat \ {0} /\ config.weeklyCap <= Max(CapsInUse)
        /\ Max(CapsInUse) \in Nat
    BY <1>1, <1>6, CapsFacts
  <2>2. WeeklyUsage(rows, Pool \ {moved}, host, draft.day) \in Nat
    BY PoolFinite, UsageFewer
  <2>3. ~(WeeklyUsage(rows, Pool \ {moved}, host, draft.day) + 1 >= config.weeklyCap)
    BY <1>5, <1>6, <2>1 DEF CapReached
  <2> QED
    BY <2>1, <2>2, <2>3
<1>7. AdmittedWithinCap'
  <2> SUFFICES ASSUME NEW s \in Reqs, req'[s].pc = "insert", req'[s].row.bookedBy = "resident",
                      0 \notin CapsInUse
               PROVE  WeeklyUsage(rows, Pool \ {req'[s].id}, req'[s].row.host, req'[s].row.draft.day)
                        + 1 < Max(CapsInUse)
    BY <1>5 DEF AdmittedWithinCap
  <2>1. CASE s = r
    BY <1>4, <1>6, <2>1
  <2>2. CASE s # r
    BY <1>4, <2>2 DEF CapInv, AdmittedWithinCap
  <2> QED
    BY <2>1, <2>2
<1> QED
  BY <1>7 DEF CapInv

LEMMA CapStep ==
  ASSUME FinitelyManyCaps, CapInv, [Next]_vars
  PROVE  CapInv'
<1>1. BookingInv /\ TypeInv /\ LocksHeld /\ BookingInv'
  BY BookingStep DEF CapInv, BookingInv
<1>2. CASE Quiet
  BY <1>1, <1>2, QuietKeepsCap
<1>3. ASSUME NEW r \in Reqs, NEW actor \in Actors, NEW host \in Contacts,
             NEW draft \in Drafts[config.archetype], BeginCreate(r, actor, host, draft)
      PROVE  CapInv'
  BY <1>1, <1>3, AdmitWithinCap, InputTypes DEF BeginCreate, TypeInv
<1>4. ASSUME NEW r \in Reqs, NEW actor \in Actors, NEW draft \in Drafts[config.archetype],
             AdmitMove(r, actor, draft)
      PROVE  CapInv'
  <2>1. req[r].id \in Ids /\ rows[req[r].id].host \in Contacts
    BY <1>1, <1>4 DEF AdmitMove, TypeInv, TypeOK, RequestShape, Row
  <2> QED
    BY <1>1, <1>4, <2>1, AdmitWithinCap, InputTypes DEF AdmitMove, TypeInv
<1>5. ASSUME NEW r \in Reqs, NEW i \in Ids, BeginReschedule(r, i)
      PROVE  CapInv'
  <2>1. /\ rows' = rows /\ config' = config /\ req'[r].pc = "move"
        /\ \A s \in Reqs \ {r} : req'[s] = req[s]
    BY <1>1, <1>5 DEF BeginReschedule, TypeInv, TypeOK, IdleRequest
  <2> QED
    BY <1>1, <2>1 DEF CapInv, AdmittedWithinCap, CapsInUse, Pool
<1>6. ASSUME NEW r \in Reqs, NEW i \in Ids, InsertNew(r, i) \/ InsertReplacement(r, i)
      PROVE  CapInv'
  <2>1. \A s \in Reqs : req'[s].pc # "insert"
    BY <1>1, <1>6, InsertFacts
  <2> QED
    BY <1>1, <2>1 DEF CapInv, AdmittedWithinCap
<1> QED
  BY <1>1, <1>2, <1>3, <1>4, <1>5, <1>6, StepKinds

\* Only an insertion adds a reservation.
LEMMA NewRowsInserted ==
  ASSUME BookingInv, [Next]_vars, NEW i \in Ids, rows[i].status = "none", rows'[i] # rows[i]
  PROVE  \E r \in Reqs : /\ InsertNew(r, i) \/ InsertReplacement(r, i)
                         /\ rows'[i] = req[r].row
<1>1. rows[i] = NoRow
  BY FreeRow DEF BookingInv, TypeInv, FreeIds
<1>2. CASE Quiet
  BY <1>1, <1>2 DEF Quiet, QuietRows
<1>3. ASSUME NEW r \in Reqs, NEW j \in Ids, InsertNew(r, j) \/ InsertReplacement(r, j)
      PROVE  /\ InsertNew(r, i) \/ InsertReplacement(r, i)
             /\ rows'[i] = req[r].row
  <2>1. CASE i = j
    BY <1>3, <2>1, InsertFacts
  <2>2. CASE i # j
    <3>1. rows'[i] = rows[i] \/ rows[i] # NoRow
      BY <1>3, <2>2, InsertFacts
    <3> QED
      BY <1>1, <3>1
  <2> QED
    BY <2>1, <2>2
<1> QED
  BY <1>2, <1>3, StepKinds DEF BookingInv, BeginCreate, AdmitMove, Admit, BeginReschedule

\* A resident's booking leaves its host below the highest weekly cap in use, itself
\* counted, with any number of requests in flight: _validate_weekly_cap counts under the
\* advisory lock, and only an insertion adds to the count.
THEOREM WeeklyCapAlwaysKept ==
  ASSUME FinitelyManyCaps
  PROVE  Spec => WeeklyCapKept
<1>1. Init => CapInv
  <2> SUFFICES ASSUME Init PROVE CapInv
    OBVIOUS
  <2>1. \A r \in Reqs : req[r].pc = "idle"
    BY DEF Init, IdleRequest
  <2> QED
    BY <2>1, InitBookings DEF CapInv, AdmittedWithinCap
<1>2. CapInv /\ [Next]_vars => CapInv'
  BY CapStep
<1>3. CapInv /\ [Next]_vars =>
        [\A i \in Ids :
           rows[i].status = "none" /\ rows'[i].bookedBy = "resident" /\ 0 \notin CapsInUse
           => WeeklyUsage(rows', Pool', rows'[i].host, rows'[i].draft.day) < Max(CapsInUse)]_vars
  <2> SUFFICES ASSUME CapInv, [Next]_vars, NEW i \in Ids, rows[i].status = "none",
                      rows'[i].bookedBy = "resident", 0 \notin CapsInUse
               PROVE  WeeklyUsage(rows', Pool', rows'[i].host, rows'[i].draft.day) < Max(CapsInUse)
    OBVIOUS
  <2>1. BookingInv /\ rows[i] = NoRow
    BY FreeRow DEF CapInv, BookingInv, TypeInv, FreeIds
  <2>2. rows'[i] # rows[i]
    BY <2>1, ConstantsAssumption DEF NoRow, ActorTypes
  <2>3. PICK r \in Reqs : /\ InsertNew(r, i) \/ InsertReplacement(r, i)
                          /\ rows'[i] = req[r].row
    BY <2>1, <2>2, NewRowsInserted
  <2> QED
    BY <2>3, InsertWithinCap
<1> QED
  BY <1>1, <1>2, <1>3, PTL DEF Spec, WeeklyCapKept

=============================================================================
