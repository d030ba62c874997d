------------------------ MODULE FacilityReservations ------------------------
(***************************************************************************)
(* Reservations of one bookable facility: FacilityReservationService with  *)
(* its repository, the booking ledger it posts to and the calendar holds   *)
(* of community events, as concurrent requests against one database.       *)
(*                                                                         *)
(* Every HTTP request is one transaction at READ COMMITTED.  A handler     *)
(* that takes its lock first and reads only what the lock protects is one  *)
(* step; a handler that reads before it locks, or takes two locks, is one  *)
(* step per point where another request can come between.  rowLock is      *)
(* SELECT ... FOR UPDATE on a reservation, facilityLock the advisory lock  *)
(* of lock_facility; both are held until the transaction ends.             *)
(***************************************************************************)
EXTENDS FacilityRules

CONSTANTS
  Ids,       \* reservation ids the database can hand out (the model's bound)
  Reqs,      \* requests that can be in flight at once
  Contacts,  \* residents that host bookings
  Actors,    \* who is at work: residents, staff or both
  Events,    \* community events that may hold the venue
  Drafts,    \* per archetype, the drafts clients submit
  Prices,    \* totals the pricing engine may come to
  Configs,   \* configurations staff may set
  None       \* SQL NULL

ActorTypes == {"resident", "staff"}

Draft == [unit : Int, day : Nat, dayEnd : Nat, from : Nat, to : Nat,
          players : Nat, mates : SUBSET Contacts]

Config == [archetype : Archetypes, accepting : BOOLEAN, requiresApproval : BOOLEAN,
           included : BOOLEAN, deposit : Nat, buffer : Nat, weeklyCap : Nat,
           capacity : Nat, noShowPercent : 0 .. 100, tierPercents : SUBSET (0 .. 100)]

ASSUME ConstantsAssumption ==
  /\ Actors \subseteq ActorTypes
  /\ Drafts \in [Archetypes -> SUBSET Draft]
  /\ Prices \subseteq Nat
  /\ Configs \subseteq Config
  /\ IsFiniteSet(Ids)
  /\ None \notin Ids \cup Reqs \cup Contacts \cup Events \cup Draft \cup ActorTypes

AllDrafts == UNION {Drafts[a] : a \in Archetypes}

VARIABLES
  rows,          \* facility_reservations (with its created/submitted event)
  ledger,        \* per reservation, what was posted, summed by entry type
  config,        \* facility_booking_configs of the facility
  holds,         \* per event, its facility_slot_blocks row or None
  facilityLock,  \* the request that holds the advisory lock
  rowLock,       \* per reservation, the request that holds its row lock
  req            \* the requests' local state

vars == <<rows, ledger, config, holds, facilityLock, rowLock, req>>

-----------------------------------------------------------------------------
(* Rows *)

NoQuote == [total |-> 0, deposit |-> 0, dueLater |-> 0]

NoRow == [status |-> "none", host |-> None, draft |-> None, quote |-> NoQuote,
          bookedBy |-> None, submitted |-> FALSE, from |-> None, to |-> None,
          cancelledBy |-> None]

Row == [status : Status, host : Contacts, draft : AllDrafts,
        quote : [total : Nat, deposit : Nat, dueLater : Nat],
        bookedBy : ActorTypes, submitted : BOOLEAN,
        from : Ids \cup {None}, to : Ids \cup {None},
        cancelledBy : ActorTypes \cup {None}]

NothingPosted == [charge |-> 0, deposit |-> 0, balance |-> 0, adjustment |-> 0,
                  refund |-> 0, cancellation_fee |-> 0, no_show_forfeit |-> 0]

Postings == [charge : Nat, deposit : Nat, balance : Nat, adjustment : Nat,
             refund : Int, cancellation_fee : Nat, no_show_forfeit : Nat]

IdleRequest == [pc |-> "idle", actor |-> None, id |-> None, event |-> None,
                draft |-> None, paid |-> 0, fee |-> 0, row |-> NoRow]

PCs == {"idle", "move", "insert", "no_show", "cancel", "place_hold"}

Request == [pc : PCs, actor : ActorTypes \cup {None}, id : Ids \cup {None},
            event : Events \cup {None}, draft : AllDrafts \cup {None},
            paid : Nat, fee : Nat, row : Row \cup {NoRow}]

FreeIds  == {i \in Ids : rows[i].status = "none"}
Active   == {i \in Ids : rows[i].status \in ActiveStatuses}
Pool     == {i \in Ids : rows[i].status \in WeeklyCapCountable}
Placed   == {holds[e] : e \in Events} \ {None}

\* net_paid: what counts as paid towards one reservation (refunds do not).
Paid(i) == ledger[i].charge + ledger[i].deposit + ledger[i].balance + ledger[i].adjustment

Unlocked(i) == rowLock[i] = None

Finish(r) == req' = [req EXCEPT ![r] = IdleRequest]

-----------------------------------------------------------------------------
Init ==
  /\ rows = [i \in Ids |-> NoRow]
  /\ ledger = [i \in Ids |-> NothingPosted]
  /\ config \in Configs
  /\ holds = [e \in Events |-> None]
  /\ facilityLock = None
  /\ rowLock = [i \in Ids |-> None]
  /\ req = [r \in Reqs |-> IdleRequest]

-----------------------------------------------------------------------------
(* Create and reschedule *)

\* What validate_draft lets through; staff override the weekly cap, and the
\* reservation being moved does not stand in its own way.
Bookable(actor, host, draft, moved) ==
  LET others == Active \ {moved}
  IN /\ config.accepting
     /\ WellFormed(config, draft)
     /\ \A i \in others : ~Clashes(config, draft, rows[i].draft)
     /\ ~TeeFull(config, rows, others, draft)
     /\ \A h \in Placed : ~BlockedBy(config, draft, h)
     /\ actor = "resident" =>
          ~CapReached(config, rows, Pool \ {moved}, host, draft.day)

\* The row to insert.  A confirmed booking stays confirmed when it is moved;
\* otherwise the configuration decides, and the timeline opens with SUBMITTED.
NewRow(actor, host, draft, moved, price) ==
  LET status == IF moved # None /\ rows[moved].status = "confirmed"
                  THEN "confirmed" ELSE InitialStatus(config.requiresApproval)
  IN [NoRow EXCEPT !.status = status, !.host = host, !.draft = draft,
        !.quote = Quote(config, price), !.bookedBy = actor,
        !.submitted = (status = "pending_approval"), !.from = moved]

\* (fault: the context is read and validated before the advisory lock is taken)
AdmitWithoutLock(r, actor, host, draft, moved) ==
  /\ FreeIds # {}
  /\ Bookable(actor, host, draft, moved)
  /\ \E price \in Prices :
       req' = [req EXCEPT ![r] = [IdleRequest EXCEPT
                 !.pc = "insert", !.id = moved,
                 !.row = NewRow(actor, host, draft, moved, price)]]
  /\ UNCHANGED <<rows, ledger, config, holds, facilityLock, rowLock>>

\* _create up to its insert: take the advisory lock, and only then read the
\* context to validate against.  (FreeIds bounds the number of reservations.)
Admit(r, actor, host, draft, moved) ==
  /\ facilityLock = None
  /\ FreeIds # {}
  /\ Bookable(actor, host, draft, moved)
  /\ facilityLock' = r
  /\ \E price \in Prices :
       req' = [req EXCEPT ![r] = [IdleRequest EXCEPT
                 !.pc = "insert", !.id = moved,
                 !.row = NewRow(actor, host, draft, moved, price)]]
  /\ UNCHANGED <<rows, ledger, config, holds, rowLock>>

\* POST of a new reservation, by its host or by staff on the host's behalf.  It
\* holds nothing while it waits for the lock; a refused draft changes nothing.
BeginCreate(r, actor, host, draft) ==
  /\ req[r].pc = "idle"
  /\ Admit(r, actor, host, draft, None)

\* (fault: the old row is read without FOR UPDATE)
BeginRescheduleUnlocked(r, i) ==
  /\ req[r].pc = "idle"
  /\ rows[i].status \in AllowedFrom.reschedule
  /\ req' = [req EXCEPT ![r] = [IdleRequest EXCEPT !.pc = "move", !.id = i]]
  /\ UNCHANGED <<rows, ledger, config, holds, facilityLock, rowLock>>

\* reschedule locks the old row and checks its status before it calls _create.
BeginReschedule(r, i) ==
  /\ req[r].pc = "idle"
  /\ Unlocked(i)
  /\ rows[i].status \in AllowedFrom.reschedule
  /\ rowLock' = [rowLock EXCEPT ![i] = r]
  /\ req' = [req EXCEPT ![r] = [IdleRequest EXCEPT !.pc = "move", !.id = i]]
  /\ UNCHANGED <<rows, ledger, config, holds, facilityLock>>

\* Holding the row lock, it waits for the advisory lock inside _create.  (Who
\* moves the booking, and to what draft, matters from here on only.)
AdmitMove(r, actor, draft) ==
  /\ req[r].pc = "move"
  /\ Admit(r, actor, rows[req[r].id].host, draft, req[r].id)

\* (fault: the refusal leaves its row lock behind)
RefuseMoveKeepingLock(r, actor, draft) ==
  /\ req[r].pc = "move"
  /\ facilityLock = None
  /\ FreeIds = {} \/ ~Bookable(actor, rows[req[r].id].host, draft, req[r].id)
  /\ Finish(r)
  /\ UNCHANGED <<rows, ledger, config, holds, facilityLock, rowLock>>

\* A validation error rolls the transaction back and frees its locks.
RefuseMove(r, actor, draft) ==
  LET i == req[r].id IN
  /\ req[r].pc = "move"
  /\ facilityLock = None
  /\ FreeIds = {} \/ ~Bookable(actor, rows[i].host, draft, i)
  /\ rowLock' = [rowLock EXCEPT ![i] = None]
  /\ Finish(r)
  /\ UNCHANGED <<rows, ledger, config, holds, facilityLock>>

\* The rest of _create for a new booking: insert, charge when confirmed, commit.
InsertNew(r, i) ==
  LET row == req[r].row IN
  /\ req[r].pc = "insert"
  /\ req[r].id = None
  /\ i \in FreeIds
  /\ rows' = [rows EXCEPT ![i] = row]
  /\ ledger' = IF row.status = "confirmed"
                 THEN [ledger EXCEPT ![i].charge = row.quote.total]
                 ELSE ledger
  /\ facilityLock' = None
  /\ Finish(r)
  /\ UNCHANGED <<config, holds, rowLock>>

\* (fault: the difference is posted as an adjustment whatever its sign)
InsertReplacementUnsigned(r, i) ==
  LET old == req[r].id IN
  /\ req[r].pc = "insert"
  /\ old # None
  /\ i \in FreeIds
  /\ rows' = [rows EXCEPT ![i] = req[r].row,
                          ![old].status = "rescheduled", ![old].to = i]
  /\ ledger' = [ledger EXCEPT ![i].adjustment = req[r].row.quote.total - Paid(old)]
  /\ facilityLock' = None
  /\ rowLock' = [rowLock EXCEPT ![old] = None]
  /\ Finish(r)
  /\ UNCHANGED <<config, holds>>

\* The rest of reschedule: insert the replacement, retire the old row, and
\* settle the difference between the new total and what the old row paid.
InsertReplacement(r, i) ==
  LET row == req[r].row
      old == req[r].id
      diff == row.quote.total - Paid(old)
  IN
  /\ req[r].pc = "insert"
  /\ old # None
  /\ i \in FreeIds
  /\ rows' = [rows EXCEPT ![i] = row,
                          ![old].status = "rescheduled", ![old].to = i]
  /\ ledger' = IF row.status = "pending_approval" THEN ledger
               ELSE IF diff > 0 THEN [ledger EXCEPT ![i].adjustment = diff]
               ELSE [ledger EXCEPT ![i].refund = diff]
  /\ facilityLock' = None
  /\ rowLock' = [rowLock EXCEPT ![old] = None]
  /\ Finish(r)
  /\ UNCHANGED <<config, holds>>

-----------------------------------------------------------------------------
(* Staff transitions that lock the row before they read anything: one step each *)

\* Lock, _assert_action, update.
Transition(i, action, status) ==
  /\ Unlocked(i)
  /\ rows[i].status \in AllowedFrom[action]
  /\ rows' = [rows EXCEPT ![i].status = status]
  /\ UNCHANGED <<config, holds, facilityLock, rowLock, req>>

\* Approval posts the deposit.
Approve(i) ==
  /\ Transition(i, "approve", "confirmed")
  /\ ledger' = [ledger EXCEPT ![i].deposit = @ + rows[i].quote.deposit]

Reject(i) ==
  /\ Transition(i, "reject", "rejected")
  /\ UNCHANGED ledger

\* (fault: check-in posts the whole price)
CheckInFullPrice(i) ==
  /\ Transition(i, "check_in", "checked_in")
  /\ ledger' = [ledger EXCEPT ![i].balance = @ + rows[i].quote.total]

\* Check-in posts the balance.
CheckIn(i) ==
  /\ Transition(i, "check_in", "checked_in")
  /\ ledger' = [ledger EXCEPT ![i].balance = @ + rows[i].quote.dueLater]

Complete(i) ==
  /\ Transition(i, "complete", "completed")
  /\ UNCHANGED ledger

-----------------------------------------------------------------------------
(* No-show and cancellation read what was paid before they lock the row.   *)
(* (One begun on a row that has already ended is refused whatever it read, *)
(* and changes nothing: it is left out.)                                   *)

BeginNoShow(r, i) ==
  /\ req[r].pc = "idle"
  /\ i \in Active
  /\ req' = [req EXCEPT ![r] = [IdleRequest EXCEPT
               !.pc = "no_show", !.id = i, !.paid = Paid(i)]]
  /\ UNCHANGED <<rows, ledger, config, holds, facilityLock, rowLock>>

\* (fault: the status is not checked again under the lock)
MarkNoShowUnchecked(r) ==
  LET q == req[r] IN
  /\ q.pc = "no_show"
  /\ Unlocked(q.id)
  /\ rows' = [rows EXCEPT ![q.id].status = "no_show"]
  /\ ledger' = [ledger EXCEPT ![q.id].refund = @ - q.paid,
                  ![q.id].no_show_forfeit = @ + PercentOf(q.paid, config.noShowPercent)]
  /\ Finish(r)
  /\ UNCHANGED <<config, holds, facilityLock, rowLock>>

\* Refund what was read, forfeit the configured share of it.
MarkNoShow(r) ==
  LET q == req[r] IN
  /\ q.pc = "no_show"
  /\ Unlocked(q.id)
  /\ rows[q.id].status \in AllowedFrom.no_show
  /\ rows' = [rows EXCEPT ![q.id].status = "no_show"]
  /\ ledger' = [ledger EXCEPT ![q.id].refund = @ - q.paid,
                  ![q.id].no_show_forfeit = @ + PercentOf(q.paid, config.noShowPercent)]
  /\ Finish(r)
  /\ UNCHANGED <<config, holds, facilityLock, rowLock>>

\* (fault: the replaced row's payments are refunded too, what was already returned is not deducted)
BeginCancelRefundingChain(r, actor, i) ==
  /\ req[r].pc = "idle"
  /\ i \in Active
  /\ req' = [req EXCEPT ![r] = [IdleRequest EXCEPT !.pc = "cancel", !.actor = actor, !.id = i,
               !.paid = Paid(i) + (IF rows[i].from = None THEN 0 ELSE Paid(rows[i].from))]]
  /\ UNCHANGED <<rows, ledger, config, holds, facilityLock, rowLock>>

\* The cancellation quote: staff refund everything; a resident pays the tier's
\* share (the clock picks the tier), nothing while approval is pending.
BeginCancel(r, actor, i) ==
  /\ req[r].pc = "idle"
  /\ i \in Active
  /\ \E percent \in config.tierPercents :
       LET free == actor = "resident" /\ rows[i].status = "pending_approval"
           paid == IF free THEN 0 ELSE Paid(i)
           fee  == IF free \/ actor = "staff" THEN 0 ELSE PercentOf(paid, percent)
       IN req' = [req EXCEPT ![r] = [IdleRequest EXCEPT
                    !.pc = "cancel", !.actor = actor, !.id = i,
                    !.paid = paid, !.fee = fee]]
  /\ UNCHANGED <<rows, ledger, config, holds, facilityLock, rowLock>>

\* Lock, check, cancel, then post the refund and the fee of the quote.
Cancel(r) ==
  LET q == req[r] IN
  /\ q.pc = "cancel"
  /\ Unlocked(q.id)
  /\ rows[q.id].status \in AllowedFrom[CancelAction(q.actor)]
  /\ rows' = [rows EXCEPT ![q.id].status = "cancelled", ![q.id].cancelledBy = q.actor]
  /\ ledger' = [ledger EXCEPT ![q.id].refund = @ - q.paid,
                              ![q.id].cancellation_fee = @ + q.fee]
  /\ Finish(r)
  /\ UNCHANGED <<config, holds, facilityLock, rowLock>>

\* The status read under the lock no longer allows the action: nothing changes.
TransitionRefused(r) ==
  LET q == req[r] IN
  /\ \/ q.pc = "no_show" /\ rows[q.id].status \notin AllowedFrom.no_show
     \/ q.pc = "cancel" /\ rows[q.id].status \notin AllowedFrom[CancelAction(q.actor)]
  /\ Unlocked(q.id)
  /\ Finish(r)
  /\ UNCHANGED <<rows, ledger, config, holds, facilityLock, rowLock>>

\* The transaction is rolled back: the overlap constraint of the table or any other
\* database error, a client that is gone, a policy of the moment (a resident may
\* not move this booking any more), a process that dies.  Its locks are freed.
Abort(r) ==
  /\ req[r].pc # "idle"
  /\ facilityLock' = IF facilityLock = r THEN None ELSE facilityLock
  /\ rowLock' = [i \in Ids |-> IF rowLock[i] = r THEN None ELSE rowLock[i]]
  /\ Finish(r)
  /\ UNCHANGED <<rows, ledger, config, holds>>

-----------------------------------------------------------------------------
(* Configuration and community-event holds: neither takes lock_facility *)

\* update_config; the archetype cannot change while bookings are active.
UpdateConfig(cfg) ==
  /\ cfg # config
  /\ cfg.archetype = config.archetype
  /\ config' = cfg
  /\ UNCHANGED <<rows, ledger, holds, facilityLock, rowLock, req>>

\* ensure: an active reservation on the event's days and minutes refuses the hold.
BeginHold(r, e, draft) ==
  /\ req[r].pc = "idle"
  /\ \A i \in Active :
       ~(/\ rows[i].draft.day <= draft.dayEnd
         /\ rows[i].draft.dayEnd >= draft.day
         /\ Overlaps(rows[i].draft.from, rows[i].draft.to, draft.from, draft.to))
  /\ req' = [req EXCEPT ![r] = [IdleRequest EXCEPT
               !.pc = "place_hold", !.event = e, !.draft = draft]]
  /\ UNCHANGED <<rows, ledger, config, holds, facilityLock, rowLock>>

\* Drop the event's earlier hold, insert the new block.
PlaceHold(r) ==
  /\ req[r].pc = "place_hold"
  /\ holds' = [holds EXCEPT ![req[r].event] = req[r].draft]
  /\ Finish(r)
  /\ UNCHANGED <<rows, ledger, config, facilityLock, rowLock>>

\* The event is cancelled or loses its venue.
ReleaseHold(e) ==
  /\ holds[e] # None
  /\ holds' = [holds EXCEPT ![e] = None]
  /\ UNCHANGED <<rows, ledger, config, facilityLock, rowLock, req>>

-----------------------------------------------------------------------------
Begin(r) ==
  \/ \E actor \in Actors, host \in Contacts, draft \in Drafts[config.archetype] :
       BeginCreate(r, actor, host, draft)
  \/ \E i \in Ids : BeginReschedule(r, i) \/ BeginNoShow(r, i)
  \/ \E actor \in Actors, i \in Ids : BeginCancel(r, actor, i)
  \/ \E e \in Events, draft \in Drafts[config.archetype] : BeginHold(r, e, draft)

\* The steps that answer a request once it has begun.
Answer(r) ==
  \/ \E actor \in Actors, draft \in Drafts[config.archetype] :
       AdmitMove(r, actor, draft) \/ RefuseMove(r, actor, draft)
  \/ \E i \in Ids : InsertNew(r, i) \/ InsertReplacement(r, i)
  \/ MarkNoShow(r) \/ Cancel(r) \/ TransitionRefused(r) \/ PlaceHold(r)

Next ==
  \/ \E r \in Reqs : Begin(r) \/ Answer(r) \/ Abort(r)
  \/ \E i \in Ids : Approve(i) \/ Reject(i) \/ CheckIn(i) \/ Complete(i)
  \/ \E cfg \in Configs : UpdateConfig(cfg)
  \/ \E e \in Events : ReleaseHold(e)

Spec == Init /\ [][Next]_vars

\* PostgreSQL queues the waiters of a lock in order of arrival, so a request
\* whose lock is free again and again gets it: strong fairness.
Fairness == \A r \in Reqs : SF_vars(Answer(r))

FairSpec == Spec /\ Fairness

-----------------------------------------------------------------------------
(* Properties *)

\* The variables stay in their types.
TypeOK ==
  /\ rows \in [Ids -> Row \cup {NoRow}]
  /\ ledger \in [Ids -> Postings]
  /\ config \in Configs
  /\ holds \in [Events -> AllDrafts \cup {None}]
  /\ facilityLock \in Reqs \cup {None}
  /\ rowLock \in [Ids -> Reqs \cup {None}]
  /\ req \in [Reqs -> Request]

\* What it means that two bookings need the same thing at the same time, said
\* without the engine's rules: the same court or hall at the same minute of a
\* day, the same room for the same night.
SameTime(v, w) ==
  /\ v.day <= w.dayEnd
  /\ w.day <= v.dayEnd
  /\ Overlaps(v.from, v.to, w.from, w.to)

SameNight(v, w) == v.day < w.dayEnd /\ w.day < v.dayEnd

DoubleBooks(archetype, v, w) ==
  \/ archetype = "slot" /\ v.unit = w.unit /\ SameTime(v, w)
  \/ archetype \in {"duration", "day_range"} /\ SameTime(v, w)
  \/ archetype = "room" /\ v.unit = w.unit /\ SameNight(v, w)

\* No two active reservations ever hold the same court, hall or room at the same
\* time, whatever creates, moves and transitions interleave: the advisory lock of
\* lock_facility makes validate_draft's answer still true when the row is inserted.
NoDoubleBooking ==
  \A i, j \in Active :
    i # j => ~DoubleBooks(config.archetype, rows[i].draft, rows[j].draft)

\* The active reservations that take up the given minute of a day.
Teeing(day, minute) ==
  {i \in Active : /\ OccupiesOn(rows[i].draft, day)
                  /\ rows[i].draft.from <= minute
                  /\ minute < rows[i].draft.to}

\* The players booked on a tee time never exceed its capacity, at any minute at
\* which some booking starts.
TeeCapacity ==
  config.archetype = "tee_time" =>
    \A b \in Active : \A day \in rows[b].draft.day .. rows[b].draft.dayEnd :
      Headcount(rows, Teeing(day, rows[b].draft.from)) <= config.capacity

\* A reservation was moved exactly when it names its replacement, and the two
\* rows name each other: concurrent moves of one booking never leave two
\* replacements, or one that the old row does not know of.
MovedOnce ==
  \A i \in Ids :
    /\ (rows[i].status = "rescheduled") <=> (rows[i].to # None)
    /\ rows[i].to # None => rows[rows[i].to].from = i
    /\ rows[i].from # None => rows[rows[i].from].to = i

\* A booking that was never moved and has been checked in has been charged
\* exactly what its quote says: the total when it was confirmed at once, deposit
\* and balance when it was approved -- never a part twice, whoever raced whom.
ChargedAsQuoted ==
  \A i \in Ids :
    rows[i].status \in {"checked_in", "completed"} /\ rows[i].from = None =>
      Paid(i) = IF rows[i].submitted
                  THEN rows[i].quote.deposit + rows[i].quote.dueLater
                  ELSE rows[i].quote.total

\* Refunds on a row never exceed what that row and the row it replaced were
\* charged, although cancel and no-show refund an amount they read earlier.
RefundsCovered ==
  \A i \in Ids :
    -ledger[i].refund <=
       Paid(i) + (IF rows[i].from # None THEN Paid(rows[i].from) ELSE 0)

\* A reservation that has ended is never touched again: neither its row nor its
\* ledger changes, so no request that read it while it was active acts on it late.
EndedIsFinal ==
  [][\A i \in Ids :
       rows[i].status \in TerminalStatuses =>
         rows'[i] = rows[i] /\ ledger'[i] = ledger[i]]_vars

\* A booking made by a resident leaves its host below the highest weekly cap staff
\* configure for the facility (the draft counts itself, so the booking that would reach
\* the cap is the first one refused), also when the host has two requests in flight,
\* moves bookings and completes them.
CapsInUse == {c.weeklyCap : c \in {d \in Configs : d.archetype = config.archetype}}

WeeklyCapKept ==
  [][\A i \in Ids :
       rows[i].status = "none" /\ rows'[i].bookedBy = "resident" /\ 0 \notin CapsInUse
       => WeeklyUsage(rows', Pool', rows'[i].host, rows'[i].draft.day) < Max(CapsInUse)]_vars

\* Every request is answered: row locks and the advisory lock are always taken in
\* an order that cannot deadlock, and every path releases both.
RequestsAnswered == \A r \in Reqs : req[r].pc # "idle" ~> req[r].pc = "idle"

-----------------------------------------------------------------------------
(* A claim of the documentation that the code does not keep *)

\* "Reject a hold when an active reservation already occupies the window"
\* (community_event_facility_hold.py): a hold and an active booking never overlap.
HoldsKeepClear ==
  \A h \in Placed, i \in Active : ~SameTime(h, rows[i].draft)

=============================================================================
