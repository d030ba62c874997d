--------------------------- MODULE CommunityEvents ---------------------------
(***************************************************************************)
(* Tickets of one community event: CommunityEventBookingService and the    *)
(* event's own lifecycle in CommunityEventsService, as concurrent          *)
(* transactions at READ COMMITTED.  Events share no rows.                  *)
(*                                                                         *)
(* No handler locks what it reads.  A booking or an event is locked by the *)
(* UPDATE that writes it, until the transaction ends; bookings are written *)
(* before the event, except by a promotion from the waitlist, and so two   *)
(* transactions may wait for each other: PostgreSQL then aborts one.  The  *)
(* last write and the commit are one step.                                 *)
(*                                                                         *)
(* Dates, project membership, access holds and child tickets only refuse a *)
(* request, which is not to take the step here.  The venue's hold is in    *)
(* FacilityReservations; codes, gate tokens, gallery, audit entries other  *)
(* than cancellations, and notifications are left out.                     *)
(***************************************************************************)
EXTENDS Integers, FiniteSets, Functions

CONSTANTS
  MaxBookings,  \* bookings that can be tried (the model's bound)
  Payables,     \* those that are paid or waived (the model's bound)
  Contacts,     \* residents
  Tickets,      \* numbers of tickets a booking may ask for
  Amounts,      \* what compute_booking_amounts may come to
  Types,        \* values of event_type
  Capacities,   \* values of total_capacity, NULL for no limit
  Limits,       \* values of max_tickets_per_resident
  Reqs,         \* transactions in flight at once
  None          \* SQL NULL

ASSUME EventsAssumption ==
  /\ MaxBookings \in Nat
  /\ Tickets \subseteq Nat \ {0}
  /\ Amounts \subseteq Nat
  /\ Types \subseteq {"free", "paid"}
  /\ Capacities \subseteq (Nat \ {0}) \cup {None}
  /\ Limits \subseteq Nat \ {0}
  /\ None \notin Nat

\* A booking is named by its place in the order of booked_at, which is when its
\* transaction began.
Bookings == 1 .. MaxBookings

VARIABLES
  event,  \* the community_events row
  rows,   \* community_event_bookings
  begun,  \* bookings tried so far
  req     \* the transactions

vars == <<event, rows, begun, req>>

-----------------------------------------------------------------------------
(* Rows and requests *)

\* booked, count, paid and revenue are the aggregates tickets_booked, bookings_count,
\* paid_bookings_count and revenue_collected_minor.
Event == [status : {"draft", "published", "cancelled", "completed"}, deleted : BOOLEAN,
          type : Types, capacity : Capacities, limit : Limits,
          booked : Nat, count : Nat, paid : Nat, revenue : Nat]

\* cancels counts the booking_cancelled entries of the audit log.
Booking == [contact : Contacts, tickets : Tickets, amount : Amounts \cup {0},
            status : {"confirmed", "waitlisted", "cancelled"},
            payment : {"not_applicable", "pending", "paid", "waived"}, cancels : Nat]

PCs == {"idle", "count", "book", "cancel", "release", "promote", "pay", "collect", "waive",
        "publish", "edit"}

\* id is the booking a request is about, row what it read of it or will insert, limit
\* the event's limit as it was read, next the booking it promotes.
Request == [pc : PCs, id : Bookings \cup {None}, row : Booking \cup {None},
            limit : Limits \cup {None}, next : Bookings \cup {None}]

ASSUME BookingAssumption == None \notin Booking

IdleRequest == [pc |-> "idle", id |-> None, row |-> None, limit |-> None, next |-> None]

Init ==
  /\ event \in [status : {"draft", "published"}, deleted : {FALSE}, type : Types,
                capacity : Capacities, limit : Limits,
                booked : {0}, count : {0}, paid : {0}, revenue : {0}]
  /\ rows = [b \in Bookings |-> None]
  /\ begun = 0
  /\ req = [r \in Reqs |-> IdleRequest]

Continue(r, q) ==
  /\ req' = [req EXCEPT ![r] = q]
  /\ UNCHANGED <<event, rows, begun>>

Done(r) == req' = [req EXCEPT ![r] = IdleRequest]

In(status) == {b \in Bookings : rows[b] # None /\ rows[b].status = status}

\* The event's row, and a booking's, are not locked by another transaction.
EventFree(r) == \A s \in Reqs \ {r} : req[s].pc # "promote"

RowFree(r, b) ==
  \A s \in Reqs \ {r} : req[s].pc \in {"release", "promote", "collect"} => req[s].id # b

-----------------------------------------------------------------------------
(* Booking *)

\* What create_booking makes of the event as it reads it.
StatusFor(n) ==
  IF event.capacity # None /\ event.booked + n > event.capacity THEN "waitlisted" ELSE "confirmed"

Bookable == event.status = "published" /\ ~event.deleted

\* A resident's booking, or one staff make, which is always confirmed and may be paid at
\* once, starts with reading the event.
BeginBooking(r, contact, tickets, amount, staff, paid) ==
  LET row == [contact |-> contact, tickets |-> tickets,
              amount |-> IF event.type = "free" THEN 0 ELSE amount,
              status |-> IF staff THEN "confirmed" ELSE StatusFor(tickets),
              payment |-> IF event.type = "free" THEN "not_applicable"
                          ELSE IF paid THEN "paid" ELSE "pending",
              cancels |-> 0]
  IN
  /\ req[r].pc = "idle"
  /\ begun < MaxBookings
  /\ Bookable
  /\ paid => staff /\ event.type = "paid" /\ begun + 1 \in Payables
  /\ begun' = begun + 1
  /\ req' = [req EXCEPT ![r] = [IdleRequest EXCEPT !.pc = "count", !.id = begun + 1,
                                                   !.row = row, !.limit = event.limit]]
  /\ UNCHANGED <<event, rows>>

\* count_active_tickets_for_contact
ActiveTickets(contact) ==
  LET mine == {b \in In("confirmed") \cup In("waitlisted") : rows[b].contact = contact} IN
  SumFunction([b \in mine |-> rows[b].tickets])

CountTickets(r) ==
  LET q == req[r] IN
  /\ q.pc = "count"
  /\ ActiveTickets(q.row.contact) + q.row.tickets <= q.limit
  /\ Continue(r, [q EXCEPT !.pc = "book"])

\* (fault: what is paid for a waitlisted booking is not counted)
CollectConfirmed(row) == event.revenue + (IF row.status = "waitlisted" THEN 0 ELSE row.amount)

\* increment_paid_revenue
Collected(row) == event.revenue + row.amount

\* insert_booking and the aggregates, which wait for the event's row; mark_paid follows
\* at once when staff have been paid.
Book(r) ==
  LET row == req[r].row
      paid == row.payment = "paid"
  IN
  /\ req[r].pc = "book"
  /\ EventFree(r)
  /\ rows' = [rows EXCEPT ![req[r].id] = row]
  /\ event' = [event EXCEPT !.booked = IF row.status = "confirmed" THEN @ + row.tickets ELSE @,
                            !.count = @ + 1,
                            !.paid = IF paid THEN @ + 1 ELSE @,
                            !.revenue = IF paid THEN Collected(row) ELSE @]
  /\ Done(r)
  /\ UNCHANGED begun

-----------------------------------------------------------------------------
(* Cancelling a booking *)

\* The handlers of a booking read it, and go by what they read.
BeginWith(r, b, pc) ==
  /\ req[r].pc = "idle"
  /\ rows[b] # None
  /\ Continue(r, [IdleRequest EXCEPT !.pc = pc, !.id = b, !.row = rows[b]])

BeginCancel(r, b) ==
  /\ BeginWith(r, b, "cancel")
  /\ rows[b].status # "cancelled"

\* The UPDATE that cancels, or marks paid, locks the booking.
LockBooking(r) ==
  /\ req[r].pc \in {"cancel", "pay"}
  /\ RowFree(r, req[r].id)
  /\ Continue(r, [req[r] EXCEPT !.pc = IF @ = "cancel" THEN "release" ELSE "collect"])

\* (fault: GREATEST(0, ...) forgotten)
Unclamped(n) == n

Clamped(n) == IF n < 0 THEN 0 ELSE n

\* (fault: a waitlisted booking gives back seats it never had)
FreeAlways(q) == Clamped(event.booked - q.row.tickets)

\* tickets_booked after the cancellation.
Freed(q) ==
  Clamped(event.booked - (IF q.row.status = "confirmed" THEN q.row.tickets ELSE 0))

\* (fault: any free seat is enough)
PromoteIfAny(q) ==
  {b \in In("waitlisted") \ {q.id} :
     /\ q.row.status = "confirmed"
     /\ \A c \in In("waitlisted") \ {q.id} : b <= c
     /\ event.capacity # None
     /\ Freed(q) < event.capacity}

\* (fault: whoever fits, not the first in line)
PromoteWhoFits(q) ==
  {b \in In("waitlisted") \ {q.id} :
     /\ q.row.status = "confirmed"
     /\ event.capacity # None
     /\ Freed(q) + rows[b].tickets <= event.capacity}

\* Whom _promote_waitlist confirms, if anyone: the first in line, if seats are left for
\* it; the event is not asked whether it still takes place.
Promoted(q) ==
  {b \in In("waitlisted") \ {q.id} :
     /\ q.row.status = "confirmed"
     /\ \A c \in In("waitlisted") \ {q.id} : b <= c
     /\ event.capacity # None
     /\ Freed(q) + rows[b].tickets <= event.capacity}

Cancelled(row) == [row EXCEPT !.status = "cancelled", !.cancels = @ + 1]

\* (fault: a booking without seats is cancelled without a word to the event)
ReleaseSilently(r) ==
  LET q == req[r] IN
  /\ q.pc = "release"
  /\ q.row.status = "confirmed" => EventFree(r)
  /\ Promoted(q) = {}
  /\ rows' = [rows EXCEPT ![q.id] = Cancelled(@)]
  /\ event' = [event EXCEPT !.booked = Freed(q), !.count = Clamped(@ - 1)]
  /\ Done(r)
  /\ UNCHANGED begun

\* The aggregates wait for the event's row; nobody is promoted.
Release(r) ==
  LET q == req[r] IN
  /\ q.pc = "release"
  /\ EventFree(r)
  /\ Promoted(q) = {}
  /\ rows' = [rows EXCEPT ![q.id] = Cancelled(@)]
  /\ event' = [event EXCEPT !.booked = Freed(q), !.count = Clamped(@ - 1)]
  /\ Done(r)
  /\ UNCHANGED begun

\* Or somebody is, whose row is written with the event's row locked.
BeginPromotion(r) ==
  LET q == req[r] IN
  /\ q.pc = "release"
  /\ EventFree(r)
  /\ \E b \in Promoted(q) : Continue(r, [q EXCEPT !.pc = "promote", !.next = b])

Promote(r) ==
  LET q == req[r] IN
  /\ q.pc = "promote"
  /\ RowFree(r, q.next)
  /\ rows' = [rows EXCEPT ![q.id] = Cancelled(@), ![q.next].status = "confirmed"]
  /\ event' = [event EXCEPT !.booked = Freed(q) + rows[q.next].tickets, !.count = Clamped(@ - 1)]
  /\ Done(r)
  /\ UNCHANGED begun

-----------------------------------------------------------------------------
(* Payment at the clubhouse *)

BeginPayment(r, b, pc) ==
  /\ BeginWith(r, b, pc)
  /\ rows[b].payment = "pending"

\* mark_paid adds to the event's revenue, whatever has become of the booking.
MarkPaid(r) ==
  LET q == req[r] IN
  /\ q.pc = "collect"
  /\ EventFree(r)
  /\ rows' = [rows EXCEPT ![q.id].payment = "paid"]
  /\ event' = [event EXCEPT !.paid = @ + 1, !.revenue = Collected(q.row)]
  /\ Done(r)
  /\ UNCHANGED begun

MarkWaived(r) ==
  LET q == req[r] IN
  /\ q.pc = "waive"
  /\ RowFree(r, q.id)
  /\ rows' = [rows EXCEPT ![q.id].payment = "waived"]
  /\ Done(r)
  /\ UNCHANGED <<event, begun>>

-----------------------------------------------------------------------------
(* The event *)

\* publish_event reads a draft; deleted or not, it is published.
BeginPublish(r) ==
  /\ req[r].pc = "idle"
  /\ event.status = "draft"
  /\ Continue(r, [IdleRequest EXCEPT !.pc = "publish"])

\* update_event reads the event: what tickets depend on is fixed once some are booked.
BeginEdit(r) ==
  /\ req[r].pc = "idle"
  /\ ~event.deleted
  /\ event.status = "published" => event.booked = 0
  /\ Continue(r, [IdleRequest EXCEPT !.pc = "edit"])

\* A capacity can be changed, but not taken away.
WriteEvent(r) ==
  /\ req[r].pc \in {"publish", "edit"}
  /\ EventFree(r)
  /\ \/ req[r].pc = "publish" /\ event' = [event EXCEPT !.status = "published"]
     \/ /\ req[r].pc = "edit"
        /\ \E capacity \in (Capacities \ {None}) \cup {event.capacity}, limit \in Limits, type \in Types :
             event' = [event EXCEPT !.capacity = capacity, !.limit = limit, !.type = type]
  /\ Done(r)
  /\ UNCHANGED <<rows, begun>>

\* cancel_event, complete_event, delete_event and restore_event ask nothing of the
\* event; complete_past_events closes a published one.  Its bookings stay as they are.
SetStatus ==
  /\ \A s \in Reqs : req[s].pc # "promote"
  /\ \/ \E status \in {"cancelled", "completed"} : event' = [event EXCEPT !.status = status]
     \/ \E deleted \in BOOLEAN : event' = [event EXCEPT !.deleted = deleted]
  /\ UNCHANGED <<rows, begun, req>>

\* A transaction fails, or is chosen to break a deadlock, and is rolled back.
Abort(r) ==
  /\ req[r].pc # "idle"
  /\ Continue(r, IdleRequest)

-----------------------------------------------------------------------------
Begin(r) ==
  \/ \E c \in Contacts, n \in Tickets, amount \in Amounts, staff, paid \in BOOLEAN :
       BeginBooking(r, c, n, amount, staff, paid)
  \/ \E b \in Bookings : BeginCancel(r, b)
  \/ \E b \in Bookings \cap Payables, pc \in {"pay", "waive"} : BeginPayment(r, b, pc)
  \/ BeginPublish(r) \/ BeginEdit(r)

Continued(r) ==
  \/ CountTickets(r) \/ Book(r)
  \/ LockBooking(r) \/ Release(r) \/ BeginPromotion(r) \/ Promote(r)
  \/ MarkPaid(r) \/ MarkWaived(r) \/ WriteEvent(r)

Next ==
  \/ \E r \in Reqs : Begin(r) \/ Continued(r) \/ Abort(r)
  \/ SetStatus

Spec == Init /\ [][Next]_vars

-----------------------------------------------------------------------------
(* Properties *)

\* The variables stay in their types; no aggregate becomes negative.
TypeOK ==
  /\ event \in Event
  /\ rows \in [Bookings -> Booking \cup {None}]
  /\ begun \in 0 .. MaxBookings
  /\ req \in [Reqs -> Request]

\* A cancelled booking is never confirmed again: a promotion that has read it as
\* waitlisted holds the event's row, which the cancellation needs.
CancelledStays ==
  [][\A b \in Bookings :
       rows[b] # None /\ rows[b].status = "cancelled" => rows'[b].status = "cancelled"]_vars

\* Nobody is promoted into a seat that is not there, whatever is booked, cancelled or
\* edited at the same time.
PromotionFits ==
  [][(\E b \in Bookings : /\ rows[b] # None /\ rows[b].status = "waitlisted"
                          /\ rows'[b].status = "confirmed")
       => event'.capacity # None /\ event'.booked <= event'.capacity]_vars

\* Nobody is promoted past somebody who booked earlier, not even one who joined the
\* waitlist while the promotion was looking.
FirstInLine ==
  [][\A b, c \in Bookings :
       /\ rows[b] # None /\ rows[b].status = "waitlisted" /\ rows'[b].status = "confirmed"
       /\ rows[c] # None /\ rows[c].status = "waitlisted"
       => b <= c]_vars

\* Whatever was marked paid is in the revenue, whichever payments, waivers and
\* cancellations of the same bookings it crossed (some may be in it twice).
RevenueCoversPaid ==
  LET paid == {b \in Bookings : rows[b] # None /\ rows[b].payment = "paid"} IN
  /\ event.paid >= Cardinality(paid)
  /\ event.revenue >= SumFunction([b \in paid |-> rows[b].amount])

\* Seats in use are missing from tickets_booked only after a booking was cancelled
\* twice: no other crossing of bookings, cancellations and promotions loses one.
SeatsKept ==
  (\A b \in Bookings : rows[b] # None => rows[b].cancels <= 1)
    => event.booked >= SumFunction([b \in In("confirmed") |-> rows[b].tickets])

=============================================================================
