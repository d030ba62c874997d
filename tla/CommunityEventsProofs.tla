------------------------ MODULE CommunityEventsProofs ------------------------
(***************************************************************************)
(* Proofs about CommunityEvents, for any number of bookings, residents and *)
(* transactions.                                                           *)
(***************************************************************************)
EXTENDS CommunityEvents, SumLemmas, TLAPS

-----------------------------------------------------------------------------
(* The inductive invariant *)

Creating == {"count", "book"}

About == {"cancel", "release", "promote", "pay", "collect", "waive"}

\* A promotion under way still fits, and is still that of the first in line: the event's
\* row is locked.
PromotionSound(q) ==
  /\ q.row.status = "confirmed" /\ q.next # None /\ q.next # q.id
  /\ q.next \in In("waitlisted")
  /\ \A c \in In("waitlisted") : q.next <= c
  /\ event.capacity # None
  /\ Freed(q) + rows[q.next].tickets <= event.capacity

\* What a transaction has read of its booking, as far as it still holds.
Sound(q) ==
  /\ q.pc \in Creating => q.id # None /\ q.row # None /\ q.id <= begun /\ rows[q.id] = None
  /\ q.pc \in About => q.id # None /\ q.row # None /\ rows[q.id] # None
  /\ q.pc \in {"cancel", "release", "promote"} /\ q.row.status = "confirmed" =>
       rows[q.id].status # "waitlisted"
  /\ q.pc = "promote" => PromotionSound(q)

Apart ==
  \A r, s \in Reqs : r # s =>
    /\ req[r].pc \in Creating /\ req[s].pc \in Creating => req[r].id # req[s].id
    /\ req[r].pc = "promote" => req[s].pc # "promote"

EventsInv ==
  /\ TypeOK
  /\ \A r \in Reqs : Sound(req[r])
  /\ Apart
  /\ \A b \in Bookings : b > begun => rows[b] = None

-----------------------------------------------------------------------------
(* Helpers *)

LEMMA Distinct ==
  /\ None \notin Nat /\ None \notin Bookings /\ None \notin Booking
  /\ Bookings \subseteq Nat
BY EventsAssumption, BookingAssumption DEF Bookings

LEMMA IdleSound ==
  IdleRequest \in Request /\ Sound(IdleRequest) /\ IdleRequest.pc = "idle"
BY DEF IdleRequest, Request, PCs, Sound, Creating, About

\* What is true of a transaction that promotes nobody survives writes to other bookings.
LEMMA OthersSound ==
  ASSUME NEW q \in Request, Sound(q), q.pc # "promote", begun' >= begun, begun \in Nat, begun' \in Nat,
         \A b \in Bookings : rows[b] # None =>
           rows'[b] # None /\ (rows[b].status # "waitlisted" => rows'[b].status # "waitlisted"),
         q.pc \in Creating => rows'[q.id] = None
  PROVE  Sound(q)'
<1>1. q.id # None => q.id \in Bookings /\ q.id \in Nat
  BY Distinct DEF Request
<1>2. (q.pc \in Creating => q.id # None /\ q.row # None /\ q.id <= begun /\ rows[q.id] = None)'
  BY <1>1 DEF Sound
<1>3. (q.pc \in About => q.id # None /\ q.row # None /\ rows[q.id] # None)'
  BY <1>1 DEF Sound
<1>4. (q.pc \in {"cancel", "release", "promote"} /\ q.row.status = "confirmed" =>
         rows[q.id].status # "waitlisted")'
  BY <1>1 DEF Sound, About
<1> QED
  BY <1>2, <1>3, <1>4 DEF Sound

\* A step that writes nothing but the request.
LEMMA ContinueKeeps ==
  ASSUME EventsInv, NEW r \in Reqs, NEW q \in Request, Sound(q), Continue(r, q),
         q.pc \in Creating => req[r].pc \in Creating /\ req[r].id = q.id,
         q.pc = "promote" => EventFree(r)
  PROVE  EventsInv'
<1>1. req' = [req EXCEPT ![r] = q] /\ UNCHANGED <<event, rows, begun>>
  BY DEF Continue
<1>2. req' \in [Reqs -> Request] /\ req'[r] = q /\ \A s \in Reqs \ {r} : req'[s] = req[s]
  BY <1>1 DEF EventsInv, TypeOK
<1>3. TypeOK'
  BY <1>1, <1>2 DEF EventsInv, TypeOK
<1>4. \A s \in Reqs : Sound(req[s])'
  <2> TAKE s \in Reqs
  <2>1. PICK p : p = req'[s]
    OBVIOUS
  <2>2. Sound(p)
    BY <1>2, <2>1 DEF EventsInv
  <2>3. Sound(p)'
    BY <1>1, <2>2 DEF Sound, PromotionSound, In, Freed
  <2> QED
    BY <2>1, <2>3 DEF Sound, PromotionSound, In, Freed
<1>5. Apart'
  <2> SUFFICES ASSUME NEW s \in Reqs, NEW t \in Reqs, s # t
               PROVE  /\ req'[s].pc \in Creating /\ req'[t].pc \in Creating => req'[s].id # req'[t].id
                      /\ req'[s].pc = "promote" => req'[t].pc # "promote"
    BY DEF Apart
  <2>1. /\ req[s].pc \in Creating /\ req[t].pc \in Creating => req[s].id # req[t].id
        /\ req[s].pc = "promote" => req[t].pc # "promote"
    BY DEF EventsInv, Apart
  <2>2. CASE s = r
    BY <1>2, <2>1, <2>2 DEF EventFree
  <2>3. CASE t = r
    BY <1>2, <2>1, <2>3 DEF EventFree
  <2>4. CASE s # r /\ t # r
    BY <1>2, <2>1, <2>4
  <2> QED
    BY <2>2, <2>3, <2>4
<1> QED
  BY <1>1, <1>3, <1>4, <1>5 DEF EventsInv

\* A transaction that commits its writes, with nobody else in a promotion.
LEMMA CommitKeeps ==
  ASSUME EventsInv, NEW r \in Reqs, EventFree(r), Done(r), begun' = begun, event' \in Event,
         rows' \in [Bookings -> Booking \cup {None}],
         \A b \in Bookings : rows[b] # None =>
           rows'[b] # None /\ (rows[b].status # "waitlisted" => rows'[b].status # "waitlisted"),
         \A b \in Bookings : rows[b] = None /\ rows'[b] # None =>
           req[r].pc \in Creating /\ req[r].id = b
  PROVE  EventsInv'
<1>1. req' = [req EXCEPT ![r] = IdleRequest] /\ req \in [Reqs -> Request] /\ begun \in Nat
  BY DEF Done, EventsInv, TypeOK
<1>2. req' \in [Reqs -> Request] /\ req'[r] = IdleRequest /\ \A s \in Reqs \ {r} : req'[s] = req[s]
  BY <1>1, IdleSound
<1>3. TypeOK'
  BY <1>2 DEF EventsInv, TypeOK
<1>4. \A s \in Reqs : Sound(req[s])'
  <2> TAKE s \in Reqs
  <2>1. PICK q \in Request : q = req'[s]
    BY <1>2
  <2>2. Sound(q) /\ q.pc # "promote"
    BY <1>2, <2>1, IdleSound DEF EventsInv, EventFree
  <2>3. q.pc \in Creating => rows'[q.id] = None
    <3> SUFFICES ASSUME q.pc \in Creating
                 PROVE  rows'[q.id] = None
      OBVIOUS
    <3>1. s # r
      BY <1>2, <2>1, IdleSound DEF Creating
    <3>2. rows[q.id] = None /\ q.id \in Bookings
      BY <2>2 DEF Sound, Request
    <3>3. ~(req[r].pc \in Creating /\ req[r].id = q.id)
      BY <1>2, <2>1, <3>1 DEF EventsInv, Apart
    <3> QED
      BY <3>2, <3>3
  <2>4. Sound(q)'
    BY <1>1, <2>2, <2>3, OthersSound
  <2> QED
    BY <2>1, <2>4 DEF Sound, PromotionSound, In, Freed
<1>5. Apart'
  BY <1>2, IdleSound DEF EventsInv, Apart, Creating
<1>6. \A b \in Bookings : b > begun => rows'[b] = None
  <2> SUFFICES ASSUME NEW b \in Bookings, b > begun, rows'[b] # None
               PROVE  FALSE
    OBVIOUS
  <2>1. rows[b] = None
    BY DEF EventsInv
  <2>2. req[r].pc \in Creating /\ req[r].id = b
    BY <2>1
  <2>3. b <= begun
    BY <2>2 DEF EventsInv, Sound
  <2> QED
    BY <1>1, <2>3, Distinct
<1> QED
  BY <1>3, <1>4, <1>5, <1>6 DEF EventsInv

-----------------------------------------------------------------------------
(* The steps *)

\* What a transaction that commits has read, and where it stands.
LEMMA OwnFacts ==
  ASSUME EventsInv, NEW r \in Reqs
  PROVE  \E q \in Request :
           /\ q = req[r] /\ Sound(q)
           /\ q.pc \in Creating => /\ q.id \in Bookings /\ q.row \in Booking /\ rows[q.id] = None
           /\ q.pc \in About => /\ q.id \in Bookings /\ q.row \in Booking
                                /\ rows[q.id] \in Booking /\ rows[q.id] # None
<1>1. PICK q \in Request : q = req[r]
  BY DEF EventsInv, TypeOK
<1>2. Sound(q)
  BY <1>1 DEF EventsInv
<1>3. q.pc \in Creating => q.id \in Bookings /\ q.row \in Booking /\ rows[q.id] = None
  BY <1>2 DEF Sound, Request
<1>4. q.pc \in About => /\ q.id \in Bookings /\ q.row \in Booking
                        /\ rows[q.id] \in Booking /\ rows[q.id] # None
  BY <1>2 DEF Sound, Request, EventsInv, TypeOK
<1> QED
  BY <1>1, <1>2, <1>3, <1>4

LEMMA Aggregates ==
  ASSUME TypeOK, NEW q, q.row \in Booking
  PROVE  /\ Freed(q) \in Nat /\ Clamped(event.count - 1) \in Nat
         /\ Collected(q.row) \in Nat /\ q.row.tickets \in Nat
<1>1. PICK n \in Nat : n = q.row.tickets
  BY EventsAssumption DEF Booking
<1>2. PICK a \in Nat : a = q.row.amount
  BY EventsAssumption DEF Booking
<1>3. event.booked \in Nat /\ event.count \in Nat /\ event.revenue \in Nat
  BY DEF TypeOK, Event
<1>4. Freed(q) \in Nat
  BY <1>1, <1>3 DEF Freed, Clamped
<1> QED
  BY <1>1, <1>2, <1>3, <1>4 DEF Clamped, Collected

\* An event with other aggregates.
LEMMA AggregatesType ==
  ASSUME NEW e \in Event, NEW booked \in Nat, NEW count \in Nat, NEW paid \in Nat,
         NEW revenue \in Nat
  PROVE  /\ [e EXCEPT !.booked = booked, !.count = count, !.paid = paid,
                      !.revenue = revenue] \in Event
         /\ [e EXCEPT !.booked = booked, !.count = count] \in Event
         /\ [e EXCEPT !.paid = paid, !.revenue = revenue] \in Event
BY DEF Event

LEMMA BeginBookingKeeps ==
  ASSUME EventsInv, NEW r \in Reqs, NEW contact \in Contacts, NEW tickets \in Tickets,
         NEW amount \in Amounts, NEW staff \in BOOLEAN, NEW paid \in BOOLEAN,
         BeginBooking(r, contact, tickets, amount, staff, paid)
  PROVE  EventsInv'
<1>1. PICK row : row = [contact |-> contact, tickets |-> tickets,
              amount |-> IF event.type = "free" THEN 0 ELSE amount,
              status |-> IF staff THEN "confirmed" ELSE StatusFor(tickets),
              payment |-> IF event.type = "free" THEN "not_applicable"
                          ELSE IF paid THEN "paid" ELSE "pending",
              cancels |-> 0]
  OBVIOUS
<1>2. row \in Booking
  BY <1>1 DEF Booking, StatusFor
<1>3. event \in Event /\ begun \in Nat /\ begun < MaxBookings
  BY DEF BeginBooking, EventsInv, TypeOK
<1>4. begun + 1 \in Bookings /\ begun + 1 \in Nat /\ begun + 1 \in 0 .. MaxBookings
  BY <1>3, EventsAssumption DEF Bookings
<1>5. PICK b \in Bookings : b = begun + 1
  BY <1>4
<1>6. PICK limit \in Limits : limit = event.limit
  BY <1>3 DEF Event
<1>7. [IdleRequest EXCEPT !.pc = "count", !.id = b, !.row = row, !.limit = limit] \in Request
  BY <1>2, IdleSound DEF Request, PCs
<1>8. PICK q \in Request :
        q = [IdleRequest EXCEPT !.pc = "count", !.id = b, !.row = row, !.limit = limit]
  BY <1>7
<1>9. q.pc = "count" /\ q.id = b /\ q.row = row
  BY <1>8 DEF IdleRequest
<1>10. /\ req' = [req EXCEPT ![r] = q] /\ begun' = b /\ UNCHANGED <<event, rows>>
       /\ req[r].pc = "idle"
  BY <1>1, <1>5, <1>6, <1>8 DEF BeginBooking
<1>11. req' \in [Reqs -> Request] /\ req'[r] = q /\ \A s \in Reqs \ {r} : req'[s] = req[s]
  BY <1>10 DEF EventsInv, TypeOK
<1>12. TypeOK'
  BY <1>4, <1>5, <1>10, <1>11 DEF EventsInv, TypeOK
<1>13. b > begun /\ rows[b] = None
  BY <1>3, <1>5 DEF EventsInv
<1>14. \A s \in Reqs : Sound(req[s])'
  <2> TAKE s \in Reqs
  <2>1. PICK p \in Request : p = req'[s]
    BY <1>11
  <2>2. CASE s = r
    <3>1. p = q
      BY <1>11, <2>1, <2>2
    <3>2. Sound(p)'
      BY <1>2, <1>3, <1>5, <1>9, <1>10, <1>13, <3>1, Distinct DEF Sound, About
    <3> QED
      BY <2>1, <3>2 DEF Sound, PromotionSound, In, Freed
  <2>3. CASE s # r
    <3>1. Sound(p)
      BY <1>11, <2>1, <2>3 DEF EventsInv
    <3>2. p.pc = "promote" => PromotionSound(p)'
      BY <1>10, <3>1 DEF Sound, PromotionSound, In, Freed
    <3>3. p.id # None => p.id \in Nat
      BY Distinct DEF Request
    <3>4. p.pc \in Creating => p.id <= begun'
      BY <1>3, <1>5, <1>10, <3>1, <3>3 DEF Sound
    <3>5. Sound(p)'
      BY <1>10, <3>1, <3>2, <3>4 DEF Sound
    <3> QED
      BY <2>1, <3>5 DEF Sound, PromotionSound, In, Freed
  <2> QED
    BY <2>2, <2>3
<1>15. Apart'
  <2> SUFFICES ASSUME NEW s \in Reqs, NEW t \in Reqs, s # t
               PROVE  /\ req'[s].pc \in Creating /\ req'[t].pc \in Creating => req'[s].id # req'[t].id
                      /\ req'[s].pc = "promote" => req'[t].pc # "promote"
    BY DEF Apart
  <2>1. /\ req[s].pc \in Creating /\ req[t].pc \in Creating => req[s].id # req[t].id
        /\ req[s].pc = "promote" => req[t].pc # "promote"
    BY DEF EventsInv, Apart
  <2>2. \A u \in Reqs : req[u].pc \in Creating => req[u].id # b
    <3> SUFFICES ASSUME NEW u \in Reqs, req[u].pc \in Creating, req[u].id = b
                 PROVE  FALSE
      OBVIOUS
    <3>1. b <= begun
      BY DEF EventsInv, Sound
    <3> QED
      BY <1>3, <1>5, <3>1
  <2> QED
    BY <1>9, <1>11, <2>1, <2>2
<1>16. \A c \in Bookings : c > begun' => rows'[c] = None
  BY <1>3, <1>5, <1>10, Distinct DEF EventsInv
<1> QED
  BY <1>12, <1>14, <1>15, <1>16 DEF EventsInv

LEMMA CountTicketsKeeps ==
  ASSUME EventsInv, NEW r \in Reqs, CountTickets(r)
  PROVE  EventsInv'
<1>1. PICK q \in Request : q = req[r] /\ Sound(q)
  BY OwnFacts
<1> DEFINE q2 == [q EXCEPT !.pc = "book"]
<1>2. Continue(r, q2) /\ q.pc = "count"
  BY <1>1 DEF CountTickets
<1>3. q2 \in Request
  BY DEF Request, PCs
<1>4. q2.pc = "book" /\ q2.id = q.id /\ q2.row = q.row
  BY DEF Request
<1> HIDE DEF q2
<1>5. Sound(q2)
  BY <1>1, <1>2, <1>4 DEF Sound, Creating, About
<1> QED
  BY <1>1, <1>2, <1>3, <1>4, <1>5, ContinueKeeps DEF Creating

LEMMA BookKeeps ==
  ASSUME EventsInv, NEW r \in Reqs, Book(r)
  PROVE  EventsInv'
<1>1. PICK q \in Request : /\ q = req[r] /\ q.pc = "book" /\ q.id \in Bookings
                           /\ q.row \in Booking /\ rows[q.id] = None
  BY OwnFacts DEF Book, Creating
<1>2. rows' = [rows EXCEPT ![q.id] = q.row] /\ rows \in [Bookings -> Booking \cup {None}]
  BY <1>1 DEF Book, EventsInv, TypeOK
<1>3. event' \in Event
  <2>1. Collected(q.row) \in Nat /\ q.row.tickets \in Nat
    BY <1>1, Aggregates DEF EventsInv
  <2>2. PICK e \in Event : e = event
    BY DEF EventsInv, TypeOK
  <2>3. e.booked \in Nat /\ e.count \in Nat /\ e.paid \in Nat /\ e.revenue \in Nat
    BY DEF Event
  <2>4. PICK booked \in Nat : booked = IF q.row.status = "confirmed" THEN e.booked + q.row.tickets
                                                                     ELSE e.booked
    BY <2>1, <2>3
  <2>5. PICK paid \in Nat : paid = IF q.row.payment = "paid" THEN e.paid + 1 ELSE e.paid
    BY <2>3
  <2>6. PICK revenue \in Nat :
          revenue = IF q.row.payment = "paid" THEN Collected(q.row) ELSE e.revenue
    BY <2>1, <2>3
  <2>7. PICK count \in Nat : count = e.count + 1
    BY <2>3
  <2>8. event' = [e EXCEPT !.booked = booked, !.count = count, !.paid = paid,
                           !.revenue = revenue]
    BY <1>1, <2>2, <2>4, <2>5, <2>6, <2>7 DEF Book
  <2> QED
    BY <2>8, AggregatesType
<1>4. rows' \in [Bookings -> Booking \cup {None}] /\ \A b \in Bookings \ {q.id} : rows'[b] = rows[b]
  BY <1>1, <1>2
<1> QED
  BY <1>1, <1>3, <1>4, CommitKeeps DEF Book, Creating

\* A transaction that has read a booking.
LEMMA BeginWithKeeps ==
  ASSUME EventsInv, NEW r \in Reqs, NEW b \in Bookings, NEW pc \in {"cancel", "pay", "waive"},
         BeginWith(r, b, pc)
  PROVE  EventsInv'
<1>1. PICK row \in Booking : row = rows[b]
  BY DEF BeginWith, EventsInv, TypeOK
<1>2. [IdleRequest EXCEPT !.pc = pc, !.id = b, !.row = row] \in Request
  BY IdleSound DEF Request, PCs
<1>3. PICK q \in Request : q = [IdleRequest EXCEPT !.pc = pc, !.id = b, !.row = row]
  BY <1>2
<1>4. q.pc = pc /\ q.id = b /\ q.row = row
  BY <1>3 DEF IdleRequest
<1>5. Sound(q)
  BY <1>1, <1>4, Distinct DEF Sound, Creating, BeginWith
<1>6. Continue(r, q)
  BY <1>1, <1>3 DEF BeginWith
<1> QED
  BY <1>4, <1>5, <1>6, ContinueKeeps DEF Creating

LEMMA LockBookingKeeps ==
  ASSUME EventsInv, NEW r \in Reqs, LockBooking(r)
  PROVE  EventsInv'
<1>1. PICK q \in Request : q = req[r] /\ Sound(q)
  BY OwnFacts
<1>2. PICK pc \in {"release", "collect"} : pc = IF q.pc = "cancel" THEN "release" ELSE "collect"
  OBVIOUS
<1> DEFINE q2 == [q EXCEPT !.pc = pc]
<1>3. Continue(r, q2) /\ q.pc \in {"cancel", "pay"}
  BY <1>1, <1>2 DEF LockBooking
<1>4. q2 \in Request
  BY DEF Request, PCs
<1>5. q2.pc = pc /\ q2.id = q.id /\ q2.row = q.row
  BY DEF Request
<1> HIDE DEF q2
<1>6. Sound(q2)
  BY <1>1, <1>2, <1>3, <1>5 DEF Sound, Creating, About
<1> QED
  BY <1>3, <1>4, <1>5, <1>6, ContinueKeeps DEF Creating

\* A cancelled booking is a booking, with nothing else changed.
LEMMA CancelledType ==
  ASSUME NEW row \in Booking
  PROVE  /\ Cancelled(row) \in Booking /\ Cancelled(row).status = "cancelled"
         /\ Cancelled(row).cancels = row.cancels + 1 /\ Cancelled(row).payment = row.payment
         /\ Cancelled(row).tickets = row.tickets /\ Cancelled(row).amount = row.amount
<1>1. PICK n \in Nat : n = row.cancels + 1
  BY DEF Booking
<1>2. Cancelled(row) = [row EXCEPT !.status = "cancelled", !.cancels = n]
  BY <1>1 DEF Cancelled
<1> QED
  BY <1>1, <1>2 DEF Booking

LEMMA ReleaseKeeps ==
  ASSUME EventsInv, NEW r \in Reqs, Release(r)
  PROVE  EventsInv'
<1>1. PICK q \in Request : /\ q = req[r] /\ q.id \in Bookings /\ q.row \in Booking
                           /\ rows[q.id] \in Booking /\ rows[q.id] # None
  BY OwnFacts DEF Release, About
<1>2. PICK row \in Booking : row = Cancelled(rows[q.id]) /\ row.status = "cancelled"
  BY <1>1, CancelledType
<1>3. rows' = [rows EXCEPT ![q.id] = row] /\ rows \in [Bookings -> Booking \cup {None}]
  BY <1>1, <1>2 DEF Release, EventsInv, TypeOK
<1>4. event' \in Event
  <2>1. PICK e \in Event : e = event
    BY DEF EventsInv, TypeOK
  <2>2. PICK booked \in Nat, count \in Nat : booked = Freed(q) /\ count = Clamped(event.count - 1)
    BY <1>1, Aggregates DEF EventsInv
  <2>3. event' = [e EXCEPT !.booked = booked, !.count = count]
    BY <1>1, <2>1, <2>2 DEF Release
  <2> QED
    BY <2>3, AggregatesType
<1>5. /\ rows' \in [Bookings -> Booking \cup {None}] /\ rows'[q.id] = row
      /\ \A b \in Bookings \ {q.id} : rows'[b] = rows[b]
  BY <1>1, <1>3
<1> QED
  BY <1>1, <1>2, <1>4, <1>5, Distinct, CommitKeeps DEF Release

LEMMA BeginPromotionKeeps ==
  ASSUME EventsInv, NEW r \in Reqs, BeginPromotion(r)
  PROVE  EventsInv'
<1>1. PICK q \in Request : q = req[r] /\ Sound(q) /\ q.row \in Booking /\ q.pc = "release"
  BY OwnFacts DEF BeginPromotion, About
<1>2. PICK b \in Promoted(q) : Continue(r, [q EXCEPT !.pc = "promote", !.next = b])
  BY <1>1 DEF BeginPromotion
<1> DEFINE q2 == [q EXCEPT !.pc = "promote", !.next = b]
<1>3. q2 \in Request
  <2>1. b \in Bookings
    BY <1>2 DEF Promoted, In
  <2> QED
    BY <2>1 DEF Request, PCs
<1>4. q2.pc = "promote" /\ q2.next = b /\ q2.id = q.id /\ q2.row = q.row
  BY DEF Request
<1>5. Continue(r, q2)
  BY <1>2
<1> HIDE DEF q2
<1>6. rows[q.id].status # "waitlisted" /\ q.row.status = "confirmed"
  BY <1>1, <1>2 DEF Sound, Promoted
<1>7. \A c \in In("waitlisted") : c # q.id
  BY <1>6 DEF In
<1>8. PromotionSound(q2)
  <2>1. Freed(q2) = Freed(q)
    BY <1>4 DEF Freed
  <2>2. b # None
    BY <1>2, Distinct DEF Promoted, In
  <2> QED
    BY <1>2, <1>4, <1>6, <1>7, <2>1, <2>2 DEF PromotionSound, Promoted
<1>9. Sound(q2)
  BY <1>1, <1>4, <1>6, <1>8 DEF Sound, Creating, About
<1> QED
  BY <1>3, <1>4, <1>5, <1>9, ContinueKeeps DEF Creating, BeginPromotion

Confirmed(row) == [row EXCEPT !.status = "confirmed"]

\* What a promotion writes.
LEMMA PromoteFacts ==
  ASSUME EventsInv, NEW r \in Reqs, Promote(r)
  PROVE  \E q \in Request, row, next \in Booking :
           /\ q = req[r] /\ q.id \in Bookings /\ q.next \in Bookings /\ q.next # q.id
           /\ q.row \in Booking /\ PromotionSound(q)
           /\ row.status = "cancelled" /\ next.status = "confirmed"
           /\ rows[q.id] # None /\ rows[q.id].status # "waitlisted"
           /\ rows' \in [Bookings -> Booking \cup {None}]
           /\ rows'[q.id] = row /\ rows'[q.next] = next
           /\ \A b \in Bookings \ {q.id, q.next} : rows'[b] = rows[b]
           /\ event'.booked <= event'.capacity /\ event'.capacity # None
           /\ event' \in Event
           /\ row = Cancelled(rows[q.id]) /\ next = Confirmed(rows[q.next])
           /\ event'.booked = Freed(q) + rows[q.next].tickets
           /\ event'.paid = event.paid /\ event'.revenue = event.revenue
<1>1. PICK q \in Request : /\ q = req[r] /\ Sound(q) /\ q.pc = "promote"
                           /\ q.id \in Bookings /\ q.row \in Booking
                           /\ rows[q.id] \in Booking /\ rows[q.id] # None
  BY OwnFacts DEF Promote, About
<1>2. PromotionSound(q) /\ q.next \in Bookings /\ q.next # q.id
  BY <1>1 DEF Sound, PromotionSound, In
<1>3. rows[q.next] # None /\ rows \in [Bookings -> Booking \cup {None}] /\ rows[q.next] \in Booking
  BY <1>2 DEF PromotionSound, In, EventsInv, TypeOK
<1>4. PICK row \in Booking : row = Cancelled(rows[q.id]) /\ row.status = "cancelled"
  BY <1>1, CancelledType
<1>5. PICK old \in Booking : old = rows[q.next]
  BY <1>3
<1>6. PICK next \in Booking : next = [old EXCEPT !.status = "confirmed"] /\ next.status = "confirmed"
  <2>1. [old EXCEPT !.status = "confirmed"] \in Booking
    BY DEF Booking
  <2>2. [old EXCEPT !.status = "confirmed"].status = "confirmed"
    BY DEF Booking
  <2> QED
    BY <2>1, <2>2
<1>7. rows' = [rows EXCEPT ![q.id] = row, ![q.next] = next]
  BY <1>1, <1>2, <1>3, <1>4, <1>5, <1>6 DEF Promote
<1>8. /\ rows' \in [Bookings -> Booking \cup {None}]
      /\ rows'[q.id] = row /\ rows'[q.next] = next
      /\ \A b \in Bookings \ {q.id, q.next} : rows'[b] = rows[b]
  BY <1>1, <1>2, <1>3, <1>7
<1>9. rows[q.id].status # "waitlisted"
  BY <1>1, <1>2 DEF Sound, PromotionSound
<1>10. PICK n \in Nat : n = old.tickets
  BY EventsAssumption DEF Booking
<1>11. PICK e \in Event : e = event
  BY DEF EventsInv, TypeOK
<1>12. PICK freed \in Nat, count \in Nat : freed = Freed(q) /\ count = Clamped(event.count - 1)
  BY <1>1, Aggregates DEF EventsInv
<1>13. /\ event' \in Event /\ event'.booked = Freed(q) + n /\ event'.capacity = event.capacity
       /\ event'.paid = event.paid /\ event'.revenue = event.revenue
  <2>1. PICK booked \in Nat : booked = freed + n
    OBVIOUS
  <2>2. event' = [e EXCEPT !.booked = booked, !.count = count]
    BY <1>1, <1>5, <1>10, <1>11, <1>12, <2>1 DEF Promote
  <2>3. event' \in Event
    BY <2>2, AggregatesType
  <2>4. event'.booked = booked
    BY <2>2 DEF Event
  <2>5. event'.capacity = e.capacity /\ event'.paid = e.paid /\ event'.revenue = e.revenue
    BY <2>2 DEF Event
  <2> QED
    BY <1>11, <1>12, <2>1, <2>3, <2>4, <2>5
<1>14. event'.booked <= event'.capacity /\ event'.capacity # None
  BY <1>2, <1>5, <1>10, <1>13 DEF PromotionSound
<1>15. next = Confirmed(rows[q.next]) /\ event'.booked = Freed(q) + rows[q.next].tickets
  BY <1>5, <1>6, <1>10, <1>13 DEF Confirmed
<1> QED
  BY <1>1, <1>2, <1>4, <1>6, <1>8, <1>9, <1>13, <1>14, <1>15

LEMMA PromoteKeeps ==
  ASSUME EventsInv, NEW r \in Reqs, Promote(r)
  PROVE  EventsInv'
<1>1. PICK q \in Request, row, next \in Booking :
        /\ q = req[r] /\ q.next \in In("waitlisted") /\ q.id \in Bookings /\ q.next \in Bookings
        /\ row.status = "cancelled" /\ next.status = "confirmed" /\ rows[q.id] # None
        /\ rows' \in [Bookings -> Booking \cup {None}]
        /\ rows'[q.id] = row /\ rows'[q.next] = next
        /\ \A b \in Bookings \ {q.id, q.next} : rows'[b] = rows[b]
        /\ event' \in Event
  BY PromoteFacts DEF PromotionSound
<1>2. rows[q.next] # None
  BY <1>1 DEF In
<1>3. EventFree(r)
  BY DEF Promote, EventsInv, Apart, EventFree
<1>4. \A b \in Bookings : rows[b] # None =>
        rows'[b] # None /\ (rows[b].status # "waitlisted" => rows'[b].status # "waitlisted")
  BY <1>1, Distinct
<1>5. \A b \in Bookings : ~(rows[b] = None /\ rows'[b] # None)
  BY <1>1, <1>2
<1> QED
  BY <1>1, <1>3, <1>4, <1>5, CommitKeeps DEF Promote

\* A payment changes nothing of a booking but how it is paid.
LEMMA PaymentType ==
  ASSUME NEW row \in Booking, NEW payment \in {"paid", "waived"}
  PROVE  /\ [row EXCEPT !.payment = payment] \in Booking
         /\ [row EXCEPT !.payment = payment].status = row.status
         /\ [row EXCEPT !.payment = payment].tickets = row.tickets
         /\ [row EXCEPT !.payment = payment].amount = row.amount
         /\ [row EXCEPT !.payment = payment].cancels = row.cancels
         /\ [row EXCEPT !.payment = payment].payment = payment
BY DEF Booking

LEMMA MarkPaidKeeps ==
  ASSUME EventsInv, NEW r \in Reqs, MarkPaid(r)
  PROVE  EventsInv'
<1>1. PICK q \in Request : /\ q = req[r] /\ q.id \in Bookings /\ q.row \in Booking
                           /\ rows[q.id] \in Booking /\ rows[q.id] # None
  BY OwnFacts DEF MarkPaid, About
<1>2. PICK row \in Booking : row = [rows[q.id] EXCEPT !.payment = "paid"] /\ row.status = rows[q.id].status
  BY <1>1, PaymentType
<1>3. rows' = [rows EXCEPT ![q.id] = row] /\ rows \in [Bookings -> Booking \cup {None}]
  BY <1>1, <1>2 DEF MarkPaid, EventsInv, TypeOK
<1>4. event' \in Event
  <2>1. PICK e \in Event : e = event
    BY DEF EventsInv, TypeOK
  <2>2. PICK revenue \in Nat : revenue = Collected(q.row)
    BY <1>1, Aggregates DEF EventsInv
  <2>3. PICK paid \in Nat : paid = e.paid + 1
    BY DEF Event
  <2>4. event' = [e EXCEPT !.paid = paid, !.revenue = revenue]
    BY <1>1, <2>1, <2>2, <2>3 DEF MarkPaid
  <2> QED
    BY <2>4, AggregatesType
<1>5. /\ rows' \in [Bookings -> Booking \cup {None}] /\ rows'[q.id] = row
      /\ \A b \in Bookings \ {q.id} : rows'[b] = rows[b]
  BY <1>1, <1>3
<1> QED
  BY <1>1, <1>2, <1>4, <1>5, Distinct, CommitKeeps DEF MarkPaid

LEMMA MarkWaivedKeeps ==
  ASSUME EventsInv, NEW r \in Reqs, MarkWaived(r)
  PROVE  EventsInv'
<1>1. PICK q \in Request : /\ q = req[r] /\ q.id \in Bookings /\ q.pc = "waive"
                           /\ rows[q.id] \in Booking /\ rows[q.id] # None
  BY OwnFacts DEF MarkWaived, About
<1>2. PICK row \in Booking : /\ row = [rows[q.id] EXCEPT !.payment = "waived"]
                             /\ row.status = rows[q.id].status /\ row.tickets = rows[q.id].tickets
  BY <1>1, PaymentType
<1>3. /\ rows' = [rows EXCEPT ![q.id] = row] /\ rows \in [Bookings -> Booking \cup {None}]
      /\ event' = event /\ begun' = begun /\ req' = [req EXCEPT ![r] = IdleRequest]
  BY <1>1, <1>2 DEF MarkWaived, Done, EventsInv, TypeOK
<1>4. /\ rows' \in [Bookings -> Booking \cup {None}] /\ rows'[q.id] = row
      /\ \A b \in Bookings \ {q.id} : rows'[b] = rows[b]
  BY <1>1, <1>3
<1>5. req' \in [Reqs -> Request] /\ req'[r] = IdleRequest /\ \A s \in Reqs \ {r} : req'[s] = req[s]
  BY <1>3, IdleSound DEF EventsInv, TypeOK
<1>6. TypeOK'
  BY <1>3, <1>4, <1>5 DEF EventsInv, TypeOK
<1>7. \A b \in Bookings : /\ (rows'[b] = None <=> rows[b] = None)
                          /\ rows[b] # None => /\ rows'[b].status = rows[b].status
                                               /\ rows'[b].tickets = rows[b].tickets
  BY <1>1, <1>2, <1>4, Distinct
<1>8. In("waitlisted")' = In("waitlisted")
  BY <1>7 DEF In
<1>9. \A s \in Reqs : Sound(req[s])'
  <2> TAKE s \in Reqs
  <2>1. PICK p \in Request : p = req'[s]
    BY <1>5
  <2>2. Sound(p)
    BY <1>5, <2>1, IdleSound DEF EventsInv
  <2>3. p.id # None => p.id \in Bookings
    BY DEF Request
  <2>4. p.pc = "promote" => PromotionSound(p)'
    BY <1>3, <1>7, <1>8, <2>2 DEF Sound, PromotionSound, Freed, In
  <2>5. Sound(p)'
    BY <1>3, <1>7, <2>2, <2>3, <2>4 DEF Sound, About
  <2> QED
    BY <2>1, <2>5 DEF Sound, PromotionSound, In, Freed
<1>10. Apart'
  BY <1>5, IdleSound DEF EventsInv, Apart, Creating
<1>11. \A b \in Bookings : b > begun' => rows'[b] = None
  BY <1>3, <1>7 DEF EventsInv
<1> QED
  BY <1>6, <1>9, <1>10, <1>11 DEF EventsInv

\* Requests about the event.
LEMMA BeginEventKeeps ==
  ASSUME EventsInv, NEW r \in Reqs, NEW pc \in {"publish", "edit"},
         Continue(r, [IdleRequest EXCEPT !.pc = pc])
  PROVE  EventsInv'
<1> DEFINE q == [IdleRequest EXCEPT !.pc = pc]
<1>1. q \in Request /\ q.pc = pc
  BY IdleSound DEF Request, PCs
<1>2. Sound(q)
  BY <1>1 DEF Sound, Creating, About
<1> HIDE DEF q
<1> QED
  BY <1>1, <1>2, ContinueKeeps DEF Creating, q

LEMMA WriteEventKeeps ==
  ASSUME EventsInv, NEW r \in Reqs, WriteEvent(r)
  PROVE  EventsInv'
<1>1. event \in Event /\ rows \in [Bookings -> Booking \cup {None}]
  BY DEF EventsInv, TypeOK
<1>2. event' \in Event
  <2>1. event.capacity \in Capacities
    BY <1>1 DEF Event
  <2> QED
    BY <1>1, <2>1 DEF WriteEvent, Event
<1>3. UNCHANGED <<rows, begun>> /\ EventFree(r) /\ Done(r)
  BY DEF WriteEvent
<1> QED
  BY <1>1, <1>2, <1>3, CommitKeeps

LEMMA SetStatusKeeps ==
  ASSUME EventsInv, SetStatus
  PROVE  EventsInv'
<1>1. UNCHANGED <<rows, begun, req>> /\ \A s \in Reqs : req[s].pc # "promote"
  BY DEF SetStatus
<1>2. event' \in Event
  BY DEF SetStatus, EventsInv, TypeOK, Event
<1>3. TypeOK' /\ Apart'
  BY <1>1, <1>2 DEF EventsInv, TypeOK, Apart
<1>4. \A s \in Reqs : Sound(req[s])'
  BY <1>1 DEF EventsInv, Sound
<1> QED
  BY <1>1, <1>3, <1>4 DEF EventsInv

LEMMA AbortKeeps ==
  ASSUME EventsInv, NEW r \in Reqs, Abort(r)
  PROVE  EventsInv'
BY IdleSound, ContinueKeeps DEF Abort, Creating

-----------------------------------------------------------------------------
(* The invariant *)

LEMMA InitEventsInv == Init => EventsInv
<1> SUFFICES ASSUME Init
             PROVE  EventsInv
  OBVIOUS
<1>1. event \in Event
  <2>1. event \in [status : {"draft", "published"}, deleted : {FALSE}, type : Types,
                  capacity : Capacities, limit : Limits,
                  booked : {0}, count : {0}, paid : {0}, revenue : {0}]
    BY DEF Init
  <2>2. event = [status |-> event.status, deleted |-> event.deleted, type |-> event.type,
                 capacity |-> event.capacity, limit |-> event.limit,
                 booked |-> event.booked, count |-> event.count, paid |-> event.paid,
                 revenue |-> event.revenue]
    BY <2>1
  <2>3. /\ event.type \in Types /\ event.capacity \in Capacities /\ event.limit \in Limits
        /\ event.booked \in Nat /\ event.count \in Nat /\ event.paid \in Nat
        /\ event.revenue \in Nat
    BY <2>1
  <2>4. event.status \in {"draft", "published", "cancelled", "completed"}
    BY <2>1
  <2>5. event.deleted \in BOOLEAN
    BY <2>1, Zenon
  <2> QED
    BY <2>2, <2>3, <2>4, <2>5 DEF Event
<1>2. \A r \in Reqs : req[r] = IdleRequest
  BY DEF Init
<1>3. TypeOK
  BY <1>1, IdleSound, EventsAssumption DEF Init, TypeOK
<1>4. Apart /\ \A r \in Reqs : Sound(req[r])
  BY <1>2, IdleSound DEF Apart, Creating
<1> QED
  BY <1>3, <1>4 DEF Init, EventsInv

LEMMA StutterKeeps ==
  ASSUME EventsInv, UNCHANGED vars
  PROVE  EventsInv'
<1>1. UNCHANGED <<event, rows, begun, req>>
  BY DEF vars
<1> QED
  BY <1>1 DEF EventsInv, TypeOK, Apart, Sound, PromotionSound, In, Freed

LEMMA NextKeeps == EventsInv /\ [Next]_vars => EventsInv'
<1> SUFFICES ASSUME EventsInv, [Next]_vars
             PROVE  EventsInv'
  OBVIOUS
<1>1. CASE UNCHANGED vars
  BY <1>1, StutterKeeps
<1>2. CASE SetStatus
  BY <1>2, SetStatusKeeps
<1>3. ASSUME NEW r \in Reqs, Begin(r)
      PROVE  EventsInv'
  <2>1. ASSUME NEW c \in Contacts, NEW n \in Tickets, NEW amount \in Amounts,
               NEW staff \in BOOLEAN, NEW paid \in BOOLEAN,
               BeginBooking(r, c, n, amount, staff, paid)
        PROVE  EventsInv'
    BY <2>1, BeginBookingKeeps
  <2>2. ASSUME NEW b \in Bookings, BeginCancel(r, b)
        PROVE  EventsInv'
    BY <2>2, BeginWithKeeps DEF BeginCancel
  <2>3. ASSUME NEW b \in Bookings \cap Payables, NEW pc \in {"pay", "waive"},
               BeginPayment(r, b, pc)
        PROVE  EventsInv'
    BY <2>3, BeginWithKeeps DEF BeginPayment
  <2>4. CASE BeginPublish(r)
    BY <2>4, BeginEventKeeps DEF BeginPublish
  <2>5. CASE BeginEdit(r)
    BY <2>5, BeginEventKeeps DEF BeginEdit
  <2> QED
    BY <1>3, <2>1, <2>2, <2>3, <2>4, <2>5 DEF Begin
<1>4. ASSUME NEW r \in Reqs, Continued(r)
      PROVE  EventsInv'
  BY <1>4, CountTicketsKeeps, BookKeeps, LockBookingKeeps, ReleaseKeeps, BeginPromotionKeeps,
     PromoteKeeps, MarkPaidKeeps, MarkWaivedKeeps, WriteEventKeeps DEF Continued
<1>5. ASSUME NEW r \in Reqs, Abort(r)
      PROVE  EventsInv'
  BY <1>5, AbortKeeps
<1> QED
  BY <1>1, <1>2, <1>3, <1>4, <1>5 DEF Next

LEMMA SpecEventsInv == Spec => []EventsInv
BY InitEventsInv, NextKeeps, PTL DEF Spec

-----------------------------------------------------------------------------
(* Theorems *)

\* Every variable stays in its type: the aggregates of the event never become negative
\* (adjust_event_aggregates_on_booking).
THEOREM EventsTypeCorrect == Spec => []TypeOK
<1>1. EventsInv => TypeOK
  BY DEF EventsInv
<1> QED
  BY <1>1, SpecEventsInv, PTL

\* What a step does to the bookings: at most one is promoted, by Promote; none of the
\* others becomes confirmed, and none that was cancelled becomes anything else.
LEMMA BookingsWritten ==
  ASSUME EventsInv, Next, NEW b \in Bookings, rows[b] # None
  PROVE  \/ \E r \in Reqs : Promote(r)
         \/ rows'[b].status \in {rows[b].status, "cancelled"}
<1>1. PICK old \in Booking : old = rows[b]
  BY DEF EventsInv, TypeOK
<1>2. rows \in [Bookings -> Booking \cup {None}]
  BY DEF EventsInv, TypeOK
<1>3. CASE SetStatus
  BY <1>3 DEF SetStatus
<1>4. ASSUME NEW r \in Reqs, Begin(r) \/ Abort(r) \/ CountTickets(r) \/ LockBooking(r)
                             \/ BeginPromotion(r) \/ WriteEvent(r)
      PROVE  rows' = rows
  BY <1>4 DEF Begin, BeginBooking, BeginCancel, BeginPayment, BeginWith, BeginPublish, BeginEdit,
     Abort, CountTickets, LockBooking, BeginPromotion, WriteEvent, Continue
<1>5. ASSUME NEW r \in Reqs, Book(r)
      PROVE  rows'[b] = rows[b]
  <2>1. rows[req[r].id] = None
    BY <1>5, OwnFacts DEF Book, Creating
  <2> QED
    BY <1>2, <1>5, <2>1 DEF Book
<1>6. ASSUME NEW r \in Reqs, Release(r)
      PROVE  rows'[b].status \in {rows[b].status, "cancelled"}
  BY <1>1, <1>2, <1>6, CancelledType DEF Release
<1>7. ASSUME NEW r \in Reqs, MarkPaid(r) \/ MarkWaived(r)
      PROVE  rows'[b].status = rows[b].status
  <2>1. PICK id : \/ rows' = [rows EXCEPT ![id].payment = "paid"]
                  \/ rows' = [rows EXCEPT ![id].payment = "waived"]
    BY <1>7 DEF MarkPaid, MarkWaived
  <2>2. CASE id = b
    <3>1. \/ rows'[b] = [old EXCEPT !.payment = "paid"]
          \/ rows'[b] = [old EXCEPT !.payment = "waived"]
      BY <1>1, <1>2, <2>1, <2>2
    <3> QED
      BY <1>1, <3>1, PaymentType
  <2>3. CASE id # b
    BY <1>2, <2>1, <2>3
  <2> QED
    BY <2>2, <2>3
<1> QED
  BY <1>3, <1>4, <1>5, <1>6, <1>7 DEF Next, Continued

\* A cancelled booking stays cancelled, although a promotion confirms the booking it has
\* read without asking again (_promote_waitlist).
THEOREM AlwaysCancelledStays == Spec => CancelledStays
<1>1. EventsInv /\ [Next]_vars =>
        [\A b \in Bookings :
           rows[b] # None /\ rows[b].status = "cancelled" => rows'[b].status = "cancelled"]_vars
  <2> SUFFICES ASSUME EventsInv, Next, NEW b \in Bookings, rows[b] # None,
                      rows[b].status = "cancelled"
               PROVE  rows'[b].status = "cancelled"
    OBVIOUS
  <2>1. ASSUME NEW r \in Reqs, Promote(r)
        PROVE  rows'[b].status = "cancelled"
    <3>1. PICK q \in Request, row \in Booking :
            /\ q.next \in In("waitlisted") /\ row.status = "cancelled" /\ rows'[q.id] = row
            /\ \A c \in Bookings \ {q.id, q.next} : rows'[c] = rows[c]
      BY <2>1, PromoteFacts DEF PromotionSound
    <3>2. b # q.next
      BY <3>1 DEF In
    <3> QED
      BY <3>1, <3>2
  <2> QED
    BY <2>1, BookingsWritten
<1> QED
  BY <1>1, SpecEventsInv, PTL DEF Spec, CancelledStays

\* After a promotion the tickets booked are within the capacity (_promote_waitlist).
THEOREM AlwaysPromotionFits == Spec => PromotionFits
<1>1. EventsInv /\ [Next]_vars =>
        [(\E b \in Bookings : /\ rows[b] # None /\ rows[b].status = "waitlisted"
                              /\ rows'[b].status = "confirmed")
           => event'.capacity # None /\ event'.booked <= event'.capacity]_vars
  <2> SUFFICES ASSUME EventsInv, Next, NEW b \in Bookings, rows[b] # None,
                      rows[b].status = "waitlisted", rows'[b].status = "confirmed"
               PROVE  event'.capacity # None /\ event'.booked <= event'.capacity
    OBVIOUS
  <2>1. PICK r \in Reqs : Promote(r)
    BY BookingsWritten
  <2> QED
    BY <2>1, PromoteFacts
<1> QED
  BY <1>1, SpecEventsInv, PTL DEF Spec, PromotionFits

\* The booking that is promoted was made before all others on the waitlist
\* (fetch_oldest_waitlisted_booking).
THEOREM AlwaysFirstInLine == Spec => FirstInLine
<1>1. EventsInv /\ [Next]_vars =>
        [\A b, c \in Bookings :
           /\ rows[b] # None /\ rows[b].status = "waitlisted" /\ rows'[b].status = "confirmed"
           /\ rows[c] # None /\ rows[c].status = "waitlisted"
           => b <= c]_vars
  <2> SUFFICES ASSUME EventsInv, Next, NEW b \in Bookings, NEW c \in Bookings,
                      rows[b] # None, rows[b].status = "waitlisted",
                      rows'[b].status = "confirmed",
                      rows[c] # None, rows[c].status = "waitlisted"
               PROVE  b <= c
    OBVIOUS
  <2>1. PICK r \in Reqs : Promote(r)
    BY BookingsWritten
  <2>2. PICK q \in Request, row \in Booking :
          /\ PromotionSound(q) /\ row.status = "cancelled" /\ rows'[q.id] = row
          /\ \A d \in Bookings \ {q.id, q.next} : rows'[d] = rows[d]
    BY <2>1, PromoteFacts
  <2>3. b = q.next
    BY <2>2
  <2>4. c \in In("waitlisted")
    BY DEF In
  <2> QED
    BY <2>2, <2>3, <2>4 DEF PromotionSound
<1> QED
  BY <1>1, SpecEventsInv, PTL DEF Spec, FirstInLine

-----------------------------------------------------------------------------
(* Sums over the bookings *)

\* What a booking has of the seats, and has brought to the revenue.
SeatsOf(row) == IF row # None /\ row.status = "confirmed" THEN row.tickets ELSE 0

TakingsOf(row) == IF row # None /\ row.payment = "paid" THEN row.amount ELSE 0

AllSeats(rs) == SumFunctionOnSet([b \in Bookings |-> SeatsOf(rs[b])], Bookings)

AllTakings(rs) == SumFunctionOnSet([b \in Bookings |-> TakingsOf(rs[b])], Bookings)

RowTable == [Bookings -> Booking \cup {None}]

\* The terms of a booking are numbers.
LEMMA TermsType ==
  ASSUME NEW row \in Booking
  PROVE  row.tickets \in Nat /\ row.amount \in Nat /\ row.cancels \in Nat
<1>1. row.tickets \in Tickets /\ row.amount \in Amounts \cup {0} /\ row.cancels \in Nat
  BY DEF Booking
<1>2. Tickets \subseteq Nat /\ Amounts \cup {0} \subseteq Nat
  BY EventsAssumption
<1> QED
  BY <1>1, <1>2

LEMMA SeatsNatural ==
  ASSUME NEW row \in Booking \cup {None}
  PROVE  SeatsOf(row) \in Nat /\ TakingsOf(row) \in Nat
BY TermsType DEF SeatsOf, TakingsOf

LEMMA BookingsFinite == IsFiniteSet(Bookings)
BY FS_Interval, EventsAssumption DEF Bookings

\* The sums of the properties, over the bookings that have what is summed.
LEMMA SeatsSum ==
  ASSUME NEW rs \in RowTable,
         NEW confirmed, confirmed = {b \in Bookings : rs[b] # None /\ rs[b].status = "confirmed"}
  PROVE  SumFunction([b \in confirmed |-> rs[b].tickets]) = AllSeats(rs)
<1> DEFINE part == [b \in confirmed |-> rs[b].tickets]
           all  == [b \in Bookings |-> SeatsOf(rs[b])]
<1>1. \A b \in Bookings : all[b] \in Int
  BY SeatsNatural DEF RowTable
<1>2. \A b \in Bookings \ confirmed : all[b] = 0
  BY DEF SeatsOf
<1>3. \A b \in confirmed : part[b] \in Int /\ part[b] = all[b]
  BY <1>1 DEF SeatsOf
<1>4. SumFunction(part) = SumFunctionOnSet(part, confirmed)
  BY DEF SumFunction
<1>5. confirmed \in SUBSET Bookings /\ IsFiniteSet(confirmed)
  BY BookingsFinite, FS_Subset
<1> HIDE DEF part, all
<1>6. SumFunctionOnSet(part, confirmed) = SumFunctionOnSet(all, confirmed)
  BY <1>3, <1>5, SumSame
<1>7. SumFunctionOnSet(all, confirmed) = SumFunctionOnSet(all, Bookings)
  BY <1>1, <1>2, <1>5, BookingsFinite, SumSupport
<1> QED
  BY <1>4, <1>6, <1>7 DEF part, all, AllSeats

LEMMA TakingsSum ==
  ASSUME NEW rs \in RowTable,
         NEW paid, paid = {b \in Bookings : rs[b] # None /\ rs[b].payment = "paid"}
  PROVE  SumFunction([b \in paid |-> rs[b].amount]) = AllTakings(rs)
<1> DEFINE part == [b \in paid |-> rs[b].amount]
           all  == [b \in Bookings |-> TakingsOf(rs[b])]
<1>1. \A b \in Bookings : all[b] \in Int
  BY SeatsNatural DEF RowTable
<1>2. \A b \in Bookings \ paid : all[b] = 0
  BY DEF TakingsOf
<1>3. \A b \in paid : part[b] \in Int /\ part[b] = all[b]
  BY <1>1 DEF TakingsOf
<1>4. SumFunction(part) = SumFunctionOnSet(part, paid)
  BY DEF SumFunction
<1>5. paid \in SUBSET Bookings /\ IsFiniteSet(paid)
  BY BookingsFinite, FS_Subset
<1> HIDE DEF part, all
<1>6. SumFunctionOnSet(part, paid) = SumFunctionOnSet(all, paid)
  BY <1>3, <1>5, SumSame
<1>7. SumFunctionOnSet(all, paid) = SumFunctionOnSet(all, Bookings)
  BY <1>1, <1>2, <1>5, BookingsFinite, SumSupport
<1> QED
  BY <1>4, <1>6, <1>7 DEF part, all, AllTakings

LEMMA SumsNatural ==
  ASSUME NEW rs \in RowTable
  PROVE  AllSeats(rs) \in Nat /\ AllTakings(rs) \in Nat
<1> DEFINE seats   == [b \in Bookings |-> SeatsOf(rs[b])]
           takings == [b \in Bookings |-> TakingsOf(rs[b])]
<1>1. \A b \in Bookings : seats[b] \in Nat /\ takings[b] \in Nat
  BY SeatsNatural DEF RowTable
<1> HIDE DEF seats, takings
<1>2. SumFunctionOnSet(seats, Bookings) \in Nat /\ SumFunctionOnSet(takings, Bookings) \in Nat
  BY <1>1, BookingsFinite, SumNatural
<1> QED
  BY <1>2 DEF seats, takings, AllSeats, AllTakings

\* What writing one booking does to the sums.
LEMMA OneWritten ==
  ASSUME NEW rs \in RowTable, NEW rt \in RowTable, NEW id \in Bookings,
         \A b \in Bookings \ {id} : rt[b] = rs[b]
  PROVE  /\ AllSeats(rt) = AllSeats(rs) - SeatsOf(rs[id]) + SeatsOf(rt[id])
         /\ AllTakings(rt) = AllTakings(rs) - TakingsOf(rs[id]) + TakingsOf(rt[id])
<1> DEFINE f == [b \in Bookings |-> SeatsOf(rs[b])]
           g == [b \in Bookings |-> SeatsOf(rt[b])]
           h == [b \in Bookings |-> TakingsOf(rs[b])]
           k == [b \in Bookings |-> TakingsOf(rt[b])]
<1>1. \A b \in Bookings : f[b] \in Int /\ g[b] \in Int /\ h[b] \in Int /\ k[b] \in Int
  BY SeatsNatural DEF RowTable
<1>2. \A b \in Bookings \ {id} : g[b] = f[b] /\ k[b] = h[b]
  OBVIOUS
<1>3. f[id] = SeatsOf(rs[id]) /\ g[id] = SeatsOf(rt[id]) /\ h[id] = TakingsOf(rs[id]) /\ k[id] = TakingsOf(rt[id])
  OBVIOUS
<1> HIDE DEF f, g, h, k
<1>4. SumFunctionOnSet(g, Bookings) = SumFunctionOnSet(f, Bookings) - f[id] + g[id]
  BY <1>1, <1>2, BookingsFinite, SumChanges
<1>5. SumFunctionOnSet(k, Bookings) = SumFunctionOnSet(h, Bookings) - h[id] + k[id]
  BY <1>1, <1>2, BookingsFinite, SumChanges
<1> QED
  BY <1>3, <1>4, <1>5 DEF f, g, h, k, AllSeats, AllTakings

-----------------------------------------------------------------------------
(* What the aggregates owe the bookings *)

PaidIn(rs) == {b \in Bookings : rs[b] # None /\ rs[b].payment = "paid"}

\* RevenueCoversPaid and SeatsKept of an event e and bookings rs, and what a second
\* cancellation is told by: a cancelled booking has been counted as such.
Accounted(e, rs) ==
  /\ \A b \in Bookings : rs[b] # None /\ rs[b].status = "cancelled" => rs[b].cancels >= 1
  /\ e.paid >= Cardinality(PaidIn(rs))
  /\ e.revenue >= AllTakings(rs)
  /\ (\A b \in Bookings : rs[b] # None => rs[b].cancels <= 1) => e.booked >= AllSeats(rs)

\* A transaction about a booking read the tickets and the amount it has; one that makes
\* a booking does not make a cancelled one.
ReadSame ==
  \A r \in Reqs :
    /\ req[r].pc \in Creating => req[r].row.status # "cancelled"
    /\ req[r].pc \in About => /\ rows[req[r].id].tickets = req[r].row.tickets
                              /\ rows[req[r].id].amount = req[r].row.amount

AccountsInv == EventsInv /\ ReadSame /\ Accounted(event, rows)

LEMMA AccountsShow == AccountsInv => RevenueCoversPaid /\ SeatsKept
<1> SUFFICES ASSUME AccountsInv
             PROVE  RevenueCoversPaid /\ SeatsKept
  OBVIOUS
<1>1. rows \in RowTable
  BY DEF AccountsInv, EventsInv, TypeOK, RowTable
<1>2. SumFunction([b \in PaidIn(rows) |-> rows[b].amount]) = AllTakings(rows)
  BY <1>1, TakingsSum DEF PaidIn
<1>3. SumFunction([b \in In("confirmed") |-> rows[b].tickets]) = AllSeats(rows)
  BY <1>1, SeatsSum DEF In
<1>4. RevenueCoversPaid
  BY <1>2 DEF AccountsInv, Accounted, RevenueCoversPaid, PaidIn
<1>5. SeatsKept
  BY <1>3 DEF AccountsInv, Accounted, SeatsKept
<1> QED
  BY <1>4, <1>5

\* A booking is written and the aggregates make up for it.
LEMMA OneAccounted ==
  ASSUME NEW rs \in RowTable, NEW rt \in RowTable, NEW e \in Event, NEW f \in Event,
         NEW id \in Bookings, Accounted(e, rs), rt[id] # None,
         \A b \in Bookings \ {id} : rt[b] = rs[b],
         rt[id].status = "cancelled" => rt[id].cancels >= 1,
         rs[id] # None => rt[id].cancels >= rs[id].cancels,
         f.paid >= e.paid,
         rt[id].payment = "paid" => (id \in PaidIn(rs) \/ f.paid >= e.paid + 1),
         f.revenue >= e.revenue - TakingsOf(rs[id]) + TakingsOf(rt[id]),
         rt[id].cancels <= 1 => f.booked >= e.booked - SeatsOf(rs[id]) + SeatsOf(rt[id])
  PROVE  Accounted(f, rt)
<1>1. /\ AllSeats(rt) = AllSeats(rs) - SeatsOf(rs[id]) + SeatsOf(rt[id])
      /\ AllTakings(rt) = AllTakings(rs) - TakingsOf(rs[id]) + TakingsOf(rt[id])
  BY OneWritten
<1>2. /\ AllSeats(rs) \in Nat /\ AllSeats(rt) \in Nat
      /\ AllTakings(rs) \in Nat /\ AllTakings(rt) \in Nat
  BY SumsNatural
<1>3. /\ rs[id] \in Booking \cup {None} /\ rt[id] \in Booking
      /\ SeatsOf(rs[id]) \in Nat /\ SeatsOf(rt[id]) \in Nat
      /\ TakingsOf(rs[id]) \in Nat /\ TakingsOf(rt[id]) \in Nat
  BY SeatsNatural DEF RowTable
<1>4. /\ e.paid \in Nat /\ e.revenue \in Nat /\ e.booked \in Nat
      /\ f.paid \in Nat /\ f.revenue \in Nat /\ f.booked \in Nat
  BY DEF Event
<1>5. \A b \in Bookings : rt[b] # None /\ rt[b].status = "cancelled" => rt[b].cancels >= 1
  BY DEF Accounted
<1>6. f.paid >= Cardinality(PaidIn(rt))
  <2>1. IsFiniteSet(PaidIn(rs)) /\ IsFiniteSet(PaidIn(rt))
    BY BookingsFinite, FS_Subset DEF PaidIn
  <2>2. Cardinality(PaidIn(rs)) \in Nat /\ Cardinality(PaidIn(rt)) \in Nat
    BY <2>1, FS_CardinalityType
  <2>3. PaidIn(rt) \subseteq PaidIn(rs) \cup {id}
    BY DEF PaidIn
  <2>4. CASE PaidIn(rt) \subseteq PaidIn(rs)
    <3>1. Cardinality(PaidIn(rt)) <= Cardinality(PaidIn(rs))
      BY <2>1, <2>4, FS_Subset
    <3> QED
      BY <1>4, <2>2, <3>1 DEF Accounted
  <2>5. CASE ~(PaidIn(rt) \subseteq PaidIn(rs))
    <3>1. id \in PaidIn(rt) /\ id \notin PaidIn(rs)
      BY <2>3, <2>5
    <3>2. f.paid >= e.paid + 1
      BY <3>1 DEF PaidIn
    <3>3. /\ IsFiniteSet(PaidIn(rs) \cup {id})
          /\ Cardinality(PaidIn(rs) \cup {id}) = Cardinality(PaidIn(rs)) + 1
      BY <2>1, <3>1, FS_AddElement
    <3>4. Cardinality(PaidIn(rt)) <= Cardinality(PaidIn(rs) \cup {id})
      BY <2>3, <3>3, FS_Subset
    <3> QED
      BY <1>4, <2>2, <3>2, <3>3, <3>4 DEF Accounted
  <2> QED
    BY <2>4, <2>5
<1>7. f.revenue >= AllTakings(rt)
  BY <1>1, <1>2, <1>3, <1>4 DEF Accounted
<1>8. ASSUME \A b \in Bookings : rt[b] # None => rt[b].cancels <= 1
      PROVE  f.booked >= AllSeats(rt)
  <2>1. \A b \in Bookings : rs[b] # None => rs[b].cancels <= 1
    <3> SUFFICES ASSUME NEW b \in Bookings, rs[b] # None
                 PROVE  rs[b].cancels <= 1
      OBVIOUS
    <3>1. CASE b = id
      <4>1. rs[id] \in Booking
        BY <1>3, <3>1
      <4>2. rs[id].cancels \in Nat /\ rt[id].cancels \in Nat
        BY <1>3, <4>1 DEF Booking
      <4> QED
        BY <1>8, <3>1, <4>2
    <3>2. CASE b # id
      BY <1>8, <3>2
    <3> QED
      BY <3>1, <3>2
  <2>2. e.booked >= AllSeats(rs)
    BY <2>1 DEF Accounted
  <2>3. f.booked >= e.booked - SeatsOf(rs[id]) + SeatsOf(rt[id])
    BY <1>8
  <2> QED
    BY <1>1, <1>2, <1>3, <1>4, <2>2, <2>3
<1> QED
  BY <1>5, <1>6, <1>7, <1>8 DEF Accounted

\* Bookings keep their tickets and their amount.
SameTerms ==
  \A b \in Bookings : rows[b] # None =>
    rows'[b] # None /\ rows'[b].tickets = rows[b].tickets /\ rows'[b].amount = rows[b].amount

LEMMA ReadSameKeeps ==
  ASSUME AccountsInv, NEW r \in Reqs, NEW q \in Request, req' = [req EXCEPT ![r] = q], SameTerms,
         q.pc \in Creating => q.row.status # "cancelled",
         q.pc \in About => rows'[q.id].tickets = q.row.tickets /\ rows'[q.id].amount = q.row.amount
  PROVE  ReadSame'
<1>1. req'[r] = q /\ \A s \in Reqs \ {r} : req'[s] = req[s]
  BY DEF AccountsInv, EventsInv, TypeOK
<1> SUFFICES ASSUME NEW s \in Reqs
             PROVE  /\ req'[s].pc \in Creating => req'[s].row.status # "cancelled"
                    /\ req'[s].pc \in About => /\ rows'[req'[s].id].tickets = req'[s].row.tickets
                                               /\ rows'[req'[s].id].amount = req'[s].row.amount
  BY DEF ReadSame
<1>2. CASE s = r
  BY <1>1, <1>2
<1>3. CASE s # r
  <2>1. req'[s] = req[s]
    BY <1>1, <1>3
  <2>2. req[s].pc \in About => req[s].id \in Bookings /\ rows[req[s].id] # None
    BY OwnFacts DEF AccountsInv
  <2> QED
    BY <2>1, <2>2 DEF AccountsInv, ReadSame, SameTerms
<1> QED
  BY <1>2, <1>3

\* A step that leaves the bookings and what they add up to alone.
LEMMA QuietAccounts ==
  ASSUME AccountsInv, NEW r \in Reqs, NEW q \in Request, req' = [req EXCEPT ![r] = q],
         rows' = rows, event'.booked = event.booked, event'.paid = event.paid,
         event'.revenue = event.revenue,
         q.pc \in Creating => q.row.status # "cancelled",
         q.pc \in About => rows[q.id].tickets = q.row.tickets /\ rows[q.id].amount = q.row.amount
  PROVE  ReadSame' /\ Accounted(event', rows')
<1>1. SameTerms
  BY DEF SameTerms
<1>2. ReadSame'
  BY <1>1, ReadSameKeeps
<1>3. Accounted(event', rows')
  BY DEF AccountsInv, Accounted
<1> QED
  BY <1>2, <1>3

LEMMA ContinueAccounts ==
  ASSUME AccountsInv, NEW r \in Reqs, NEW q \in Request, Continue(r, q),
         q.pc \in Creating => q.row.status # "cancelled",
         q.pc \in About => rows[q.id].tickets = q.row.tickets /\ rows[q.id].amount = q.row.amount
  PROVE  ReadSame' /\ Accounted(event', rows')
BY QuietAccounts DEF Continue

\* One that commits a write to one booking.
LEMMA WriteAccounts ==
  ASSUME AccountsInv, NEW r \in Reqs, Done(r), NEW id \in Bookings, NEW row \in Booking,
         rows' = [rows EXCEPT ![id] = row], event' \in Event, row # None,
         row.status = "cancelled" => row.cancels >= 1,
         rows[id] # None => /\ row.cancels >= rows[id].cancels
                            /\ row.tickets = rows[id].tickets /\ row.amount = rows[id].amount,
         event'.paid >= event.paid,
         row.payment = "paid" => (id \in PaidIn(rows) \/ event'.paid >= event.paid + 1),
         event'.revenue >= event.revenue - TakingsOf(rows[id]) + TakingsOf(row),
         row.cancels <= 1 => event'.booked >= event.booked - SeatsOf(rows[id]) + SeatsOf(row)
  PROVE  ReadSame' /\ Accounted(event', rows')
<1>1. rows \in RowTable /\ event \in Event
  BY DEF AccountsInv, EventsInv, TypeOK, RowTable
<1>2. rows' \in RowTable /\ rows'[id] = row /\ \A b \in Bookings \ {id} : rows'[b] = rows[b]
  BY <1>1 DEF RowTable
<1>3. SameTerms
  BY <1>2 DEF SameTerms
<1>4. ReadSame'
  BY <1>3, IdleSound, ReadSameKeeps DEF Done, Creating, About
<1>5. Accounted(event', rows')
  <2>1. PICK e \in Event, f \in Event, rs \in RowTable, rt \in RowTable :
          e = event /\ f = event' /\ rs = rows /\ rt = rows'
    BY <1>1, <1>2
  <2>2. Accounted(e, rs) /\ rt[id] = row /\ \A b \in Bookings \ {id} : rt[b] = rs[b]
    BY <1>2, <2>1 DEF AccountsInv
  <2>3. /\ rt[id] # None
        /\ rt[id].status = "cancelled" => rt[id].cancels >= 1
        /\ rs[id] # None => rt[id].cancels >= rs[id].cancels
        /\ f.paid >= e.paid
        /\ rt[id].payment = "paid" => (id \in PaidIn(rs) \/ f.paid >= e.paid + 1)
        /\ f.revenue >= e.revenue - TakingsOf(rs[id]) + TakingsOf(rt[id])
        /\ rt[id].cancels <= 1 => f.booked >= e.booked - SeatsOf(rs[id]) + SeatsOf(rt[id])
    BY <2>1, <2>2
  <2>4. Accounted(f, rt)
    BY ONLY <2>2, <2>3, OneAccounted
  <2> QED
    BY <2>1, <2>4
<1> QED
  BY <1>4, <1>5

-----------------------------------------------------------------------------
(* The steps, as to what is accounted for *)

\* What a transaction has read agrees with its booking.
LEMMA OwnTerms ==
  ASSUME AccountsInv, NEW r \in Reqs
  PROVE  \E q \in Request :
           /\ q = req[r] /\ Sound(q)
           /\ q.pc \in Creating => /\ q.id \in Bookings /\ q.row \in Booking /\ rows[q.id] = None
                                   /\ q.row.status # "cancelled"
           /\ q.pc \in About => /\ q.id \in Bookings /\ q.row \in Booking
                                /\ rows[q.id] \in Booking /\ rows[q.id] # None
                                /\ rows[q.id].tickets = q.row.tickets
                                /\ rows[q.id].amount = q.row.amount
BY OwnFacts DEF AccountsInv, ReadSame

LEMMA BeginBookingAccounts ==
  ASSUME AccountsInv, NEW r \in Reqs, NEW contact \in Contacts, NEW tickets \in Tickets,
         NEW amount \in Amounts, NEW staff \in BOOLEAN, NEW paid \in BOOLEAN,
         BeginBooking(r, contact, tickets, amount, staff, paid)
  PROVE  ReadSame' /\ Accounted(event', rows')
<1>1. PICK row : row = [contact |-> contact, tickets |-> tickets,
              amount |-> IF event.type = "free" THEN 0 ELSE amount,
              status |-> IF staff THEN "confirmed" ELSE StatusFor(tickets),
              payment |-> IF event.type = "free" THEN "not_applicable"
                          ELSE IF paid THEN "paid" ELSE "pending",
              cancels |-> 0]
  OBVIOUS
<1>2. row \in Booking /\ row.status # "cancelled"
  BY <1>1 DEF Booking, StatusFor
<1> DEFINE q == [IdleRequest EXCEPT !.pc = "count", !.id = begun + 1, !.row = row,
                                    !.limit = event.limit]
<1>3. event \in Event /\ begun \in Nat /\ begun < MaxBookings
  BY DEF BeginBooking, AccountsInv, EventsInv, TypeOK
<1>4. begun + 1 \in Bookings /\ event.limit \in Limits
  BY <1>3, EventsAssumption DEF Bookings, Event
<1>5. q \in Request
  BY <1>2, <1>4, IdleSound DEF Request, PCs
<1>6. q.pc = "count" /\ q.row = row
  BY DEF IdleRequest
<1>7. req' = [req EXCEPT ![r] = q] /\ rows' = rows /\ event' = event
  BY <1>1 DEF BeginBooking
<1> HIDE DEF q
<1> QED
  BY <1>2, <1>5, <1>6, <1>7, QuietAccounts DEF Creating, About

LEMMA BeginWithAccounts ==
  ASSUME AccountsInv, NEW r \in Reqs, NEW b \in Bookings, NEW pc \in {"cancel", "pay", "waive"},
         BeginWith(r, b, pc)
  PROVE  ReadSame' /\ Accounted(event', rows')
<1>1. PICK row \in Booking : row = rows[b]
  BY DEF BeginWith, AccountsInv, EventsInv, TypeOK
<1> DEFINE q == [IdleRequest EXCEPT !.pc = pc, !.id = b, !.row = row]
<1>2. q \in Request
  BY IdleSound DEF Request, PCs
<1>3. q.pc = pc /\ q.id = b /\ q.row = row
  BY DEF IdleRequest
<1>4. Continue(r, q)
  BY <1>1 DEF BeginWith
<1> HIDE DEF q
<1> QED
  BY <1>1, <1>2, <1>3, <1>4, ContinueAccounts DEF Creating

\* A transaction that goes on with what it has read.
LEMMA GoOnAccounts ==
  ASSUME AccountsInv, NEW r \in Reqs, NEW pc \in PCs, NEW next \in Bookings \cup {None},
         Continue(r, [req[r] EXCEPT !.pc = pc, !.next = next]),
         pc \in Creating => req[r].pc \in Creating, pc \in About => req[r].pc \in About
  PROVE  ReadSame' /\ Accounted(event', rows')
<1>1. PICK p \in Request : /\ p = req[r]
                           /\ p.pc \in Creating => p.row.status # "cancelled"
                           /\ p.pc \in About => /\ rows[p.id].tickets = p.row.tickets
                                                /\ rows[p.id].amount = p.row.amount
  BY OwnTerms
<1> DEFINE q == [p EXCEPT !.pc = pc, !.next = next]
<1>2. q \in Request
  BY DEF Request
<1>3. q.pc = pc /\ q.id = p.id /\ q.row = p.row
  BY DEF Request
<1>4. Continue(r, q)
  BY <1>1
<1> HIDE DEF q
<1> QED
  BY <1>1, <1>2, <1>3, <1>4, ContinueAccounts

LEMMA WaitingAccounts ==
  ASSUME AccountsInv, NEW r \in Reqs, CountTickets(r) \/ LockBooking(r) \/ BeginPromotion(r)
  PROVE  ReadSame' /\ Accounted(event', rows')
<1>1. PICK p \in Request : p = req[r] /\ p = [p EXCEPT !.next = p.next]
  BY OwnTerms DEF Request
<1>2. p.next \in Bookings \cup {None}
  BY DEF Request
<1>3. CASE CountTickets(r)
  <2>1. Continue(r, [p EXCEPT !.pc = "book"]) /\ p.pc = "count"
    BY <1>1, <1>3 DEF CountTickets
  <2>2. [p EXCEPT !.pc = "book"] = [p EXCEPT !.pc = "book", !.next = p.next]
    BY DEF Request
  <2> QED
    BY <1>1, <1>2, <2>1, <2>2, GoOnAccounts DEF Creating, About, PCs
<1>4. CASE LockBooking(r)
  <2>1. PICK pc \in {"release", "collect"} : pc = IF p.pc = "cancel" THEN "release" ELSE "collect"
    OBVIOUS
  <2>2. Continue(r, [p EXCEPT !.pc = pc]) /\ p.pc \in {"cancel", "pay"}
    BY <1>1, <1>4, <2>1 DEF LockBooking
  <2>3. [p EXCEPT !.pc = pc] = [p EXCEPT !.pc = pc, !.next = p.next]
    BY DEF Request
  <2> QED
    BY <1>1, <1>2, <2>1, <2>2, <2>3, GoOnAccounts DEF Creating, About, PCs
<1>5. CASE BeginPromotion(r)
  <2>1. PICK b \in Promoted(p) : Continue(r, [p EXCEPT !.pc = "promote", !.next = b])
    BY <1>1, <1>5 DEF BeginPromotion
  <2>2. p.pc = "release" /\ b \in Bookings
    BY <1>1, <1>5, <2>1 DEF BeginPromotion, Promoted, In
  <2> QED
    BY <1>1, <2>1, <2>2, GoOnAccounts DEF Creating, About, PCs
<1> QED
  BY <1>3, <1>4, <1>5

\* A transaction that ends without having written a booking.
LEMMA EndAccounts ==
  ASSUME AccountsInv, NEW r \in Reqs, Done(r), rows' = rows, event'.booked = event.booked,
         event'.paid = event.paid, event'.revenue = event.revenue
  PROVE  ReadSame' /\ Accounted(event', rows')
BY IdleSound, QuietAccounts DEF Done, Creating, About

LEMMA BookAccounts ==
  ASSUME AccountsInv, EventsInv', NEW r \in Reqs, Book(r)
  PROVE  ReadSame' /\ Accounted(event', rows')
<1>1. PICK q \in Request : /\ q = req[r] /\ q.id \in Bookings /\ q.row \in Booking
                           /\ rows[q.id] = None /\ q.row.status # "cancelled"
  BY OwnTerms DEF Book, Creating
<1>2. PICK row \in Booking : row = q.row
  BY <1>1
<1>3. PICK e \in Event : e = event
  BY DEF AccountsInv, EventsInv, TypeOK
<1>4. /\ e.booked \in Nat /\ e.paid \in Nat /\ e.revenue \in Nat
      /\ row.tickets \in Nat /\ row.amount \in Nat
  BY TermsType DEF Event
<1>5. event' = [e EXCEPT !.booked = IF row.status = "confirmed" THEN @ + row.tickets ELSE @,
                         !.count = @ + 1,
                         !.paid = IF row.payment = "paid" THEN @ + 1 ELSE @,
                         !.revenue = IF row.payment = "paid" THEN e.revenue + row.amount ELSE @]
  BY <1>1, <1>2, <1>3 DEF Book, Collected
<1>6. /\ event'.booked = IF row.status = "confirmed" THEN e.booked + row.tickets ELSE e.booked
      /\ event'.paid = IF row.payment = "paid" THEN e.paid + 1 ELSE e.paid
      /\ event'.revenue = IF row.payment = "paid" THEN e.revenue + row.amount ELSE e.revenue
  BY <1>5 DEF Event
<1>7. /\ SeatsOf(rows[q.id]) = 0 /\ TakingsOf(rows[q.id]) = 0
      /\ SeatsOf(row) = IF row.status = "confirmed" THEN row.tickets ELSE 0
      /\ TakingsOf(row) = IF row.payment = "paid" THEN row.amount ELSE 0
  BY <1>1, Distinct DEF SeatsOf, TakingsOf
<1>8. /\ event'.paid >= event.paid
      /\ row.payment = "paid" => event'.paid >= event.paid + 1
      /\ event'.revenue >= event.revenue - TakingsOf(rows[q.id]) + TakingsOf(row)
      /\ event'.booked >= event.booked - SeatsOf(rows[q.id]) + SeatsOf(row)
  BY <1>3, <1>4, <1>6, <1>7
<1>9. rows' = [rows EXCEPT ![q.id] = row] /\ Done(r) /\ event' \in Event /\ row # None
  BY <1>1, <1>2, Distinct DEF Book, EventsInv, TypeOK
<1> QED
  BY <1>1, <1>2, <1>8, <1>9, WriteAccounts

\* The seats a cancellation gives back are no more than its booking had, unless it had
\* been cancelled before.
LEMMA FreedEnough ==
  ASSUME AccountsInv, NEW r \in Reqs, NEW q \in Request, q = req[r],
         q.pc \in {"release", "promote"}
  PROVE  /\ Freed(q) \in Nat
         /\ rows[q.id].cancels = 0 => Freed(q) >= event.booked - SeatsOf(rows[q.id])
<1>1. /\ q.id \in Bookings /\ q.row \in Booking /\ rows[q.id] \in Booking /\ rows[q.id] # None
      /\ rows[q.id].tickets = q.row.tickets
      /\ q.row.status = "confirmed" => rows[q.id].status # "waitlisted"
  BY OwnTerms DEF About, Sound
<1>2. q.row.tickets \in Nat /\ event.booked \in Nat
  BY <1>1, TermsType DEF AccountsInv, EventsInv, TypeOK, Event
<1>3. Freed(q) \in Nat
  BY <1>2 DEF Freed, Clamped
<1>4. ASSUME rows[q.id].cancels = 0
      PROVE  Freed(q) >= event.booked - SeatsOf(rows[q.id])
  <2>1. rows[q.id].status # "cancelled"
    BY <1>1, <1>4 DEF AccountsInv, Accounted
  <2>2. SeatsOf(rows[q.id]) \in Nat
    BY <1>1, SeatsNatural
  <2>3. CASE q.row.status = "confirmed"
    <3>1. rows[q.id].status = "confirmed"
      BY <1>1, <2>1, <2>3 DEF Booking
    <3>2. SeatsOf(rows[q.id]) = q.row.tickets
      BY <1>1, <3>1 DEF SeatsOf
    <3>3. Freed(q) = Clamped(event.booked - q.row.tickets)
      BY <2>3 DEF Freed
    <3> QED
      BY <1>2, <3>2, <3>3 DEF Clamped
  <2>4. CASE q.row.status # "confirmed"
    <3>1. Freed(q) = Clamped(event.booked - 0)
      BY <2>4 DEF Freed
    <3> QED
      BY <1>2, <2>2, <3>1 DEF Clamped
  <2> QED
    BY <2>3, <2>4
<1> QED
  BY <1>3, <1>4

\* What cancelling a booking does to the sums.
LEMMA CancelTerms ==
  ASSUME NEW old \in Booking
  PROVE  /\ SeatsOf(Cancelled(old)) = 0 /\ TakingsOf(Cancelled(old)) = TakingsOf(old)
         /\ SeatsOf(old) \in Nat /\ TakingsOf(old) \in Nat /\ old.cancels \in Nat
         /\ Cancelled(old) # None /\ Cancelled(old).cancels = old.cancels + 1
BY CancelledType, SeatsNatural, TermsType, Distinct DEF SeatsOf, TakingsOf

LEMMA ReleaseAccounts ==
  ASSUME AccountsInv, EventsInv', NEW r \in Reqs, Release(r)
  PROVE  ReadSame' /\ Accounted(event', rows')
<1>1. PICK q \in Request : /\ q = req[r] /\ q.pc = "release" /\ q.id \in Bookings
                           /\ rows[q.id] \in Booking /\ rows[q.id] # None
  BY OwnTerms DEF Release, About
<1>2. PICK old \in Booking, row \in Booking : /\ old = rows[q.id] /\ row = Cancelled(old)
                                              /\ row.payment = old.payment
                                              /\ row.tickets = old.tickets
                                              /\ row.amount = old.amount
  BY <1>1, CancelledType
<1>3. PICK e \in Event : e = event
  BY DEF AccountsInv, EventsInv, TypeOK
<1>4. PICK booked \in Nat : booked = Freed(q) /\ (old.cancels = 0 => booked >= e.booked - SeatsOf(old))
  BY <1>1, <1>2, <1>3, FreedEnough
<1>5. PICK count : count = Clamped(event.count - 1)
  OBVIOUS
<1>6. event' = [e EXCEPT !.booked = booked, !.count = count]
  BY <1>1, <1>3, <1>4, <1>5 DEF Release
<1>7. event'.booked = booked /\ event'.paid = e.paid /\ event'.revenue = e.revenue
  BY <1>6 DEF Event
<1>8. /\ SeatsOf(row) = 0 /\ TakingsOf(row) = TakingsOf(old) /\ row.cancels = old.cancels + 1
      /\ SeatsOf(old) \in Nat /\ TakingsOf(old) \in Nat /\ old.cancels \in Nat /\ row # None
  BY <1>2, CancelTerms
<1>9. e.paid \in Nat /\ e.revenue \in Nat /\ e.booked \in Nat
  BY DEF Event
<1>10. /\ event'.paid >= event.paid
       /\ event'.revenue >= event.revenue - TakingsOf(rows[q.id]) + TakingsOf(row)
       /\ row.cancels >= 1 /\ row.cancels >= rows[q.id].cancels
  BY <1>2, <1>3, <1>7, <1>8, <1>9
<1>11. row.cancels <= 1 => event'.booked >= event.booked - SeatsOf(rows[q.id]) + SeatsOf(row)
  BY <1>2, <1>3, <1>4, <1>7, <1>8, <1>9
<1>12. row.payment = "paid" => q.id \in PaidIn(rows)
  BY <1>1, <1>2 DEF PaidIn
<1>13. rows' = [rows EXCEPT ![q.id] = row] /\ Done(r) /\ event' \in Event
  BY <1>1, <1>2 DEF Release, EventsInv, TypeOK, AccountsInv
<1> QED
  BY <1>1, <1>2, <1>8, <1>10, <1>11, <1>12, <1>13, WriteAccounts

LEMMA MarkPaidAccounts ==
  ASSUME AccountsInv, EventsInv', NEW r \in Reqs, MarkPaid(r)
  PROVE  ReadSame' /\ Accounted(event', rows')
<1>1. PICK q \in Request : /\ q = req[r] /\ q.id \in Bookings /\ q.row \in Booking
                           /\ rows[q.id] \in Booking /\ rows[q.id] # None
                           /\ rows[q.id].amount = q.row.amount
  BY OwnTerms DEF MarkPaid, About
<1>2. PICK old \in Booking, row \in Booking :
        /\ old = rows[q.id] /\ row = [old EXCEPT !.payment = "paid"] /\ row.payment = "paid"
        /\ row.status = old.status /\ row.tickets = old.tickets /\ row.amount = old.amount
        /\ row.cancels = old.cancels
  BY <1>1, PaymentType
<1>3. PICK e \in Event : e = event
  BY DEF AccountsInv, EventsInv, TypeOK
<1>4. e.paid \in Nat /\ e.revenue \in Nat /\ e.booked \in Nat
  BY DEF Event
<1>5. event' = [e EXCEPT !.paid = @ + 1, !.revenue = e.revenue + old.amount]
  BY <1>1, <1>2, <1>3 DEF MarkPaid, Collected
<1>6. event'.booked = e.booked /\ event'.paid = e.paid + 1 /\ event'.revenue = e.revenue + old.amount
  BY <1>5 DEF Event
<1>7. old.amount \in Nat /\ old.cancels \in Nat /\ SeatsOf(old) \in Nat /\ TakingsOf(old) \in Nat
  BY TermsType, SeatsNatural
<1>8. row # None /\ old # None
  BY Distinct
<1>9. SeatsOf(row) = SeatsOf(old) /\ TakingsOf(row) = old.amount
  BY <1>2, <1>8 DEF SeatsOf, TakingsOf
<1>10. /\ event'.paid >= event.paid /\ event'.paid >= event.paid + 1
       /\ event'.revenue >= event.revenue - TakingsOf(rows[q.id]) + TakingsOf(row)
       /\ event'.booked >= event.booked - SeatsOf(rows[q.id]) + SeatsOf(row)
       /\ row.cancels >= rows[q.id].cancels
  BY <1>2, <1>3, <1>4, <1>6, <1>7, <1>9
<1>11. row.status = "cancelled" => row.cancels >= 1
  BY <1>1, <1>2 DEF AccountsInv, Accounted
<1>12. rows' = [rows EXCEPT ![q.id] = row] /\ Done(r) /\ event' \in Event
  BY <1>1, <1>2 DEF MarkPaid, EventsInv, TypeOK, AccountsInv
<1> QED
  BY <1>1, <1>2, <1>8, <1>10, <1>11, <1>12, WriteAccounts

LEMMA MarkWaivedAccounts ==
  ASSUME AccountsInv, EventsInv', NEW r \in Reqs, MarkWaived(r)
  PROVE  ReadSame' /\ Accounted(event', rows')
<1>1. PICK q \in Request : /\ q = req[r] /\ q.id \in Bookings
                           /\ rows[q.id] \in Booking /\ rows[q.id] # None
  BY OwnTerms DEF MarkWaived, About
<1>2. PICK old \in Booking, row \in Booking :
        /\ old = rows[q.id] /\ row = [old EXCEPT !.payment = "waived"] /\ row.payment = "waived"
        /\ row.status = old.status /\ row.tickets = old.tickets /\ row.amount = old.amount
        /\ row.cancels = old.cancels
  BY <1>1, PaymentType
<1>3. event.paid \in Nat /\ event.revenue \in Nat /\ event.booked \in Nat /\ event' = event
  BY DEF AccountsInv, EventsInv, TypeOK, Event, MarkWaived
<1>4. old.cancels \in Nat /\ SeatsOf(old) \in Nat /\ TakingsOf(old) \in Nat
  BY TermsType, SeatsNatural
<1>5. row # None /\ old # None
  BY Distinct
<1>6. SeatsOf(row) = SeatsOf(old) /\ TakingsOf(row) = 0
  BY <1>2, <1>5 DEF SeatsOf, TakingsOf
<1>7. /\ event'.paid >= event.paid
      /\ event'.revenue >= event.revenue - TakingsOf(rows[q.id]) + TakingsOf(row)
      /\ event'.booked >= event.booked - SeatsOf(rows[q.id]) + SeatsOf(row)
      /\ row.cancels >= rows[q.id].cancels
  BY <1>2, <1>3, <1>4, <1>6
<1>8. row.status = "cancelled" => row.cancels >= 1
  BY <1>1, <1>2 DEF AccountsInv, Accounted
<1>9. rows' = [rows EXCEPT ![q.id] = row] /\ Done(r) /\ event' \in Event
  BY <1>1, <1>2 DEF MarkWaived, EventsInv, TypeOK, AccountsInv
<1> QED
  BY <1>1, <1>2, <1>5, <1>7, <1>8, <1>9, WriteAccounts

\* A promotion: one booking loses its seats, then the next gets its own.
LEMMA PromoteAccounts ==
  ASSUME AccountsInv, EventsInv', NEW r \in Reqs, Promote(r)
  PROVE  ReadSame' /\ Accounted(event', rows')
<1>1. PICK q \in Request, row, next \in Booking :
        /\ q = req[r] /\ q.id \in Bookings /\ q.next \in Bookings /\ q.next # q.id
        /\ PromotionSound(q) /\ rows[q.id] # None
        /\ rows' \in [Bookings -> Booking \cup {None}]
        /\ rows'[q.id] = row /\ rows'[q.next] = next
        /\ \A b \in Bookings \ {q.id, q.next} : rows'[b] = rows[b]
        /\ row = Cancelled(rows[q.id]) /\ next = Confirmed(rows[q.next])
        /\ event'.booked = Freed(q) + rows[q.next].tickets
        /\ event'.paid = event.paid /\ event'.revenue = event.revenue /\ event' \in Event
  BY PromoteFacts DEF AccountsInv
<1>2. PICK old \in Booking, waiting \in Booking :
        old = rows[q.id] /\ waiting = rows[q.next] /\ waiting.status = "waitlisted"
  BY <1>1 DEF PromotionSound, In, AccountsInv, EventsInv, TypeOK
<1>3. /\ next.status = "confirmed" /\ next.payment = waiting.payment
      /\ next.tickets = waiting.tickets /\ next.amount = waiting.amount
      /\ next.cancels = waiting.cancels
  BY <1>1, <1>2 DEF Confirmed, Booking
<1>4. PICK e \in Event, f \in Event, rs \in RowTable, rt \in RowTable :
        e = event /\ f = event' /\ rs = rows /\ rt = rows'
  BY <1>1 DEF AccountsInv, EventsInv, TypeOK, RowTable
<1>5. q.pc = "promote"
  BY <1>1 DEF Promote
<1>6. PICK freed \in Nat : freed = Freed(q) /\ (old.cancels = 0 => freed >= e.booked - SeatsOf(old))
  BY <1>1, <1>2, <1>4, <1>5, FreedEnough
<1>7. /\ SeatsOf(row) = 0 /\ TakingsOf(row) = TakingsOf(old) /\ row.cancels = old.cancels + 1
      /\ SeatsOf(old) \in Nat /\ TakingsOf(old) \in Nat /\ old.cancels \in Nat /\ row # None
      /\ row.payment = old.payment /\ row.tickets = old.tickets /\ row.amount = old.amount
      /\ row.status = "cancelled"
  BY <1>1, <1>2, CancelTerms, CancelledType
<1>8. /\ waiting.tickets \in Nat /\ waiting.cancels \in Nat /\ TakingsOf(waiting) \in Nat
      /\ next # None /\ waiting # None
  BY TermsType, SeatsNatural, Distinct
<1>9. SeatsOf(waiting) = 0 /\ SeatsOf(next) = waiting.tickets /\ TakingsOf(next) = TakingsOf(waiting)
  BY <1>2, <1>3, <1>8 DEF SeatsOf, TakingsOf
<1>10. /\ e.paid \in Nat /\ e.revenue \in Nat /\ e.booked \in Nat
       /\ f.paid = e.paid /\ f.revenue = e.revenue /\ f.booked = freed + waiting.tickets
  BY <1>1, <1>2, <1>4, <1>6 DEF Event
<1> DEFINE m  == [e EXCEPT !.booked = freed]
           rm == [rs EXCEPT ![q.id] = row]
<1>11. m \in Event /\ m.booked = freed /\ m.paid = e.paid /\ m.revenue = e.revenue
  BY DEF Event
<1>12. /\ rm \in RowTable /\ rm[q.id] = row /\ rm[q.next] = waiting
       /\ \A b \in Bookings \ {q.id} : rm[b] = rs[b]
  BY <1>1, <1>2, <1>4 DEF RowTable
<1>13. rt[q.next] = next /\ \A b \in Bookings \ {q.next} : rt[b] = rm[b]
  BY <1>1, <1>4, <1>12
<1> HIDE DEF m, rm
<1>14. Accounted(m, rm)
  <2>1. rs[q.id] = old /\ old # None /\ Accounted(e, rs)
    BY <1>1, <1>2, <1>4 DEF AccountsInv
  <2>2. /\ rm[q.id].cancels >= 1 /\ rm[q.id].cancels >= rs[q.id].cancels /\ m.paid >= e.paid
        /\ m.revenue >= e.revenue - TakingsOf(rs[q.id]) + TakingsOf(rm[q.id])
    BY <1>7, <1>10, <1>11, <1>12, <2>1
  <2>3. rm[q.id].cancels <= 1 => m.booked >= e.booked - SeatsOf(rs[q.id]) + SeatsOf(rm[q.id])
    BY <1>6, <1>7, <1>10, <1>11, <1>12, <2>1
  <2>4. rm[q.id].payment = "paid" => q.id \in PaidIn(rs)
    BY <1>1, <1>7, <1>12, <2>1 DEF PaidIn
  <2>5. rm[q.id] # None
    BY <1>7, <1>12
  <2> QED
    BY <1>1, <1>11, <1>12, <2>1, <2>2, <2>3, <2>4, <2>5, OneAccounted
<1>15. Accounted(f, rt)
  <2>1. /\ rt[q.next].cancels >= rm[q.next].cancels /\ f.paid >= m.paid
        /\ f.revenue >= m.revenue - TakingsOf(rm[q.next]) + TakingsOf(rt[q.next])
        /\ f.booked >= m.booked - SeatsOf(rm[q.next]) + SeatsOf(rt[q.next])
    BY <1>3, <1>8, <1>9, <1>10, <1>11, <1>12, <1>13
  <2>2. rt[q.next].payment = "paid" => q.next \in PaidIn(rm)
    BY <1>1, <1>3, <1>8, <1>12, <1>13 DEF PaidIn
  <2>3. rt[q.next] # None /\ rt[q.next].status = "confirmed"
    BY <1>3, <1>8, <1>13
  <2> QED
    BY <1>1, <1>11, <1>12, <1>13, <1>14, <2>1, <2>2, <2>3, OneAccounted
<1>16. SameTerms
  BY <1>1, <1>2, <1>3, <1>7, <1>8 DEF SameTerms
<1>17. ReadSame'
  BY <1>16, IdleSound, ReadSameKeeps DEF Promote, Done, Creating, About
<1> QED
  BY <1>4, <1>15, <1>17

LEMMA NextAccounts == AccountsInv /\ EventsInv' /\ [Next]_vars => AccountsInv'
<1> SUFFICES ASSUME AccountsInv, EventsInv', [Next]_vars
             PROVE  ReadSame' /\ Accounted(event', rows')
  BY DEF AccountsInv
<1>1. CASE UNCHANGED vars
  BY <1>1 DEF vars, AccountsInv, ReadSame, Accounted
<1>2. CASE SetStatus
  <2>1. /\ rows' = rows /\ req' = req
        /\ event'.booked = event.booked /\ event'.paid = event.paid /\ event'.revenue = event.revenue
    BY <1>2 DEF SetStatus, AccountsInv, EventsInv, TypeOK, Event
  <2> QED
    BY <2>1 DEF AccountsInv, ReadSame, Accounted
<1>3. ASSUME NEW r \in Reqs, Begin(r)
      PROVE  ReadSame' /\ Accounted(event', rows')
  <2>1. ASSUME NEW c \in Contacts, NEW n \in Tickets, NEW amount \in Amounts,
               NEW staff \in BOOLEAN, NEW paid \in BOOLEAN,
               BeginBooking(r, c, n, amount, staff, paid)
        PROVE  ReadSame' /\ Accounted(event', rows')
    BY <2>1, BeginBookingAccounts
  <2>2. ASSUME NEW b \in Bookings, BeginCancel(r, b)
        PROVE  ReadSame' /\ Accounted(event', rows')
    BY <2>2, BeginWithAccounts DEF BeginCancel
  <2>3. ASSUME NEW b \in Bookings \cap Payables, NEW pc \in {"pay", "waive"},
               BeginPayment(r, b, pc)
        PROVE  ReadSame' /\ Accounted(event', rows')
    BY <2>3, BeginWithAccounts DEF BeginPayment
  <2>4. ASSUME NEW pc \in {"publish", "edit"}, Continue(r, [IdleRequest EXCEPT !.pc = pc])
        PROVE  ReadSame' /\ Accounted(event', rows')
    <3> DEFINE q == [IdleRequest EXCEPT !.pc = pc]
    <3>1. q \in Request /\ q.pc = pc
      BY IdleSound DEF Request, PCs
    <3> HIDE DEF q
    <3> QED
      BY <2>4, <3>1, ContinueAccounts DEF Creating, About, q
  <2> QED
    BY <1>3, <2>1, <2>2, <2>3, <2>4 DEF Begin, BeginPublish, BeginEdit
<1>4. ASSUME NEW r \in Reqs, WriteEvent(r)
      PROVE  ReadSame' /\ Accounted(event', rows')
  <2>1. /\ event'.booked = event.booked /\ event'.paid = event.paid
        /\ event'.revenue = event.revenue
    BY <1>4 DEF WriteEvent, AccountsInv, EventsInv, TypeOK, Event
  <2> QED
    BY <1>4, <2>1, EndAccounts DEF WriteEvent
<1>5. ASSUME NEW r \in Reqs, Continued(r)
      PROVE  ReadSame' /\ Accounted(event', rows')
  BY <1>4, <1>5, WaitingAccounts, BookAccounts, ReleaseAccounts, PromoteAccounts,
     MarkPaidAccounts, MarkWaivedAccounts DEF Continued
<1>6. ASSUME NEW r \in Reqs, Abort(r)
      PROVE  ReadSame' /\ Accounted(event', rows')
  BY <1>6, IdleSound, ContinueAccounts DEF Abort, Creating, About
<1> QED
  BY <1>1, <1>2, <1>3, <1>5, <1>6 DEF Next

LEMMA InitAccounts == Init => AccountsInv
<1> SUFFICES ASSUME Init
             PROVE  AccountsInv
  OBVIOUS
<1>1. EventsInv /\ rows \in RowTable
  BY InitEventsInv DEF EventsInv, TypeOK, RowTable
<1>2. ReadSame
  BY IdleSound DEF Init, ReadSame, Creating, About
<1>3. PaidIn(rows) = {} /\ \A b \in Bookings : rows[b] = None
  BY DEF Init, PaidIn
<1>4. AllSeats(rows) = 0 /\ AllTakings(rows) = 0
  <2> DEFINE seats   == [b \in Bookings |-> SeatsOf(rows[b])]
             takings == [b \in Bookings |-> TakingsOf(rows[b])]
  <2>1. \A b \in Bookings : seats[b] = 0 /\ takings[b] = 0
    BY <1>3 DEF SeatsOf, TakingsOf
  <2> HIDE DEF seats, takings
  <2>2. SumFunctionOnSet(seats, Bookings) = 0 /\ SumFunctionOnSet(takings, Bookings) = 0
    BY <2>1, BookingsFinite, SumSupport, SumEmpty
  <2> QED
    BY <2>2 DEF seats, takings, AllSeats, AllTakings
<1>5. event.booked = 0 /\ event.paid = 0 /\ event.revenue = 0
  BY DEF Init
<1>6. Cardinality(PaidIn(rows)) = 0
  BY <1>3, FS_EmptySet
<1> QED
  BY <1>1, <1>2, <1>3, <1>4, <1>5, <1>6 DEF AccountsInv, Accounted

LEMMA SpecAccounts == Spec => []AccountsInv
BY InitAccounts, NextAccounts, SpecEventsInv, PTL DEF Spec

\* What was marked paid is counted and is in the revenue, although mark_paid goes by what
\* it read and the booking may have been cancelled, waived or paid in the meantime
\* (increment_paid_revenue).
THEOREM AlwaysRevenueCoversPaid == Spec => []RevenueCoversPaid
BY AccountsShow, SpecAccounts, PTL

\* As long as no booking was cancelled twice, tickets_booked holds the tickets of every
\* confirmed booking (adjust_event_aggregates_on_booking).
THEOREM AlwaysSeatsKept == Spec => []SeatsKept
BY AccountsShow, SpecAccounts, PTL

=============================================================================
