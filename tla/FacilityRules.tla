--------------------------- MODULE FacilityRules ---------------------------
(***************************************************************************)
(* The pure booking engines of the facility booking component: lifecycle   *)
(* tables (services/facility_booking/lifecycle.py), availability rules     *)
(* (availability.py) and the arithmetic of quotes and fees (pricing.py).   *)
(*                                                                         *)
(* A draft is what a client submits: a unit, a span of days, a window of   *)
(* minutes, a headcount (host included) and the resident participants.     *)
(* Days are numbered so that day 0 is a Monday.  A configuration is the    *)
(* part of facility_booking_configs the rules read.  Opening hours,        *)
(* closures, maintenance, the advance window and unit existence only ever  *)
(* refuse a draft; the drafts of a model are those they let through.       *)
(***************************************************************************)
EXTENDS Integers, FiniteSets, FiniteSetsExt, Functions

Archetypes == {"slot", "tee_time", "duration", "day_range", "room"}

-----------------------------------------------------------------------------
(* Lifecycle *)

Status == {"pending_approval", "confirmed", "checked_in", "completed",
           "rejected", "cancelled", "no_show", "rescheduled"}

ActiveStatuses == {"pending_approval", "confirmed", "checked_in"}

WeeklyCapCountable == ActiveStatuses \cup {"completed"}

TerminalStatuses == Status \ ActiveStatuses

\* The statuses an action may start from.
AllowedFrom ==
  [approve         |-> {"pending_approval"},
   reject          |-> {"pending_approval"},
   check_in        |-> {"confirmed"},
   complete        |-> {"checked_in"},
   no_show         |-> {"confirmed", "checked_in"},
   resident_cancel |-> {"pending_approval", "confirmed"},
   staff_cancel    |-> {"pending_approval", "confirmed", "checked_in"},
   reschedule      |-> {"pending_approval", "confirmed"}]

CancelAction(actor) == IF actor = "staff" THEN "staff_cancel" ELSE "resident_cancel"

InitialStatus(requiresApproval) ==
  IF requiresApproval THEN "pending_approval" ELSE "confirmed"

-----------------------------------------------------------------------------
(* Availability *)

\* Half-open minute intervals [a, b) and [c, d) overlap.
Overlaps(a, b, c, d) == a < d /\ c < b

\* A booking spans `day`; a booking of several days takes the same window on each.
OccupiesOn(booked, day) == booked.day <= day /\ day <= booked.dayEnd

\* `booked`, padded by the buffer, meets the draft's window on the draft's FIRST day.
BusyAround(draft, booked, buffer) ==
  /\ OccupiesOn(booked, draft.day)
  /\ Overlaps(draft.from, draft.to, booked.from - buffer, booked.to + buffer)

\* The archetype's own overlap rule between a draft and one active reservation.
\* Tee times have none: they share a capacity (TeeFull).
Clashes(cfg, draft, booked) ==
  \/ /\ cfg.archetype = "slot"
     /\ booked.unit = draft.unit
     /\ BusyAround(draft, booked, cfg.buffer)
  \/ /\ cfg.archetype = "duration"
     /\ BusyAround(draft, booked, cfg.buffer)
  \/ /\ cfg.archetype = "room"
     /\ booked.unit = draft.unit
     /\ booked.day <= draft.dayEnd
     /\ draft.day <= booked.dayEnd
  \/ /\ cfg.archetype = "day_range"
     /\ draft.day = draft.dayEnd
     /\ BusyAround(draft, booked, cfg.buffer)
  \/ /\ cfg.archetype = "day_range"
     /\ draft.day # draft.dayEnd
     /\ \E day \in draft.day .. draft.dayEnd : OccupiesOn(booked, day)

\* The players of the reservations `ids` of the table `book`.
Headcount(book, ids) == SumFunction([i \in ids |-> book[i].draft.players])

\* Headcount already taken at a tee time, on the draft's first day, by the
\* reservations `ids` of the table `book`.
TeeTaken(book, ids, draft) ==
  Headcount(book, {i \in ids : /\ OccupiesOn(book[i].draft, draft.day)
                               /\ Overlaps(draft.from, draft.to,
                                           book[i].draft.from, book[i].draft.to)})

\* (fault: the draft's own players are forgotten)
TeeFullWithoutDraft(cfg, book, ids, draft) ==
  cfg.archetype = "tee_time" /\ TeeTaken(book, ids, draft) >= cfg.capacity

TeeFull(cfg, book, ids, draft) ==
  /\ cfg.archetype = "tee_time"
  /\ TeeTaken(book, ids, draft) + draft.players > cfg.capacity

\* Time-range checks of each archetype (a tee time has none).
WellFormed(cfg, draft) ==
  /\ draft.day <= draft.dayEnd
  /\ cfg.archetype \in {"slot", "duration"} => draft.from < draft.to
  /\ cfg.archetype = "day_range" /\ draft.day = draft.dayEnd => draft.from < draft.to
  /\ cfg.archetype = "room" => draft.day < draft.dayEnd

\* Facility-wide blocks (a community event's hold is one).  A day-range booking
\* of several days is not compared with them.
BlockedBy(cfg, draft, block) ==
  \/ /\ cfg.archetype = "room"
     /\ block.dayEnd >= draft.day
     /\ draft.dayEnd >= block.day
  \/ /\ cfg.archetype # "room"
     /\ ~(cfg.archetype = "day_range" /\ draft.day # draft.dayEnd)
     /\ OccupiesOn(block, draft.day)
     /\ Overlaps(draft.from, draft.to, block.from, block.to)

Week(day) == day \div 7

\* Bookings of the pool `ids` in the week of `day` that `contact` hosts or joins.
WeeklyUsage(book, ids, contact, day) ==
  Cardinality({i \in ids : /\ Week(book[i].draft.day) = Week(day)
                           /\ contact = book[i].host \/ contact \in book[i].draft.mates})

\* The draft itself is counted with the pool before the cap is compared.
CapReached(cfg, book, ids, contact, day) ==
  cfg.weeklyCap > 0 /\ WeeklyUsage(book, ids, contact, day) + 1 >= cfg.weeklyCap

-----------------------------------------------------------------------------
(* Pricing: the price of a draft is a parameter, what a quote makes of it is not. *)

Quote(cfg, price) ==
  IF cfg.included THEN [total |-> 0, deposit |-> 0, dueLater |-> 0]
  ELSE [total    |-> price,
        deposit  |-> cfg.deposit,
        dueLater |-> IF cfg.requiresApproval /\ price > cfg.deposit
                       THEN price - cfg.deposit ELSE 0]

\* ts_round(paid * percent / 100): half is rounded up.
PercentOf(paid, percent) == (2 * paid * percent + 100) \div 200

=============================================================================
