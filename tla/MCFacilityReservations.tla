----------------------- MODULE MCFacilityReservations -----------------------
(***************************************************************************)
(* Small instances of FacilityReservations for TLC.  The constants of the  *)
(* configurations are the definitions below, one group per question.       *)
(***************************************************************************)
EXTENDS FacilityReservations, TLC

CONSTANTS i1, i2, i3, r1, r2, c1, c2, e1

D(unit, day, dayEnd, from, to, players) ==
  [unit |-> unit, day |-> day, dayEnd |-> dayEnd, from |-> from, to |-> to,
   players |-> players, mates |-> {}]

C(archetype, approval) ==
  [archetype |-> archetype, accepting |-> TRUE, requiresApproval |-> approval,
   included |-> FALSE, deposit |-> 0, buffer |-> 1, weeklyCap |-> 0,
   capacity |-> 4, noShowPercent |-> 50, tierPercents |-> {0}]

\* Rooms have a weekly cap of two.
CapConfigs == {[C("room", FALSE) EXCEPT !.weeklyCap = 2]}

\* Occupancy: for each archetype, drafts that touch, overlap and are apart.
OccupancyDrafts ==
  [a \in Archetypes |->
     CASE a = "slot"      -> {D(1, 0, 0, 0, 2, 1), D(1, 0, 0, 1, 3, 1), D(2, 0, 0, 0, 2, 1)}
       [] a = "tee_time"  -> {D(0, 0, 0, 0, 2, 3), D(0, 0, 0, 1, 3, 2), D(0, 0, 0, 2, 4, 1)}
       [] a = "duration"  -> {D(0, 0, 0, 0, 2, 1), D(0, 0, 0, 2, 4, 1), D(0, 0, 0, 3, 4, 1)}
       [] a = "day_range" -> {D(0, 0, 0, 0, 2, 1), D(0, 0, 1, 1, 3, 1), D(0, 1, 1, 3, 4, 1)}
       [] a = "room"      -> {D(1, 0, 8, 0, 0, 1), D(1, 7, 9, 0, 0, 1),
                                D(1, 9, 10, 0, 0, 1), D(1, 10, 11, 0, 0, 1)}]

OccupancyConfigs == {C(a, FALSE) : a \in Archetypes \ {"room"}} \cup CapConfigs
                      \cup {[C("slot", TRUE) EXCEPT !.buffer = 0]}

FreePrices == {0}

\* Money: one court, prices that go up and down, deposits, both policies.
MoneyDrafts == [a \in Archetypes |-> {D(1, 0, 0, 0, 2, 1)}]

MoneyConfigs == {[C("slot", approval) EXCEPT !.deposit = 2, !.tierPercents = {50}] :
                   approval \in BOOLEAN}

MoneyPrices == {1, 5}

\* Requests and holds: one court that bookings and an event both want.
RequestDrafts == [a \in Archetypes |-> {D(1, 0, 0, 0, 2, 1)}]

RequestConfigs == {[C("slot", approval) EXCEPT !.buffer = 0] : approval \in BOOLEAN}

Symmetry == Permutations(Ids) \cup Permutations(Reqs)

=============================================================================
