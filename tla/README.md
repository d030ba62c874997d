# Verification of the ATS HomeCraft user service

`src/apps/user_service` is a FastAPI service for residential communities: facility
bookings, events, fee invoices, gate passes, notices and the CRM records around them.
Its state lives in PostgreSQL. Every HTTP request runs in one transaction at READ
COMMITTED (`UnitOfWork`, `libs/shared_db/drivers/asyncpg_uow.py`), so what makes the
service hard is not one handler but two of them at once: a handler reads, awaits, and
writes, and unless it holds a lock another transaction commits in between. A few
repositories take row locks (`FOR UPDATE`) or an advisory lock; most handlers do not.

This directory holds TLA+ modules for the parts with a protocol: facility bookings with
their invoices and wallets, maintenance fees with the access hold they lead to, who is
let in at the gate, tickets of community events, and who lives in a unit. With them come
the TLC runs that check them and theorems checked by TLAPS.

## 1. Inventory

| Component | State | Operations | Talks to | What is hard | What makes it correct |
| --- | --- | --- | --- | --- | --- |
| booking engines (`services/facility_booking/*`) | none (pure) | validate a draft, quote, cancellation fee, lifecycle tables | called by the services below | five archetypes with different overlap rules, boundaries | drafts that clash are refused |
| reservations (`facility_reservation_service.py`, repository) | `facility_reservations`, participants, timeline | create, reschedule, approve, reject, check in, complete, no-show, cancel, note | engines, ledger, configuration, notifications | check-then-insert, two locks, payments read before the lock | no double booking, capacity, weekly cap, one replacement per move, final states are final |
| booking ledger (`facility_booking_ledger_service.py`) | `facility_booking_ledger_entries` | post, sum, manual charge | reservations, billing | sums over entries other requests are adding | charged once, refunds covered by payments |
| configuration, inventory, defaults (`facility_booking_config_service.py`) | config (versioned), units, schedules, blocks, closures | patch with optimistic version, CRUD | engines read it | changes between quote and check-in | stored quotes stay what is charged |
| venue holds (`community_event_facility_hold.py`) | one slot block per event | ensure, release | events call it, reservations read blocks | no facility lock | a hold and a booking do not overlap |
| billing (`facility_booking_billing_service.py`) | invoices, wallets, wallet transactions | generate, pay, top up, adjust, set limit | ledger | unlocked read of unbilled entries and of invoice status | an entry is billed once, an invoice paid once, the balance is the sum of transactions |
| community events and tickets (`community_events_service.py`, `community_event_booking_service.py`) | events with aggregates, bookings, waitlist | publish, edit, cancel, complete, delete, book, cancel, promote, pay, waive | venue holds, notifications, jobs | counts and status read without a lock, rows locked in two orders | seats in use are counted, the waitlist is served in order and within capacity, revenue covers what was paid |
| fee billing (`fee_billing_service.py`, repository) | invoices with arrears lines, payments, unit credits | the daily job (bill, carry arrears, late fees, apply credits), record a payment, cancel, remind | access holds, mail, PDF | payments and credits read without a lock, a job that is repeated or overlaps itself | a period is billed once, paid means covered, arrears are not dropped, no receipt is lost |
| app access holds (`app_access_evaluate.py`, `app_access_service.py`) | override and stored verdict per unit | evaluate a unit, hold, release and clear by hand | run at the end of every fee transaction | verdicts from stale books, the last to commit wins | a unit that owes nothing does not stay blocked |
| gate: passes (`passes_service.py`, `pass_verification_service.py`) | passes with entry count, their events | create, edit, cancel, check in, check out | push notifications | count compared before it is incremented, status written blindly | a used pass stays used and is cancelled once at most |
| gate: walk-ins (`walk_in_service.py`) | a visit, one decision per flat, events | create, approve, reject, enter, exit | push notifications | the header is recomputed from what one transaction sees | who enters had been approved, a rejection is final, cancelled means all rejected, a turnover leaves no open decision |
| tenant requests (`tenant_requests_service.py`, repository) | requests with documents, status and move-out | create, cancel, review and replace documents, resubmit, approve, renew, ask for, approve and reject a move-out | turnover, contacts, moves | status and tenancy read long before they are written, a read that writes | one tenancy per unit, its tenant lives there, an ended tenancy stays ended |
| moves, owners, deletion (`move_events_service.py`, `contact_units_service.py`, `contact_delete_cascade_service.py`) | links of contacts to units, roles, the ledger of moves | move in and out, allot, unassign, reassign, delete a contact | tenant requests, turnover | check-then-act on the Tenant role, one service undoing what another is doing | the role follows the link, a tenant of record is not displaced silently |
| unit turnover (`unit_occupancy_turnover_service.py`) | - | releases links, ends roles, supersedes the tenancy, cancels passes, rejects open visits, ends household, vehicles, pets | passes, walk-ins, sessions | links first and roles later, races with residents' decisions | as for tenants, passes and walk-ins |
| visitor logs, daily help | read models; master data with passes | CRUD, attendance | gate | little | - |
| notices | notices, recipients, pins | publish (also scheduled), repeat, expire | job, push | scheduled job against edits | published once |
| invitations, onboarding | tokens, codes | create, accept, expire | Supabase, Isometrik | retries | accepted once |
| units, towers, parking | master data, parking allotments | CRUD | contacts | little | - |
| CRM, marketplace, pets, vehicles, projects | rows | CRUD, import | Kafka, Typesense | little | - |
| identity, mail, push, search, memory | external | relay | external services | external | - |

`PROJECT.json` names the files of each component, and under `hazards` every place
where this code can go wrong in a way a test would hardly reach, with the properties
that cover it or the reason that none does.

## 2. Modules

| Module | Contents |
| --- | --- |
| `FacilityRules` | the engines as operators: statuses, `AllowedFrom`, overlap rules per archetype (`Clashes`, `BlockedBy`, `TeeFull` with the `Headcount` of a time), the weekly cap, `Quote`, rounding |
| `FacilityReservations` | the booking component as a state machine over those rules |
| `MCFacilityReservations` | drafts, prices and configurations of the runs, symmetry |
| `FacilityReservationsProofs` | types, locks and bookings: inductive invariant and theorems |
| `FacilityLedgerProofs` | the ledger: inductive invariant and theorems, on top of the former |
| `SumLemmas` | lemmas about sums over finite sets, for the proofs about money, seats and players |
| `WalletAccounts` | abstract: accounts that are paid into and drawn within their credit limit |
| `FacilityBilling` | invoices and wallets as a state machine; refines `WalletAccounts` |
| `MCFacilityBilling` | amounts of the runs, symmetry |
| `FacilityBillingProofs` | inductive invariant, theorems, the refinement |
| `FeeInvoices` | invoices, payments, credits and the access hold of one unit, and the daily job |
| `MCFeeInvoices` | ids of the runs, symmetry |
| `FeeInvoicesProofs` | inductive invariant and theorems |
| `GateAccess` | a walk-in visit to several flats, visitor passes, the turnover of a flat |
| `MCGateAccess` | symmetry |
| `GateAccessProofs` | inductive invariant and theorems |
| `CommunityEvents` | one event, its bookings, waitlist and aggregates |
| `MCCommunityEvents` | symmetry |
| `CommunityEventsProofs` | inductive invariant and theorems |
| `UnitTenancies` | one unit: tenant requests, links, roles and owner, under requests, moves, owner changes and deletions |
| `MCUnitTenancies` | symmetry, two bounds |
| `UnitTenanciesProofs` | inductive invariant and theorems |

`FacilityReservations` and `FacilityBilling` meet in the ledger: what the first posts
with a positive amount is what `PostCharge` of the second adds. They are separate
specifications: invoicing never changes an amount that the reservations read, because
`net_paid_for` sums the postings of a reservation and an invoice payment belongs to none.
An event's hold on its venue is part of `FacilityReservations`. `FeeInvoices` has the
access hold inside, because every transaction on the books ends with `evaluate_unit`;
`GateAccess` has the part of a turnover that passes and visits see, `UnitTenancies` the
part that links, roles and tenancies see: neither part reads what the other writes.

The modules share one form. A request is an element of `Reqs` with a record of where it
is (`pc`), what it has read and what it has written; `Begin...` is the read a handler
starts with, the later actions are its writes, and `Abort` rolls it back. What a
transaction writes before its last statement is kept in its request until it commits,
so that others do not see it, and the rows it has written are locked for them
(`Free`, `RowFree`, `EventFree`).

### State of `FacilityReservations`

| Variable | Code |
| --- | --- |
| `rows` | `facility_reservations`; `from` and `to` are `rescheduled_from_id` and `rescheduled_to_id`, `cancelledBy` is `cancel_info.by`; `submitted` records that the timeline opened with SUBMITTED |
| `ledger` | the entries of a reservation, summed by `entry_type` |
| `config` | the part of `facility_booking_configs` the engines read |
| `holds` | the `facility_slot_blocks` row of each community event |
| `facilityLock`, `rowLock` | `pg_advisory_xact_lock` of `lock_facility`, `SELECT ... FOR UPDATE` of `get_reservation` |
| `req` | requests in flight: where they are and the values they carry across an await |

### Actions and the grain of atomicity

A transaction that locks first and then reads only what the lock protects commutes with
the others and is one action (`Approve`, `Reject`, `CheckIn`, `Complete`). The others
are split where another request can come between:

- **create** takes the facility lock and validates (`BeginCreate`), then inserts, posts
  and commits (`InsertNew`);
- **reschedule** locks the old row (`BeginReschedule`), waits for the facility lock and
  validates (`AdmitMove`, or `RefuseMove`), then inserts the replacement, retires the
  old row and settles the difference (`InsertReplacement`);
- **cancel** and **mark_no_show** read what was paid (`BeginCancel`, `BeginNoShow`),
  then lock, check the status and post (`Cancel`, `MarkNoShow`, `TransitionRefused`);
- **event holds** check the calendar (`BeginHold`), then insert the block (`PlaceHold`);
- `Abort` rolls a request back at any point: a database constraint, a lost client, a
  dead process. `facility_reservations_no_overlap`, the exclusion constraint of the
  table, is outside the repository; it can only refuse an insert, so `Abort` covers it,
  and nothing shown here depends on it.

What `cancel_quote` computes for a resident (status, then payments) is one read: the
two can differ only by a check-in, which the resident's cancellation is refused after,
or by an approval, before which nothing is paid.

Abstracted: the price of a draft (any of `Prices`), the cancellation tier (the clock
picks any of `tierPercents`), participants' names (a headcount and the resident
mates), opening hours, closures and the advance window (they only refuse drafts; the
drafts of a run are ones they let through), timeline notes and notifications.

### `FacilityBilling`

| Variable | Code |
| --- | --- |
| `entries` | positive postings of an invoiceable type in `facility_booking_ledger_entries`, with `invoice_id` |
| `invoices` | `facility_booking_invoices`; `lines` names the entries whose text and amount the JSON holds |
| `payments` | how many payment entries the ledger holds for an invoice |
| `wallets`, `txns` | `facility_booking_wallets`; the sum of `facility_booking_wallet_transactions` per contact |
| `settings` | `project_booking_settings.wallet_credit_limit` |
| `walletLock` | the wallet's row, locked by the upsert of `get_or_create` until the transaction ends |
| `req` | requests in flight and what they have read |

A request reads without a lock (`BeginGenerate`, `BeginPay`, `BeginAdjust`), waits for
the wallet when it needs one (`LockToPay`, `LockToAdjust`; `BeginTopUp` and
`BeginSetLimit` start with it), and commits all it writes in one step (`Generate`,
`PayFromWallet`, `PayDirect`, `Adjust`, `TopUp`, `SetLimit`), because at READ COMMITTED
nobody sees a write earlier. Updates that nobody locks before, an entry's `invoice_id` and
an invoice's `status`, are overwritten in the order of the commits, as PostgreSQL does
when the second update waits for the first. `RefuseCredit` and `Abort` roll back.

`get_wallet`, called at the end of a wallet operation, takes the lock the request has
already. A project limit of zero is read as unset (`or 10000`), which `DefaultLimit`
keeps; `Fallback` stands for 10000.
Invoice numbers, due dates, references, the switches of the payment methods and
membership (which refuse a request before it writes) are left out. So is the number race:
`count_for_year` gives two billing runs in flight the same number.

### `FeeInvoices`

| Variable | Code |
| --- | --- |
| `now` | the current billing period; the job's `today` |
| `invoices` | `fee_invoices`; `arrears` names the invoices whose balance its arrears lines copy |
| `paid` | the sum of `fee_invoice_payments` per invoice |
| `credits` | `fee_unit_credits.amount` |
| `override`, `blocked` | `app_access_overrides.kind`, `app_access_states.status` |
| `received` | what residents have handed over: history, not a column |
| `req` | transactions, with what they read (`due`, `prior`, `pool`) and wrote |

The books are one unit's: other units share nothing but run counters with it. The reads
of a handler are one step (`BeginPay`, `BeginCancel`, `BeginJob`), because what lies
between them waits for nobody. Then come the writes one at a time: `Pay`,
`CancelInvoice`, `Bill` (the invoice, the closing of those it carries and the evaluation of
the unit) or `FindBill`, each credit application (`ApplyCredit`), `Evaluate`, and `Commit`.
The row locks are those that PostgreSQL takes by itself: `Free` makes a write wait for
an uncommitted write to the same row or to the same unique key, `BillKey` being the
unit, billing day and month of an invoice.

What the code does not check, the model does not check: `record_payment` decides the
status from the new payment alone; `_apply_unit_credits` inserts the payment whether
or not `consume_credit` found the amount; the job carries the balance it read at
its start. Amounts of fee heads, taxes and late fees are constants, and
which overdue invoices a bill may carry (those of its kinds of fees) is any subset.

### `GateAccess`

| Variable | Code |
| --- | --- |
| `visit` | the `walk_in_entries` row with status and `approved_count`; `cancels` counts its cancelled events |
| `flat` | `walk_in_visit_units.status` |
| `approved` | flats with a `visit_unit_approved` event |
| `pass` | `passes`, with counts and latest times of their `pass_events` |
| `clock` | start times of the transactions that check in and out: an event's `created_at` |
| `req` | transactions |

A decision reads the flat (`BeginDecide`), updates it while it is awaiting (`Decide`),
recomputes the header from the flats it sees (`Count`) and commits. A turnover is the
same from its own update on (`Release`), after listing the passes it will cancel
(`BeginTurnover`); if the update finds nothing open, once the flat's row is free, the
visit is left alone (`ReleaseNothing`) and only the passes are written. Entering, leaving
and the operations on a pass are a read and a write each. `HasOpenCheckIn` compares the
times at which the transactions began, as `now()` does, which is why a check-out that
began first and commits last still closes nothing. One visit stands for all: visits share no rows, and a turnover, which touches
several, treats each in turn.

### `CommunityEvents`

| Variable | Code |
| --- | --- |
| `event` | the `community_events` row: status, `record_status`, type, capacity, per-resident limit, the four aggregates |
| `rows` | `community_event_bookings`, named by the order of `booked_at`; `cancels` counts audit entries |
| `begun` | bookings tried so far |
| `req` | transactions |

A booking reads the event and decides between a seat and the waitlist (`BeginBooking`),
counts the resident's tickets (`CountTickets`) and inserts, which waits for the event's
row (`Book`). A cancellation reads the booking (`BeginCancel`), locks it
(`LockBooking`) and, with the event's row, writes the aggregates (`Release`) and may
promote (`BeginPromotion`, `Promote`); `Promote` needs another booking's row while it
holds the event's, so two cancellations can wait for each other, and PostgreSQL aborts
one: `Abort`. Payments are read, lock, write (`BeginPayment`, `LockBooking`, `MarkPaid`;
`MarkWaived`). `WriteEvent` is the write of a publication or an edit, `SetStatus` the
handlers and the job that set a status without having read one.

### `UnitTenancies`

| Variable | Code |
| --- | --- |
| `request` | `tenant_requests`: status, `ended` is `superseded_at IS NOT NULL`, `asked` a pending `move_out_status`, the tenant, the status of each document |
| `link`, `primary` | `contact_units.status` and `is_primary` of the contacts that can be tenants |
| `role` | the holder of the unit's active Tenant role in `contact_roles` |
| `owner` | the holder of the Owner role, with an open link |
| `deleted` | contacts soft-deleted |
| `req` | transactions: what they have read, the links they have released (`rel`), whether roles end with them (`ends`), the tenancy they end (`old`) |

A handler reads and checks (`Begin...`), releases links if it turns the unit over
(`Release`), and writes the rest and commits in one step. Released links are uncommitted
rows, so that others who want to write them wait (`Unlocked`); those who read them see
them open. Everything a handler checks it checks at its start: that is how
`create_move_event` (`BeginMoveIn`, `MoveIn`), `approve_request` (`BeginApprove`, then
`Provision` or, for the tenant who is there already, `Renew`) and `create_move_out_request`
(`BeginAsk`, `Ask`) come to act on a unit that has changed. The handlers of an owner's
request and its documents share `WriteRequest`, which writes whatever has become of the
request; so does the mere reading of one (`BeginRefresh`). A resubmission puts up again the
documents it supplies, or all of them (`Reset`). Unassigning, reassigning and
the deletion of an owner's contact start alike (`BeginVacate`) and differ in what follows
(`Unassign`, `Reassign`, `DeleteOwner`). `Unique` is the unique indexes: a
write they refuse rolls back. A turnover keeps the owner it has read (`keep`), vacating a unit
keeps nobody (`scope`).

Occupants here are tenants. Family members go with them and end no tenancy of their own;
dates, dues and holds only refuse; the ledger of moves is written and, but for `Reactivate`,
not read back.

## 3. Runs

| Run | Instance | Shows |
| --- | --- | --- |
| `facility_occupancy` | 3 reservations, 2 requests, all archetypes, 3 or 4 drafts each | `NoDoubleBooking`, `TeeCapacity`, `MovedOnce`, `WeeklyCapKept` |
| `facility_money` | 2 reservations, 2 requests, resident and staff, prices 1 and 5, deposit 2, approval on and off | `TypeOK`, `ChargedAsQuoted`, `RefundsCovered`, `EndedIsFinal` |
| `facility_requests` | 2 reservations, 2 requests, one event, `FairSpec` | `RequestsAnswered` |
| `fees` | 2 invoices, 2 credits, 2 transactions, 2 periods, charge 2, late fee 0 or 1, receipts 1 and 3 up to 4 before the last | `TypeOK`, `BilledOncePerPeriod`, `PaidIsCovered`, `CarriedIsBilled`, `NoReceiptLost` |
| `fees_hold` | 1 invoice, 1 credit, 1 period, receipts of 1, both overrides, 2 transactions, `FairSpec` | `HoldLifted` |
| `gate` | 2 flats, 1 pass, `max_entries` 1 or none, 2 check-ins or check-outs, 2 transactions | `TypeOK`, `EntryWasApproved`, `CancelledIsRejected`, `CancelledOnce`, `TurnoverLeavesNothingOpen`, `DecisionsFinal`, `CompletedStays` |
| `events` | 3 bookings of 1 or 2 tickets, capacity 1 or none, limit 4, one of them payable, 2 transactions | `TypeOK`, `RevenueCoversPaid`, `SeatsKept`, `CancelledStays`, `PromotionFits`, `FirstInLine` |
| `tenancy` | 2 contacts, 1 owner, 1 request with 1 document, 2 transactions | `TypeOK`, `TenantHasLink`, `TenantOfRecordKept`, `EndedTenancyRests` |
| `tenancy_serial` | 2 contacts, 1 owner, 2 requests with 2 documents, 1 transaction | `TenancyIsLived` |
| `billing` | 2 contacts, 2 entries of 2, 2 invoices, 2 requests, write-off 2, limit 1 or none, project limit 0 (read as 3) or 2 | `TypeOK`, `WalletBalances`, `BilledOnItsInvoice`, `KeepsAccounts` |

The drafts of `facility_occupancy` touch, overlap by one minute or one night, or are
apart by less than the buffer; rooms fall into two weeks so that the cap counts per week.
A cap of 2 grants a host one booking in a week, as the draft counts itself, so two requests
of the host that do not see each other are enough to break `WeeklyCapKept`.
Three reservations are needed for two requests to race over a third booking and for a
tee time to overflow by the sum of two others; a race here has two parties, and a
third request repeats the position of one of them. The price pair lies on both sides of
the deposit, so that `dueLater` is zero and positive and a move is settled either way.
Ids and requests are interchangeable in the two safety runs (symmetry); the liveness
run uses none.

In `billing` an invoice of 2, or a write-off of 2, is refused by a limit of 1 on an empty
wallet, allowed once by a project limit of 2 or 3, and allowed again after a top-up.
`MaxBalance` stops top-ups at a prepaid balance of 2; debts are bounded by the limits.
Two contacts and two charges are the least that show an entry on the wrong invoice.

In `fees` a receipt of 1 leaves an invoice partial and one of 3 leaves a surplus that
becomes a credit; two credits let two payments race for the first and add the second.
Two periods are the least in which a bill carries arrears, and two transactions can
both be the job of the same day. `MaxReceived` stops receipts, so that the books stay finite.
Overrides are left to `fees_hold`, where one invoice is enough: a verdict depends on what
the unit owes, not on how many invoices it owes it by.

In `gate` two flats are the least where a visit is approved by one and rejected by the
other, and a flat can be decided by a resident while it is turned over. One check-in and
one check-out, or two check-ins of one pass, are the moves that race. Passes do not
share anything, so one is enough.

In `events` a capacity of 1 makes every second booking wait and every promotion a
question of one seat; 2 tickets do not fit it and hold the line. Three bookings are one
seated and two waiting, or two cancellations that promote the same third. `None` in
`Capacities` covers events without limit and edits that introduce one. One payable booking
bounds the payments; it is the second, so that it may be seated, waiting or promoted.

In `tenancy` two contacts are a tenant and the one who takes the place; contacts are not
used up, so that one may move in again. A tenancy recorded by staff takes a request like
one of the owner's. One document passes through every status a set of documents derives,
as a header differs only in whether one is rejected and all are verified. Two bounds are
constraints of the run (`MCUnitTenancies`): `KindsApart` lets the handlers of a request and its
documents overlap with one another but not with turnovers, and `NobodyDeleted` stops
behaviours after the first deletion of a contact, whose races with everything before it are
in. Without them the instance has 14 million states, and the same properties hold. In
`tenancy_serial` neither is set: two requests are a tenancy and the one that follows it,
two documents are one that is put up for review again and one that is not, and deletions
go on until nobody is left. `TenancyIsLived` is about sequences; with
transactions at once it fails, for the reasons in section 5.

`CHECK_DEADLOCK FALSE` is set in the runs of bookings, billing, fees and events: ids are
handed out once (the bound of the model), and when all are used and have ended nothing is
left to do. `gate` and the two runs of tenancies check deadlock.

### Where code and documents disagree

Each of these runs checks one sentence of the repository and TLC finds it violated:

| Run | Sentence | What happens |
| --- | --- | --- |
| `facility_hold_race` | "Reject a hold when an active reservation already occupies the window." (`community_event_facility_hold.py:143`) | the check takes no facility lock, so a booking being admitted is not seen |
| `fees_settled` | "Record a payment and update the invoice to partial or paid." (`fee_billing_service.py:1016`) | the status is computed from a header without its payments (`fee_billing_service.py:1054`): an invoice paid in two instalments stays partial |

### Fairness

`RequestsAnswered` needs `SF_vars(Answer(r))` for each request. PostgreSQL
queues the waiters of a lock in order of arrival, so a request whose lock is free again
and again obtains it; and a handler that holds its locks runs to its commit. Nothing is
assumed of clients: no request has to begin, and no booking has to be approved,
attended or completed.

`HoldLifted` is about a stale verdict that a later transaction must correct. Its
`Fairness` says three things. Every transaction ends, if only by a timeout or as the
victim of a deadlock: `WF_vars(Abort(r))`, which is continuously possible while it is in
flight. A transaction that can evaluate and commit again and again does so at some time:
`SF_vars(Evaluate(r))`, `SF_vars(Commit(r))`; transactions do not fail for ever. And the
scheduler starts the job every day (`docs/0017-fee-configuration-flow.md:722`) and it gets
past the bill: strong fairness of `BeginJob(Worker)` and of
`NoBill(Worker) \/ FindBill(Worker) \/ Bill(Worker)`. Strong, because another
transaction may be in `Worker`'s place or hold its rows now and then. No resident
has to pay and no member of staff has to act.

## 4. Proofs

`FacilityReservationsProofs` proves, for every set of ids, requests, contacts, events,
drafts, prices and configurations:

- `TypeCorrect`: `Spec => []TypeOK`;
- `NeverDoubleBooked`: `Spec => []NoDoubleBooking`, assuming that slot and duration
  drafts span one day (`SingleDayDrafts`; the engine checks such a draft on its first
  day only, and leaves the rest to the exclusion constraint of the database);
- `AlwaysMovedOnce`: `Spec => []MovedOnce`;
- `EndedStaysFinal`: `Spec => EndedIsFinal`;
- `TeeTimesNeverOverfull`: `Spec => []TeeCapacity`, assuming that tee times are booked on
  one day (`OneDayTees`: the engine adds up the players of the first day only, section 5)
  and that staff do not change their capacity (`OneTeeCapacity`: lowering it cancels no
  booking, so those made before may exceed it);
- `WeeklyCapAlwaysKept`: `Spec => WeeklyCapKept`, assuming that staff choose among
  finitely many caps (`FinitelyManyCaps`), without which there is no highest one;

and `FacilityLedgerProofs`, under the same assumptions:

- `RefundsAlwaysCovered`: `Spec => []RefundsCovered`;
- `AlwaysChargedAsQuoted`: `Spec => []ChargedAsQuoted`.

`NoDoubleBooking` is not inductive: an insert relies on a validation made a step
earlier. `BookingInv` adds what that takes. `LocksHeld` says that a request between
validation and insert is the one holding the facility lock, and that a move holds the
row it moves; `AdmittedClear` says that the draft of such a request clashes with no active
booking other than the one it replaces; `DraftsForward` that no booking ends before it begins.
`AdmittedClear` survives the other requests because a booking only becomes active in an
insert, which needs the facility lock, and survives a change of configuration because
it is stated with `DoubleBooks`, which the buffer is not part of. `ClashesSuffice`
links the engine's rules to `DoubleBooks`. `EndedIsFinal` follows from the locks: every
action that writes a row finds it active under its lock, and `InsertReplacement` still
holds the lock under which `BeginReschedule` found it so.

The ledger properties rest on `LedgerInv`, which is inductive together with
`BookingInv`. `RowsCharged` says what a booking that was never moved has been charged
in each status before its check-in; that a booking confirmed at once owes nothing later
is a fact about the policy at the time of its quote, so `AdmittedQuoted` carries it from
validation to insert across a change of configuration. `ReadsPaid` says that what a
cancellation or a no-show has read is still paid when it refunds it: payments only grow,
and `LedgerStarts` keeps a fresh row empty. `ActiveCovered` is the part of
`RefundsCovered` that a second refund would break: while a booking is active, nothing
but its own move has returned money, so the refund that ends it has all of `Paid(i)`
left. That no two rows replace the same one, which a refund of the difference relies
on, is `MovedOnce`.

`TeeCapacity` is stated for the minutes at which a booking starts; the invariant
(`TeeFits`) says it for every minute, as a new booking may span the start of another one. What
makes an insert keep it is `AdmittedFits`: the draft validated under the advisory lock
still fits, because until then no other insert can come (the lock) and everything else only
takes players away (`QuietKeepsTees`). The players a new booking meets at one minute are
among those the engine adds up, all that overlap the draft, so its bound is enough
(`InsertKeepsTees`). `WeeklyCapKept` has the same argument in `AdmittedWithinCap`, with
what counts towards the cap (`Pool`) in place of active bookings: the host's usage without
the row being replaced was, with the draft counted, below the cap in force then, hence
below the highest, and an insert adds one to it at most (`UsageAdds`). The cap in force may
have changed since, which is why the property compares with the highest.

The assumption `ConstantsAssumption` types the constants, says that ids are finitely many
and makes NULL different from what it stands in for.

`FacilityBillingProofs` proves, for every set of contacts, entries, invoices and
requests, and any amounts and limits:

- `BillingTypeCorrect`: `Spec => []TypeOK`;
- `WalletsAlwaysBalance`: `Spec => []WalletBalances`;
- `AlwaysBilledOnItsInvoice`: `Spec => []BilledOnItsInvoice`;
- `WalletsImplementAccounts`: `Spec => Accounts!Spec`, the refinement of
  `WalletAccounts` with the sum of the transactions as the balance.

The inductive invariant `BillingInv` adds `RequestShape`: a request past its wallet's
upsert holds the row, and the row is still what it read. It holds because whoever writes
a wallet holds its row, so nobody else is past that point (`LockStep`, `WalletStep`);
without it an absolute balance could overwrite a transaction. For the refinement,
`TakesOut` turns the comparison with the credit limit into the guard of the abstract
step: what was compared is the balance now, the wallet's limit now, or a project limit
read when the request began, which is why `WalletAccounts` lets a contact without a
limit of its own have any of `Credits`. `GenerateStep` is the step for invoices: the ids
of a billing run are fresh and one per contact, so each entry that was read ends up on
the invoice of its own contact, and a second run in flight moves it to its own
invoice but never back to unbilled. That a total of positive amounts is positive is
`SumTakes` and `SumNatural` of `SumLemmas`. The assumptions type the constants, say that
entries are finitely many and make NULL different from every row.

`FeeInvoicesProofs` proves, for every set of invoices, credits and transactions, any
number of periods and any amounts:

- `FeesTypeCorrect`: `Spec => []TypeOK`, in which a credit is never negative;
- `AlwaysBilledOncePerPeriod`: `Spec => []BilledOncePerPeriod`;
- `AlwaysPaidIsCovered`: `Spec => []PaidIsCovered`;
- `AlwaysCarriedIsBilled`: `Spec => []CarriedIsBilled`;
- `AlwaysNoReceiptLost`: `Spec => []NoReceiptLost`.

Each of the first four is about rows that a transaction has written long before it commits them, so
`FeeInv` adds what is true of every transaction and of every two. `Sound(q)`: its bill is
of a period without one (`BillSound`); what it marks as paid is covered by what is
committed and its own payments, and what it has read as due is at least what is left
(`PaymentsSound`, which survives the payments of others because they only reduce what is
left); what it closes as carried is in its own later bill (`CarriedSound`); the credits
it uses exist (`CreditsSound`). `Apart(p, q)`: no two transactions use one credit, add
one, or bill one period at a time; this is where the locks of PostgreSQL come in. A commit
keeps the others sound because of `Apart` (`CommitKeepsOthers`).

`NoReceiptLost` compares what residents have handed over with the sums of all payments and
all credits. `ReceiptsInv` adds what every transaction keeps in balance before it commits
(`Balanced`): the payments it has written make up at least the credit it has used and the
part of its receipt it has applied, and a surplus has a credit to go to. A commit adds its
own tables of payments and credits to those on the books, whatever these have become
meanwhile (`SumPlus`); a credit that `consume_credit` did not find is a payment all the same, so the
books may gain from a race but not lose.

`GateAccessProofs` proves, for every set of flats, passes and transactions:

- `GateTypeCorrect`, `AlwaysEntryWasApproved`, `AlwaysCancelledIsRejected`,
  `AlwaysCancelledOnce`, `AlwaysTurnoverLeavesNothingOpen`: `Spec => []` of the
  invariants of `gate`;
- `AlwaysDecisionsFinal`, `AlwaysCompletedStays`: `Spec =>` its action properties.

`CancelledIsRejected` is what is left of a header that concurrent decisions overwrite: a
transaction that is about to cancel has seen no flat awaiting or approved. `VisitSound`
says that this stays true until it commits, since the only flat it saw differently is its own,
and no decision undoes a rejection. `VisitInv` adds that a visit whose cancellation is on
record has all flats rejected, after which nobody gets as far as a second
(`CancelledOnce`), and that an approved flat has its event, so that a count above zero, however
stale, means that somebody had approved. `TurnoverLeavesNothingOpen` rests on `VisitSound`
twice: a transaction decides on a flat only while it is open, so a flat found closed is not
being decided, and what a turnover found closed stays so until it commits.

`CommunityEventsProofs` proves, for any number of bookings, residents and transactions:

- `EventsTypeCorrect`: `Spec => []TypeOK`, in which no aggregate is negative;
- `AlwaysRevenueCoversPaid`, `AlwaysSeatsKept`: `Spec => []` of the two invariants about
  its aggregates;
- `AlwaysCancelledStays`, `AlwaysPromotionFits`, `AlwaysFirstInLine`: `Spec =>` the
  action properties of `events`.

A promotion takes two steps, and `PromotionSound` is what must survive between them: the
booking chosen is waiting, is the first to wait, and fits. It survives because everything that
would change it (an insert, a cancellation, an edit) needs the event's row, which only one
transaction has while promoting (`Apart`); and a booking that begins later has a
larger number.

The aggregates of an event are written beside the bookings they add up. `AccountsInv` says
how far the two agree (`Accounted`: revenue may exceed what is paid, when a payment is
taken twice, but never falls short of it; seats may, but only after a booking was cancelled
twice), and that the tickets and the amount that a transaction has read of
a booking are still its own (`ReadSame`), as it adds or subtracts what it has read and not
what the booking has become.

The assumptions of these modules type the constants and make NULL different from
rows, ids and statuses.

`UnitTenanciesProofs` proves, for every set of contacts, owners, requests, documents and
transactions:

- `TypeCorrect`: `Spec => []TypeOK`;
- `RoleFollowsLink`: `Spec => []TenantHasLink`;
- `TenantOfRecordIsKept`, `EndedTenancyStays`: `Spec =>` the action properties of `tenancy`;
- `TenancyOnRecordIsLived`: `Spec => []TenancyIsLived`, assuming that transactions do not
  overlap (`OneAtATime`: there is at most one in flight), without which it is false.

`TenancyInv` adds to `TenantHasLink` what a turnover relies on between releasing links and
ending roles. `ReleaseSound`: what it has released had a link, one contact only when it is
one occupant who leaves, and a role is left with a released contact only if the unit has no
owner any more, which is why `TenantHasLink` is about owned units. `ReadSound`: the rows,
contacts and owners a transaction carries exist. `TenantsKnown`: a tenant on record has had
a link. Every turnover commits by one of two lemmas (`TurnoverKeeps`, or
`NewTenantKeeps` when somebody moves in), and whatever writes requests only leaves
tenants known (`SameRows`, `CommitKeeps`). `TenantOfRecordKept` follows from the two ways a
tenant comes: an approval writes its tenancy in the same step, and a move-in finds or makes
one (`SyncMoveIn`), unless the owner goes or the contact is deleted.

`TenancyIsLived` needs more of a unit between transactions (`Settled`): the holder of the role
lives there and is not deleted, the unit has one tenancy on record at most, and only
superseded requests have ended. If the unit has no owner the tenant is its primary
occupant: this is what keeps it from being allotted over the tenant's head, since allotting
looks at primary occupants only. An allotment and a link put back may still come between
the read and the write of a transaction, as they are not in `Reqs`; so `StillRead` says of
every handler what it has read that is still so when it writes (the request, the tenant,
that a turnover ends the tenancy on record and, unless it moves out somebody else, the
role), and `BetweenSettles` that neither of the two changes any of it.

`SumLemmas` is about the sums of the community module `Functions` (`SumFunction`), which
fold over a set that is taken apart by `CHOOSE`. The induction theorems of the library take
an operator and cannot be instantiated; `FewerInduction` gets along with a set of sets
instead, which is enough here: every sum is over subsets of one finite set. From it
follow that the order does not matter, and then the lemmas the proofs cite: a sum of sums
(`SumPlus`), one term more or changed (`SumAdds`, `SumChanges`), fewer terms
(`SumFewer`), bounds (`SumNatural`, `SumSupport`, `SumMonotone`).

All safety properties of the passing runs are proved, four of them under the premises named
above. Model-checked only:
`RequestsAnswered` and `HoldLifted`, as liveness under fairness is beyond the prover.

## 5. Known divergences without a run

These follow from a missing lock or test that the model has as the code has it. A run
for each would show the same pattern again, so they are only listed.

| Document or text | Code |
| --- | --- |
| "Staff cancel: refund of net paid, no fee" (`docs/0016-facility-booking-flow.md:31`) | payments are read before the row lock (`facility_reservation_service.py:759`): a deposit posted by an approval in between is not refunded |
| "Reschedule (confirmed): adjustment or refund for the difference vs net paid" (`docs/0016-facility-booking-flow.md:32`) | a second move looks at the first replacement only, whose payments are the difference of the first move (`facility_reservation_service.py:938`): the price is charged again; the balance of a booking approved with a deposit and then moved is posted again at check-in (`:645`) |
| a draft's capacity is checked for its time | a tee time over several days is checked on its first day only (`availability.py:556`); clients send single days, as the runs do |
| "Weekly limit reached — max {cap} booking(s) per week" (`availability.py:460`) | the draft is counted and compared with `>=` (`availability.py:456`): refused one booking early |
| "Staff generate invoices from unbilled positive charges" (`docs/0016-facility-booking-flow.md:43`) | two billing runs read the same charges (`facility_booking_billing_service.py:315`): both make invoices with them |
| "This invoice is already paid." (`locales/en.json:1504`) | two payments read the invoice before either commits (`facility_booking_billing_service.py:401`): both are taken |
| "sum confirmed tickets ≤ `total_capacity`" (`docs/0013-events-flow.md:45`) | two bookings read the same event (`community_event_booking_service.py:156`), and staff bookings do not compare |
| "Phase 1: no auto-promote" (`docs/0013-events-flow.md:46`) | `_promote_waitlist` promotes |
| "Sum of active tickets ... ≤ `max_tickets_per_resident`" (`docs/0013-events-flow.md:47`) | two bookings of one resident count before either is inserted |
| "Revenue metrics on the admin dashboard reflect **paid** bookings only" (`docs/0013-events-flow.md:26`) | two `mark_paid`, or one and a waiver, read a pending payment (`community_event_booking_service.py:672`): the amount is added twice, or for a waived booking |
| "Cancel decrements event aggregates when booking was `confirmed`" (`docs/0013-events-flow.md:657`) | two cancellations read the booking as confirmed (`community_event_booking_service.py:511`): both decrement |
| "Structural fields locked when published and `tickets_booked > 0`" (`docs/0013-events-flow.md:53`) | `update_event` tests what it has read (`community_events_service.py:524`): a booking may come in between |
| "Re-fetch + re-validate the pass (guard against races / stale verify)" (`docs/0004-passes-validation-flow.md:166`) | entries are compared without a lock (`pass_verification_service.py:369`): two guards let in one guest too many |
| a refusal is recorded (`docs/0004-passes-validation-flow.md:167`) | the event is inserted and rolled back with the exception (`pass_verification_service.py:387`) |
| "Security marked visitor left (terminal)" (`docs/0007-walk-in-flow.md:80`), "cancelled (cannot enter)" (`:97`) | entering and leaving write the status without testing it again (`walk_in_service.py:887`), also when the visit was cancelled or the flat turned over in between, as does a decision that commits late: it may overwrite either |
| "Cancel an issued invoice that has not received a payment." (`fee_billing_service.py:1209`) | payments are read without a lock (`fee_billing_service.py:1217`): one that commits in between belongs to a cancelled invoice |
| credits are used once | `consume_credit` tests the amount, but the payment is inserted all the same (`fee_billing_service.py:902`): two payments may settle invoices with one credit |
| waiting bookings of a cancelled event rest | `_promote_waitlist` does not read the event's status (`community_event_booking_service.py:604`): cancelling a booking of it still promotes the next |
| "while **preserving the owner**" (`docs/0005-move-events-flow.md:81`) | who is deleted without a current tenancy is taken for the owner (`contact_delete_cascade_service.py:107`): deleting a tenant whose renewal is under review, or an old tenant whose link was put back, vacates the unit, owner included |
| "Cancel pending request" (`docs/0006-tenant-requests-flow.md:75`) | cancelling a renewal cancels the tenancy itself (`tenant_requests_service.py:1273`): the tenant stays without one |
| a read does not write | reading a request writes its derived status (`tenant_requests_service.py:342`), over an approval or a cancellation that commits in between |
| requests are approved or cancelled | both test what they have read (`tenant_requests_service.py:1273`, `:1930`): the last to commit wins, and a tenant moved in stays without a tenancy |
| "On approve move-out: household turnover" (`docs/0006-tenant-requests-flow.md:58`) | `approve_move_out_request` reads the tenant first (`tenant_requests_service.py:2132`) and turns out whoever lives there after; a move-in does the same (`move_events_service.py:775`) |
| an updated tenancy is reviewed again | one recorded by staff has no documents (`tenant_requests_service.py:1148`): it is "submitted" for ever |
| a deleted contact has no roles | a contact deleted while being moved in is left with the Tenant role |
| the owner keeps the unit in a turnover | the owner is read before the links are released (`unit_occupancy_turnover_service.py:175`): one allotted the unit in between is moved out with the household |

## 6. Bounds

Every bound is a CONSTANT: the ids that can be handed out, `MaxBalance`, `LastPeriod`,
`MaxReceived`, `MaxMoves`, `MaxBookings`. Only guards of actions that begin something
mention them, so that what is in flight always ends as in the code. The
theorems hold for every value of them that meets the assumptions of their modules. Only
`tenancy` has constraints besides, the two of `MCUnitTenancies`; its theorems hold without
them. In all runs but `tenancy_serial` two requests are in flight at once: a race here has two parties, one that read and one that wrote in between; the theorems
that need more (`Apart`, `LockStep`) are proved for any number.

## 7. Tools

`tlc -config <run>.cfg <module>` with the pairs that `PROJECT.json` lists under `runs`;
`tlapm <module>Proofs.tla`. `events`, `tenancy`, `tenancy_serial` and
`facility_occupancy` are the longest runs, one to two minutes with two workers.

## 8. Not modelled

See the components with status `not_modelled`. Mail, push, PDF, search and the external
identity and AI services are output or relays: no decision of a modelled component
depends on their answers. CRUD modules keep one row per operation and have no protocol.

Of the modelled components: `add_note` of a reservation (appends to the timeline); codes
and numbers (`count_for_year` gives two billing runs in flight the same number); dates
that only refuse a request (booking windows, validity of passes); the amounts behind a
price, a fee or a tax; passes of daily help; families, vehicles and sessions in a turnover;
moves of owners, which change no tenancy.
An event's status and its hold on the venue are in different modules and are not composed:
a publication in flight while the event is cancelled may leave a hold behind
(`community_events_service.py:632`), which no property covers. The same goes for a
facility deleted while a booking is being made (`facilities_service.py:332`).

## 9. Plan

Done: bookings with ledger, billing, fees with access holds, gate, events,
tenancies, and the theorems of section 4. Left, in this order:

1. `VenueCalendar`, an abstract specification of what a bookable facility promises (a
   set of disjoint bookings), with `FacilityReservations` shown to implement it.
2. The status of an event composed with its venue's hold.
3. Several units of one contact in `UnitTenancies`: deletion treats each, and one tenancy
   of a contact is found without regard to its unit.
4. Notices published by schedule.
