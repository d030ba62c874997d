----------------------------- MODULE UnitTenancies -----------------------------
(***************************************************************************)
(* Who lives in a unit: the tenant requests of its owner                   *)
(* (TenantRequestsService), the moves recorded by staff                    *)
(* (MoveEventsService), changes of the owner (ContactUnitsService), the    *)
(* deletion of a contact (ContactDeleteCascadeService) and the turnover    *)
(* they share (UnitOccupancyTurnoverService), as concurrent transactions   *)
(* at READ COMMITTED.  Units have no state in common: one stands for all.  *)
(*                                                                         *)
(* A handler reads, releases links if it turns the unit over, and writes;  *)
(* others may commit in between.  Released links stay locked until the     *)
(* handler commits; its other writes and the commit are one step, and so   *)
(* is what sync_after_admin_move_in reads of the requests before it writes *)
(* them.                                                                   *)
(*                                                                         *)
(* Occupants are the tenants: family members, their invitations, passes,   *)
(* vehicles and pets go with them.  Dates, dues, holds and the ledger of   *)
(* moves only refuse a request or record it, and are left out.  Owners     *)
(* never rent, and an owner's link is open whenever the role is held.      *)
(***************************************************************************)
EXTENDS Integers, FiniteSets

CONSTANTS
  Contacts,  \* contacts that can live in the unit (the model's bound)
  Owners,    \* contacts that can own it
  Requests,  \* tenant requests that can be made (the model's bound)
  Docs,      \* the types of documents of a request
  Reqs,      \* transactions in flight at once
  None       \* SQL NULL

ASSUME TenanciesAssumption ==
  /\ Contacts \cap Owners = {}
  /\ None \notin Contacts \cup Owners \cup Requests \cup Docs

VARIABLES
  request,  \* tenant_requests with their documents
  link,     \* contact_units.status per contact
  primary,  \* contacts whose link has is_primary
  role,     \* the holder of the unit's active Tenant role
  owner,    \* the holder of its Owner role, with an open link
  deleted,  \* contacts deleted
  req       \* the transactions

vars == <<request, link, primary, role, owner, deleted, req>>

-----------------------------------------------------------------------------
(* Rows and transactions *)

OpenStatuses == {"submitted", "pending_review", "awaiting_resubmission", "ready_to_approve"}

Statuses == OpenStatuses \cup {"approved", "cancelled", "superseded"}

DocStatuses == {"pending", "verified", "rejected"}

LinkStatuses == {"active", "moved_out"}

\* ended is superseded_at IS NOT NULL, asked a move_out_status that is pending; tenant stands
\* for tenant_contact_id and the link.
Row == [status : Statuses, ended : BOOLEAN, asked : BOOLEAN,
        tenant : Contacts \cup {None}, docs : [Docs -> DocStatuses \cup {None}]]

Turnovers == {"approve", "move_in", "move_out", "approve_move_out", "vacate", "delete"}

Ops == Turnovers \cup {"renew", "drop", "create", "cancel", "review", "refresh", "resubmit",
                       "ask", "reject_move_out"}

\* What a handler has read: the request, contact, tenant and owner it is about; then the
\* links it has released, whether their roles end with them, and the tenancy it ends.
Transaction ==
  [pc : {"idle", "release", "write"}, op : Ops \cup {None}, row : Requests \cup {None},
   contact : Contacts \cup {None}, tenant : Contacts \cup {None}, keep : Owners \cup {None},
   scope : {"household", "single", "all"}, rel : SUBSET (Contacts \cup Owners),
   ends : BOOLEAN, old : Requests \cup {None}, doc : Docs \cup {None},
   verdict : DocStatuses, status : Statuses \cup {None}]

\* NULL is neither a row, nor a status, nor an operation.
ASSUME RowsAssumption == None \notin Row \cup Statuses \cup DocStatuses \cup LinkStatuses \cup Ops

Idle ==
  [pc |-> "idle", op |-> None, row |-> None, contact |-> None, tenant |-> None,
   keep |-> None, scope |-> "household", rel |-> {}, ends |-> FALSE, old |-> None,
   doc |-> None, verdict |-> "pending", status |-> None]

Init ==
  /\ request = [i \in Requests |-> None]
  /\ link = [c \in Contacts |-> None]
  /\ primary = {}
  /\ role = None
  /\ owner \in Owners
  /\ deleted = {}
  /\ req = [r \in Reqs |-> Idle]

InFlight(i) == request[i] # None /\ request[i].status \in OpenStatuses

\* find_active_approved_for_unit
Current(i) == request[i] # None /\ request[i].status = "approved" /\ ~request[i].ended

\* find_active_approved_for_unit_by_tenant
Names(i, c) == Current(i) /\ request[i].tenant = c

\* The first row of a query that finds at most one, or NULL.
OneOf(S) == IF S = {} THEN None ELSE CHOOSE i \in S : TRUE

\* _derive_header_status
Derived(docs) ==
  LET seen == {docs[d] : d \in Docs} \ {None} IN
  CASE seen = {} -> "submitted"
    [] "rejected" \in seen -> "awaiting_resubmission"
    [] seen = {"verified"} -> "ready_to_approve"
    [] OTHER -> "pending_review"

\* The unique indexes of the database: one request in flight, one current tenancy and one
\* active primary occupant.
Unique ==
  /\ \A i, j \in Requests : InFlight(i) /\ InFlight(j) => i = j
  /\ \A i, j \in Requests : Current(i) /\ Current(j) => i = j
  /\ \A c, d \in primary : link[c] = "active" /\ link[d] = "active" => c = d

Continue(r, q) ==
  /\ req' = [req EXCEPT ![r] = q]
  /\ UNCHANGED <<request, link, primary, role, owner, deleted>>

Begin(r, q) == req[r].pc = "idle" /\ Continue(r, q)

Done(r) == req' = [req EXCEPT ![r] = Idle]

\* A turnover starts with releasing links, anything else writes at once.
Start(op) ==
  IF op \in Turnovers THEN [Idle EXCEPT !.pc = "release", !.op = op, !.keep = owner]
  ELSE [Idle EXCEPT !.pc = "write", !.op = op]

Writes(r, ops) == req[r].pc = "write" /\ req[r].op \in ops

-----------------------------------------------------------------------------
(* Turnover: links are released, and the roles that go with them end *)

OpenLink(c) == IF c \in Owners THEN owner = c ELSE link[c] = "active"

\* No other transaction has released the contact's link without committing.
Unlocked(r, c) == \A s \in Reqs \ {r} : c \notin req[s].rel

\* The open links a turnover releases: all, one, or all but the owner's, as it was read.
Leaving(q) ==
  {c \in Contacts \cup Owners :
     /\ OpenLink(c)
     /\ q.scope = "single" => c = q.contact
     /\ q.scope = "household" => c # q.keep}

\* The tenancy that ends: as it was read, or that of the tenant who is moved out, or of
\* whoever has one when a unit without a tenant is vacated.
Ending(q) ==
  IF q.op \in {"approve", "move_in", "approve_move_out"} THEN q.old
  ELSE OneOf({i \in Requests : IF q.tenant = None THEN Current(i) ELSE Names(i, q.tenant)})

\* A unit without a tenant is vacated: the link of the tenancy on record is written first.
Recorded(q) ==
  IF q.scope = "all" /\ q.tenant = None /\ Ending(q) # None
  THEN {request[Ending(q)].tenant} \ {None} ELSE {}

\* (fault: the Tenant role stays when a household is released)
ReleaseKeepingRole(r) ==
  LET q == req[r] IN
  /\ q.pc = "release"
  /\ \A c \in Leaving(q) : Unlocked(r, c)
  /\ Continue(r, [q EXCEPT !.pc = "write", !.rel = Leaving(q), !.old = Ending(q),
                           !.keep = IF q.op = "vacate" THEN @ ELSE None])

\* release_outgoing_tenant_household, release_single_occupant and
\* release_all_open_links_for_unit wait for links that others are releasing.
Release(r) ==
  LET q == req[r]
      out == Leaving(q) \cup Recorded(q)
  IN
  /\ q.pc = "release"
  /\ \A c \in out : Unlocked(r, c)
  /\ Continue(r, [q EXCEPT !.pc = "write", !.rel = out, !.old = Ending(q),
                           !.ends = Leaving(q) \ Recorded(q) # {},
                           !.keep = IF q.op = "vacate" THEN @ ELSE None])

\* What a turnover leaves: links moved out, the Tenant role ended with any of them, or with
\* its holder's, and no owner whose link is gone.
LinkAfter(q) == [c \in Contacts |-> IF c \in q.rel THEN "moved_out" ELSE link[c]]

RoleAfter(q) ==
  IF q.ends /\ (q.scope = "single" => role = q.contact) THEN None ELSE role

OwnerAfter(q) == IF owner \in q.rel THEN None ELSE owner

Superseded(row) == [row EXCEPT !.status = "superseded", !.ended = TRUE]

\* The requests, with i superseded if it is one.
Ended(i) == [j \in Requests |-> IF j = i THEN Superseded(request[j]) ELSE request[j]]

\* The same, and its move-out is no longer pending.
MovedOut(i) ==
  [j \in Requests |->
     IF j = i THEN [Superseded(request[j]) EXCEPT !.asked = FALSE] ELSE request[j]]

-----------------------------------------------------------------------------
(* The owner's request and its documents *)

NewRow(status, tenant, docs) ==
  [status |-> status, ended |-> FALSE, asked |-> FALSE, tenant |-> tenant, docs |-> docs]

Pending == [d \in Docs |-> "pending"]

\* create_request
BeginCreate(r) ==
  /\ owner # None
  /\ role = None
  /\ Begin(r, Start("create"))

\* cancel_request
BeginCancel(r, i) ==
  /\ InFlight(i)
  /\ Begin(r, [Start("cancel") EXCEPT !.row = i])

\* verify_document and reject_document: the header follows the documents it then reads.
BeginReview(r, i, d, verdict) ==
  LET docs == [request[i].docs EXCEPT ![d] = verdict] IN
  /\ InFlight(i)
  /\ request[i].docs[d] # None
  /\ Begin(r, [Start("review") EXCEPT !.row = i, !.doc = d, !.verdict = verdict, !.status =
                 IF Derived(docs) = request[i].status THEN None ELSE Derived(docs)])

\* reupload_document
BeginReupload(r, i, d) ==
  /\ InFlight(i)
  /\ request[i].status # "ready_to_approve"
  /\ request[i].docs[d] = "rejected"
  /\ Begin(r, [Start("review") EXCEPT !.row = i, !.doc = d, !.status =
                 Derived([request[i].docs EXCEPT ![d] = "pending"])])

\* Reading a request writes the status that follows from its documents.
BeginRefresh(r, i) ==
  /\ InFlight(i)
  /\ Derived(request[i].docs) # request[i].status
  /\ Begin(r, [Start("refresh") EXCEPT !.row = i, !.status = Derived(request[i].docs)])

\* update_tenancy: a tenancy is put up for review again.
BeginResubmit(r, i) ==
  /\ owner # None
  /\ Current(i)
  /\ ~request[i].asked
  /\ \A j \in Requests : ~InFlight(j)
  /\ Begin(r, [Start("resubmit") EXCEPT !.row = i])

\* (fault: the header is written when nothing has been derived)
HeaderAlways(q, status) == q.status

\* The header is left alone when the handler found it right.
Header(q, status) == IF q.status = None THEN status ELSE q.status

\* update_document_by_type puts the documents up again that come with the request;
\* without any, reset_all_documents_to_pending does it with all of them.
Reset(docs, given) == [d \in Docs |-> IF d \in given THEN "pending" ELSE docs[d]]

\* What each of them writes, whatever has become of the request.
WriteRequest(r) ==
  LET q == req[r] IN
  /\ \/ /\ Writes(r, {"create"})
        /\ \E i \in Requests :
             /\ request[i] = None
             /\ request' = [request EXCEPT ![i] = NewRow(Derived(Pending), None, Pending)]
     \/ /\ Writes(r, {"cancel"})
        /\ request' = [request EXCEPT ![q.row].status = "cancelled"]
     \/ /\ Writes(r, {"review"})
        /\ request' = [request EXCEPT ![q.row].docs[q.doc] = q.verdict,
                                      ![q.row].status = Header(q, @)]
     \/ /\ Writes(r, {"refresh"})
        /\ request' = [request EXCEPT ![q.row].status = q.status]
     \/ /\ Writes(r, {"resubmit"})
        /\ LET attached == {d \in Docs : request[q.row].docs[d] # None} IN
           \E given \in SUBSET attached :
             LET docs == Reset(request[q.row].docs, given) IN
             /\ given = {} => attached = {}
             /\ request' = [request EXCEPT ![q.row].docs = docs, ![q.row].status = Derived(docs)]
  /\ Done(r)
  /\ UNCHANGED <<link, primary, role, owner, deleted>>
  /\ Unique'

-----------------------------------------------------------------------------
(* Staff approve requests and record moves *)

\* approve_request: the tenant of the tenancy under review stays, or one is provisioned.
BeginApprove(r, i) ==
  LET tenant == request[i].tenant IN
  /\ InFlight(i)
  /\ Derived(request[i].docs) = "ready_to_approve"
  /\ IF tenant # None /\ role = tenant
     THEN Begin(r, [Start("renew") EXCEPT !.row = i, !.tenant = tenant])
     ELSE Begin(r, [Start("approve") EXCEPT !.row = i,
                                            !.old = OneOf({j \in Requests : Current(j)})])

\* _approve_tenancy_renewal
Renew(r) ==
  LET q == req[r] IN
  /\ Writes(r, {"renew"})
  /\ request' = [request EXCEPT ![q.row].status = "approved", ![q.row].tenant = q.tenant]
  /\ Done(r)
  /\ UNCHANGED <<link, primary, role, owner, deleted>>
  /\ Unique'

\* A contact nobody has heard of.
New(c) == link[c] = None /\ c \notin deleted /\ \A s \in Reqs : req[s].contact # c

\* The new tenant is the primary occupant; the tenancy before is superseded.
Provision(r) ==
  LET q == req[r] IN
  /\ Writes(r, {"approve"})
  /\ \E c \in Contacts :
       /\ New(c)
       /\ request' = [Ended(q.old) EXCEPT ![q.row].status = "approved", ![q.row].tenant = c]
       /\ link' = [LinkAfter(q) EXCEPT ![c] = "active"]
       /\ primary' = {c} \cup {d \in primary : LinkAfter(q)[d] # "active"}
       /\ role' = c
  /\ owner' = OwnerAfter(q)
  /\ Done(r)
  /\ UNCHANGED deleted
  /\ Unique'

\* create_move_event: only into a unit that is owned and has no tenant.
BeginMoveIn(r, c) ==
  /\ c \notin deleted
  /\ owner # None
  /\ role = None
  /\ Begin(r, [Start("move_in") EXCEPT !.contact = c])

\* (fault: any tenancy on record will do)
SyncAny(q) ==
  LET c == q.contact
      open == {i \in Requests : InFlight(i)}
  IN
  \/ (\E i \in Requests : Current(i)) /\ UNCHANGED request
  \/ /\ \A i \in Requests : ~Current(i)
     /\ \E i \in open :
          request' = [request EXCEPT ![i].status = "approved", ![i].tenant = c]
  \/ (\A i \in Requests : ~Current(i)) /\ open = {} /\ UNCHANGED request

\* sync_after_admin_move_in: the tenant gets the request in flight, or one of his own.
SyncMoveIn(q) ==
  LET c == q.contact
      open == {i \in Requests : InFlight(i)}
      named == \E i \in Requests : Names(i, c)
      unknown == OwnerAfter(q) = None \/ c \in deleted
  IN
  \/ named /\ UNCHANGED request
  \/ /\ ~named
     /\ \E i \in open :
          request' = [request EXCEPT ![i].status = "approved", ![i].tenant = c]
  \/ ~named /\ open = {} /\ unknown /\ UNCHANGED request
  \/ /\ ~named /\ open = {} /\ ~unknown
     /\ \E i \in Requests :
          /\ request[i] = None
          /\ request' = [request EXCEPT ![i] = NewRow("approved", c, [d \in Docs |-> None])]

MoveIn(r) ==
  LET q == req[r] IN
  /\ Writes(r, {"move_in"})
  /\ Unlocked(r, q.contact)
  /\ link' = [LinkAfter(q) EXCEPT ![q.contact] = "active"]
  /\ role' = q.contact
  /\ owner' = OwnerAfter(q)
  /\ SyncMoveIn(q)
  /\ Done(r)
  /\ UNCHANGED <<primary, deleted>>
  /\ Unique'

\* The household goes with the tenant; anybody else moves out alone.
BeginMoveOut(r, c) ==
  /\ c \notin deleted
  /\ link[c] = "active"
  /\ Begin(r, [Start("move_out") EXCEPT !.contact = c, !.tenant = c,
                 !.scope = IF role = c THEN "household" ELSE "single"])

\* create_move_out_request
BeginAsk(r, i) ==
  /\ owner # None
  /\ role # None
  /\ Names(i, role)
  /\ ~request[i].asked
  /\ Begin(r, [Start("ask") EXCEPT !.row = i])

MoveOutAsked(i) ==
  request[i] # None /\ request[i].status = "approved" /\ request[i].asked

\* approve_move_out_request
BeginApproveMoveOut(r, i) ==
  /\ MoveOutAsked(i)
  /\ role # None
  /\ request[i].tenant = role
  /\ Begin(r, [Start("approve_move_out") EXCEPT !.old = i])

\* reject_move_out_request
BeginRejectMoveOut(r, i) ==
  /\ MoveOutAsked(i)
  /\ Begin(r, [Start("reject_move_out") EXCEPT !.row = i])

\* (fault: update_move_out_fields does not ask for a tenancy that is current)
AskAny(r) ==
  LET q == req[r] IN
  /\ Writes(r, {"ask"})
  /\ request' = [request EXCEPT ![q.row].asked = TRUE]
  /\ Done(r)
  /\ UNCHANGED <<link, primary, role, owner, deleted>>

\* update_move_out_fields: only a tenancy that is still current.
Ask(r) ==
  LET q == req[r] IN
  /\ Writes(r, {"ask"})
  /\ request' = [request EXCEPT ![q.row].asked = @ \/ Current(q.row)]
  /\ Done(r)
  /\ UNCHANGED <<link, primary, role, owner, deleted>>

RejectMoveOut(r) ==
  LET q == req[r] IN
  /\ Writes(r, {"reject_move_out"})
  /\ request' = [request EXCEPT ![q.row].status = "approved", ![q.row].asked = FALSE]
  /\ Done(r)
  /\ UNCHANGED <<link, primary, role, owner, deleted>>
  /\ Unique'

\* A move-out that staff record or approve, with sync_after_admin_move_out.
MoveOut(r) ==
  LET q == req[r] IN
  /\ Writes(r, {"move_out", "approve_move_out"})
  /\ request' = MovedOut(q.old)
  /\ link' = LinkAfter(q)
  /\ role' = RoleAfter(q)
  /\ owner' = OwnerAfter(q)
  /\ Done(r)
  /\ UNCHANGED <<primary, deleted>>

\* update_move_event and delete_move_event put the link of an earlier move-in back.
Reactivate(c) ==
  /\ link[c] = "moved_out"
  /\ \A s \in Reqs : c \notin req[s].rel
  /\ link' = [link EXCEPT ![c] = "active"]
  /\ UNCHANGED <<request, primary, role, owner, deleted, req>>
  /\ Unique'

-----------------------------------------------------------------------------
(* Owners come and go, contacts are deleted *)

\* The active tenant, if the link is active too.
LinkedTenant == IF role \in Contacts /\ link[role] = "active" THEN role ELSE None

\* _vacate_unit_for_owner_change, or the same when the owner's contact is deleted.
BeginVacate(r) == Begin(r, [Start("vacate") EXCEPT !.scope = "all", !.tenant = LinkedTenant])

\* vacate_unit_completely; a tenant's move-out has been recorded before.
Vacated(q) == IF q.tenant = None THEN Ended(q.old) ELSE MovedOut(q.old)

\* An occupant who is not the primary one does not keep a unit from being allotted.
Allottable(links) == \A c \in primary : links[c] # "active"

\* An unassignment is refused when no link is left to release.
Unassign(r) ==
  LET q == req[r] IN
  /\ Writes(r, {"vacate"})
  /\ IF q.tenant = None THEN q.ends ELSE q.rel \cap Owners # {}
  /\ request' = Vacated(q)
  /\ link' = LinkAfter(q)
  /\ role' = RoleAfter(q)
  /\ owner' = OwnerAfter(q)
  /\ Done(r)
  /\ UNCHANGED <<primary, deleted>>

Reassign(r) ==
  LET q == req[r] IN
  /\ Writes(r, {"vacate"})
  /\ OwnerAfter(q) = None
  /\ Allottable(LinkAfter(q))
  /\ request' = Vacated(q)
  /\ link' = LinkAfter(q)
  /\ role' = None
  /\ owner' \in Owners
  /\ Done(r)
  /\ UNCHANGED <<primary, deleted>>

\* admin_assign_unit: the Tenant role ends, the tenant's link does not.
Allot ==
  /\ owner = None
  /\ Allottable(link)
  /\ role' = None
  /\ owner' \in Owners
  /\ UNCHANGED <<request, link, primary, deleted, req>>

\* The owner's contact is deleted, and the request in flight cancelled if it was his.
DeleteOwner(r) ==
  LET q == req[r]
      open == {i \in Requests : Vacated(q)[i] # None /\ Vacated(q)[i].status \in OpenStatuses}
  IN
  /\ Writes(r, {"vacate"})
  /\ q.keep # None
  /\ \E cancelled \in {{}, open} :
       request' = [i \in Requests |->
         IF i \in cancelled THEN [Vacated(q)[i] EXCEPT !.status = "cancelled"] ELSE Vacated(q)[i]]
  /\ link' = LinkAfter(q)
  /\ role' = RoleAfter(q)
  /\ owner' = OwnerAfter(q)
  /\ Done(r)
  /\ UNCHANGED <<primary, deleted>>

\* cascade_before_soft_delete: the tenant of a current tenancy moves out with the household;
\* any other occupant is taken for the owner of the unit, which is vacated.
BeginDelete(r, c) ==
  /\ c \notin deleted
  /\ IF link[c] # "active" THEN Begin(r, [Start("drop") EXCEPT !.contact = c])
     ELSE IF \E i \in Requests : Names(i, c)
     THEN Begin(r, [Start("delete") EXCEPT !.contact = c, !.tenant = c])
     ELSE Begin(r, [Start("delete") EXCEPT !.contact = c, !.tenant = LinkedTenant,
                                           !.scope = "all"])

\* (fault: the tenancy of the deleted tenant is not superseded)
DeleteOnly(r) ==
  LET q == req[r] IN
  /\ Writes(r, {"delete"})
  /\ q.contact \notin deleted
  /\ request' = IF q.scope = "all" THEN Vacated(q) ELSE request
  /\ link' = LinkAfter(q)
  /\ role' = RoleAfter(q)
  /\ owner' = OwnerAfter(q)
  /\ deleted' = deleted \cup {q.contact}
  /\ Done(r)
  /\ UNCHANGED primary

\* The tenancy that ends takes its link along once more.
Delete(r) ==
  LET q == req[r]
      ended == q.scope = "household" /\ q.old # None
  IN
  /\ Writes(r, {"delete"})
  /\ q.contact \notin deleted
  /\ ended => Unlocked(r, q.contact)
  /\ request' = IF q.scope = "all" THEN Vacated(q) ELSE Ended(q.old)
  /\ link' = IF ended THEN [LinkAfter(q) EXCEPT ![q.contact] = "moved_out"] ELSE LinkAfter(q)
  /\ role' = RoleAfter(q)
  /\ owner' = OwnerAfter(q)
  /\ deleted' = deleted \cup {q.contact}
  /\ Done(r)
  /\ UNCHANGED primary

\* A contact without an open link, as it was read: its links and its tenancy end, no role.
Drop(r) ==
  LET q == req[r] IN
  /\ Writes(r, {"drop"})
  /\ q.contact \notin deleted
  /\ Unlocked(r, q.contact)
  /\ request' = Ended(OneOf({i \in Requests : Names(i, q.contact)}))
  /\ link' = [link EXCEPT ![q.contact] = IF @ = None THEN None ELSE "moved_out"]
  /\ deleted' = deleted \cup {q.contact}
  /\ Done(r)
  /\ UNCHANGED <<primary, role, owner>>

-----------------------------------------------------------------------------
\* A refused request, or a transaction that fails, is rolled back.
Abort(r) == req[r].pc # "idle" /\ Continue(r, Idle)

Begins(r) ==
  \/ BeginCreate(r)
  \/ \E i \in Requests :
       \/ BeginCancel(r, i) \/ BeginRefresh(r, i) \/ BeginResubmit(r, i) \/ BeginApprove(r, i)
       \/ BeginAsk(r, i) \/ BeginApproveMoveOut(r, i) \/ BeginRejectMoveOut(r, i)
       \/ \E d \in Docs :
            \/ BeginReupload(r, i, d)
            \/ \E verdict \in {"verified", "rejected"} : BeginReview(r, i, d, verdict)
  \/ \E c \in Contacts : BeginMoveIn(r, c) \/ BeginMoveOut(r, c) \/ BeginDelete(r, c)
  \/ BeginVacate(r)

Continued(r) ==
  \/ Release(r) \/ WriteRequest(r) \/ Renew(r) \/ Provision(r) \/ MoveIn(r) \/ MoveOut(r)
  \/ Ask(r) \/ RejectMoveOut(r) \/ Unassign(r) \/ Reassign(r) \/ DeleteOwner(r) \/ Delete(r)
  \/ Drop(r)

Next ==
  \/ Allot
  \/ \E c \in Contacts : Reactivate(c)
  \/ \E r \in Reqs : Begins(r) \/ Continued(r) \/ Abort(r)

Spec == Init /\ [][Next]_vars

-----------------------------------------------------------------------------
(* Properties *)

\* The variables stay in their types.
TypeOK ==
  /\ request \in [Requests -> Row \cup {None}]
  /\ link \in [Contacts -> LinkStatuses \cup {None}]
  /\ primary \subseteq Contacts
  /\ role \in Contacts \cup {None}
  /\ owner \in Owners \cup {None}
  /\ deleted \subseteq Contacts
  /\ req \in [Reqs -> Transaction]

\* The Tenant role is not left to somebody without a link: turnovers release links first and
\* end roles later, several of them at once, and others move in meanwhile.
TenantHasLink ==
  owner # None /\ role # None /\ role \notin deleted => link[role] = "active"

\* A tenant with a tenancy on record is replaced only by one with a tenancy approved, though
\* staff check that the unit is free long before they move somebody in (unless its owner, come
\* meanwhile, goes with the household).
TenantOfRecordKept ==
  [][\A i \in Requests :
       ( /\ owner # None /\ owner' # None
         /\ role # None /\ Names(i, role)
         /\ role' \notin {None, role} \cup deleted ) =>
         \E j \in Requests :
           request'[j] # None /\ request'[j].status = "approved" /\ request'[j].tenant = role']_vars

\* Once a tenancy has ended nobody asks for its move-out any more: an owner's request that
\* had found it current is not approved over the next tenant.
EndedTenancyRests ==
  [][\A i \in Requests :
       request[i] # None /\ request[i].ended /\ ~request[i].asked =>
         ~request'[i].asked]_vars

\* When requests are handled one at a time, the tenant of the tenancy on record lives in the
\* unit and has the role, whatever sequence of moves, renewals, deletions and changes of the
\* owner led there.
TenancyIsLived ==
  \A i \in Requests : Current(i) =>
    /\ request[i].tenant = role
    /\ role \notin deleted
    /\ link[role] = "active"

=============================================================================
