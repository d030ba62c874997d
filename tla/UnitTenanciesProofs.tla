------------------------- MODULE UnitTenanciesProofs -------------------------
(***************************************************************************)
(* Proofs about UnitTenancies, for any number of contacts, owners, requests, *)
(* documents and transactions.                                             *)
(***************************************************************************)
EXTENDS UnitTenancies, TLAPS

-----------------------------------------------------------------------------
(* The inductive invariant: what a transaction has read still exists, and   *)
(* whoever it has released loses the role with the link.                    *)

\* Whom a transaction has released had a link, has the only one if it releases one, and loses
\* the Tenant role unless the unit had no owner.
ReleaseSound(q) ==
  /\ \A c \in q.rel \cap Contacts : link[c] # None
  /\ q.scope = "single" => q.rel \subseteq {q.contact}
  /\ role \in q.rel /\ ~q.ends => owner = None

\* What a transaction has read is there: the request, the contact and the tenant.
ReadSound(q) ==
  /\ q.op \in {"cancel", "review", "refresh", "resubmit", "approve", "renew", "ask",
               "reject_move_out"} => q.row # None /\ request[q.row] # None
  /\ q.op = "review" => q.doc # None
  /\ q.op = "refresh" => q.status # None
  /\ q.op \in {"move_in", "delete", "drop"} => q.contact # None
  /\ q.op = "renew" => q.tenant # None /\ link[q.tenant] # None
  /\ q.old # None => request[q.old] # None

\* The tenant of a request has had a link.
TenantsKnown ==
  \A i \in Requests : request[i] # None /\ request[i].tenant # None =>
    link[request[i].tenant] # None

TenancyInv ==
  /\ TypeOK
  /\ TenantsKnown
  /\ \A r \in Reqs : ReleaseSound(req[r]) /\ ReadSound(req[r])
  /\ TenantHasLink

-----------------------------------------------------------------------------
(* Helpers *)

\* NULL is none of the values it stands in for.
LEMMA Distinct ==
  /\ None \notin Contacts /\ None \notin Owners /\ None \notin Requests /\ None \notin Docs
  /\ None \notin Row /\ None \notin Statuses /\ None \notin DocStatuses /\ None \notin Ops
  /\ None # "active" /\ None # "moved_out" /\ Contacts \cap Owners = {}
  /\ \A op \in Ops : None # op
BY TenanciesAssumption, RowsAssumption DEF LinkStatuses

LEMMA IdleSound == Idle \in Transaction /\ ReleaseSound(Idle) /\ ReadSound(Idle) /\ Idle.rel = {}
<1>1. Idle \in Transaction
  BY DEF Idle, Transaction, DocStatuses
<1>2. /\ Idle.rel = {} /\ Idle.scope = "household" /\ Idle.op = None /\ Idle.old = None
  BY DEF Idle
<1>3. ReleaseSound(Idle)
  BY <1>2 DEF ReleaseSound
<1>4. ReadSound(Idle)
  BY <1>2, Distinct DEF ReadSound, Ops, Turnovers
<1> QED
  BY <1>1, <1>2, <1>3, <1>4

\* A step that commits: the transaction is over or there is none, rows and links stay there,
\* a tenant has a link, and a new holder of the role is nobody whom another one releases.
LEMMA CommitKeeps ==
  ASSUME TenancyInv,
         req' \in [Reqs -> Transaction],
         \A s \in Reqs : req'[s] = req[s] \/ req'[s] = Idle,
         request' \in [Requests -> Row \cup {None}],
         link' \in [Contacts -> LinkStatuses \cup {None}],
         primary' \subseteq Contacts, role' \in Contacts \cup {None},
         owner' \in Owners \cup {None}, deleted' \subseteq Contacts,
         \A i \in Requests : request[i] # None => request'[i] # None,
         \A c \in Contacts : link[c] # None => link'[c] # None,
         \A i \in Requests : request'[i] # None /\ request'[i].tenant # None =>
           \/ link'[request'[i].tenant] # None
           \/ request[i] # None /\ request'[i].tenant = request[i].tenant,
         \A s \in Reqs : req'[s] = req[s] /\ role' \in req[s].rel /\ ~req[s].ends => owner' = None,
         TenantHasLink'
  PROVE  TenancyInv'
<1>1. TypeOK'
  BY DEF TypeOK
<1>2. TenantsKnown'
  <2> SUFFICES ASSUME NEW i \in Requests, request'[i] # None, request'[i].tenant # None
               PROVE  link'[request'[i].tenant] # None
    BY DEF TenantsKnown
  <2>1. request'[i].tenant \in Contacts
    BY DEF Row
  <2> QED
    BY <2>1 DEF TenancyInv, TenantsKnown
<1>3. ASSUME NEW s \in Reqs
      PROVE  ReleaseSound(req[s])' /\ ReadSound(req[s])'
  <2>1. CASE req'[s] = Idle
    <3>1. ReleaseSound(Idle)'
      BY IdleSound DEF ReleaseSound, Idle
    <3>2. ReadSound(Idle)'
      BY Distinct DEF ReadSound, Idle, Ops, Turnovers
    <3> QED
      BY <2>1, <3>1, <3>2 DEF ReleaseSound, ReadSound
  <2>2. CASE req'[s] = req[s]
    <3>1. PICK q \in Transaction : q = req[s]
      BY DEF TenancyInv, TypeOK
    <3>2. ReleaseSound(q) /\ ReadSound(q) /\ req'[s] = q
      BY <2>2, <3>1 DEF TenancyInv
    <3>3. /\ q.row \in Requests \cup {None} /\ q.tenant \in Contacts \cup {None}
          /\ q.old \in Requests \cup {None}
      BY DEF Transaction
    <3>4. ReleaseSound(q)'
      BY <2>2, <3>1, <3>2 DEF ReleaseSound
    <3>5. ReadSound(q)'
      BY <3>2, <3>3 DEF ReadSound
    <3> QED
      BY <3>2, <3>4, <3>5 DEF ReleaseSound, ReadSound
  <2> QED
    BY <2>1, <2>2
<1> QED
  BY <1>1, <1>2, <1>3 DEF TenancyInv

\* A step of one transaction that commits nothing.
LEMMA ContinueKeeps ==
  ASSUME TenancyInv, NEW r \in Reqs, NEW q \in Transaction, ReleaseSound(q), ReadSound(q),
         Continue(r, q)
  PROVE  TenancyInv'
<1>1. /\ req' = [req EXCEPT ![r] = q] /\ req \in [Reqs -> Transaction]
      /\ UNCHANGED <<request, link, primary, role, owner, deleted>>
  BY DEF Continue, TenancyInv, TypeOK
<1>2. TypeOK'
  BY <1>1 DEF TenancyInv, TypeOK
<1>3. TenantsKnown' /\ TenantHasLink'
  BY <1>1 DEF TenancyInv, TenantsKnown, TenantHasLink
<1>4. ASSUME NEW s \in Reqs
      PROVE  ReleaseSound(req[s])' /\ ReadSound(req[s])'
  <2>1. PICK p : p = req'[s]
    OBVIOUS
  <2>2. ReleaseSound(p) /\ ReadSound(p)
    BY <1>1, <2>1 DEF TenancyInv
  <2> QED
    BY <1>1, <2>1, <2>2 DEF ReleaseSound, ReadSound
<1> QED
  BY <1>2, <1>3, <1>4 DEF TenancyInv

-----------------------------------------------------------------------------
(* Handlers begin *)

LEMMA BeginKeeps ==
  ASSUME TenancyInv, NEW r \in Reqs, NEW q \in Transaction, q.rel = {}, ReadSound(q), Begin(r, q)
  PROVE  TenancyInv'
<1>1. ReleaseSound(q)
  BY DEF ReleaseSound
<1> QED
  BY <1>1, ContinueKeeps DEF Begin

LEMMA StartFacts ==
  ASSUME TenancyInv, NEW op \in Ops
  PROVE  /\ Start(op) \in Transaction
         /\ Start(op).op = op /\ Start(op).rel = {} /\ Start(op).old = None
<1>1. owner \in Owners \cup {None}
  BY DEF TenancyInv, TypeOK
<1> QED
  BY <1>1, IdleSound DEF Start, Idle, Transaction

LEMMA DerivedType == \A docs : Derived(docs) \in Statuses
BY DEF Derived, Statuses, OpenStatuses

\* A request in flight is read.
LEMMA BeginReadsKeep ==
  ASSUME TenancyInv, NEW r \in Reqs, NEW i \in Requests,
         \/ BeginCancel(r, i) \/ BeginRefresh(r, i) \/ BeginResubmit(r, i) \/ BeginAsk(r, i)
         \/ BeginRejectMoveOut(r, i)
  PROVE  TenancyInv'
<1>1. request[i] # None
  BY DEF BeginCancel, BeginRefresh, BeginResubmit, BeginAsk, BeginRejectMoveOut, InFlight, Current,
         Names, MoveOutAsked
<1>2. ASSUME NEW op \in {"cancel", "resubmit", "ask", "reject_move_out"},
             Begin(r, [Start(op) EXCEPT !.row = i])
      PROVE  TenancyInv'
  <2>1. op \in Ops
    BY DEF Ops
  <2>2. PICK q \in Transaction : q = Start(op) /\ q.op = op /\ q.rel = {} /\ q.old = None
    BY <2>1, StartFacts
  <2> DEFINE p == [q EXCEPT !.row = i]
  <2>3. p \in Transaction /\ p.op = op /\ p.rel = {} /\ p.old = None /\ p.row = i
    BY <2>2 DEF Transaction
  <2>4. Begin(r, p)
    BY <1>2, <2>2
  <2> HIDE DEF p
  <2>5. ReadSound(p)
    BY <1>1, <2>3, Distinct DEF ReadSound
  <2> QED
    BY <2>3, <2>4, <2>5, BeginKeeps
<1>3. CASE BeginRefresh(r, i)
  <2>1. "refresh" \in Ops
    BY DEF Ops
  <2>2. PICK q \in Transaction : q = Start("refresh") /\ q.op = "refresh" /\ q.rel = {} /\ q.old = None
    BY <2>1, StartFacts
  <2>3. PICK status \in Statuses : status = Derived(request[i].docs)
    BY DerivedType
  <2> DEFINE p == [q EXCEPT !.row = i, !.status = status]
  <2>4. p \in Transaction
    BY DEF Transaction
  <2>5. p.op = "refresh" /\ p.rel = {} /\ p.old = None /\ p.row = i /\ p.status = status
    BY <2>2 DEF Transaction
  <2>6. Begin(r, p)
    BY <1>3, <2>2, <2>3 DEF BeginRefresh
  <2> HIDE DEF p
  <2>7. ReadSound(p)
    BY <1>1, <2>5, Distinct DEF ReadSound
  <2> QED
    BY <2>4, <2>5, <2>6, <2>7, BeginKeeps
<1> QED
  BY <1>2, <1>3 DEF BeginCancel, BeginResubmit, BeginAsk, BeginRejectMoveOut

\* A document is reviewed or uploaded again.
LEMMA BeginReviewKeeps ==
  ASSUME TenancyInv, NEW r \in Reqs, NEW i \in Requests, NEW d \in Docs, NEW verdict \in DocStatuses,
         BeginReview(r, i, d, verdict) \/ BeginReupload(r, i, d)
  PROVE  TenancyInv'
<1>1. request[i] # None
  BY DEF BeginReview, BeginReupload, InFlight
<1>2. ASSUME NEW v \in DocStatuses, NEW status \in Statuses \cup {None},
             Begin(r, [Start("review") EXCEPT !.row = i, !.doc = d, !.verdict = v,
                                              !.status = status])
      PROVE  TenancyInv'
  <2>1. "review" \in Ops
    BY DEF Ops
  <2>2. PICK q \in Transaction : q = Start("review") /\ q.op = "review" /\ q.rel = {} /\ q.old = None
    BY <2>1, StartFacts
  <2> DEFINE p == [q EXCEPT !.row = i, !.doc = d, !.verdict = v, !.status = status]
  <2>3. p \in Transaction
    BY DEF Transaction
  <2>4. p.op = "review" /\ p.rel = {} /\ p.old = None /\ p.row = i /\ p.doc = d
    BY <2>2 DEF Transaction
  <2>5. Begin(r, p)
    BY <1>2, <2>2
  <2> HIDE DEF p
  <2>6. ReadSound(p)
    BY <1>1, <2>4, Distinct DEF ReadSound
  <2> QED
    BY <2>3, <2>4, <2>5, <2>6, BeginKeeps
<1>3. CASE BeginReview(r, i, d, verdict)
  <2>1. PICK status \in Statuses \cup {None} :
          status = (IF Derived([request[i].docs EXCEPT ![d] = verdict]) = request[i].status
                    THEN None ELSE Derived([request[i].docs EXCEPT ![d] = verdict]))
    BY DerivedType
  <2> QED
    BY <1>2, <1>3, <2>1 DEF BeginReview
<1>4. CASE BeginReupload(r, i, d)
  <2>1. PICK status \in Statuses : status = Derived([request[i].docs EXCEPT ![d] = "pending"])
    BY DerivedType
  <2>2. /\ Start("review").verdict = "pending" /\ "pending" \in DocStatuses
        /\ Start("review") \in Transaction
    BY StartFacts DEF Start, Idle, Turnovers, DocStatuses, Ops
  <2>3. [Start("review") EXCEPT !.row = i, !.doc = d, !.status = status]
          = [Start("review") EXCEPT !.row = i, !.doc = d, !.verdict = "pending", !.status = status]
    BY <2>2 DEF Transaction
  <2> QED
    BY <1>2, <1>4, <2>1, <2>2, <2>3 DEF BeginReupload
<1> QED
  BY <1>3, <1>4

LEMMA OneOfFacts ==
  ASSUME NEW S, NEW T, S \subseteq T
  PROVE  OneOf(S) \in T \cup {None} /\ (OneOf(S) = None \/ OneOf(S) \in S)
<1>1. CASE S = {}
  BY <1>1 DEF OneOf
<1>2. CASE S # {}
  <2>1. OneOf(S) = CHOOSE i \in S : TRUE
    BY <1>2 DEF OneOf
  <2>2. (CHOOSE i \in S : TRUE) \in S
    BY <1>2
  <2> QED
    BY <2>1, <2>2
<1> QED
  BY <1>1, <1>2

\* A request is approved: its own tenant stays, or a new one is provisioned.
LEMMA BeginApproveKeeps ==
  ASSUME TenancyInv, NEW r \in Reqs, NEW i \in Requests, BeginApprove(r, i)
  PROVE  TenancyInv'
<1>1. request[i] # None /\ request[i] \in Row
  BY DEF BeginApprove, InFlight, TenancyInv, TypeOK
<1>2. PICK tenant \in Contacts \cup {None} : tenant = request[i].tenant
  BY <1>1 DEF Row
<1>3. CASE tenant # None /\ role = tenant
  <2>1. "renew" \in Ops
    BY DEF Ops
  <2>2. PICK q \in Transaction : q = Start("renew") /\ q.op = "renew" /\ q.rel = {} /\ q.old = None
    BY <2>1, StartFacts
  <2> DEFINE p == [q EXCEPT !.row = i, !.tenant = tenant]
  <2>3. p \in Transaction
    BY DEF Transaction
  <2>4. p.op = "renew" /\ p.rel = {} /\ p.old = None /\ p.row = i /\ p.tenant = tenant
    BY <2>2 DEF Transaction
  <2>5. Begin(r, p)
    BY <1>2, <1>3, <2>2 DEF BeginApprove
  <2> HIDE DEF p
  <2>6. link[tenant] # None
    BY <1>1, <1>2, <1>3 DEF TenancyInv, TenantsKnown
  <2>7. ReadSound(p)
    BY <1>1, <1>3, <2>4, <2>6, Distinct DEF ReadSound
  <2> QED
    BY <2>3, <2>4, <2>5, <2>7, BeginKeeps
<1>4. CASE ~(tenant # None /\ role = tenant)
  <2>1. "approve" \in Ops
    BY DEF Ops, Turnovers
  <2>2. PICK q \in Transaction : q = Start("approve") /\ q.op = "approve" /\ q.rel = {}
    BY <2>1, StartFacts
  <2>3. PICK S : S = {j \in Requests : Current(j)}
    OBVIOUS
  <2>4. PICK old : old = OneOf(S)
    OBVIOUS
  <2>5. old \in Requests \cup {None} /\ (old # None => request[old] # None)
    BY <2>3, <2>4, OneOfFacts DEF Current
  <2> DEFINE p == [q EXCEPT !.row = i, !.old = old]
  <2>6. p \in Transaction
    BY <2>5 DEF Transaction
  <2>7. p.op = "approve" /\ p.rel = {} /\ p.old = old /\ p.row = i
    BY <2>2 DEF Transaction
  <2>8. Begin(r, p)
    BY <1>2, <1>4, <2>2, <2>3, <2>4 DEF BeginApprove
  <2> HIDE DEF p
  <2>9. ReadSound(p)
    BY <1>1, <2>5, <2>7, Distinct DEF ReadSound
  <2> QED
    BY <2>6, <2>7, <2>8, <2>9, BeginKeeps
<1> QED
  BY <1>3, <1>4

\* Somebody moves in or out, or is deleted.
LEMMA BeginMoveKeeps ==
  ASSUME TenancyInv, NEW r \in Reqs, NEW c \in Contacts,
         BeginMoveIn(r, c) \/ BeginMoveOut(r, c) \/ BeginDelete(r, c)
  PROVE  TenancyInv'
<1>1. ASSUME NEW op \in {"move_in", "move_out", "delete", "drop"},
             NEW tenant \in Contacts \cup {None}, NEW scope \in {"household", "single", "all"},
             Begin(r, [Start(op) EXCEPT !.contact = c, !.tenant = tenant, !.scope = scope])
      PROVE  TenancyInv'
  <2>1. op \in Ops
    BY DEF Ops, Turnovers
  <2>2. PICK q \in Transaction : q = Start(op) /\ q.op = op /\ q.rel = {} /\ q.old = None
    BY <2>1, StartFacts
  <2> DEFINE p == [q EXCEPT !.contact = c, !.tenant = tenant, !.scope = scope]
  <2>3. p \in Transaction
    BY DEF Transaction
  <2>4. p.op = op /\ p.rel = {} /\ p.old = None /\ p.contact = c
    BY <2>2 DEF Transaction
  <2>5. Begin(r, p)
    BY <1>1, <2>2
  <2> HIDE DEF p
  <2>6. ReadSound(p)
    BY <2>4, Distinct DEF ReadSound
  <2> QED
    BY <2>3, <2>4, <2>5, <2>6, BeginKeeps
<1>2. ASSUME NEW op \in {"move_in", "delete", "drop"}
      PROVE  /\ Start(op).tenant = None /\ Start(op).scope = "household"
             /\ Start(op) \in Transaction
  BY StartFacts DEF Start, Idle, Ops, Turnovers
<1>3. CASE BeginMoveIn(r, c)
  <2>1. [Start("move_in") EXCEPT !.contact = c]
          = [Start("move_in") EXCEPT !.contact = c, !.tenant = None, !.scope = "household"]
    BY <1>2 DEF Transaction
  <2> QED
    BY <1>1, <1>3, <2>1 DEF BeginMoveIn
<1>4. CASE BeginMoveOut(r, c)
  <2>1. PICK scope \in {"household", "single"} :
          scope = IF role = c THEN "household" ELSE "single"
    OBVIOUS
  <2> QED
    BY <1>1, <1>4, <2>1 DEF BeginMoveOut
<1>5. CASE BeginDelete(r, c)
  <2>1. [Start("drop") EXCEPT !.contact = c]
          = [Start("drop") EXCEPT !.contact = c, !.tenant = None, !.scope = "household"]
    BY <1>2 DEF Transaction
  <2>2. [Start("delete") EXCEPT !.contact = c, !.tenant = c]
          = [Start("delete") EXCEPT !.contact = c, !.tenant = c, !.scope = "household"]
    BY <1>2 DEF Transaction
  <2>3. PICK tenant \in Contacts \cup {None} : tenant = LinkedTenant
    BY DEF LinkedTenant
  <2> QED
    BY <1>1, <1>5, <2>1, <2>2, <2>3 DEF BeginDelete
<1> QED
  BY <1>3, <1>4, <1>5

\* Handlers that read no contact.
LEMMA BeginOthersKeep ==
  ASSUME TenancyInv, NEW r \in Reqs,
         BeginCreate(r) \/ BeginVacate(r) \/ \E i \in Requests : BeginApproveMoveOut(r, i)
  PROVE  TenancyInv'
<1>1. CASE BeginCreate(r)
  <2>1. "create" \in Ops
    BY DEF Ops
  <2>2. PICK q \in Transaction : q = Start("create") /\ q.op = "create" /\ q.rel = {} /\ q.old = None
    BY <2>1, StartFacts
  <2>3. ReadSound(q)
    BY <2>2, Distinct DEF ReadSound
  <2> QED
    BY <1>1, <2>2, <2>3, BeginKeeps DEF BeginCreate
<1>2. ASSUME NEW i \in Requests, BeginApproveMoveOut(r, i)
      PROVE  TenancyInv'
  <2>1. "approve_move_out" \in Ops
    BY DEF Ops, Turnovers
  <2>2. PICK q \in Transaction :
          q = Start("approve_move_out") /\ q.op = "approve_move_out" /\ q.rel = {}
    BY <2>1, StartFacts
  <2> DEFINE p == [q EXCEPT !.old = i]
  <2>3. p \in Transaction /\ p.op = "approve_move_out" /\ p.rel = {} /\ p.old = i
    BY <2>2 DEF Transaction
  <2>4. Begin(r, p) /\ request[i] # None
    BY <1>2, <2>2 DEF BeginApproveMoveOut, MoveOutAsked
  <2> HIDE DEF p
  <2>5. ReadSound(p)
    BY <2>3, <2>4, Distinct DEF ReadSound
  <2> QED
    BY <2>3, <2>4, <2>5, BeginKeeps
<1>3. CASE BeginVacate(r)
  <2>1. "vacate" \in Ops
    BY DEF Ops, Turnovers
  <2>2. PICK q \in Transaction : q = Start("vacate") /\ q.op = "vacate" /\ q.rel = {} /\ q.old = None
    BY <2>1, StartFacts
  <2>3. PICK tenant \in Contacts \cup {None} : tenant = LinkedTenant
    BY DEF LinkedTenant
  <2> DEFINE p == [q EXCEPT !.scope = "all", !.tenant = tenant]
  <2>4. p \in Transaction
    BY DEF Transaction
  <2>5. p.op = "vacate" /\ p.rel = {} /\ p.old = None
    BY <2>2 DEF Transaction
  <2>6. Begin(r, p)
    BY <1>3, <2>2, <2>3 DEF BeginVacate
  <2> HIDE DEF p
  <2>7. ReadSound(p)
    BY <2>5, Distinct DEF ReadSound
  <2> QED
    BY <2>4, <2>5, <2>6, <2>7, BeginKeeps
<1> QED
  BY <1>1, <1>2, <1>3

-----------------------------------------------------------------------------
(* Links are released *)

LEMMA EndingFacts ==
  ASSUME TenancyInv, NEW q \in Transaction, ReadSound(q)
  PROVE  Ending(q) \in Requests \cup {None} /\ (Ending(q) # None => request[Ending(q)] # None)
<1>1. CASE q.op \in {"approve", "move_in", "approve_move_out"}
  BY <1>1 DEF Ending, ReadSound, Transaction
<1>2. CASE ~(q.op \in {"approve", "move_in", "approve_move_out"})
  <2>1. PICK S : S = {i \in Requests : IF q.tenant = None THEN Current(i) ELSE Names(i, q.tenant)}
    OBVIOUS
  <2>2. S \subseteq Requests /\ \A i \in S : request[i] # None
    BY <2>1 DEF Names, Current
  <2>3. Ending(q) = OneOf(S)
    BY <1>2, <2>1 DEF Ending
  <2> QED
    BY <2>2, <2>3, OneOfFacts
<1> QED
  BY <1>1, <1>2

LEMMA LeavingFacts ==
  ASSUME TenancyInv, NEW q \in Transaction, ReadSound(q)
  PROVE  /\ Leaving(q) \subseteq Contacts \cup Owners /\ Recorded(q) \subseteq Contacts
         /\ \A c \in (Leaving(q) \cup Recorded(q)) \cap Contacts : link[c] # None
         /\ q.scope = "single" => Leaving(q) \cup Recorded(q) \subseteq {q.contact}
         /\ q.scope # "all" => Recorded(q) = {}
         /\ q.scope = "all" /\ owner # None => owner \in Leaving(q)
<1>1. Leaving(q) \subseteq Contacts \cup Owners
  BY DEF Leaving
<1>2. \A c \in Leaving(q) \cap Contacts : link[c] # None
  BY Distinct DEF Leaving, OpenLink
<1>3. /\ Recorded(q) \subseteq Contacts
      /\ \A c \in Recorded(q) : link[c] # None
  <2>1. CASE q.scope = "all" /\ q.tenant = None /\ Ending(q) # None
    <3>1. PICK i \in Requests : i = Ending(q) /\ request[i] # None
      BY <2>1, EndingFacts
    <3>2. request[i] \in Row
      BY <3>1 DEF TenancyInv, TypeOK
    <3>3. Recorded(q) = {request[i].tenant} \ {None}
      BY <2>1, <3>1 DEF Recorded
    <3> QED
      BY <3>1, <3>2, <3>3 DEF Row, TenancyInv, TenantsKnown
  <2>2. CASE ~(q.scope = "all" /\ q.tenant = None /\ Ending(q) # None)
    BY <2>2 DEF Recorded
  <2> QED
    BY <2>1, <2>2
<1>4. q.scope # "all" => Recorded(q) = {}
  BY DEF Recorded
<1>5. q.scope = "single" => Leaving(q) \subseteq {q.contact}
  BY DEF Leaving
<1>6. q.scope = "all" /\ owner # None => owner \in Leaving(q)
  BY DEF Leaving, OpenLink, TenancyInv, TypeOK
<1> QED
  BY <1>1, <1>2, <1>3, <1>4, <1>5, <1>6

\* The transaction after its release is one.
LEMMA ReleasedTyped ==
  ASSUME NEW q \in Transaction, NEW rel \in SUBSET (Contacts \cup Owners), 
         NEW old \in Requests \cup {None}, NEW ends \in BOOLEAN, NEW keep \in Owners \cup {None}
  PROVE  [q EXCEPT !.pc = "write", !.rel = rel, !.old = old, !.ends = ends, !.keep = keep]
           \in Transaction
<1>1. [q EXCEPT !.pc = "write", !.rel = rel] \in Transaction
  BY DEF Transaction
<1>2. \A p \in Transaction : [p EXCEPT !.old = old] \in Transaction
  BY DEF Transaction
<1>3. \A p \in Transaction : [p EXCEPT !.ends = ends] \in Transaction
  BY DEF Transaction
<1>4. \A p \in Transaction : [p EXCEPT !.keep = keep] \in Transaction
  BY DEF Transaction
<1> QED
  BY <1>1, <1>2, <1>3, <1>4, Zenon

LEMMA ReleaseKeeps ==
  ASSUME TenancyInv, NEW r \in Reqs, Release(r)
  PROVE  TenancyInv'
<1>1. PICK q \in Transaction : q = req[r] /\ ReadSound(q)
  BY DEF TenancyInv, TypeOK
<1>2. PICK old \in Requests \cup {None} : old = Ending(q) /\ (old # None => request[old] # None)
  BY <1>1, EndingFacts
<1>3. PICK leaving : leaving = Leaving(q)
  OBVIOUS
<1>4. PICK recorded : recorded = Recorded(q)
  OBVIOUS
<1>5. PICK keep \in Owners \cup {None} : keep = IF q.op = "vacate" THEN q.keep ELSE None
  BY DEF Transaction
<1>6. PICK ends \in BOOLEAN : ends = (leaving \ recorded # {})
  OBVIOUS
<1>7. PICK rel \in SUBSET (Contacts \cup Owners) : rel = leaving \cup recorded
  BY <1>1, <1>3, <1>4, LeavingFacts
<1> DEFINE p == [q EXCEPT !.pc = "write", !.rel = rel, !.old = old, !.ends = ends,
                          !.keep = keep]
<1>8. p \in Transaction
  BY ReleasedTyped
<1>9. /\ p.op = q.op /\ p.row = q.row /\ p.doc = q.doc /\ p.status = q.status
      /\ p.contact = q.contact /\ p.tenant = q.tenant /\ p.old = old /\ p.scope = q.scope
      /\ p.rel = rel /\ p.ends = ends
  BY DEF Transaction
<1>10. Continue(r, p)
  <2>1. Continue(r, [q EXCEPT !.pc = "write", !.rel = Leaving(q) \cup Recorded(q), !.old = Ending(q),
                              !.ends = Leaving(q) \ Recorded(q) # {},
                              !.keep = IF q.op = "vacate" THEN q.keep ELSE None])
    BY <1>1 DEF Release
  <2> QED
    BY <1>2, <1>3, <1>4, <1>5, <1>6, <1>7, <2>1
<1> HIDE DEF p
<1>11. ReadSound(p)
  BY <1>1, <1>2, <1>9 DEF ReadSound
<1>12. ReleaseSound(p)
  <2>1. \A c \in p.rel \cap Contacts : link[c] # None
    BY <1>1, <1>3, <1>4, <1>7, <1>9, LeavingFacts
  <2>2. p.scope = "single" => p.rel \subseteq {p.contact}
    BY <1>1, <1>3, <1>4, <1>7, <1>9, LeavingFacts
  <2>3. ASSUME role \in p.rel, ~p.ends
        PROVE  owner = None
    <3>1. leaving \subseteq recorded /\ recorded # {}
      BY <1>6, <1>7, <1>9, <2>3
    <3>2. q.scope = "all"
      BY <1>1, <1>4, <3>1, LeavingFacts
    <3>3. owner # None => owner \in Contacts
      BY <1>1, <1>3, <1>4, <3>1, <3>2, LeavingFacts
    <3>4. owner # None => owner \in Owners
      BY DEF TenancyInv, TypeOK
    <3> QED
      BY <3>3, <3>4, Distinct
  <2> QED
    BY <2>1, <2>2, <2>3 DEF ReleaseSound
<1> QED
  BY <1>8, <1>10, <1>11, <1>12, ContinueKeeps

LEMMA AbortKeeps ==
  ASSUME TenancyInv, NEW r \in Reqs, Abort(r)
  PROVE  TenancyInv'
BY IdleSound, ContinueKeeps DEF Abort

-----------------------------------------------------------------------------
(* Requests are written *)

\* A commit to the requests alone.
LEMMA RequestKeeps ==
  ASSUME TenancyInv, NEW r \in Reqs, Done(r),
         request' \in [Requests -> Row \cup {None}],
         \A i \in Requests : request[i] # None => request'[i] # None,
         \A i \in Requests : request'[i] # None /\ request'[i].tenant # None =>
           \/ link[request'[i].tenant] # None
           \/ request[i] # None /\ request'[i].tenant = request[i].tenant,
         UNCHANGED <<link, primary, role, owner, deleted>>
  PROVE  TenancyInv'
<1>1. /\ req' \in [Reqs -> Transaction]
      /\ \A s \in Reqs : req'[s] = req[s] \/ req'[s] = Idle
  BY IdleSound DEF Done, TenancyInv, TypeOK
<1>2. /\ link \in [Contacts -> LinkStatuses \cup {None}] /\ primary \subseteq Contacts
      /\ role \in Contacts \cup {None} /\ owner \in Owners \cup {None} /\ deleted \subseteq Contacts
  BY DEF TenancyInv, TypeOK
<1>3. \A s \in Reqs : role \in req[s].rel /\ ~req[s].ends => owner = None
  BY DEF TenancyInv, ReleaseSound
<1>4. TenantHasLink'
  BY DEF TenancyInv, TenantHasLink
<1> QED
  BY <1>1, <1>2, <1>3, <1>4, CommitKeeps

\* One row is written, and its tenant stays or has a link.
LEMMA RowKeeps ==
  ASSUME TenancyInv, NEW r \in Reqs, Done(r), NEW i \in Requests, NEW row \in Row,
         request' = [request EXCEPT ![i] = row],
         row.tenant # None => \/ link[row.tenant] # None
                              \/ request[i] # None /\ row.tenant = request[i].tenant,
         UNCHANGED <<link, primary, role, owner, deleted>>
  PROVE  TenancyInv'
<1>1. request \in [Requests -> Row \cup {None}]
  BY DEF TenancyInv, TypeOK
<1>2. request' \in [Requests -> Row \cup {None}]
  BY <1>1
<1>3. \A j \in Requests : request'[j] = IF j = i THEN row ELSE request[j]
  BY <1>1
<1>4. \A j \in Requests : request[j] # None => request'[j] # None
  BY <1>3, Distinct
<1>5. \A j \in Requests : request'[j] # None /\ request'[j].tenant # None =>
        \/ link[request'[j].tenant] # None
        \/ request[j] # None /\ request'[j].tenant = request[j].tenant
  BY <1>3
<1> QED
  BY <1>2, <1>4, <1>5, RequestKeeps

LEMMA NewRowType ==
  ASSUME NEW status \in Statuses, NEW tenant \in Contacts \cup {None},
         NEW docs \in [Docs -> DocStatuses \cup {None}]
  PROVE  NewRow(status, tenant, docs) \in Row /\ NewRow(status, tenant, docs).tenant = tenant
BY DEF NewRow, Row

LEMMA WriteRequestKeeps ==
  ASSUME TenancyInv, NEW r \in Reqs, WriteRequest(r)
  PROVE  TenancyInv'
<1>1. PICK q \in Transaction : q = req[r] /\ ReadSound(q)
  BY DEF TenancyInv, TypeOK
<1>2. Done(r) /\ UNCHANGED <<link, primary, role, owner, deleted>>
  BY DEF WriteRequest
<1>3. ASSUME NEW i \in Requests, request' = [request EXCEPT ![i] = NewRow(Derived(Pending), None, Pending)]
      PROVE  TenancyInv'
  <2>1. Pending \in [Docs -> DocStatuses \cup {None}]
    BY DEF Pending, DocStatuses
  <2>2. PICK row \in Row : row = NewRow(Derived(Pending), None, Pending) /\ row.tenant = None
    <3>1. PICK status \in Statuses : status = Derived(Pending)
      BY DerivedType
    <3>2. PICK docs \in [Docs -> DocStatuses \cup {None}] : docs = Pending
      BY <2>1
    <3> QED
      BY <3>1, <3>2, NewRowType
  <2> QED
    BY <1>2, <1>3, <2>2, RowKeeps
<1>4. ASSUME q.op \in {"cancel", "review", "refresh", "resubmit"}
      PROVE  /\ q.row \in Requests /\ request[q.row] \in Row
             /\ request \in [Requests -> Row \cup {None}]
             /\ q.op = "review" => q.doc \in Docs
             /\ q.op = "refresh" => q.status \in Statuses
             /\ q.verdict \in DocStatuses /\ q.status \in Statuses \cup {None}
  BY <1>1, <1>4 DEF ReadSound, Transaction, TenancyInv, TypeOK
<1>5. ASSUME q.op \in {"cancel", "review", "refresh", "resubmit"}, NEW status \in Statuses,
             NEW docs \in [Docs -> DocStatuses \cup {None}],
             request' = [request EXCEPT ![q.row].docs = docs, ![q.row].status = status]
      PROVE  TenancyInv'
  <2>1. PICK row \in Row : row = [request[q.row] EXCEPT !.docs = docs, !.status = status]
    BY <1>4, <1>5 DEF Row
  <2>2. request' = [request EXCEPT ![q.row] = row]
    BY <1>4, <1>5, <2>1
  <2>3. row.tenant = request[q.row].tenant /\ request[q.row] # None
    BY <1>4, <1>5, <2>1, Distinct DEF Row
  <2> QED
    BY <1>2, <1>4, <1>5, <2>2, <2>3, RowKeeps
<1>6. ASSUME q.op \in {"cancel", "refresh"}, NEW status \in Statuses,
             request' = [request EXCEPT ![q.row].status = status]
      PROVE  TenancyInv'
  <2>1. PICK row \in Row : row = [request[q.row] EXCEPT !.status = status]
    BY <1>4, <1>6 DEF Row
  <2>2. request' = [request EXCEPT ![q.row] = row]
    BY <1>4, <1>6, <2>1
  <2>3. row.tenant = request[q.row].tenant /\ request[q.row] # None
    BY <1>4, <1>6, <2>1, Distinct DEF Row
  <2> QED
    BY <1>2, <1>4, <1>6, <2>2, <2>3, RowKeeps
<1>7. CASE /\ q.op = "cancel"
           /\ request' = [request EXCEPT ![q.row].status = "cancelled"]
  BY <1>6, <1>7 DEF Statuses
<1>8. CASE /\ q.op = "refresh"
           /\ request' = [request EXCEPT ![q.row].status = q.status]
  BY <1>4, <1>6, <1>8
<1>9. CASE /\ q.op = "review"
           /\ request' = [request EXCEPT ![q.row].docs[q.doc] = q.verdict,
                                         ![q.row].status = Header(q, @)]
  <2>1. request[q.row].docs \in [Docs -> DocStatuses \cup {None}] /\ request[q.row].status \in Statuses
    BY <1>4, <1>9 DEF Row
  <2>2. PICK status \in Statuses : status = Header(q, request[q.row].status)
    BY <1>4, <1>9, <2>1 DEF Header
  <2>3. PICK docs \in [Docs -> DocStatuses \cup {None}] :
          docs = [request[q.row].docs EXCEPT ![q.doc] = q.verdict]
    BY <1>4, <1>9, <2>1
  <2>4. request' = [request EXCEPT ![q.row].docs = docs, ![q.row].status = status]
    BY <1>4, <1>9, <2>2, <2>3 DEF Row
  <2> QED
    BY <1>5, <1>9, <2>4
<1>10. CASE /\ q.op = "resubmit"
            /\ \E given \in SUBSET Docs :
                 LET docs == Reset(request[q.row].docs, given)
                 IN request' = [request EXCEPT ![q.row].docs = docs, ![q.row].status = Derived(docs)]
  <2> PICK given \in SUBSET Docs :
        LET docs == Reset(request[q.row].docs, given)
        IN request' = [request EXCEPT ![q.row].docs = docs, ![q.row].status = Derived(docs)]
    BY <1>10
  <2>1. PICK docs \in [Docs -> DocStatuses \cup {None}] : docs = Reset(request[q.row].docs, given)
    <3>1. request[q.row].docs \in [Docs -> DocStatuses \cup {None}]
      BY <1>4, <1>10 DEF Row
    <3> QED
      BY <3>1 DEF Reset, DocStatuses
  <2>2. PICK status \in Statuses : status = Derived(docs)
    BY DerivedType
  <2> QED
    BY <1>5, <1>10, <2>1, <2>2
<1> QED
  BY <1>1, <1>3, <1>7, <1>8, <1>9, <1>10 DEF WriteRequest, Writes

\* A renewal, a move-out asked for or rejected.
LEMMA WriteTenancyKeeps ==
  ASSUME TenancyInv, NEW r \in Reqs, Renew(r) \/ Ask(r) \/ RejectMoveOut(r)
  PROVE  TenancyInv'
<1>1. PICK q \in Transaction : q = req[r] /\ ReadSound(q)
  BY DEF TenancyInv, TypeOK
<1>2. Done(r) /\ UNCHANGED <<link, primary, role, owner, deleted>>
  BY DEF Renew, Ask, RejectMoveOut
<1>3. ASSUME q.op \in {"renew", "ask", "reject_move_out"}
      PROVE  /\ q.row \in Requests /\ request[q.row] \in Row /\ request[q.row] # None
             /\ request \in [Requests -> Row \cup {None}]
             /\ q.op = "renew" => q.tenant \in Contacts /\ link[q.tenant] # None
  BY <1>1, <1>3, Distinct DEF ReadSound, Transaction, TenancyInv, TypeOK
<1>4. CASE Renew(r)
  <2>1. q.op = "renew" /\ request' = [request EXCEPT ![q.row].status = "approved",
                                                      ![q.row].tenant = q.tenant]
    BY <1>1, <1>4 DEF Renew, Writes
  <2>2. PICK row \in Row : row = [request[q.row] EXCEPT !.status = "approved", !.tenant = q.tenant]
    BY <1>3, <2>1 DEF Row, Statuses
  <2>3. request' = [request EXCEPT ![q.row] = row] /\ row.tenant = q.tenant
    BY <1>3, <2>1, <2>2 DEF Row
  <2>4. q.row \in Requests /\ link[row.tenant] # None
    BY <1>3, <2>1, <2>3
  <2> QED
    BY <1>2, <2>3, <2>4, RowKeeps
<1>5. CASE Ask(r)
  <2>1. q.op = "ask" /\ request' = [request EXCEPT ![q.row].asked = @ \/ Current(q.row)]
    BY <1>1, <1>5 DEF Ask, Writes
  <2>2. PICK asked \in BOOLEAN : asked = (request[q.row].asked \/ Current(q.row))
    OBVIOUS
  <2>3. PICK row \in Row : row = [request[q.row] EXCEPT !.asked = asked]
    BY <1>3, <2>1 DEF Row
  <2>4. request' = [request EXCEPT ![q.row] = row] /\ row.tenant = request[q.row].tenant
    BY <1>3, <2>1, <2>2, <2>3 DEF Row
  <2> QED
    BY <1>2, <1>3, <2>1, <2>4, RowKeeps
<1>6. CASE RejectMoveOut(r)
  <2>1. q.op = "reject_move_out" /\ request' = [request EXCEPT ![q.row].status = "approved",
                                                                ![q.row].asked = FALSE]
    BY <1>1, <1>6 DEF RejectMoveOut, Writes
  <2>2. PICK row \in Row : row = [request[q.row] EXCEPT !.status = "approved", !.asked = FALSE]
    BY <1>3, <2>1 DEF Row, Statuses
  <2>3. request' = [request EXCEPT ![q.row] = row] /\ row.tenant = request[q.row].tenant
    BY <1>3, <2>1, <2>2 DEF Row
  <2> QED
    BY <1>2, <1>3, <2>1, <2>3, RowKeeps
<1> QED
  BY <1>4, <1>5, <1>6

-----------------------------------------------------------------------------
(* Turnovers commit *)

\* The requests after a tenancy has ended: the same rows, with the same tenants, and no
\* move-out asked for that was not.
SameRows(rows) ==
  /\ rows \in [Requests -> Row \cup {None}]
  /\ \A i \in Requests : request[i] # None => rows[i] # None
  /\ \A i \in Requests : rows[i] # None => request[i] # None /\ rows[i].tenant = request[i].tenant
  /\ \A i \in Requests : rows[i] # None /\ rows[i].asked => request[i].asked

LEMMA EndedRows ==
  ASSUME TenancyInv, NEW old \in Requests \cup {None}, old # None => request[old] # None
  PROVE  SameRows(Ended(old)) /\ SameRows(MovedOut(old))
<1>1. request \in [Requests -> Row \cup {None}]
  BY DEF TenancyInv, TypeOK
<1>2. \A row \in Row : /\ Superseded(row) \in Row /\ Superseded(row).tenant = row.tenant
                       /\ Superseded(row).asked = row.asked
                       /\ [Superseded(row) EXCEPT !.asked = FALSE] \in Row
                       /\ [Superseded(row) EXCEPT !.asked = FALSE].tenant = row.tenant
                       /\ [Superseded(row) EXCEPT !.asked = FALSE].asked = FALSE
  BY DEF Superseded, Row, Statuses
<1>3. ASSUME NEW rows, NEW row \in Row,
             \A i \in Requests : i = old => row.tenant = request[i].tenant,
             \A i \in Requests : i = old => (row.asked => request[i].asked),
             rows = [i \in Requests |-> IF i = old THEN row ELSE request[i]]
      PROVE  SameRows(rows)
  <2>1. rows \in [Requests -> Row \cup {None}]
    BY <1>1, <1>3
  <2>2. \A i \in Requests : rows[i] = IF i = old THEN row ELSE request[i]
    BY <1>3
  <2>3. \A i \in Requests : request[i] # None => rows[i] # None
    BY <1>3, <2>2, Distinct
  <2>4. \A i \in Requests : rows[i] # None =>
          request[i] # None /\ rows[i].tenant = request[i].tenant
    BY <1>3, <2>2, Distinct
  <2>5. \A i \in Requests : rows[i] # None /\ rows[i].asked => request[i].asked
    <3> TAKE i \in Requests
    <3>1. CASE i = old
      BY <1>3, <2>2, <3>1
    <3>2. CASE i # old
      BY <2>2, <3>2
    <3> QED
      BY <3>1, <3>2
  <2> QED
    BY <2>1, <2>3, <2>4, <2>5 DEF SameRows
<1>4. CASE old = None
  <2>1. PICK rows : rows = request
    OBVIOUS
  <2>2. SameRows(rows)
    BY <1>1, <2>1 DEF SameRows
  <2>3. Ended(old) = rows /\ MovedOut(old) = rows
    BY <1>1, <1>4, <2>1, Distinct DEF Ended, MovedOut
  <2> QED
    BY <2>2, <2>3
<1>5. CASE old # None
  <2>1. request[old] \in Row /\ old \in Requests
    BY <1>1, <1>5
  <2>2. PICK ended \in Row : /\ ended = Superseded(request[old])
                             /\ ended.tenant = request[old].tenant
                             /\ ended.asked = request[old].asked
    BY <1>2, <2>1
  <2>3. PICK moved \in Row : /\ moved = [Superseded(request[old]) EXCEPT !.asked = FALSE]
                             /\ moved.tenant = request[old].tenant /\ ~moved.asked
    BY <1>2, <2>1
  <2>4. Ended(old) = [i \in Requests |-> IF i = old THEN ended ELSE request[i]]
    BY <2>2 DEF Ended
  <2>5. MovedOut(old) = [i \in Requests |-> IF i = old THEN moved ELSE request[i]]
    BY <2>3 DEF MovedOut
  <2>6. PICK a, b : a = Ended(old) /\ b = MovedOut(old)
    OBVIOUS
  <2>7. SameRows(a)
    BY <1>3, <2>2, <2>4, <2>6
  <2>8. SameRows(b)
    BY <1>3, <2>3, <2>5, <2>6
  <2> QED
    BY <2>6, <2>7, <2>8
<1> QED
  BY <1>4, <1>5

LEMMA VacatedRows ==
  ASSUME TenancyInv, NEW q \in Transaction, ReadSound(q)
  PROVE  SameRows(Vacated(q)) /\ SameRows(Ended(q.old)) /\ SameRows(MovedOut(q.old))
<1>1. q.old \in Requests \cup {None} /\ (q.old # None => request[q.old] # None)
  BY DEF Transaction, ReadSound
<1> QED
  BY <1>1, EndedRows DEF Vacated

LEMMA LinkAfterFacts ==
  ASSUME TenancyInv, NEW q \in Transaction
  PROVE  /\ LinkAfter(q) \in [Contacts -> LinkStatuses \cup {None}]
         /\ \A c \in Contacts : link[c] # None => LinkAfter(q)[c] # None
         /\ \A c \in Contacts \ q.rel : LinkAfter(q)[c] = link[c]
BY Distinct DEF LinkAfter, LinkStatuses, TenancyInv, TypeOK

\* Released links lose the role; the deleted contacts are left out.
LEMMA TurnoverKeeps ==
  ASSUME TenancyInv, NEW r \in Reqs, NEW q \in Transaction, ReleaseSound(q), Done(r),
         SameRows(request'),
         link' \in [Contacts -> LinkStatuses \cup {None}],
         \A c \in Contacts : link[c] # None => link'[c] # None,
         \A c \in Contacts : c \notin q.rel /\ c \notin deleted' => link'[c] = link[c],
         primary' = primary, deleted \subseteq deleted', deleted' \subseteq Contacts,
         role' = RoleAfter(q), owner' = OwnerAfter(q)
  PROVE  TenancyInv'
<1>1. /\ req' \in [Reqs -> Transaction]
      /\ \A s \in Reqs : req'[s] = req[s] \/ req'[s] = Idle
      /\ req \in [Reqs -> Transaction]
  BY IdleSound DEF Done, TenancyInv, TypeOK
<1>2. /\ primary' \subseteq Contacts /\ role' \in Contacts \cup {None}
      /\ owner' \in Owners \cup {None} /\ role' \in {role, None} /\ owner' \in {owner, None}
  BY DEF TenancyInv, TypeOK, RoleAfter, OwnerAfter
<1>3. ASSUME NEW s \in Reqs, role' \in req[s].rel, ~req[s].ends
      PROVE  owner' = None
  <2>1. req[s].rel \subseteq Contacts \cup Owners
    BY <1>1 DEF Transaction
  <2>2. role' = role
    BY <1>2, <1>3, <2>1, Distinct
  <2> QED
    BY <1>2, <1>3, <2>2 DEF TenancyInv, ReleaseSound
<1>4. TenantHasLink'
  <2> SUFFICES ASSUME owner' # None, role' # None, role' \notin deleted'
               PROVE  link'[role'] = "active"
    BY DEF TenantHasLink
  <2>1. owner' = owner /\ role' = role /\ role \in Contacts /\ role \notin deleted
    BY <1>2
  <2>2. ~(q.ends /\ (q.scope = "single" => role = q.contact))
    BY <2>1 DEF RoleAfter
  <2>3. role \notin q.rel
    BY <2>1, <2>2 DEF ReleaseSound
  <2>4. link[role] = "active"
    BY <2>1 DEF TenancyInv, TenantHasLink
  <2> QED
    BY <2>1, <2>3, <2>4
<1> QED
  BY <1>1, <1>2, <1>3, <1>4, CommitKeeps DEF SameRows

\* The transaction whose write is looked at.
LEMMA Reads ==
  ASSUME TenancyInv, NEW r \in Reqs
  PROVE  \E q \in Transaction : q = req[r] /\ ReadSound(q) /\ ReleaseSound(q)
BY DEF TenancyInv, TypeOK

LEMMA MoveOutKeeps ==
  ASSUME TenancyInv, NEW r \in Reqs, MoveOut(r) \/ Unassign(r)
  PROVE  TenancyInv'
<1>1. PICK q \in Transaction : q = req[r] /\ ReadSound(q) /\ ReleaseSound(q)
  BY Reads
<1>2. /\ Done(r) /\ link' = LinkAfter(q) /\ role' = RoleAfter(q) /\ owner' = OwnerAfter(q)
      /\ request' \in {MovedOut(q.old), Vacated(q)} /\ UNCHANGED <<primary, deleted>>
  BY <1>1 DEF MoveOut, Unassign
<1>3. SameRows(request')
  BY <1>1, <1>2, VacatedRows DEF SameRows
<1>4. deleted' = deleted /\ deleted \subseteq Contacts
  BY <1>2 DEF TenancyInv, TypeOK
<1> QED
  BY <1>1, <1>2, <1>3, <1>4, LinkAfterFacts, TurnoverKeeps

LEMMA DeleteOwnerRows ==
  ASSUME TenancyInv, NEW r \in Reqs, DeleteOwner(r)
  PROVE  SameRows(request')
<1>1. PICK q \in Transaction : q = req[r] /\ ReadSound(q)
  BY Reads
<1>2. PICK rows : rows = Vacated(q) /\ SameRows(rows)
  BY <1>1, VacatedRows
<1>3. PICK cancelled :
        /\ cancelled = {} \/ cancelled = {i \in Requests : rows[i] # None /\ rows[i].status \in OpenStatuses}
        /\ request' = [i \in Requests |-> IF i \in cancelled THEN [rows[i] EXCEPT !.status = "cancelled"]
                                          ELSE rows[i]]
  BY <1>1, <1>2 DEF DeleteOwner
<1>4. \A row \in Row : /\ [row EXCEPT !.status = "cancelled"] \in Row
                       /\ [row EXCEPT !.status = "cancelled"].tenant = row.tenant
                       /\ [row EXCEPT !.status = "cancelled"].asked = row.asked
  BY DEF Row, Statuses
<1>5. \A i \in Requests : i \in cancelled => rows[i] \in Row
  BY <1>2, <1>3 DEF SameRows
<1>6. request' \in [Requests -> Row \cup {None}]
  BY <1>2, <1>3, <1>4, <1>5 DEF SameRows
<1>7. \A i \in Requests : request[i] # None => request'[i] # None
  BY <1>2, <1>3, <1>4, <1>5, Distinct DEF SameRows
<1>8. \A i \in Requests : request'[i] # None =>
        request[i] # None /\ request'[i].tenant = request[i].tenant
  BY <1>2, <1>3, <1>4, <1>5, Distinct DEF SameRows
<1>9. \A i \in Requests : request'[i] # None /\ request'[i].asked => request[i].asked
  BY <1>2, <1>3, <1>4, <1>5, Distinct DEF SameRows
<1> QED
  BY <1>6, <1>7, <1>8, <1>9 DEF SameRows

LEMMA DeleteOwnerKeeps ==
  ASSUME TenancyInv, NEW r \in Reqs, DeleteOwner(r)
  PROVE  TenancyInv'
<1>1. PICK q \in Transaction : q = req[r] /\ ReadSound(q) /\ ReleaseSound(q)
  BY Reads
<1>2. /\ Done(r) /\ link' = LinkAfter(q) /\ role' = RoleAfter(q) /\ owner' = OwnerAfter(q)
      /\ UNCHANGED <<primary, deleted>>
  BY <1>1 DEF DeleteOwner
<1>3. SameRows(request')
  BY DeleteOwnerRows
<1>4. deleted' = deleted /\ deleted \subseteq Contacts
  BY <1>2 DEF TenancyInv, TypeOK
<1> QED
  BY <1>1, <1>2, <1>3, <1>4, LinkAfterFacts, TurnoverKeeps

LEMMA DeleteKeeps ==
  ASSUME TenancyInv, NEW r \in Reqs, Delete(r)
  PROVE  TenancyInv'
<1>1. PICK q \in Transaction : q = req[r] /\ ReadSound(q) /\ ReleaseSound(q)
  BY Reads
<1>2. /\ Done(r) /\ role' = RoleAfter(q) /\ owner' = OwnerAfter(q) /\ UNCHANGED primary
      /\ request' \in {Vacated(q), Ended(q.old)} /\ deleted' = deleted \cup {q.contact}
      /\ link' \in {LinkAfter(q), [LinkAfter(q) EXCEPT ![q.contact] = "moved_out"]}
      /\ q.op = "delete"
  BY <1>1 DEF Delete, Writes
<1>3. q.contact \in Contacts
  BY <1>1, <1>2 DEF ReadSound, Transaction
<1>4. SameRows(request')
  BY <1>1, <1>2, VacatedRows DEF SameRows
<1>5. PICK links : /\ links = LinkAfter(q) /\ links \in [Contacts -> LinkStatuses \cup {None}]
                   /\ \A c \in Contacts : link[c] # None => links[c] # None
                   /\ \A c \in Contacts \ q.rel : links[c] = link[c]
  BY LinkAfterFacts
<1>6. /\ link' \in [Contacts -> LinkStatuses \cup {None}]
      /\ \A c \in Contacts : link[c] # None => link'[c] # None
      /\ \A c \in Contacts : c \notin q.rel /\ c \notin deleted' => link'[c] = link[c]
  BY <1>2, <1>3, <1>5, Distinct DEF LinkStatuses
<1>7. deleted \subseteq deleted' /\ deleted' \subseteq Contacts
  BY <1>2, <1>3 DEF TenancyInv, TypeOK
<1> QED
  BY <1>1, <1>2, <1>4, <1>6, <1>7, TurnoverKeeps

LEMMA DropRows ==
  ASSUME TenancyInv, NEW r \in Reqs, Drop(r)
  PROVE  SameRows(request')
<1>1. PICK q \in Transaction :
        q = req[r] /\ request' = Ended(OneOf({i \in Requests : Names(i, q.contact)}))
  BY Reads DEF Drop
<1>2. PICK S : S = {i \in Requests : Names(i, q.contact)}
  OBVIOUS
<1>3. PICK old : old = OneOf(S)
  OBVIOUS
<1>4. old \in Requests \cup {None} /\ (old # None => request[old] # None)
  BY <1>2, <1>3, OneOfFacts DEF Names, Current
<1>5. SameRows(Ended(old))
  BY <1>4, EndedRows
<1> QED
  BY <1>1, <1>2, <1>3, <1>5 DEF SameRows

\* Nothing is released: roles and owners stay.
LEMMA DropKeeps ==
  ASSUME TenancyInv, NEW r \in Reqs, Drop(r)
  PROVE  TenancyInv'
<1>1. PICK q \in Transaction : q = req[r] /\ ReadSound(q) /\ ReleaseSound(q)
  BY Reads
<1>2. /\ Done(r) /\ UNCHANGED <<primary, role, owner>> /\ deleted' = deleted \cup {q.contact}
      /\ link' = [link EXCEPT ![q.contact] = IF @ = None THEN None ELSE "moved_out"]
      /\ q.op = "drop"
  BY <1>1 DEF Drop, Writes
<1>3. q.contact \in Contacts
  BY <1>1, <1>2 DEF ReadSound, Transaction
<1>4. SameRows(request')
  BY DropRows
<1>5. /\ req' \in [Reqs -> Transaction]
      /\ \A s \in Reqs : req'[s] = req[s] \/ req'[s] = Idle
  BY <1>2, IdleSound DEF Done, TenancyInv, TypeOK
<1>6. /\ link' \in [Contacts -> LinkStatuses \cup {None}]
      /\ \A c \in Contacts : link[c] # None => link'[c] # None
      /\ \A c \in Contacts \ {q.contact} : link'[c] = link[c]
  BY <1>2, <1>3, Distinct DEF LinkStatuses, TenancyInv, TypeOK
<1>7. /\ primary' \subseteq Contacts /\ role' \in Contacts \cup {None}
      /\ owner' \in Owners \cup {None} /\ deleted' \subseteq Contacts
  BY <1>2, <1>3 DEF TenancyInv, TypeOK
<1>8. \A s \in Reqs : role' \in req[s].rel /\ ~req[s].ends => owner' = None
  BY <1>2 DEF TenancyInv, ReleaseSound
<1>9. TenantHasLink'
  BY <1>2, <1>6 DEF TenancyInv, TypeOK, TenantHasLink
<1> QED
  BY <1>4, <1>5, <1>6, <1>7, <1>8, <1>9, CommitKeeps DEF SameRows

-----------------------------------------------------------------------------
(* New tenants and new owners *)

\* The new holder of the role has an open link, and nobody is releasing it.
LEMMA NewTenantKeeps ==
  ASSUME TenancyInv, NEW r \in Reqs, NEW q \in Transaction, q = req[r], NEW c \in Contacts, Done(r),
         request' \in [Requests -> Row \cup {None}],
         \A i \in Requests : request[i] # None => request'[i] # None,
         \A i \in Requests : request'[i] # None /\ request'[i].tenant # None =>
           \/ request'[i].tenant = c
           \/ request[i] # None /\ request'[i].tenant = request[i].tenant,
         link' = [LinkAfter(q) EXCEPT ![c] = "active"], primary' \subseteq Contacts,
         role' = c, owner' = OwnerAfter(q), deleted' = deleted,
         \A s \in Reqs \ {r} : c \notin req[s].rel
  PROVE  TenancyInv'
<1>1. PICK links : /\ links = LinkAfter(q) /\ links \in [Contacts -> LinkStatuses \cup {None}]
                   /\ \A d \in Contacts : link[d] # None => links[d] # None
  BY LinkAfterFacts
<1>2. /\ link' \in [Contacts -> LinkStatuses \cup {None}] /\ link'[c] = "active"
      /\ \A d \in Contacts : link[d] # None => link'[d] # None
  BY <1>1, Distinct DEF LinkStatuses
<1>3. /\ req' = [req EXCEPT ![r] = Idle] /\ req \in [Reqs -> Transaction]
  BY DEF Done, TenancyInv, TypeOK
<1>4. /\ req' \in [Reqs -> Transaction]
      /\ \A s \in Reqs : req'[s] = req[s] \/ req'[s] = Idle
  BY <1>3, IdleSound
<1>5. \A s \in Reqs : req'[s] = req[s] => role' \notin req[s].rel
  BY <1>3, IdleSound
<1>6. owner' \in Owners \cup {None} /\ deleted' \subseteq Contacts
  BY DEF OwnerAfter, TenancyInv, TypeOK
<1>7. TenantHasLink'
  BY <1>2 DEF TenantHasLink
<1>8. \A i \in Requests : request'[i] # None /\ request'[i].tenant # None =>
        \/ link'[request'[i].tenant] # None
        \/ request[i] # None /\ request'[i].tenant = request[i].tenant
  BY <1>2, Distinct
<1> QED
  BY <1>2, <1>4, <1>5, <1>6, <1>7, <1>8, CommitKeeps

LEMMA MoveInKeeps ==
  ASSUME TenancyInv, NEW r \in Reqs, MoveIn(r)
  PROVE  TenancyInv'
<1>1. PICK q \in Transaction : q = req[r] /\ ReadSound(q) /\ ReleaseSound(q)
  BY Reads
<1>2. /\ Done(r) /\ link' = [LinkAfter(q) EXCEPT ![q.contact] = "active"] /\ role' = q.contact
      /\ owner' = OwnerAfter(q) /\ SyncMoveIn(q) /\ UNCHANGED <<primary, deleted>>
      /\ q.op = "move_in" /\ \A s \in Reqs \ {r} : q.contact \notin req[s].rel
  BY <1>1 DEF MoveIn, Writes, Unlocked
<1>3. PICK c \in Contacts : c = q.contact
  BY <1>1, <1>2 DEF ReadSound, Transaction
<1>4. request \in [Requests -> Row \cup {None}] /\ primary' \subseteq Contacts
  BY <1>2 DEF TenancyInv, TypeOK
<1>5. ASSUME NEW i \in Requests, NEW row \in Row, row.tenant = c, request' = [request EXCEPT ![i] = row]
      PROVE  /\ request' \in [Requests -> Row \cup {None}]
             /\ \A j \in Requests : request[j] # None => request'[j] # None
             /\ \A j \in Requests : request'[j] # None /\ request'[j].tenant # None =>
                  \/ request'[j].tenant = c
                  \/ request[j] # None /\ request'[j].tenant = request[j].tenant
  <2>1. \A j \in Requests : request'[j] = IF j = i THEN row ELSE request[j]
    BY <1>4, <1>5
  <2> QED
    BY <1>4, <1>5, <2>1, Distinct
<1>6. \/ UNCHANGED request
      \/ \E i \in Requests, row \in Row : row.tenant = c /\ request' = [request EXCEPT ![i] = row]
  <2>1. ASSUME NEW i \in Requests, InFlight(i),
               request' = [request EXCEPT ![i].status = "approved", ![i].tenant = c]
        PROVE  \E row \in Row : row.tenant = c /\ request' = [request EXCEPT ![i] = row]
    <3>1. request[i] \in Row
      BY <1>4, <2>1 DEF InFlight
    <3>2. PICK row \in Row : row = [request[i] EXCEPT !.status = "approved", !.tenant = c]
      BY <3>1 DEF Row, Statuses
    <3>3. row.tenant = c /\ request' = [request EXCEPT ![i] = row]
      BY <1>4, <2>1, <3>1, <3>2 DEF Row
    <3> QED
      BY <3>3
  <2>2. NewRow("approved", c, [d \in Docs |-> None]) \in Row
        /\ NewRow("approved", c, [d \in Docs |-> None]).tenant = c
    BY NewRowType DEF Statuses
  <2> QED
    BY <1>2, <1>3, <2>1, <2>2 DEF SyncMoveIn
<1>7. /\ request' \in [Requests -> Row \cup {None}]
      /\ \A j \in Requests : request[j] # None => request'[j] # None
      /\ \A j \in Requests : request'[j] # None /\ request'[j].tenant # None =>
           \/ request'[j].tenant = c
           \/ request[j] # None /\ request'[j].tenant = request[j].tenant
  <2>1. CASE UNCHANGED request
    BY <1>4, <2>1
  <2>2. CASE \E i \in Requests, row \in Row : row.tenant = c /\ request' = [request EXCEPT ![i] = row]
    BY <1>5, <2>2
  <2> QED
    BY <1>6, <2>1, <2>2
<1> QED
  BY <1>1, <1>2, <1>3, <1>4, <1>7, NewTenantKeeps

LEMMA ProvisionKeeps ==
  ASSUME TenancyInv, NEW r \in Reqs, Provision(r)
  PROVE  TenancyInv'
<1>1. PICK q \in Transaction : q = req[r] /\ ReadSound(q) /\ ReleaseSound(q)
  BY Reads
<1>2. q.op = "approve" /\ Done(r) /\ owner' = OwnerAfter(q) /\ deleted' = deleted
  BY <1>1 DEF Provision, Writes
<1>3. PICK c \in Contacts :
        /\ New(c)
        /\ request' = [Ended(q.old) EXCEPT ![q.row].status = "approved", ![q.row].tenant = c]
        /\ link' = [LinkAfter(q) EXCEPT ![c] = "active"] /\ role' = c
        /\ primary' = {c} \cup {d \in primary : LinkAfter(q)[d] # "active"}
  BY <1>1 DEF Provision
<1>4. q.row \in Requests /\ request[q.row] # None
  BY <1>1, <1>2 DEF ReadSound, Transaction
<1>5. PICK rows : rows = Ended(q.old) /\ SameRows(rows)
  BY <1>1, VacatedRows
<1>6. rows[q.row] \in Row
  BY <1>4, <1>5 DEF SameRows
<1>7. PICK row \in Row : row = [rows[q.row] EXCEPT !.status = "approved", !.tenant = c]
  BY <1>6 DEF Row, Statuses
<1>8. row.tenant = c /\ request' = [rows EXCEPT ![q.row] = row]
  BY <1>3, <1>4, <1>5, <1>6, <1>7 DEF Row, SameRows
<1>9. \A i \in Requests : request'[i] = IF i = q.row THEN row ELSE rows[i]
  BY <1>5, <1>8 DEF SameRows
<1>10. /\ request' \in [Requests -> Row \cup {None}]
       /\ \A i \in Requests : request[i] # None => request'[i] # None
       /\ \A i \in Requests : request'[i] # None /\ request'[i].tenant # None =>
            \/ request'[i].tenant = c
            \/ request[i] # None /\ request'[i].tenant = request[i].tenant
  BY <1>5, <1>8, <1>9, Distinct DEF SameRows
<1>11. primary' \subseteq Contacts
  BY <1>3 DEF TenancyInv, TypeOK
<1>12. \A s \in Reqs : c \notin req[s].rel
  BY <1>3 DEF New, TenancyInv, ReleaseSound
<1> QED
  BY <1>1, <1>2, <1>3, <1>10, <1>11, <1>12, NewTenantKeeps

\* Nobody has the role when a new owner comes.
LEMMA NewOwnerKeeps ==
  ASSUME TenancyInv, Allot \/ \E r \in Reqs : Reassign(r)
  PROVE  TenancyInv'
<1>1. /\ role' = None /\ owner' \in Owners /\ UNCHANGED <<primary, deleted>>
  BY DEF Allot, Reassign
<1>2. /\ req' \in [Reqs -> Transaction]
      /\ \A s \in Reqs : req'[s] = req[s] \/ req'[s] = Idle
  BY IdleSound DEF Allot, Reassign, Done, TenancyInv, TypeOK
<1>3. /\ link' \in [Contacts -> LinkStatuses \cup {None}]
      /\ \A c \in Contacts : link[c] # None => link'[c] # None
      /\ SameRows(request')
  <2>1. CASE Allot
    BY <2>1 DEF Allot, SameRows, TenancyInv, TypeOK
  <2>2. ASSUME NEW r \in Reqs, Reassign(r)
        PROVE  <1>3!1 /\ <1>3!2 /\ <1>3!3
    <3>1. PICK q \in Transaction : q = req[r] /\ ReadSound(q) /\ ReleaseSound(q)
      BY Reads
    <3>2. request' = Vacated(q) /\ link' = LinkAfter(q)
      BY <2>2, <3>1 DEF Reassign
    <3> QED
      BY <3>1, <3>2, VacatedRows, LinkAfterFacts DEF SameRows
  <2> QED
    BY <2>1, <2>2
<1>4. /\ primary' \subseteq Contacts /\ deleted' \subseteq Contacts
  BY <1>1 DEF TenancyInv, TypeOK
<1>5. \A s \in Reqs : role' \notin req[s].rel
  <2> TAKE s \in Reqs
  <2>1. PICK q \in Transaction : q = req[s]
    BY DEF TenancyInv, TypeOK
  <2> QED
    BY <1>1, <2>1, Distinct DEF Transaction
<1>6. TenantHasLink'
  BY <1>1 DEF TenantHasLink
<1> QED
  BY <1>1, <1>2, <1>3, <1>4, <1>5, <1>6, CommitKeeps DEF SameRows

LEMMA ReactivateKeeps ==
  ASSUME TenancyInv, NEW c \in Contacts, Reactivate(c)
  PROVE  TenancyInv'
<1>1. /\ link' = [link EXCEPT ![c] = "active"] /\ link \in [Contacts -> LinkStatuses \cup {None}]
      /\ UNCHANGED <<request, primary, role, owner, deleted, req>>
  BY DEF Reactivate, TenancyInv, TypeOK
<1>2. /\ link' \in [Contacts -> LinkStatuses \cup {None}]
      /\ \A d \in Contacts : link[d] # None => link'[d] # None
      /\ \A d \in Contacts : link[d] = "active" => link'[d] = "active"
  BY <1>1, Distinct DEF LinkStatuses
<1>3. TenantHasLink'
  BY <1>1, <1>2 DEF TenancyInv, TypeOK, TenantHasLink
<1>4. \A s \in Reqs : role \in req[s].rel /\ ~req[s].ends => owner = None
  BY DEF TenancyInv, ReleaseSound
<1>5. TypeOK
  BY DEF TenancyInv
<1> QED
  BY <1>1, <1>2, <1>3, <1>4, <1>5, CommitKeeps DEF TypeOK

-----------------------------------------------------------------------------
(* Theorems *)

LEMMA InitEstablishes == Init => TenancyInv
<1> SUFFICES ASSUME Init
             PROVE  TenancyInv
  OBVIOUS
<1>1. TypeOK
  BY IdleSound DEF Init, TypeOK
<1>2. TenantsKnown /\ TenantHasLink
  BY DEF Init, TenantsKnown, TenantHasLink
<1>3. \A r \in Reqs : ReleaseSound(req[r]) /\ ReadSound(req[r])
  BY IdleSound DEF Init
<1> QED
  BY <1>1, <1>2, <1>3 DEF TenancyInv

LEMMA StepKeeps == TenancyInv /\ [Next]_vars => TenancyInv'
<1> SUFFICES ASSUME TenancyInv, [Next]_vars
             PROVE  TenancyInv'
  OBVIOUS
<1>1. CASE Allot
  BY <1>1, NewOwnerKeeps
<1>2. CASE \E c \in Contacts : Reactivate(c)
  BY <1>2, ReactivateKeeps
<1>3. ASSUME NEW r \in Reqs, Begins(r)
      PROVE  TenancyInv'
  <2>1. "verified" \in DocStatuses /\ "rejected" \in DocStatuses
    BY DEF DocStatuses
  <2> QED
    BY <1>3, <2>1, BeginReadsKeep, BeginReviewKeeps, BeginApproveKeeps, BeginMoveKeeps,
       BeginOthersKeep DEF Begins
<1>4. ASSUME NEW r \in Reqs, Continued(r)
      PROVE  TenancyInv'
  BY <1>4, ReleaseKeeps, WriteRequestKeeps, WriteTenancyKeeps, ProvisionKeeps, MoveInKeeps,
     MoveOutKeeps, NewOwnerKeeps, DeleteOwnerKeeps, DeleteKeeps, DropKeeps DEF Continued
<1>5. ASSUME NEW r \in Reqs, Abort(r)
      PROVE  TenancyInv'
  BY <1>5, AbortKeeps
<1>6. CASE UNCHANGED vars
  <2>1. UNCHANGED <<request, link, primary, role, owner, deleted, req>>
    BY <1>6 DEF vars
  <2>2. TypeOK'
    BY <2>1 DEF TenancyInv, TypeOK
  <2>3. TenantsKnown' /\ TenantHasLink'
    BY <2>1 DEF TenancyInv, TenantsKnown, TenantHasLink
  <2>4. \A r \in Reqs : ReleaseSound(req[r])' /\ ReadSound(req[r])'
    BY <2>1 DEF TenancyInv, ReleaseSound, ReadSound
  <2> QED
    BY <2>2, <2>3, <2>4 DEF TenancyInv
<1> QED
  BY <1>1, <1>2, <1>3, <1>4, <1>5, <1>6 DEF Next

THEOREM TenancyInvariant == Spec => []TenancyInv
<1> QED
  BY InitEstablishes, StepKeeps, PTL DEF Spec

\* The variables stay in their types.
THEOREM TypeCorrect == Spec => []TypeOK
<1>1. TenancyInv => TypeOK
  BY DEF TenancyInv
<1> QED
  BY <1>1, TenancyInvariant, PTL

\* Whoever holds the Tenant role of an owned unit lives there (or has been deleted), whichever
\* turnovers and moves overlap.
THEOREM RoleFollowsLink == Spec => []TenantHasLink
<1>1. TenancyInv => TenantHasLink
  BY DEF TenancyInv
<1> QED
  BY <1>1, TenancyInvariant, PTL

-----------------------------------------------------------------------------
(* What a step may never do *)

\* Reading, releasing and giving up change nothing that others see.
LEMMA NothingWritten ==
  ASSUME NEW r \in Reqs, Begins(r) \/ Release(r) \/ Abort(r)
  PROVE  UNCHANGED <<request, role>>
<1>1. ASSUME NEW q, Continue(r, q)
      PROVE  UNCHANGED <<request, role>>
  BY <1>1 DEF Continue
<1>2. CASE Begins(r)
  BY <1>2 DEF Begins, Begin, Continue, BeginCreate, BeginCancel, BeginRefresh, BeginResubmit,
     BeginApprove, BeginAsk, BeginApproveMoveOut, BeginRejectMoveOut, BeginReupload, BeginReview,
     BeginMoveIn, BeginMoveOut, BeginDelete, BeginVacate
<1>3. CASE Release(r) \/ Abort(r)
  BY <1>3 DEF Release, Abort, Continue
<1> QED
  BY <1>2, <1>3

\* The role gets a new holder only when a tenant moves in or is provisioned.
LEMMA RoleSteps ==
  ASSUME TenancyInv, [Next]_vars, role' \notin {role, None}
  PROVE  \E r \in Reqs : MoveIn(r) \/ Provision(r)
<1>1. ASSUME NEW r \in Reqs, Begins(r) \/ Abort(r)
      PROVE  FALSE
  BY <1>1, NothingWritten
<1>2. ASSUME NEW r \in Reqs, Continued(r)
      PROVE  MoveIn(r) \/ Provision(r)
  BY <1>2, NothingWritten DEF Continued, WriteRequest, Renew, MoveOut, Ask, RejectMoveOut, Unassign,
     Reassign, DeleteOwner, Delete, Drop, RoleAfter
<1> QED
  BY <1>1, <1>2 DEF Next, Allot, Reactivate, vars

LEMMA TenantKeptStep ==
  ASSUME TenancyInv, [Next]_vars, owner' # None, role' \notin {None, role} \cup deleted
  PROVE  \E j \in Requests :
           request'[j] # None /\ request'[j].status = "approved" /\ request'[j].tenant = role'
<1>1. PICK r \in Reqs : MoveIn(r) \/ Provision(r)
  BY RoleSteps
<1>2. PICK q \in Transaction : q = req[r] /\ ReadSound(q) /\ ReleaseSound(q)
  BY Reads
<1>3. request \in [Requests -> Row \cup {None}]
  BY DEF TenancyInv, TypeOK
<1>4. CASE MoveIn(r)
  <2>1. SyncMoveIn(q) /\ role' = q.contact /\ owner' = OwnerAfter(q)
    BY <1>2, <1>4 DEF MoveIn
  <2>2. CASE (\E i \in Requests : Names(i, q.contact)) /\ UNCHANGED request
    BY <2>1, <2>2 DEF Names, Current
  <2>3. ASSUME NEW i \in Requests, InFlight(i),
               request' = [request EXCEPT ![i].status = "approved", ![i].tenant = q.contact]
        PROVE  request'[i] # None /\ request'[i].status = "approved" /\ request'[i].tenant = role'
    <3>1. request[i] \in Row
      BY <1>3, <2>3 DEF InFlight
    <3>2. q.contact \in Contacts \cup {None}
      BY DEF Transaction
    <3>3. request'[i] \in Row
      BY <1>3, <2>3, <3>1, <3>2 DEF Row, Statuses
    <3> QED
      BY <1>3, <2>1, <2>3, <3>1, <3>3, Distinct DEF Row
  <2>4. ASSUME NEW i \in Requests,
               request' = [request EXCEPT ![i] = NewRow("approved", q.contact, [d \in Docs |-> None])]
        PROVE  request'[i] # None /\ request'[i].status = "approved" /\ request'[i].tenant = role'
    <3>1. q.contact \in Contacts \cup {None}
      BY DEF Transaction
    <3>2. PICK row \in Row : /\ row = NewRow("approved", q.contact, [d \in Docs |-> None])
                             /\ row.status = "approved" /\ row.tenant = q.contact
      <4>1. PICK docs \in [Docs -> DocStatuses \cup {None}] : docs = [d \in Docs |-> None]
        OBVIOUS
      <4>2. NewRow("approved", q.contact, docs) \in Row
        BY <3>1, NewRowType DEF Statuses
      <4> QED
        BY <4>1, <4>2 DEF NewRow
    <3> QED
      BY <1>3, <2>1, <2>4, <3>2, Distinct
  <2> QED
    BY <2>1, <2>2, <2>3, <2>4 DEF SyncMoveIn
<1>5. CASE Provision(r)
  <2>1. PICK c \in Contacts :
          /\ request' = [Ended(q.old) EXCEPT ![q.row].status = "approved", ![q.row].tenant = c]
          /\ role' = c /\ q.op = "approve"
    BY <1>2, <1>5 DEF Provision, Writes
  <2>2. q.row \in Requests /\ request[q.row] # None
    BY <1>2, <2>1 DEF ReadSound, Transaction
  <2>3. PICK rows : rows = Ended(q.old) /\ SameRows(rows)
    BY <1>2, VacatedRows
  <2>4. rows[q.row] \in Row
    BY <2>2, <2>3 DEF SameRows
  <2>5. PICK row \in Row : row = [rows[q.row] EXCEPT !.status = "approved", !.tenant = c]
    BY <2>4 DEF Row, Statuses
  <2>6. request' = [rows EXCEPT ![q.row] = row] /\ row.status = "approved" /\ row.tenant = c
    BY <2>1, <2>3, <2>4, <2>5 DEF Row
  <2>7. request'[q.row] = row
    BY <2>2, <2>3, <2>6 DEF SameRows
  <2> QED
    BY <2>1, <2>2, <2>6, <2>7, Distinct
<1> QED
  BY <1>1, <1>4, <1>5

\* The tenant of a tenancy on record gives way only to one with a tenancy approved.
THEOREM TenantOfRecordIsKept == Spec => TenantOfRecordKept
<1>1. TenancyInv /\ [Next]_vars =>
        [\A i \in Requests :
           ( /\ owner # None /\ owner' # None
             /\ role # None /\ Names(i, role)
             /\ role' \notin {None, role} \cup deleted ) =>
             \E j \in Requests :
               request'[j] # None /\ request'[j].status = "approved" /\ request'[j].tenant = role']_vars
  BY TenantKeptStep
<1> QED
  BY <1>1, TenancyInvariant, PTL DEF Spec, TenantOfRecordKept

\* The handlers of a request and its documents ask for no move-out.
LEMMA WriteRequestRests ==
  ASSUME TenancyInv, NEW r \in Reqs, WriteRequest(r) \/ Renew(r), NEW i \in Requests,
         request[i] # None, ~request[i].asked
  PROVE  ~request'[i].asked
<1>1. PICK q \in Transaction : q = req[r] /\ ReadSound(q)
  BY Reads
<1>2. request \in [Requests -> Row \cup {None}] /\ request[i] \in Row
  BY DEF TenancyInv, TypeOK
<1>3. ASSUME NEW j \in Requests, NEW row, request' = [request EXCEPT ![j] = row], request[j] = None
      PROVE  ~request'[i].asked
  BY <1>2, <1>3
<1>4. ASSUME NEW j, NEW docs, NEW status,
             \/ request' = [request EXCEPT ![j].status = status]
             \/ request' = [request EXCEPT ![j].docs = docs, ![j].status = status]
             \/ request' = [request EXCEPT ![j].status = status, ![j].tenant = docs]
      PROVE  ~request'[i].asked
  <2>1. CASE i # j
    BY <1>2, <1>4, <2>1
  <2>2. CASE i = j
    BY <1>2, <1>4, <2>2 DEF Row
  <2> QED
    BY <2>1, <2>2
<1>5. CASE /\ q.op = "review"
           /\ request' = [request EXCEPT ![q.row].docs[q.doc] = q.verdict,
                                         ![q.row].status = Header(q, @)]
  <2>1. request[q.row] \in Row
    BY <1>1, <1>2, <1>5 DEF ReadSound, Transaction
  <2>2. PICK docs : docs = [request[q.row].docs EXCEPT ![q.doc] = q.verdict]
    OBVIOUS
  <2>3. PICK status : status = Header(q, request[q.row].status)
    OBVIOUS
  <2>4. request' = [request EXCEPT ![q.row].docs = docs, ![q.row].status = status]
    BY <1>2, <1>5, <2>1, <2>2, <2>3 DEF Row
  <2> QED
    BY <1>4, <2>4
<1>6. CASE Renew(r)
  <2>1. request' = [request EXCEPT ![q.row].status = "approved", ![q.row].tenant = q.tenant]
    BY <1>1, <1>6 DEF Renew
  <2> QED
    BY <1>4, <2>1
<1>7. CASE \/ request' = [request EXCEPT ![q.row].status = "cancelled"]
           \/ request' = [request EXCEPT ![q.row].status = q.status]
  BY <1>4, <1>7
<1>8. CASE \E given \in SUBSET Docs :
             LET docs == Reset(request[q.row].docs, given)
             IN request' = [request EXCEPT ![q.row].docs = docs, ![q.row].status = Derived(docs)]
  <2>1. PICK given \in SUBSET Docs :
        LET docs == Reset(request[q.row].docs, given)
        IN request' = [request EXCEPT ![q.row].docs = docs, ![q.row].status = Derived(docs)]
    BY <1>8
  <2>2. PICK docs : docs = Reset(request[q.row].docs, given)
    OBVIOUS
  <2>3. PICK status : status = Derived(docs)
    OBVIOUS
  <2>4. request' = [request EXCEPT ![q.row].docs = docs, ![q.row].status = status]
    BY <2>1, <2>2, <2>3
  <2> QED
    BY <1>4, <2>4
<1>9. CASE \E j \in Requests : /\ request[j] = None
                               /\ request' = [request EXCEPT ![j] = NewRow(Derived(Pending), None, Pending)]
  <2>1. PICK row : row = NewRow(Derived(Pending), None, Pending)
    OBVIOUS
  <2> QED
    BY <1>3, <1>9, <2>1
<1> QED
  BY <1>1, <1>5, <1>6, <1>7, <1>8, <1>9 DEF WriteRequest, Writes

\* A new tenant comes with no move-out asked for.
LEMMA NewTenantRests ==
  ASSUME TenancyInv, NEW r \in Reqs, MoveIn(r) \/ Provision(r), NEW i \in Requests,
         request[i] # None, ~request[i].asked
  PROVE  ~request'[i].asked
<1>1. PICK q \in Transaction : q = req[r] /\ ReadSound(q)
  BY Reads
<1>2. request \in [Requests -> Row \cup {None}] /\ request[i] \in Row
  BY DEF TenancyInv, TypeOK
<1>3. CASE MoveIn(r)
  <2>1. ASSUME NEW j \in Requests,
               request' = [request EXCEPT ![j].status = "approved", ![j].tenant = q.contact]
        PROVE  ~request'[i].asked
    <3>1. CASE i # j
      BY <1>2, <2>1, <3>1
    <3>2. CASE i = j
      BY <1>2, <2>1, <3>2 DEF Row
    <3> QED
      BY <3>1, <3>2
  <2>2. ASSUME NEW j \in Requests, NEW row, request[j] = None, request' = [request EXCEPT ![j] = row]
        PROVE  ~request'[i].asked
    BY <1>2, <2>2
  <2>3. PICK row : row = NewRow("approved", q.contact, [d \in Docs |-> None])
    OBVIOUS
  <2> QED
    BY <1>1, <1>3, <2>1, <2>2, <2>3 DEF MoveIn, SyncMoveIn
<1>4. CASE Provision(r)
  <2>1. PICK rows : rows = Ended(q.old) /\ SameRows(rows)
    BY <1>1, VacatedRows
  <2>2. PICK c \in Contacts :
          request' = [rows EXCEPT ![q.row].status = "approved", ![q.row].tenant = c]
    BY <1>1, <1>4, <2>1 DEF Provision
  <2>3. rows \in [Requests -> Row \cup {None}] /\ rows[i] \in Row /\ ~rows[i].asked
    BY <2>1 DEF SameRows
  <2>4. CASE i # q.row
    BY <2>2, <2>3, <2>4
  <2>5. CASE i = q.row
    BY <2>2, <2>3, <2>5 DEF Row
  <2> QED
    BY <2>4, <2>5
<1> QED
  BY <1>3, <1>4

LEMMA EndedStep ==
  ASSUME TenancyInv, [Next]_vars, NEW i \in Requests, request[i] # None, request[i].ended,
         ~request[i].asked
  PROVE  ~request'[i].asked
<1>1. request \in [Requests -> Row \cup {None}] /\ request[i] \in Row
  BY DEF TenancyInv, TypeOK
<1>2. ASSUME SameRows(request')
      PROVE  ~request'[i].asked
  BY <1>2 DEF SameRows
<1>3. ASSUME NEW r \in Reqs, Ask(r) \/ RejectMoveOut(r)
      PROVE  ~request'[i].asked
  <2>1. PICK q \in Transaction : q = req[r]
    BY Reads
  <2>2. CASE Ask(r)
    <3>1. request' = [request EXCEPT ![q.row].asked = @ \/ Current(q.row)]
      BY <2>1, <2>2 DEF Ask
    <3>2. CASE i # q.row
      BY <1>1, <3>1, <3>2
    <3>3. CASE i = q.row
      <4>1. ~Current(q.row)
        BY <3>3 DEF Current
      <4>2. request'[i] = [request[i] EXCEPT !.asked = request[i].asked \/ Current(q.row)]
        BY <1>1, <3>1, <3>3
      <4>3. PICK asked : asked = (request[i].asked \/ Current(q.row))
        OBVIOUS
      <4>4. ~asked
        BY <4>1, <4>3
      <4>5. request'[i].asked = asked
        BY <1>1, <4>2, <4>3 DEF Row
      <4> QED
        BY <4>4, <4>5
    <3> QED
      BY <3>2, <3>3
  <2>3. CASE RejectMoveOut(r)
    <3>1. request' = [request EXCEPT ![q.row].status = "approved", ![q.row].asked = FALSE]
      BY <2>1, <2>3 DEF RejectMoveOut
    <3>2. CASE i # q.row
      BY <1>1, <3>1, <3>2
    <3>3. CASE i = q.row
      BY <1>1, <3>1, <3>3 DEF Row
    <3> QED
      BY <3>2, <3>3
  <2> QED
    BY <1>3, <2>2, <2>3
<1>4. ASSUME NEW r \in Reqs, MoveOut(r) \/ Unassign(r) \/ Reassign(r) \/ Delete(r)
      PROVE  SameRows(request')
  <2>1. PICK q \in Transaction : q = req[r] /\ ReadSound(q)
    BY Reads
  <2>2. request' \in {MovedOut(q.old), Ended(q.old), Vacated(q)}
    BY <1>4, <2>1 DEF MoveOut, Unassign, Reassign, Delete
  <2> QED
    BY <2>1, <2>2, VacatedRows DEF SameRows
<1>5. ASSUME NEW r \in Reqs, Begins(r) \/ Continued(r) \/ Abort(r)
      PROVE  ~request'[i].asked
  BY <1>2, <1>3, <1>4, <1>5, NothingWritten, WriteRequestRests, NewTenantRests, DeleteOwnerRows,
     DropRows DEF Continued
<1> QED
  BY <1>5 DEF Next, Allot, Reactivate, vars

\* Nobody asks for the move-out of a tenancy that has ended.
THEOREM EndedTenancyStays == Spec => EndedTenancyRests
<1>1. TenancyInv /\ [Next]_vars =>
        [\A i \in Requests :
           request[i] # None /\ request[i].ended /\ ~request[i].asked => ~request'[i].asked]_vars
  BY EndedStep
<1> QED
  BY <1>1, TenancyInvariant, PTL DEF Spec, EndedTenancyRests

-----------------------------------------------------------------------------
(* One transaction at a time: what it has read is still so when it writes. Allotments and *)
(* reactivated links come in between, but neither changes the holder of the role.         *)

OneAtATime == \A r, s \in Reqs : r = s

\* Only a request that is superseded has ended.
Orderly(rows) ==
  \A i \in Requests : rows[i] # None /\ rows[i].ended => rows[i].status = "superseded"

\* Between transactions the role's holder lives in the unit, as its primary occupant if the
\* unit has no owner, and has the only tenancy on record.
Settled ==
  /\ role # None =>
       role \notin deleted /\ link[role] = "active" /\ (owner = None => role \in primary)
  /\ \A i \in Requests : Current(i) => role # None /\ request[i].tenant = role
  /\ \A i, j \in Requests : Current(i) /\ Current(j) => i = j
  /\ Orderly(request)

\* The tenancy that a turnover ends is the only one on record.
EndsAll(q) == \A i \in Requests : Current(i) => i = q.old

\* The request is as it was read, and the header that was derived for it is open.
RowStillRead(q) ==
  /\ q.op \in {"cancel", "review", "refresh", "approve", "renew"} => InFlight(q.row)
  /\ q.op \in {"review", "refresh"} => q.status \in OpenStatuses \cup {None}
  /\ q.op = "resubmit" => Current(q.row)
  /\ q.op = "reject_move_out" => MoveOutAsked(q.row)

\* So are the tenant, the owner and the tenancy on record.
TenantStillRead(q) ==
  /\ q.op = "renew" => role = q.tenant
  /\ q.op = "drop" => role # q.contact
  /\ q.op = "move_in" =>
       /\ role = None /\ owner # None /\ q.contact \notin deleted
       /\ IF q.pc = "release" THEN q.keep = owner ELSE owner \notin q.rel
  /\ q.op \in {"approve", "approve_move_out"} => EndsAll(q) /\ (q.old # None => Current(q.old))
  /\ q.op \in {"move_out", "delete", "vacate"} =>
       IF q.scope = "single" THEN q.contact # None /\ role # q.contact /\ q.tenant = q.contact
       ELSE q.tenant = role

\* Each turnover releases what it should.
ScopeOfTurnover(q) ==
  /\ q.op \in {"move_in", "approve", "approve_move_out"} => q.scope = "household"
  /\ q.op = "move_out" => q.scope # "all"
  /\ q.op = "delete" => q.scope # "single"
  /\ q.op = "vacate" => q.scope = "all"

\* Once links are released, the tenancy on record and the role end, unless somebody else than
\* the tenant moves out.
ReleaseStillRight(q) ==
  q.pc = "write" /\ q.op \in Turnovers =>
    IF q.scope = "single" THEN q.rel \subseteq {q.contact} /\ q.old = None
    ELSE EndsAll(q) /\ (role = None \/ q.ends)

StillRead(q) ==
  RowStillRead(q) /\ TenantStillRead(q) /\ ScopeOfTurnover(q) /\ ReleaseStillRight(q)

SerialInv == TenancyInv /\ Settled /\ \A r \in Reqs : StillRead(req[r])

LEMMA IdleStillRead == \A q : q.op = None => StillRead(q)
BY Distinct DEF StillRead, RowStillRead, TenantStillRead, ScopeOfTurnover, ReleaseStillRight, Ops,
   Turnovers

\* A step that commits nothing.
LEMMA SerialContinue ==
  ASSUME OneAtATime, SerialInv, TenancyInv', NEW r \in Reqs, NEW q, Continue(r, q), StillRead(q)
  PROVE  SerialInv'
<1>1. UNCHANGED <<request, link, primary, role, owner, deleted>> /\ \A s \in Reqs : req'[s] = q
  BY DEF Continue, OneAtATime, SerialInv, TenancyInv, TypeOK
<1>2. Settled'
  BY <1>1 DEF SerialInv, Settled, Orderly, Current
<1>3. StillRead(q)'
  <2>1. RowStillRead(q)'
    BY <1>1 DEF StillRead, RowStillRead, InFlight, Current, MoveOutAsked
  <2>2. TenantStillRead(q)'
    BY <1>1 DEF StillRead, TenantStillRead, EndsAll, Current
  <2>3. ScopeOfTurnover(q)' /\ ReleaseStillRight(q)'
    BY <1>1 DEF StillRead, ScopeOfTurnover, ReleaseStillRight, EndsAll, Current
  <2> QED
    BY <2>1, <2>2, <2>3 DEF StillRead
<1>4. ASSUME NEW s \in Reqs
      PROVE  StillRead(req[s])'
  <2>1. req'[s] = q
    BY <1>1
  <2> QED
    BY <1>3, <2>1 DEF StillRead, RowStillRead, TenantStillRead, ScopeOfTurnover, ReleaseStillRight, EndsAll
<1> QED
  BY <1>2, <1>4 DEF SerialInv

\* A step that commits: no transaction is left.
LEMMA SerialCommit ==
  ASSUME OneAtATime, SerialInv, TenancyInv', NEW r \in Reqs, Done(r), Settled'
  PROVE  SerialInv'
<1>1. \A s \in Reqs : req'[s] = Idle
  BY DEF Done, OneAtATime, SerialInv, TenancyInv, TypeOK
<1>2. \A s \in Reqs : req'[s].op = None
  BY <1>1 DEF Idle
<1>3. ASSUME NEW s \in Reqs
      PROVE  StillRead(req[s])'
  BY <1>2, Distinct DEF StillRead, RowStillRead, TenantStillRead, ScopeOfTurnover,
     ReleaseStillRight, Ops, Turnovers
<1> QED
  BY <1>3 DEF SerialInv

-----------------------------------------------------------------------------
(* Handlers read *)

\* A handler that releases nothing writes at once.
LEMMA WriterStarts ==
  ASSUME NEW op \in Ops \ Turnovers
  PROVE  Start(op) = [Idle EXCEPT !.pc = "write", !.op = op]
BY DEF Start

LEMMA TurnoverStarts ==
  ASSUME NEW op \in Turnovers
  PROVE  Start(op) = [Idle EXCEPT !.pc = "release", !.op = op, !.keep = owner]
BY DEF Start

\* Requests and documents are read.
LEMMA PaperStillRead ==
  ASSUME OneAtATime, SerialInv, TenancyInv', NEW r \in Reqs, NEW i \in Requests,
         \/ BeginCancel(r, i) \/ BeginRefresh(r, i) \/ BeginResubmit(r, i) \/ BeginAsk(r, i)
         \/ BeginRejectMoveOut(r, i)
         \/ \E d \in Docs : \/ BeginReupload(r, i, d)
                            \/ \E verdict \in {"verified", "rejected"} : BeginReview(r, i, d, verdict)
  PROVE  SerialInv'
<1>1. ASSUME NEW q, Begin(r, q),
             q.op \in {"cancel", "review", "refresh", "resubmit", "ask", "reject_move_out"},
             RowStillRead(q)
      PROVE  SerialInv'
  <2>1. TenantStillRead(q) /\ ScopeOfTurnover(q) /\ ReleaseStillRight(q)
    BY <1>1 DEF TenantStillRead, ScopeOfTurnover, ReleaseStillRight, Turnovers
  <2> QED
    BY <1>1, <2>1, SerialContinue DEF Begin, StillRead
<1>2. \A docs : Derived(docs) \in OpenStatuses
  BY DEF Derived, OpenStatuses
<1>3. CASE BeginCancel(r, i)
  <2> DEFINE q == [Start("cancel") EXCEPT !.row = i]
  <2>1. q.op = "cancel" /\ q.row = i
    BY DEF Start, Idle, Turnovers
  <2>2. Begin(r, q) /\ InFlight(i)
    BY <1>3 DEF BeginCancel
  <2> HIDE DEF q
  <2> QED
    BY <1>1, <2>1, <2>2 DEF RowStillRead
<1>4. CASE BeginRefresh(r, i)
  <2> DEFINE q == [Start("refresh") EXCEPT !.row = i, !.status = Derived(request[i].docs)]
  <2>1. q.op = "refresh" /\ q.row = i /\ q.status = Derived(request[i].docs)
    BY DEF Start, Idle, Turnovers
  <2>2. Begin(r, q) /\ InFlight(i)
    BY <1>4 DEF BeginRefresh
  <2> HIDE DEF q
  <2> QED
    BY <1>1, <1>2, <2>1, <2>2 DEF RowStillRead
<1>5. CASE BeginResubmit(r, i)
  <2> DEFINE q == [Start("resubmit") EXCEPT !.row = i]
  <2>1. q.op = "resubmit" /\ q.row = i
    BY DEF Start, Idle, Turnovers
  <2>2. Begin(r, q) /\ Current(i)
    BY <1>5 DEF BeginResubmit
  <2> HIDE DEF q
  <2> QED
    BY <1>1, <2>1, <2>2 DEF RowStillRead
<1>6. CASE BeginAsk(r, i)
  <2> DEFINE q == [Start("ask") EXCEPT !.row = i]
  <2>1. q.op = "ask"
    BY DEF Start, Idle, Turnovers
  <2>2. Begin(r, q)
    BY <1>6 DEF BeginAsk
  <2> HIDE DEF q
  <2> QED
    BY <1>1, <2>1, <2>2 DEF RowStillRead
<1>7. CASE BeginRejectMoveOut(r, i)
  <2> DEFINE q == [Start("reject_move_out") EXCEPT !.row = i]
  <2>1. q.op = "reject_move_out" /\ q.row = i
    BY DEF Start, Idle, Turnovers
  <2>2. Begin(r, q) /\ MoveOutAsked(i)
    BY <1>7 DEF BeginRejectMoveOut
  <2> HIDE DEF q
  <2> QED
    BY <1>1, <2>1, <2>2 DEF RowStillRead
<1>8. ASSUME NEW d \in Docs, BeginReupload(r, i, d)
      PROVE  SerialInv'
  <2>1. PICK status \in OpenStatuses : status = Derived([request[i].docs EXCEPT ![d] = "pending"])
    BY <1>2
  <2> DEFINE q == [Start("review") EXCEPT !.row = i, !.doc = d, !.status = status]
  <2>2. q.op = "review" /\ q.row = i /\ q.status = status
    BY DEF Start, Idle, Turnovers
  <2>3. Begin(r, q) /\ InFlight(i)
    BY <1>8, <2>1 DEF BeginReupload
  <2> HIDE DEF q
  <2> QED
    BY <1>1, <2>2, <2>3 DEF RowStillRead
<1>9. ASSUME NEW d \in Docs, NEW verdict, BeginReview(r, i, d, verdict)
      PROVE  SerialInv'
  <2>1. PICK derived \in OpenStatuses : derived = Derived([request[i].docs EXCEPT ![d] = verdict])
    BY <1>2
  <2>2. PICK status \in OpenStatuses \cup {None} :
          status = IF derived = request[i].status THEN None ELSE derived
    OBVIOUS
  <2> DEFINE q == [Start("review") EXCEPT !.row = i, !.doc = d, !.verdict = verdict, !.status = status]
  <2>3. q.op = "review" /\ q.row = i /\ q.status = status
    BY DEF Start, Idle, Turnovers
  <2>4. Begin(r, q) /\ InFlight(i)
    BY <1>9, <2>1, <2>2 DEF BeginReview
  <2> HIDE DEF q
  <2> QED
    BY <1>1, <2>3, <2>4 DEF RowStillRead
<1> QED
  BY <1>3, <1>4, <1>5, <1>6, <1>7, <1>8, <1>9

LEMMA TenantLinked ==
  ASSUME SerialInv
  PROVE  LinkedTenant = role
BY DEF LinkedTenant, SerialInv, Settled, TenancyInv, TypeOK

\* The tenancy on record is looked for and found.
LEMMA OnRecord ==
  ASSUME SerialInv, NEW S, S \subseteq {i \in Requests : Current(i)},
         \A i \in Requests : Current(i) => i \in S
  PROVE  /\ \A i \in Requests : Current(i) => i = OneOf(S)
         /\ OneOf(S) # None => Current(OneOf(S))
<1>1. OneOf(S) = None \/ OneOf(S) \in S
  BY OneOfFacts
<1>2. ASSUME NEW i \in S
      PROVE  OneOf(S) \in S
  BY <1>2 DEF OneOf
<1> QED
  BY <1>1, <1>2 DEF SerialInv, Settled

\* A request is approved.
LEMMA ApproveStillRead ==
  ASSUME OneAtATime, SerialInv, TenancyInv', NEW r \in Reqs, NEW i \in Requests, BeginApprove(r, i)
  PROVE  SerialInv'
<1>1. InFlight(i)
  BY DEF BeginApprove
<1>2. CASE request[i].tenant # None /\ role = request[i].tenant
  <2> DEFINE q == [Start("renew") EXCEPT !.row = i, !.tenant = request[i].tenant]
  <2>1. q.op = "renew" /\ q.row = i /\ q.tenant = request[i].tenant
    BY DEF Start, Idle, Turnovers
  <2>2. Begin(r, q)
    BY <1>2 DEF BeginApprove
  <2> HIDE DEF q
  <2>3. StillRead(q)
    BY <1>1, <1>2, <2>1 DEF StillRead, RowStillRead, TenantStillRead, ScopeOfTurnover,
       ReleaseStillRight, Turnovers
  <2> QED
    BY <2>2, <2>3, SerialContinue DEF Begin
<1>3. CASE ~(request[i].tenant # None /\ role = request[i].tenant)
  <2>1. PICK S : S = {j \in Requests : Current(j)}
    OBVIOUS
  <2>2. PICK old : old = OneOf(S)
    OBVIOUS
  <2> DEFINE q == [Start("approve") EXCEPT !.row = i, !.old = old]
  <2>3. q.op = "approve" /\ q.row = i /\ q.old = old /\ q.scope = "household" /\ q.pc = "release"
    BY DEF Start, Idle, Turnovers
  <2>4. Begin(r, q)
    BY <1>3, <2>1, <2>2 DEF BeginApprove
  <2> HIDE DEF q
  <2>5. EndsAll(q) /\ (q.old # None => Current(q.old))
    BY <2>1, <2>2, <2>3, OnRecord DEF EndsAll
  <2>6. StillRead(q)
    BY <1>1, <2>3, <2>5 DEF StillRead, RowStillRead, TenantStillRead, ScopeOfTurnover,
       ReleaseStillRight
  <2> QED
    BY <2>4, <2>6, SerialContinue DEF Begin
<1> QED
  BY <1>2, <1>3

\* Somebody moves in or out, or is deleted.
LEMMA MoveStillRead ==
  ASSUME OneAtATime, SerialInv, TenancyInv', NEW r \in Reqs, NEW c \in Contacts,
         BeginMoveIn(r, c) \/ BeginMoveOut(r, c) \/ BeginDelete(r, c)
  PROVE  SerialInv'
<1>1. ASSUME NEW q, Begin(r, q), q.pc = "release" \/ q.op \notin Turnovers,
             q.op \in {"move_in", "move_out", "delete", "drop"},
             TenantStillRead(q), ScopeOfTurnover(q)
      PROVE  SerialInv'
  <2>1. RowStillRead(q) /\ ReleaseStillRight(q)
    BY <1>1 DEF RowStillRead, ReleaseStillRight
  <2> QED
    BY <1>1, <2>1, SerialContinue DEF Begin, StillRead
<1>2. CASE BeginMoveIn(r, c)
  <2> DEFINE q == [Start("move_in") EXCEPT !.contact = c]
  <2>1. q.op = "move_in" /\ q.contact = c /\ q.pc = "release" /\ q.keep = owner /\ q.scope = "household"
    BY DEF Start, Idle, Turnovers
  <2>2. Begin(r, q) /\ c \notin deleted /\ owner # None /\ role = None
    BY <1>2 DEF BeginMoveIn
  <2> HIDE DEF q
  <2>3. TenantStillRead(q) /\ ScopeOfTurnover(q)
    BY <2>1, <2>2 DEF TenantStillRead, ScopeOfTurnover
  <2> QED
    BY <1>1, <2>1, <2>2, <2>3
<1>3. CASE BeginMoveOut(r, c)
  <2>1. PICK scope : scope = IF role = c THEN "household" ELSE "single"
    OBVIOUS
  <2> DEFINE q == [Start("move_out") EXCEPT !.contact = c, !.tenant = c, !.scope = scope]
  <2>2. q.op = "move_out" /\ q.contact = c /\ q.tenant = c /\ q.scope = scope /\ q.pc = "release"
    BY DEF Start, Idle, Turnovers
  <2>3. Begin(r, q)
    BY <1>3, <2>1 DEF BeginMoveOut
  <2> HIDE DEF q
  <2>4. TenantStillRead(q) /\ ScopeOfTurnover(q)
    BY <2>1, <2>2, Distinct DEF TenantStillRead, ScopeOfTurnover
  <2> QED
    BY <1>1, <2>2, <2>3, <2>4
<1>4. CASE BeginDelete(r, c) /\ link[c] # "active"
  <2> DEFINE q == [Start("drop") EXCEPT !.contact = c]
  <2>1. q.op = "drop" /\ q.contact = c
    BY DEF Start, Idle, Turnovers
  <2>2. Begin(r, q)
    BY <1>4 DEF BeginDelete
  <2> HIDE DEF q
  <2>3. role # c
    BY <1>4, Distinct DEF SerialInv, Settled
  <2>4. TenantStillRead(q) /\ ScopeOfTurnover(q)
    BY <2>1, <2>3 DEF TenantStillRead, ScopeOfTurnover
  <2> QED
    BY <1>1, <2>1, <2>2, <2>4 DEF Turnovers
<1>5. CASE BeginDelete(r, c) /\ link[c] = "active" /\ \E i \in Requests : Names(i, c)
  <2> DEFINE q == [Start("delete") EXCEPT !.contact = c, !.tenant = c]
  <2>1. q.op = "delete" /\ q.tenant = c /\ q.scope = "household" /\ q.pc = "release"
    BY DEF Start, Idle, Turnovers
  <2>2. Begin(r, q)
    BY <1>5 DEF BeginDelete
  <2> HIDE DEF q
  <2>3. role = c
    BY <1>5 DEF SerialInv, Settled, Names
  <2>4. TenantStillRead(q) /\ ScopeOfTurnover(q)
    BY <2>1, <2>3 DEF TenantStillRead, ScopeOfTurnover
  <2> QED
    BY <1>1, <2>1, <2>2, <2>4
<1>6. CASE BeginDelete(r, c) /\ link[c] = "active" /\ ~\E i \in Requests : Names(i, c)
  <2> DEFINE q == [Start("delete") EXCEPT !.contact = c, !.tenant = LinkedTenant, !.scope = "all"]
  <2>1. q.op = "delete" /\ q.tenant = LinkedTenant /\ q.scope = "all" /\ q.pc = "release"
    BY DEF Start, Idle, Turnovers
  <2>2. Begin(r, q)
    BY <1>6 DEF BeginDelete
  <2> HIDE DEF q
  <2>3. TenantStillRead(q) /\ ScopeOfTurnover(q)
    BY <2>1, TenantLinked DEF TenantStillRead, ScopeOfTurnover
  <2> QED
    BY <1>1, <2>1, <2>2, <2>3
<1> QED
  BY <1>2, <1>3, <1>4, <1>5, <1>6

\* A request is made, a move-out approved or a unit vacated.
LEMMA OthersStillRead ==
  ASSUME OneAtATime, SerialInv, TenancyInv', NEW r \in Reqs,
         BeginCreate(r) \/ BeginVacate(r) \/ \E i \in Requests : BeginApproveMoveOut(r, i)
  PROVE  SerialInv'
<1>1. CASE BeginCreate(r)
  <2>1. Start("create").op = "create"
    BY DEF Start, Idle, Turnovers
  <2> DEFINE q == Start("create")
  <2> HIDE DEF q
  <2>2. StillRead(q)
    BY <2>1 DEF q, StillRead, RowStillRead, TenantStillRead, ScopeOfTurnover, ReleaseStillRight, Turnovers
  <2> QED
    BY <1>1, <2>2, SerialContinue DEF q, BeginCreate, Begin
<1>2. CASE BeginVacate(r)
  <2> DEFINE q == [Start("vacate") EXCEPT !.scope = "all", !.tenant = LinkedTenant]
  <2>1. q.op = "vacate" /\ q.tenant = LinkedTenant /\ q.scope = "all" /\ q.pc = "release"
    BY DEF Start, Idle, Turnovers
  <2>2. Begin(r, q)
    BY <1>2 DEF BeginVacate
  <2> HIDE DEF q
  <2>3. StillRead(q)
    BY <2>1, TenantLinked DEF StillRead, RowStillRead, TenantStillRead, ScopeOfTurnover, ReleaseStillRight
  <2> QED
    BY <2>2, <2>3, SerialContinue DEF Begin
<1>3. ASSUME NEW i \in Requests, BeginApproveMoveOut(r, i)
      PROVE  SerialInv'
  <2> DEFINE q == [Start("approve_move_out") EXCEPT !.old = i]
  <2>1. q.op = "approve_move_out" /\ q.old = i /\ q.scope = "household" /\ q.pc = "release"
    BY DEF Start, Idle, Turnovers
  <2>2. Begin(r, q) /\ MoveOutAsked(i)
    BY <1>3 DEF BeginApproveMoveOut
  <2> HIDE DEF q
  <2>3. Current(i)
    BY <2>2 DEF MoveOutAsked, Current, SerialInv, Settled, Orderly
  <2>4. EndsAll(q)
    BY <2>1, <2>3 DEF EndsAll, SerialInv, Settled
  <2>5. StillRead(q)
    BY <2>1, <2>3, <2>4 DEF StillRead, RowStillRead, TenantStillRead, ScopeOfTurnover, ReleaseStillRight
  <2> QED
    BY <2>2, <2>5, SerialContinue DEF Begin
<1> QED
  BY <1>1, <1>2, <1>3

-----------------------------------------------------------------------------
(* Links are released: the tenancy that ends is the one on record *)

\* The tenancy that a turnover ends, and whom it takes along.
LEMMA EndingRight ==
  ASSUME SerialInv, NEW q \in Transaction, StillRead(q), q.pc = "release", q.op \in Turnovers
  PROVE  IF q.scope = "single" THEN Ending(q) = None
         ELSE /\ \A i \in Requests : Current(i) => i = Ending(q)
              /\ role # None => role \in Leaving(q) /\ Recorded(q) = {}
<1>1. CASE q.scope = "single"
  <2>1. q.op = "move_out" /\ q.tenant = q.contact /\ q.contact # None /\ role # q.contact
    BY <1>1 DEF StillRead, TenantStillRead, ScopeOfTurnover, Turnovers
  <2>2. PICK S : S = {i \in Requests : IF q.tenant = None THEN Current(i) ELSE Names(i, q.tenant)}
    OBVIOUS
  <2>3. S = {}
    BY <2>1, <2>2 DEF Names, SerialInv, Settled
  <2>4. Ending(q) = OneOf(S)
    BY <2>1, <2>2 DEF Ending
  <2> QED
    BY <1>1, <2>3, <2>4 DEF OneOf
<1>2. ASSUME q.op \in {"move_in", "approve", "approve_move_out"}
      PROVE  \A i \in Requests : Current(i) => i = Ending(q)
  <2>1. Ending(q) = q.old
    BY <1>2 DEF Ending
  <2>2. q.op = "move_in" => role = None
    BY DEF StillRead, TenantStillRead
  <2>3. q.op # "move_in" => EndsAll(q)
    BY <1>2 DEF StillRead, TenantStillRead
  <2> QED
    BY <2>1, <2>2, <2>3 DEF EndsAll, SerialInv, Settled
<1>3. ASSUME q.op \in {"move_out", "delete", "vacate"}, q.scope # "single"
      PROVE  q.tenant = role /\ \A i \in Requests : Current(i) => i = Ending(q)
  <2>1. q.tenant = role
    BY <1>3 DEF StillRead, TenantStillRead
  <2>2. PICK S : S = {i \in Requests : IF q.tenant = None THEN Current(i) ELSE Names(i, q.tenant)}
    OBVIOUS
  <2>3. S \subseteq {i \in Requests : Current(i)} /\ \A i \in Requests : Current(i) => i \in S
    BY <2>1, <2>2 DEF Names, SerialInv, Settled
  <2>4. Ending(q) = OneOf(S)
    BY <1>3, <2>2 DEF Ending
  <2> QED
    BY <2>1, <2>3, <2>4, OnRecord
<1>4. ASSUME q.scope # "single", role # None
      PROVE  role \in Leaving(q) /\ Recorded(q) = {}
  <2>1. role \in Contacts /\ link[role] = "active"
    BY <1>4 DEF SerialInv, Settled, TenancyInv, TypeOK
  <2>2. q.keep # role
    BY <2>1, Distinct DEF Transaction
  <2>3. role \in Leaving(q)
    BY <1>4, <2>1, <2>2, Distinct DEF Leaving, OpenLink
  <2>4. q.scope = "all" => q.tenant = role
    BY DEF StillRead, TenantStillRead, ScopeOfTurnover, Turnovers
  <2> QED
    BY <1>4, <2>3, <2>4 DEF Recorded
<1> QED
  BY <1>1, <1>2, <1>3, <1>4 DEF Turnovers

LEMMA ReleaseStillRead ==
  ASSUME OneAtATime, SerialInv, TenancyInv', NEW r \in Reqs, Release(r)
  PROVE  SerialInv'
<1>1. PICK q \in Transaction : q = req[r] /\ ReadSound(q) /\ StillRead(q)
  BY DEF SerialInv, TenancyInv, TypeOK
<1>2. PICK old, leaving, recorded : old = Ending(q) /\ leaving = Leaving(q) /\ recorded = Recorded(q)
  OBVIOUS
<1>3. PICK keep : keep = IF q.op = "vacate" THEN q.keep ELSE None
  OBVIOUS
<1>4. PICK ends \in BOOLEAN : ends = (leaving \ recorded # {})
  OBVIOUS
<1> DEFINE p == [q EXCEPT !.pc = "write", !.rel = leaving \cup recorded, !.old = old,
                          !.ends = ends, !.keep = keep]
<1>5. /\ p.pc = "write" /\ p.op = q.op /\ p.row = q.row /\ p.status = q.status
      /\ p.contact = q.contact /\ p.tenant = q.tenant /\ p.old = old /\ p.scope = q.scope
      /\ p.rel = leaving \cup recorded /\ p.ends = ends
  BY DEF Transaction
<1>6. Continue(r, p) /\ q.pc = "release"
  BY <1>1, <1>2, <1>3, <1>4 DEF Release
<1> HIDE DEF p
<1>7. /\ q.scope = "single" => leaving \cup recorded \subseteq {q.contact}
      /\ q.scope # "all" => recorded = {}
  BY <1>1, <1>2, LeavingFacts DEF SerialInv
<1>8. RowStillRead(p)
  BY <1>1, <1>5 DEF StillRead, RowStillRead
<1>9. ScopeOfTurnover(p)
  BY <1>1, <1>5 DEF StillRead, ScopeOfTurnover
<1>10. ReleaseStillRight(p)
  <2>1. SUFFICES ASSUME q.op \in Turnovers
                 PROVE  IF q.scope = "single" THEN p.rel \subseteq {q.contact} /\ old = None
                        ELSE (\A i \in Requests : Current(i) => i = old) /\ (role = None \/ ends)
    BY <1>5 DEF ReleaseStillRight, EndsAll
  <2> QED
    BY <1>1, <1>2, <1>4, <1>5, <1>6, <1>7, <2>1, EndingRight
<1>11. TenantStillRead(p)
  <2>1. ASSUME q.op = "move_in"
        PROVE  owner \notin leaving \cup recorded
    <3>1. q.keep = owner /\ q.scope = "household"
      BY <1>1, <1>6, <2>1 DEF StillRead, TenantStillRead, ScopeOfTurnover
    <3> QED
      BY <1>2, <1>7, <3>1 DEF Leaving
  <2>2. q.op \in {"approve", "approve_move_out"} => old = q.old
    BY <1>2 DEF Ending
  <2> QED
    BY <1>1, <1>5, <2>1, <2>2 DEF StillRead, TenantStillRead, EndsAll
<1> QED
  BY <1>6, <1>8, <1>9, <1>10, <1>11, SerialContinue DEF StillRead

-----------------------------------------------------------------------------
(* Requests are written: the tenancy on record stays that of the tenant *)

\* The tenancies on record after a step, from those before.
LEMMA StaysSettled ==
  ASSUME SerialInv, UNCHANGED <<link, primary, role, owner, deleted>>, Orderly(request'),
         \A i \in Requests : Current(i)' => Current(i) /\ request'[i].tenant = request[i].tenant
  PROVE  Settled'
BY DEF SerialInv, Settled, Orderly, Current

\* Owners and reviewers write to requests that are open, or put a tenancy under review.
LEMMA PaperSettles ==
  ASSUME OneAtATime, SerialInv, TenancyInv', NEW r \in Reqs, WriteRequest(r)
  PROVE  SerialInv'
<1>1. PICK q \in Transaction : q = req[r] /\ ReadSound(q) /\ StillRead(q)
  BY DEF SerialInv, TenancyInv, TypeOK
<1>2. Done(r) /\ UNCHANGED <<link, primary, role, owner, deleted>>
  BY DEF WriteRequest
<1>3. request \in [Requests -> Row \cup {None}] /\ q.row \in Requests \cup {None}
  BY DEF SerialInv, TenancyInv, TypeOK, Transaction
<1>4. ASSUME NEW i \in Requests, NEW row, request' = [request EXCEPT ![i] = row],
             ~row.ended, row.status # "approved"
      PROVE  SerialInv'
  <2>2. request'[i] = row /\ \A j \in Requests \ {i} : request'[j] = request[j]
    BY <1>3, <1>4
  <2>3. Orderly(request')
    BY <1>4, <2>2 DEF Orderly, SerialInv, Settled
  <2>4. \A j \in Requests : Current(j)' => Current(j) /\ request'[j].tenant = request[j].tenant
    BY <1>4, <2>2 DEF Current
  <2>5. Settled'
    BY <1>2, <2>3, <2>4, StaysSettled
  <2> QED
    BY <1>2, <2>5, SerialCommit
<1>5. q.op \in {"cancel", "review", "refresh"} =>
        /\ q.row \in Requests /\ request[q.row] \in Row /\ ~request[q.row].ended
        /\ request[q.row].status \in OpenStatuses
  BY <1>1, <1>3, Distinct DEF StillRead, RowStillRead, ReadSound, InFlight, SerialInv, Settled, Orderly,
     OpenStatuses
<1>6. CASE Writes(r, {"create"})
  <2>1. PICK i \in Requests : request' = [request EXCEPT ![i] = NewRow(Derived(Pending), None, Pending)]
    BY <1>1, <1>6 DEF WriteRequest, Writes
  <2>2. PICK row : row = NewRow(Derived(Pending), None, Pending)
    OBVIOUS
  <2>3. Derived(Pending) \in OpenStatuses
    BY DEF Derived, OpenStatuses
  <2>4. ~row.ended /\ row.status # "approved"
    BY <2>2, <2>3 DEF NewRow, OpenStatuses
  <2> QED
    BY <1>4, <2>1, <2>2, <2>4
<1>7. CASE Writes(r, {"cancel"})
  <2>1. request' = [request EXCEPT ![q.row].status = "cancelled"] /\ q.op = "cancel"
    BY <1>1, <1>7 DEF WriteRequest, Writes
  <2>2. PICK row : row = [request[q.row] EXCEPT !.status = "cancelled"]
    OBVIOUS
  <2>3. ~row.ended /\ row.status # "approved"
    BY <1>5, <2>1, <2>2 DEF Row
  <2>4. request' = [request EXCEPT ![q.row] = row]
    BY <2>1, <2>2
  <2> QED
    BY <1>4, <1>5, <2>1, <2>3, <2>4
<1>8. CASE Writes(r, {"review"})
  <2>1. /\ request' = [request EXCEPT ![q.row].docs[q.doc] = q.verdict, ![q.row].status = Header(q, @)]
        /\ q.op = "review"
    BY <1>1, <1>8 DEF WriteRequest, Writes
  <2>2. PICK status : status = Header(q, request[q.row].status)
    OBVIOUS
  <2>3. status \in OpenStatuses
    BY <1>1, <1>5, <2>1, <2>2 DEF Header, StillRead, RowStillRead
  <2>4. PICK docs : docs = [request[q.row].docs EXCEPT ![q.doc] = q.verdict]
    OBVIOUS
  <2>5. PICK row : row = [request[q.row] EXCEPT !.docs = docs, !.status = status]
    OBVIOUS
  <2>6. ~row.ended /\ row.status # "approved"
    BY <1>5, <2>1, <2>3, <2>5 DEF Row, OpenStatuses
  <2>7. request' = [request EXCEPT ![q.row] = row]
    BY <1>3, <1>5, <2>1, <2>2, <2>4, <2>5 DEF Row
  <2> QED
    BY <1>4, <1>5, <2>1, <2>6, <2>7
<1>9. CASE Writes(r, {"refresh"})
  <2>1. request' = [request EXCEPT ![q.row].status = q.status] /\ q.op = "refresh"
    BY <1>1, <1>9 DEF WriteRequest, Writes
  <2>2. PICK row : row = [request[q.row] EXCEPT !.status = q.status]
    OBVIOUS
  <2>3. q.status \in OpenStatuses
    BY <1>1, <2>1 DEF StillRead, RowStillRead, ReadSound
  <2>4. ~row.ended /\ row.status # "approved"
    BY <1>5, <2>1, <2>2, <2>3 DEF Row, OpenStatuses
  <2>5. request' = [request EXCEPT ![q.row] = row]
    BY <2>1, <2>2
  <2> QED
    BY <1>4, <1>5, <2>1, <2>4, <2>5
<1>10. CASE Writes(r, {"resubmit"})
  <2> PICK given \in SUBSET Docs :
        LET docs == Reset(request[q.row].docs, given)
        IN request' = [request EXCEPT ![q.row].docs = docs, ![q.row].status = Derived(docs)]
    BY <1>1, <1>10 DEF WriteRequest, Writes
  <2>1. PICK docs : docs = Reset(request[q.row].docs, given)
    OBVIOUS
  <2>2. PICK status \in OpenStatuses : status = Derived(docs)
    BY DEF Derived, OpenStatuses
  <2>3. request' = [request EXCEPT ![q.row].docs = docs, ![q.row].status = status] /\ q.op = "resubmit"
    BY <1>1, <1>10, <2>1, <2>2 DEF WriteRequest, Writes
  <2>4. PICK row : row = [request[q.row] EXCEPT !.docs = docs, !.status = status]
    OBVIOUS
  <2>5. q.row \in Requests /\ request[q.row] \in Row /\ ~request[q.row].ended
    BY <1>1, <1>3, <2>3 DEF StillRead, RowStillRead, ReadSound, Current
  <2>6. ~row.ended /\ row.status # "approved"
    BY <2>2, <2>4, <2>5 DEF Row, OpenStatuses
  <2>7. request' = [request EXCEPT ![q.row] = row]
    BY <1>3, <2>3, <2>4, <2>5 DEF Row
  <2> QED
    BY <1>4, <2>5, <2>6, <2>7
<1> QED
  BY <1>1, <1>6, <1>7, <1>8, <1>9, <1>10 DEF WriteRequest

\* A tenancy is renewed, asked to end, or not to.
LEMMA TenancySettles ==
  ASSUME OneAtATime, SerialInv, TenancyInv', NEW r \in Reqs, Renew(r) \/ Ask(r) \/ RejectMoveOut(r)
  PROVE  SerialInv'
<1>1. PICK q \in Transaction : q = req[r] /\ ReadSound(q) /\ StillRead(q)
  BY DEF SerialInv, TenancyInv, TypeOK
<1>2. Done(r) /\ UNCHANGED <<link, primary, role, owner, deleted>>
  BY DEF Renew, Ask, RejectMoveOut
<1>3. request \in [Requests -> Row \cup {None}] /\ q.row \in Requests \cup {None}
  BY DEF SerialInv, TenancyInv, TypeOK, Transaction
<1>4. /\ q.op \in {"renew", "ask", "reject_move_out"}
      /\ q.row \in Requests /\ request[q.row] \in Row
  BY <1>1, <1>3 DEF Renew, Ask, RejectMoveOut, Writes, ReadSound
<1>5. CASE Renew(r)
  <2>1. request' = [request EXCEPT ![q.row].status = "approved", ![q.row].tenant = q.tenant]
        /\ q.op = "renew" /\ Unique'
    BY <1>1, <1>5 DEF Renew, Writes
  <2>2. InFlight(q.row) /\ q.tenant = role /\ q.tenant # None
    BY <1>1, <2>1 DEF StillRead, RowStillRead, TenantStillRead, ReadSound
  <2>3. ~request[q.row].ended
    BY <1>4, <2>2 DEF InFlight, OpenStatuses, SerialInv, Settled, Orderly
  <2>4. PICK row : row = [request[q.row] EXCEPT !.status = "approved", !.tenant = q.tenant]
    OBVIOUS
  <2>5. ~row.ended /\ row.tenant = q.tenant
    BY <1>4, <2>3, <2>4 DEF Row
  <2>6. request' = [request EXCEPT ![q.row] = row]
    BY <1>3, <1>4, <2>1, <2>4 DEF Row
  <2>7. request'[q.row] = row /\ \A j \in Requests \ {q.row} : request'[j] = request[j]
    BY <1>3, <1>4, <2>6
  <2>8. Orderly(request')
    BY <2>5, <2>7 DEF Orderly, SerialInv, Settled
  <2>9. \A j \in Requests : Current(j)' => role # None /\ request'[j].tenant = role
    BY <2>2, <2>5, <2>7 DEF Current, SerialInv, Settled
  <2>10. Settled'
    BY <1>2, <2>1, <2>8, <2>9 DEF Settled, Unique, SerialInv
  <2> QED
    BY <1>2, <2>10, SerialCommit
<1>6. ASSUME NEW asked, NEW status, status = request[q.row].status,
             request' = [request EXCEPT ![q.row].status = status, ![q.row].asked = asked]
      PROVE  SerialInv'
  <2>1. PICK row : row = [request[q.row] EXCEPT !.status = status, !.asked = asked]
    OBVIOUS
  <2>2. /\ row.ended = request[q.row].ended /\ row.tenant = request[q.row].tenant
        /\ row.status = request[q.row].status
    BY <1>4, <1>6, <2>1 DEF Row
  <2>3. request' = [request EXCEPT ![q.row] = row]
    BY <1>3, <1>4, <1>6, <2>1 DEF Row
  <2>4. request'[q.row] = row /\ \A j \in Requests \ {q.row} : request'[j] = request[j]
    BY <1>3, <1>4, <2>3
  <2>5. Orderly(request')
    BY <1>4, <2>2, <2>4, Distinct DEF Orderly, SerialInv, Settled
  <2>6. \A j \in Requests : Current(j)' => Current(j) /\ request'[j].tenant = request[j].tenant
    BY <1>4, <2>2, <2>4, Distinct DEF Current
  <2> QED
    BY <1>2, <2>5, <2>6, StaysSettled, SerialCommit
<1>7. CASE Ask(r)
  <2>1. request' = [request EXCEPT ![q.row].asked = @ \/ Current(q.row)]
    BY <1>1, <1>7 DEF Ask
  <2>2. PICK asked : asked = (request[q.row].asked \/ Current(q.row))
    OBVIOUS
  <2>3. PICK status : status = request[q.row].status
    OBVIOUS
  <2>4. [request[q.row] EXCEPT !.asked = asked] = [request[q.row] EXCEPT !.status = status, !.asked = asked]
    BY <1>4, <2>3 DEF Row
  <2>5. request' = [request EXCEPT ![q.row].status = status, ![q.row].asked = asked]
    BY <1>3, <1>4, <2>1, <2>2, <2>4
  <2> QED
    BY <1>6, <2>3, <2>5
<1>8. CASE RejectMoveOut(r)
  <2>1. request' = [request EXCEPT ![q.row].status = "approved", ![q.row].asked = FALSE]
        /\ q.op = "reject_move_out"
    BY <1>1, <1>8 DEF RejectMoveOut, Writes
  <2>2. request[q.row].status = "approved"
    BY <1>1, <2>1 DEF StillRead, RowStillRead, MoveOutAsked
  <2> QED
    BY <1>6, <2>1, <2>2
<1> QED
  BY <1>5, <1>7, <1>8

-----------------------------------------------------------------------------
(* Turnovers commit: the role and the tenancy on record end together *)

\* No request is a tenancy on record.
Vacant(rows) ==
  \A i \in Requests : ~(rows[i] # None /\ rows[i].status = "approved" /\ ~rows[i].ended)

LEMMA EndedVacates ==
  ASSUME SerialInv, NEW old \in Requests \cup {None}, old # None => request[old] # None,
         \A i \in Requests : Current(i) => i = old
  PROVE  /\ Vacant(Ended(old)) /\ Orderly(Ended(old))
         /\ Vacant(MovedOut(old)) /\ Orderly(MovedOut(old))
<1>1. ASSUME NEW rows, NEW row, row.status = "superseded",
             \A i \in Requests : rows[i] = IF i = old THEN row ELSE request[i]
      PROVE  Vacant(rows) /\ Orderly(rows)
  <2>1. Vacant(rows)
    BY <1>1 DEF Vacant, Current
  <2>2. Orderly(rows)
    BY <1>1 DEF Orderly, SerialInv, Settled
  <2> QED
    BY <2>1, <2>2
<1>2. CASE old = None
  <2>1. /\ \A i \in Requests : Ended(old)[i] = request[i]
        /\ \A i \in Requests : MovedOut(old)[i] = request[i]
    BY <1>2, Distinct DEF Ended, MovedOut
  <2>2. \A i \in Requests : ~Current(i)
    BY <1>2, Distinct
  <2> QED
    BY <2>1, <2>2 DEF Vacant, Orderly, Current, SerialInv, Settled
<1>3. CASE old # None
  <2>1. request[old] \in Row
    BY <1>3 DEF SerialInv, TenancyInv, TypeOK
  <2>2. PICK ended, moved : /\ ended = Superseded(request[old])
                            /\ moved = [Superseded(request[old]) EXCEPT !.asked = FALSE]
    OBVIOUS
  <2>3. ended.status = "superseded" /\ moved.status = "superseded"
    BY <2>1, <2>2 DEF Superseded, Row
  <2>4. /\ \A i \in Requests : Ended(old)[i] = IF i = old THEN ended ELSE request[i]
        /\ \A i \in Requests : MovedOut(old)[i] = IF i = old THEN moved ELSE request[i]
    BY <2>2 DEF Ended, MovedOut
  <2>5. PICK after, left : after = Ended(old) /\ left = MovedOut(old)
    OBVIOUS
  <2> QED
    BY <1>1, <2>3, <2>4, <2>5
<1> QED
  BY <1>2, <1>3

\* After a turnover that ends the role nothing is left to say.
LEMMA VacancySettles ==
  ASSUME OneAtATime, SerialInv, TenancyInv', NEW r \in Reqs, Done(r), role' = None,
         Vacant(request'), Orderly(request')
  PROVE  SerialInv'
<1>1. Settled'
  BY DEF Settled, Vacant, Orderly, Current
<1> QED
  BY <1>1, SerialCommit

\* What a turnover that has released its links will find.
LEMMA TurnoverFinds ==
  ASSUME SerialInv, NEW r \in Reqs, req[r].pc = "write", req[r].op \in Turnovers,
         req[r].scope # "single"
  PROVE  LET q == req[r] IN
         /\ RoleAfter(q) = None
         /\ Vacant(Ended(q.old)) /\ Orderly(Ended(q.old))
         /\ Vacant(MovedOut(q.old)) /\ Orderly(MovedOut(q.old))
         /\ Vacant(Vacated(q)) /\ Orderly(Vacated(q))
<1>1. PICK q \in Transaction : q = req[r] /\ ReadSound(q) /\ StillRead(q)
  BY DEF SerialInv, TenancyInv, TypeOK
<1>2. EndsAll(q) /\ (role = None \/ q.ends)
  BY <1>1 DEF StillRead, ReleaseStillRight
<1>3. RoleAfter(q) = None
  BY <1>1, <1>2 DEF RoleAfter
<1>4. q.old \in Requests \cup {None} /\ (q.old # None => request[q.old] # None)
  BY <1>1 DEF Transaction, ReadSound
<1>5. /\ Vacant(Ended(q.old)) /\ Orderly(Ended(q.old))
      /\ Vacant(MovedOut(q.old)) /\ Orderly(MovedOut(q.old))
  BY <1>2, <1>4, EndedVacates DEF EndsAll
<1> QED
  BY <1>1, <1>3, <1>5 DEF Vacated

\* Somebody else than the tenant leaves.
LEMMA OthersLeave ==
  ASSUME SerialInv, UNCHANGED <<role, owner, primary>>,
         \A i \in Requests : request'[i] = request[i],
         role # None => link'[role] = link[role] /\ role \notin deleted'
  PROVE  Settled'
BY DEF SerialInv, Settled, Orderly, Current

LEMMA MoveOutSettles ==
  ASSUME OneAtATime, SerialInv, TenancyInv', NEW r \in Reqs, MoveOut(r)
  PROVE  SerialInv'
<1>1. PICK q \in Transaction : q = req[r] /\ ReadSound(q) /\ StillRead(q)
  BY DEF SerialInv, TenancyInv, TypeOK
<1>2. /\ request' = MovedOut(q.old) /\ link' = LinkAfter(q) /\ role' = RoleAfter(q)
      /\ owner' = OwnerAfter(q) /\ Done(r) /\ UNCHANGED <<primary, deleted>>
      /\ q.pc = "write" /\ q.op \in Turnovers /\ q.op \in {"move_out", "approve_move_out"}
  BY <1>1 DEF MoveOut, Writes, Turnovers
<1>3. CASE q.scope = "single"
  <2>1. q.rel \subseteq {q.contact} /\ q.old = None
    BY <1>1, <1>2, <1>3 DEF StillRead, ReleaseStillRight
  <2>2. q.contact # None /\ role # q.contact
    BY <1>1, <1>2, <1>3 DEF StillRead, TenantStillRead, ScopeOfTurnover
  <2>3. \A i \in Requests : request'[i] = request[i]
    BY <1>2, <2>1, Distinct DEF MovedOut
  <2>4. q.contact \in Contacts
    BY <2>2 DEF Transaction
  <2>5. role' = role
    BY <1>2, <1>3, <2>2 DEF RoleAfter
  <2>6. owner' = owner
    BY <1>2, <2>1, <2>4, Distinct DEF OwnerAfter, SerialInv, TenancyInv, TypeOK
  <2>7. role # None => link'[role] = link[role] /\ role \notin deleted'
    BY <1>2, <2>1, <2>2 DEF LinkAfter, SerialInv, Settled, TenancyInv, TypeOK
  <2>8. Settled'
    BY <1>2, <2>3, <2>5, <2>6, <2>7, OthersLeave
  <2> QED
    BY <1>2, <2>8, SerialCommit
<1>4. CASE q.scope # "single"
  <2>1. RoleAfter(q) = None /\ Vacant(MovedOut(q.old)) /\ Orderly(MovedOut(q.old))
    BY <1>1, <1>2, <1>4, TurnoverFinds
  <2> QED
    BY <1>2, <2>1, VacancySettles
<1> QED
  BY <1>3, <1>4

LEMMA VacateSettles ==
  ASSUME OneAtATime, SerialInv, TenancyInv', NEW r \in Reqs,
         Unassign(r) \/ Reassign(r) \/ DeleteOwner(r) \/ Delete(r)
  PROVE  SerialInv'
<1>1. PICK q \in Transaction : q = req[r] /\ ReadSound(q) /\ StillRead(q)
  BY DEF SerialInv, TenancyInv, TypeOK
<1>2. /\ role' \in {None, RoleAfter(q)} /\ Done(r)
      /\ q.pc = "write" /\ q.op \in {"vacate", "delete"}
  BY <1>1 DEF Unassign, Reassign, DeleteOwner, Delete, Writes
<1>3. q.op \in Turnovers /\ q.scope # "single"
  BY <1>1, <1>2 DEF Turnovers, StillRead, ScopeOfTurnover
<1>4. /\ RoleAfter(q) = None
      /\ Vacant(Ended(q.old)) /\ Orderly(Ended(q.old))
      /\ Vacant(Vacated(q)) /\ Orderly(Vacated(q))
  BY <1>1, <1>2, <1>3, TurnoverFinds
<1>5. CASE request' \in {Vacated(q), Ended(q.old)}
  BY <1>2, <1>4, <1>5, VacancySettles
<1>6. CASE DeleteOwner(r)
  <2>1. PICK rows : rows = Vacated(q) /\ SameRows(rows)
    BY <1>1, VacatedRows DEF SerialInv
  <2>2. PICK cancelled :
          /\ cancelled = {} \/ cancelled = {i \in Requests : rows[i] # None /\ rows[i].status \in OpenStatuses}
          /\ request' = [i \in Requests |-> IF i \in cancelled THEN [rows[i] EXCEPT !.status = "cancelled"]
                                            ELSE rows[i]]
    BY <1>1, <1>6, <2>1 DEF DeleteOwner
  <2>3. ASSUME NEW i \in Requests
        PROVE  \/ request'[i] = rows[i]
               \/ ~request'[i].ended /\ request'[i].status = "cancelled"
    <3>1. CASE i \notin cancelled
      BY <2>2, <3>1
    <3>2. CASE i \in cancelled
      <4>1. rows[i] \in Row /\ ~rows[i].ended
        BY <1>4, <2>1, <2>2, <3>2 DEF SameRows, Orderly, OpenStatuses
      <4>2. request'[i] = [rows[i] EXCEPT !.status = "cancelled"]
        BY <2>2, <3>2
      <4> QED
        BY <4>1, <4>2 DEF Row
    <3> QED
      BY <3>1, <3>2
  <2>4. Vacant(request') /\ Orderly(request')
    BY <1>4, <2>1, <2>3 DEF Vacant, Orderly
  <2> QED
    BY <1>2, <1>4, <2>4, VacancySettles
<1> QED
  BY <1>1, <1>5, <1>6 DEF Unassign, Reassign, Delete

\* A contact without an open link is not the tenant.
LEMMA DropSettles ==
  ASSUME OneAtATime, SerialInv, TenancyInv', NEW r \in Reqs, Drop(r)
  PROVE  SerialInv'
<1>1. PICK q \in Transaction : q = req[r] /\ ReadSound(q) /\ StillRead(q)
  BY DEF SerialInv, TenancyInv, TypeOK
<1>2. /\ q.op = "drop" /\ Done(r) /\ UNCHANGED <<primary, role, owner>>
      /\ request' = Ended(OneOf({i \in Requests : Names(i, q.contact)}))
      /\ link' = [link EXCEPT ![q.contact] = IF @ = None THEN None ELSE "moved_out"]
      /\ deleted' = deleted \cup {q.contact}
  BY <1>1 DEF Drop, Writes
<1>3. role # q.contact /\ q.contact \in Contacts
  BY <1>1, <1>2 DEF StillRead, TenantStillRead, ReadSound, Transaction
<1>4. {i \in Requests : Names(i, q.contact)} = {}
  BY <1>3 DEF Names, SerialInv, Settled
<1>5. \A i \in Requests : request'[i] = request[i]
  BY <1>2, <1>4, Distinct DEF OneOf, Ended
<1>6. role # None => link'[role] = link[role] /\ role \notin deleted'
  BY <1>2, <1>3 DEF SerialInv, Settled, TenancyInv, TypeOK
<1> QED
  BY <1>2, <1>5, <1>6, OthersLeave, SerialCommit

-----------------------------------------------------------------------------
(* Tenants come: the tenancy on record is theirs *)

\* The new holder of the role has the only tenancy on record, if there is one.
LEMMA TenantSettles ==
  ASSUME OneAtATime, SerialInv, TenancyInv', NEW r \in Reqs, Done(r), Unique', Orderly(request'),
         role' \notin deleted', link'[role'] = "active", owner' = None => role' \in primary',
         role' # None, \A i \in Requests : Current(i)' => request'[i].tenant = role'
  PROVE  SerialInv'
<1>1. Settled'
  BY DEF Settled, Unique
<1> QED
  BY <1>1, SerialCommit

LEMMA MoveInSettles ==
  ASSUME OneAtATime, SerialInv, TenancyInv', NEW r \in Reqs, MoveIn(r)
  PROVE  SerialInv'
<1>1. PICK q \in Transaction : q = req[r] /\ ReadSound(q) /\ StillRead(q)
  BY DEF SerialInv, TenancyInv, TypeOK
<1>2. /\ q.op = "move_in" /\ q.pc = "write" /\ Done(r) /\ Unique' /\ UNCHANGED <<primary, deleted>>
      /\ link' = [LinkAfter(q) EXCEPT ![q.contact] = "active"]
      /\ role' = q.contact /\ owner' = OwnerAfter(q) /\ SyncMoveIn(q)
  BY <1>1 DEF MoveIn, Writes
<1>3. /\ role = None /\ owner # None /\ q.contact \notin deleted /\ owner \notin q.rel
      /\ q.contact \in Contacts
  BY <1>1, <1>2 DEF StillRead, TenantStillRead, ReadSound, Transaction
<1>4. role' # None /\ role' \notin deleted' /\ link'[role'] = "active" /\ owner' # None
  BY <1>2, <1>3, Distinct DEF LinkAfter, OwnerAfter
<1>5. \A i \in Requests : ~Current(i)
  BY <1>3 DEF SerialInv, Settled
<1>6. request \in [Requests -> Row \cup {None}]
  BY DEF SerialInv, TenancyInv, TypeOK
<1>7. ASSUME NEW i \in Requests, NEW row, request' = [request EXCEPT ![i] = row], ~row.ended,
             row.tenant = q.contact
      PROVE  SerialInv'
  <2>1. request'[i] = row /\ \A j \in Requests \ {i} : request'[j] = request[j]
    BY <1>6, <1>7
  <2>2. Orderly(request')
    BY <1>7, <2>1 DEF Orderly, SerialInv, Settled
  <2>3. \A j \in Requests : Current(j)' => request'[j].tenant = role'
    BY <1>2, <1>5, <1>7, <2>1 DEF Current
  <2> QED
    BY <1>2, <1>4, <2>2, <2>3, TenantSettles
<1>8. CASE UNCHANGED request
  <2>1. Orderly(request') /\ \A j \in Requests : ~Current(j)'
    BY <1>5, <1>8 DEF Orderly, SerialInv, Settled, Current
  <2> QED
    BY <1>2, <1>4, <2>1, TenantSettles
<1>9. ASSUME NEW i \in Requests, InFlight(i),
             request' = [request EXCEPT ![i].status = "approved", ![i].tenant = q.contact]
      PROVE  SerialInv'
  <2>1. request[i] \in Row /\ ~request[i].ended
    BY <1>6, <1>9 DEF InFlight, OpenStatuses, SerialInv, Settled, Orderly
  <2>2. PICK row : row = [request[i] EXCEPT !.status = "approved", !.tenant = q.contact]
    OBVIOUS
  <2>3. ~row.ended /\ row.tenant = q.contact
    BY <2>1, <2>2 DEF Row
  <2>4. request' = [request EXCEPT ![i] = row]
    BY <1>6, <1>9, <2>1, <2>2 DEF Row
  <2> QED
    BY <1>7, <2>3, <2>4
<1>10. ASSUME NEW i \in Requests,
              request' = [request EXCEPT ![i] = NewRow("approved", q.contact, [d \in Docs |-> None])]
       PROVE  SerialInv'
  <2>1. PICK row : row = NewRow("approved", q.contact, [d \in Docs |-> None])
    OBVIOUS
  <2>2. ~row.ended /\ row.tenant = q.contact
    BY <2>1 DEF NewRow
  <2> QED
    BY <1>7, <1>10, <2>1, <2>2
<1> QED
  BY <1>2, <1>8, <1>9, <1>10 DEF SyncMoveIn

LEMMA ProvisionSettles ==
  ASSUME OneAtATime, SerialInv, TenancyInv', NEW r \in Reqs, Provision(r)
  PROVE  SerialInv'
<1>1. PICK q \in Transaction : q = req[r] /\ ReadSound(q) /\ StillRead(q)
  BY DEF SerialInv, TenancyInv, TypeOK
<1>2. PICK c \in Contacts :
        /\ New(c)
        /\ request' = [Ended(q.old) EXCEPT ![q.row].status = "approved", ![q.row].tenant = c]
        /\ link' = [LinkAfter(q) EXCEPT ![c] = "active"]
        /\ primary' = {c} \cup {d \in primary : LinkAfter(q)[d] # "active"}
        /\ role' = c
  BY <1>1 DEF Provision
<1>3. q.op = "approve" /\ Done(r) /\ UNCHANGED deleted /\ Unique'
  BY <1>1 DEF Provision, Writes
<1>4. /\ role' # None /\ role' \notin deleted' /\ role' \in primary' /\ link'[role'] = "active"
  BY <1>2, <1>3, Distinct DEF New, LinkAfter
<1>5. /\ InFlight(q.row) /\ EndsAll(q) /\ (q.old # None => Current(q.old))
      /\ q.row \in Requests /\ q.old \in Requests \cup {None}
  BY <1>1, <1>3 DEF StillRead, RowStillRead, TenantStillRead, ReadSound, Transaction
<1>6. PICK rows : rows = Ended(q.old) /\ SameRows(rows)
  BY <1>1, VacatedRows DEF SerialInv
<1>7. Vacant(rows) /\ Orderly(rows)
  BY <1>5, <1>6, EndedVacates DEF EndsAll, Current
<1>8. q.row # q.old
  BY <1>5, Distinct DEF InFlight, Current, OpenStatuses
<1>9. rows[q.row] = request[q.row] /\ rows[q.row] \in Row /\ ~rows[q.row].ended
  <2>1. rows[q.row] = request[q.row]
    BY <1>5, <1>6, <1>8 DEF Ended
  <2> QED
    BY <1>5, <1>6, <2>1 DEF SameRows, InFlight, OpenStatuses, SerialInv, Settled, Orderly
<1>10. PICK row : row = [rows[q.row] EXCEPT !.status = "approved", !.tenant = c]
  OBVIOUS
<1>11. ~row.ended /\ row.tenant = c
  BY <1>9, <1>10 DEF Row
<1>12. request' = [rows EXCEPT ![q.row] = row]
  BY <1>2, <1>6, <1>9, <1>10 DEF Row, SameRows
<1>13. request'[q.row] = row /\ \A j \in Requests \ {q.row} : request'[j] = rows[j]
  BY <1>5, <1>6, <1>12 DEF SameRows
<1>14. Orderly(request')
  BY <1>7, <1>11, <1>13 DEF Orderly
<1>15. \A j \in Requests : Current(j)' => request'[j].tenant = role'
  BY <1>2, <1>7, <1>11, <1>13 DEF Current, Vacant
<1> QED
  BY <1>3, <1>4, <1>14, <1>15, TenantSettles

-----------------------------------------------------------------------------
(* Allotments and reactivated links come in between *)

\* What a transaction has read does not depend on links, and on the owner only if it moves
\* somebody in.
LEMMA BetweenSettles ==
  ASSUME SerialInv, TenancyInv', Settled', UNCHANGED <<request, role, deleted, req>>,
         owner' = owner \/ owner = None
  PROVE  SerialInv'
<1>1. ASSUME NEW r \in Reqs
      PROVE  StillRead(req[r])'
  <2>1. PICK q : q = req[r] /\ q = req'[r]
    OBVIOUS
  <2>2. StillRead(q)
    BY <2>1 DEF SerialInv
  <2>3. RowStillRead(q)'
    BY <2>2 DEF StillRead, RowStillRead, InFlight, Current, MoveOutAsked
  <2>4. TenantStillRead(q)'
    BY <2>2 DEF StillRead, TenantStillRead, EndsAll, Current
  <2>5. ScopeOfTurnover(q)' /\ ReleaseStillRight(q)'
    BY <2>2 DEF StillRead, ScopeOfTurnover, ReleaseStillRight, EndsAll, Current
  <2> QED
    BY <2>1, <2>3, <2>4, <2>5 DEF StillRead, RowStillRead, TenantStillRead, ScopeOfTurnover,
       ReleaseStillRight, EndsAll
<1> QED
  BY <1>1 DEF SerialInv

\* A unit is allotted only without a primary occupant, so without a tenant.
LEMMA AllotSettles ==
  ASSUME SerialInv, TenancyInv', Allot
  PROVE  SerialInv'
<1>1. role = None /\ role' = None
  BY DEF Allot, Allottable, SerialInv, Settled
<1>2. Settled'
  BY <1>1 DEF Allot, SerialInv, Settled, Orderly, Current
<1> QED
  BY <1>1, <1>2, BetweenSettles DEF Allot

LEMMA ReactivateSettles ==
  ASSUME SerialInv, TenancyInv', NEW c \in Contacts, Reactivate(c)
  PROVE  SerialInv'
<1>1. role # None => link'[role] = "active"
  BY DEF Reactivate, SerialInv, Settled, TenancyInv, TypeOK
<1>2. Settled'
  BY <1>1 DEF Reactivate, SerialInv, Settled, Orderly, Current
<1> QED
  BY <1>2, BetweenSettles DEF Reactivate

-----------------------------------------------------------------------------
LEMMA SerialStep ==
  ASSUME OneAtATime, SerialInv, [Next]_vars
  PROVE  SerialInv'
<1>1. TenancyInv'
  BY StepKeeps DEF SerialInv
<1>2. ASSUME NEW r \in Reqs, Begins(r)
      PROVE  SerialInv'
  BY <1>1, <1>2, PaperStillRead, ApproveStillRead, MoveStillRead, OthersStillRead DEF Begins
<1>3. ASSUME NEW r \in Reqs, Continued(r)
      PROVE  SerialInv'
  BY <1>1, <1>3, ReleaseStillRead, PaperSettles, TenancySettles, ProvisionSettles, MoveInSettles,
     MoveOutSettles, VacateSettles, DropSettles DEF Continued
<1>4. ASSUME NEW r \in Reqs, Abort(r)
      PROVE  SerialInv'
  <2>1. Idle.op = None
    BY DEF Idle
  <2> QED
    BY <1>1, <1>4, <2>1, IdleStillRead, SerialContinue DEF Abort
<1>5. CASE UNCHANGED vars
  <2>1. UNCHANGED <<request, link, primary, role, owner, deleted, req>>
    BY <1>5 DEF vars
  <2>2. Settled'
    BY <2>1 DEF SerialInv, Settled, Orderly, Current
  <2> QED
    BY <1>1, <2>1, <2>2, BetweenSettles
<1> QED
  BY <1>1, <1>2, <1>3, <1>4, <1>5, AllotSettles, ReactivateSettles DEF Next

\* When transactions do not overlap, the tenant of the tenancy on record lives in the unit and
\* has the role, after any sequence of requests, moves, deletions and changes of the owner.
THEOREM TenancyOnRecordIsLived ==
  ASSUME OneAtATime
  PROVE  Spec => []TenancyIsLived
<1>1. Init => SerialInv
  <2> SUFFICES ASSUME Init PROVE SerialInv
    OBVIOUS
  <2>1. TenancyInv
    BY InitEstablishes
  <2>2. Settled
    BY DEF Init, Settled, Orderly, Current
  <2>3. \A r \in Reqs : req[r].op = None
    BY DEF Init, Idle
  <2> QED
    BY <2>1, <2>2, <2>3, IdleStillRead DEF SerialInv
<1>2. SerialInv /\ [Next]_vars => SerialInv'
  BY SerialStep
<1>3. SerialInv => TenancyIsLived
  BY DEF SerialInv, Settled, TenancyIsLived
<1> QED
  BY <1>1, <1>2, <1>3, PTL DEF Spec

=============================================================================
