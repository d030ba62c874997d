------------------------ MODULE FacilityLedgerProofs ------------------------
(***************************************************************************)
(* Proofs about the ledger of FacilityReservations: what a booking is      *)
(* charged and what refunds may return, for any number of reservations,    *)
(* requests, prices and configurations.                                    *)
(***************************************************************************)
EXTENDS FacilityReservationsProofs

-----------------------------------------------------------------------------
(* The inductive invariant *)

PaidBefore(i) == IF rows[i].from = None THEN 0 ELSE Paid(rows[i].from)

\* Nothing is posted to a reservation that does not exist.
LedgerStarts == \A i \in Ids : rows[i] = NoRow => ledger[i] = NothingPosted

\* While a booking is active, all that was refunded on it is what its move gave back.
ActiveCovered == \A i \in Active : -ledger[i].refund <= PaidBefore(i)

\* What a cancellation or a no-show has read is still paid when it is refunded.
ReadsPaid ==
  \A r \in Reqs :
    req[r].pc \in {"no_show", "cancel"} =>
      req[r].paid \in Nat /\ req[r].paid <= Paid(req[r].id)

\* A quote accepted without approval leaves nothing for the check-in.
Quoted(row) == row.status = "confirmed" /\ ~row.submitted => row.quote.dueLater = 0

\* What a booking that was never moved has been charged before its check-in.
RowsCharged ==
  \A i \in Ids :
    rows[i] # NoRow /\ rows[i].from = None =>
      /\ Quoted(rows[i])
      /\ rows[i].status = "pending_approval" => rows[i].submitted /\ Paid(i) = 0
      /\ rows[i].status = "confirmed" =>
           Paid(i) = IF rows[i].submitted THEN rows[i].quote.deposit ELSE rows[i].quote.total

\* The row about to be inserted for a new booking is quoted by its policy.
AdmittedQuoted ==
  \A r \in Reqs :
    req[r].pc = "insert" /\ req[r].id = None =>
      Quoted(req[r].row) /\ (req[r].row.submitted <=> req[r].row.status = "pending_approval")

LedgerInv ==
  /\ LedgerStarts /\ ActiveCovered /\ RefundsCovered
  /\ RowsCharged /\ ChargedAsQuoted
  /\ ReadsPaid /\ AdmittedQuoted

-----------------------------------------------------------------------------
(* Requests *)

\* A request that is not disturbed, or ends, keeps what it has read and prepared, if
\* no payment is taken back.
LEMMA RequestsKept ==
  ASSUME BookingInv, LedgerInv,
         \A s \in Reqs : req'[s] = req[s] \/ req'[s].pc \notin {"no_show", "cancel", "insert"},
         \A i \in Ids : rows[i] # NoRow => Paid(i) \in Nat /\ Paid(i)' \in Nat /\ Paid(i) <= Paid(i)'
  PROVE  ReadsPaid' /\ AdmittedQuoted'
<1>1. ASSUME NEW s \in Reqs, req'[s].pc \in {"no_show", "cancel"}
      PROVE  req'[s].paid \in Nat /\ req'[s].paid <= Paid(req[s].id)' /\ req'[s].id = req[s].id
  <2>1. req'[s] = req[s] /\ req[s].id \in Ids /\ rows[req[s].id] # NoRow
    BY <1>1 DEF BookingInv, TypeInv, RequestShape
  <2>2. req[s].paid \in Nat /\ req[s].paid <= Paid(req[s].id)
    BY <1>1, <2>1 DEF LedgerInv, ReadsPaid
  <2>3. Paid(req[s].id) \in Nat /\ Paid(req[s].id)' \in Nat /\ Paid(req[s].id) <= Paid(req[s].id)'
    BY <2>1
  <2> QED
    BY <2>1, <2>2, <2>3
<1> QED
  BY <1>1 DEF LedgerInv, ReadsPaid, AdmittedQuoted

-----------------------------------------------------------------------------
(* Rows that change their status *)

\* A transition of one active booking that takes no payment back, refunds no more
\* than was paid, and charges what the stage calls for, keeps the books in order.
LEMMA TransitionPosts ==
  ASSUME BookingInv, LedgerInv, TypeOK', NEW i \in Active, NEW status \in Status, NEW by,
         \/ rows' = [rows EXCEPT ![i].status = status]
         \/ rows' = [rows EXCEPT ![i].status = status, ![i].cancelledBy = by],
         \A j \in Ids \ {i} : ledger'[j] = ledger[j],
         Paid(i) <= Paid(i)',
         -ledger'[i].refund <= Paid(i)' + PaidBefore(i),
         status \in ActiveStatuses => ledger'[i].refund = ledger[i].refund,
         status # "pending_approval",
         rows[i].from = None =>
           /\ status = "confirmed" => rows[i].submitted /\ Paid(i)' = rows[i].quote.deposit
           /\ status \in {"checked_in", "completed"} =>
                Paid(i)' = IF rows[i].submitted
                             THEN rows[i].quote.deposit + rows[i].quote.dueLater
                             ELSE rows[i].quote.total,
         \A s \in Reqs : req'[s] = req[s] \/ req'[s].pc \notin {"no_show", "cancel", "insert"}
  PROVE  LedgerInv'
<1> USE DEF BookingInv, TypeInv
<1>1. i \in Ids /\ rows[i] \in Row /\ rows[i] # NoRow
  BY Distinct DEF Active, ActiveStatuses, TypeOK
<1>2. /\ rows'[i].status = status
      /\ rows'[i].from = rows[i].from
      /\ rows'[i].quote = rows[i].quote
      /\ rows'[i].submitted = rows[i].submitted
      /\ \A j \in Ids \ {i} : rows'[j] = rows[j]
  BY <1>1 DEF TypeOK, Row
<1>3. \A j \in Ids : rows'[j].from = rows[j].from /\ (rows'[j] = NoRow <=> rows[j] = NoRow)
  BY <1>1, <1>2, Distinct
<1>4. \A j \in Ids : Paid(j) \in Nat /\ Paid(j)' \in Nat
  BY DEF TypeOK, Postings, Paid
<1>5. \A j \in Ids \ {i} : Paid(j)' = Paid(j)
  BY DEF Paid
<1>6. \A j \in Ids : Paid(j) <= Paid(j)'
  BY <1>4, <1>5
<1>7. \A j \in Ids : rows[j].from \in Ids \cup {None}
  BY DEF TypeOK, Row, NoRow
<1>8. \A j \in Ids : PaidBefore(j) \in Nat /\ PaidBefore(j)' \in Nat /\ PaidBefore(j) <= PaidBefore(j)'
  BY <1>3, <1>4, <1>6, <1>7 DEF PaidBefore
<1>9. \A j \in Ids : ledger[j].refund \in Int /\ ledger'[j].refund \in Int
  BY DEF TypeOK, Postings
<1>10. LedgerStarts'
  BY <1>1, <1>3 DEF LedgerInv, LedgerStarts
<1>11. ActiveCovered'
  <2>1. ASSUME NEW j \in Ids, rows'[j].status \in ActiveStatuses
        PROVE  j \in Active /\ ledger'[j].refund = ledger[j].refund
    BY <1>1, <1>2, <2>1 DEF Active
  <2> QED
    BY <1>8, <1>9, <2>1 DEF LedgerInv, ActiveCovered, Active
<1>12. RefundsCovered'
  <2>1. ASSUME NEW j \in Ids
        PROVE  -ledger'[j].refund <= Paid(j)' + PaidBefore(j)'
    <3>1. CASE j = i
      BY <1>1, <1>4, <1>8, <1>9, <3>1
    <3>2. CASE j # i
      <4>1. -ledger[j].refund <= Paid(j) + PaidBefore(j)
        BY DEF LedgerInv, RefundsCovered, PaidBefore
      <4> QED
        BY <1>4, <1>5, <1>8, <1>9, <3>2, <4>1
    <3> QED
      BY <3>1, <3>2
  <2> QED
    BY <2>1 DEF RefundsCovered, PaidBefore
<1>13. RowsCharged'
  BY <1>1, <1>2, <1>3, <1>5 DEF LedgerInv, RowsCharged, Quoted
<1>14. ChargedAsQuoted'
  BY <1>1, <1>2, <1>5 DEF LedgerInv, ChargedAsQuoted
<1>15. ReadsPaid' /\ AdmittedQuoted'
  BY <1>4, <1>6, RequestsKept
<1> QED
  BY <1>10, <1>11, <1>12, <1>13, <1>14, <1>15 DEF LedgerInv

\* Approval posts the deposit to a booking that has paid nothing.
LEMMA ApproveKeepsLedger ==
  ASSUME BookingInv, LedgerInv, TypeOK', NEW i \in Ids, Approve(i)
  PROVE  LedgerInv'
<1> USE DEF BookingInv, TypeInv
<1>1. i \in Active /\ rows[i].status = "pending_approval" /\ rows[i] \in Row /\ rows[i] # NoRow
  BY Distinct DEF Approve, Transition, AllowedFrom, Active, ActiveStatuses, TypeOK
<1>2. ledger[i] \in Postings /\ rows[i].quote.deposit \in Nat
  BY <1>1 DEF TypeOK, Row
<1>3. ledger' = [ledger EXCEPT ![i].deposit = @ + rows[i].quote.deposit]
  BY DEF Approve
<1>4. Paid(i)' = Paid(i) + rows[i].quote.deposit /\ ledger'[i].refund = ledger[i].refund
  BY <1>2, <1>3 DEF TypeOK, Postings, Paid
<1>5. Paid(i) \in Nat /\ PaidBefore(i) \in Nat /\ ledger[i].refund \in Int
  BY <1>1, PaidType DEF PaidBefore, Row, TypeOK, Postings
<1>6. -ledger[i].refund <= PaidBefore(i)
  BY <1>1 DEF LedgerInv, ActiveCovered
<1>7. rows[i].from = None => rows[i].submitted /\ Paid(i) = 0
  BY <1>1 DEF LedgerInv, RowsCharged
<1>8. Paid(i) <= Paid(i)' /\ -ledger'[i].refund <= Paid(i)' + PaidBefore(i)
  BY <1>2, <1>4, <1>5, <1>6
<1>9. rows[i].from = None => Paid(i)' = rows[i].quote.deposit
  BY <1>2, <1>4, <1>7
<1>10. \A j \in Ids \ {i} : ledger'[j] = ledger[j]
  BY <1>3 DEF TypeOK
<1>11. rows' = [rows EXCEPT ![i].status = "confirmed"] /\ req' = req
  BY DEF Approve, Transition
<1> QED
  BY <1>1, <1>4, <1>7, <1>8, <1>9, <1>10, <1>11, TransitionPosts DEF Status

\* Check-in posts the balance of the quote.
LEMMA CheckInKeepsLedger ==
  ASSUME BookingInv, LedgerInv, TypeOK', NEW i \in Ids, CheckIn(i)
  PROVE  LedgerInv'
<1> USE DEF BookingInv, TypeInv
<1>1. i \in Active /\ rows[i].status = "confirmed" /\ rows[i] \in Row /\ rows[i] # NoRow
  BY Distinct DEF CheckIn, Transition, AllowedFrom, Active, ActiveStatuses, TypeOK
<1>2. ledger[i] \in Postings /\ rows[i].quote \in [total : Nat, deposit : Nat, dueLater : Nat]
  BY <1>1 DEF TypeOK, Row
<1>3. ledger' = [ledger EXCEPT ![i].balance = @ + rows[i].quote.dueLater]
  BY DEF CheckIn
<1>4. Paid(i)' = Paid(i) + rows[i].quote.dueLater /\ ledger'[i].refund = ledger[i].refund
  BY <1>2, <1>3 DEF TypeOK, Postings, Paid
<1>5. Paid(i) \in Nat /\ PaidBefore(i) \in Nat /\ ledger[i].refund \in Int
  BY <1>1, PaidType DEF PaidBefore, Row, TypeOK, Postings
<1>6. -ledger[i].refund <= PaidBefore(i)
  BY <1>1 DEF LedgerInv, ActiveCovered
<1>7. rows[i].from = None =>
        /\ Paid(i) = IF rows[i].submitted THEN rows[i].quote.deposit ELSE rows[i].quote.total
        /\ ~rows[i].submitted => rows[i].quote.dueLater = 0
  BY <1>1 DEF LedgerInv, RowsCharged, Quoted
<1>8. Paid(i) <= Paid(i)' /\ -ledger'[i].refund <= Paid(i)' + PaidBefore(i)
  BY <1>2, <1>4, <1>5, <1>6
<1>9. rows[i].from = None =>
        Paid(i)' = IF rows[i].submitted THEN rows[i].quote.deposit + rows[i].quote.dueLater
                   ELSE rows[i].quote.total
  BY <1>2, <1>4, <1>7
<1>10. \A j \in Ids \ {i} : ledger'[j] = ledger[j]
  BY <1>3 DEF TypeOK
<1>11. rows' = [rows EXCEPT ![i].status = "checked_in"] /\ req' = req
  BY DEF CheckIn, Transition
<1> QED
  BY <1>1, <1>4, <1>8, <1>9, <1>10, <1>11, TransitionPosts DEF Status

\* Rejection and completion post nothing.
LEMMA RejectOrCompleteKeepsLedger ==
  ASSUME BookingInv, LedgerInv, TypeOK', NEW i \in Ids, Reject(i) \/ Complete(i)
  PROVE  LedgerInv'
<1> USE DEF BookingInv, TypeInv
<1>1. PICK status \in {"rejected", "completed"} :
        /\ rows' = [rows EXCEPT ![i].status = status]
        /\ status = "completed" => rows[i].status = "checked_in"
        /\ rows[i].status \in ActiveStatuses
  BY DEF Reject, Complete, Transition, AllowedFrom, ActiveStatuses
<1>2. i \in Active /\ rows[i] \in Row /\ ledger' = ledger /\ req' = req
  BY <1>1, Distinct DEF Reject, Complete, Transition, Active, ActiveStatuses, TypeOK
<1>3. Paid(i) \in Nat /\ PaidBefore(i) \in Nat /\ ledger[i].refund \in Int /\ Paid(i)' = Paid(i)
  BY <1>2, PaidType DEF PaidBefore, Row, TypeOK, Postings, Paid
<1>4. -ledger[i].refund <= PaidBefore(i)
  BY <1>2 DEF LedgerInv, ActiveCovered
<1>5. -ledger'[i].refund <= Paid(i)' + PaidBefore(i) /\ Paid(i) <= Paid(i)'
  BY <1>2, <1>3, <1>4
<1>6. rows[i].from = None /\ status = "completed" =>
        Paid(i)' = IF rows[i].submitted THEN rows[i].quote.deposit + rows[i].quote.dueLater
                   ELSE rows[i].quote.total
  BY <1>1, <1>3 DEF LedgerInv, ChargedAsQuoted
<1>7. status \in Status \ ActiveStatuses /\ status # "checked_in" /\ status # "confirmed"
         /\ status # "pending_approval"
  BY DEF Status, ActiveStatuses
<1> QED
  BY <1>1, <1>2, <1>5, <1>6, <1>7, TransitionPosts

\* No-show and cancellation refund what was read, which is still paid.
LEMMA EndingKeepsLedger ==
  ASSUME BookingInv, LedgerInv, TypeOK', NEW r \in Reqs, MarkNoShow(r) \/ Cancel(r)
  PROVE  LedgerInv'
<1> USE DEF BookingInv, TypeInv
<1>0. PICK i \in Ids : i = req[r].id
  BY DEF MarkNoShow, Cancel, RequestShape
<1>1. rows[i].status \in ActiveStatuses /\ req[r].paid <= Paid(i) /\ req[r].paid \in Nat
  BY <1>0 DEF MarkNoShow, Cancel, CancelAction, AllowedFrom, ActiveStatuses,
              LedgerInv, ReadsPaid
<1>2. i \in Active /\ rows[i] \in Row /\ ledger[i] \in Postings
  BY <1>1, Distinct DEF Active, ActiveStatuses, TypeOK
<1>3. PICK status \in {"no_show", "cancelled"} :
        \/ rows' = [rows EXCEPT ![i].status = status]
        \/ rows' = [rows EXCEPT ![i].status = status, ![i].cancelledBy = req[r].actor]
  BY <1>0 DEF MarkNoShow, Cancel
<1>4. /\ ledger'[i].refund = ledger[i].refund - req[r].paid
      /\ ledger'[i].charge = ledger[i].charge
      /\ ledger'[i].deposit = ledger[i].deposit
      /\ ledger'[i].balance = ledger[i].balance
      /\ ledger'[i].adjustment = ledger[i].adjustment
      /\ \A j \in Ids \ {i} : ledger'[j] = ledger[j]
  BY <1>0, <1>2 DEF MarkNoShow, Cancel, TypeOK, Postings
<1>5. Paid(i) \in Nat /\ PaidBefore(i) \in Nat /\ ledger[i].refund \in Int /\ Paid(i)' = Paid(i)
  BY <1>1, <1>2, <1>4, PaidType DEF PaidBefore, Row, TypeOK, Postings, Paid
<1>6. -ledger[i].refund <= PaidBefore(i)
  BY <1>2 DEF LedgerInv, ActiveCovered
<1>7. -ledger'[i].refund <= Paid(i)' + PaidBefore(i) /\ Paid(i) <= Paid(i)'
  BY <1>1, <1>4, <1>5, <1>6
<1>8. \A s \in Reqs : req'[s] = req[s] \/ req'[s].pc \notin {"no_show", "cancel", "insert"}
  BY DEF MarkNoShow, Cancel, Finish, IdleRequest, TypeOK
<1>9. status \in Status \ ActiveStatuses /\ status \notin {"completed", "checked_in", "confirmed", "pending_approval"}
  BY DEF Status, ActiveStatuses
<1> QED
  BY <1>2, <1>3, <1>4, <1>7, <1>8, <1>9, TransitionPosts

-----------------------------------------------------------------------------
(* Rows that are inserted *)

\* A row inserted where nothing was posted keeps the books in order, if it begins
\* charged as its status calls for and refunds no more than the row it replaces
\* has paid; a row that is replaced meanwhile changes its status only.
LEMMA InsertPosts ==
  ASSUME BookingInv, LedgerInv, TypeOK', NEW i \in Ids, rows[i] = NoRow, rows'[i] \in Row,
         \A j \in Ids \ {i} :
           \/ rows'[j] = rows[j]
           \/ /\ rows'[j].status = "rescheduled" /\ rows'[j] # NoRow
              /\ rows'[j].from = rows[j].from /\ rows[j] # NoRow
              /\ rows'[j].quote = rows[j].quote
              /\ rows'[j].submitted = rows[j].submitted,
         \A j \in Ids \ {i} : ledger'[j] = ledger[j],
         rows'[i].status \in {"pending_approval", "confirmed"},
         rows'[i].from # i,
         -ledger'[i].refund <= PaidBefore(i)',
         rows'[i].from = None =>
           /\ Quoted(rows'[i])
           /\ rows'[i].status = "pending_approval" => rows'[i].submitted /\ Paid(i)' = 0
           /\ rows'[i].status = "confirmed" =>
                ~rows'[i].submitted /\ Paid(i)' = rows'[i].quote.total,
         \A s \in Reqs : req'[s] = req[s] \/ req'[s].pc \notin {"no_show", "cancel", "insert"}
  PROVE  LedgerInv'
<1> USE DEF BookingInv, TypeInv
<1>1. \A j \in Ids : Paid(j) \in Nat /\ Paid(j)' \in Nat
  BY DEF TypeOK, Postings, Paid
<1>2. \A j \in Ids \ {i} : Paid(j)' = Paid(j)
  BY DEF Paid
<1>3. \A j \in Ids \ {i} : rows'[j].from = rows[j].from /\ (rows'[j] = NoRow <=> rows[j] = NoRow)
  OBVIOUS
<1>4. \A j \in Ids : rows[j].from \in Ids \cup {None} /\ rows'[j].from \in Ids \cup {None}
  BY DEF TypeOK, Row, NoRow
<1>5. \A j \in Ids : rows[j].from # i
  BY <1>4, Distinct DEF MovedOnce, NoRow
<1>6. \A j \in Ids \ {i} : PaidBefore(j)' = PaidBefore(j)
  BY <1>2, <1>3, <1>4, <1>5 DEF PaidBefore
<1>7. PaidBefore(i)' \in Nat
  BY <1>1, <1>4 DEF PaidBefore
<1>8. \A j \in Ids : ledger[j].refund \in Int /\ ledger'[j].refund \in Int
  BY DEF TypeOK, Postings
<1>9. LedgerStarts'
  BY <1>3, Distinct DEF LedgerInv, LedgerStarts
<1>10. ActiveCovered'
  <2>1. \A j \in Active' \ {i} : j \in Active
    BY DEF Active, ActiveStatuses
  <2> QED
    BY <1>6, <2>1 DEF LedgerInv, ActiveCovered, Active
<1>11. RefundsCovered'
  <2>1. ASSUME NEW j \in Ids
        PROVE  -ledger'[j].refund <= Paid(j)' + PaidBefore(j)'
    <3>1. CASE j = i
      BY <1>1, <1>7, <1>8, <3>1
    <3>2. CASE j # i
      <4>1. -ledger[j].refund <= Paid(j) + PaidBefore(j)
        BY DEF LedgerInv, RefundsCovered, PaidBefore
      <4> QED
        BY <1>2, <1>6, <3>2, <4>1
    <3> QED
      BY <3>1, <3>2
  <2> QED
    BY <2>1 DEF RefundsCovered, PaidBefore
<1>12. RowsCharged'
  <2>1. ASSUME NEW j \in Ids \ {i}, rows'[j] # NoRow, rows'[j].from = None
        PROVE  /\ Quoted(rows'[j])
               /\ rows'[j].status = "pending_approval" => rows'[j].submitted /\ Paid(j)' = 0
               /\ rows'[j].status = "confirmed" =>
                    Paid(j)' = IF rows'[j].submitted THEN rows'[j].quote.deposit
                                                     ELSE rows'[j].quote.total
    BY <1>2, <1>3, <2>1 DEF LedgerInv, RowsCharged, Quoted
  <2> QED
    BY <2>1 DEF RowsCharged
<1>13. ChargedAsQuoted'
  BY <1>2 DEF LedgerInv, ChargedAsQuoted
<1>14. ReadsPaid' /\ AdmittedQuoted'
  BY <1>1, <1>2, RequestsKept
<1> QED
  BY <1>9, <1>10, <1>11, <1>12, <1>13, <1>14 DEF LedgerInv

\* A new booking is charged its total when it is confirmed at once.
LEMMA InsertNewKeepsLedger ==
  ASSUME BookingInv, LedgerInv, TypeOK', NEW r \in Reqs, NEW i \in Ids, InsertNew(r, i)
  PROVE  LedgerInv'
<1> USE DEF BookingInv, TypeInv
<1>1. rows[i] = NoRow /\ ledger[i] = NothingPosted
  <2>1. i \in FreeIds
    BY DEF InsertNew
  <2>2. rows[i] = NoRow
    BY <2>1, FreeRow
  <2> QED
    BY <2>2 DEF LedgerInv, LedgerStarts
<1>2. PICK row \in Row :
        /\ row = req[r].row /\ row.from = None
        /\ row.status \in {"pending_approval", "confirmed"}
        /\ Quoted(row) /\ (row.submitted <=> row.status = "pending_approval")
  BY DEF InsertNew, RequestShape, LedgerInv, AdmittedQuoted
<1>3. rows'[i] = row /\ \A j \in Ids \ {i} : rows'[j] = rows[j] /\ ledger'[j] = ledger[j]
  BY <1>2 DEF InsertNew, TypeOK
<1>4. ledger'[i] = IF row.status = "confirmed" THEN [NothingPosted EXCEPT !.charge = row.quote.total]
                   ELSE NothingPosted
  BY <1>1, <1>2 DEF InsertNew, TypeOK
<1>5. row.quote.total \in Nat
  BY DEF Row
<1>6. /\ ledger'[i].refund = 0
      /\ Paid(i)' = IF row.status = "confirmed" THEN row.quote.total ELSE 0
  BY <1>4, <1>5 DEF NothingPosted, Paid
<1>7. PaidBefore(i)' = 0
  BY <1>2, <1>3 DEF PaidBefore
<1>8. \A s \in Reqs : req'[s] = req[s] \/ req'[s].pc \notin {"no_show", "cancel", "insert"}
  BY DEF InsertNew, Finish, IdleRequest, TypeOK
<1>9. rows'[i].from # i /\ -ledger'[i].refund <= PaidBefore(i)'
  BY <1>2, <1>3, <1>6, <1>7, Distinct
<1> QED
  BY <1>1, <1>2, <1>3, <1>6, <1>8, <1>9, InsertPosts

\* A replacement posts the difference to what the row it replaces has paid.
LEMMA InsertReplacementKeepsLedger ==
  ASSUME BookingInv, LedgerInv, TypeOK', NEW r \in Reqs, NEW i \in Ids, InsertReplacement(r, i)
  PROVE  LedgerInv'
<1> USE DEF BookingInv, TypeInv
<1>1. rows[i] = NoRow /\ ledger[i] = NothingPosted
  <2>1. i \in FreeIds
    BY DEF InsertReplacement
  <2>2. rows[i] = NoRow
    BY <2>1, FreeRow
  <2> QED
    BY <2>2 DEF LedgerInv, LedgerStarts
<1>2. PICK old \in Ids : old = req[r].id /\ rows[old] \in Row /\ rows[old] # NoRow /\ old # i
  BY <1>1, Distinct DEF InsertReplacement, RequestShape, TypeOK, Request
<1>3. PICK row \in Row :
        /\ row = req[r].row /\ row.from = old
        /\ row.status \in {"pending_approval", "confirmed"}
  BY <1>2 DEF InsertReplacement, RequestShape
<1>4. /\ rows'[i] = row
      /\ rows'[old] = [rows[old] EXCEPT !.status = "rescheduled", !.to = i]
      /\ \A j \in Ids \ {i, old} : rows'[j] = rows[j]
      /\ \A j \in Ids \ {i} : ledger'[j] = ledger[j]
  <2>1. rows' = [rows EXCEPT ![i] = row, ![old].status = "rescheduled", ![old].to = i]
    BY <1>2, <1>3 DEF InsertReplacement
  <2>2. DOMAIN rows = Ids /\ DOMAIN ledger = Ids
    BY DEF TypeOK
  <2>3. \A j \in Ids \ {i} : ledger'[j] = ledger[j]
    BY <2>2 DEF InsertReplacement
  <2>4. rows'[i] = row /\ \A j \in Ids \ {i, old} : rows'[j] = rows[j]
    BY <1>2, <2>1, <2>2
  <2>5. rows'[old] = [rows[old] EXCEPT !.status = "rescheduled", !.to = i]
    BY <1>2, <2>1, <2>2
  <2> QED
    BY <2>3, <2>4, <2>5
<1>5. /\ rows'[old].status = "rescheduled" /\ rows'[old] # NoRow
      /\ rows'[old].from = rows[old].from
      /\ rows'[old].quote = rows[old].quote
      /\ rows'[old].submitted = rows[old].submitted
  BY <1>2, <1>4, Distinct DEF Row
<1>6. Paid(old) \in Nat /\ Paid(old)' = Paid(old) /\ row.quote.total \in Nat
  BY <1>2, <1>4, PaidType DEF Paid, Row
<1>7. ledger'[i].refund = 0 \/ ledger'[i].refund = row.quote.total - Paid(old)
  BY <1>1, <1>2, <1>3 DEF InsertReplacement, NothingPosted, TypeOK
<1>8. PaidBefore(i)' = Paid(old)
  BY <1>2, <1>3, <1>4, <1>6, Distinct DEF PaidBefore
<1>9. -ledger'[i].refund <= PaidBefore(i)'
  BY <1>6, <1>7, <1>8
<1>10. \A s \in Reqs : req'[s] = req[s] \/ req'[s].pc \notin {"no_show", "cancel", "insert"}
  BY DEF InsertReplacement, Finish, IdleRequest, TypeOK
<1>11. rows'[i].from # None /\ rows'[i].from # i
  BY <1>2, <1>3, <1>4, Distinct
<1>12. \A j \in Ids \ {i} :
         \/ rows'[j] = rows[j]
         \/ /\ rows'[j].status = "rescheduled" /\ rows'[j] # NoRow
            /\ rows'[j].from = rows[j].from /\ rows[j] # NoRow
            /\ rows'[j].quote = rows[j].quote
            /\ rows'[j].submitted = rows[j].submitted
  BY <1>2, <1>4, <1>5
<1> QED
  BY <1>1, <1>3, <1>4, <1>9, <1>10, <1>11, <1>12, InsertPosts

-----------------------------------------------------------------------------
(* Steps that post nothing *)

\* The row that _create prepares for a new booking is quoted by its policy.
LEMMA NewRowQuoted ==
  ASSUME TypeOK, NEW actor \in ActorTypes, NEW host \in Contacts, NEW draft \in AllDrafts,
         NEW price \in Nat
  PROVE  LET row == NewRow(actor, host, draft, None, price)
         IN Quoted(row) /\ (row.submitted <=> row.status = "pending_approval")
<1> DEFINE status == InitialStatus(config.requiresApproval)
           row == NewRow(actor, host, draft, None, price)
<1>1. /\ row.status = status /\ row.quote = Quote(config, price)
      /\ row.submitted = (status = "pending_approval")
  BY DEF NewRow, NoRow
<1>2. status = "confirmed" => ~config.requiresApproval
  BY DEF InitialStatus
<1>3. ~config.requiresApproval => Quote(config, price).dueLater = 0
  BY DEF Quote
<1> QED
  BY <1>1, <1>2, <1>3 DEF Quoted

\* A step that leaves rows and postings alone keeps the books in order, if what its
\* requests read and prepare is right.
LEMMA QuietKeepsLedger ==
  ASSUME LedgerInv, UNCHANGED <<rows, ledger>>, ReadsPaid', AdmittedQuoted'
  PROVE  LedgerInv'
<1>1. \A i \in Ids : Paid(i)' = Paid(i) /\ PaidBefore(i)' = PaidBefore(i)
  BY DEF Paid, PaidBefore
<1> QED
  BY <1>1 DEF LedgerInv, LedgerStarts, ActiveCovered, RefundsCovered, RowsCharged, Quoted,
              ChargedAsQuoted, Active, Paid, PaidBefore

\* Admitting a draft prepares a row that is quoted by its policy.
LEMMA AdmitKeepsLedger ==
  ASSUME BookingInv, LedgerInv, NEW r \in Reqs, NEW actor \in ActorTypes,
         NEW host \in Contacts, NEW draft \in AllDrafts, NEW moved \in Ids \cup {None},
         Admit(r, actor, host, draft, moved)
  PROVE  LedgerInv'
<1> USE DEF BookingInv, TypeInv
<1>1. PICK price \in Prices :
        req' = [req EXCEPT ![r] = [IdleRequest EXCEPT !.pc = "insert", !.id = moved,
                  !.row = NewRow(actor, host, draft, moved, price)]]
  BY DEF Admit
<1>2. /\ req'[r].pc = "insert" /\ req'[r].id = moved
      /\ req'[r].row = NewRow(actor, host, draft, moved, price)
      /\ \A s \in Reqs \ {r} : req'[s] = req[s]
      /\ UNCHANGED <<rows, ledger>>
  BY <1>1 DEF Admit, TypeOK, IdleRequest
<1>3. moved = None => Quoted(req'[r].row)
                      /\ (req'[r].row.submitted <=> req'[r].row.status = "pending_approval")
  BY <1>2, InputTypes, NewRowQuoted
<1>4. ReadsPaid'
  BY <1>2 DEF LedgerInv, ReadsPaid, Paid
<1>5. AdmittedQuoted'
  BY <1>2, <1>3 DEF LedgerInv, AdmittedQuoted
<1> QED
  BY <1>2, <1>4, <1>5, QuietKeepsLedger

\* A no-show or a cancellation begins with reading what is paid, or nothing.
LEMMA BeginEndingKeepsLedger ==
  ASSUME BookingInv, LedgerInv, NEW r \in Reqs, NEW i \in Ids,
         BeginNoShow(r, i) \/ \E actor \in Actors : BeginCancel(r, actor, i)
  PROVE  LedgerInv'
<1> USE DEF BookingInv, TypeInv
<1>1. /\ req'[r].pc \in {"no_show", "cancel"} /\ req'[r].id = i
      /\ req'[r].paid = 0 \/ req'[r].paid = Paid(i)
      /\ \A s \in Reqs \ {r} : req'[s] = req[s]
      /\ UNCHANGED <<rows, ledger>>
  <2>1. CASE BeginNoShow(r, i)
    BY <2>1 DEF BeginNoShow, TypeOK, IdleRequest
  <2>2. CASE \E actor \in Actors : BeginCancel(r, actor, i)
    <3>1. PICK actor, paid, fee :
            /\ req' = [req EXCEPT ![r] = [IdleRequest EXCEPT
                         !.pc = "cancel", !.actor = actor, !.id = i, !.paid = paid, !.fee = fee]]
            /\ paid = 0 \/ paid = Paid(i)
      BY <2>2 DEF BeginCancel
    <3> QED
      BY <2>2, <3>1 DEF BeginCancel, TypeOK, IdleRequest
  <2> QED
    BY <2>1, <2>2
<1>2. Paid(i) \in Nat
  BY PaidType
<1>3. ReadsPaid'
  BY <1>1, <1>2 DEF LedgerInv, ReadsPaid, Paid
<1>4. AdmittedQuoted'
  BY <1>1 DEF LedgerInv, AdmittedQuoted
<1> QED
  BY <1>1, <1>3, <1>4, QuietKeepsLedger

\* The other steps that leave rows and postings alone begin or end a request, or
\* concern none.
LEMMA OtherKeepsLedger ==
  ASSUME BookingInv, LedgerInv, UNCHANGED <<rows, ledger>>,
         \A s \in Reqs : req'[s] = req[s] \/ req'[s].pc \notin {"no_show", "cancel", "insert"}
  PROVE  LedgerInv'
<1>1. \A i \in Ids : Paid(i) \in Nat /\ Paid(i)' = Paid(i)
  BY PaidType DEF Paid, BookingInv, TypeInv
<1>2. ReadsPaid' /\ AdmittedQuoted'
  BY <1>1, RequestsKept
<1> QED
  BY <1>2, QuietKeepsLedger

-----------------------------------------------------------------------------
(* The theorems *)

\* Every step keeps the ledger invariant.
LEMMA LedgerStep ==
  ASSUME BookingInv, LedgerInv, [Next]_vars
  PROVE  LedgerInv'
<1>1. TypeOK'
  BY TypeStep DEF BookingInv, TypeInv
<1>2. ASSUME NEW r \in Reqs, Begin(r)
      PROVE  LedgerInv'
  <2>1. ASSUME NEW actor \in Actors, NEW host \in Contacts,
               NEW draft \in Drafts[config.archetype], BeginCreate(r, actor, host, draft)
        PROVE  LedgerInv'
    BY <2>1, InputTypes, AdmitKeepsLedger DEF BeginCreate, BookingInv, TypeInv
  <2>2. ASSUME NEW i \in Ids, BeginReschedule(r, i)
        PROVE  LedgerInv'
    <3>1. \A s \in Reqs : req'[s] = req[s] \/ req'[s].pc \notin {"no_show", "cancel", "insert"}
      BY <2>2 DEF BeginReschedule, BookingInv, TypeInv, TypeOK, IdleRequest
    <3> QED
      BY <2>2, <3>1, OtherKeepsLedger DEF BeginReschedule
  <2>3. ASSUME NEW e \in Events, NEW draft \in Drafts[config.archetype], BeginHold(r, e, draft)
        PROVE  LedgerInv'
    <3>1. \A s \in Reqs : req'[s] = req[s] \/ req'[s].pc \notin {"no_show", "cancel", "insert"}
      BY <2>3 DEF BeginHold, BookingInv, TypeInv, TypeOK, IdleRequest
    <3> QED
      BY <2>3, <3>1, OtherKeepsLedger DEF BeginHold
  <2> QED
    BY <1>2, <2>1, <2>2, <2>3, BeginEndingKeepsLedger DEF Begin
<1>3. ASSUME NEW r \in Reqs, Answer(r)
      PROVE  LedgerInv'
  <2>1. ASSUME NEW actor \in Actors, NEW draft \in Drafts[config.archetype],
               AdmitMove(r, actor, draft)
        PROVE  LedgerInv'
    <3>1. req[r].id \in Ids /\ rows[req[r].id].host \in Contacts
      BY <2>1 DEF AdmitMove, BookingInv, TypeInv, TypeOK, RequestShape, Row
    <3> QED
      BY <2>1, <3>1, InputTypes, AdmitKeepsLedger DEF AdmitMove, BookingInv, TypeInv
  <2>2. ASSUME \/ \E actor \in Actors, draft \in Drafts[config.archetype] :
                    RefuseMove(r, actor, draft)
               \/ TransitionRefused(r) \/ PlaceHold(r)
        PROVE  LedgerInv'
    <3>1. Finish(r) /\ UNCHANGED <<rows, ledger>>
      BY <2>2 DEF RefuseMove, TransitionRefused, PlaceHold
    <3>2. \A s \in Reqs : req'[s] = req[s] \/ req'[s].pc \notin {"no_show", "cancel", "insert"}
      BY <3>1 DEF Finish, BookingInv, TypeInv, TypeOK, IdleRequest
    <3> QED
      BY <3>1, <3>2, OtherKeepsLedger
  <2> QED
    BY <1>1, <1>3, <2>1, <2>2, InsertNewKeepsLedger, InsertReplacementKeepsLedger,
       EndingKeepsLedger DEF Answer
<1>4. ASSUME NEW r \in Reqs, Abort(r)
      PROVE  LedgerInv'
  <2>1. \A s \in Reqs : req'[s] = req[s] \/ req'[s].pc \notin {"no_show", "cancel", "insert"}
    BY <1>4 DEF Abort, Finish, BookingInv, TypeInv, TypeOK, IdleRequest
  <2> QED
    BY <1>4, <2>1, OtherKeepsLedger DEF Abort
<1>5. ASSUME NEW i \in Ids, Approve(i) \/ Reject(i) \/ CheckIn(i) \/ Complete(i)
      PROVE  LedgerInv'
  BY <1>1, <1>5, ApproveKeepsLedger, CheckInKeepsLedger, RejectOrCompleteKeepsLedger
<1>6. ASSUME \/ \E cfg \in Configs : UpdateConfig(cfg)
             \/ \E e \in Events : ReleaseHold(e)
             \/ UNCHANGED vars
      PROVE  LedgerInv'
  BY <1>6, OtherKeepsLedger DEF UpdateConfig, ReleaseHold, vars
<1> QED
  BY <1>2, <1>3, <1>4, <1>5, <1>6 DEF Next

\* The ledger invariant holds of every reachable state.
LEMMA LedgerInvariant == Spec => []LedgerInv
<1>1. Init => LedgerInv
  <2> SUFFICES ASSUME Init PROVE LedgerInv
    OBVIOUS
  <2>1. /\ \A i \in Ids : rows[i] = NoRow /\ ledger[i] = NothingPosted
        /\ \A r \in Reqs : req[r].pc = "idle"
    BY DEF Init, IdleRequest
  <2>2. Active = {}
    BY <2>1, Distinct DEF Active, ActiveStatuses
  <2>3. RefundsCovered
    BY <2>1 DEF RefundsCovered, Paid, NothingPosted, NoRow
  <2> QED
    BY <2>1, <2>2, <2>3, Distinct
       DEF LedgerInv, LedgerStarts, ActiveCovered, RowsCharged, ChargedAsQuoted, ReadsPaid,
           AdmittedQuoted
<1>2. BookingInv /\ LedgerInv /\ [Next]_vars => LedgerInv'
  BY LedgerStep
<1> QED
  BY <1>1, <1>2, BookingsInvariant, PTL DEF Spec

\* No refund returns more than what the booking and the one it replaced have
\* charged, although cancellations and no-shows refund an amount read earlier.
THEOREM RefundsAlwaysCovered == Spec => []RefundsCovered
BY LedgerInvariant, PTL DEF LedgerInv

\* A booking that was never moved is charged exactly its quote by the time it is
\* checked in, whatever price and policy it was quoted under.
THEOREM AlwaysChargedAsQuoted == Spec => []ChargedAsQuoted
BY LedgerInvariant, PTL DEF LedgerInv

=============================================================================
