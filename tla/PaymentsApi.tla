----------------------------- MODULE PaymentsApi ------------------------------
(***************************************************************************)
(* app/api/v1/endpoints/payments.py: process_payment and its gateway.      *)
(* The tasks it enqueues after the commit touch no table and are not part  *)
(* of this module.                                                         *)
(***************************************************************************)
EXTENDS Database

PayReadOrder(r, u, o) ==
    /\ Begin(r, "process_payment")
    /\ o \in Placed                             \* else 404
    /\ owner[o] = u                             \* else 403
    /\ status[o] \in Payable                    \* else 400: already ...
    /\ gateway[o].approved + gateway[o].declined < MaxCharges
    /\ Advance(r, "pay_payment",
               [EmptySession EXCEPT !.order = o, !.status = status[o]])
    /\ UNCHANGED <<tables, lock, gateway>>

\* Mutant of RetriesExceeded: one attempt too many.
RetriesWellExceeded(row) == row.status # NoRow /\ row.retries > MAX_RETRIES

\* The payment is loaded by a second SELECT (selectinload).
RetriesExceeded(row) == row.status # NoRow /\ row.retries >= MAX_RETRIES

PayRejectRetries(r) ==                          \* 400: maximum retries
    /\ pc[r] = "pay_payment"
    /\ RetriesExceeded(payment[ses[r].order])
    /\ Reject(r)

\* Mutant of PayGateway: every answer counts as an approval.
PayGatewayTrusted(r, answer) ==
    LET o == ses[r].order
    IN  /\ pc[r] = "pay_payment"
        /\ ~RetriesExceeded(payment[o])
        /\ Advance(r, "pay_approved", [ses[r] EXCEPT !.payment = payment[o]])
        /\ gateway' = [gateway EXCEPT ![o][answer] = @ + 1]
        /\ UNCHANGED <<tables, lock>>

\* The gateway approves or declines the card: no statement lies between the
\* second SELECT and its answer.  What it answered outlives the transaction.
PayGateway(r, answer) ==
    LET o == ses[r].order
    IN  /\ pc[r] = "pay_payment"
        /\ ~RetriesExceeded(payment[o])
        /\ Advance(r, IF answer = "approved" THEN "pay_approved"
                                             ELSE "pay_declined",
                   [ses[r] EXCEPT !.payment = payment[o]])
        /\ gateway' = [gateway EXCEPT ![o][answer] = @ + 1]
        /\ UNCHANGED <<tables, lock>>

\* A session that found no payment inserts one: payments.order_id is unique.
Duplicate(s) == s.payment.status = NoRow /\ payment[s.order].status # NoRow

\* Mutants of PaymentAfter: every payment counts as successful; retry_count
\* counts down instead of up.
PaymentSucceeds(s, new) == [status |-> "SUCCESS", retries |-> new.retries]
PaymentCountsDown(s, new) ==
    [status |-> new.status, retries |-> s.payment.retries - 1]

\* The payment row after the flush of a session that wants it to be new.
PaymentAfter(s, new) ==
    LET row == payment[s.order]
    IN  [status  |-> Flushed(row.status,  s.payment.status,  new.status),
         retries |-> Flushed(row.retries, s.payment.retries, new.retries)]

\* PENDING or PAYMENT_FAILED -> PAYMENT_SUCCESS -> ORDER_CONFIRMED, in one
\* transaction.
PayApprovedCommit(r) ==
    LET s == ses[r]
        o == s.order
    IN  /\ pc[r] = "pay_approved"
        /\ ~Duplicate(s)
        /\ ValidTransition(s.status, "PAYMENT_SUCCESS")
        /\ payment' = [payment EXCEPT ![o] =
               PaymentAfter(s, [status  |-> "SUCCESS",
                                retries |-> s.payment.retries])]
        /\ SetStatus(o, "ORDER_CONFIRMED")
        /\ Finish(r)
        /\ UNCHANGED <<catalog, cart, gateway>>

PayDeclinedCommit(r) ==
    LET s == ses[r]
        o == s.order
    IN  /\ pc[r] = "pay_declined"
        /\ ~Duplicate(s)
        /\ ValidTransition(s.status, "PAYMENT_FAILED")
        /\ payment' = [payment EXCEPT ![o] =
               PaymentAfter(s, [status  |-> "FAILED",
                                retries |-> s.payment.retries + 1])]
        /\ SetStatus(o, Flushed(status[o], s.status, "PAYMENT_FAILED"))
        /\ Finish(r)
        /\ UNCHANGED <<catalog, cart, gateway>>

PayConflict(r) ==                               \* IntegrityError
    /\ pc[r] \in {"pay_approved", "pay_declined"}
    /\ Duplicate(ses[r])
    /\ Reject(r)

===============================================================================
