------------------------------ MODULE Payments ------------------------------
(***************************************************************************)
(* The money side of ONE order: its payment rows, the Stripe objects       *)
(* behind them, the webhook events Stripe sends, and every request handler *)
(* of payments/service.py, payments/guarantee.py, orders/service.py and    *)
(* worker/tasks/order_expiration.py that reads or writes them.             *)
(*                                                                         *)
(* A handler is cut where the code releases the database: a read that is   *)
(* not under a row lock and the commit that uses it are two steps, and so  *)
(* are a Stripe call and the commit that records it.  What one transaction *)
(* does under the order's row lock is one step.                            *)
(*                                                                         *)
(* Abstractions.  Amounts are cents of a small Total.  Kitchen capacity    *)
(* and ingredient stock are seen from this order only: a confirmation may  *)
(* land in "queued", and may be refused when entry has "stockout".  The    *)
(* deployment is production: no local_ payments.  Stripe events are        *)
(* delivered at least once in any order; a second delivery is a no-op      *)
(* because of processed_webhook_events.                                    *)
(***************************************************************************)
EXTENDS Integers, FiniteSets

CONSTANTS
    MaxPay,    \* bound: payment rows of the order
    Proc,      \* request handlers running at the same time
    Total,     \* orders.total, in cents
    MaxCrash,  \* bound: handlers that die between two steps
    Profiles   \* the profiles an instance explores: the entry points that
               \* are open, the statuses the staff asks for, what may fail

ASSUME PayAssumption   == MaxPay \in Nat \ {0}
ASSUME TotalAssumption == Total \in Nat \ {0}
ASSUME CrashAssumption == MaxCrash \in Nat
ASSUME ProcAssumption  == IsFiniteSet(Proc)

Pay  == 1 .. MaxPay
None == 0

VARIABLES
    status, held,      \* orders.status, net stock deductions of the order
    order_type,        \* orders.order_type
    payment_status,    \* orders.payment_status
    stale,             \* created more than PENDING_ORDER_TIMEOUT_MINUTES ago
    row,               \* the payments table
    refunds,           \* sum of the succeeded rows of the refunds table
    pi, cs,            \* Stripe: PaymentIntent and Checkout Session per row
    received,          \* Stripe: cents collected by the PaymentIntent
    refunded,          \* Stripe: cents refunded from it
    sent, processed,   \* Stripe events emitted; processed_webhook_events
    job,               \* what each handler is in the middle of
    crashes,
    entry              \* the profile of this behaviour

order  == <<status, held, order_type, payment_status, stale>>
table  == <<row, refunds>>
stripe == <<pi, cs, received, refunded, sent>>
vars   == <<order, table, stripe, processed, job, crashes, entry>>

Lifecycle == INSTANCE OrderLifecycle

-----------------------------------------------------------------------------
(* Types *)

OrderPaymentStatus ==
    {"pending", "paid", "failed", "guaranteed", "guarantee_released",
     "guarantee_captured"}

PaymentStatus ==
    {"absent", "pending", "paid", "failed", "expired", "refunded",
     "partially_refunded", "refund_failed", "authorized", "released"}

Row == [purpose  : {"sale", "guarantee"},
        provider : {"stripe", "stripe_terminal", "cash"},
        status   : PaymentStatus,
        ref      : {"none", "cs", "pi"},  \* kind of provider_payment_id
        captured : 0 .. Total]            \* captured_amount, 0 when null

NoRow == [purpose |-> "sale", provider |-> "stripe", status |-> "absent",
          ref |-> "none", captured |-> 0]

IntentStatus == {"none", "open", "hold", "succeeded", "canceled"}

EventType == {"succeeded", "capturable", "payment_failed", "canceled",
              "completed", "session_expired", "refunded"}
Event == [type : EventType, p : Pay, n : 0 .. Total]

Control == {"idle", "event", "sale", "auto", "refund", "row", "autoend",
            "fail", "guar", "autorel", "relend", "capture", "release",
            "cash", "trailing", "cancel", "redeliver", "link"}

(***************************************************************************)
(* A handler in the middle of its work: where it is, the payment it works  *)
(* on (p), the payment a refund was drawn on (q), the status and the order *)
(* payment status it read before it let go of the database (seen, pay), a  *)
(* document or an outcome (doc) and an amount (n).                         *)
(***************************************************************************)
Seen == {""} \cup Lifecycle!OrderStatus \cup PaymentStatus
Doc  == {"", "verify"} \cup EventType \cup IntentStatus \cup PaymentStatus

Job == [pc : Control, p : Pay \cup {None}, q : Pay \cup {None}, seen : Seen,
        pay : {""} \cup OrderPaymentStatus, doc : Doc, n : 0 .. Total]

Idle == [pc |-> "idle", p |-> None, q |-> None, seen |-> "", pay |-> "",
         doc |-> "", n |-> 0]

At(pc, p)        == [Idle EXCEPT !.pc = pc, !.p = p]
Saw(pc, p, s, d) == [At(pc, p) EXCEPT !.seen = s, !.pay = payment_status,
                                      !.doc = d]

(* Values of the enumerations in the source *)
PAYMENT_STATUS_PAID == {"paid", "partially_refunded"}

(* Mutant: a row that was closed takes no hold any more. *)
SettledOrExpired == {"authorized", "paid", "released", "refunded",
                     "partially_refunded", "expired"}

SETTLED_STATUSES == {"authorized", "paid", "released", "refunded",
                     "partially_refunded"}

-----------------------------------------------------------------------------
(* Helpers *)

Become(r, j) == job' = [job EXCEPT ![r] = j]
Done(r)      == Become(r, Idle)

Emit(type, p, n) == [type |-> type, p |-> p, n |-> n]
Emits(type, p)   == sent' = sent \cup {Emit(type, p, 0)}

(* The next id of the payments sequence. *)
Fresh(p) == /\ row[p].status = "absent"
            /\ \A q \in Pay : q < p => row[q].status # "absent"

(***************************************************************************)
(* The ORM writes a column only when the value assigned differs from the   *)
(* one the handler loaded.                                                 *)
(***************************************************************************)
Written(loaded, new, now) == IF loaded = new THEN now ELSE new

PayWritten(r, new) == Written(job[r].pay, new, payment_status)

Insert(p, r) == row' = [row EXCEPT ![p] = r]

SetPayment(p, s) == row' = [row EXCEPT ![p].status = s]

(* A SELECT ... FOR UPDATE on the payment row, held across a Stripe call. *)
Locked(p) == \E r \in Proc : /\ job[r].pc \in {"capture", "release", "cash"}
                             /\ job[r].p = p

CollectedCents(p) ==
    IF row[p].purpose = "guarantee" /\ row[p].captured > 0
    THEN row[p].captured ELSE Total

(***************************************************************************)
(* update_status: the guards it evaluates under the order's row lock (pay  *)
(* is the payment status visible to the caller's transaction), and what it *)
(* commits.  A confirmation beyond the kitchen's capacity lands in queued. *)
(***************************************************************************)
MayMove(to, pay) ==
    /\ to \in Lifecycle!VALID_TRANSITIONS[status]
    /\ to = "confirmed" => \/ pay = "paid"
                           \/ pay = "guaranteed" /\ order_type = "delivery"
    /\ to = "delivered" => pay # "guaranteed"

(* Mutant: the stock given back by a cancellation of what is in            *)
(* preparation.                                                            *)
MovedRestoring(to) ==
    /\ status' = to
    /\ held' = IF to = "cancelled" /\ status \in {"confirmed", "preparing", "out_for_delivery"}
               THEN held - 1
               ELSE IF to = "confirmed" THEN held + 1 ELSE held

Moved(to) ==
    \/ /\ to = "confirmed"
       /\ \/ status' = "confirmed" /\ held' = held + 1
          \/ status' = "queued" /\ UNCHANGED held
    \/ /\ to # "confirmed"
       /\ status' = to
       /\ held' = IF to = "cancelled" /\ status = "confirmed"
                  THEN held - 1 ELSE held

(* INSUFFICIENT_STOCK, raised by deduct_for_order: the whole transaction   *)
(* is rolled back.                                                         *)
Refused(pay) == ~MayMove("confirmed", pay) \/ "stockout" \in entry

-----------------------------------------------------------------------------
(* Creating the order and its payments *)

create_order ==
    /\ "order" \in entry /\ status = "none"
    /\ status' = "pending"
    /\ order_type' \in {"delivery", "pickup"}
    /\ UNCHANGED <<held, payment_status, stale, table, stripe, processed, job,
                   crashes>>

(* An order taken at the counter and paid in cash: order, payment and     *)
(* confirmation are one transaction.  Cash is refused for a delivery.     *)
create_manual_order(p) ==
    /\ "manual" \in entry /\ status = "none" /\ Fresh(p)
    /\ order_type' = "pickup"
    /\ payment_status' = "paid"
    /\ Insert(p, [NoRow EXCEPT !.provider = "cash", !.status = "paid"])
    /\ \/ status' = "confirmed" /\ held' = held + 1
       \/ status' = "queued" /\ UNCHANGED held
    /\ UNCHANGED <<stale, refunds, stripe, processed, job, crashes>>

(* A customer's own pending row of this purpose is handed out again. *)
Reusable(purpose) ==
    \E q \in Pay : /\ row[q].status = "pending" /\ row[q].purpose = purpose
                   /\ row[q].provider = "stripe"
                   /\ row[q].ref = "pi" /\ cs[q] = "none"

NewIntent(p, purpose, provider) ==
    /\ Fresh(p)
    /\ Insert(p, [NoRow EXCEPT !.purpose = purpose, !.provider = provider,
                               !.status = "pending", !.ref = "pi"])
    /\ pi' = [pi EXCEPT ![p] = "open"]
    /\ UNCHANGED <<order, refunds, cs, received, refunded, sent, processed,
                   job, crashes>>

create_intent(p) ==
    /\ "intent" \in entry /\ status # "none"
    /\ payment_status \notin {"paid", "guaranteed"}
    /\ ~Reusable("sale")
    /\ NewIntent(p, "sale", "stripe")

create_terminal_intent(p) ==
    /\ "terminal" \in entry /\ status # "none"
    /\ NewIntent(p, "sale", "stripe_terminal")

create_guarantee_intent(p) ==
    /\ "guarantee" \in entry
    /\ status = "pending" /\ order_type = "delivery"
    /\ payment_status \notin {"paid", "guaranteed"}
    /\ ~Reusable("guarantee")
    /\ NewIntent(p, "guarantee", "stripe")

(***************************************************************************)
(* create_payment_link: under the order's lock the pending rows become     *)
(* expired (Stripe closes the sessions it still can, those in closed) and  *)
(* the new row is committed before Stripe is called.                       *)
(***************************************************************************)
create_payment_link(r, p, purpose) ==
    /\ "link" \in entry /\ job[r] = Idle /\ Fresh(p)
    /\ status = "pending" /\ payment_status \notin {"paid", "guaranteed"}
    /\ purpose = "guarantee" => order_type = "delivery"
    /\ LET previous == {q \in Pay : row[q].status = "pending"
                                    /\ row[q].provider = "stripe"}
           open == {q \in previous : row[q].ref = "cs" /\ cs[q] = "open"}
       IN \E closed \in SUBSET open :
            /\ row' = [q \in Pay |->
                 IF q = p THEN [NoRow EXCEPT !.purpose = purpose,
                                             !.status = "pending"]
                 ELSE IF q \in previous THEN [row[q] EXCEPT !.status = "expired"]
                 ELSE row[q]]
            /\ cs' = [q \in Pay |-> IF q \in closed THEN "expired" ELSE cs[q]]
            /\ sent' = sent \cup {Emit("session_expired", q, 0) : q \in closed}
    /\ Become(r, At("link", p))
    /\ UNCHANGED <<order, refunds, pi, received, refunded, processed, crashes>>

(* ... then Stripe creates the session, or is unreachable: the row stays   *)
(* pending without an identifier.                                          *)
LinkCreated(r) ==
    /\ job[r].pc = "link"
    /\ \/ /\ row' = [row EXCEPT ![job[r].p].ref = "cs"]
          /\ cs' = [cs EXCEPT ![job[r].p] = "open"]
       \/ UNCHANGED <<row, cs>>
    /\ Done(r)
    /\ UNCHANGED <<order, refunds, pi, received, refunded, sent, processed,
                   crashes>>

-----------------------------------------------------------------------------
(* Stripe and the card holder (external) *)

StripeOnly == UNCHANGED <<order, table, processed, job, crashes>>

(* The customer pays a PaymentIntent, or completes a Checkout page. *)
PayCard(p) ==
    /\ \/ pi[p] = "open" /\ UNCHANGED cs
       \/ pi[p] = "none" /\ cs[p] = "open" /\ cs' = [cs EXCEPT ![p] = "done"]
    /\ LET hold == row[p].purpose = "guarantee"
       IN /\ pi' = [pi EXCEPT ![p] = IF hold THEN "hold" ELSE "succeeded"]
          /\ received' = [received EXCEPT ![p] = IF hold THEN 0 ELSE Total]
          /\ sent' = sent \cup
               {Emit(IF hold THEN "capturable" ELSE "succeeded", p, 0)}
               \cup (IF cs[p] = "open" THEN {Emit("completed", p, 0)} ELSE {})
    /\ UNCHANGED refunded
    /\ StripeOnly

(* A refused card: the intent stays open and may be paid later. *)
DeclineCard(p) ==
    /\ "decline" \in entry /\ pi[p] = "open"
    /\ Emits("payment_failed", p)
    /\ UNCHANGED <<pi, cs, received, refunded>>
    /\ StripeOnly

(* A hold expires after seven days, or is cancelled in the dashboard. *)
HoldExpires(p) ==
    /\ "holdexpiry" \in entry /\ pi[p] = "hold"
    /\ pi' = [pi EXCEPT ![p] = "canceled"]
    /\ Emits("canceled", p)
    /\ UNCHANGED <<cs, received, refunded>>
    /\ StripeOnly

SessionExpires(p) ==
    /\ cs[p] = "open"
    /\ cs' = [cs EXCEPT ![p] = "expired"]
    /\ Emits("session_expired", p)
    /\ UNCHANGED <<pi, received, refunded>>
    /\ StripeOnly

(* The restaurant captures a hold in the Stripe dashboard. *)
DashboardCapture(p) ==
    /\ "dashboard" \in entry /\ pi[p] = "hold"
    /\ pi' = [pi EXCEPT ![p] = "succeeded"]
    /\ \E n \in 1 .. Total : received' = [received EXCEPT ![p] = n]
    /\ Emits("succeeded", p)
    /\ UNCHANGED <<cs, refunded>>
    /\ StripeOnly

Elapse ==
    /\ "expiry" \in entry /\ status = "pending" /\ ~stale
    /\ stale' = TRUE
    /\ UNCHANGED <<status, held, order_type, payment_status, table, stripe,
                   processed, job, crashes>>

(* What PaymentIntent.cancel does: it succeeds on an open intent or a hold *)
(* and _cancel_intent_idempotent also takes "already canceled" as success. *)
(* A cs_ identifier is not a PaymentIntent, so the call always fails.      *)
Cancelable(p) == row[p].ref = "pi" /\ pi[p] \in {"open", "hold", "canceled"}

CancelIntent(p) ==
    /\ Cancelable(p)
    /\ pi' = [pi EXCEPT ![p] = "canceled"]
    /\ sent' = IF pi[p] = "canceled" THEN sent
               ELSE sent \cup {Emit("canceled", p, 0)}
    /\ UNCHANGED <<cs, received, refunded>>

-----------------------------------------------------------------------------
(* Webhook events and POST /payments/confirm *)

(* handle_webhook commits the event id before any treatment. *)
handle_webhook(r, e) ==
    /\ job[r] = Idle /\ e \in sent \ processed
    /\ processed' = processed \cup {e}
    /\ Become(r, [At("event", e.p) EXCEPT !.doc = e.type, !.n = e.n])
    /\ UNCHANGED <<order, table, stripe, crashes>>

(* finalize_payment reads the payment and the order, without a lock. *)
(* Mutant: a payment that expired here is taken for a final one. *)
ReadSaleExpired(r, p) ==
    IF row[p].status \in {"paid", "refunded", "partially_refunded", "expired"}
    THEN Done(r)
    ELSE Become(r, Saw("sale", p, status, ""))

ReadSale(r, p) ==
    IF row[p].status \in {"paid", "refunded", "partially_refunded"}
    THEN Done(r)
    ELSE Become(r, Saw("sale", p, status, ""))

(* For a guarantee it reads the order, then queues for the row lock; doc   *)
(* is the intent of the payload, or "verify" when Stripe is asked later.   *)
ReadGuarantee(r, p, doc) == Become(r, Saw("guar", p, status, doc))

confirm(r, p) ==
    /\ "confirm" \in entry /\ job[r] = Idle
    /\ row[p].ref = "pi"
    /\ IF row[p].purpose = "guarantee"
       THEN ReadGuarantee(r, p, "verify") ELSE ReadSale(r, p)
    /\ UNCHANGED <<order, table, stripe, processed, crashes>>

Handling(r, types) == job[r].pc = "event" /\ job[r].doc \in types

(* payment_intent.succeeded / amount_capturable_updated *)
handle_intent_event(r) ==
    /\ Handling(r, {"succeeded", "capturable"})
    /\ LET p == job[r].p
       IN IF row[p].purpose = "guarantee"
          THEN ReadGuarantee(r, p, IF job[r].doc = "succeeded"
                                   THEN "succeeded" ELSE "hold")
          ELSE ReadSale(r, p)
    /\ UNCHANGED <<order, table, stripe, processed, crashes>>

(* checkout.session.completed attaches the PaymentIntent; only a guarantee *)
(* is finalized here, with the intent as Stripe reports it now.            *)
handle_checkout_completed(r) ==
    /\ Handling(r, {"completed"})
    /\ LET p == job[r].p
       IN /\ row' = IF row[p].ref = "cs"
                    THEN [row EXCEPT ![p].ref = "pi"] ELSE row
          /\ row[p].ref = "cs" => ~Locked(p)
          /\ IF row[p].purpose = "guarantee"
                /\ row[p].status \notin SETTLED_STATUSES
             THEN ReadGuarantee(r, p, pi[p]) ELSE Done(r)
    /\ UNCHANGED <<order, refunds, stripe, processed, crashes>>

handle_checkout_expired(r) ==
    /\ Handling(r, {"session_expired"})
    /\ row' = IF row[job[r].p].status = "pending"
              THEN [row EXCEPT ![job[r].p].status = "expired"] ELSE row
    /\ Done(r)
    /\ UNCHANGED <<order, refunds, stripe, processed, crashes>>

handle_charge_refunded(r) ==
    /\ Handling(r, {"refunded"})
    /\ LET p == job[r].p
       IN row' = IF row[p].ref # "pi" \/ row[p].status = "refunded" THEN row
                 ELSE [row EXCEPT ![p].status =
                         IF job[r].n >= received[p] THEN "refunded"
                         ELSE "partially_refunded"]
    /\ Done(r)
    /\ UNCHANGED <<order, refunds, stripe, processed, crashes>>

(***************************************************************************)
(* handle_payment_failure, for payment_failed and canceled alike: it reads *)
(* the payment and the order without a lock, and commits what follows from *)
(* what it read (handle_guarantee_canceled for an active hold).            *)
(***************************************************************************)
handle_payment_failure(r) ==
    /\ Handling(r, {"payment_failed", "canceled"})
    /\ LET p == job[r].p
           ignored == \/ row[p].ref # "pi"
                      \/ row[p].status \in {"paid", "partially_refunded",
                                            "refunded", "failed", "released"}
       IN IF ignored THEN Done(r)
          ELSE Become(r, Saw("fail", p, row[p].status, ""))
    /\ UNCHANGED <<order, table, stripe, processed, crashes>>

FailureCommit(r) ==
    /\ job[r].pc = "fail"
    /\ LET p == job[r].p
           hold == row[p].purpose = "guarantee"
                   /\ job[r].seen = "authorized"
       IN /\ ~Locked(p)
          /\ SetPayment(p, IF hold THEN "released" ELSE "failed")
          /\ payment_status' =
               CASE ~hold -> PayWritten(r, "failed")
                 [] hold /\ job[r].pay = "guaranteed" -> "guarantee_released"
                 [] OTHER -> payment_status
    /\ Done(r)
    /\ UNCHANGED <<status, held, order_type, stale, refunds, stripe,
                   processed, crashes>>

-----------------------------------------------------------------------------
(* finalize_payment: a sale *)

(* The writes that ride on the confirmation (or on a plain commit). *)
SalePaid(r, p) ==
    /\ row' = [row EXCEPT ![p].status = "paid", ![p].ref = "pi"]
    /\ payment_status' = PayWritten(r, "paid")

(* The intent, read from the payload or from Stripe, and its amount.       *)
(* Mutant: any intent will do.                                             *)
IntentExists(p)    == pi[p] # "none"
IntentSucceeded(p) == pi[p] = "succeeded"

(* Confirmed with the order when the order was seen pending, plain commit  *)
(* otherwise.  The intent must have succeeded, or nothing is written.      *)
SaleCommit(r) ==
    /\ job[r].pc = "sale"
    /\ LET p == job[r].p
       IN IF ~IntentSucceeded(p)
          THEN UNCHANGED <<row, payment_status, status, held>>
          ELSE /\ SalePaid(r, p)
               /\ IF job[r].seen = "pending"
                  THEN /\ MayMove("confirmed", PayWritten(r, "paid"))
                       /\ Moved("confirmed")
                  ELSE UNCHANGED <<status, held>>
    /\ Done(r)
    /\ UNCHANGED <<order_type, stale, refunds, stripe, processed, crashes>>

(* update_status raised: rollback, then the automatic refund. *)
SaleRefused(r) ==
    /\ job[r].pc = "sale" /\ job[r].seen = "pending"
    /\ IntentSucceeded(job[r].p)
    /\ Refused(PayWritten(r, "paid"))
    /\ Become(r, At("auto", job[r].p))
    /\ UNCHANGED <<order, table, stripe, processed, crashes>>

(***************************************************************************)
(* The rollback expires the ORM's copy of the payment, and its id is the   *)
(* next thing the handler reads, outside of an await.  Where that read     *)
(* raises (entry has "expired_read") the handler ends here.                *)
(***************************************************************************)
SaleAbandoned(r) ==
    /\ "expired_read" \in entry
    /\ job[r].pc = "sale" /\ job[r].seen = "pending"
    /\ IntentSucceeded(job[r].p)
    /\ Refused(PayWritten(r, "paid"))
    /\ Done(r)
    /\ UNCHANGED <<order, table, stripe, processed, crashes>>

AutoRefundMark(r) ==
    /\ job[r].pc = "auto"
    /\ SetPayment(job[r].p, "paid")
    /\ payment_status' = "paid"
    /\ Become(r, At("refund", job[r].p))
    /\ UNCHANGED <<status, held, order_type, stale, refunds, stripe,
                   processed, crashes>>

(***************************************************************************)
(* create_refund, first half: some confirmed payment q of the order, what  *)
(* is left of it, and the Stripe refund.  owner is the payment being       *)
(* refunded automatically, None for a request of the staff.                *)
(***************************************************************************)
Remaining(q) == CollectedCents(q) - refunds[q]

RefundOutcome(q, n) ==
    IF n >= Remaining(q) THEN "refunded" ELSE "partially_refunded"

RefundCall(r, owner, q, n) ==
    /\ row[q].status \in PAYMENT_STATUS_PAID
    /\ n \in 1 .. Total /\ n <= Remaining(q)
    /\ \/ /\ row[q].provider = "cash" \/ (row[q].ref = "pi" /\
                                          refunded[q] + n <= received[q])
          /\ Become(r, [Saw("row", owner, row[q].status, RefundOutcome(q, n))
                          EXCEPT !.q = q, !.n = n])
          /\ IF row[q].provider = "cash" THEN UNCHANGED stripe
             ELSE /\ refunded' = [refunded EXCEPT ![q] = @ + n]
                  /\ sent' = sent \cup {Emit("refunded", q, refunded[q] + n)}
                  /\ UNCHANGED <<pi, cs, received>>
       \/ /\ row[q].provider # "cash"           \* Stripe refuses, or is down
          /\ \/ row[q].ref # "pi" \/ refunded[q] + n > received[q]
             \/ "stripedown" \in entry
          /\ Become(r, [Saw("row", owner, row[q].status, "failed")
                          EXCEPT !.q = q, !.n = n])
          /\ UNCHANGED stripe
    /\ UNCHANGED <<order, table, processed, crashes>>

create_refund(r, q, n) ==
    /\ "refund" \in entry /\ job[r] = Idle
    /\ status \in {"cancelled", "delivered", "delivery_failed"}
    /\ RefundCall(r, None, q, n)

AutoRefundCall(r, q) ==
    /\ job[r].pc = "refund"
    /\ RefundCall(r, job[r].p, q, Remaining(q))

(* PAYMENT_NOT_FOUND or REFUND_ALREADY_COMPLETE. *)
AutoRefundImpossible(r) ==
    /\ job[r].pc = "refund"
    /\ \/ \A q \in Pay : row[q].status \notin PAYMENT_STATUS_PAID
       \/ \E q \in Pay : /\ row[q].status \in PAYMENT_STATUS_PAID
                         /\ Remaining(q) <= 0
    /\ Become(r, Saw("autoend", job[r].p, "", "refund_failed"))
    /\ UNCHANGED <<order, table, stripe, processed, crashes>>

(* Mutant: the row is written as succeeded whatever Stripe answered. *)
RefundAssumed(r)   == job[r].pc = "row"
RefundSucceeded(r) == job[r].doc # "failed"

(* Second half: the refunds row and the payment's new status. *)
RefundCommit(r) ==
    /\ job[r].pc = "row"
    /\ LET q == job[r].q
           owner == job[r].p
           ok == RefundSucceeded(r)
       IN /\ IF ok THEN /\ SetPayment(q, Written(job[r].seen, job[r].doc,
                                                row[q].status))
                        /\ refunds' = [refunds EXCEPT ![q] = @ + job[r].n]
             ELSE UNCHANGED table
          /\ Become(r, IF owner = None THEN Idle
                       ELSE Saw("autoend", owner, "",
                                IF ok THEN "refunded" ELSE "refund_failed"))
    /\ UNCHANGED <<order, stripe, processed, crashes>>

(* Mutant: a refund that Stripe refuses is taken for a failed payment.     *)
AutoRefundGivenUp(r) ==
    /\ job[r].pc = "autoend"
    /\ SetPayment(job[r].p, IF job[r].doc = "refunded" THEN "refunded"
                            ELSE "failed")
    /\ Done(r)
    /\ UNCHANGED <<order, refunds, stripe, processed, crashes>>

AutoRefundEnd(r) ==
    /\ job[r].pc = "autoend"
    /\ SetPayment(job[r].p, job[r].doc)
    /\ Done(r)
    /\ UNCHANGED <<order, refunds, stripe, processed, crashes>>

-----------------------------------------------------------------------------
(* finalize_guarantee: everything below the row lock *)

Intent(r) == IF job[r].doc = "verify" THEN pi[job[r].p] ELSE job[r].doc

(* Already settled, or an intent that is not a hold: nothing is written. *)
GuaranteeSkipped(r) ==
    /\ job[r].pc = "guar" /\ ~Locked(job[r].p)
    /\ \/ row[job[r].p].status \in SETTLED_STATUSES
       \/ Intent(r) \notin {"hold", "succeeded"}
    /\ Done(r)
    /\ UNCHANGED <<order, table, stripe, processed, crashes>>

Finalizable(r, intent) ==
    /\ job[r].pc = "guar" /\ ~Locked(job[r].p)
    /\ row[job[r].p].status \notin SETTLED_STATUSES
    /\ Intent(r) = intent

(* amount_received of the intent.  Mutant: the amount that was blocked. *)
AmountBlocked(p)  == Total
AmountReceived(p) == received[p]

sync_external_capture(r) ==
    /\ Finalizable(r, "succeeded")
    /\ LET p == job[r].p
       IN /\ row' = [row EXCEPT ![p].status = "paid", ![p].ref = "pi",
                                ![p].captured = AmountReceived(p)]
          /\ payment_status' = PayWritten(r, IF AmountReceived(p) >= Total
                                             THEN "paid"
                                             ELSE "guarantee_captured")
    /\ Done(r)
    /\ UNCHANGED <<status, held, order_type, stale, refunds, stripe,
                   processed, crashes>>

GuaranteeCommit(r) ==
    /\ Finalizable(r, "hold")
    /\ row' = [row EXCEPT ![job[r].p].status = "authorized",
                          ![job[r].p].ref = "pi"]
    /\ payment_status' = PayWritten(r, "guaranteed")
    /\ IF job[r].seen = "pending"
       THEN /\ MayMove("confirmed", PayWritten(r, "guaranteed"))
            /\ Moved("confirmed")
       ELSE UNCHANGED <<status, held>>
    /\ Done(r)
    /\ UNCHANGED <<order_type, stale, refunds, stripe, processed, crashes>>

(* update_status raised: rollback (the cs_ identifier comes back), then    *)
(* the hold is cancelled at Stripe, then the outcome is committed.         *)
GuaranteeRefused(r) ==
    /\ Finalizable(r, "hold") /\ job[r].seen = "pending"
    /\ Refused(PayWritten(r, "guaranteed"))
    /\ Become(r, Saw("autorel", job[r].p, row[job[r].p].status, ""))
    /\ UNCHANGED <<order, table, stripe, processed, crashes>>

AutoReleaseCall(r) ==
    /\ job[r].pc = "autorel"
    /\ \/ /\ CancelIntent(job[r].p)
          /\ Become(r, [job[r] EXCEPT !.pc = "relend", !.doc = "released"])
       \/ /\ ~Cancelable(job[r].p) \/ "stripedown" \in entry
          /\ UNCHANGED stripe
          /\ Become(r, [job[r] EXCEPT !.pc = "relend", !.doc = "authorized"])
    /\ UNCHANGED <<order, table, processed, crashes>>

(* Mutant: released whatever Stripe answered. *)
AutoReleaseAssumed(r) ==
    /\ job[r].pc = "relend" /\ ~Locked(job[r].p)
    /\ SetPayment(job[r].p, "released")
    /\ payment_status' = PayWritten(r, "guarantee_released")
    /\ Done(r)
    /\ UNCHANGED <<status, held, order_type, stale, refunds, stripe,
                   processed, crashes>>

AutoReleaseEnd(r) ==
    /\ job[r].pc = "relend" /\ ~Locked(job[r].p)
    /\ SetPayment(job[r].p, Written(job[r].seen, job[r].doc,
                                    row[job[r].p].status))
    /\ payment_status' = PayWritten(r, IF job[r].doc = "released"
                                       THEN "guarantee_released"
                                       ELSE "guaranteed")
    /\ Done(r)
    /\ UNCHANGED <<status, held, order_type, stale, refunds, stripe,
                   processed, crashes>>

-----------------------------------------------------------------------------
(* Settling a hold: capture, release, cash *)

(* _authorized_guarantee: the latest active hold, taken FOR UPDATE. *)
Authorized(p) == row[p].purpose = "guarantee" /\ row[p].status = "authorized"

LatestHold(p) == /\ Authorized(p) /\ ~Locked(p)
                 /\ \A q \in Pay : Authorized(q) => q <= p

capture_guarantee(r, p, n) ==
    /\ "settle" \in entry /\ job[r] = Idle /\ LatestHold(p)
    /\ n \in 1 .. Total
    /\ row[p].ref = "pi" /\ pi[p] = "hold"
    /\ pi' = [pi EXCEPT ![p] = "succeeded"]
    /\ received' = [received EXCEPT ![p] = n]
    /\ Emits("succeeded", p)
    /\ Become(r, [At("capture", p) EXCEPT !.n = n])
    /\ UNCHANGED <<order, table, cs, refunded, processed, crashes>>

CaptureCommit(r) ==
    /\ job[r].pc = "capture"
    /\ row' = [row EXCEPT ![job[r].p].status = "paid",
                          ![job[r].p].captured = job[r].n]
    /\ payment_status' = IF job[r].n = Total THEN "paid"
                         ELSE "guarantee_captured"
    /\ Done(r)
    /\ UNCHANGED <<status, held, order_type, stale, refunds, stripe,
                   processed, crashes>>

(* Asked by the staff, or trailing a cancellation (best effort). *)
release_guarantee(r, p) ==
    /\ \/ "settle" \in entry /\ job[r] = Idle
       \/ job[r].pc = "trailing"
    /\ LatestHold(p)
    /\ CancelIntent(p)
    /\ Become(r, At("release", p))
    /\ UNCHANGED <<order, table, processed, crashes>>

(* Best effort: no active hold, or Stripe cannot cancel it. *)
ReleaseAbsorbed(r) ==
    /\ job[r].pc = "trailing"
    /\ \/ \A p \in Pay : ~Authorized(p)
       \/ "stripedown" \in entry
       \/ \E p \in Pay : LatestHold(p) /\ ~Cancelable(p)
    /\ Done(r)
    /\ UNCHANGED <<order, table, stripe, processed, crashes>>

ReleaseCommit(r) ==
    /\ job[r].pc = "release"
    /\ SetPayment(job[r].p, "released")
    /\ payment_status' = "guarantee_released"
    /\ Done(r)
    /\ UNCHANGED <<status, held, order_type, stale, refunds, stripe,
                   processed, crashes>>

settle_guarantee_cash(r, p) ==
    /\ "settle" \in entry /\ job[r] = Idle /\ LatestHold(p)
    /\ \E q \in Pay : Fresh(q)
    /\ CancelIntent(p)
    /\ Become(r, Saw("cash", p, "", ""))
    /\ UNCHANGED <<order, table, processed, crashes>>

CashCommit(r, q) ==
    /\ job[r].pc = "cash" /\ Fresh(q)
    /\ row' = [row EXCEPT ![job[r].p].status = "released",
                          ![q] = [NoRow EXCEPT !.provider = "cash",
                                               !.status = "paid"]]
    /\ payment_status' = PayWritten(r, "paid")
    /\ Done(r)
    /\ UNCHANGED <<status, held, order_type, stale, refunds, stripe,
                   processed, crashes>>

-----------------------------------------------------------------------------
(* The order's status, seen from the payments *)

(* PATCH /orders/{id}/status and the driver's screens; the post-commit     *)
(* release of the hold is the "trailing" job.                              *)
Commit(r, to) ==
    /\ MayMove(to, payment_status) /\ Moved(to)
    /\ Become(r, IF to \in {"cancelled", "rejected"}
                    /\ payment_status = "guaranteed"
                 THEN At("trailing", None) ELSE Idle)
    /\ UNCHANGED <<order_type, payment_status, stale, table, stripe,
                   processed, crashes>>

update_status(r, to) == to \in entry /\ job[r] = Idle /\ Commit(r, to)

(* resolve_failure reads under locks, lets go of them, and then asks      *)
(* update_status to send the order out again.                             *)
Redeliver(r) ==
    /\ "redeliver" \in entry /\ job[r] = Idle
    /\ status = "delivery_failed" /\ payment_status \in {"paid", "guaranteed"}
    /\ Become(r, At("redeliver", None))
    /\ UNCHANGED <<order, table, stripe, processed, crashes>>

RedeliverCommit(r) ==
    /\ job[r].pc = "redeliver"
    /\ status' = IF status = "delivery_failed" THEN "ready" ELSE status
    /\ Done(r)
    /\ UNCHANGED <<held, order_type, payment_status, stale, table, stripe,
                   processed, crashes>>

(* cancel_my_order checks "pending" without a lock, then cancels. *)
cancel_my_order(r) ==
    /\ "customer" \in entry /\ job[r] = Idle /\ status = "pending"
    /\ Become(r, At("cancel", None))
    /\ UNCHANGED <<order, table, stripe, processed, crashes>>

CustomerCancel(r) ==
    /\ job[r].pc = "cancel"
    /\ \/ Commit(r, "cancelled")
       \/ /\ ~MayMove("cancelled", payment_status)
          /\ Done(r)
          /\ UNCHANGED <<order, table, stripe, processed, crashes>>

(***************************************************************************)
(* cancel_stale_pending_orders: Stripe is asked to cancel every pending    *)
(* intent (a failure is only logged: done is what Stripe did cancel), and  *)
(* one commit cancels the order and expires the rows.                      *)
(***************************************************************************)
StalePayments == {p \in Pay : row[p].status = "pending"}

CancelIntents(done) ==
    /\ done \subseteq {p \in StalePayments : row[p].ref = "pi"
                                             /\ pi[p] \in {"open", "hold"}}
    /\ pi' = [p \in Pay |-> IF p \in done THEN "canceled" ELSE pi[p]]
    /\ sent' = sent \cup {Emit("canceled", p, 0) : p \in done}
    /\ UNCHANGED <<cs, received, refunded>>

(* Mutant: only an order with a pending payment is looked at. *)
ExpirableWithPayment ==
    /\ "expiry" \in entry /\ stale /\ StalePayments # {}
    /\ status = "pending" /\ payment_status = "pending"

Expirable == /\ "expiry" \in entry /\ stale
             /\ status = "pending" /\ payment_status = "pending"

cancel_stale_pending_orders(done) ==
    /\ Expirable
    /\ CancelIntents(done)
    /\ status' = "cancelled"
    /\ row' = [p \in Pay |-> IF p \in StalePayments
                             THEN [row[p] EXCEPT !.status = "expired"]
                             ELSE row[p]]
    /\ UNCHANGED <<held, order_type, payment_status, stale, refunds,
                   processed, job, crashes>>

(* The worker dies after the Stripe calls and before its commit. *)
ExpiryDies(done) ==
    /\ "crash" \in entry /\ Expirable /\ crashes < MaxCrash /\ done # {}
    /\ CancelIntents(done)
    /\ crashes' = crashes + 1
    /\ UNCHANGED <<order, table, processed, job>>

(* A handler dies (deploy, exception that nothing catches, lost            *)
(* connection): its open transaction is gone, its commits stay.            *)
Die(r) ==
    /\ "crash" \in entry /\ job[r] # Idle /\ crashes < MaxCrash
    /\ crashes' = crashes + 1
    /\ Done(r)
    /\ UNCHANGED <<order, table, stripe, processed>>

-----------------------------------------------------------------------------
Init ==
    /\ status = "none" /\ held = 0
    /\ order_type = "pickup" /\ payment_status = "pending" /\ stale = FALSE
    /\ row = [p \in Pay |-> NoRow] /\ refunds = [p \in Pay |-> 0]
    /\ pi = [p \in Pay |-> "none"] /\ cs = [p \in Pay |-> "none"]
    /\ received = [p \in Pay |-> 0] /\ refunded = [p \in Pay |-> 0]
    /\ sent = {} /\ processed = {}
    /\ job = [r \in Proc |-> Idle]
    /\ crashes = 0
    /\ entry \in Profiles

Creation ==
    \/ create_order
    \/ \E p \in Pay :
        \/ create_manual_order(p) \/ create_intent(p)
        \/ create_terminal_intent(p) \/ create_guarantee_intent(p)
        \/ \E r \in Proc, purpose \in {"sale", "guarantee"} :
             create_payment_link(r, p, purpose)

Outside ==
    \/ Elapse
    \/ \E p \in Pay : \/ PayCard(p) \/ DeclineCard(p) \/ HoldExpires(p)
                      \/ SessionExpires(p) \/ DashboardCapture(p)

Request(r) ==
    \/ \E p \in Pay : \/ confirm(r, p) \/ settle_guarantee_cash(r, p)
                      \/ \E n \in 1 .. Total : \/ create_refund(r, p, n)
                                               \/ capture_guarantee(r, p, n)
    \/ \E to \in Lifecycle!OrderStatus : update_status(r, to)
    \/ Redeliver(r) \/ cancel_my_order(r)

Deliver(r) == \E e \in sent \ processed : handle_webhook(r, e)

(* The steps of a handler that has started. *)
Continue(r) ==
    \/ LinkCreated(r)
    \/ handle_intent_event(r) \/ handle_checkout_completed(r)
    \/ handle_checkout_expired(r) \/ handle_charge_refunded(r)
    \/ handle_payment_failure(r) \/ FailureCommit(r)
    \/ SaleCommit(r) \/ SaleRefused(r) \/ SaleAbandoned(r)
    \/ AutoRefundMark(r)
    \/ \E q \in Pay : AutoRefundCall(r, q) \/ CashCommit(r, q)
    \/ AutoRefundImpossible(r) \/ RefundCommit(r) \/ AutoRefundEnd(r)
    \/ GuaranteeSkipped(r) \/ sync_external_capture(r)
    \/ GuaranteeCommit(r) \/ GuaranteeRefused(r)
    \/ AutoReleaseCall(r) \/ AutoReleaseEnd(r)
    \/ CaptureCommit(r) \/ ReleaseCommit(r) \/ ReleaseAbsorbed(r)
    \/ CustomerCancel(r) \/ RedeliverCommit(r)

Worker == \E done \in SUBSET Pay : cancel_stale_pending_orders(done)

Step ==
    \/ Creation \/ Outside \/ Worker
    \/ \E done \in SUBSET Pay : ExpiryDies(done)
    \/ \E r \in Proc :
        \/ Request(r) \/ Deliver(r) \/ Continue(r) \/ Die(r)
        \/ \E p \in Pay : release_guarantee(r, p)

Next == Step /\ UNCHANGED entry

Spec == Init /\ [][Next]_vars

(***************************************************************************)
(* Fairness.  A started handler runs to its end, and the worker's cron     *)
(* fires every minute.  Stripe redelivers an event until it is accepted,   *)
(* and the server opens a handler for each delivery: Proc is a bound of    *)
(* the model, so a delivery is not starved by other requests for ever.     *)
(* Customers, staff and card networks owe nobody anything.                 *)
(***************************************************************************)
Fairness ==
    /\ \A r \in Proc : WF_vars(/\ \/ Continue(r)
                                 \/ \E p \in Pay : job[r].pc = "trailing"
                                                  /\ release_guarantee(r, p)
                              /\ UNCHANGED entry)
    /\ SF_vars((\E r \in Proc : Deliver(r)) /\ UNCHANGED entry)
    /\ WF_vars(Worker /\ UNCHANGED entry)

FairSpec == Spec /\ Fairness

-----------------------------------------------------------------------------
(* Properties *)

(* Every variable keeps the shape its column or Stripe field has. *)
TypeOK ==
    /\ status \in Lifecycle!OrderStatus /\ held \in Int
    /\ order_type \in {"delivery", "pickup"}
    /\ payment_status \in OrderPaymentStatus /\ stale \in BOOLEAN
    /\ row \in [Pay -> Row] /\ refunds \in [Pay -> Nat]
    /\ pi \in [Pay -> IntentStatus]
    /\ cs \in [Pay -> {"none", "open", "done", "expired"}]
    /\ received \in [Pay -> 0 .. Total] /\ refunded \in [Pay -> 0 .. Total]
    /\ sent \subseteq Event /\ processed \subseteq sent
    /\ job \in [Proc -> Job]
    /\ crashes \in 0 .. MaxCrash /\ entry \in Profiles

CardRow(p) == row[p].provider # "cash"

Collected(st) == st \in {"paid", "partially_refunded", "refunded",
                         "refund_failed"}

(***************************************************************************)
(* No card payment is in the books as collected unless Stripe collected    *)
(* it, whichever of the webhook, /payments/confirm, a settlement or a      *)
(* refund wrote the row, and in whatever order (finalize_payment,          *)
(* finalize_guarantee, capture_guarantee, create_refund).                  *)
(***************************************************************************)
CollectedBeforePaid ==
    \A p \in Pay : CardRow(p) /\ Collected(row[p].status)
                   => pi[p] = "succeeded"

(***************************************************************************)
(* The books never show more refunded on a card payment than Stripe really *)
(* refunded, and Stripe never more than it collected, although two         *)
(* create_refund calls may both have read the same remainder.              *)
(***************************************************************************)
RefundsBacked ==
    \A p \in Pay : /\ refunded[p] <= received[p]
                   /\ CardRow(p) => refunds[p] <= refunded[p]

(***************************************************************************)
(* "un blocage n'est marqué `released` qu'après confirmation Stripe": a    *)
(* guarantee row that release, cash settlement, expiry or the automatic    *)
(* release wrote as released is gone from the card.  The sentence is not   *)
(* true without its condition: when Stripe reported a refused attempt of   *)
(* that very intent, handle_payment_failure may release in the books a     *)
(* hold that was granted meanwhile and that still blocks the card          *)
(* (release_guarantee, handle_guarantee_canceled).                         *)
(***************************************************************************)
Failed(p) == \E e \in processed : e.type = "payment_failed" /\ e.p = p

ReleasedIsCanceled ==
    \A p \in Pay : row[p].purpose = "guarantee" /\ row[p].status = "released"
                   => pi[p] = "canceled" \/ Failed(p)

(***************************************************************************)
(* What the books say was captured on a hold is what Stripe took, even     *)
(* when a handler died between the capture and its commit and the amount   *)
(* was found out later (capture_guarantee, _sync_external_capture).        *)
(***************************************************************************)
CapturedAsStripeSays ==
    \A p \in Pay : row[p].purpose = "guarantee" /\ Collected(row[p].status)
                   => row[p].captured = received[p]

(***************************************************************************)
(* Money in the books stays there, whichever handlers overlap, die or come *)
(* late, but for two writes that rest on an older read:                    *)
(* handle_payment_failure, when Stripe had reported a declined attempt,    *)
(* and the automatic release of finalize_guarantee, when it fails because  *)
(* somebody captured the hold meanwhile.                                   *)
(***************************************************************************)
Declined(p)  == Emit("payment_failed", p, 0) \in sent
Releasing(p) == \E r \in Proc : /\ job[r].pc = "relend" /\ job[r].p = p
                                /\ job[r].doc = "authorized"

CollectedStays ==
    [][\A p \in Pay :
          Collected(row[p].status) /\ ~Declined(p) /\ ~Releasing(p)
          => Collected(row'[p].status)]_vars

(***************************************************************************)
(* The worker's own write of orders.status, the confirmations that come    *)
(* from payments, the staff and the customer all stay inside the life      *)
(* cycle, with the stock taken and given back once (update_status,         *)
(* cancel_stale_pending_orders, create_manual_order).                      *)
(***************************************************************************)
ImplementsLifecycle == Lifecycle!Spec

(***************************************************************************)
(* However the payment, the staff, the customer and the worker race, an    *)
(* order that reached the kitchen holds its ingredients once and any other *)
(* that was not prepared holds none (finalize_payment, update_status).     *)
(***************************************************************************)
StockHeldOnce == Lifecycle!HeldOnce

(***************************************************************************)
(* Money that Stripe collected for a sale ends up in the books: as paid or *)
(* as refunded, as long as no handler dies (handle_webhook).               *)
(***************************************************************************)
SucceededIsSettled ==
    \A p \in Pay : (pi[p] = "succeeded" /\ row[p].purpose = "sale")
                   ~> Collected(row[p].status)

(***************************************************************************)
(* Money that Stripe collected for a sale is not forgotten while no        *)
(* handler dies: until it is in the books its event is still to come or a  *)
(* handler has the payment in hand, although handle_webhook commits the    *)
(* event's mark before the treatment and a new link may have closed the    *)
(* row meanwhile.  A declined card may take it out of the books again (see *)
(* CollectedStays), and the rollback that reads an expired row ends its    *)
(* handler: both are closed.                                               *)
(***************************************************************************)
Undisturbed == crashes = 0 /\ entry \cap {"decline", "expired_read"} = {}
Unbooked(p) == /\ pi[p] = "succeeded" /\ row[p].purpose = "sale"
               /\ ~Collected(row[p].status)
InHand(p)   == \E r \in Proc : /\ job[r].p = p
                               /\ \/ job[r].pc \in {"sale", "auto"}
                                  \/ job[r].pc = "event" /\ job[r].doc = "succeeded"

NothingForgotten ==
    Undisturbed => \A p \in Pay : Unbooked(p) =>
                     Emit("succeeded", p, 0) \in sent \ processed \/ InHand(p)

(***************************************************************************)
(* A hold that blocks a customer's card is not lost either, while no       *)
(* handler dies: until the books show it as authorized its event is still  *)
(* to come or a handler of finalize_guarantee has it in hand, although the *)
(* row may have been expired by a new link, a session or the worker, the   *)
(* order cancelled, and several handlers queue for the row.  A refused     *)
(* attempt of that intent may take it out of the books (see Failed).       *)
(***************************************************************************)
HoldInHand(p) ==
    \E r \in Proc :
      /\ job[r].p = p
      /\ \/ job[r].pc = "event" /\ job[r].doc = "capturable"
         \/ job[r].pc = "guar" /\ job[r].doc \in {"hold", "verify"}
         \/ job[r].pc = "autorel"
         \/ job[r].pc = "relend" /\ job[r].doc = "authorized"

HoldsKnown ==
    crashes = 0 => \A p \in Pay :
      pi[p] = "hold" /\ row[p].status # "authorized" =>
        \/ Emit("capturable", p, 0) \in sent \ processed
        \/ HoldInHand(p) \/ Failed(p)

(***************************************************************************)
(* An order does not stay pending for ever, whatever intents, links, holds *)
(* and dying sessions it collects and whichever of its payments succeed    *)
(* (cancel_stale_pending_orders, finalize_payment, finalize_guarantee),    *)
(* but for the orders whose payment_status an outcome has moved for good   *)
(* so that the worker no longer selects them: an attempt was refused, an   *)
(* intent or a hold was cancelled, a payment was given back because the    *)
(* order could not be confirmed, or its hold should have been and Stripe   *)
(* was asked with the identifier of the Checkout page.                     *)
(***************************************************************************)
Decided(p) == \/ Failed(p) \/ pi[p] = "canceled"
              \/ row[p].status \in {"refunded", "refund_failed", "authorized"}

StaleOrdersExpire ==
    (status = "pending" /\ stale)
      ~> (status # "pending" \/ \E p \in Pay : Decided(p))

=============================================================================
