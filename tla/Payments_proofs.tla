-------------------------- MODULE Payments_proofs --------------------------
(***************************************************************************)
(* What Payments guarantees for every number of payments and of handlers,  *)
(* every amount and every profile.                                         *)
(***************************************************************************)
EXTENDS Payments, FiniteSetTheorems, TLAPS

-----------------------------------------------------------------------------
(* The order's life cycle *)

(* A move that update_status accepts is a step of the life cycle. *)
LEMMA MoveStep ==
    ASSUME NEW to, NEW pay, MayMove(to, pay), Moved(to)
    PROVE  Lifecycle!Next
<1>1. CASE to = "confirmed"
  BY <1>1 DEF MayMove, Moved, Lifecycle!Next, Lifecycle!Confirm
<1>2. CASE to = "cancelled"
  BY <1>2 DEF MayMove, Moved, Lifecycle!Next, Lifecycle!Cancel
<1>3. CASE to \notin {"confirmed", "cancelled"}
  BY <1>3 DEF MayMove, Moved, Lifecycle!Next, Lifecycle!Advance
<1> QED
  BY <1>1, <1>2, <1>3

(* The steps that leave the order's status and its ingredients alone. *)
Same == status' = status /\ held' = held

LEMMA CreationLife ==
    ASSUME Creation
    PROVE  Lifecycle!Next \/ Same
<1> USE DEF Same, order, table, stripe
<1>1. CASE create_order
  BY <1>1 DEF create_order, Lifecycle!Next, Lifecycle!Create
<1>2. ASSUME NEW p \in Pay, create_manual_order(p) PROVE Lifecycle!Next
  BY <1>2 DEF create_manual_order, Lifecycle!Next, Lifecycle!Create
<1>3. ASSUME NEW p \in Pay, \/ create_intent(p) \/ create_terminal_intent(p)
                            \/ create_guarantee_intent(p)
      PROVE  Same
  BY <1>3 DEF create_intent, create_terminal_intent, create_guarantee_intent,
              NewIntent
<1>4. ASSUME NEW p \in Pay, NEW r \in Proc, NEW purpose,
             create_payment_link(r, p, purpose)
      PROVE  Same
  BY <1>4 DEF create_payment_link
<1> QED
  BY <1>1, <1>2, <1>3, <1>4 DEF Creation

LEMMA RequestLife ==
    ASSUME NEW r \in Proc, Request(r) \/ Deliver(r)
    PROVE  Lifecycle!Next \/ Same
<1> USE DEF Same, order, table, stripe
<1>1. ASSUME NEW to, update_status(r, to) PROVE Lifecycle!Next
  BY <1>1, MoveStep DEF update_status, Commit
<1>2. ASSUME Redeliver(r) PROVE Same
  BY <1>2 DEF Redeliver
<1>3. ASSUME NEW p \in Pay, \/ confirm(r, p) \/ settle_guarantee_cash(r, p)
      PROVE  Same
  BY <1>3 DEF confirm, settle_guarantee_cash
<1>4. ASSUME NEW p \in Pay, NEW n \in 1 .. Total,
             create_refund(r, p, n) \/ capture_guarantee(r, p, n)
      PROVE  Same
  BY <1>4 DEF create_refund, RefundCall, capture_guarantee
<1>5. ASSUME cancel_my_order(r) PROVE Same
  BY <1>5 DEF cancel_my_order
<1>6. ASSUME Deliver(r) PROVE Same
  BY <1>6 DEF Deliver, handle_webhook
<1> QED
  BY <1>1, <1>2, <1>3, <1>4, <1>5, <1>6 DEF Request

LEMMA ContinueLife ==
    ASSUME NEW r \in Proc, Continue(r)
    PROVE  Lifecycle!Next \/ Same
<1> USE DEF Same, order, table, stripe
<1>1. ASSUME SaleCommit(r) PROVE Lifecycle!Next \/ Same
  BY <1>1, MoveStep DEF SaleCommit
<1>2. ASSUME GuaranteeCommit(r) PROVE Lifecycle!Next \/ Same
  BY <1>2, MoveStep DEF GuaranteeCommit
<1>3. ASSUME CustomerCancel(r) PROVE Lifecycle!Next \/ Same
  BY <1>3, MoveStep DEF CustomerCancel, Commit
<1>4. ASSUME \/ LinkCreated(r) \/ handle_intent_event(r)
             \/ handle_checkout_completed(r) \/ handle_checkout_expired(r)
             \/ handle_charge_refunded(r) \/ handle_payment_failure(r)
             \/ FailureCommit(r) \/ SaleRefused(r) \/ SaleAbandoned(r)
             \/ AutoRefundMark(r)
      PROVE  Same
  BY <1>4
  DEF LinkCreated, handle_intent_event, handle_checkout_completed,
      handle_checkout_expired, handle_charge_refunded, handle_payment_failure,
      FailureCommit, SaleRefused, SaleAbandoned, AutoRefundMark
<1>5. ASSUME NEW q \in Pay, AutoRefundCall(r, q) \/ CashCommit(r, q)
      PROVE  Same
  BY <1>5 DEF AutoRefundCall, RefundCall, CashCommit
<1>6. ASSUME \/ AutoRefundImpossible(r) \/ RefundCommit(r)
             \/ AutoRefundEnd(r) \/ GuaranteeSkipped(r)
             \/ sync_external_capture(r) \/ GuaranteeRefused(r)
             \/ AutoReleaseCall(r) \/ AutoReleaseEnd(r)
             \/ CaptureCommit(r) \/ ReleaseCommit(r) \/ ReleaseAbsorbed(r)
      PROVE  Same
  BY <1>6
  DEF AutoRefundImpossible, RefundCommit, AutoRefundEnd, GuaranteeSkipped,
      sync_external_capture, GuaranteeRefused, AutoReleaseCall,
      AutoReleaseEnd, CaptureCommit, ReleaseCommit, ReleaseAbsorbed
<1>7. ASSUME RedeliverCommit(r) PROVE Lifecycle!Next \/ Same
  BY <1>7 DEF RedeliverCommit, Lifecycle!Next, Lifecycle!Redeliver
<1> QED
  BY <1>1, <1>2, <1>3, <1>4, <1>5, <1>6, <1>7 DEF Continue

(***************************************************************************)
(* Every step of every handler, of Stripe and of the worker is a step of   *)
(* the life cycle or leaves it alone.                                      *)
(***************************************************************************)
LEMMA LifeStep ==
    ASSUME [Next]_vars
    PROVE  [Lifecycle!Next]_(Lifecycle!lvars)
<1> USE DEF Same, order, table, stripe
<1>1. ASSUME Outside PROVE Same
  BY <1>1 DEF Outside, Elapse, PayCard, DeclineCard, HoldExpires,
              SessionExpires, DashboardCapture, StripeOnly
<1>2. ASSUME NEW done, cancel_stale_pending_orders(done) PROVE Lifecycle!Next
  <2>1. status = "pending" /\ status' = "cancelled" /\ held' = held
    BY <1>2 DEF cancel_stale_pending_orders, Expirable
  <2> QED
    BY <2>1 DEF Lifecycle!Next, Lifecycle!Cancel, Lifecycle!VALID_TRANSITIONS,
                Lifecycle!OrderStatus
<1>3. ASSUME NEW done, ExpiryDies(done) PROVE Same
  BY <1>3 DEF ExpiryDies
<1>4. ASSUME NEW r \in Proc, NEW p \in Pay,
             Die(r) \/ release_guarantee(r, p)
      PROVE  Same
  BY <1>4 DEF Die, release_guarantee
<1>5. ASSUME NEW r \in Proc, Die(r) PROVE Same
  BY <1>5 DEF Die
<1>6. CASE UNCHANGED vars
  BY <1>6 DEF vars, Lifecycle!lvars
<1> QED
  BY <1>1, <1>2, <1>3, <1>4, <1>5, <1>6, CreationLife, RequestLife,
     ContinueLife
  DEF Next, Step, Worker, Lifecycle!lvars

(***************************************************************************)
(* The confirmations that come from payments, the staff's and the          *)
(* customer's moves and the worker's own write of orders.status implement  *)
(* the life cycle of the order.                                            *)
(***************************************************************************)
THEOREM PaymentsImplementsLifecycle == Spec => ImplementsLifecycle
<1>1. Init => Lifecycle!Init
  BY DEF Init, Lifecycle!Init
<1> QED
  BY <1>1, LifeStep, PTL DEF Spec, ImplementsLifecycle, Lifecycle!Spec

(***************************************************************************)
(* update_status, from whichever handler it is called: an order that       *)
(* reached the kitchen holds its ingredients once.                         *)
(***************************************************************************)
THEOREM PaymentsStockHeldOnce == Spec => []StockHeldOnce
<1> USE DEF StockHeldOnce, Lifecycle!HeldOnce, Lifecycle!Cooked,
            Lifecycle!Uncooked, Lifecycle!OrderStatus
<1>1. Init => StockHeldOnce
  BY DEF Init
<1>2. StockHeldOnce /\ [Lifecycle!Next]_(Lifecycle!lvars) => StockHeldOnce'
  <2> SUFFICES ASSUME StockHeldOnce, [Lifecycle!Next]_(Lifecycle!lvars)
               PROVE  StockHeldOnce'
    OBVIOUS
  <2>1. CASE Lifecycle!Create
    BY <2>1 DEF Lifecycle!Create
  <2>2. CASE Lifecycle!Confirm
    BY <2>2 DEF Lifecycle!Confirm, Lifecycle!VALID_TRANSITIONS
  <2>3. CASE Lifecycle!Cancel
    BY <2>3 DEF Lifecycle!Cancel, Lifecycle!VALID_TRANSITIONS
  <2>4. CASE Lifecycle!Advance
    BY <2>4 DEF Lifecycle!Advance, Lifecycle!VALID_TRANSITIONS
  <2>5. CASE Lifecycle!Redeliver \/ Lifecycle!Reopen
    BY <2>5 DEF Lifecycle!Redeliver, Lifecycle!Reopen
  <2>6. CASE UNCHANGED Lifecycle!lvars
    BY <2>6 DEF Lifecycle!lvars
  <2> QED
    BY <2>1, <2>2, <2>3, <2>4, <2>5, <2>6 DEF Lifecycle!Next
<1> QED
  BY <1>1, <1>2, LifeStep, PTL DEF Spec

-----------------------------------------------------------------------------
(***************************************************************************)
(* The money.  What Stripe has done never goes back: an intent that        *)
(* succeeded or was cancelled stays so, with the amount it received; and a *)
(* row that exists keeps its purpose and its provider.  The facts a        *)
(* handler has in hand while it works are of this kind, so no other        *)
(* handler can take them away.                                             *)
(***************************************************************************)
Sold(p) == row[p].status # "absent" /\ row[p].purpose = "sale"

(* Stripe took the money of row p, or it was cash; and the row says how    *)
(* much of a hold was taken.                                               *)
Taken(p) ==
    /\ row[p].status # "absent"
    /\ row[p].provider = "cash" \/ pi[p] = "succeeded"
    /\ row[p].purpose = "guarantee" => pi[p] = "succeeded" /\ row[p].captured = received[p]

EventFact(type, p) ==
    /\ row[p].status # "absent"
    /\ type = "succeeded" => pi[p] = "succeeded"
    /\ type = "canceled" => pi[p] = "canceled"
    /\ type = "refunded" => Taken(p)
    /\ type = "payment_failed" => "decline" \in entry

OnPay == {"event", "sale", "auto", "refund", "autoend", "fail", "guar", "autorel",
          "relend", "capture", "release", "cash", "link"}
Refunding  == {"auto", "refund", "autoend"}

JobFact(j) ==
    /\ j.pc \in OnPay => j.p \in Pay /\ row[j.p].status # "absent"
    /\ j.pc = "event" => EventFact(j.doc, j.p) /\ (j.doc = "payment_failed" => Failed(j.p))
    /\ j.pc \in Refunding \cup {"sale"} => Sold(j.p)
    /\ j.pc \in Refunding => pi[j.p] = "succeeded"
    /\ j.pc = "autoend" => j.doc \in {"refunded", "refund_failed"}
    /\ j.pc = "row" => /\ j.q \in Pay /\ Taken(j.q)
                       /\ j.doc \in {"refunded", "partially_refunded", "failed"}
                       /\ j.p # None => j.p \in Pay /\ Sold(j.p) /\ pi[j.p] = "succeeded"
    /\ j.pc = "guar" /\ j.doc = "succeeded" => pi[j.p] = "succeeded"
    /\ j.pc = "capture" => pi[j.p] = "succeeded" /\ received[j.p] = j.n
    /\ j.pc \in {"release", "cash"} => pi[j.p] = "canceled"
    /\ j.pc = "relend" => /\ j.doc \in {"released", "authorized"}
                          /\ j.doc = "released" => pi[j.p] = "canceled"
    /\ j.pc = "fail" => Failed(j.p) \/ pi[j.p] = "canceled"

RowFact(p) ==
    /\ row[p].status = "absent" => row[p] = NoRow /\ pi[p] = "none" /\ cs[p] = "none"
    /\ row[p].provider = "cash" => row[p].purpose = "sale"
    /\ Collected(row[p].status) => Taken(p)
    /\ row[p].purpose = "guarantee" /\ row[p].status = "released"
         => Failed(p) \/ pi[p] = "canceled"
    /\ pi[p] # "succeeded" => received[p] = 0 /\ refunded[p] = 0
    /\ refunded[p] <= received[p]

Facts == /\ \A p \in Pay : RowFact(p)
         /\ \A e \in sent : EventFact(e.type, e.p)
         /\ \A r \in Proc : JobFact(job[r])

MoneyInv == TypeOK /\ Facts

(* What a step never takes back. *)
Grows ==
    /\ entry' = entry /\ processed \subseteq processed'
    /\ \A p \in Pay :
         /\ pi[p] = "succeeded" => pi'[p] = "succeeded" /\ received'[p] = received[p]
         /\ pi[p] = "canceled" => pi'[p] = "canceled"
         /\ row[p].status # "absent" =>
              /\ row'[p].status # "absent"
              /\ row'[p].purpose = row[p].purpose /\ row'[p].provider = row[p].provider
         /\ pi[p] = "succeeded" /\ row[p].captured = received[p] => row'[p].captured = received[p]

LEMMA SoldGrows ==
    ASSUME Grows, NEW p \in Pay, Sold(p)
    PROVE  Sold(p)'
BY DEF Grows, Sold

LEMMA TakenGrows ==
    ASSUME Grows, NEW p \in Pay, Taken(p)
    PROVE  Taken(p)'
BY DEF Grows, Taken

LEMMA EventGrows ==
    ASSUME Grows, NEW p \in Pay, NEW type, EventFact(type, p)
    PROVE  EventFact(type, p)'
<1>1. type = "refunded" => Taken(p)'
  BY TakenGrows DEF EventFact
<1> QED
  BY <1>1 DEF EventFact, Grows

LEMMA FailedGrows ==
    ASSUME Grows, NEW p, Failed(p)
    PROVE  Failed(p)'
BY DEF Grows, Failed

LEMMA JobGrows ==
    ASSUME Grows, NEW j, JobFact(j)
    PROVE  JobFact(j)'
<1>0. /\ j.pc \in OnPay => j.p \in Pay
      /\ j.pc = "row" => j.q \in Pay /\ (j.p # None => j.p \in Pay)
  BY DEF JobFact
<1>1. j.pc = "event" => EventFact(j.doc, j.p)'
  <2> SUFFICES ASSUME j.pc = "event" PROVE EventFact(j.doc, j.p)'
    OBVIOUS
  <2>1. j.p \in Pay /\ EventFact(j.doc, j.p)
    BY <1>0 DEF JobFact, OnPay
  <2> QED
    BY <2>1, EventGrows
<1>2. j.pc = "row" => /\ Taken(j.q)'
                      /\ j.p # None => Sold(j.p)' /\ pi'[j.p] = "succeeded"
  <2> SUFFICES ASSUME j.pc = "row"
               PROVE  Taken(j.q)' /\ (j.p # None => Sold(j.p)' /\ pi'[j.p] = "succeeded")
    OBVIOUS
  <2>1. Taken(j.q)'
    BY <1>0, TakenGrows DEF JobFact
  <2>2. j.p # None => Sold(j.p)' /\ pi'[j.p] = "succeeded"
    BY <1>0, SoldGrows DEF JobFact, Grows
  <2> QED
    BY <2>1, <2>2
<1>3. j.pc \in Refunding \cup {"sale"} => Sold(j.p)'
  BY <1>0, SoldGrows DEF JobFact, Refunding, OnPay
<1>4. j.pc \in OnPay =>
        /\ pi[j.p] = "succeeded" => pi'[j.p] = "succeeded" /\ received'[j.p] = received[j.p]
        /\ pi[j.p] = "canceled" => pi'[j.p] = "canceled"
        /\ row[j.p].status # "absent" => row'[j.p].status # "absent"
  BY <1>0 DEF Grows
<1>5. Failed(j.p) => Failed(j.p)'
  BY FailedGrows
<1> QED
  BY <1>0, <1>1, <1>2, <1>3, <1>4, <1>5 DEF JobFact, OnPay, Refunding

(* The facts after a step: the rows', those of the new events, those of    *)
(* the handler that moved.                                                 *)
LEMMA FactsStep ==
    ASSUME MoneyInv, Grows, \A p \in Pay : RowFact(p)',
           \A e \in sent' : e \in sent \/ EventFact(e.type, e.p)',
           \A s \in Proc : job'[s] = job[s] \/ JobFact(job[s])'
    PROVE  Facts'
<1>1. \A e \in sent' : EventFact(e.type, e.p)'
  <2> TAKE e \in sent'
  <2>1. CASE e \in sent
    <3>1. e.p \in Pay /\ EventFact(e.type, e.p)
      BY <2>1 DEF MoneyInv, TypeOK, Facts, Event
    <3> QED
      BY <3>1, EventGrows
  <2> QED
    BY <2>1
<1>2. \A s \in Proc : JobFact(job[s])'
  <2> TAKE s \in Proc
  <2>1. CASE job'[s] = job[s]
    <3>1. PICK j : j = job[s]
      OBVIOUS
    <3>2. JobFact(j)
      BY <3>1 DEF MoneyInv, Facts
    <3>3. JobFact(j)'
      BY <3>2, JobGrows
    <3> QED
      BY <2>1, <3>1, <3>3
  <2> QED
    BY <2>1
<1> QED
  BY <1>1, <1>2 DEF Facts


-----------------------------------------------------------------------------
(* Types of the order's columns *)

OrderT ==
    /\ status \in Lifecycle!OrderStatus /\ held \in Int
    /\ order_type \in {"delivery", "pickup"}
    /\ payment_status \in OrderPaymentStatus /\ stale \in BOOLEAN
    /\ crashes \in 0 .. MaxCrash /\ entry \in Profiles

(* The columns that the life cycle does not show. *)
Rest ==
    /\ order_type \in {"delivery", "pickup"}
    /\ payment_status \in OrderPaymentStatus /\ stale \in BOOLEAN
    /\ crashes \in 0 .. MaxCrash

LEMMA LifeTypes ==
    ASSUME status \in Lifecycle!OrderStatus, held \in Int, [Lifecycle!Next]_(Lifecycle!lvars)
    PROVE  status' \in Lifecycle!OrderStatus /\ held' \in Int
<1> USE DEF Lifecycle!OrderStatus
<1>1. CASE Lifecycle!Create
  BY <1>1 DEF Lifecycle!Create
<1>2. CASE Lifecycle!Confirm
  BY <1>2 DEF Lifecycle!Confirm
<1>3. CASE Lifecycle!Cancel
  BY <1>3 DEF Lifecycle!Cancel
<1>4. CASE Lifecycle!Advance
  BY <1>4 DEF Lifecycle!Advance, Lifecycle!VALID_TRANSITIONS
<1>5. CASE Lifecycle!Redeliver \/ Lifecycle!Reopen
  BY <1>5 DEF Lifecycle!Redeliver, Lifecycle!Reopen
<1>6. CASE UNCHANGED Lifecycle!lvars
  BY <1>6 DEF Lifecycle!lvars
<1> QED
  BY <1>1, <1>2, <1>3, <1>4, <1>5, <1>6 DEF Lifecycle!Next

LEMMA PayWrittenIs ==
    ASSUME Rest, NEW r, NEW new \in OrderPaymentStatus
    PROVE  PayWritten(r, new) \in OrderPaymentStatus
BY DEF Rest, PayWritten, Written

LEMMA RestStep ==
    ASSUME Rest, Step
    PROVE  Rest'
<1>0. "paid" \in OrderPaymentStatus /\ "failed" \in OrderPaymentStatus
      /\ "guaranteed" \in OrderPaymentStatus /\ "guarantee_released" \in OrderPaymentStatus
      /\ "guarantee_captured" \in OrderPaymentStatus
  BY DEF OrderPaymentStatus
<1>s. ASSUME UNCHANGED <<order, crashes>> PROVE Rest'
  BY <1>s DEF Rest, order
<1>p. ASSUME UNCHANGED <<order_type, stale, crashes>>, payment_status' \in OrderPaymentStatus PROVE Rest'
  BY <1>p DEF Rest
<1>1. ASSUME Creation PROVE Rest'
  <2>1. CASE create_order
    BY <2>1 DEF create_order, Rest
  <2>2. ASSUME NEW p \in Pay, create_manual_order(p) PROVE Rest'
    BY <2>2, <1>0 DEF create_manual_order, Rest
  <2>3. ASSUME NEW p \in Pay, \/ create_intent(p) \/ create_terminal_intent(p)
                              \/ create_guarantee_intent(p)
        PROVE  Rest'
    BY <2>3, <1>s DEF create_intent, create_terminal_intent, create_guarantee_intent, NewIntent
  <2>4. ASSUME NEW p \in Pay, NEW r \in Proc, NEW purpose, create_payment_link(r, p, purpose) PROVE Rest'
    BY <2>4, <1>s DEF create_payment_link
  <2> QED
    BY <2>1, <2>2, <2>3, <2>4, <1>1 DEF Creation
<1>2. ASSUME Outside PROVE Rest'
  <2>1. CASE Elapse
    BY <2>1 DEF Elapse, Rest
  <2>2. ASSUME NEW p \in Pay, \/ PayCard(p) \/ DeclineCard(p) \/ HoldExpires(p)
                              \/ SessionExpires(p) \/ DashboardCapture(p)
        PROVE  Rest'
    BY <2>2, <1>s DEF PayCard, DeclineCard, HoldExpires, SessionExpires, DashboardCapture, StripeOnly
  <2> QED
    BY <2>1, <2>2, <1>2 DEF Outside
<1>3. ASSUME NEW r \in Proc, Request(r) \/ Deliver(r) PROVE Rest'
  <2>1. ASSUME NEW to, update_status(r, to) PROVE Rest'
    BY <2>1, <1>p DEF update_status, Commit, Rest
  <2>2. ASSUME \/ Redeliver(r) \/ cancel_my_order(r) \/ Deliver(r)
               \/ \E p \in Pay : confirm(r, p) \/ settle_guarantee_cash(r, p)
               \/ \E p \in Pay, n \in 1 .. Total : create_refund(r, p, n) \/ capture_guarantee(r, p, n)
        PROVE  Rest'
    BY <2>2, <1>s DEF Redeliver, cancel_my_order, Deliver, handle_webhook, confirm,
                      settle_guarantee_cash, create_refund, RefundCall, capture_guarantee
  <2> QED
    BY <2>1, <2>2, <1>3 DEF Request
<1>4. ASSUME NEW r \in Proc, Continue(r) PROVE Rest'
  <2>0. \A new \in OrderPaymentStatus : PayWritten(r, new) \in OrderPaymentStatus
    BY PayWrittenIs
  <2>1. ASSUME SaleCommit(r) PROVE Rest'
    <3>1. payment_status' \in OrderPaymentStatus
      BY <2>0, <2>1, <1>0 DEF SaleCommit, SalePaid, Rest
    <3> QED
      BY <3>1, <2>1, <1>p DEF SaleCommit
  <2>2. ASSUME GuaranteeCommit(r) PROVE Rest'
    BY <2>0, <2>2, <1>0, <1>p DEF GuaranteeCommit
  <2>3. ASSUME CustomerCancel(r) PROVE Rest'
    <3>1. CASE Commit(r, "cancelled")
      BY <3>1, <1>p DEF Commit, Rest
    <3> QED
      BY <3>1, <2>3, <1>s DEF CustomerCancel
  <2>4. ASSUME \/ LinkCreated(r) \/ handle_intent_event(r) \/ handle_checkout_completed(r)
               \/ handle_checkout_expired(r) \/ handle_charge_refunded(r) \/ handle_payment_failure(r)
               \/ SaleRefused(r) \/ SaleAbandoned(r)
        PROVE  Rest'
    BY <2>4, <1>s DEF LinkCreated, handle_intent_event, handle_checkout_completed,
      handle_checkout_expired, handle_charge_refunded, handle_payment_failure,
      SaleRefused, SaleAbandoned
  <2>5. ASSUME FailureCommit(r) PROVE Rest'
    <3>1. payment_status' \in OrderPaymentStatus
      BY <2>0, <2>5, <1>0 DEF FailureCommit, Rest
    <3> QED
      BY <3>1, <2>5, <1>p DEF FailureCommit
  <2>6. ASSUME AutoRefundMark(r) \/ CaptureCommit(r) \/ ReleaseCommit(r) PROVE Rest'
    BY <2>6, <1>0, <1>p DEF AutoRefundMark, CaptureCommit, ReleaseCommit
  <2>7. ASSUME NEW q \in Pay, AutoRefundCall(r, q) \/ CashCommit(r, q) PROVE Rest'
    BY <2>0, <2>7, <1>0, <1>s, <1>p DEF AutoRefundCall, RefundCall, CashCommit
  <2>8. ASSUME \/ AutoRefundImpossible(r) \/ RefundCommit(r) \/ AutoRefundEnd(r) \/ GuaranteeSkipped(r)
               \/ GuaranteeRefused(r) \/ AutoReleaseCall(r) \/ ReleaseAbsorbed(r)
        PROVE  Rest'
    BY <2>8, <1>s DEF AutoRefundImpossible, RefundCommit, AutoRefundEnd, GuaranteeSkipped,
                      GuaranteeRefused, AutoReleaseCall, ReleaseAbsorbed
  <2>9. ASSUME sync_external_capture(r) \/ AutoReleaseEnd(r) PROVE Rest'
    <3>1. payment_status' \in OrderPaymentStatus
      BY <2>0, <2>9, <1>0 DEF sync_external_capture, AutoReleaseEnd
    <3> QED
      BY <3>1, <2>9, <1>p DEF sync_external_capture, AutoReleaseEnd
  <2>10. ASSUME RedeliverCommit(r) PROVE Rest'
    BY <2>10, <1>p DEF RedeliverCommit, Rest
  <2> QED
    BY <2>1, <2>2, <2>3, <2>4, <2>5, <2>6, <2>7, <2>8, <2>9, <2>10, <1>4 DEF Continue
<1>5. ASSUME NEW done, cancel_stale_pending_orders(done) PROVE Rest'
  BY <1>5, <1>p DEF cancel_stale_pending_orders, Rest
<1>6. ASSUME NEW done, ExpiryDies(done) PROVE Rest'
  BY <1>6, CrashAssumption DEF ExpiryDies, Rest, order
<1>7. ASSUME NEW r \in Proc, NEW p \in Pay, release_guarantee(r, p) PROVE Rest'
  BY <1>7, <1>s DEF release_guarantee
<1>8. ASSUME NEW r \in Proc, Die(r) PROVE Rest'
  BY <1>8, CrashAssumption DEF Die, Rest, order
<1> HIDE DEF Rest
<1> QED
  BY <1>1, <1>2, <1>3, <1>4, <1>5, <1>6, <1>7, <1>8 DEF Step, Worker

LEMMA OrderStep ==
    ASSUME OrderT, Next
    PROVE  OrderT'
<1>1. status' \in Lifecycle!OrderStatus /\ held' \in Int
  BY LifeStep, LifeTypes DEF OrderT
<1>2. Rest' /\ entry' = entry
  BY RestStep DEF OrderT, Rest, Next
<1> QED
  BY <1>1, <1>2 DEF OrderT, Rest


-----------------------------------------------------------------------------
(* The shapes of a step *)

TableT  == row \in [Pay -> Row] /\ refunds \in [Pay -> Nat]
StripeT == /\ pi \in [Pay -> IntentStatus]
           /\ cs \in [Pay -> {"none", "open", "done", "expired"}]
           /\ received \in [Pay -> 0 .. Total] /\ refunded \in [Pay -> 0 .. Total]
           /\ sent \subseteq Event /\ processed \subseteq sent
JobT    == job \in [Proc -> Job]
Money   == TableT /\ StripeT /\ JobT /\ Facts

LEMMA MoneyIs == MoneyInv <=> OrderT /\ Money
BY DEF MoneyInv, TypeOK, OrderT, Money, TableT, StripeT, JobT

LEMMA IdleIs == Idle \in Job /\ Idle.pc = "idle" /\ JobFact(Idle)
<1>1. Idle \in Job /\ Idle.pc = "idle"
  <2>1. "" \in Seen /\ "" \in Doc /\ "idle" \in Control /\ 0 \in 0 .. Total
    BY TotalAssumption DEF Seen, Doc, Control
  <2> QED
    BY <2>1 DEF Idle, Job
<1> QED
  BY <1>1 DEF JobFact, OnPay, Refunding

LEMMA AtIs ==
    ASSUME NEW pc \in Control, NEW p \in Pay \cup {None}
    PROVE  At(pc, p) \in Job /\ At(pc, p).pc = pc /\ At(pc, p).p = p
<1>1. "" \in Seen /\ "" \in Doc /\ 0 \in 0 .. Total
  BY TotalAssumption DEF Seen, Doc
<1> QED
  BY <1>1 DEF At, Idle, Job

LEMMA SawIs ==
    ASSUME OrderT, NEW pc \in Control, NEW p \in Pay \cup {None}, NEW s \in Seen, NEW d \in Doc
    PROVE  /\ Saw(pc, p, s, d) \in Job /\ Saw(pc, p, s, d).pc = pc /\ Saw(pc, p, s, d).p = p
           /\ Saw(pc, p, s, d).seen = s /\ Saw(pc, p, s, d).doc = d
<1>1. At(pc, p) \in Job /\ At(pc, p).pc = pc /\ At(pc, p).p = p
  BY AtIs
<1>2. payment_status \in OrderPaymentStatus
  BY DEF OrderT
<1> QED
  BY <1>1, <1>2 DEF Saw, Job

LEMMA SawPay ==
    ASSUME OrderT
    PROVE  \A pc \in Control, p \in Pay, s \in Seen, d \in Doc :
             LET j == Saw(pc, p, s, d)
             IN  j \in Job /\ j.pc = pc /\ j.p = p /\ j.seen = s /\ j.doc = d
BY SawIs

LEMMA BecomeIs ==
    ASSUME JobT, NEW r \in Proc, NEW j \in Job, Become(r, j)
    PROVE  JobT' /\ job'[r] = j /\ \A s \in Proc : s # r => job'[s] = job[s]
BY DEF JobT, Become

(* The facts about a row that keeps its status, or gets one that says      *)
(* nothing of money.                                                       *)
LEMMA RowStays ==
    ASSUME MoneyInv, Grows, NEW q \in Pay, received'[q] \in Nat, refunded'[q] = refunded[q],
           \/ UNCHANGED <<row[q], pi[q], cs[q], received[q]>>
           \/ /\ row[q].status # "absent"
              /\ row'[q].status = row[q].status \/ row'[q].status \in {"pending", "expired", "failed", "authorized"}
              /\ pi'[q] # "succeeded" => received'[q] = 0
    PROVE  RowFact(q)'
<1>0. /\ RowFact(q) /\ received[q] \in Nat /\ refunded[q] \in Nat
      /\ Failed(q) => Failed(q)'
  BY FailedGrows DEF MoneyInv, Facts, TypeOK
<1>1. CASE UNCHANGED <<row[q], pi[q], cs[q], received[q]>>
  BY <1>0, <1>1 DEF RowFact, Taken
<1>2. CASE /\ row[q].status # "absent"
           /\ row'[q].status = row[q].status \/ row'[q].status \in {"pending", "expired", "failed", "authorized"}
           /\ pi'[q] # "succeeded" => received'[q] = 0
  <2>1. /\ pi[q] = "succeeded" => pi'[q] = "succeeded" /\ received'[q] = received[q]
        /\ pi[q] = "canceled" => pi'[q] = "canceled"
        /\ row'[q].status # "absent"
        /\ row'[q].purpose = row[q].purpose /\ row'[q].provider = row[q].provider
    BY <1>2 DEF Grows
  <2>2. Collected(row'[q].status) => Taken(q)'
    <3>1. Collected(row'[q].status) => Collected(row[q].status)
      BY <1>2 DEF Collected
    <3> QED
      BY <3>1, <1>0, TakenGrows DEF RowFact
  <2>3. refunded'[q] <= received'[q] /\ (pi'[q] # "succeeded" => refunded'[q] = 0)
    BY <1>0, <2>1 DEF RowFact
  <2>4. row'[q].purpose = "guarantee" /\ row'[q].status = "released"
         => Failed(q)' \/ pi'[q] = "canceled"
    BY <1>0, <1>2, <2>1 DEF RowFact
  <2>5. row'[q].provider = "cash" => row'[q].purpose = "sale"
    BY <1>0, <2>1 DEF RowFact
  <2> QED
    BY <1>2, <2>1, <2>2, <2>3, <2>4, <2>5 DEF RowFact
<1> QED
  BY <1>1, <1>2

(* What is shown of each step. *)
Kept == Money' /\ Grows

(* The database and Stripe are read only. *)
LEMMA QuietStep ==
    ASSUME MoneyInv, entry' = entry, UNCHANGED <<row, refunds, pi, cs, received, refunded, sent>>,
           processed \subseteq processed', processed' \subseteq sent,
           \/ job' = job
           \/ \E r \in Proc, j \in Job : Become(r, j) /\ (JobFact(j) \/ JobFact(j)')
    PROVE  Kept
<1>1. Grows
  BY DEF Grows
<1>2. \A p \in Pay : RowFact(p)'
  <2> TAKE p \in Pay
  <2>1. received'[p] \in Nat
    BY DEF MoneyInv, TypeOK
  <2> QED
    BY <1>1, <2>1, RowStays
<1>3. JobT' /\ \A s \in Proc : job'[s] = job[s] \/ JobFact(job[s])'
  <2>0. JobT
    BY DEF MoneyInv, TypeOK, JobT
  <2>1. CASE job' = job
    BY <2>0, <2>1 DEF JobT
  <2>2. ASSUME NEW r \in Proc, NEW j \in Job, Become(r, j), JobFact(j) \/ JobFact(j)'
        PROVE  JobT' /\ \A s \in Proc : job'[s] = job[s] \/ JobFact(job[s])'
    <3>1. JobT' /\ job'[r] = j /\ \A s \in Proc : s # r => job'[s] = job[s]
      BY <2>0, <2>2, BecomeIs
    <3>2. JobFact(j)'
      BY <1>1, <2>2, JobGrows
    <3> QED
      BY <3>1, <3>2
  <2> QED
    BY <2>1, <2>2
<1>4. Facts'
  BY <1>1, <1>2, <1>3, FactsStep
<1> QED
  BY <1>1, <1>3, <1>4 DEF MoneyInv, TypeOK, Money, TableT, StripeT, Kept

(* A handler writes one row of the payments table. *)
LEMMA RowStep ==
    ASSUME MoneyInv, entry' = entry, UNCHANGED <<pi, cs, received, refunded, sent, processed>>,
           refunds' \in [Pay -> Nat],
           NEW p \in Pay, NEW w \in Row, row' = [row EXCEPT ![p] = w],
           row[p].status # "absent", w.status # "absent",
           w.purpose = row[p].purpose, w.provider = row[p].provider,
           w.captured = row[p].captured \/ (pi[p] = "succeeded" /\ w.captured = received[p]),
           \/ w.status = row[p].status \/ w.status \in {"pending", "expired", "failed", "authorized"}
           \/ w.status = "released" /\ (row[p].purpose = "guarantee" => Failed(p) \/ pi[p] = "canceled")
           \/ /\ w.status # "released" /\ (w.provider = "cash" \/ pi[p] = "succeeded")
              /\ w.purpose = "guarantee" => pi[p] = "succeeded" /\ w.captured = received[p],
           NEW r \in Proc, NEW j \in Job, Become(r, j), JobFact(j)
    PROVE  Kept
<1>0. row \in [Pay -> Row] /\ JobT /\ row'[p] = w /\ \A q \in Pay : q # p => row'[q] = row[q]
  BY DEF MoneyInv, TypeOK, JobT
<1>1. Grows
  BY <1>0 DEF Grows
<1>2. \A q \in Pay : received'[q] \in Nat
  BY DEF MoneyInv, TypeOK
<1>3. RowFact(p)'
  <2>1. CASE w.status = row[p].status \/ w.status \in {"pending", "expired", "failed", "authorized"}
    <3>1. pi[p] # "succeeded" => received[p] = 0
      BY DEF MoneyInv, Facts, RowFact
    <3> QED
      BY <2>1, <3>1, <1>0, <1>1, <1>2, RowStays
  <2>2. CASE w.status = "released" /\ (row[p].purpose = "guarantee" => Failed(p) \/ pi[p] = "canceled")
    <3>1. Failed(p) => Failed(p)'
      BY <1>1, FailedGrows
    <3> QED
      BY <2>2, <3>1, <1>0 DEF MoneyInv, Facts, RowFact, Collected
  <2>3. CASE /\ w.status # "released" /\ (w.provider = "cash" \/ pi[p] = "succeeded")
             /\ w.purpose = "guarantee" => pi[p] = "succeeded" /\ w.captured = received[p]
    <3>1. Taken(p)'
      BY <2>3, <1>0 DEF Taken
    <3>2. w.purpose = "guarantee" => w.status # "released" \/ w.status = row[p].status
      BY <2>3, <1>0 DEF MoneyInv, Facts, RowFact
    <3> QED
      BY <2>3, <3>1, <3>2, <1>0 DEF MoneyInv, Facts, RowFact
  <2> QED
    BY <2>1, <2>2, <2>3
<1>4. \A q \in Pay : RowFact(q)'
  <2> TAKE q \in Pay
  <2>1. CASE q # p
    BY <2>1, <1>0, <1>1, <1>2, RowStays
  <2> QED
    BY <2>1, <1>3
<1>5. JobT' /\ job'[r] = j /\ \A s \in Proc : s # r => job'[s] = job[s]
  BY <1>0, BecomeIs
<1>6. JobFact(j)'
  BY <1>1, JobGrows
<1>7. Facts'
  BY <1>1, <1>4, <1>5, <1>6, FactsStep
<1>8. TableT' /\ StripeT'
  BY <1>0 DEF MoneyInv, TypeOK, TableT, StripeT
<1> QED
  BY <1>1, <1>5, <1>7, <1>8 DEF Money, Kept

(* What a step does to a row and to the Stripe objects behind it: nothing, *)
(* a move of a row that exists, a new row.                                 *)
Unmoved(q)  == UNCHANGED <<row[q], pi[q], cs[q], received[q]>>

Alive(q) ==
    /\ row[q].status # "absent" /\ row'[q].status # "absent"
    /\ row'[q].purpose = row[q].purpose /\ row'[q].provider = row[q].provider
    /\ row'[q].captured = row[q].captured
    /\ \/ row'[q].status = row[q].status \/ row'[q].status \in {"pending", "expired", "failed", "authorized"}
       \/ row'[q].status = "released" /\ pi'[q] = "canceled"
    /\ pi[q] = "succeeded" => pi'[q] = "succeeded" /\ received'[q] = received[q]
    /\ pi[q] = "canceled" => pi'[q] = "canceled"
    /\ pi'[q] # "succeeded" => received'[q] = 0

Opens(q) ==
    /\ row[q].status = "absent" /\ UNCHANGED received[q]
    /\ pi'[q] \in {"none", "open"}
    /\ row'[q].captured = 0
    /\ \/ row'[q].status = "pending" /\ row'[q].provider # "cash"
       \/ row'[q].status = "paid" /\ row'[q].provider = "cash" /\ row'[q].purpose = "sale"

LEMMA MovesGrow ==
    ASSUME MoneyInv, entry' = entry, processed \subseteq processed',
           \A q \in Pay : Unmoved(q) \/ Alive(q) \/ Opens(q)
    PROVE  Grows
<1> SUFFICES ASSUME NEW p \in Pay
             PROVE  /\ pi[p] = "succeeded" => pi'[p] = "succeeded" /\ received'[p] = received[p]
                    /\ pi[p] = "canceled" => pi'[p] = "canceled"
                    /\ row[p].status # "absent" =>
                         /\ row'[p].status # "absent"
                         /\ row'[p].purpose = row[p].purpose /\ row'[p].provider = row[p].provider
                    /\ pi[p] = "succeeded" /\ row[p].captured = received[p] => row'[p].captured = received[p]
  BY DEF Grows
<1>1. CASE Unmoved(p)
  BY <1>1 DEF Unmoved
<1>2. CASE Alive(p)
  BY <1>2 DEF Alive
<1>3. CASE Opens(p)
  <2>1. pi[p] = "none"
    BY <1>3 DEF Opens, MoneyInv, Facts, RowFact
  <2> QED
    BY <1>3, <2>1 DEF Opens
<1> QED
  BY <1>1, <1>2, <1>3

LEMMA MovesRow ==
    ASSUME MoneyInv, Grows, StripeT', refunded' = refunded, NEW q \in Pay,
           Unmoved(q) \/ Alive(q) \/ Opens(q)
    PROVE  RowFact(q)'
<1>0. RowFact(q) /\ received[q] \in Nat /\ refunded[q] \in Nat /\ received'[q] \in Nat /\ refunded'[q] = refunded[q]
  BY DEF MoneyInv, Facts, TypeOK, StripeT
<1>1. CASE Unmoved(q)
  BY <1>0, <1>1, RowStays DEF Unmoved
<1>2. CASE Alive(q)
  <2>1. CASE row'[q].status = row[q].status \/ row'[q].status \in {"pending", "expired", "failed", "authorized"}
    BY <1>0, <1>2, <2>1, RowStays DEF Alive
  <2>2. CASE row'[q].status = "released" /\ pi'[q] = "canceled"
    <3>1. /\ pi[q] # "succeeded" /\ received'[q] = 0
          /\ row'[q].purpose = row[q].purpose /\ row'[q].provider = row[q].provider
      BY <1>2, <2>2 DEF Alive
    <3>2. refunded'[q] = 0
      BY <1>0, <3>1 DEF RowFact
    <3>3. row'[q].provider = "cash" => row'[q].purpose = "sale"
      BY <1>0, <3>1 DEF RowFact
    <3>4. ~Collected(row'[q].status)
      BY <2>2 DEF Collected
    <3> QED
      BY <2>2, <3>1, <3>2, <3>3, <3>4 DEF RowFact
  <2> QED
    BY <1>2, <2>1, <2>2 DEF Alive
<1>3. CASE Opens(q)
  <2>1. pi[q] = "none" /\ received[q] = 0 /\ refunded[q] = 0
    BY <1>0, <1>3 DEF Opens, RowFact
  <2>2. received'[q] = 0 /\ refunded'[q] = 0 /\ pi'[q] # "succeeded"
    BY <2>1, <1>0, <1>3 DEF Opens
  <2>3. CASE row'[q].status = "pending" /\ row'[q].provider # "cash"
    <3>1. ~Collected(row'[q].status)
      BY <2>3 DEF Collected
    <3> QED
      BY <2>2, <2>3, <3>1 DEF RowFact
  <2>4. CASE row'[q].status = "paid" /\ row'[q].provider = "cash" /\ row'[q].purpose = "sale"
    <3>1. Taken(q)'
      BY <2>4 DEF Taken
    <3> QED
      BY <2>2, <2>4, <3>1 DEF RowFact
  <2> QED
    BY <1>3, <2>3, <2>4 DEF Opens
<1> QED
  BY <1>1, <1>2, <1>3

(* A step that moves or opens rows, and may call Stripe. *)
LEMMA MovesStep ==
    ASSUME MoneyInv, TableT', StripeT', entry' = entry, processed \subseteq processed', refunded' = refunded,
           \A q \in Pay : Unmoved(q) \/ Alive(q) \/ Opens(q),
           \A e \in sent' : e \in sent \/ EventFact(e.type, e.p)',
           \/ job' = job
           \/ \E r \in Proc, j \in Job : Become(r, j) /\ (JobFact(j) \/ JobFact(j)')
    PROVE  Kept
<1>1. Grows
  BY MovesGrow
<1>2. \A q \in Pay : RowFact(q)'
  BY <1>1, MovesRow
<1>3. JobT' /\ \A s \in Proc : job'[s] = job[s] \/ JobFact(job[s])'
  <2>0. JobT
    BY DEF MoneyInv, TypeOK, JobT
  <2>1. CASE job' = job
    BY <2>0, <2>1 DEF JobT
  <2>2. ASSUME NEW r \in Proc, NEW j \in Job, Become(r, j), JobFact(j) \/ JobFact(j)'
        PROVE  JobT' /\ \A s \in Proc : job'[s] = job[s] \/ JobFact(job[s])'
    <3>1. JobT' /\ job'[r] = j /\ \A s \in Proc : s # r => job'[s] = job[s]
      BY <2>0, <2>2, BecomeIs
    <3>2. JobFact(j)'
      BY <1>1, <2>2, JobGrows
    <3> QED
      BY <3>1, <3>2
  <2> QED
    BY <2>1, <2>2
<1>4. Facts'
  BY <1>1, <1>2, <1>3, FactsStep
<1> QED
  BY <1>1, <1>3, <1>4 DEF Money, Kept

-----------------------------------------------------------------------------
(* The steps that only read *)

LEMMA MoneyTypes ==
    ASSUME MoneyInv
    PROVE  /\ OrderT /\ TableT /\ StripeT /\ JobT
           /\ \A p \in Pay : RowFact(p) /\ row[p] \in Row /\ row[p].status \in PaymentStatus
                             /\ row[p].purpose \in {"sale", "guarantee"}
           /\ \A r \in Proc : JobFact(job[r]) /\ job[r] \in Job
BY DEF MoneyInv, TypeOK, OrderT, TableT, StripeT, JobT, Facts, Row

LEMMA ReadSaleIs ==
    ASSUME MoneyInv, NEW r \in Proc, NEW p \in Pay, Sold(p), ReadSale(r, p)
    PROVE  \E j \in Job : Become(r, j) /\ JobFact(j)
<1>0. OrderT /\ "sale" \in Control /\ status \in Seen
  BY MoneyTypes DEF OrderT, Control, Seen
<1>1. \A d \in Doc : LET j == Saw("sale", p, status, d) IN j \in Job /\ j.pc = "sale" /\ j.p = p
  BY <1>0, SawPay
<1>2. PICK j : j = Saw("sale", p, status, "")
  OBVIOUS
<1>3. j \in Job /\ j.pc = "sale" /\ j.p = p
  <2>1. "" \in Doc
    BY DEF Doc
  <2> QED
    BY <1>1, <1>2, <2>1, Zenon
<1>4. JobFact(j)
  BY <1>3 DEF JobFact, Sold, OnPay, Refunding
<1>5. CASE Done(r)
  BY <1>5, IdleIs DEF Done
<1>6. CASE Become(r, Saw("sale", p, status, ""))
  BY <1>2, <1>3, <1>4, <1>6
<1> QED
  BY <1>5, <1>6 DEF ReadSale

LEMMA ReadGuaranteeIs ==
    ASSUME MoneyInv, NEW r \in Proc, NEW p \in Pay, row[p].status # "absent", NEW doc \in Doc,
           doc = "succeeded" => pi[p] = "succeeded", ReadGuarantee(r, p, doc)
    PROVE  \E j \in Job : Become(r, j) /\ JobFact(j)
<1>1. OrderT /\ "guar" \in Control /\ status \in Seen
  BY MoneyTypes DEF OrderT, Control, Seen
<1>2. PICK j : j = Saw("guar", p, status, doc)
  OBVIOUS
<1>3. j \in Job /\ j.pc = "guar" /\ j.p = p /\ j.doc = doc
  BY <1>1, <1>2, SawIs
<1>4. JobFact(j)
  BY <1>3 DEF JobFact, OnPay, Refunding
<1> QED
  BY <1>2, <1>3, <1>4 DEF ReadGuarantee

(* A row with an identifier exists. *)
LEMMA RefExists ==
    ASSUME MoneyInv, NEW p \in Pay,
           \/ row[p].ref # "none" \/ row[p].purpose = "guarantee" \/ pi[p] # "none" \/ cs[p] # "none"
    PROVE  row[p].status # "absent"
BY MoneyTypes DEF RowFact, NoRow

LEMMA QuietRequests ==
    ASSUME MoneyInv, entry' = entry, NEW r \in Proc,
           \/ \E p \in Pay : confirm(r, p)
           \/ \E to : update_status(r, to)
           \/ Redeliver(r) \/ cancel_my_order(r) \/ Deliver(r)
    PROVE  Kept
<1>0. OrderT /\ JobT /\ processed \subseteq sent /\ sent \subseteq Event
  BY MoneyTypes DEF StripeT
<1>1. ASSUME NEW p \in Pay, confirm(r, p) PROVE Kept
  <2>1. row[p].status # "absent"
    BY <1>1, RefExists DEF confirm
  <2>2. \E j \in Job : Become(r, j) /\ JobFact(j)
    <3>1. CASE row[p].purpose = "guarantee"
      <4>1. "verify" \in Doc /\ ReadGuarantee(r, p, "verify")
        BY <1>1, <3>1 DEF confirm, Doc
      <4> QED
        BY <2>1, <4>1, ReadGuaranteeIs
    <3>2. CASE row[p].purpose # "guarantee"
      <4>1. Sold(p) /\ ReadSale(r, p)
        BY <1>1, <2>1, <3>2, MoneyTypes DEF Sold, confirm
      <4> QED
        BY <4>1, ReadSaleIs
    <3> QED
      BY <3>1, <3>2
  <2> QED
    BY <1>0, <1>1, <2>2, QuietStep DEF confirm, table, stripe
<1>2. ASSUME NEW pc \in {"redeliver", "cancel", "trailing"}
      PROVE  At(pc, None) \in Job /\ JobFact(At(pc, None))
  <2>1. At(pc, None) \in Job /\ At(pc, None).pc = pc
    BY AtIs DEF Control
  <2> QED
    BY <2>1 DEF JobFact, OnPay, Refunding
<1>3. ASSUME NEW to, update_status(r, to) PROVE Kept
  <2>1. \E j \in Job : Become(r, j) /\ JobFact(j)
    BY <1>2, <1>3, IdleIs DEF update_status, Commit
  <2> QED
    BY <1>0, <1>3, <2>1, QuietStep DEF update_status, Commit, table, stripe
<1>4. ASSUME Redeliver(r) \/ cancel_my_order(r) PROVE Kept
  <2>1. \E j \in Job : Become(r, j) /\ JobFact(j)
    BY <1>2, <1>4 DEF Redeliver, cancel_my_order
  <2> QED
    BY <1>0, <1>4, <2>1, QuietStep DEF Redeliver, cancel_my_order, table, stripe
<1>5. ASSUME NEW e \in sent \ processed, handle_webhook(r, e) PROVE Kept
  <2>1. e \in Event /\ e.p \in Pay /\ e.type \in EventType /\ e.n \in 0 .. Total /\ EventFact(e.type, e.p)
    BY <1>0, <1>5 DEF Event, MoneyInv, Facts
  <2>2. PICK j : j = [At("event", e.p) EXCEPT !.doc = e.type, !.n = e.n]
    OBVIOUS
  <2>3. e.type \in Doc
    BY <2>1 DEF Doc
  <2>4. At("event", e.p) \in Job /\ At("event", e.p).pc = "event" /\ At("event", e.p).p = e.p
    BY <2>1, AtIs DEF Control
  <2>5. j \in Job /\ j.pc = "event" /\ j.p = e.p /\ j.doc = e.type
    BY <2>1, <2>2, <2>3, <2>4 DEF Job
  <2>6. JobFact(j)'
    <3>1. row' = row /\ pi' = pi /\ entry' = entry /\ e \in processed'
      BY <1>5 DEF handle_webhook, table, stripe
    <3>2. EventFact(j.doc, j.p)'
      BY <2>1, <2>5, <1>5, <3>1 DEF EventFact, Taken, handle_webhook, stripe
    <3>3. j.doc = "payment_failed" => Failed(j.p)'
      BY <2>5, <3>1 DEF Failed
    <3> QED
      BY <2>1, <2>5, <3>1, <3>2, <3>3 DEF JobFact, OnPay, Refunding, EventFact
  <2>7. processed' \subseteq sent /\ processed \subseteq processed'
    BY <1>0, <1>5 DEF handle_webhook
  <2> QED
    BY <1>5, <2>2, <2>5, <2>6, <2>7, QuietStep DEF handle_webhook, table, stripe
<1> QED
  BY <1>1, <1>3, <1>4, <1>5 DEF Deliver

LEMMA QuietReads ==
    ASSUME MoneyInv, entry' = entry, NEW r \in Proc,
           handle_intent_event(r) \/ handle_payment_failure(r)
    PROVE  Kept
<1> DEFINE p == job[r].p
<1>0. OrderT /\ processed \subseteq sent /\ p \in Pay /\ row[p].status # "absent" /\ EventFact(job[r].doc, p)
      /\ row[p].purpose \in {"sale", "guarantee"} /\ row[p].status \in PaymentStatus
      /\ (job[r].doc = "payment_failed" => Failed(p))
  <2>1. job[r].pc = "event" /\ JobFact(job[r])
    BY MoneyTypes DEF handle_intent_event, handle_payment_failure, Handling
  <2>2. p \in Pay /\ row[p].status # "absent" /\ EventFact(job[r].doc, p) /\ (job[r].doc = "payment_failed" => Failed(p))
    BY <2>1 DEF JobFact, OnPay
  <2> QED
    BY <2>2, MoneyTypes DEF StripeT
<1> HIDE DEF p
<1>1. ASSUME handle_intent_event(r) PROVE Kept
  <2>1. CASE row[p].purpose = "guarantee"
    <3> DEFINE doc == IF job[r].doc = "succeeded" THEN "succeeded" ELSE "hold"
    <3>1. doc \in Doc /\ (doc = "succeeded" => pi[p] = "succeeded")
      BY <1>0 DEF Doc, EventType, IntentStatus, EventFact
    <3>2. ReadGuarantee(r, p, doc)
      BY <1>1, <2>1 DEF handle_intent_event, p
    <3> HIDE DEF doc
    <3>3. \E j \in Job : Become(r, j) /\ JobFact(j)
      BY <1>0, <3>1, <3>2, ReadGuaranteeIs
    <3> QED
      BY <1>0, <1>1, <3>3, QuietStep DEF handle_intent_event, table, stripe
  <2>2. CASE row[p].purpose # "guarantee"
    <3>1. Sold(p) /\ ReadSale(r, p)
      BY <1>0, <1>1, <2>2 DEF handle_intent_event, p, Sold
    <3>2. \E j \in Job : Become(r, j) /\ JobFact(j)
      BY <1>0, <3>1, ReadSaleIs
    <3> QED
      BY <1>0, <1>1, <3>2, QuietStep DEF handle_intent_event, table, stripe
  <2> QED
    BY <2>1, <2>2
<1>2. ASSUME handle_payment_failure(r) PROVE Kept
  <2>1. Failed(p) \/ pi[p] = "canceled"
    BY <1>0, <1>2 DEF handle_payment_failure, Handling, EventFact
  <2>2. PICK s : s = row[p].status
    OBVIOUS
  <2>3. "fail" \in Control /\ s \in Seen /\ "" \in Doc
    BY <1>0, <2>2 DEF Control, Seen, Doc
  <2>4. PICK j : j = Saw("fail", p, s, "")
    OBVIOUS
  <2>5. j \in Job /\ j.pc = "fail" /\ j.p = p
    <3>1. "fail" \in Control
      BY DEF Control
    <3>2. \A x \in Seen, y \in Doc : LET k == Saw("fail", p, x, y)
                                    IN  k \in Job /\ k.pc = "fail" /\ k.p = p /\ k.doc = y
      BY <1>0, <3>1, SawPay
    <3> QED
      BY <3>2, <2>3, <2>4, Zenon
  <2>6. JobFact(j)
    BY <1>0, <2>1, <2>5 DEF JobFact, OnPay, Refunding
  <2>7. Done(r) \/ Become(r, j)
    BY <1>2, <2>2, <2>4 DEF handle_payment_failure, p
  <2>8. \E k \in Job : Become(r, k) /\ JobFact(k)
    BY <2>5, <2>6, <2>7, IdleIs DEF Done
  <2> QED
    BY <1>0, <1>2, <2>8, QuietStep DEF handle_payment_failure, table, stripe
<1> QED
  BY <1>1, <1>2

LEMMA QuietSales ==
    ASSUME MoneyInv, entry' = entry, NEW r \in Proc,
           SaleRefused(r) \/ SaleAbandoned(r) \/ AutoRefundImpossible(r)
    PROVE  Kept
<1> DEFINE p == job[r].p
<1>0. OrderT /\ processed \subseteq sent /\ p \in Pay /\ Sold(p)
  <2>1. job[r].pc \in {"sale", "refund"} /\ JobFact(job[r])
    BY MoneyTypes DEF SaleRefused, SaleAbandoned, AutoRefundImpossible
  <2>2. p \in Pay /\ Sold(p)
    BY <2>1 DEF JobFact, OnPay, Refunding
  <2> QED
    BY <2>2, MoneyTypes DEF StripeT
<1> HIDE DEF p
<1>1. ASSUME SaleRefused(r) PROVE Kept
  <2>1. At("auto", p) \in Job /\ At("auto", p).pc = "auto" /\ At("auto", p).p = p
    BY <1>0, AtIs DEF Control
  <2>2. pi[p] = "succeeded" /\ Become(r, At("auto", p))
    BY <1>1 DEF SaleRefused, IntentSucceeded, p
  <2>3. JobFact(At("auto", p))
    BY <1>0, <2>1, <2>2 DEF JobFact, OnPay, Refunding, Sold
  <2> QED
    BY <1>0, <1>1, <2>1, <2>2, <2>3, QuietStep DEF SaleRefused, table, stripe
<1>2. ASSUME SaleAbandoned(r) PROVE Kept
  BY <1>0, <1>2, IdleIs, QuietStep DEF SaleAbandoned, table, stripe, Done
<1>3. ASSUME AutoRefundImpossible(r) PROVE Kept
  <2>1. pi[p] = "succeeded"
    <3>1. JobFact(job[r]) /\ job[r].pc = "refund"
      BY <1>3, MoneyTypes DEF AutoRefundImpossible
    <3> QED
      BY <3>1 DEF JobFact, Refunding, p
  <2>2. PICK j : j = Saw("autoend", p, "", "refund_failed")
    OBVIOUS
  <2>3. "" \in Seen /\ "refund_failed" \in Doc /\ "autoend" \in Control
    BY DEF Seen, Doc, Control, PaymentStatus
  <2>4. j \in Job /\ j.pc = "autoend" /\ j.p = p /\ j.doc = "refund_failed"
    <3>1. "autoend" \in Control
      BY DEF Control
    <3>2. \A x \in Seen, y \in Doc : LET k == Saw("autoend", p, x, y)
                                    IN  k \in Job /\ k.pc = "autoend" /\ k.p = p /\ k.doc = y
      BY <1>0, <3>1, SawPay
    <3> QED
      BY <3>2, <2>2, <2>3, Zenon
  <2>5. JobFact(j)
    BY <1>0, <2>1, <2>4 DEF JobFact, OnPay, Refunding, Sold
  <2>6. Become(r, j)
    BY <1>3, <2>2 DEF AutoRefundImpossible, p
  <2> QED
    BY <1>0, <1>3, <2>4, <2>5, <2>6, QuietStep DEF AutoRefundImpossible, table, stripe
<1> QED
  BY <1>1, <1>2, <1>3

LEMMA QuietHolds ==
    ASSUME MoneyInv, entry' = entry, NEW r \in Proc,
           \/ GuaranteeSkipped(r) \/ GuaranteeRefused(r) \/ ReleaseAbsorbed(r)
           \/ AutoReleaseCall(r) /\ UNCHANGED stripe
              /\ Become(r, [job[r] EXCEPT !.pc = "relend", !.doc = "authorized"])
    PROVE  Kept
<1> DEFINE p == job[r].p
<1>0. OrderT /\ processed \subseteq sent /\ job[r] \in Job /\ JobFact(job[r])
  BY MoneyTypes DEF StripeT
<1>a. ASSUME job[r].pc \in {"guar", "autorel"}
      PROVE  p \in Pay /\ row[p].status # "absent" /\ row[p].status \in PaymentStatus
  <2>1. p \in Pay /\ row[p].status # "absent"
    BY <1>a, <1>0 DEF JobFact, OnPay
  <2> QED
    BY <2>1, MoneyTypes
<1> HIDE DEF p
<1>1. ASSUME GuaranteeSkipped(r) \/ ReleaseAbsorbed(r) PROVE Kept
  BY <1>0, <1>1, IdleIs, QuietStep DEF GuaranteeSkipped, ReleaseAbsorbed, table, stripe, Done
<1>2. ASSUME GuaranteeRefused(r) PROVE Kept
  <2>1. p \in Pay /\ row[p].status # "absent" /\ row[p].status \in PaymentStatus
    BY <1>2, <1>a DEF GuaranteeRefused, Finalizable
  <2>2. PICK s : s = row[p].status
    OBVIOUS
  <2>3. "autorel" \in Control /\ s \in Seen /\ "" \in Doc
    BY <2>1, <2>2 DEF Control, Seen, Doc
  <2>4. PICK j : j = Saw("autorel", p, s, "")
    OBVIOUS
  <2>5. j \in Job /\ j.pc = "autorel" /\ j.p = p
    <3>1. "autorel" \in Control
      BY DEF Control
    <3>2. \A x \in Seen, y \in Doc : LET k == Saw("autorel", p, x, y)
                                    IN  k \in Job /\ k.pc = "autorel" /\ k.p = p /\ k.doc = y
      BY <1>0, <2>1, <3>1, SawPay
    <3> QED
      BY <3>2, <2>1, <2>3, <2>4, Zenon
  <2>6. JobFact(j)
    BY <2>1, <2>5 DEF JobFact, OnPay, Refunding
  <2>7. Become(r, j)
    BY <1>2, <2>2, <2>4 DEF GuaranteeRefused, p
  <2> QED
    BY <1>0, <1>2, <2>5, <2>6, <2>7, QuietStep DEF GuaranteeRefused, table, stripe
<1>3. ASSUME AutoReleaseCall(r), UNCHANGED stripe,
             Become(r, [job[r] EXCEPT !.pc = "relend", !.doc = "authorized"])
      PROVE  Kept
  <2>1. job[r].pc = "autorel"
    BY <1>3 DEF AutoReleaseCall
  <2>2. p \in Pay /\ row[p].status # "absent"
    BY <2>1, <1>a
  <2>3. PICK j : j = [job[r] EXCEPT !.pc = "relend", !.doc = "authorized"]
    OBVIOUS
  <2>4. "relend" \in Control /\ "authorized" \in Doc
    BY DEF Control, Doc, PaymentStatus
  <2>5. j \in Job /\ j.pc = "relend" /\ j.p = p /\ j.doc = "authorized"
    BY <1>0, <2>3, <2>4 DEF Job, p
  <2>6. JobFact(j)
    BY <2>2, <2>5 DEF JobFact, OnPay, Refunding
  <2> QED
    BY <1>0, <1>3, <2>3, <2>5, <2>6, QuietStep DEF AutoReleaseCall, table, stripe
<1> QED
  BY <1>1, <1>2, <1>3

LEMMA QuietOrders ==
    ASSUME MoneyInv, entry' = entry
    PROVE  /\ create_order \/ Elapse => Kept
           /\ \A r \in Proc : RedeliverCommit(r) \/ CustomerCancel(r) \/ Die(r) => Kept
<1>0. processed \subseteq sent
  BY MoneyTypes DEF StripeT
<1>1. ASSUME create_order \/ Elapse PROVE Kept
  BY <1>0, <1>1, QuietStep DEF create_order, Elapse, table, stripe
<1>2. ASSUME NEW r \in Proc, RedeliverCommit(r) \/ CustomerCancel(r) \/ Die(r) PROVE Kept
  <2>1. At("trailing", None) \in Job /\ JobFact(At("trailing", None))
    <3>1. At("trailing", None) \in Job /\ At("trailing", None).pc = "trailing"
      BY AtIs DEF Control
    <3> QED
      BY <3>1 DEF JobFact, OnPay, Refunding
  <2>2. \E j \in Job : Become(r, j) /\ JobFact(j)
    BY <1>2, <2>1, IdleIs DEF RedeliverCommit, CustomerCancel, Die, Commit, Done
  <2> QED
    BY <1>0, <1>2, <2>2, QuietStep DEF RedeliverCommit, CustomerCancel, Die, Commit, order, table, stripe
<1> QED
  BY <1>1, <1>2

-----------------------------------------------------------------------------
(* The steps that write a row *)

(* The row of p gets status s and captured amount c, and keeps the rest. *)
Write(p, s, c) ==
    \E w \in Row : /\ row' = [row EXCEPT ![p] = w]
                   /\ w.status = s /\ w.captured = c
                   /\ w.purpose = row[p].purpose /\ w.provider = row[p].provider

LEMMA WriteForms ==
    ASSUME TableT, NEW p \in Pay
    PROVE  /\ \A s \in PaymentStatus : SetPayment(p, s) => Write(p, s, row[p].captured)
           /\ row' = [row EXCEPT ![p].ref = "pi"] => Write(p, row[p].status, row[p].captured)
           /\ \A s \in PaymentStatus :
                row' = [row EXCEPT ![p].status = s, ![p].ref = "pi"] => Write(p, s, row[p].captured)
           /\ \A s \in PaymentStatus, c \in 0 .. Total :
                /\ row' = [row EXCEPT ![p].status = s, ![p].captured = c] => Write(p, s, c)
                /\ row' = [row EXCEPT ![p].status = s, ![p].ref = "pi", ![p].captured = c] => Write(p, s, c)
<1>0. row \in [Pay -> Row] /\ row[p] \in Row
  BY DEF TableT
<1>1. ASSUME NEW s \in PaymentStatus, SetPayment(p, s) PROVE Write(p, s, row[p].captured)
  <2>1. PICK w : w = [row[p] EXCEPT !.status = s]
    OBVIOUS
  <2>2. w \in Row /\ w.status = s /\ w.captured = row[p].captured /\ w.purpose = row[p].purpose
        /\ w.provider = row[p].provider
    BY <1>0, <2>1 DEF Row
  <2>3. row' = [row EXCEPT ![p] = w]
    BY <1>0, <1>1, <2>1 DEF SetPayment
  <2> QED
    BY <2>2, <2>3 DEF Write
<1>2. ASSUME row' = [row EXCEPT ![p].ref = "pi"] PROVE Write(p, row[p].status, row[p].captured)
  <2>1. PICK w : w = [row[p] EXCEPT !.ref = "pi"]
    OBVIOUS
  <2>2. w \in Row /\ w.status = row[p].status /\ w.captured = row[p].captured /\ w.purpose = row[p].purpose
        /\ w.provider = row[p].provider
    BY <1>0, <2>1 DEF Row
  <2>3. row' = [row EXCEPT ![p] = w]
    BY <1>0, <1>2, <2>1
  <2> QED
    BY <2>2, <2>3 DEF Write
<1>3. ASSUME NEW s \in PaymentStatus, row' = [row EXCEPT ![p].status = s, ![p].ref = "pi"]
      PROVE  Write(p, s, row[p].captured)
  <2>1. PICK w : w = [row[p] EXCEPT !.status = s, !.ref = "pi"]
    OBVIOUS
  <2>2. w \in Row /\ w.status = s /\ w.captured = row[p].captured /\ w.purpose = row[p].purpose
        /\ w.provider = row[p].provider
    BY <1>0, <2>1 DEF Row
  <2>3. row' = [row EXCEPT ![p] = w]
    BY <1>0, <1>3, <2>1
  <2> QED
    BY <2>2, <2>3 DEF Write
<1>4. ASSUME NEW s \in PaymentStatus, NEW c \in 0 .. Total,
             row' = [row EXCEPT ![p].status = s, ![p].captured = c]
      PROVE  Write(p, s, c)
  <2>1. PICK w : w = [row[p] EXCEPT !.status = s, !.captured = c]
    OBVIOUS
  <2>2. w \in Row /\ w.status = s /\ w.captured = c /\ w.purpose = row[p].purpose
        /\ w.provider = row[p].provider
    BY <1>0, <2>1 DEF Row
  <2>3. row' = [row EXCEPT ![p] = w]
    BY <1>0, <1>4, <2>1
  <2> QED
    BY <2>2, <2>3 DEF Write
<1>5. ASSUME NEW s \in PaymentStatus, NEW c \in 0 .. Total,
             row' = [row EXCEPT ![p].status = s, ![p].ref = "pi", ![p].captured = c]
      PROVE  Write(p, s, c)
  <2>1. PICK w : w = [row[p] EXCEPT !.status = s, !.ref = "pi", !.captured = c]
    OBVIOUS
  <2>2. w \in Row /\ w.status = s /\ w.captured = c /\ w.purpose = row[p].purpose
        /\ w.provider = row[p].provider
    BY <1>0, <2>1 DEF Row
  <2>3. row' = [row EXCEPT ![p] = w]
    BY <1>0, <1>5, <2>1
  <2> QED
    BY <2>2, <2>3 DEF Write
<1> QED
  BY <1>1, <1>2, <1>3, <1>4, <1>5

(* A write of a status that says nothing of money; of a released hold; of  *)
(* money taken.                                                            *)
LEMMA WriteStep ==
    ASSUME MoneyInv, entry' = entry, UNCHANGED <<pi, cs, received, refunded, sent, processed>>,
           refunds' \in [Pay -> Nat],
           NEW p \in Pay, NEW s, NEW c, Write(p, s, c), row[p].status # "absent", s # "absent",
           c = row[p].captured \/ (pi[p] = "succeeded" /\ c = received[p]),
           \/ s = row[p].status \/ s \in {"pending", "expired", "failed", "authorized"}
           \/ s = "released" /\ (row[p].purpose = "guarantee" => Failed(p) \/ pi[p] = "canceled")
           \/ /\ s # "released" /\ (row[p].provider = "cash" \/ pi[p] = "succeeded")
              /\ row[p].purpose = "guarantee" => pi[p] = "succeeded" /\ c = received[p],
           NEW r \in Proc, NEW j \in Job, Become(r, j), JobFact(j)
    PROVE  Kept
<1>1. PICK w \in Row : /\ row' = [row EXCEPT ![p] = w]
                       /\ w.status = s /\ w.captured = c
                       /\ w.purpose = row[p].purpose /\ w.provider = row[p].provider
  BY DEF Write
<1> QED
  BY <1>1, RowStep

(* A handler goes on, Stripe is left alone. *)
Goes(r) == \E j \in Job : Become(r, j) /\ JobFact(j)
Books   == /\ entry' = entry /\ refunds' \in [Pay -> Nat]
           /\ UNCHANGED <<pi, cs, received, refunded, sent, processed>>

LEMMA WritePlain ==
    ASSUME MoneyInv, Books, NEW r \in Proc, Goes(r), NEW p \in Pay, row[p].status # "absent",
           NEW s, s = row[p].status \/ s \in {"pending", "expired", "failed", "authorized"},
           Write(p, s, row[p].captured)
    PROVE  Kept
<1>1. PICK j \in Job : Become(r, j) /\ JobFact(j)
  BY DEF Goes
<1>2. PICK c : c = row[p].captured
  OBVIOUS
<1>3. Write(p, s, c)
  BY <1>2 DEF Write
<1>4. s # "absent" /\ (c = row[p].captured \/ (pi[p] = "succeeded" /\ c = received[p]))
  BY <1>2
<1> QED
  BY <1>1, <1>3, <1>4, WriteStep DEF Books

LEMMA WriteReleased ==
    ASSUME MoneyInv, Books, NEW r \in Proc, Goes(r), NEW p \in Pay, row[p].status # "absent",
           Failed(p) \/ pi[p] = "canceled",
           Write(p, "released", row[p].captured)
    PROVE  Kept
<1>1. PICK j \in Job : Become(r, j) /\ JobFact(j)
  BY DEF Goes
<1>2. PICK s, c : s = "released" /\ c = row[p].captured
  OBVIOUS
<1>3. Write(p, s, c)
  BY <1>2 DEF Write
<1>4. /\ s # "absent" /\ (c = row[p].captured \/ (pi[p] = "succeeded" /\ c = received[p]))
      /\ s = "released" /\ (row[p].purpose = "guarantee" => Failed(p) \/ pi[p] = "canceled")
  BY <1>2
<1> QED
  BY <1>1, <1>3, <1>4, WriteStep DEF Books

LEMMA WriteTaken ==
    ASSUME MoneyInv, Books, NEW r \in Proc, Goes(r), NEW p \in Pay, row[p].status # "absent",
           NEW s, s # "absent", s # "released",
           row[p].provider = "cash" \/ pi[p] = "succeeded",
           NEW c, c = row[p].captured \/ (pi[p] = "succeeded" /\ c = received[p]),
           row[p].purpose = "guarantee" => pi[p] = "succeeded" /\ c = received[p],
           Write(p, s, c)
    PROVE  Kept
<1>1. PICK j \in Job : Become(r, j) /\ JobFact(j)
  BY DEF Goes
<1> QED
  BY <1>1, WriteStep DEF Books

LEMMA WriteKept ==
    ASSUME MoneyInv, Books, NEW r \in Proc, Goes(r), NEW p \in Pay, row[p].status # "absent",
           NEW s, s # "absent", s # "released",
           row[p].provider = "cash" \/ pi[p] = "succeeded",
           row[p].purpose = "guarantee" => pi[p] = "succeeded" /\ row[p].captured = received[p],
           Write(p, s, row[p].captured)
    PROVE  Kept
<1>1. PICK c : c = row[p].captured
  OBVIOUS
<1>2. Write(p, s, c)
  BY <1>1 DEF Write
<1>3. /\ c = row[p].captured \/ (pi[p] = "succeeded" /\ c = received[p])
      /\ row[p].purpose = "guarantee" => pi[p] = "succeeded" /\ c = received[p]
  BY <1>1
<1> QED
  BY <1>2, <1>3, WriteTaken

LEMMA EventRows ==
    ASSUME MoneyInv, entry' = entry, NEW r \in Proc,
           handle_checkout_completed(r) \/ handle_checkout_expired(r) \/ handle_charge_refunded(r)
    PROVE  Kept
<1> DEFINE p == job[r].p
<1>0. /\ TableT /\ OrderT /\ processed \subseteq sent /\ refunds \in [Pay -> Nat]
      /\ p \in Pay /\ row[p].status # "absent" /\ EventFact(job[r].doc, p)
      /\ row[p].status \in PaymentStatus /\ Idle \in Job /\ JobFact(Idle)
  <2>1. job[r].pc = "event" /\ JobFact(job[r])
    BY MoneyTypes DEF handle_checkout_completed, handle_checkout_expired, handle_charge_refunded, Handling
  <2>2. p \in Pay /\ row[p].status # "absent" /\ EventFact(job[r].doc, p)
    BY <2>1 DEF JobFact, OnPay
  <2> QED
    BY <2>2, MoneyTypes, IdleIs DEF StripeT, TableT
<1> HIDE DEF p
<1>1. ASSUME handle_checkout_completed(r) PROVE Kept
  <2>1. PICK doc : doc = pi[p]
    OBVIOUS
  <2>2. doc \in Doc
    BY <1>0, <2>1, MoneyTypes DEF StripeT, Doc
  <2>3. \E j \in Job : Become(r, j) /\ JobFact(j)
    <3>1. ReadGuarantee(r, p, doc) \/ Done(r)
      BY <1>1, <2>1 DEF handle_checkout_completed, p
    <3>2. ReadGuarantee(r, p, doc) => \E j \in Job : Become(r, j) /\ JobFact(j)
      BY <1>0, <2>1, <2>2, ReadGuaranteeIs
    <3> QED
      BY <1>0, <3>1, <3>2 DEF Done
  <2>4. CASE row' = row
    BY <1>0, <1>1, <2>3, <2>4, QuietStep DEF handle_checkout_completed, stripe
  <2>5. CASE row' = [row EXCEPT ![p].ref = "pi"]
    <3>1. Write(p, row[p].status, row[p].captured)
      BY <1>0, <2>5, WriteForms
    <3> QED
      <4>1. Books /\ Goes(r)
        BY <1>0, <1>1, <2>3, <3>1 DEF handle_checkout_completed, stripe, Books, Goes
      <4> QED
        BY <1>0, <1>1, <2>3, <3>1, <4>1, WritePlain
  <2> QED
    BY <1>1, <2>4, <2>5 DEF handle_checkout_completed, p
<1>2. ASSUME handle_checkout_expired(r) PROVE Kept
  <2>1. CASE row' = row
    BY <1>0, <1>2, <2>1, QuietStep DEF handle_checkout_expired, stripe, Done
  <2>2. CASE SetPayment(p, "expired")
    <3>1. Write(p, "expired", row[p].captured)
      BY <1>0, <2>2, WriteForms DEF PaymentStatus
    <3> QED
      <4>1. Books /\ Goes(r)
        BY <1>0, <1>2, <3>1 DEF handle_checkout_expired, stripe, Done, Books, Goes
      <4> QED
        BY <1>0, <1>2, <3>1, <4>1, WritePlain
  <2> QED
    BY <1>2, <2>1, <2>2 DEF handle_checkout_expired, SetPayment, p
<1>3. ASSUME handle_charge_refunded(r) PROVE Kept
  <2>1. CASE row' = row
    BY <1>0, <1>3, <2>1, QuietStep DEF handle_charge_refunded, stripe, Done
  <2>2. ASSUME NEW s \in {"refunded", "partially_refunded"}, SetPayment(p, s) PROVE Kept
    <3>1. Taken(p)
      BY <1>0, <1>3 DEF handle_charge_refunded, Handling, EventFact
    <3>2. Write(p, s, row[p].captured)
      BY <1>0, <2>2, WriteForms DEF PaymentStatus
    <3>3. s # "released" /\ s # "absent"
      BY <2>2
    <3>4. /\ row[p].provider = "cash" \/ pi[p] = "succeeded"
          /\ row[p].purpose = "guarantee" => pi[p] = "succeeded" /\ row[p].captured = received[p]
      BY <3>1 DEF Taken
    <3> QED
      <4>1. Books /\ Goes(r)
        BY <1>0, <1>3, <3>2, <3>3, <3>4 DEF handle_charge_refunded, stripe, Done, Books, Goes
      <4> QED
        BY <1>0, <1>3, <3>2, <3>3, <3>4, <4>1, WriteKept
  <2> QED
    BY <1>3, <2>1, <2>2 DEF handle_charge_refunded, SetPayment, p
<1> QED
  BY <1>1, <1>2, <1>3

LEMMA SaleRows ==
    ASSUME MoneyInv, entry' = entry, NEW r \in Proc,
           SaleCommit(r) \/ AutoRefundMark(r) \/ AutoRefundEnd(r)
    PROVE  Kept
<1> DEFINE p == job[r].p
<1>0. /\ TableT /\ OrderT /\ processed \subseteq sent /\ refunds \in [Pay -> Nat]
      /\ p \in Pay /\ row[p].status # "absent" /\ row[p].purpose = "sale"
      /\ Idle \in Job /\ JobFact(Idle)
  <2>1. job[r].pc \in {"sale"} \cup Refunding /\ JobFact(job[r])
    BY MoneyTypes DEF SaleCommit, AutoRefundMark, AutoRefundEnd, Refunding
  <2>2. p \in Pay /\ Sold(p)
    BY <2>1 DEF JobFact, OnPay, Refunding
  <2> QED
    BY <2>2, MoneyTypes, IdleIs DEF StripeT, TableT, Sold
<1>a. JobFact(job[r])
  BY MoneyTypes
<1> HIDE DEF p
<1>1. ASSUME SaleCommit(r) PROVE Kept
  <2>1. CASE row' = row
    BY <1>0, <1>1, <2>1, QuietStep DEF SaleCommit, stripe, Done
  <2>2. CASE IntentSucceeded(p) /\ SalePaid(r, p)
    <3>1. pi[p] = "succeeded"
      BY <2>2 DEF IntentSucceeded
    <3>2. Write(p, "paid", row[p].captured)
      BY <1>0, <2>2, WriteForms DEF SalePaid, PaymentStatus
    <3> QED
      <4>1. Books /\ Goes(r)
        BY <1>0, <1>1, <3>1, <3>2 DEF SaleCommit, stripe, Done, Books, Goes
      <4> QED
        BY <1>0, <1>1, <3>1, <3>2, <4>1, WriteKept
  <2> QED
    BY <1>1, <2>1, <2>2 DEF SaleCommit, p
<1>2. ASSUME AutoRefundMark(r) PROVE Kept
  <2>1. pi[p] = "succeeded"
    BY <1>2, <1>a DEF AutoRefundMark, JobFact, Refunding, p
  <2>2. Write(p, "paid", row[p].captured)
    BY <1>0, <1>2, WriteForms DEF AutoRefundMark, PaymentStatus, p
  <2>3. At("refund", p) \in Job /\ At("refund", p).pc = "refund" /\ At("refund", p).p = p
    BY <1>0, AtIs DEF Control
  <2>4. JobFact(At("refund", p))
    BY <1>0, <2>1, <2>3 DEF JobFact, OnPay, Refunding, Sold
  <2>5. Become(r, At("refund", p))
    BY <1>2 DEF AutoRefundMark, p
  <2> QED
    <3>1. Books /\ Goes(r)
      BY <1>0, <1>2, <2>1, <2>2, <2>3, <2>4, <2>5 DEF AutoRefundMark, stripe, Books, Goes
    <3> QED
      BY <1>0, <1>2, <2>1, <2>2, <2>3, <2>4, <2>5, <3>1, WriteKept
<1>3. ASSUME AutoRefundEnd(r) PROVE Kept
  <2>1. pi[p] = "succeeded" /\ job[r].doc \in {"refunded", "refund_failed"}
    BY <1>3, <1>a DEF AutoRefundEnd, JobFact, Refunding, p
  <2>2. PICK s : s = job[r].doc
    OBVIOUS
  <2>3. s \in {"refunded", "refund_failed"} /\ SetPayment(p, s)
    BY <1>3, <2>1, <2>2 DEF AutoRefundEnd, p
  <2>4. Write(p, s, row[p].captured)
    BY <1>0, <2>3, WriteForms DEF PaymentStatus
  <2>5. s # "released" /\ s # "absent"
    BY <2>3
  <2> QED
    <3>1. Books /\ Goes(r)
      BY <1>0, <1>3, <2>1, <2>4, <2>5 DEF AutoRefundEnd, stripe, Done, Books, Goes
    <3> QED
      BY <1>0, <1>3, <2>1, <2>4, <2>5, <3>1, WriteKept
<1> QED
  BY <1>1, <1>2, <1>3

LEMMA HoldRows ==
    ASSUME MoneyInv, entry' = entry, NEW r \in Proc,
           \/ FailureCommit(r) \/ sync_external_capture(r) \/ GuaranteeCommit(r)
           \/ AutoReleaseEnd(r) \/ CaptureCommit(r) \/ ReleaseCommit(r)
    PROVE  Kept
<1> DEFINE p == job[r].p
<1>0. /\ TableT /\ OrderT /\ processed \subseteq sent /\ refunds \in [Pay -> Nat]
      /\ p \in Pay /\ row[p].status # "absent" /\ row[p].status \in PaymentStatus
      /\ received[p] \in 0 .. Total
      /\ Idle \in Job /\ JobFact(Idle)
  <2>1. job[r].pc \in {"fail", "guar", "relend", "capture", "release"} /\ JobFact(job[r])
    BY MoneyTypes DEF FailureCommit, sync_external_capture, GuaranteeCommit, AutoReleaseEnd,
                      CaptureCommit, ReleaseCommit, Finalizable
  <2>2. p \in Pay /\ row[p].status # "absent"
    BY <2>1 DEF JobFact, OnPay
  <2> QED
    BY <2>2, MoneyTypes, IdleIs DEF StripeT, TableT
<1>a. JobFact(job[r])
  BY MoneyTypes
<1> HIDE DEF p
<1>1. ASSUME FailureCommit(r) PROVE Kept
  <2>1. Failed(p) \/ pi[p] = "canceled"
    BY <1>1, <1>a DEF FailureCommit, JobFact, p
  <2>2. PICK s \in {"released", "failed"} : SetPayment(p, s)
    BY <1>1 DEF FailureCommit, p
  <2>3. Write(p, s, row[p].captured)
    BY <1>0, <2>2, WriteForms DEF PaymentStatus
  <2> QED
    <3>1. Books /\ Goes(r)
      BY <1>0, <1>1, <2>1, <2>2, <2>3 DEF FailureCommit, stripe, Done, Books, Goes
    <3> QED
      BY <1>0, <1>1, <2>1, <2>2, <2>3, <3>1, WriteReleased, WritePlain
<1>2. ASSUME sync_external_capture(r) PROVE Kept
  <2>1. pi[p] = "succeeded"
    BY <1>2, <1>a DEF sync_external_capture, Finalizable, Intent, JobFact, p
  <2>2. PICK c \in 0 .. Total : c = received[p]
    BY <1>0
  <2>3. row' = [row EXCEPT ![p].status = "paid", ![p].ref = "pi", ![p].captured = c]
    BY <1>2, <2>2 DEF sync_external_capture, AmountReceived, p
  <2>4. Write(p, "paid", c)
    BY <1>0, <2>3, WriteForms DEF PaymentStatus
  <2> QED
    <3>1. Books /\ Goes(r)
      BY <1>0, <1>2, <2>1, <2>2, <2>4 DEF sync_external_capture, stripe, Done, Books, Goes
    <3> QED
      BY <1>0, <1>2, <2>1, <2>2, <2>4, <3>1, WriteTaken
<1>3. ASSUME GuaranteeCommit(r) PROVE Kept
  <2>1. Write(p, "authorized", row[p].captured)
    BY <1>0, <1>3, WriteForms DEF GuaranteeCommit, PaymentStatus, p
  <2> QED
    <3>1. Books /\ Goes(r)
      BY <1>0, <1>3, <2>1 DEF GuaranteeCommit, stripe, Done, Books, Goes
    <3> QED
      BY <1>0, <1>3, <2>1, <3>1, WritePlain
<1>4. ASSUME AutoReleaseEnd(r) PROVE Kept
  <2>1. job[r].doc \in {"released", "authorized"} /\ (job[r].doc = "released" => pi[p] = "canceled")
    BY <1>4, <1>a DEF AutoReleaseEnd, JobFact, p
  <2>2. PICK s : s = Written(job[r].seen, job[r].doc, row[p].status)
    OBVIOUS
  <2>3. /\ SetPayment(p, s)
        /\ s = row[p].status \/ s = "authorized" \/ (s = "released" /\ pi[p] = "canceled")
    BY <1>4, <2>1, <2>2 DEF AutoReleaseEnd, Written, p
  <2>4. s \in PaymentStatus /\ s # "absent"
    BY <1>0, <2>3 DEF PaymentStatus
  <2>5. Write(p, s, row[p].captured)
    BY <1>0, <2>3, <2>4, WriteForms
  <2> QED
    <3>1. Books /\ Goes(r)
      BY <1>0, <1>4, <2>3, <2>4, <2>5 DEF AutoReleaseEnd, stripe, Done, Books, Goes
    <3> QED
      BY <1>0, <1>4, <2>3, <2>4, <2>5, <3>1, WriteReleased, WritePlain
<1>5. ASSUME CaptureCommit(r) PROVE Kept
  <2>1. pi[p] = "succeeded" /\ received[p] = job[r].n
    BY <1>5, <1>a DEF CaptureCommit, JobFact, p
  <2>2. PICK c \in 0 .. Total : c = received[p]
    BY <1>0
  <2>3. row' = [row EXCEPT ![p].status = "paid", ![p].captured = c]
    BY <1>5, <2>1, <2>2 DEF CaptureCommit, p
  <2>4. Write(p, "paid", c)
    BY <1>0, <2>3, WriteForms DEF PaymentStatus
  <2> QED
    <3>1. Books /\ Goes(r)
      BY <1>0, <1>5, <2>1, <2>2, <2>4 DEF CaptureCommit, stripe, Done, Books, Goes
    <3> QED
      BY <1>0, <1>5, <2>1, <2>2, <2>4, <3>1, WriteTaken
<1>6. ASSUME ReleaseCommit(r) PROVE Kept
  <2>1. pi[p] = "canceled"
    BY <1>6, <1>a DEF ReleaseCommit, JobFact, p
  <2>2. Write(p, "released", row[p].captured)
    BY <1>0, <1>6, WriteForms DEF ReleaseCommit, PaymentStatus, p
  <2> QED
    <3>1. Books /\ Goes(r)
      BY <1>0, <1>6, <2>1, <2>2 DEF ReleaseCommit, stripe, Done, Books, Goes
    <3> QED
      BY <1>0, <1>6, <2>1, <2>2, <3>1, WriteReleased
<1> QED
  BY <1>1, <1>2, <1>3, <1>4, <1>5, <1>6

-----------------------------------------------------------------------------
(* The steps of Stripe and of the handlers that call it *)

SessionStatus == {"none", "open", "done", "expired"}

(* Stripe moves the objects of one row forward and tells what happened.    *)
Forward(p) ==
    /\ pi' \in [Pay -> IntentStatus] /\ cs' \in [Pay -> SessionStatus]
    /\ received' \in [Pay -> 0 .. Total]
    /\ \A q \in Pay : q # p => UNCHANGED <<pi[q], cs[q], received[q]>>
    /\ pi[p] = "succeeded" => pi'[p] = "succeeded" /\ received'[p] = received[p]
    /\ pi[p] = "canceled" => pi'[p] = "canceled"
    /\ pi'[p] # "succeeded" => received'[p] = 0

Tells(p) ==
    \A e \in sent' : \/ e \in sent
                     \/ /\ e \in Event /\ e.p = p
                        /\ e.type # "refunded"
                        /\ e.type = "succeeded" => pi'[p] = "succeeded"
                        /\ e.type = "canceled" => pi'[p] = "canceled"
                        /\ e.type = "payment_failed" => "decline" \in entry

LEMMA StripeStep ==
    ASSUME MoneyInv, entry' = entry, UNCHANGED <<row, refunds, refunded, processed>>, sent \subseteq sent',
           NEW p \in Pay, row[p].status # "absent", Forward(p), Tells(p),
           \/ job' = job
           \/ \E r \in Proc, j \in Job : Become(r, j) /\ (JobFact(j) \/ JobFact(j)')
    PROVE  Kept
<1>0. TableT /\ StripeT
  BY MoneyTypes
<1>1. TableT'
  BY <1>0 DEF TableT
<1>2. \A e \in sent' : e \in Event /\ (e \in sent \/ EventFact(e.type, e.p)')
  <2> TAKE e \in sent'
  <2>1. CASE e \in sent
    BY <1>0, <2>1 DEF StripeT
  <2>2. CASE e \notin sent
    <3>1. /\ e \in Event /\ e.p = p
          /\ e.type # "refunded"
          /\ e.type = "succeeded" => pi'[p] = "succeeded"
          /\ e.type = "canceled" => pi'[p] = "canceled"
          /\ e.type = "payment_failed" => "decline" \in entry
      BY <2>2 DEF Tells
    <3>2. row'[p].status # "absent"
      OBVIOUS
    <3> QED
      BY <3>1, <3>2 DEF EventFact
  <2> QED
    BY <2>1, <2>2
<1>3. StripeT'
  BY <1>0, <1>2 DEF StripeT, Forward, SessionStatus
<1>4. \A q \in Pay : Unmoved(q) \/ Alive(q) \/ Opens(q)
  <2> TAKE q \in Pay
  <2>1. CASE q # p
    BY <2>1 DEF Unmoved, Forward
  <2>2. CASE q = p
    BY <2>2 DEF Alive, Forward
  <2> QED
    BY <2>1, <2>2
<1> QED
  BY <1>1, <1>2, <1>3, <1>4, MovesStep

LEMMA CardSteps ==
    ASSUME MoneyInv, entry' = entry, NEW p \in Pay,
           PayCard(p) \/ DeclineCard(p) \/ HoldExpires(p) \/ SessionExpires(p) \/ DashboardCapture(p)
    PROVE  Kept
<1>0. /\ TableT /\ StripeT /\ RowFact(p) /\ pi \in [Pay -> IntentStatus] /\ cs \in [Pay -> SessionStatus]
      /\ received \in [Pay -> 0 .. Total]
      /\ "hold" \in IntentStatus /\ "succeeded" \in IntentStatus /\ "canceled" \in IntentStatus
      /\ 0 \in 0 .. Total /\ Total \in 0 .. Total
  BY MoneyTypes, TotalAssumption DEF StripeT, SessionStatus, IntentStatus
<1>1. row[p].status # "absent"
  <2>1. pi[p] # "none" \/ cs[p] # "none"
    BY DEF PayCard, DeclineCard, HoldExpires, SessionExpires, DashboardCapture
  <2> QED
    BY <2>1, RefExists
<1>e. \A type \in EventType : LET e == Emit(type, p, 0) IN e \in Event /\ e.p = p /\ e.type = type
  BY <1>0 DEF Emit, Event
<1>2. UNCHANGED <<row, refunds, refunded, processed>> /\ sent \subseteq sent' /\ job' = job
  BY DEF PayCard, DeclineCard, HoldExpires, SessionExpires, DashboardCapture, StripeOnly, table, Emits
<1>3. Forward(p)
  <2>1. CASE PayCard(p)
    <3>1. cs' \in [Pay -> SessionStatus] /\ \A q \in Pay : q # p => cs'[q] = cs[q]
      BY <1>0, <2>1 DEF PayCard, SessionStatus
    <3>2. PICK a \in {"hold", "succeeded"}, c \in {0, Total} :
            /\ pi' = [pi EXCEPT ![p] = a] /\ received' = [received EXCEPT ![p] = c]
            /\ a = "hold" => c = 0
      BY <2>1 DEF PayCard
    <3>3. pi[p] # "succeeded" /\ pi[p] # "canceled"
      BY <2>1 DEF PayCard
    <3> QED
      BY <1>0, <3>1, <3>2, <3>3 DEF Forward
  <2>2. CASE HoldExpires(p)
    BY <1>0, <2>2 DEF HoldExpires, Forward, RowFact
  <2>3. CASE DashboardCapture(p)
    <3>1. PICK c \in 1 .. Total : received' = [received EXCEPT ![p] = c]
      BY <2>3 DEF DashboardCapture
    <3>2. c \in 0 .. Total
      BY TotalAssumption
    <3> QED
      BY <1>0, <2>3, <3>1, <3>2 DEF DashboardCapture, Forward
  <2>4. CASE SessionExpires(p)
    BY <1>0, <2>4 DEF SessionExpires, Forward, SessionStatus, RowFact
  <2>5. CASE DeclineCard(p)
    BY <1>0, <2>5 DEF DeclineCard, Forward, RowFact
  <2> QED
    BY <2>1, <2>2, <2>3, <2>4, <2>5
<1>4. Tells(p)
  <2>1. CASE PayCard(p)
    <3>1. \A e \in sent' : \/ e \in sent
                           \/ e = Emit("capturable", p, 0) \/ e = Emit("completed", p, 0)
                           \/ e = Emit("succeeded", p, 0) /\ pi' = [pi EXCEPT ![p] = "succeeded"]
      BY <2>1 DEF PayCard
    <3>2. "capturable" \in EventType /\ "completed" \in EventType /\ "succeeded" \in EventType
      BY DEF EventType
    <3>3. pi' = [pi EXCEPT ![p] = "succeeded"] => pi'[p] = "succeeded"
      BY <1>0
    <3> QED
      BY <1>e, <3>1, <3>2, <3>3 DEF Tells
  <2>2. ASSUME NEW type \in {"payment_failed", "canceled", "session_expired", "succeeded"},
               sent' = sent \cup {Emit(type, p, 0)},
               type = "succeeded" => pi'[p] = "succeeded", type = "canceled" => pi'[p] = "canceled",
               type = "payment_failed" => "decline" \in entry
        PROVE  Tells(p)
    <3>1. type \in EventType
      BY DEF EventType
    <3> QED
      BY <1>e, <2>2, <3>1 DEF Tells
  <2>3. CASE DeclineCard(p)
    <3>1. "decline" \in entry /\ sent' = sent \cup {Emit("payment_failed", p, 0)}
      BY <2>3 DEF DeclineCard, Emits
    <3> QED
      BY <3>1, <2>2
  <2>4. CASE HoldExpires(p)
    <3>1. pi'[p] = "canceled" /\ sent' = sent \cup {Emit("canceled", p, 0)}
      BY <1>0, <2>4 DEF HoldExpires, Emits
    <3> QED
      BY <3>1, <2>2
  <2>5. CASE SessionExpires(p)
    <3>1. sent' = sent \cup {Emit("session_expired", p, 0)}
      BY <2>5 DEF SessionExpires, Emits
    <3> QED
      BY <3>1, <2>2
  <2>6. CASE DashboardCapture(p)
    <3>1. pi'[p] = "succeeded" /\ sent' = sent \cup {Emit("succeeded", p, 0)}
      BY <1>0, <2>6 DEF DashboardCapture, Emits
    <3> QED
      BY <3>1, <2>2
  <2> QED
    BY <2>1, <2>3, <2>4, <2>5, <2>6
<1> QED
  BY <1>1, <1>2, <1>3, <1>4, StripeStep

(* Stripe cancels an intent: what CancelIntent says of the row. *)
LEMMA CancelIs ==
    ASSUME MoneyInv, NEW p \in Pay, CancelIntent(p)
    PROVE  /\ row[p].status # "absent" /\ Forward(p) /\ Tells(p) /\ sent \subseteq sent'
           /\ pi'[p] = "canceled"
<1>0. /\ StripeT /\ RowFact(p) /\ pi \in [Pay -> IntentStatus] /\ cs \in [Pay -> SessionStatus]
      /\ received \in [Pay -> 0 .. Total] /\ "canceled" \in IntentStatus
  BY MoneyTypes DEF StripeT, SessionStatus, IntentStatus
<1>1. row[p].status # "absent"
  BY RefExists DEF CancelIntent, Cancelable
<1>2. pi'[p] = "canceled"
  BY <1>0 DEF CancelIntent
<1>3. Forward(p)
  BY <1>0 DEF CancelIntent, Cancelable, Forward, RowFact
<1>4. Tells(p) /\ sent \subseteq sent'
  <2>1. \A e \in sent' : e \in sent \/ e = Emit("canceled", p, 0)
    BY DEF CancelIntent
  <2>2. LET e == Emit("canceled", p, 0) IN e \in Event /\ e.p = p /\ e.type = "canceled"
    BY TotalAssumption DEF Emit, Event, EventType
  <2>3. sent \subseteq sent'
    BY DEF CancelIntent
  <2> QED
    BY <1>2, <2>1, <2>2, <2>3 DEF Tells
<1> QED
  BY <1>1, <1>2, <1>3, <1>4

LEMMA HoldSteps ==
    ASSUME MoneyInv, entry' = entry, NEW r \in Proc
    PROVE  /\ \A p \in Pay : release_guarantee(r, p) \/ settle_guarantee_cash(r, p) => Kept
           /\ \A p \in Pay, n \in 1 .. Total : capture_guarantee(r, p, n) => Kept
           /\ AutoReleaseCall(r) => Kept
<1>0. OrderT /\ StripeT /\ job[r] \in Job /\ JobFact(job[r])
  BY MoneyTypes
<1>1. ASSUME NEW p \in Pay, release_guarantee(r, p) PROVE Kept
  <2>1. /\ row[p].status # "absent" /\ Forward(p) /\ Tells(p) /\ sent \subseteq sent'
        /\ pi'[p] = "canceled"
    BY <1>1, CancelIs DEF release_guarantee
  <2>2. At("release", p) \in Job /\ At("release", p).pc = "release" /\ At("release", p).p = p
    BY AtIs DEF Control
  <2>3. UNCHANGED <<row, refunds, refunded, processed>> /\ Become(r, At("release", p))
    BY <1>1 DEF release_guarantee, table, CancelIntent
  <2>4. JobFact(At("release", p))'
    BY <2>1, <2>2, <2>3 DEF JobFact, OnPay, Refunding
  <2> QED
    BY <2>1, <2>2, <2>3, <2>4, StripeStep
<1>2. ASSUME NEW p \in Pay, settle_guarantee_cash(r, p) PROVE Kept
  <2>1. /\ row[p].status # "absent" /\ Forward(p) /\ Tells(p) /\ sent \subseteq sent'
        /\ pi'[p] = "canceled"
    BY <1>2, CancelIs DEF settle_guarantee_cash
  <2>2. PICK j : j = Saw("cash", p, "", "")
    OBVIOUS
  <2>3. j \in Job /\ j.pc = "cash" /\ j.p = p
    <3>1. "cash" \in Control
      BY DEF Control
    <3>2. \A x \in Seen, y \in Doc : LET k == Saw("cash", p, x, y)
                                    IN  k \in Job /\ k.pc = "cash" /\ k.p = p
      BY <1>0, <3>1, SawPay
    <3>3. "" \in Seen /\ "" \in Doc
      BY DEF Seen, Doc
    <3> QED
      BY <2>2, <3>2, <3>3, Zenon
  <2>4. UNCHANGED <<row, refunds, refunded, processed>> /\ Become(r, j)
    BY <1>2, <2>2 DEF settle_guarantee_cash, table, CancelIntent
  <2>5. JobFact(j)'
    BY <2>1, <2>3, <2>4 DEF JobFact, OnPay, Refunding
  <2> QED
    BY <2>1, <2>3, <2>4, <2>5, StripeStep
<1>3. ASSUME NEW p \in Pay, NEW n \in 1 .. Total, capture_guarantee(r, p, n) PROVE Kept
  <2>0. /\ pi \in [Pay -> IntentStatus] /\ cs \in [Pay -> SessionStatus]
        /\ received \in [Pay -> 0 .. Total] /\ n \in 0 .. Total /\ "succeeded" \in IntentStatus
    BY <1>0, TotalAssumption DEF StripeT, SessionStatus, IntentStatus
  <2>1. row[p].status # "absent"
    BY <1>3, RefExists DEF capture_guarantee
  <2>2. /\ pi[p] = "hold" /\ pi' = [pi EXCEPT ![p] = "succeeded"] /\ received' = [received EXCEPT ![p] = n]
        /\ cs' = cs /\ sent' = sent \cup {Emit("succeeded", p, 0)}
        /\ UNCHANGED <<row, refunds, refunded, processed>>
    BY <1>3 DEF capture_guarantee, Emits, table
  <2>3. Forward(p) /\ pi'[p] = "succeeded" /\ received'[p] = n
    BY <2>0, <2>2 DEF Forward
  <2>4. Tells(p)
    <3>1. LET e == Emit("succeeded", p, 0) IN e \in Event /\ e.p = p /\ e.type = "succeeded"
      BY TotalAssumption DEF Emit, Event, EventType
    <3> QED
      BY <2>2, <2>3, <3>1 DEF Tells
  <2>5. PICK j : j = [At("capture", p) EXCEPT !.n = n]
    OBVIOUS
  <2>6. At("capture", p) \in Job /\ At("capture", p).pc = "capture" /\ At("capture", p).p = p
    BY AtIs DEF Control
  <2>7. j \in Job /\ j.pc = "capture" /\ j.p = p /\ j.n = n
    BY <2>0, <2>5, <2>6 DEF Job
  <2>8. JobFact(j)'
    BY <2>1, <2>2, <2>3, <2>7 DEF JobFact, OnPay, Refunding
  <2>9. Become(r, j)
    BY <1>3, <2>5 DEF capture_guarantee
  <2>10. sent \subseteq sent'
    BY <2>2
  <2> QED
    BY <2>1, <2>2, <2>3, <2>4, <2>7, <2>8, <2>9, <2>10, StripeStep
<1>4. ASSUME AutoReleaseCall(r) PROVE Kept
  <2>1. CASE UNCHANGED stripe /\ Become(r, [job[r] EXCEPT !.pc = "relend", !.doc = "authorized"])
    BY <1>4, <2>1, QuietHolds
  <2>2. ASSUME CancelIntent(job[r].p), Become(r, [job[r] EXCEPT !.pc = "relend", !.doc = "released"])
        PROVE  Kept
    <3>1. PICK p : p = job[r].p
      OBVIOUS
    <3>2. p \in Pay
      BY <1>0, <1>4, <3>1 DEF AutoReleaseCall, JobFact, OnPay
    <3>3. CancelIntent(p)
      BY <2>2, <3>1 DEF CancelIntent, Cancelable
    <3>4. /\ row[p].status # "absent" /\ Forward(p) /\ Tells(p) /\ sent \subseteq sent'
          /\ pi'[p] = "canceled"
      BY <3>2, <3>3, CancelIs
    <3>5. PICK j : j = [job[r] EXCEPT !.pc = "relend", !.doc = "released"]
      OBVIOUS
    <3>6. "relend" \in Control /\ "released" \in Doc
      BY DEF Control, Doc, PaymentStatus
    <3>7. j \in Job /\ j.pc = "relend" /\ j.p = p /\ j.doc = "released"
      BY <1>0, <3>1, <3>5, <3>6 DEF Job
    <3>8. UNCHANGED <<row, refunds, refunded, processed>> /\ Become(r, j)
      BY <1>4, <2>2, <3>5, <3>3 DEF AutoReleaseCall, table, CancelIntent
    <3>9. JobFact(j)'
      BY <3>2, <3>4, <3>7, <3>8 DEF JobFact, OnPay, Refunding
    <3> QED
      BY <3>2, <3>4, <3>7, <3>8, <3>9, StripeStep
  <2> QED
    BY <1>4, <2>1, <2>2 DEF AutoReleaseCall
<1> QED
  BY <1>1, <1>2, <1>3, <1>4

-----------------------------------------------------------------------------
(* The steps that open a row *)

LEMMA NewRows ==
    ASSUME NEW purpose \in {"sale", "guarantee"}, NEW provider \in {"stripe", "stripe_terminal"}
    PROVE  /\ \E w \in Row : /\ w = [NoRow EXCEPT !.purpose = purpose, !.provider = provider,
                                                  !.status = "pending", !.ref = "pi"]
                             /\ w.status = "pending" /\ w.provider = provider /\ w.captured = 0
           /\ \E w \in Row : /\ w = [NoRow EXCEPT !.purpose = purpose, !.status = "pending"]
                             /\ w.status = "pending" /\ w.provider = "stripe" /\ w.captured = 0
           /\ \E w \in Row : /\ w = [NoRow EXCEPT !.provider = "cash", !.status = "paid"]
                             /\ w.status = "paid" /\ w.provider = "cash" /\ w.captured = 0
                             /\ w.purpose = "sale"
<1>1. 0 \in 0 .. Total
  BY TotalAssumption
<1>2. PICK u : u = [NoRow EXCEPT !.purpose = purpose, !.provider = provider, !.status = "pending", !.ref = "pi"]
  OBVIOUS
<1>3. u \in Row /\ u.status = "pending" /\ u.provider = provider /\ u.captured = 0
  BY <1>1, <1>2 DEF NoRow, Row, PaymentStatus
<1>4. PICK v : v = [NoRow EXCEPT !.purpose = purpose, !.status = "pending"]
  OBVIOUS
<1>5. v \in Row /\ v.status = "pending" /\ v.provider = "stripe" /\ v.captured = 0
  BY <1>1, <1>4 DEF NoRow, Row, PaymentStatus
<1>6. PICK w : w = [NoRow EXCEPT !.provider = "cash", !.status = "paid"]
  OBVIOUS
<1>7. w \in Row /\ w.status = "paid" /\ w.provider = "cash" /\ w.captured = 0 /\ w.purpose = "sale"
  BY <1>1, <1>6 DEF NoRow, Row, PaymentStatus
<1> QED
  BY <1>2, <1>3, <1>4, <1>5, <1>6, <1>7

LEMMA IntentSteps ==
    ASSUME MoneyInv, entry' = entry, NEW p \in Pay,
           \/ create_intent(p) \/ create_terminal_intent(p) \/ create_guarantee_intent(p)
           \/ create_manual_order(p)
    PROVE  Kept
<1>0. TableT /\ StripeT /\ row \in [Pay -> Row] /\ pi \in [Pay -> IntentStatus]
  BY MoneyTypes DEF TableT, StripeT
<1>1. ASSUME NEW purpose \in {"sale", "guarantee"}, NEW provider \in {"stripe", "stripe_terminal"},
             NewIntent(p, purpose, provider)
      PROVE  Kept
  <2>1. PICK w \in Row : /\ w = [NoRow EXCEPT !.purpose = purpose, !.provider = provider,
                                              !.status = "pending", !.ref = "pi"]
                         /\ w.status = "pending" /\ w.provider = provider /\ w.captured = 0
    BY NewRows
  <2>2. /\ row' = [row EXCEPT ![p] = w] /\ pi' = [pi EXCEPT ![p] = "open"]
        /\ UNCHANGED <<refunds, cs, received, refunded, sent, processed, job>>
        /\ row[p].status = "absent"
    BY <1>1, <2>1 DEF NewIntent, Insert, Fresh
  <2>3. TableT' /\ StripeT'
    BY <1>0, <2>2 DEF TableT, StripeT, IntentStatus
  <2>4. Opens(p) /\ \A q \in Pay : q # p => Unmoved(q)
    BY <1>0, <2>1, <2>2 DEF Opens, Unmoved
  <2> QED
    BY <2>2, <2>3, <2>4, MovesStep
<1>2. ASSUME create_manual_order(p) PROVE Kept
  <2>1. PICK w \in Row : /\ w = [NoRow EXCEPT !.provider = "cash", !.status = "paid"]
                         /\ w.status = "paid" /\ w.provider = "cash" /\ w.captured = 0
                         /\ w.purpose = "sale"
    BY NewRows
  <2>2. /\ row' = [row EXCEPT ![p] = w]
        /\ UNCHANGED <<pi, refunds, cs, received, refunded, sent, processed, job>>
        /\ row[p].status = "absent"
    BY <1>2, <2>1 DEF create_manual_order, Insert, Fresh, stripe
  <2>3. TableT' /\ StripeT'
    BY <1>0, <2>2 DEF TableT, StripeT
  <2>4. pi[p] = "none"
    BY <2>2, MoneyTypes DEF RowFact
  <2>5. Opens(p) /\ \A q \in Pay : q # p => Unmoved(q)
    BY <1>0, <2>1, <2>2, <2>4 DEF Opens, Unmoved
  <2> QED
    BY <2>2, <2>3, <2>5, MovesStep
<1> QED
  BY <1>1, <1>2 DEF create_intent, create_terminal_intent, create_guarantee_intent

LEMMA ExpiredRow ==
    ASSUME NEW w \in Row
    PROVE  LET x == [w EXCEPT !.status = "expired"]
           IN  x \in Row /\ x.status = "expired" /\ x.purpose = w.purpose /\ x.provider = w.provider
               /\ x.captured = w.captured
BY DEF Row, PaymentStatus

LEMMA LinkSteps ==
    ASSUME MoneyInv, entry' = entry, NEW r \in Proc
    PROVE  /\ \A p \in Pay, purpose \in {"sale", "guarantee"} : create_payment_link(r, p, purpose) => Kept
           /\ LinkCreated(r) => Kept
<1>0. /\ TableT /\ StripeT /\ row \in [Pay -> Row] /\ cs \in [Pay -> SessionStatus] /\ sent \subseteq Event
      /\ \A q \in Pay : RowFact(q)
  BY MoneyTypes DEF TableT, StripeT, SessionStatus
<1>1. ASSUME NEW p \in Pay, NEW purpose \in {"sale", "guarantee"}, create_payment_link(r, p, purpose)
      PROVE  Kept
  <2> DEFINE previous == {q \in Pay : row[q].status = "pending" /\ row[q].provider = "stripe"}
             open     == {q \in previous : row[q].ref = "cs" /\ cs[q] = "open"}
  <2>1. PICK w \in Row : /\ w = [NoRow EXCEPT !.purpose = purpose, !.status = "pending"]
                         /\ w.status = "pending" /\ w.provider = "stripe" /\ w.captured = 0
    BY NewRows
  <2>2. PICK closed \in SUBSET open :
          /\ row' = [q \in Pay |-> IF q = p THEN w
                                   ELSE IF q \in previous THEN [row[q] EXCEPT !.status = "expired"]
                                   ELSE row[q]]
          /\ cs' = [q \in Pay |-> IF q \in closed THEN "expired" ELSE cs[q]]
          /\ sent' = sent \cup {Emit("session_expired", q, 0) : q \in closed}
    BY <1>1, <2>1 DEF create_payment_link
  <2>3. /\ row[p].status = "absent" /\ UNCHANGED <<refunds, pi, received, refunded, processed>>
        /\ Become(r, At("link", p))
    BY <1>1 DEF create_payment_link, Fresh
  <2>4. /\ closed \subseteq previous /\ p \notin previous /\ previous \subseteq Pay
        /\ \A q \in previous : row[q].status = "pending"
    BY <2>3
  <2> HIDE DEF previous, open
  <2>5. row' \in [Pay -> Row] /\ row'[p] = w
        /\ \A q \in Pay : /\ q # p /\ q \notin previous => row'[q] = row[q]
                          /\ q \in previous => /\ row'[q].status = "expired" /\ row'[q].purpose = row[q].purpose
                                               /\ row'[q].provider = row[q].provider
                                               /\ row'[q].captured = row[q].captured
    BY <1>0, <2>2, <2>4, ExpiredRow
  <2>6. \A q \in Pay : Unmoved(q) \/ Alive(q) \/ Opens(q)
    <3> TAKE q \in Pay
    <3>1. CASE q = p
      <4>1. pi[p] = "none"
        BY <1>0, <2>3 DEF RowFact
      <4> QED
        BY <2>1, <2>3, <2>5, <3>1, <4>1 DEF Opens
    <3>2. CASE q \in previous
      <4>1. pi'[q] # "succeeded" => received'[q] = 0
        BY <1>0, <2>3 DEF RowFact
      <4> QED
        BY <2>3, <2>4, <2>5, <3>2, <4>1 DEF Alive
    <3>3. CASE q # p /\ q \notin previous
      <4>1. cs'[q] = cs[q]
        BY <2>2, <2>4, <3>3
      <4> QED
        BY <2>3, <2>5, <3>3, <4>1 DEF Unmoved
    <3> QED
      BY <3>1, <3>2, <3>3
  <2>7. \A e \in sent' : e \in Event /\ (e \in sent \/ EventFact(e.type, e.p)')
    <3> TAKE e \in sent'
    <3>1. CASE e \in sent
      BY <1>0, <3>1
    <3>2. ASSUME NEW q \in closed, e = Emit("session_expired", q, 0)
          PROVE  e \in Event /\ EventFact(e.type, e.p)'
      <4>1. q \in previous /\ q \in Pay
        BY <2>4
      <4>2. e \in Event /\ e.type = "session_expired" /\ e.p = q
        BY <3>2, <4>1, TotalAssumption DEF Emit, Event, EventType
      <4>3. row'[q].status # "absent"
        BY <2>5, <4>1
      <4> QED
        BY <4>2, <4>3 DEF EventFact
    <3> QED
      BY <2>2, <3>1, <3>2
  <2>8. TableT'
    BY <1>0, <2>3, <2>5 DEF TableT
  <2>9. cs' \in [Pay -> SessionStatus] /\ sent \subseteq sent'
    BY <1>0, <2>2 DEF SessionStatus
  <2>10. StripeT'
    BY <1>0, <2>3, <2>7, <2>9 DEF StripeT, SessionStatus
  <2>11. At("link", p) \in Job /\ At("link", p).pc = "link" /\ At("link", p).p = p
    BY AtIs DEF Control
  <2>12. JobFact(At("link", p))'
    <3>1. row'[p].status # "absent"
      BY <2>1, <2>5
    <3> QED
      BY <2>11, <3>1 DEF JobFact, OnPay, Refunding
  <2> QED
    BY <2>3, <2>6, <2>7, <2>8, <2>10, <2>11, <2>12, MovesStep
<1>2. ASSUME LinkCreated(r) PROVE Kept
  <2>0. PICK p : p = job[r].p
    OBVIOUS
  <2>1. p \in Pay /\ row[p].status # "absent" /\ UNCHANGED <<refunds, pi, received, refunded, sent, processed>>
        /\ Become(r, Idle)
    BY <1>2, <2>0, MoneyTypes DEF LinkCreated, JobFact, OnPay, Done
  <2>2. CASE UNCHANGED <<row, cs>>
    <3>1. processed' \subseteq sent
      BY <1>0, <2>1 DEF StripeT
    <3> QED
      BY <2>1, <2>2, <3>1, IdleIs, QuietStep
  <2>3. CASE row' = [row EXCEPT ![p].ref = "cs"] /\ cs' = [cs EXCEPT ![p] = "open"]
    <3>1. PICK w : w = [row[p] EXCEPT !.ref = "cs"]
      OBVIOUS
    <3>2. w \in Row /\ w.status = row[p].status /\ w.purpose = row[p].purpose
          /\ w.provider = row[p].provider /\ w.captured = row[p].captured
      BY <1>0, <2>1, <3>1 DEF Row
    <3>3. row' = [row EXCEPT ![p] = w]
      BY <1>0, <2>1, <2>3, <3>1
    <3>4. TableT' /\ StripeT'
      BY <1>0, <2>1, <2>3, <3>2, <3>3 DEF TableT, StripeT
    <3>5. pi'[p] # "succeeded" => received'[p] = 0
      BY <1>0, <2>1 DEF RowFact
    <3>6. Alive(p) /\ \A q \in Pay : q # p => Unmoved(q)
      BY <1>0, <2>1, <2>3, <3>2, <3>3, <3>5 DEF Alive, Unmoved
    <3> QED
      BY <2>1, <3>4, <3>6, IdleIs, MovesStep
  <2> QED
    BY <1>2, <2>0, <2>2, <2>3 DEF LinkCreated
<1> QED
  BY <1>1, <1>2

LEMMA CashSteps ==
    ASSUME MoneyInv, entry' = entry, NEW r \in Proc, NEW q \in Pay, CashCommit(r, q)
    PROVE  Kept
<1>0. /\ TableT /\ StripeT /\ row \in [Pay -> Row] /\ JobFact(job[r])
      /\ \A x \in Pay : RowFact(x)
  BY MoneyTypes DEF TableT
<1>1. PICK p : p = job[r].p
  OBVIOUS
<1>2. p \in Pay /\ row[p].status # "absent" /\ pi[p] = "canceled"
  BY <1>0, <1>1 DEF CashCommit, JobFact, OnPay
<1>3. row[q].status = "absent" /\ q # p
  BY <1>2 DEF CashCommit, Fresh
<1>4. PICK w \in Row : /\ w = [NoRow EXCEPT !.provider = "cash", !.status = "paid"]
                       /\ w.status = "paid" /\ w.provider = "cash" /\ w.captured = 0
                       /\ w.purpose = "sale"
  BY NewRows
<1>5. PICK v : v = [row[p] EXCEPT !.status = "released"]
  OBVIOUS
<1>6. v \in Row /\ v.status = "released" /\ v.purpose = row[p].purpose /\ v.provider = row[p].provider
      /\ v.captured = row[p].captured
  BY <1>0, <1>2, <1>5 DEF Row, PaymentStatus
<1>7. /\ row' = [row EXCEPT ![p].status = "released", ![q] = w]
      /\ UNCHANGED <<refunds, pi, cs, received, refunded, sent, processed>> /\ Become(r, Idle)
  BY <1>1, <1>4 DEF CashCommit, stripe, Done
<1>8. row' = [row EXCEPT ![p] = v, ![q] = w]
  BY <1>0, <1>2, <1>3, <1>5, <1>7
<1>9. row' \in [Pay -> Row] /\ row'[p] = v /\ row'[q] = w /\ \A x \in Pay : x # p /\ x # q => row'[x] = row[x]
  BY <1>0, <1>2, <1>3, <1>4, <1>6, <1>8
<1>10. TableT' /\ StripeT'
  BY <1>0, <1>7, <1>9 DEF TableT, StripeT
<1>11. Alive(p)
  <2>1. pi'[p] # "succeeded" => received'[p] = 0
    BY <1>0, <1>2, <1>7 DEF RowFact
  <2> QED
    BY <2>1, <1>2, <1>6, <1>7, <1>9 DEF Alive
<1>12. Opens(q)
  <2>1. pi[q] = "none"
    BY <1>0, <1>3 DEF RowFact
  <2> QED
    BY <2>1, <1>3, <1>4, <1>7, <1>9 DEF Opens
<1>13. \A x \in Pay : x # p /\ x # q => Unmoved(x)
  BY <1>7, <1>9 DEF Unmoved
<1> QED
  BY <1>7, <1>10, <1>11, <1>12, <1>13, IdleIs, MovesStep

(* The worker: the intents of the pending rows in done are cancelled. *)
LEMMA IntentsCanceled ==
    ASSUME MoneyInv, NEW done, CancelIntents(done)
    PROVE  /\ done \subseteq StalePayments /\ pi' \in [Pay -> IntentStatus]
           /\ \A q \in Pay : /\ q \in done => pi'[q] = "canceled" /\ pi[q] # "succeeded"
                             /\ q \notin done => pi'[q] = pi[q]
           /\ sent \subseteq sent'
           /\ \A e \in sent' : e \in Event /\ (e \in sent \/ (e.type = "canceled" /\ e.p \in done))
<1>0. pi \in [Pay -> IntentStatus] /\ sent \subseteq Event
  BY MoneyTypes DEF StripeT
<1>1. /\ done \subseteq Pay /\ done \subseteq StalePayments
      /\ \A q \in done : pi[q] \in {"open", "hold"}
  BY DEF CancelIntents, StalePayments
<1>2. /\ pi' = [q \in Pay |-> IF q \in done THEN "canceled" ELSE pi[q]]
      /\ sent' = sent \cup {Emit("canceled", q, 0) : q \in done}
  BY DEF CancelIntents
<1>3. \A q \in done : LET e == Emit("canceled", q, 0) IN e \in Event /\ e.type = "canceled" /\ e.p = q
  BY <1>1, TotalAssumption DEF Emit, Event, EventType
<1> QED
  BY <1>0, <1>1, <1>2, <1>3 DEF IntentStatus

LEMMA WorkerSteps ==
    ASSUME MoneyInv, entry' = entry, NEW done,
           cancel_stale_pending_orders(done) \/ ExpiryDies(done)
    PROVE  Kept
<1>0. /\ TableT /\ StripeT /\ row \in [Pay -> Row]
      /\ \A x \in Pay : RowFact(x)
  BY MoneyTypes DEF TableT
<1>1. /\ done \subseteq StalePayments /\ pi' \in [Pay -> IntentStatus]
      /\ \A q \in Pay : /\ q \in done => pi'[q] = "canceled" /\ pi[q] # "succeeded"
                        /\ q \notin done => pi'[q] = pi[q]
      /\ sent \subseteq sent'
      /\ \A e \in sent' : e \in Event /\ (e \in sent \/ (e.type = "canceled" /\ e.p \in done))
      /\ UNCHANGED <<cs, received, refunded, refunds, processed, job>>
  BY IntentsCanceled DEF cancel_stale_pending_orders, ExpiryDies, table, CancelIntents
<1>2. StalePayments \subseteq Pay /\ \A q \in Pay : q \in StalePayments <=> row[q].status = "pending"
  BY DEF StalePayments
<1>3. row' \in [Pay -> Row]
      /\ \A q \in Pay : \/ row'[q] = row[q]
                        \/ /\ row[q].status = "pending"
                           /\ row'[q].status = "expired" /\ row'[q].purpose = row[q].purpose
                           /\ row'[q].provider = row[q].provider /\ row'[q].captured = row[q].captured
  <2>1. CASE row' = row
    BY <1>0, <2>1
  <2>2. CASE row' = [p \in Pay |-> IF p \in StalePayments
                                   THEN [row[p] EXCEPT !.status = "expired"] ELSE row[p]]
    BY <1>0, <1>2, <2>2, ExpiredRow
  <2> QED
    BY <2>1, <2>2 DEF cancel_stale_pending_orders, ExpiryDies, table
<1>4. TableT' /\ StripeT'
  BY <1>0, <1>1, <1>3 DEF TableT, StripeT
<1>5. \A q \in Pay : Unmoved(q) \/ Alive(q)
  <2> TAKE q \in Pay
  <2>1. CASE row[q].status = "pending"
    <3>1. pi'[q] # "succeeded" => received'[q] = 0
      BY <1>0, <1>1 DEF RowFact
    <3>2. row'[q].status # "absent" /\ row'[q].purpose = row[q].purpose
          /\ row'[q].provider = row[q].provider /\ row'[q].captured = row[q].captured
          /\ row'[q].status \in {"pending", "expired"}
      BY <1>3, <2>1
    <3> QED
      BY <1>1, <2>1, <3>1, <3>2 DEF Alive
  <2>2. CASE row[q].status # "pending"
    <3>1. q \notin done /\ row'[q] = row[q]
      BY <1>1, <1>2, <1>3, <2>2
    <3> QED
      BY <1>1, <3>1 DEF Unmoved
  <2> QED
    BY <2>1, <2>2
<1>6. \A e \in sent' : e \in sent \/ EventFact(e.type, e.p)'
  <2> TAKE e \in sent'
  <2>1. CASE e.type = "canceled" /\ e.p \in done
    <3>1. e.p \in Pay /\ pi'[e.p] = "canceled" /\ row[e.p].status = "pending"
      BY <1>1, <1>2, <2>1
    <3>2. row'[e.p].status # "absent"
      BY <1>3, <3>1
    <3> QED
      BY <2>1, <3>1, <3>2 DEF EventFact
  <2> QED
    BY <1>1, <2>1
<1> QED
  BY <1>1, <1>4, <1>5, <1>6, MovesStep

-----------------------------------------------------------------------------
(* Refunds *)

(* The job that a refund leaves behind: the outcome to write.              *)
LEMMA RefundJob ==
    ASSUME MoneyInv, NEW owner \in Pay \cup {None}, owner # None => Sold(owner) /\ pi[owner] = "succeeded",
           NEW q \in Pay, row[q].status \in PAYMENT_STATUS_PAID, NEW n \in 0 .. Total,
           NEW doc \in {"refunded", "partially_refunded", "failed"}
    PROVE  LET j == [Saw("row", owner, row[q].status, doc) EXCEPT !.q = q, !.n = n]
           IN  j \in Job /\ JobFact(j)
<1>1. Taken(q)
  BY MoneyTypes DEF RowFact, Collected, PAYMENT_STATUS_PAID
<1>2. PICK s : s = row[q].status
  OBVIOUS
<1>3. OrderT /\ s \in Seen /\ "row" \in Control /\ doc \in Doc
  BY <1>2, MoneyTypes DEF Seen, Control, Doc, PaymentStatus
<1>4. PICK k : k = Saw("row", owner, s, doc)
  OBVIOUS
<1>5. k \in Job /\ k.pc = "row" /\ k.p = owner /\ k.doc = doc
  BY <1>3, <1>4, SawIs
<1>6. PICK j : j = [k EXCEPT !.q = q, !.n = n]
  OBVIOUS
<1>7. j \in Job /\ j.pc = "row" /\ j.q = q /\ j.n = n /\ j.doc = doc /\ j.p = owner
  BY <1>5, <1>6 DEF Job
<1>8. owner # None => owner \in Pay
  OBVIOUS
<1>9. JobFact(j)
  BY <1>1, <1>7, <1>8 DEF JobFact, OnPay, Refunding
<1> QED
  BY <1>2, <1>4, <1>6, <1>7, <1>9

LEMMA RefundCalls ==
    ASSUME MoneyInv, entry' = entry, NEW r \in Proc,
           NEW owner \in Pay \cup {None}, owner # None => Sold(owner) /\ pi[owner] = "succeeded",
           NEW q \in Pay, NEW n, RefundCall(r, owner, q, n)
    PROVE  Kept
<1>0. /\ TableT /\ StripeT /\ JobT /\ row[q].status \in PAYMENT_STATUS_PAID /\ n \in 1 .. Total /\ n \in 0 .. Total
      /\ \A p \in Pay : RowFact(p)
  BY MoneyTypes DEF RefundCall
<1>1. UNCHANGED <<order, table, processed>>
  BY DEF RefundCall
<1>2. PICK doc \in {"refunded", "partially_refunded", "failed"} :
        Become(r, [Saw("row", owner, row[q].status, doc) EXCEPT !.q = q, !.n = n])
  BY DEF RefundCall, RefundOutcome
<1>3. PICK j \in Job : Become(r, j) /\ JobFact(j)
  <2> DEFINE j == [Saw("row", owner, row[q].status, doc) EXCEPT !.q = q, !.n = n]
  <2>1. j \in Job /\ JobFact(j)
    BY <1>0, RefundJob
  <2> HIDE DEF j
  <2>2. Become(r, j)
    BY <1>2 DEF j
  <2> QED
    BY <2>1, <2>2
<1>4. CASE UNCHANGED stripe
  <2>1. processed' \subseteq sent
    BY <1>0, <1>1 DEF StripeT
  <2> QED
    BY <1>1, <1>3, <1>4, <2>1, QuietStep DEF table, stripe
<1>5. CASE /\ row[q].ref = "pi" /\ refunded[q] + n <= received[q]
           /\ refunded' = [refunded EXCEPT ![q] = @ + n]
           /\ sent' = sent \cup {Emit("refunded", q, refunded[q] + n)}
           /\ UNCHANGED <<pi, cs, received>>
  <2>1. Taken(q)
    BY <1>0 DEF RowFact, Collected, PAYMENT_STATUS_PAID
  <2>2. PICK m : m = refunded[q] + n
    OBVIOUS
  <2>3. received[q] \in 0 .. Total /\ refunded[q] \in 0 .. Total /\ received \in [Pay -> 0 .. Total]
    BY <1>0 DEF StripeT
  <2>4. m \in 0 .. Total /\ m <= received[q] /\ m > 0
    BY <1>0, <1>5, <2>2, <2>3, TotalAssumption
  <2>5. /\ refunded' = [refunded EXCEPT ![q] = m]
        /\ sent' = sent \cup {Emit("refunded", q, m)}
        /\ UNCHANGED <<row, refunds, pi, cs, received, processed>>
    BY <1>1, <1>5, <2>2 DEF table
  <2>6. Grows
    BY <2>5 DEF Grows
  <2>7. LET e == Emit("refunded", q, m) IN e \in Event /\ e.type = "refunded" /\ e.p = q
    BY <2>4 DEF Emit, Event, EventType
  <2>8. refunded'[q] = m /\ \A p \in Pay : p # q => refunded'[p] = refunded[p]
    BY <1>0, <2>5 DEF StripeT
  <2>9. \A p \in Pay : RowFact(p)'
    <3> TAKE p \in Pay
    <3>1. /\ RowFact(p) /\ UNCHANGED <<row[p], pi[p], cs[p], received[p]>> /\ (Taken(p) => Taken(p)')
          /\ (Failed(p) => Failed(p)')
      BY <1>0, <2>5, <2>6, TakenGrows, FailedGrows
    <3>2. CASE p # q
      BY <2>8, <3>1, <3>2 DEF RowFact
    <3>3. CASE p = q
      <4>1. received[q] # 0
        BY <2>3, <2>4
      <4>2. pi[q] = "succeeded" /\ refunded'[q] <= received'[q]
        BY <1>0, <2>4, <2>8, <3>1, <3>3, <4>1 DEF RowFact
      <4> QED
        BY <3>1, <3>3, <4>2 DEF RowFact
    <3> QED
      BY <3>2, <3>3
  <2>10. \A e \in sent' : e \in Event /\ (e \in sent \/ EventFact(e.type, e.p)')
    <3> TAKE e \in sent'
    <3>1. Taken(q)'
      BY <2>1, <2>6, TakenGrows
    <3>2. row'[q].status # "absent"
      BY <2>1, <2>5 DEF Taken
    <3>3. CASE e \in sent
      BY <1>0, <3>3 DEF StripeT
    <3>4. CASE e = Emit("refunded", q, m)
      BY <2>7, <3>1, <3>2, <3>4 DEF EventFact
    <3> QED
      BY <2>5, <3>3, <3>4
  <2>11. JobT' /\ job'[r] = j /\ \A s \in Proc : s # r => job'[s] = job[s]
    BY <1>0, <1>3, BecomeIs
  <2>12. JobFact(j)'
    BY <1>3, <2>6, JobGrows
  <2>13. \A s \in Proc : job'[s] = job[s] \/ JobFact(job[s])'
    BY <2>11, <2>12
  <2>14. Facts'
    BY <2>6, <2>9, <2>10, <2>13, FactsStep
  <2>15. TableT' /\ StripeT'
    BY <1>0, <2>4, <2>5, <2>10 DEF TableT, StripeT
  <2> QED
    BY <2>6, <2>11, <2>14, <2>15 DEF Money, Kept
<1> QED
  BY <1>4, <1>5 DEF RefundCall

LEMMA RefundCommits ==
    ASSUME MoneyInv, entry' = entry, NEW r \in Proc, RefundCommit(r)
    PROVE  Kept
<1>0. /\ TableT /\ StripeT /\ OrderT /\ JobFact(job[r]) /\ job[r] \in Job /\ refunds \in [Pay -> Nat]
      /\ processed \subseteq sent
  BY MoneyTypes DEF TableT, StripeT
<1>1. PICK q, owner, n : q = job[r].q /\ owner = job[r].p /\ n = job[r].n
  OBVIOUS
<1>2. /\ q \in Pay /\ Taken(q) /\ job[r].doc \in {"refunded", "partially_refunded", "failed"}
      /\ owner # None => owner \in Pay /\ Sold(owner) /\ pi[owner] = "succeeded"
      /\ row[q].status \in PaymentStatus /\ row[q].status # "absent" /\ n \in Nat
  <2>1. /\ q \in Pay /\ Taken(q) /\ job[r].doc \in {"refunded", "partially_refunded", "failed"}
        /\ owner # None => owner \in Pay /\ Sold(owner) /\ pi[owner] = "succeeded"
    BY <1>0, <1>1 DEF RefundCommit, JobFact
  <2>2. n \in Nat
    <3>1. job[r].n \in 0 .. Total
      BY <1>0 DEF Job
    <3> QED
      BY <1>1, <3>1, TotalAssumption
  <2> QED
    BY <2>1, <2>2, MoneyTypes DEF Taken
<1>3. Goes(r)
  <2>1. CASE Become(r, Idle)
    BY <2>1, IdleIs DEF Goes
  <2>2. ASSUME NEW d \in {"refunded", "refund_failed"}, Become(r, Saw("autoend", owner, "", d)), owner # None
        PROVE  Goes(r)
    <3>1. PICK j : j = Saw("autoend", owner, "", d)
      OBVIOUS
    <3>2. "autoend" \in Control /\ d \in Doc /\ owner \in Pay
      BY <1>2, <2>2 DEF Control, Doc, PaymentStatus
    <3>3. \A x \in Seen, y \in Doc : LET k == Saw("autoend", owner, x, y)
                                    IN  k \in Job /\ k.pc = "autoend" /\ k.p = owner /\ k.doc = y
      BY <1>0, <3>2, SawPay
    <3>4. "" \in Seen
      BY DEF Seen
    <3>5. j \in Job /\ j.pc = "autoend" /\ j.p = owner /\ j.doc = d
      BY <3>1, <3>2, <3>3, <3>4, Zenon
    <3>6. JobFact(j)
      BY <1>2, <2>2, <3>5 DEF JobFact, OnPay, Refunding, Sold
    <3> QED
      BY <2>2, <3>1, <3>5, <3>6 DEF Goes
  <2> QED
    BY <1>1, <2>1, <2>2 DEF RefundCommit
<1>4. UNCHANGED <<pi, cs, received, refunded, sent, processed>>
  BY DEF RefundCommit, stripe
<1>5. CASE UNCHANGED table
  BY <1>0, <1>3, <1>4, <1>5, QuietStep DEF table, Goes
<1>6. ASSUME job[r].doc # "failed", SetPayment(q, Written(job[r].seen, job[r].doc, row[q].status)),
             refunds' = [refunds EXCEPT ![q] = @ + n]
      PROVE  Kept
  <2>1. refunds' \in [Pay -> Nat]
    <3>1. refunds[q] + n \in Nat
      BY <1>0, <1>2
    <3> QED
      BY <1>0, <1>6, <3>1
  <2>2. Books
    BY <1>4, <2>1 DEF Books
  <2>3. PICK s : s = Written(job[r].seen, job[r].doc, row[q].status)
    OBVIOUS
  <2>4. SetPayment(q, s) /\ (s = row[q].status \/ s \in {"refunded", "partially_refunded"})
    BY <1>2, <1>6, <2>3 DEF Written
  <2>5. s \in PaymentStatus /\ s # "absent"
    BY <1>2, <2>4 DEF PaymentStatus
  <2>6. Write(q, s, row[q].captured)
    BY <1>0, <1>2, <2>4, <2>5, WriteForms
  <2>7. CASE s = row[q].status
    BY <1>2, <1>3, <2>2, <2>6, <2>7, WritePlain
  <2>8. CASE s \in {"refunded", "partially_refunded"}
    <3>1. /\ row[q].provider = "cash" \/ pi[q] = "succeeded"
          /\ row[q].purpose = "guarantee" => pi[q] = "succeeded" /\ row[q].captured = received[q]
          /\ s # "released"
      BY <1>2, <2>8 DEF Taken
    <3> QED
      BY <1>2, <1>3, <2>2, <2>5, <2>6, <3>1, WriteKept
  <2> QED
    BY <2>4, <2>7, <2>8
<1> QED
  BY <1>1, <1>5, <1>6 DEF RefundCommit, RefundSucceeded

-----------------------------------------------------------------------------
(* The invariant *)

LEMMA MoneyStep ==
    ASSUME MoneyInv, Next
    PROVE  Kept
<1>0. entry' = entry /\ Step
  BY DEF Next
<1>1. CASE Creation
  <2>1. CASE create_order
    BY <1>0, <2>1, QuietOrders
  <2>2. ASSUME NEW p \in Pay,
               \/ create_manual_order(p) \/ create_intent(p)
               \/ create_terminal_intent(p) \/ create_guarantee_intent(p)
        PROVE  Kept
    BY <1>0, <2>2, IntentSteps
  <2>3. ASSUME NEW p \in Pay, NEW r \in Proc, NEW purpose \in {"sale", "guarantee"},
               create_payment_link(r, p, purpose)
        PROVE  Kept
    BY <1>0, <2>3, LinkSteps
  <2> QED
    BY <1>1, <2>1, <2>2, <2>3 DEF Creation
<1>2. CASE Outside
  BY <1>0, <1>2, QuietOrders, CardSteps DEF Outside
<1>3. ASSUME NEW done, cancel_stale_pending_orders(done) \/ ExpiryDies(done) PROVE Kept
  BY <1>0, <1>3, WorkerSteps
<1>4. ASSUME NEW r \in Proc, Request(r) PROVE Kept
  <2>1. ASSUME NEW p \in Pay, settle_guarantee_cash(r, p) PROVE Kept
    BY <1>0, <2>1, HoldSteps
  <2>2. ASSUME NEW p \in Pay, NEW n \in 1 .. Total, create_refund(r, p, n) PROVE Kept
    <3>1. None \in Pay \cup {None} /\ RefundCall(r, None, p, n)
      BY <2>2 DEF create_refund
    <3> QED
      BY <1>0, <3>1, RefundCalls
  <2>3. ASSUME NEW p \in Pay, NEW n \in 1 .. Total, capture_guarantee(r, p, n) PROVE Kept
    BY <1>0, <2>3, HoldSteps
  <2>4. ASSUME \/ \E p \in Pay : confirm(r, p)
               \/ \E to : update_status(r, to)
               \/ Redeliver(r) \/ cancel_my_order(r)
        PROVE  Kept
    BY <1>0, <2>4, QuietRequests
  <2> QED
    BY <1>4, <2>1, <2>2, <2>3, <2>4 DEF Request
<1>5. ASSUME NEW r \in Proc, Deliver(r) PROVE Kept
  BY <1>0, <1>5, QuietRequests
<1>6. ASSUME NEW r \in Proc, Continue(r) PROVE Kept
  <2>1. ASSUME NEW q \in Pay, AutoRefundCall(r, q) PROVE Kept
    <3>1. PICK owner, n : owner = job[r].p /\ n = Remaining(q)
      OBVIOUS
    <3>2. owner \in Pay /\ Sold(owner) /\ pi[owner] = "succeeded"
      BY <2>1, <3>1, MoneyTypes DEF AutoRefundCall, JobFact, OnPay, Refunding
    <3>3. RefundCall(r, owner, q, n)
      BY <2>1, <3>1 DEF AutoRefundCall, RefundCall, Saw, At
    <3> QED
      BY <1>0, <3>2, <3>3, RefundCalls
  <2>2. ASSUME NEW q \in Pay, CashCommit(r, q) PROVE Kept
    BY <1>0, <2>2, CashSteps
  <2>3. CASE LinkCreated(r)
    BY <1>0, <2>3, LinkSteps
  <2>4. CASE handle_intent_event(r) \/ handle_payment_failure(r)
    BY <1>0, <2>4, QuietReads
  <2>5. CASE handle_checkout_completed(r) \/ handle_checkout_expired(r) \/ handle_charge_refunded(r)
    BY <1>0, <2>5, EventRows
  <2>6. CASE SaleRefused(r) \/ SaleAbandoned(r) \/ AutoRefundImpossible(r)
    BY <1>0, <2>6, QuietSales
  <2>7. CASE SaleCommit(r) \/ AutoRefundMark(r) \/ AutoRefundEnd(r)
    BY <1>0, <2>7, SaleRows
  <2>8. CASE \/ FailureCommit(r) \/ sync_external_capture(r) \/ GuaranteeCommit(r)
             \/ AutoReleaseEnd(r) \/ CaptureCommit(r) \/ ReleaseCommit(r)
    BY <1>0, <2>8, HoldRows
  <2>9. CASE GuaranteeSkipped(r) \/ GuaranteeRefused(r) \/ ReleaseAbsorbed(r)
    BY <1>0, <2>9, QuietHolds
  <2>10. CASE AutoReleaseCall(r)
    BY <1>0, <2>10, HoldSteps
  <2>11. CASE RefundCommit(r)
    BY <1>0, <2>11, RefundCommits
  <2>12. CASE RedeliverCommit(r) \/ CustomerCancel(r)
    BY <1>0, <2>12, QuietOrders
  <2> QED
    BY <1>6, <2>1, <2>2, <2>3, <2>4, <2>5, <2>6, <2>7, <2>8, <2>9, <2>10, <2>11, <2>12 DEF Continue
<1>7. ASSUME NEW r \in Proc, Die(r) PROVE Kept
  BY <1>0, <1>7, QuietOrders
<1>8. ASSUME NEW r \in Proc, NEW p \in Pay, release_guarantee(r, p) PROVE Kept
  BY <1>0, <1>8, HoldSteps
<1> QED
  BY <1>0, <1>1, <1>2, <1>3, <1>4, <1>5, <1>6, <1>7, <1>8 DEF Step, Worker

(***************************************************************************)
(* The inductive invariant about money: the types, and what every row,     *)
(* event and handler knows of Stripe, whichever functions of               *)
(* payments/service.py and payments/guarantee.py overlap.                  *)
(***************************************************************************)
THEOREM PaymentsMoney == Spec => []MoneyInv
<1>1. Init => MoneyInv
  <2> SUFFICES ASSUME Init PROVE MoneyInv
    OBVIOUS
  <2>1. NoRow \in Row /\ 0 \in 0 .. Total /\ NoRow.status = "absent" /\ NoRow.provider = "stripe"
        /\ NoRow.purpose = "sale"
    BY TotalAssumption DEF NoRow, Row, PaymentStatus
  <2>2. OrderT
    <3>1. status \in Lifecycle!OrderStatus
      BY DEF Init, Lifecycle!OrderStatus
    <3>2. payment_status \in OrderPaymentStatus /\ order_type \in {"delivery", "pickup"}
      BY DEF Init, OrderPaymentStatus
    <3>3. crashes \in 0 .. MaxCrash /\ held \in Int
      BY CrashAssumption DEF Init
    <3>4. entry \in Profiles /\ stale \in BOOLEAN
      BY DEF Init
    <3> QED
      BY <3>1, <3>2, <3>3, <3>4 DEF OrderT
  <2>3. TableT /\ StripeT /\ JobT
    BY <2>1, IdleIs DEF Init, TableT, StripeT, JobT, IntentStatus, Event
  <2>4. \A p \in Pay : RowFact(p)
    BY <2>1, TotalAssumption DEF Init, RowFact, Collected
  <2>5. Facts
    BY <2>4, IdleIs DEF Init, Facts
  <2> QED
    BY <2>2, <2>3, <2>5, MoneyIs DEF Money
<1>2. MoneyInv /\ [Next]_vars => MoneyInv'
  <2> SUFFICES ASSUME MoneyInv, [Next]_vars PROVE MoneyInv'
    OBVIOUS
  <2>1. CASE Next
    <3>1. OrderT'
      BY <2>1, MoneyIs, OrderStep
    <3>2. Money'
      BY <2>1, MoneyStep DEF Kept
    <3> QED
      BY <3>1, <3>2 DEF MoneyInv, TypeOK, OrderT, Money, TableT, StripeT, JobT
  <2>2. CASE UNCHANGED vars
    <3>1. OrderT' /\ TableT' /\ StripeT' /\ JobT'
      BY <2>2, MoneyTypes DEF vars, order, table, stripe, OrderT, TableT, StripeT, JobT
    <3>2. Grows
      BY <2>2 DEF Grows, vars, order, table, stripe
    <3>3. \A p \in Pay : RowFact(p)'
      BY <2>2, MoneyTypes DEF vars, order, table, stripe, RowFact, Taken, Failed
    <3>4. Facts'
      BY <2>2, <3>2, <3>3, FactsStep DEF vars, order, table, stripe
    <3> QED
      BY <3>1, <3>4 DEF MoneyInv, TypeOK, OrderT, TableT, StripeT, JobT
  <2> QED
    BY <2>1, <2>2
<1> QED
  BY <1>1, <1>2, PTL DEF Spec

(***************************************************************************)
(* Every column, Stripe field and job of a handler keeps its shape         *)
(* (models.Payment, models.Order, processed_webhook_events).               *)
(***************************************************************************)
THEOREM PaymentsTypeOK == Spec => []TypeOK
<1>1. MoneyInv => TypeOK
  BY DEF MoneyInv
<1> QED
  BY <1>1, PaymentsMoney, PTL

(***************************************************************************)
(* finalize_payment, finalize_guarantee, capture_guarantee, create_refund  *)
(* and handle_charge_refunded: a card row is in the books as collected     *)
(* only when Stripe collected it.                                          *)
(***************************************************************************)
THEOREM PaymentsCollectedBeforePaid == Spec => []CollectedBeforePaid
<1>1. MoneyInv => CollectedBeforePaid
  BY DEF MoneyInv, Facts, RowFact, Taken, CollectedBeforePaid, CardRow
<1> QED
  BY <1>1, PaymentsMoney, PTL

(***************************************************************************)
(* capture_guarantee, _sync_external_capture: what the books say was taken *)
(* on a hold is what Stripe took.                                          *)
(***************************************************************************)
THEOREM PaymentsCapturedAsStripeSays == Spec => []CapturedAsStripeSays
<1>1. MoneyInv => CapturedAsStripeSays
  BY DEF MoneyInv, Facts, RowFact, Taken, CapturedAsStripeSays
<1> QED
  BY <1>1, PaymentsMoney, PTL

(***************************************************************************)
(* release_guarantee, settle_guarantee_cash, handle_guarantee_canceled: a  *)
(* hold is released in the books only once Stripe cancelled it, or after a *)
(* refused attempt of the same intent was treated: handle_payment_failure  *)
(* takes a payment_failed for a cancellation.                              *)
(***************************************************************************)
THEOREM PaymentsReleasedIsCanceled == Spec => []ReleasedIsCanceled
<1>1. MoneyInv => ReleasedIsCanceled
  BY DEF MoneyInv, Facts, RowFact, ReleasedIsCanceled
<1> QED
  BY <1>1, PaymentsMoney, PTL

-----------------------------------------------------------------------------
(* Two create_refund calls may both have had their refund from Stripe and  *)
(* not yet written it: the cents they will write are counted against what  *)
(* Stripe refunded, one unit for each cent of each such handler.           *)
Units(q) == {u \in Proc \X (1 .. Total) :
               LET j == job[u[1]]
               IN  j.pc = "row" /\ j.q = q /\ j.doc # "failed" /\ u[2] <= j.n}

Backed(q) == CardRow(q) => refunds[q] + Cardinality(Units(q)) <= refunded[q]

Owed == \A q \in Pay : Backed(q)

LEMMA UnitsFinite == IsFiniteSet(Proc \X (1 .. Total))
<1>1. IsFiniteSet(1 .. Total)
  BY FS_Interval, TotalAssumption
<1> QED
  BY <1>1, ProcAssumption, FS_Product

LEMMA UnitsIn ==
    ASSUME NEW A, NEW B, A \subseteq Proc \X (1 .. Total), B \subseteq Proc \X (1 .. Total)
    PROVE  /\ IsFiniteSet(A) /\ IsFiniteSet(B) /\ Cardinality(A) \in Nat /\ Cardinality(B) \in Nat
           /\ B \subseteq A => Cardinality(B) <= Cardinality(A)
<1>1. IsFiniteSet(A) /\ IsFiniteSet(B)
  BY UnitsFinite, FS_Subset
<1>2. Cardinality(A) \in Nat /\ Cardinality(B) \in Nat
  BY <1>1, FS_CardinalityType
<1>3. B \subseteq A => Cardinality(B) <= Cardinality(A)
  BY <1>1, FS_Subset
<1> QED
  BY <1>1, <1>2, <1>3

(* The units of one handler. *)
LEMMA UnitsOf ==
    ASSUME NEW r \in Proc, NEW n \in 1 .. Total
    PROVE  /\ {r} \X (1 .. n) \subseteq Proc \X (1 .. Total)
           /\ IsFiniteSet({r} \X (1 .. n)) /\ Cardinality({r} \X (1 .. n)) = n
<1>1. n \in Int /\ n >= 1 /\ n <= Total /\ Total \in Int
  BY TotalAssumption
<1>2. 1 .. n \subseteq 1 .. Total
  BY <1>1
<1>3. IsFiniteSet(1 .. n) /\ Cardinality(1 .. n) = n
  BY <1>1, FS_Interval
<1>4. IsFiniteSet({r}) /\ Cardinality({r}) = 1
  BY FS_Singleton
<1>5. IsFiniteSet({r} \X (1 .. n)) /\ Cardinality({r} \X (1 .. n)) = 1 * n
  BY <1>3, <1>4, FS_Product
<1>6. 1 * n = n
  BY <1>1
<1> QED
  BY <1>2, <1>5, <1>6

LEMMA UnitsAdded ==
    ASSUME NEW r \in Proc, NEW n \in 1 .. Total, NEW A, NEW B,
           A \subseteq Proc \X (1 .. Total), B \subseteq Proc \X (1 .. Total),
           B \subseteq A \cup ({r} \X (1 .. n))
    PROVE  Cardinality(B) <= Cardinality(A) + n
<1>1. PICK C : C = {r} \X (1 .. n)
  OBVIOUS
<1>2. C \subseteq Proc \X (1 .. Total) /\ IsFiniteSet(C) /\ Cardinality(C) = n
  BY <1>1, UnitsOf
<1>3. IsFiniteSet(A) /\ Cardinality(A) \in Nat
  BY UnitsIn
<1>4. IsFiniteSet(A \cup C) /\ Cardinality(A \cup C) = Cardinality(A) + n - Cardinality(A \cap C)
  BY <1>2, <1>3, FS_Union
<1>5. Cardinality(A \cap C) \in Nat
  BY <1>3, FS_Subset, FS_CardinalityType
<1>6. Cardinality(B) <= Cardinality(A \cup C) /\ Cardinality(B) \in Nat
  <2>1. B \subseteq A \cup C /\ A \cup C \subseteq Proc \X (1 .. Total)
    BY <1>1, <1>2
  <2> QED
    BY <2>1, UnitsIn
<1>7. n \in Int
  BY TotalAssumption
<1> QED
  BY <1>3, <1>4, <1>5, <1>6, <1>7

LEMMA UnitsTaken ==
    ASSUME NEW r \in Proc, NEW n \in 1 .. Total, NEW A, NEW B,
           A \subseteq Proc \X (1 .. Total), {r} \X (1 .. n) \subseteq A,
           B \subseteq A \ ({r} \X (1 .. n))
    PROVE  Cardinality(B) + n <= Cardinality(A)
<1>1. PICK C : C = {r} \X (1 .. n)
  OBVIOUS
<1>2. IsFiniteSet(C) /\ Cardinality(C) = n /\ A \cap C = C
  BY <1>1, UnitsOf
<1>3. IsFiniteSet(A) /\ Cardinality(A) \in Nat
  BY UnitsIn
<1>4. Cardinality(A \ C) = Cardinality(A) - n
  BY <1>2, <1>3, FS_Difference
<1>5. Cardinality(B) <= Cardinality(A \ C) /\ Cardinality(B) \in Nat /\ Cardinality(A \ C) \in Nat
  <2>1. B \subseteq A \ C /\ A \ C \subseteq Proc \X (1 .. Total)
    BY <1>1
  <2> QED
    BY <2>1, UnitsIn
<1>6. n \in Int
  BY TotalAssumption
<1> QED
  BY <1>3, <1>4, <1>5, <1>6

(* A step that neither asks Stripe for a refund nor writes one.            *)
Calm ==
    /\ UNCHANGED <<refunds, refunded>>
    /\ \/ UNCHANGED job
       \/ \E r \in Proc : \E j : Become(r, j) /\ j.pc # "row"

LEMMA PcIs ==
    ASSUME NEW pc, NEW p, NEW s, NEW d, NEW n
    PROVE  /\ At(pc, p).pc = pc /\ Saw(pc, p, s, d).pc = pc /\ Idle.pc = "idle"
           /\ [At(pc, p) EXCEPT !.doc = d, !.n = n].pc = pc
           /\ [At(pc, p) EXCEPT !.n = n].pc = pc
BY DEF At, Saw, Idle

LEMMA CalmSteps ==
    ASSUME MoneyInv, Step
    PROVE  \/ Calm
           \/ \E r \in Proc, q \in Pay : \E owner, n : RefundCall(r, owner, q, n)
           \/ \E r \in Proc : RefundCommit(r)
<1>a. ASSUME UNCHANGED <<refunds, refunded, job>> PROVE Calm
  BY <1>a DEF Calm
<1>b. ASSUME NEW r \in Proc, NEW j, j.pc # "row", Become(r, j), UNCHANGED <<refunds, refunded>> PROVE Calm
  BY <1>b DEF Calm
<1>c. ASSUME NEW r \in Proc, Become(r, Idle), UNCHANGED <<refunds, refunded>> PROVE Calm
  <2>1. PICK j : j = Idle
    OBVIOUS
  <2> QED
    BY <1>b, <1>c, <2>1, PcIs
<1>d. ASSUME NEW r \in Proc, NEW pc, pc # "row", NEW p, UNCHANGED <<refunds, refunded>>,
             \/ Become(r, At(pc, p))
             \/ \E s, d : Become(r, Saw(pc, p, s, d))
             \/ \E d, n : Become(r, [At(pc, p) EXCEPT !.doc = d, !.n = n])
             \/ \E n : Become(r, [At(pc, p) EXCEPT !.n = n])
      PROVE  Calm
  <2>1. CASE Become(r, At(pc, p))
    <3>1. PICK j : j = At(pc, p)
      OBVIOUS
    <3> QED
      BY <1>b, <1>d, <2>1, <3>1, PcIs
  <2>2. ASSUME NEW s, NEW d, Become(r, Saw(pc, p, s, d)) PROVE Calm
    <3>1. PICK j : j = Saw(pc, p, s, d)
      OBVIOUS
    <3>2. j.pc = pc
      BY <3>1 DEF Saw, At, Idle
    <3>3. Become(r, j)
      BY <2>2, <3>1 DEF Become
    <3> QED
      BY <1>b, <1>d, <3>2, <3>3
  <2>3. ASSUME NEW d, NEW n, Become(r, [At(pc, p) EXCEPT !.doc = d, !.n = n]) PROVE Calm
    <3>1. PICK j : j = [At(pc, p) EXCEPT !.doc = d, !.n = n]
      OBVIOUS
    <3>2. j.pc = pc
      BY <3>1 DEF At, Idle
    <3>3. Become(r, j)
      BY <2>3, <3>1 DEF Become
    <3> QED
      BY <1>b, <1>d, <3>2, <3>3
  <2>4. ASSUME NEW n, Become(r, [At(pc, p) EXCEPT !.n = n]) PROVE Calm
    <3>1. PICK j : j = [At(pc, p) EXCEPT !.n = n]
      OBVIOUS
    <3>2. j.pc = pc
      BY <3>1 DEF At, Idle
    <3>3. Become(r, j)
      BY <2>4, <3>1 DEF Become
    <3> QED
      BY <1>b, <1>d, <3>2, <3>3
  <2> QED
    BY <1>d, <2>1, <2>2, <2>3, <2>4
<1>s. ASSUME NEW r \in Proc, NEW p, NEW doc, UNCHANGED <<refunds, refunded>>,
             ReadSale(r, p) \/ ReadGuarantee(r, p, doc)
      PROVE  Calm
  <2>1. Become(r, Idle) \/ (\E s, d : Become(r, Saw("sale", p, s, d))) \/ (\E s, d : Become(r, Saw("guar", p, s, d)))
    BY <1>s DEF ReadSale, ReadGuarantee, Done
  <2> QED
    BY <1>c, <1>d, <1>s, <2>1
<1>1. ASSUME Creation PROVE Calm
  <2>1. CASE create_order
    BY <1>a, <2>1 DEF create_order, table, stripe
  <2>2. ASSUME NEW p \in Pay, \/ create_intent(p) \/ create_terminal_intent(p) \/ create_guarantee_intent(p)
                              \/ create_manual_order(p)
        PROVE  Calm
    BY <1>a, <2>2 DEF create_intent, create_terminal_intent, create_guarantee_intent, NewIntent,
                      create_manual_order, stripe
  <2>3. ASSUME NEW p \in Pay, NEW r \in Proc, NEW purpose, create_payment_link(r, p, purpose) PROVE Calm
    BY <1>d, <2>3 DEF create_payment_link
  <2> QED
    BY <1>1, <2>1, <2>2, <2>3 DEF Creation
<1>2. ASSUME Outside PROVE Calm
  BY <1>2, <1>a DEF Outside, Elapse, PayCard, DeclineCard, HoldExpires, SessionExpires, DashboardCapture,
                    StripeOnly, table, stripe
<1>3. ASSUME NEW done, cancel_stale_pending_orders(done) \/ ExpiryDies(done) PROVE Calm
  BY <1>3, <1>a DEF cancel_stale_pending_orders, ExpiryDies, CancelIntents, table
<1>4. ASSUME NEW r \in Proc, Commit(r, "cancelled") \/ \E to : Commit(r, to) PROVE Calm
  <2>1. Become(r, Idle) \/ Become(r, At("trailing", None))
    BY <1>4 DEF Commit
  <2> QED
    BY <1>4, <1>c, <1>d, <2>1 DEF Commit, table, stripe
<1>5. ASSUME NEW r \in Proc, Request(r)
      PROVE  Calm \/ \E q \in Pay : \E owner, n : RefundCall(r, owner, q, n)
  <2>1. ASSUME NEW p \in Pay, confirm(r, p) PROVE Calm
    BY <2>1, <1>s DEF confirm, table, stripe
  <2>2. ASSUME NEW p \in Pay, settle_guarantee_cash(r, p) PROVE Calm
    BY <2>2, <1>d DEF settle_guarantee_cash, table, CancelIntent
  <2>3. ASSUME NEW p \in Pay, NEW n, capture_guarantee(r, p, n) PROVE Calm
    BY <2>3, <1>d DEF capture_guarantee, table
  <2>4. ASSUME NEW to, update_status(r, to) PROVE Calm
    BY <2>4, <1>4 DEF update_status
  <2>5. ASSUME Redeliver(r) \/ cancel_my_order(r) PROVE Calm
    BY <2>5, <1>d DEF Redeliver, cancel_my_order, table, stripe
  <2>6. ASSUME NEW p \in Pay, NEW n, create_refund(r, p, n) PROVE \E owner, m : RefundCall(r, owner, p, m)
    BY <2>6 DEF create_refund
  <2> QED
    BY <1>5, <2>1, <2>2, <2>3, <2>4, <2>5, <2>6 DEF Request
<1>6. ASSUME NEW r \in Proc, Deliver(r) PROVE Calm
  BY <1>6, <1>d DEF Deliver, handle_webhook, table, stripe
<1>7. ASSUME NEW r \in Proc, Continue(r)
      PROVE  Calm \/ RefundCommit(r) \/ \E q \in Pay : \E owner, n : RefundCall(r, owner, q, n)
  <2>1. ASSUME NEW q \in Pay, AutoRefundCall(r, q) PROVE \E owner, n : RefundCall(r, owner, q, n)
    BY <2>1 DEF AutoRefundCall
  <2>2. ASSUME NEW q \in Pay, CashCommit(r, q) PROVE Calm
    BY <2>2, <1>c DEF CashCommit, stripe, Done
  <2>3. CASE handle_intent_event(r)
    <3>1. PICK p : p = job[r].p
      OBVIOUS
    <3>2. UNCHANGED <<refunds, refunded>> /\ (ReadSale(r, p) \/ \E d : ReadGuarantee(r, p, d))
      BY <2>3, <3>1 DEF handle_intent_event, table, stripe
    <3> QED
      BY <1>s, <3>2
  <2>4. CASE handle_checkout_completed(r)
    <3>1. PICK p : p = job[r].p
      OBVIOUS
    <3>2. UNCHANGED <<refunds, refunded>> /\ (Done(r) \/ \E d : ReadGuarantee(r, p, d))
      BY <2>4, <3>1 DEF handle_checkout_completed, stripe
    <3> QED
      BY <1>s, <1>c, <3>2 DEF Done
  <2>5. CASE \/ handle_checkout_expired(r) \/ handle_charge_refunded(r) \/ FailureCommit(r) \/ SaleCommit(r)
             \/ SaleAbandoned(r) \/ AutoRefundEnd(r) \/ GuaranteeSkipped(r) \/ sync_external_capture(r)
             \/ GuaranteeCommit(r) \/ AutoReleaseEnd(r) \/ CaptureCommit(r) \/ ReleaseCommit(r)
             \/ ReleaseAbsorbed(r) \/ RedeliverCommit(r) \/ LinkCreated(r)
    <3>1. UNCHANGED <<refunds, refunded>> /\ Done(r)
      BY <2>5 DEF handle_checkout_expired, handle_charge_refunded, FailureCommit, SaleCommit,
                  SaleAbandoned, AutoRefundEnd, GuaranteeSkipped, sync_external_capture,
                  GuaranteeCommit, AutoReleaseEnd, CaptureCommit, ReleaseCommit,
                  ReleaseAbsorbed, RedeliverCommit, LinkCreated, table, stripe
    <3> QED
      BY <3>1, <1>c DEF Done
  <2>6. CASE handle_payment_failure(r)
    <3>1. PICK p : p = job[r].p
      OBVIOUS
    <3>2. Done(r) \/ \E s, d : Become(r, Saw("fail", p, s, d))
      BY <2>6, <3>1 DEF handle_payment_failure
    <3>3. UNCHANGED <<refunds, refunded>>
      BY <2>6 DEF handle_payment_failure, table, stripe
    <3> QED
      BY <3>2, <3>3, <1>c, <1>d DEF Done
  <2>7. CASE SaleRefused(r) \/ AutoRefundMark(r) \/ AutoRefundImpossible(r) \/ GuaranteeRefused(r)
    <3>1. UNCHANGED <<refunds, refunded>>
      BY <2>7 DEF SaleRefused, AutoRefundMark, AutoRefundImpossible, GuaranteeRefused, table, stripe
    <3>2. PICK p : p = job[r].p
      OBVIOUS
    <3>3. \/ Become(r, At("auto", p)) \/ Become(r, At("refund", p))
          \/ \E s, d : Become(r, Saw("autoend", p, s, d))
          \/ \E s, d : Become(r, Saw("autorel", p, s, d))
      BY <2>7, <3>2 DEF SaleRefused, AutoRefundMark, AutoRefundImpossible, GuaranteeRefused
    <3> QED
      BY <3>1, <3>3, <1>d
  <2>8. CASE AutoReleaseCall(r)
    <3>1. UNCHANGED <<refunds, refunded>>
      BY <2>8 DEF AutoReleaseCall, table, stripe, CancelIntent
    <3>2. PICK d \in {"released", "authorized"} : Become(r, [job[r] EXCEPT !.pc = "relend", !.doc = d])
      BY <2>8 DEF AutoReleaseCall
    <3>3. PICK j : j = [job[r] EXCEPT !.pc = "relend", !.doc = d]
      OBVIOUS
    <3>4. job[r] \in Job
      BY MoneyTypes
    <3>5. j.pc = "relend"
      BY <3>3, <3>4 DEF Job
    <3> QED
      BY <3>1, <3>2, <3>3, <3>5, <1>b
  <2>9. CASE CustomerCancel(r)
    <3>1. Commit(r, "cancelled") \/ (Done(r) /\ UNCHANGED <<refunds, refunded>>)
      BY <2>9 DEF CustomerCancel, table, stripe
    <3> QED
      BY <3>1, <1>4, <1>c DEF Done
  <2> QED
    BY <1>7, <2>1, <2>2, <2>3, <2>4, <2>5, <2>6, <2>7, <2>8, <2>9 DEF Continue
<1>8. ASSUME NEW r \in Proc, Die(r) PROVE Calm
  BY <1>8, <1>c DEF Die, table, stripe, Done
<1>9. ASSUME NEW r \in Proc, NEW p \in Pay, release_guarantee(r, p) PROVE Calm
  BY <1>9, <1>d DEF release_guarantee, table, CancelIntent
<1> QED
  BY <1>1, <1>2, <1>3, <1>5, <1>6, <1>7, <1>8, <1>9 DEF Step, Worker

LEMMA OwedStep ==
    ASSUME MoneyInv, Owed, Next
    PROVE  Owed'
<1> SUFFICES ASSUME NEW p \in Pay PROVE Backed(p)'
  BY DEF Owed
<1>0. Grows /\ MoneyInv' /\ Step
  <2>1. OrderT' /\ Kept
    BY MoneyIs, OrderStep, MoneyStep
  <2> QED
    BY <2>1 DEF Kept, MoneyInv, TypeOK, OrderT, Money, TableT, StripeT, JobT, Next
<1>1. CardRow(p)' => CardRow(p)
  <2>1. CASE row[p].status = "absent"
    <3>1. row[p] = NoRow
      BY <2>1, MoneyTypes DEF RowFact
    <3> QED
      BY <3>1 DEF CardRow, NoRow
  <2>2. CASE row[p].status # "absent"
    BY <1>0, <2>2 DEF CardRow, Grows
  <2> QED
    BY <2>1, <2>2
<1>2. PICK A : A = Units(p)
  OBVIOUS
<1>3. PICK B : B = Units(p)'
  OBVIOUS
<1>4. A \subseteq Proc \X (1 .. Total) /\ B \subseteq Proc \X (1 .. Total)
  BY <1>2, <1>3 DEF Units
<1>5. Cardinality(A) \in Nat /\ Cardinality(B) \in Nat /\ (B \subseteq A => Cardinality(B) <= Cardinality(A))
  BY <1>4, UnitsIn
<1>6. /\ refunds \in [Pay -> Nat] /\ refunded \in [Pay -> 0 .. Total] /\ job \in [Proc -> Job]
      /\ refunds[p] \in Nat /\ refunded[p] \in Nat /\ refunds'[p] \in Nat /\ refunded'[p] \in Nat
  <2>1. \A x \in 0 .. Total : x \in Nat
    BY TotalAssumption
  <2> QED
    BY <1>0, <2>1 DEF MoneyInv, TypeOK
<1>7. CardRow(p) => refunds[p] + Cardinality(A) <= refunded[p]
  BY <1>2 DEF Owed, Backed
<1>8. ASSUME refunds'[p] = refunds[p], refunded'[p] = refunded[p], B \subseteq A PROVE Backed(p)'
  <2>1. CardRow(p)' => refunds'[p] + Cardinality(B) <= refunded'[p]
    BY <1>1, <1>5, <1>6, <1>7, <1>8
  <2> QED
    BY <1>3, <2>1 DEF Backed
<1>9. ASSUME NEW r \in Proc, NEW j, Become(r, j), j.pc # "row" \/ j.doc = "failed" \/ j.q # p
      PROVE  B \subseteq A
  <2>1. job'[r] = j /\ \A s \in Proc : s # r => job'[s] = job[s]
    BY <1>6, <1>9 DEF Become
  <2> QED
    BY <1>2, <1>3, <1>9, <2>1 DEF Units
<1>10. CASE Calm
  <2>1. B \subseteq A
    <3>1. CASE UNCHANGED job
      BY <1>2, <1>3, <3>1 DEF Units
    <3> QED
      BY <1>9, <1>10, <3>1 DEF Calm
  <2> QED
    BY <1>8, <1>10, <2>1 DEF Calm
<1>11. ASSUME NEW r \in Proc, NEW q \in Pay, NEW owner, NEW n, RefundCall(r, owner, q, n)
       PROVE  Backed(p)'
  <2>1. n \in 1 .. Total /\ UNCHANGED refunds
    BY <1>11 DEF RefundCall, table
  <2>2. PICK doc : /\ Become(r, [Saw("row", owner, row[q].status, doc) EXCEPT !.q = q, !.n = n])
                   /\ \/ doc = "failed" /\ UNCHANGED refunded
                      \/ row[q].provider = "cash" /\ UNCHANGED refunded
                      \/ refunded' = [refunded EXCEPT ![q] = @ + n]
    BY <1>11 DEF RefundCall, stripe
  <2>3. PICK j : j = [Saw("row", owner, row[q].status, doc) EXCEPT !.q = q, !.n = n]
    OBVIOUS
  <2>4. j.q = q /\ j.n = n /\ j.doc = doc
    BY <2>3 DEF Saw, At, Idle
  <2>5. Become(r, j)
    BY <2>2, <2>3 DEF Become
  <2>6. job'[r] = j /\ \A s \in Proc : s # r => job'[s] = job[s]
    BY <1>6, <2>5 DEF Become
  <2>7. CASE p # q
    <3>1. B \subseteq A
      BY <1>9, <2>4, <2>5, <2>7
    <3>2. refunded'[p] = refunded[p] /\ refunds'[p] = refunds[p]
      BY <1>6, <2>1, <2>2, <2>7
    <3> QED
      BY <1>8, <3>1, <3>2
  <2>8. CASE p = q /\ doc = "failed" /\ UNCHANGED refunded
    <3>1. B \subseteq A
      BY <1>9, <2>4, <2>5, <2>8
    <3> QED
      BY <1>8, <2>1, <2>8, <3>1
  <2>9. CASE p = q /\ row[q].provider = "cash"
    <3>1. ~CardRow(p)'
      BY <1>1, <2>9 DEF CardRow
    <3> QED
      BY <3>1 DEF Backed
  <2>10. CASE p = q /\ refunded' = [refunded EXCEPT ![q] = @ + n]
    <3>1. refunded'[p] = refunded[p] + n /\ refunds'[p] = refunds[p]
      BY <1>6, <2>1, <2>10
    <3>2. B \subseteq A \cup ({r} \X (1 .. n))
      <4> SUFFICES ASSUME NEW u \in B, u \notin A PROVE u \in {r} \X (1 .. n)
        OBVIOUS
      <4>1. u \in Proc \X (1 .. Total) /\ u[1] \in Proc /\ u[2] \in 1 .. Total /\ u = <<u[1], u[2]>>
        BY <1>4
      <4>2. u[1] = r
        BY <1>2, <1>3, <2>6, <4>1 DEF Units
      <4>3. u[2] <= n
        BY <1>3, <2>4, <2>6, <4>2 DEF Units
      <4>4. u[2] \in 1 .. n
        BY <2>1, <4>1, <4>3, TotalAssumption
      <4> QED
        BY <4>1, <4>2, <4>4
    <3>3. Cardinality(B) <= Cardinality(A) + n /\ n \in Nat
      BY <1>4, <2>1, <3>2, UnitsAdded, TotalAssumption
    <3>4. CardRow(p)' => refunds'[p] + Cardinality(B) <= refunded'[p]
      BY <1>1, <1>5, <1>6, <1>7, <3>1, <3>3
    <3> QED
      BY <1>3, <3>4 DEF Backed
  <2> QED
    BY <2>2, <2>7, <2>8, <2>9, <2>10
<1>12. ASSUME NEW r \in Proc, RefundCommit(r) PROVE Backed(p)'
  <2>1. PICK q, n : q = job[r].q /\ n = job[r].n
    OBVIOUS
  <2>2. /\ job[r].pc = "row" /\ UNCHANGED refunded
        /\ \/ UNCHANGED refunds
           \/ job[r].doc # "failed" /\ refunds' = [refunds EXCEPT ![q] = @ + n]
    BY <1>12, <2>1 DEF RefundCommit, RefundSucceeded, table, stripe
  <2>3. PICK owner, d : Become(r, IF owner = None THEN Idle ELSE Saw("autoend", owner, "", d))
    BY <1>12 DEF RefundCommit
  <2>4. PICK j : j = IF owner = None THEN Idle ELSE Saw("autoend", owner, "", d)
    OBVIOUS
  <2>5. Become(r, j) /\ j.pc # "row"
    <3>1. Idle.pc = "idle" /\ Saw("autoend", owner, "", d).pc = "autoend"
      BY DEF Saw, At, Idle
    <3>2. j.pc # "row"
      BY <2>4, <3>1
    <3>3. Become(r, j)
      BY <2>3, <2>4 DEF Become
    <3> QED
      BY <3>2, <3>3
  <2>6. B \subseteq A
    BY <1>9, <2>5
  <2>7. CASE refunds'[p] = refunds[p]
    BY <1>8, <2>2, <2>6, <2>7
  <2>8. CASE job[r].doc # "failed" /\ refunds' = [refunds EXCEPT ![q] = @ + n] /\ refunds'[p] # refunds[p]
    <3>1. p = q /\ refunds'[p] = refunds[p] + n
      BY <1>6, <2>8
    <3>2. n \in 1 .. Total
      <4>1. n \in 0 .. Total
        <5>1. job[r] \in Job
          BY <1>6
        <5> QED
          BY <2>1, <5>1 DEF Job
      <4>2. n # 0
        BY <1>6, <2>8, <3>1
      <4> QED
        BY <4>1, <4>2, TotalAssumption
    <3>3. {r} \X (1 .. n) \subseteq A
      <4> SUFFICES ASSUME NEW u \in {r} \X (1 .. n) PROVE u \in A
        OBVIOUS
      <4>1. u \in Proc \X (1 .. Total) /\ u[1] = r /\ u[2] \in 1 .. n
        BY <3>2, UnitsOf
      <4>2. u[2] <= n
        BY <3>2, <4>1, TotalAssumption
      <4> QED
        BY <1>2, <2>1, <2>2, <2>8, <3>1, <4>1, <4>2 DEF Units
    <3>4. B \subseteq A \ ({r} \X (1 .. n))
      <4>1. \A u \in B : u[1] # r
        <5>1. job'[r].pc # "row"
          BY <1>6, <2>5 DEF Become
        <5> QED
          BY <1>3, <5>1 DEF Units
      <4> QED
        BY <2>6, <4>1
    <3>5. Cardinality(B) + n <= Cardinality(A) /\ n \in Nat
      BY <1>4, <3>2, <3>3, <3>4, UnitsTaken, TotalAssumption
    <3>6. refunded'[p] = refunded[p]
      BY <2>2
    <3>7. CardRow(p)' => refunds'[p] + Cardinality(B) <= refunded'[p]
      BY <1>1, <1>5, <1>6, <1>7, <3>1, <3>5, <3>6
    <3> QED
      BY <1>3, <3>7 DEF Backed
  <2> QED
    BY <2>2, <2>7, <2>8
<1> QED
  BY <1>0, <1>10, <1>11, <1>12, CalmSteps

(***************************************************************************)
(* create_refund, finalize_payment's automatic refund: the books never     *)
(* show more refunded on a card than Stripe refunded, nor Stripe more than *)
(* it collected, whichever handlers overlap between the Stripe call and    *)
(* the commit of the refunds row.                                          *)
(***************************************************************************)
THEOREM PaymentsRefundsBacked == Spec => []RefundsBacked
<1>1. Init => Owed
  <2> SUFFICES ASSUME Init, NEW p \in Pay PROVE Backed(p)
    BY DEF Owed
  <2>1. Units(p) = {}
    BY PcIs DEF Init, Units
  <2>2. Cardinality(Units(p)) = 0 /\ refunds[p] = 0 /\ refunded[p] = 0
    BY <2>1, FS_EmptySet DEF Init
  <2> QED
    BY <2>2 DEF Backed
<1>2. MoneyInv /\ Owed /\ [Next]_vars => Owed'
  <2>1. ASSUME MoneyInv, Owed, UNCHANGED vars PROVE Owed'
    BY <2>1 DEF Owed, Backed, Units, CardRow, vars, order, table, stripe
  <2> QED
    BY <2>1, OwedStep
<1>3. MoneyInv /\ Owed => RefundsBacked
  <2> SUFFICES ASSUME MoneyInv, Owed, NEW p \in Pay
               PROVE  refunded[p] <= received[p] /\ (CardRow(p) => refunds[p] <= refunded[p])
    BY DEF RefundsBacked
  <2>1. refunded[p] <= received[p]
    BY MoneyTypes DEF RowFact
  <2>2. refunds[p] \in Nat /\ refunded[p] \in Nat /\ Cardinality(Units(p)) \in Nat
    <3>1. Units(p) \subseteq Proc \X (1 .. Total)
      BY DEF Units
    <3>2. Cardinality(Units(p)) \in Nat
      BY <3>1, UnitsIn
    <3> QED
      BY <3>2, TotalAssumption DEF MoneyInv, TypeOK
  <2>3. CardRow(p) => refunds[p] + Cardinality(Units(p)) <= refunded[p]
    BY DEF Owed, Backed
  <2> QED
    BY <2>1, <2>2, <2>3
<1> QED
  BY <1>1, <1>2, <1>3, PaymentsMoney, PTL DEF Spec

-----------------------------------------------------------------------------
(* Money in the books stays there.  A write that rests on an older read    *)
(* can only undo what Stripe may still have undone: what a handler of a    *)
(* failure knows is that a declined attempt was reported or that the       *)
(* intent was cancelled, and a cancelled intent is never collected.        *)
LateJob(j) ==
    /\ j.pc = "event" /\ j.doc = "payment_failed" => Declined(j.p)
    /\ j.pc = "fail" => Declined(j.p) \/ pi[j.p] = "canceled"
    /\ j.pc \in {"guar", "autorel", "relend"} => row[j.p].purpose = "guarantee"
    /\ j.pc = "link" => row[j.p].provider # "cash"

Late == {"event", "fail", "guar", "autorel", "relend", "link"}

(* Stripe knows nothing of cash and holds only guarantees; only sales are  *)
(* refunded automatically.                                                 *)
CashRow(p) == row[p].provider = "cash" => pi[p] = "none" /\ cs[p] = "none"
HoldRow(p) == row[p].purpose = "guarantee" => row[p].status # "refund_failed"
OnHold(p)  == pi[p] = "hold" => row[p].purpose = "guarantee"

LateInv ==
    /\ \A p \in Pay : CashRow(p) /\ HoldRow(p) /\ OnHold(p)
    /\ \A e \in sent : e.type = "payment_failed" => Declined(e.p)
    /\ \A r \in Proc : LateJob(job[r])

(* What a step does to the rows. *)
Stays(p) ==
    Collected(row[p].status) => Collected(row'[p].status) \/ Declined(p) \/ Releasing(p)

RowsStay == \A p \in Pay : Stays(p) /\ HoldRow(p)'

LEMMA CanceledOpen ==
    ASSUME MoneyInv, LateInv, NEW p \in Pay, pi[p] = "canceled"
    PROVE  ~Collected(row[p].status)
BY MoneyTypes DEF RowFact, Taken, LateInv, CashRow

LEMMA RowsSame ==
    ASSUME LateInv, row' = row
    PROVE  RowsStay
BY DEF LateInv, RowsStay, Stays, HoldRow

LEMMA RowsWrite ==
    ASSUME MoneyInv, LateInv, NEW p \in Pay, NEW s, NEW c, Write(p, s, c),
           Collected(row[p].status) => Collected(s) \/ Declined(p) \/ Releasing(p),
           row[p].purpose = "guarantee" => s # "refund_failed"
    PROVE  RowsStay
<1>1. row \in [Pay -> Row]
  BY MoneyTypes DEF TableT
<1>2. /\ row'[p].status = s /\ row'[p].purpose = row[p].purpose
      /\ \A q \in Pay : q # p => row'[q] = row[q]
  BY <1>1 DEF Write
<1>3. \A q \in Pay : HoldRow(q)
  BY DEF LateInv
<1> QED
  BY <1>2, <1>3 DEF RowsStay, Stays, HoldRow

LEMMA RowsSet ==
    ASSUME MoneyInv, LateInv, NEW p \in Pay, NEW s, Write(p, s, row[p].captured),
           Collected(row[p].status) => Collected(s) \/ Declined(p) \/ Releasing(p),
           row[p].purpose = "guarantee" => s # "refund_failed"
    PROVE  RowsStay
<1>1. PICK c : c = row[p].captured
  OBVIOUS
<1>2. Write(p, s, c)
  BY <1>1 DEF Write
<1> QED
  BY <1>2, RowsWrite

LEMMA RowsNew ==
    ASSUME MoneyInv, LateInv, NEW p \in Pay, row[p].status = "absent", row'[p].status # "refund_failed",
           \A q \in Pay : q # p => row'[q] = row[q]
    PROVE  RowsStay
BY DEF RowsStay, Stays, LateInv, HoldRow, Collected

(* What a handler in the middle of its work knows of its payment. *)
LEMMA JobRow ==
    ASSUME MoneyInv, LateInv, NEW r \in Proc, job[r].pc \in OnPay
    PROVE  /\ job[r].p \in Pay /\ JobFact(job[r]) /\ LateJob(job[r])
           /\ row[job[r].p].status \in PaymentStatus /\ HoldRow(job[r].p)
BY MoneyTypes DEF JobFact, LateInv

LEMMA EventRowsStay ==
    ASSUME MoneyInv, LateInv, NEW r \in Proc
    PROVE  \/ handle_checkout_completed(r) \/ handle_checkout_expired(r) \/ handle_charge_refunded(r)
           \/ LinkCreated(r)
           => RowsStay
<1> DEFINE p == job[r].p
<1>0. TableT
  BY MoneyTypes
<1>p. ASSUME job[r].pc \in {"event", "link"} PROVE p \in Pay /\ HoldRow(p)
  BY <1>p, JobRow DEF OnPay
<1> HIDE DEF p
<1>s. ASSUME row' = row PROVE RowsStay
  BY <1>s, RowsSame
<1>1. ASSUME handle_checkout_completed(r) \/ LinkCreated(r) PROVE RowsStay
  <2>1. p \in Pay
    BY <1>1, <1>p DEF handle_checkout_completed, LinkCreated, Handling
  <2>2. \/ row' = row \/ row' = [row EXCEPT ![p].ref = "pi"] \/ row' = [row EXCEPT ![p].ref = "cs"]
    BY <1>1 DEF handle_checkout_completed, LinkCreated, p
  <2>3. row \in [Pay -> Row]
    BY <1>0 DEF TableT
  <2>4. \A q \in Pay : row'[q].status = row[q].status /\ row'[q].purpose = row[q].purpose
    BY <2>1, <2>2, <2>3 DEF Row
  <2> QED
    BY <2>4 DEF RowsStay, Stays, LateInv, HoldRow
<1>2. ASSUME handle_checkout_expired(r) PROVE RowsStay
  <2>1. p \in Pay
    BY <1>2, <1>p DEF handle_checkout_expired, Handling
  <2>2. CASE SetPayment(p, "expired") /\ row[p].status = "pending"
    <3>1. Write(p, "expired", row[p].captured)
      BY <1>0, <2>1, <2>2, WriteForms DEF PaymentStatus
    <3>2. ~Collected(row[p].status)
      BY <2>2 DEF Collected
    <3> QED
      BY <2>1, <3>1, <3>2, RowsSet
  <2> QED
    BY <1>2, <1>s, <2>2 DEF handle_checkout_expired, SetPayment, p
<1>3. ASSUME handle_charge_refunded(r) PROVE RowsStay
  <2>1. p \in Pay
    BY <1>3, <1>p DEF handle_charge_refunded, Handling
  <2>2. ASSUME NEW s \in {"refunded", "partially_refunded"}, SetPayment(p, s) PROVE RowsStay
    <3>1. Write(p, s, row[p].captured)
      BY <1>0, <2>1, <2>2, WriteForms DEF PaymentStatus
    <3>2. Collected(s) /\ s # "refund_failed"
      BY <2>2 DEF Collected
    <3> QED
      BY <2>1, <3>1, <3>2, RowsSet
  <2> QED
    BY <1>3, <1>s, <2>2 DEF handle_charge_refunded, SetPayment, p
<1> QED
  BY <1>1, <1>2, <1>3

LEMMA SaleRowsStay ==
    ASSUME MoneyInv, LateInv, NEW r \in Proc
    PROVE  SaleCommit(r) \/ AutoRefundMark(r) \/ AutoRefundEnd(r) \/ RefundCommit(r) => RowsStay
<1> DEFINE p == job[r].p
<1>0. TableT
  BY MoneyTypes
<1>p. ASSUME job[r].pc \in {"sale", "auto", "autoend"} PROVE p \in Pay /\ JobFact(job[r])
  BY <1>p, JobRow DEF OnPay
<1> HIDE DEF p
<1>s. ASSUME row' = row PROVE RowsStay
  BY <1>s, RowsSame
<1>w. Collected("paid") /\ Collected("refunded") /\ Collected("partially_refunded") /\ Collected("refund_failed")
  BY DEF Collected
<1>1. ASSUME SaleCommit(r) PROVE RowsStay
  <2>1. p \in Pay
    BY <1>1, <1>p DEF SaleCommit
  <2>2. CASE SalePaid(r, p)
    <3>1. Write(p, "paid", row[p].captured)
      BY <1>0, <2>1, <2>2, WriteForms DEF SalePaid, PaymentStatus
    <3> QED
      BY <1>w, <2>1, <3>1, RowsSet
  <2> QED
    BY <1>1, <1>s, <2>2 DEF SaleCommit, p
<1>2. ASSUME AutoRefundMark(r) PROVE RowsStay
  <2>1. p \in Pay
    BY <1>2, <1>p DEF AutoRefundMark
  <2>2. Write(p, "paid", row[p].captured)
    BY <1>0, <1>2, <2>1, WriteForms DEF AutoRefundMark, PaymentStatus, p
  <2> QED
    BY <1>w, <2>1, <2>2, RowsSet
<1>3. ASSUME AutoRefundEnd(r) PROVE RowsStay
  <2>1. p \in Pay /\ JobFact(job[r])
    BY <1>3, <1>p DEF AutoRefundEnd
  <2>2. PICK s : s = job[r].doc
    OBVIOUS
  <2>3. s \in {"refunded", "refund_failed"} /\ SetPayment(p, s) /\ row[p].purpose = "sale"
    BY <1>3, <2>1, <2>2 DEF AutoRefundEnd, JobFact, Refunding, Sold, p
  <2>4. Write(p, s, row[p].captured)
    BY <1>0, <2>1, <2>3, WriteForms DEF PaymentStatus
  <2> QED
    BY <1>w, <2>1, <2>3, <2>4, RowsSet
<1>4. ASSUME RefundCommit(r) PROVE RowsStay
  <2>1. PICK q : q = job[r].q
    OBVIOUS
  <2>2. q \in Pay /\ job[r].doc \in {"refunded", "partially_refunded", "failed"}
    <3>1. job[r].pc = "row"
      BY <1>4 DEF RefundCommit
    <3>2. JobFact(job[r])
      BY MoneyTypes
    <3> QED
      BY <2>1, <3>1, <3>2 DEF JobFact
  <2>3. HoldRow(q) /\ row[q].status \in PaymentStatus
    BY <2>2, MoneyTypes DEF LateInv
  <2>4. ASSUME job[r].doc # "failed", SetPayment(q, Written(job[r].seen, job[r].doc, row[q].status))
        PROVE  RowsStay
    <3>1. PICK s : s = Written(job[r].seen, job[r].doc, row[q].status)
      OBVIOUS
    <3>2. SetPayment(q, s) /\ (s = row[q].status \/ s \in {"refunded", "partially_refunded"})
      BY <2>2, <2>4, <3>1 DEF Written
    <3>3. s \in PaymentStatus
      BY <2>3, <3>2 DEF PaymentStatus
    <3>4. Write(q, s, row[q].captured)
      BY <1>0, <2>2, <3>2, <3>3, WriteForms
    <3>5. row[q].purpose = "guarantee" => s # "refund_failed"
      BY <2>3, <3>2 DEF HoldRow
    <3>6. Collected(row[q].status) => Collected(s)
      BY <1>w, <3>2
    <3> QED
      BY <2>2, <3>4, <3>5, <3>6, RowsSet
  <2> QED
    <3>1. CASE UNCHANGED table
      BY <1>s, <3>1 DEF table
    <3> QED
      BY <1>4, <2>1, <2>4, <3>1 DEF RefundCommit, RefundSucceeded
<1> QED
  BY <1>1, <1>2, <1>3, <1>4

LEMMA HoldRowsStay ==
    ASSUME MoneyInv, LateInv, NEW r \in Proc
    PROVE  \/ FailureCommit(r) \/ sync_external_capture(r) \/ GuaranteeCommit(r)
           \/ AutoReleaseEnd(r) \/ CaptureCommit(r) \/ ReleaseCommit(r)
           => RowsStay
<1> DEFINE p == job[r].p
<1>0. TableT
  BY MoneyTypes
<1>p. ASSUME job[r].pc \in {"fail", "guar", "relend", "capture", "release"}
      PROVE  /\ p \in Pay /\ JobFact(job[r]) /\ LateJob(job[r]) /\ HoldRow(p)
             /\ row[p].status \in PaymentStatus
  BY <1>p, JobRow DEF OnPay
<1> HIDE DEF p
<1>w. ASSUME p \in Pay, NEW c, Write(p, "paid", c) PROVE RowsStay
  <2>1. Collected("paid")
    BY DEF Collected
  <2>2. PICK s : s = "paid"
    OBVIOUS
  <2>3. Write(p, s, c) /\ Collected(s) /\ s # "refund_failed"
    BY <1>w, <2>1, <2>2
  <2> QED
    BY <1>w, <2>3, RowsWrite
<1>1. ASSUME FailureCommit(r) PROVE RowsStay
  <2>1. p \in Pay /\ (Declined(p) \/ pi[p] = "canceled")
    BY <1>1, <1>p DEF FailureCommit, LateJob, p
  <2>2. Collected(row[p].status) => Declined(p)
    BY <2>1, CanceledOpen
  <2>3. PICK s \in {"released", "failed"} : SetPayment(p, s)
    BY <1>1 DEF FailureCommit, p
  <2>4. Write(p, s, row[p].captured)
    BY <1>0, <2>1, <2>3, WriteForms DEF PaymentStatus
  <2> QED
    BY <2>1, <2>2, <2>3, <2>4, RowsSet
<1>2. ASSUME sync_external_capture(r) PROVE RowsStay
  <2>1. p \in Pay
    BY <1>2, <1>p DEF sync_external_capture, Finalizable
  <2>2. PICK c \in 0 .. Total : c = received[p]
    BY <2>1, MoneyTypes DEF StripeT
  <2>3. row' = [row EXCEPT ![p].status = "paid", ![p].ref = "pi", ![p].captured = c]
    BY <1>2, <2>2 DEF sync_external_capture, AmountReceived, p
  <2>4. Write(p, "paid", c)
    BY <1>0, <2>1, <2>3, WriteForms DEF PaymentStatus
  <2> QED
    BY <1>w, <2>1, <2>4
<1>3. ASSUME GuaranteeCommit(r) PROVE RowsStay
  <2>1. p \in Pay /\ row[p].purpose = "guarantee" /\ row[p].status \notin SETTLED_STATUSES /\ HoldRow(p)
    BY <1>3, <1>p DEF GuaranteeCommit, Finalizable, LateJob, p
  <2>2. ~Collected(row[p].status)
    BY <2>1 DEF HoldRow, Collected, SETTLED_STATUSES
  <2>3. Write(p, "authorized", row[p].captured)
    BY <1>0, <1>3, <2>1, WriteForms DEF GuaranteeCommit, PaymentStatus, p
  <2> QED
    BY <2>1, <2>2, <2>3, RowsSet
<1>4. ASSUME AutoReleaseEnd(r) PROVE RowsStay
  <2>0. job[r].pc = "relend"
    BY <1>4 DEF AutoReleaseEnd
  <2>1. /\ p \in Pay /\ HoldRow(p) /\ row[p].status \in PaymentStatus
        /\ job[r].doc \in {"released", "authorized"} /\ (job[r].doc = "released" => pi[p] = "canceled")
    BY <1>p, <2>0 DEF JobFact, p
  <2>2. PICK s : s = Written(job[r].seen, job[r].doc, row[p].status)
    OBVIOUS
  <2>3. SetPayment(p, s) /\ (s = row[p].status \/ s = job[r].doc)
    BY <1>4, <2>2 DEF AutoReleaseEnd, Written, p
  <2>4. s \in PaymentStatus
    BY <2>1, <2>3 DEF PaymentStatus
  <2>5. Write(p, s, row[p].captured)
    BY <1>0, <2>1, <2>3, <2>4, WriteForms
  <2>6. row[p].purpose = "guarantee" => s # "refund_failed"
    BY <2>1, <2>3 DEF HoldRow
  <2>7. job[r].doc = "authorized" => Releasing(p)
    BY <2>0 DEF Releasing, p
  <2>8. Collected(row[p].status) => Collected(s) \/ Releasing(p)
    BY <2>1, <2>3, <2>7, CanceledOpen
  <2> QED
    BY <2>1, <2>5, <2>6, <2>8, RowsSet
<1>5. ASSUME CaptureCommit(r) PROVE RowsStay
  <2>1. p \in Pay
    BY <1>5, <1>p DEF CaptureCommit
  <2>2. PICK c : c = job[r].n
    OBVIOUS
  <2>3. c \in 0 .. Total
    <3>0. job[r] \in Job
      BY MoneyTypes
    <3>1. job[r].n \in 0 .. Total
      BY <3>0 DEF Job
    <3> QED
      BY <2>2, <3>1
  <2>4. row' = [row EXCEPT ![p].status = "paid", ![p].captured = c]
    BY <1>5, <2>2 DEF CaptureCommit, p
  <2>5. Write(p, "paid", c)
    BY <1>0, <2>1, <2>3, <2>4, WriteForms DEF PaymentStatus
  <2> QED
    BY <1>w, <2>1, <2>5
<1>6. ASSUME ReleaseCommit(r) PROVE RowsStay
  <2>1. p \in Pay /\ pi[p] = "canceled"
    BY <1>6, <1>p DEF ReleaseCommit, JobFact, p
  <2>2. Write(p, "released", row[p].captured)
    BY <1>0, <1>6, <2>1, WriteForms DEF ReleaseCommit, PaymentStatus, p
  <2>3. ~Collected(row[p].status)
    BY <2>1, CanceledOpen
  <2> QED
    BY <2>1, <2>2, <2>3, RowsSet
<1> QED
  BY <1>1, <1>2, <1>3, <1>4, <1>5, <1>6

LEMMA RowsStep ==
    ASSUME MoneyInv, LateInv, Step
    PROVE  RowsStay
<1>1. ASSUME NEW p \in Pay, \/ create_intent(p) \/ create_terminal_intent(p) \/ create_guarantee_intent(p)
                            \/ create_manual_order(p)
      PROVE  RowsStay
  <2>1. row \in [Pay -> Row]
    BY MoneyTypes DEF TableT
  <2>2. \E w : row' = [row EXCEPT ![p] = w] /\ w.status \in {"pending", "paid"}
    <3>1. ASSUME NEW purpose, NEW provider, NewIntent(p, purpose, provider)
          PROVE  \E w : row' = [row EXCEPT ![p] = w] /\ w.status \in {"pending", "paid"}
      <4>1. PICK w : w = [NoRow EXCEPT !.purpose = purpose, !.provider = provider,
                                       !.status = "pending", !.ref = "pi"]
        OBVIOUS
      <4>2. w.status = "pending"
        BY <4>1 DEF NoRow
      <4> QED
        BY <3>1, <4>1, <4>2 DEF NewIntent, Insert
    <3>2. ASSUME create_manual_order(p)
          PROVE  \E w : row' = [row EXCEPT ![p] = w] /\ w.status \in {"pending", "paid"}
      <4>1. PICK w : w = [NoRow EXCEPT !.provider = "cash", !.status = "paid"]
        OBVIOUS
      <4>2. w.status = "paid"
        BY <4>1 DEF NoRow
      <4> QED
        BY <3>2, <4>1, <4>2 DEF create_manual_order, Insert
    <3> QED
      BY <1>1, <3>1, <3>2 DEF create_intent, create_terminal_intent, create_guarantee_intent
  <2>3. row[p].status = "absent"
    BY <1>1 DEF create_intent, create_terminal_intent, create_guarantee_intent, NewIntent,
                create_manual_order, Fresh
  <2> QED
    BY <2>1, <2>2, <2>3, RowsNew
<1>2. ASSUME NEW r \in Proc, NEW p \in Pay, NEW purpose \in {"sale", "guarantee"},
             create_payment_link(r, p, purpose)
      PROVE  RowsStay
  <2>1. \A q \in Pay : \/ row'[q] = [NoRow EXCEPT !.purpose = purpose, !.status = "pending"] /\ row[q].status = "absent"
                       \/ row[q].status = "pending" /\ row'[q] = [row[q] EXCEPT !.status = "expired"]
                       \/ row'[q] = row[q]
    BY <1>2 DEF create_payment_link, Fresh
  <2> SUFFICES ASSUME NEW q \in Pay PROVE Stays(q) /\ HoldRow(q)'
    BY DEF RowsStay
  <2>2. row[q] \in Row /\ HoldRow(q)
    BY MoneyTypes DEF LateInv
  <2>3. CASE row'[q] = [NoRow EXCEPT !.purpose = purpose, !.status = "pending"] /\ row[q].status = "absent"
    BY <2>3 DEF Stays, HoldRow, Collected, NoRow
  <2>4. CASE row[q].status = "pending" /\ row'[q] = [row[q] EXCEPT !.status = "expired"]
    BY <2>2, <2>4 DEF Stays, HoldRow, Collected, Row
  <2>5. CASE row'[q] = row[q]
    BY <2>2, <2>5 DEF Stays, HoldRow
  <2> QED
    BY <2>1, <2>3, <2>4, <2>5
<1>3. ASSUME NEW done, cancel_stale_pending_orders(done) PROVE RowsStay
  <2> SUFFICES ASSUME NEW q \in Pay PROVE Stays(q) /\ HoldRow(q)'
    BY DEF RowsStay
  <2>1. row[q] \in Row /\ HoldRow(q)
    BY MoneyTypes DEF LateInv
  <2>2. \/ row[q].status = "pending" /\ row'[q] = [row[q] EXCEPT !.status = "expired"]
        \/ row'[q] = row[q]
    BY <1>3 DEF cancel_stale_pending_orders, StalePayments
  <2> QED
    BY <2>1, <2>2 DEF Stays, HoldRow, Collected, Row
<1>4. ASSUME NEW r \in Proc, NEW q \in Pay, CashCommit(r, q) PROVE RowsStay
  <2>1. PICK p : p = job[r].p
    OBVIOUS
  <2>2. p \in Pay /\ pi[p] = "canceled" /\ HoldRow(p)
    BY <1>4, <2>1, MoneyTypes DEF CashCommit, JobFact, OnPay, LateInv
  <2>3. ~Collected(row[p].status)
    BY <2>2, CanceledOpen
  <2>4. row' = [row EXCEPT ![p].status = "released", ![q] = [NoRow EXCEPT !.provider = "cash", !.status = "paid"]]
    BY <1>4, <2>1 DEF CashCommit
  <2>5. row \in [Pay -> Row] /\ row[q].status = "absent"
    BY <1>4, MoneyTypes DEF CashCommit, Fresh, TableT
  <2> SUFFICES ASSUME NEW x \in Pay PROVE Stays(x) /\ HoldRow(x)'
    BY DEF RowsStay
  <2>6. row[x] \in Row /\ HoldRow(x)
    BY MoneyTypes DEF LateInv
  <2>7. CASE x = q
    BY <2>4, <2>5, <2>7 DEF Stays, HoldRow, Collected, NoRow
  <2>8. CASE x # q /\ x = p
    BY <2>3, <2>4, <2>5, <2>6, <2>8 DEF Stays, HoldRow, Row
  <2>9. CASE x # q /\ x # p
    BY <2>4, <2>5, <2>6, <2>9 DEF Stays, HoldRow
  <2> QED
    BY <2>7, <2>8, <2>9
<1>5. ASSUME row' = row PROVE RowsStay
  BY <1>5, RowsSame
<1>6. CASE Outside \/ create_order
  BY <1>5, <1>6 DEF Outside, Elapse, PayCard, DeclineCard, HoldExpires, SessionExpires, DashboardCapture,
                    StripeOnly, create_order, table
<1>7. ASSUME NEW done, ExpiryDies(done) PROVE RowsStay
  BY <1>5, <1>7 DEF ExpiryDies, table
<1>8. ASSUME NEW r \in Proc, Request(r) \/ Deliver(r) \/ Die(r) PROVE RowsStay
  BY <1>5, <1>8 DEF Request, Deliver, Die, handle_webhook, confirm, settle_guarantee_cash, create_refund,
                    RefundCall, capture_guarantee, update_status, Commit, Redeliver, cancel_my_order, table
<1>9. ASSUME NEW r \in Proc, NEW p \in Pay, release_guarantee(r, p) PROVE RowsStay
  BY <1>5, <1>9 DEF release_guarantee, table
<1>10. ASSUME NEW r \in Proc, Continue(r) PROVE RowsStay
  <2>1. ASSUME \/ handle_intent_event(r) \/ handle_payment_failure(r) \/ SaleRefused(r) \/ SaleAbandoned(r)
               \/ AutoRefundImpossible(r) \/ GuaranteeSkipped(r) \/ GuaranteeRefused(r) \/ AutoReleaseCall(r)
               \/ ReleaseAbsorbed(r) \/ CustomerCancel(r) \/ RedeliverCommit(r)
               \/ \E q \in Pay : AutoRefundCall(r, q)
        PROVE  RowsStay
    BY <1>5, <2>1 DEF handle_intent_event, handle_payment_failure, SaleRefused, SaleAbandoned,
                      AutoRefundImpossible, GuaranteeSkipped, GuaranteeRefused, AutoReleaseCall,
                      ReleaseAbsorbed, CustomerCancel, Commit, RedeliverCommit, AutoRefundCall, RefundCall, table
  <2> QED
    BY <1>4, <1>10, <2>1, EventRowsStay, SaleRowsStay, HoldRowsStay DEF Continue
<1> QED
  BY <1>1, <1>2, <1>3, <1>4, <1>6, <1>7, <1>8, <1>9, <1>10 DEF Step, Creation, Worker


(* Stripe's objects and its events.                                        *)
LEMMA CashRows ==
    ASSUME MoneyInv, LateInv, Grows,
           \A p \in Pay : \/ pi'[p] = pi[p] /\ cs'[p] = cs[p]
                          \/ pi[p] # "none" \/ cs[p] # "none" \/ row'[p].provider # "cash"
    PROVE  \A p \in Pay : CashRow(p)'
<1> SUFFICES ASSUME NEW p \in Pay, row'[p].provider = "cash" PROVE pi'[p] = "none" /\ cs'[p] = "none"
  BY DEF CashRow
<1>1. RowFact(p) /\ CashRow(p)
  BY MoneyTypes DEF LateInv
<1>2. CASE row[p].status = "absent"
  BY <1>1, <1>2 DEF RowFact
<1>3. CASE row[p].status # "absent"
  <2>1. row'[p].provider = row[p].provider
    BY <1>3 DEF Grows
  <2> QED
    BY <1>1, <2>1 DEF CashRow
<1> QED
  BY <1>2, <1>3

(* A payment that succeeds is told of, unless it was a hold. *)
Settles(p) ==
    \/ pi'[p] = pi[p] \/ pi'[p] \in {"open", "canceled"}
    \/ row[p].purpose = "guarantee"
    \/ pi'[p] = "succeeded" /\ Emit("succeeded", p, 0) \in sent' \ processed'

(* A hold that Stripe grants is told of. *)
Grants(p) ==
    \/ pi'[p] = pi[p] \/ pi'[p] \in {"succeeded", "canceled"}
    \/ pi[p] = "none" /\ pi'[p] = "open"
    \/ /\ pi[p] \in {"none", "open"} /\ pi'[p] = "hold"
       /\ Emit("capturable", p, 0) \in sent' /\ processed' = processed

Granted == \A e \in sent' : e \in sent \/ e.type # "capturable" \/ pi'[e.p] = "hold"

News ==
    /\ \A p \in Pay : Settles(p) /\ Grants(p)
    /\ Granted
    /\ sent \subseteq sent'
    /\ \A e \in sent' : e \in sent \/ e.type # "payment_failed" \/ Declined(e.p)'
    /\ \A p \in Pay : \/ pi'[p] = pi[p] /\ cs'[p] = cs[p]
                      \/ pi[p] # "none" \/ cs[p] # "none" \/ row'[p].provider # "cash"

LEMMA NewsQuiet ==
    ASSUME UNCHANGED <<pi, cs, sent>>
    PROVE  News
BY DEF News, Settles, Grants, Granted

(* One intent or session changes, and Stripe tells of it. *)
LEMMA NewsOf ==
    ASSUME MoneyInv, NEW p \in Pay, pi[p] # "none" \/ cs[p] # "none", Settles(p), Grants(p), Granted,
           pi' = pi \/ \E x : pi' = [pi EXCEPT ![p] = x],
           cs' = cs \/ \E x : cs' = [cs EXCEPT ![p] = x],
           sent \subseteq sent',
           \A e \in sent' : e \in sent \/ e.type # "payment_failed" \/ Declined(e.p)'
    PROVE  News
<1>1. pi \in [Pay -> IntentStatus] /\ cs \in [Pay -> {"none", "open", "done", "expired"}]
  BY MoneyTypes DEF StripeT
<1>2. \A q \in Pay : q # p => pi'[q] = pi[q] /\ cs'[q] = cs[q]
  BY <1>1
<1> QED
  BY <1>2 DEF News, Settles, Grants

LEMMA NewsCanceled ==
    ASSUME MoneyInv
    PROVE  /\ \A p \in Pay : CancelIntent(p) => News
           /\ \A done \in SUBSET Pay : CancelIntents(done) => News
<1>1. ASSUME NEW p \in Pay, CancelIntent(p) PROVE News
  <2>1. pi[p] # "none" /\ pi' = [pi EXCEPT ![p] = "canceled"] /\ cs' = cs
    BY <1>1 DEF CancelIntent, Cancelable
  <2>2. sent \subseteq sent' /\ \A e \in sent' : e \in sent \/ e.type \notin {"payment_failed", "capturable"}
    BY <1>1 DEF CancelIntent, Emit
  <2>3. Settles(p) /\ Grants(p) /\ Granted
    BY <2>1, <2>2, MoneyTypes DEF StripeT, Settles, Grants, Granted
  <2> QED
    BY <2>1, <2>2, <2>3, NewsOf
<1>2. ASSUME NEW done \in SUBSET Pay, CancelIntents(done) PROVE News
  <2>1. \A p \in Pay : (pi'[p] = pi[p] \/ pi[p] # "none") /\ cs'[p] = cs[p]
    BY <1>2 DEF CancelIntents
  <2>2. sent \subseteq sent' /\ \A e \in sent' : e \in sent \/ e.type \notin {"payment_failed", "capturable"}
    BY <1>2 DEF CancelIntents, Emit
  <2>3. \A p \in Pay : Settles(p) /\ Grants(p)
    BY <1>2 DEF CancelIntents, Settles, Grants
  <2> QED
    BY <2>1, <2>2, <2>3 DEF News, Granted
<1> QED
  BY <1>1, <1>2

LEMMA NewsOutside ==
    ASSUME MoneyInv, LateInv, Outside
    PROVE  News
<1>1. CASE Elapse
  BY <1>1, NewsQuiet DEF Elapse, stripe
<1> SUFFICES ASSUME NEW p \in Pay, \/ PayCard(p) \/ DeclineCard(p) \/ HoldExpires(p)
                                   \/ SessionExpires(p) \/ DashboardCapture(p)
             PROVE  News
  BY <1>1 DEF Outside
<1>2. pi[p] # "none" \/ cs[p] # "none"
  BY DEF PayCard, DeclineCard, HoldExpires, SessionExpires, DashboardCapture
<1>3. pi' = pi \/ \E x : pi' = [pi EXCEPT ![p] = x]
  BY DEF PayCard, DeclineCard, HoldExpires, SessionExpires, DashboardCapture
<1>4. cs' = cs \/ \E x : cs' = [cs EXCEPT ![p] = x]
  BY DEF PayCard, DeclineCard, HoldExpires, SessionExpires, DashboardCapture
<1>5. sent \subseteq sent' /\ \A e \in sent' : e \in sent \/ e.type # "payment_failed" \/ Declined(e.p)'
  <2>1. CASE DeclineCard(p)
    BY <2>1 DEF DeclineCard, Emits, Emit, Declined
  <2>2. CASE PayCard(p)
    BY <2>2 DEF PayCard, Emit
  <2>3. CASE HoldExpires(p) \/ SessionExpires(p) \/ DashboardCapture(p)
    BY <2>3 DEF HoldExpires, SessionExpires, DashboardCapture, Emits, Emit
  <2> QED
    BY <2>1, <2>2, <2>3
<1>6. Settles(p)
  <2>0. pi \in [Pay -> IntentStatus] /\ processed \subseteq sent
    BY MoneyTypes DEF StripeT
  <2>1. CASE DeclineCard(p) \/ SessionExpires(p)
    BY <2>1 DEF DeclineCard, SessionExpires, Settles
  <2>2. CASE HoldExpires(p)
    BY <2>0, <2>2 DEF HoldExpires, Settles
  <2>3. CASE DashboardCapture(p)
    BY <2>3 DEF DashboardCapture, Settles, LateInv, OnHold
  <2>4. CASE PayCard(p) /\ row[p].purpose # "guarantee"
    <3>1. pi[p] # "succeeded" /\ pi' = [pi EXCEPT ![p] = "succeeded"] /\ processed' = processed
          /\ Emit("succeeded", p, 0) \in sent'
      BY <2>4 DEF PayCard, StripeOnly
    <3>2. Emit("succeeded", p, 0) \notin sent
      <4>1. PICK e : e = Emit("succeeded", p, 0)
        OBVIOUS
      <4>2. e.type = "succeeded" /\ e.p = p
        BY <4>1 DEF Emit
      <4>3. e \notin sent
        BY <3>1, <4>2 DEF MoneyInv, Facts, EventFact
      <4> QED
        BY <4>1, <4>3
    <3> QED
      BY <2>0, <3>1, <3>2 DEF Settles
  <2> QED
    BY <2>1, <2>2, <2>3, <2>4 DEF Settles
<1>7. Grants(p) /\ Granted
  <2>0. pi \in [Pay -> IntentStatus]
    BY MoneyTypes DEF StripeT
  <2>1. CASE DeclineCard(p) \/ SessionExpires(p)
    BY <2>1 DEF DeclineCard, SessionExpires, Emits, Emit, Grants, Granted
  <2>2. CASE HoldExpires(p)
    BY <2>0, <2>2 DEF HoldExpires, Emits, Emit, Grants, Granted
  <2>3. CASE DashboardCapture(p)
    BY <2>0, <2>3 DEF DashboardCapture, Emits, Emit, Grants, Granted
  <2>4. CASE PayCard(p) /\ row[p].purpose # "guarantee"
    <3>1. pi' = [pi EXCEPT ![p] = "succeeded"]
      BY <2>4 DEF PayCard
    <3>2. \A e \in sent' : e \in sent \/ e.type # "capturable"
      BY <2>4 DEF PayCard, Emit
    <3> QED
      BY <2>0, <3>1, <3>2 DEF Grants, Granted
  <2>5. CASE PayCard(p) /\ row[p].purpose = "guarantee"
    <3>1. /\ pi' = [pi EXCEPT ![p] = "hold"] /\ pi[p] \in {"none", "open"} /\ processed' = processed
          /\ Emit("capturable", p, 0) \in sent'
      BY <2>5 DEF PayCard, StripeOnly
    <3>2. \A e \in sent' : e \in sent \/ e.p = p
      BY <2>5 DEF PayCard, Emit
    <3> QED
      BY <2>0, <3>1, <3>2 DEF Grants, Granted
  <2> QED
    BY <2>1, <2>2, <2>3, <2>4, <2>5
<1> QED
  BY <1>2, <1>3, <1>4, <1>5, <1>6, <1>7, NewsOf

LEMMA NewsCreation ==
    ASSUME MoneyInv, Creation
    PROVE  News
<1>0. /\ pi \in [Pay -> IntentStatus] /\ row \in [Pay -> Row]
  BY MoneyTypes DEF StripeT, TableT
<1>1. CASE create_order
  BY <1>1, NewsQuiet DEF create_order, stripe
<1>2. ASSUME NEW p \in Pay, create_manual_order(p) PROVE News
  BY <1>2, NewsQuiet DEF create_manual_order, stripe
<1>3. ASSUME NEW p \in Pay, NEW purpose, NEW provider \in {"stripe", "stripe_terminal"},
             NewIntent(p, purpose, provider)
      PROVE  News
  <2>1. PICK w : w = [NoRow EXCEPT !.purpose = purpose, !.provider = provider,
                                   !.status = "pending", !.ref = "pi"]
    OBVIOUS
  <2>2. w.provider = provider
    BY <2>1 DEF NoRow
  <2>3. row'[p].provider # "cash"
    BY <1>0, <1>3, <2>1, <2>2 DEF NewIntent, Insert
  <2>4. pi' = [pi EXCEPT ![p] = "open"] /\ UNCHANGED <<cs, sent>>
    BY <1>3 DEF NewIntent
  <2>5. pi'[p] = "open" /\ \A q \in Pay : q # p => pi'[q] = pi[q]
    BY <1>0, <2>4
  <2>6. pi[p] = "none"
    BY <1>3, MoneyTypes DEF NewIntent, Fresh, RowFact
  <2> QED
    BY <2>3, <2>4, <2>5, <2>6 DEF News, Settles, Grants, Granted
<1>4. ASSUME NEW p \in Pay, NEW r \in Proc, NEW purpose \in {"sale", "guarantee"}, create_payment_link(r, p, purpose)
      PROVE  News
  <2>1. \A q \in Pay : cs'[q] = cs[q] \/ cs[q] = "open"
    BY <1>4 DEF create_payment_link
  <2>2. pi' = pi
    BY <1>4 DEF create_payment_link
  <2>3. sent \subseteq sent' /\ \A e \in sent' : e \in sent \/ e.type \notin {"payment_failed", "capturable"}
    BY <1>4 DEF create_payment_link, Emit
  <2> QED
    BY <2>1, <2>2, <2>3 DEF News, Settles, Grants, Granted
<1> QED
  BY <1>1, <1>2, <1>3, <1>4
  DEF Creation, create_intent, create_terminal_intent, create_guarantee_intent

LEMMA NewsStep ==
    ASSUME MoneyInv, LateInv, Step
    PROVE  News
<1>1. ASSUME NEW r \in Proc, NEW owner, NEW q \in Pay, NEW n, RefundCall(r, owner, q, n) PROVE News
  <2>1. UNCHANGED <<pi, cs>>
    BY <1>1 DEF RefundCall, stripe
  <2>2. sent \subseteq sent' /\ \A e \in sent' : e \in sent \/ e.type \notin {"payment_failed", "capturable"}
    BY <1>1 DEF RefundCall, stripe, Emit
  <2> QED
    BY <2>1, <2>2 DEF News, Settles, Grants, Granted
<1>2. ASSUME NEW r \in Proc, NEW p \in Pay, NEW n, capture_guarantee(r, p, n) PROVE News
  <2>1. pi[p] # "none" /\ pi' = [pi EXCEPT ![p] = "succeeded"] /\ cs' = cs
    BY <1>2 DEF capture_guarantee
  <2>2. sent \subseteq sent' /\ \A e \in sent' : e \in sent \/ e.type \notin {"payment_failed", "capturable"}
    BY <1>2 DEF capture_guarantee, Emits, Emit
  <2>3. Settles(p) /\ Grants(p) /\ Granted
    BY <1>2, <2>1, <2>2, MoneyTypes DEF capture_guarantee, LatestHold, Authorized, Settles, Grants, Granted, StripeT
  <2> QED
    BY <2>1, <2>2, <2>3, NewsOf
<1>3. ASSUME NEW r \in Proc, Request(r) PROVE News
  <2>1. ASSUME NEW p \in Pay, settle_guarantee_cash(r, p) PROVE News
    BY <2>1, NewsCanceled DEF settle_guarantee_cash
  <2>2. ASSUME NEW p \in Pay, NEW n \in 1 .. Total, create_refund(r, p, n) PROVE News
    BY <2>2, <1>1 DEF create_refund
  <2>3. ASSUME NEW p \in Pay, confirm(r, p) PROVE News
    BY <2>3, NewsQuiet DEF confirm, stripe
  <2>4. ASSUME (\E to : update_status(r, to)) \/ Redeliver(r) \/ cancel_my_order(r) PROVE News
    BY <2>4, NewsQuiet DEF update_status, Commit, Redeliver, cancel_my_order, stripe
  <2> QED
    BY <1>2, <1>3, <2>1, <2>2, <2>3, <2>4 DEF Request
<1>4. ASSUME NEW r \in Proc, Deliver(r) \/ Die(r) PROVE News
  BY <1>4, NewsQuiet DEF Deliver, handle_webhook, Die, stripe
<1>5. ASSUME NEW r \in Proc, NEW p \in Pay, release_guarantee(r, p) PROVE News
  BY <1>5, NewsCanceled DEF release_guarantee
<1>6. ASSUME NEW done \in SUBSET Pay, cancel_stale_pending_orders(done) \/ ExpiryDies(done) PROVE News
  BY <1>6, NewsCanceled DEF cancel_stale_pending_orders, ExpiryDies
<1>7. ASSUME NEW r \in Proc, Continue(r) PROVE News
  <2>1. CASE LinkCreated(r)
    <3>1. PICK p : p = job[r].p
      OBVIOUS
    <3>2. p \in Pay /\ row[p].provider # "cash" /\ row[p].status # "absent"
      BY <2>1, <3>1, JobRow DEF LinkCreated, OnPay, LateJob, JobFact
    <3>3. UNCHANGED <<pi, sent>> /\ (cs' = cs \/ cs' = [cs EXCEPT ![p] = "open"])
          /\ (row' = row \/ row' = [row EXCEPT ![p].ref = "cs"])
      BY <2>1, <3>1 DEF LinkCreated
    <3>4. row \in [Pay -> Row] /\ cs \in [Pay -> {"none", "open", "done", "expired"}]
      BY MoneyTypes DEF TableT, StripeT
    <3>5. row'[p].provider = row[p].provider
      BY <3>2, <3>3, <3>4 DEF Row
    <3>6. \A q \in Pay : q # p => cs'[q] = cs[q]
      BY <3>3, <3>4
    <3> QED
      BY <3>2, <3>3, <3>5, <3>6 DEF News, Settles, Grants, Granted
  <2>2. ASSUME NEW q \in Pay, AutoRefundCall(r, q) PROVE News
    BY <2>2, <1>1 DEF AutoRefundCall
  <2>3. CASE AutoReleaseCall(r)
    <3>1. job[r].p \in Pay
      BY <2>3, JobRow DEF AutoReleaseCall, OnPay
    <3> QED
      BY <2>3, <3>1, NewsCanceled, NewsQuiet DEF AutoReleaseCall, stripe
  <2>4. ASSUME UNCHANGED stripe PROVE News
    BY <2>4, NewsQuiet DEF stripe
  <2>5. ASSUME \/ handle_intent_event(r) \/ handle_checkout_completed(r) \/ handle_checkout_expired(r)
               \/ handle_charge_refunded(r) \/ handle_payment_failure(r) \/ FailureCommit(r)
               \/ SaleCommit(r) \/ SaleRefused(r) \/ SaleAbandoned(r) \/ AutoRefundMark(r)
               \/ (\E q \in Pay : CashCommit(r, q))
               \/ AutoRefundImpossible(r) \/ RefundCommit(r) \/ AutoRefundEnd(r)
        PROVE  UNCHANGED stripe
    BY <2>5 DEF handle_intent_event, handle_checkout_completed, handle_checkout_expired,
                handle_charge_refunded, handle_payment_failure, FailureCommit, SaleCommit, SaleRefused,
                SaleAbandoned, AutoRefundMark, CashCommit, AutoRefundImpossible, RefundCommit, AutoRefundEnd
  <2>6. ASSUME \/ GuaranteeSkipped(r) \/ sync_external_capture(r) \/ GuaranteeCommit(r) \/ GuaranteeRefused(r)
               \/ AutoReleaseEnd(r) \/ CaptureCommit(r) \/ ReleaseCommit(r) \/ ReleaseAbsorbed(r)
               \/ CustomerCancel(r) \/ RedeliverCommit(r)
        PROVE  UNCHANGED stripe
    BY <2>6 DEF GuaranteeSkipped, sync_external_capture, GuaranteeCommit, GuaranteeRefused, AutoReleaseEnd,
                CaptureCommit, ReleaseCommit, ReleaseAbsorbed, CustomerCancel, Commit, RedeliverCommit
  <2> QED
    BY <1>7, <2>1, <2>2, <2>3, <2>4, <2>5, <2>6 DEF Continue
<1> QED
  BY <1>3, <1>4, <1>5, <1>6, <1>7, NewsOutside, NewsCreation DEF Step, Worker

(* What a handler knows when it starts, and goes on knowing. *)
LearnsAt(r) == \E j : Become(r, j) /\ LateJob(j)'
Learns      == job' = job \/ \E r \in Proc : LearnsAt(r)

LEMMA JobAt ==
    ASSUME NEW r \in Proc, NEW pc, NEW p, Become(r, At(pc, p))
    PROVE  \E j : Become(r, j) /\ j.pc = pc /\ j.p = p
<1>1. PICK j : j = At(pc, p)
  OBVIOUS
<1>2. j.pc = pc /\ j.p = p
  BY <1>1 DEF At, Idle
<1>3. Become(r, j)
  BY <1>1 DEF Become
<1> QED
  BY <1>2, <1>3

LEMMA JobSaw ==
    ASSUME NEW r \in Proc, NEW pc, NEW p, NEW s, NEW d, Become(r, Saw(pc, p, s, d))
    PROVE  \E j : Become(r, j) /\ j.pc = pc /\ j.p = p
<1>1. PICK j : j = Saw(pc, p, s, d)
  OBVIOUS
<1>2. j.pc = pc /\ j.p = p
  BY <1>1 DEF Saw, At, Idle
<1>3. Become(r, j)
  BY <1>1 DEF Become
<1> QED
  BY <1>2, <1>3

LEMMA LearnsQuiet ==
    ASSUME NEW r \in Proc, NEW pc, pc \notin Late, \E j : Become(r, j) /\ j.pc = pc
    PROVE  LearnsAt(r)
BY DEF LearnsAt, LateJob, Late

LEMMA LearnsIdle ==
    ASSUME NEW r \in Proc, Done(r)
    PROVE  LearnsAt(r)
<1>1. \E j : Become(r, j) /\ j.pc = "idle"
  BY PcIs DEF Done, Become
<1> QED
  BY <1>1, LearnsQuiet DEF Late

LEMMA LearnsGuarantee ==
    ASSUME NEW r \in Proc, NEW p, NEW doc, ReadGuarantee(r, p, doc), row'[p].purpose = "guarantee"
    PROVE  LearnsAt(r)
<1>1. PICK j : Become(r, j) /\ j.pc = "guar" /\ j.p = p
  BY JobSaw DEF ReadGuarantee
<1> QED
  BY <1>1 DEF LearnsAt, LateJob

LEMMA LearnsSale ==
    ASSUME NEW r \in Proc, NEW p, ReadSale(r, p)
    PROVE  LearnsAt(r)
<1>1. CASE Done(r)
  BY <1>1, LearnsIdle
<1>2. CASE Become(r, Saw("sale", p, status, ""))
  <2>1. PICK s, d : Become(r, Saw("sale", p, s, d))
    BY <1>2
  <2>2. \E j : Become(r, j) /\ j.pc = "sale"
    BY <2>1, JobSaw
  <2> QED
    BY <2>2, LearnsQuiet DEF Late
<1> QED
  BY <1>1, <1>2 DEF ReadSale

LEMMA LearnsRefund ==
    ASSUME NEW r \in Proc, NEW owner, NEW q, NEW n, RefundCall(r, owner, q, n)
    PROVE  LearnsAt(r)
<1>1. \E j : Become(r, j) /\ j.pc = "row"
  <2>1. PICK s, d : Become(r, [Saw("row", owner, s, d) EXCEPT !.q = q, !.n = n])
    BY DEF RefundCall
  <2>2. PICK j : j = [Saw("row", owner, s, d) EXCEPT !.q = q, !.n = n]
    OBVIOUS
  <2>3. j.pc = "row"
    BY <2>2 DEF Saw, At, Idle
  <2>4. Become(r, j)
    BY <2>1, <2>2 DEF Become
  <2> QED
    BY <2>3, <2>4
<1> QED
  BY <1>1, LearnsQuiet DEF Late

LEMMA LearnsCommit ==
    ASSUME NEW r \in Proc, NEW to, Commit(r, to)
    PROVE  LearnsAt(r)
<1>1. CASE Become(r, Idle)
  BY <1>1, LearnsIdle DEF Done
<1>2. CASE Become(r, At("trailing", None))
  <2>1. \E j : Become(r, j) /\ j.pc = "trailing"
    BY <1>2, JobAt
  <2> QED
    BY <2>1, LearnsQuiet DEF Late
<1> QED
  BY <1>1, <1>2 DEF Commit

LEMMA LearnsRequest ==
    ASSUME MoneyInv, LateInv, NEW r \in Proc, Request(r) \/ Deliver(r)
    PROVE  LearnsAt(r)
<1>1. ASSUME NEW p \in Pay, confirm(r, p) PROVE LearnsAt(r)
  <2>1. row' = row
    BY <1>1 DEF confirm, table
  <2>2. CASE row[p].purpose = "guarantee"
    BY <1>1, <2>1, <2>2, LearnsGuarantee DEF confirm
  <2>3. CASE row[p].purpose # "guarantee"
    BY <1>1, <2>3, LearnsSale DEF confirm
  <2> QED
    BY <2>2, <2>3
<1>2. ASSUME NEW p \in Pay, settle_guarantee_cash(r, p) PROVE LearnsAt(r)
  <2>1. \E j : Become(r, j) /\ j.pc = "cash"
    BY <1>2, JobSaw DEF settle_guarantee_cash
  <2> QED
    BY <2>1, LearnsQuiet DEF Late
<1>3. ASSUME NEW p \in Pay, NEW n, capture_guarantee(r, p, n) PROVE LearnsAt(r)
  <2>1. \E j : Become(r, j) /\ j.pc = "capture"
    <3>1. PICK j : j = [At("capture", p) EXCEPT !.n = n]
      OBVIOUS
    <3>2. j.pc = "capture"
      BY <3>1 DEF At, Idle
    <3>3. Become(r, j)
      BY <1>3, <3>1 DEF capture_guarantee, Become
    <3> QED
      BY <3>2, <3>3
  <2> QED
    BY <2>1, LearnsQuiet DEF Late
<1>4. ASSUME NEW p \in Pay, NEW n, create_refund(r, p, n) PROVE LearnsAt(r)
  BY <1>4, LearnsRefund DEF create_refund
<1>5. ASSUME NEW to, update_status(r, to) PROVE LearnsAt(r)
  BY <1>5, LearnsCommit DEF update_status
<1>6. CASE Redeliver(r)
  <2>1. \E j : Become(r, j) /\ j.pc = "redeliver"
    BY <1>6, JobAt DEF Redeliver
  <2> QED
    BY <2>1, LearnsQuiet DEF Late
<1>7. CASE cancel_my_order(r)
  <2>1. \E j : Become(r, j) /\ j.pc = "cancel"
    BY <1>7, JobAt DEF cancel_my_order
  <2> QED
    BY <2>1, LearnsQuiet DEF Late
<1>8. ASSUME NEW e \in sent, handle_webhook(r, e) PROVE LearnsAt(r)
  <2>1. PICK j : j = [At("event", e.p) EXCEPT !.doc = e.type, !.n = e.n]
    OBVIOUS
  <2>2. j.pc = "event" /\ j.doc = e.type /\ j.p = e.p
    BY <2>1 DEF At, Idle
  <2>3. Become(r, j) /\ sent' = sent
    BY <1>8, <2>1 DEF handle_webhook, stripe
  <2>4. e.type = "payment_failed" => Declined(e.p)'
    BY <2>3 DEF LateInv, Declined
  <2> QED
    BY <2>2, <2>3, <2>4 DEF LearnsAt, LateJob
<1> QED
  BY <1>1, <1>2, <1>3, <1>4, <1>5, <1>6, <1>7, <1>8 DEF Request, Deliver

LEMMA LearnsEvent ==
    ASSUME MoneyInv, LateInv, NEW r \in Proc,
           handle_intent_event(r) \/ handle_checkout_completed(r) \/ handle_payment_failure(r)
    PROVE  LearnsAt(r)
<1>1. PICK p : p = job[r].p
  OBVIOUS
<1>2. /\ p \in Pay /\ (job[r].doc = "canceled" => pi[p] = "canceled")
      /\ job[r].doc = "payment_failed" => Declined(p)
  <2>1. job[r].pc = "event"
    BY DEF handle_intent_event, handle_checkout_completed, handle_payment_failure, Handling
  <2>2. p \in Pay /\ JobFact(job[r]) /\ LateJob(job[r])
    BY <1>1, <2>1, JobRow DEF OnPay
  <2> QED
    BY <1>1, <2>1, <2>2 DEF JobFact, EventFact, LateJob
<1>3. CASE handle_intent_event(r)
  <2>1. row' = row
    BY <1>3 DEF handle_intent_event, table
  <2>2. (row[p].purpose = "guarantee" /\ \E d : ReadGuarantee(r, p, d)) \/ ReadSale(r, p)
    BY <1>1, <1>3 DEF handle_intent_event
  <2> QED
    BY <2>1, <2>2, LearnsGuarantee, LearnsSale
<1>4. CASE handle_checkout_completed(r)
  <2>1. (row[p].purpose = "guarantee" /\ \E d : ReadGuarantee(r, p, d)) \/ Done(r)
    BY <1>1, <1>4 DEF handle_checkout_completed
  <2>2. row' = row \/ row' = [row EXCEPT ![p].ref = "pi"]
    BY <1>1, <1>4 DEF handle_checkout_completed
  <2>3. row \in [Pay -> Row]
    BY MoneyTypes DEF TableT
  <2>4. row'[p].purpose = row[p].purpose
    BY <1>2, <2>2, <2>3 DEF Row
  <2> QED
    BY <2>1, <2>4, LearnsGuarantee, LearnsIdle
<1>5. CASE handle_payment_failure(r)
  <2>1. UNCHANGED <<pi, sent>>
    BY <1>5 DEF handle_payment_failure, stripe
  <2>2. Declined(p)' \/ pi'[p] = "canceled"
    BY <1>2, <1>5, <2>1 DEF handle_payment_failure, Handling, Declined
  <2>3. Done(r) \/ \E s, d : Become(r, Saw("fail", p, s, d))
    BY <1>1, <1>5 DEF handle_payment_failure
  <2>4. ASSUME NEW s, NEW d, Become(r, Saw("fail", p, s, d)) PROVE LearnsAt(r)
    <3>1. PICK j : Become(r, j) /\ j.pc = "fail" /\ j.p = p
      BY <2>4, JobSaw
    <3> QED
      BY <2>2, <3>1 DEF LearnsAt, LateJob
  <2> QED
    BY <2>3, <2>4, LearnsIdle
<1> QED
  BY <1>3, <1>4, <1>5

LEMMA LearnsContinue ==
    ASSUME MoneyInv, LateInv, NEW r \in Proc, Continue(r)
    PROVE  LearnsAt(r)
<1>1. CASE handle_intent_event(r) \/ handle_checkout_completed(r) \/ handle_payment_failure(r)
  BY <1>1, LearnsEvent
<1>2. CASE \/ handle_checkout_expired(r) \/ handle_charge_refunded(r) \/ FailureCommit(r) \/ SaleCommit(r)
           \/ SaleAbandoned(r) \/ AutoRefundEnd(r) \/ GuaranteeSkipped(r) \/ sync_external_capture(r)
           \/ GuaranteeCommit(r) \/ AutoReleaseEnd(r) \/ CaptureCommit(r) \/ ReleaseCommit(r)
           \/ ReleaseAbsorbed(r) \/ RedeliverCommit(r) \/ LinkCreated(r) \/ \E q \in Pay : CashCommit(r, q)
  <2>1. Done(r)
    BY <1>2 DEF handle_checkout_expired, handle_charge_refunded, FailureCommit, SaleCommit,
                SaleAbandoned, AutoRefundEnd, GuaranteeSkipped, sync_external_capture,
                GuaranteeCommit, AutoReleaseEnd, CaptureCommit, ReleaseCommit,
                ReleaseAbsorbed, RedeliverCommit, LinkCreated, CashCommit
  <2> QED
    BY <2>1, LearnsIdle
<1>3. CASE SaleRefused(r) \/ AutoRefundMark(r) \/ AutoRefundImpossible(r)
  <2>1. PICK p : p = job[r].p
    OBVIOUS
  <2>2. \/ Become(r, At("auto", p)) \/ Become(r, At("refund", p))
        \/ \E s, d : Become(r, Saw("autoend", p, s, d))
    BY <1>3, <2>1 DEF SaleRefused, AutoRefundMark, AutoRefundImpossible
  <2>3. PICK pc \in {"auto", "refund", "autoend"} : \E j : Become(r, j) /\ j.pc = pc
    BY <2>2, JobAt, JobSaw
  <2> QED
    BY <2>3, LearnsQuiet DEF Late
<1>4. ASSUME NEW q \in Pay, AutoRefundCall(r, q) PROVE LearnsAt(r)
  BY <1>4, LearnsRefund DEF AutoRefundCall
<1>5. ASSUME RefundCommit(r) PROVE LearnsAt(r)
  <2>1. PICK owner : owner = job[r].p
    OBVIOUS
  <2>2. Done(r) \/ \E s, d : Become(r, Saw("autoend", owner, s, d))
    BY <1>5, <2>1 DEF RefundCommit, Done
  <2>3. ASSUME NEW s, NEW d, Become(r, Saw("autoend", owner, s, d)) PROVE LearnsAt(r)
    <3>1. \E j : Become(r, j) /\ j.pc = "autoend"
      BY <2>3, JobSaw
    <3> QED
      BY <3>1, LearnsQuiet DEF Late
  <2> QED
    BY <2>2, <2>3, LearnsIdle
<1>6. ASSUME AutoReleaseCall(r) PROVE LearnsAt(r)
  <2>1. PICK d \in {"released", "authorized"} : Become(r, [job[r] EXCEPT !.pc = "relend", !.doc = d])
    BY <1>6 DEF AutoReleaseCall
  <2>2. PICK j : j = [job[r] EXCEPT !.pc = "relend", !.doc = d]
    OBVIOUS
  <2>3. job[r] \in Job
    BY MoneyTypes
  <2>4. j.pc = "relend" /\ j.p = job[r].p
    BY <2>2, <2>3 DEF Job
  <2>5. row' = row /\ row[job[r].p].purpose = "guarantee"
    BY <1>6, JobRow DEF AutoReleaseCall, table, OnPay, LateJob
  <2> QED
    BY <2>1, <2>2, <2>4, <2>5 DEF LearnsAt, LateJob
<1>8. ASSUME GuaranteeRefused(r) PROVE LearnsAt(r)
  <2>1. PICK p : p = job[r].p
    OBVIOUS
  <2>2. row' = row /\ row[p].purpose = "guarantee"
    BY <1>8, <2>1, JobRow DEF GuaranteeRefused, Finalizable, table, OnPay, LateJob
  <2>3. PICK s, d : Become(r, Saw("autorel", p, s, d))
    BY <1>8, <2>1 DEF GuaranteeRefused
  <2>4. PICK j : Become(r, j) /\ j.pc = "autorel" /\ j.p = p
    BY <2>3, JobSaw
  <2> QED
    BY <2>2, <2>4 DEF LearnsAt, LateJob
<1>7. ASSUME CustomerCancel(r) PROVE LearnsAt(r)
  BY <1>7, LearnsCommit, LearnsIdle DEF CustomerCancel
<1> QED
  BY <1>1, <1>2, <1>3, <1>4, <1>5, <1>6, <1>7, <1>8 DEF Continue

LEMMA LearnsStep ==
    ASSUME MoneyInv, LateInv, Step
    PROVE  Learns
<1>0. ASSUME job' = job PROVE Learns
  BY <1>0 DEF Learns
<1>1. CASE Creation
  <2>1. ASSUME NEW p \in Pay, NEW r \in Proc, NEW purpose, create_payment_link(r, p, purpose) PROVE Learns
    <3>1. PICK j : Become(r, j) /\ j.pc = "link" /\ j.p = p
      BY <2>1, JobAt DEF create_payment_link
    <3>2. PICK w : w = [NoRow EXCEPT !.purpose = purpose, !.status = "pending"]
      OBVIOUS
    <3>3. w.provider = "stripe"
      BY <3>2 DEF NoRow
    <3>4. row'[p] = w
      BY <2>1, <3>2 DEF create_payment_link
    <3> QED
      BY <3>1, <3>3, <3>4 DEF Learns, LearnsAt, LateJob
  <2>2. ASSUME NEW p \in Pay, \/ create_intent(p) \/ create_terminal_intent(p) \/ create_guarantee_intent(p)
                              \/ create_manual_order(p)
        PROVE  Learns
    BY <1>0, <2>2 DEF create_intent, create_terminal_intent, create_guarantee_intent, NewIntent,
                      create_manual_order
  <2>3. CASE create_order
    BY <1>0, <2>3 DEF create_order
  <2> QED
    BY <1>1, <2>1, <2>2, <2>3 DEF Creation
<1>2. CASE Outside
  BY <1>0, <1>2 DEF Outside, Elapse, PayCard, DeclineCard, HoldExpires, SessionExpires, DashboardCapture,
                    StripeOnly
<1>3. ASSUME NEW done, cancel_stale_pending_orders(done) \/ ExpiryDies(done) PROVE Learns
  BY <1>0, <1>3 DEF cancel_stale_pending_orders, ExpiryDies
<1>4. ASSUME NEW r \in Proc, Die(r) PROVE Learns
  BY <1>4, LearnsIdle DEF Die, Learns
<1>5. ASSUME NEW r \in Proc, NEW p \in Pay, release_guarantee(r, p) PROVE Learns
  <2>1. \E j : Become(r, j) /\ j.pc = "release"
    BY <1>5, JobAt DEF release_guarantee
  <2> QED
    BY <2>1, LearnsQuiet DEF Late, Learns
<1> QED
  BY <1>1, <1>2, <1>3, <1>4, <1>5, LearnsRequest, LearnsContinue DEF Step, Worker, Learns

(* A handler that waits keeps what it knows. *)
LEMMA LateGrows ==
    ASSUME Grows, sent \subseteq sent', NEW j, JobFact(j), LateJob(j)
    PROVE  LateJob(j)'
<1>1. j.pc \in Late => j.p \in Pay /\ row[j.p].status # "absent"
  BY DEF JobFact, Late, OnPay
<1>2. Declined(j.p) => Declined(j.p)'
  BY DEF Declined
<1>3. j.pc \in Late => /\ row'[j.p].purpose = row[j.p].purpose /\ row'[j.p].provider = row[j.p].provider
                       /\ pi[j.p] = "canceled" => pi'[j.p] = "canceled"
  BY <1>1 DEF Grows
<1> QED
  BY <1>2, <1>3 DEF LateJob, Late

LEMMA LateStep ==
    ASSUME MoneyInv, LateInv, Next
    PROVE  LateInv' /\ RowsStay
<1>0. Step /\ Grows
  BY MoneyStep DEF Next, Kept
<1>1. RowsStay /\ News /\ Learns
  BY <1>0, RowsStep, NewsStep, LearnsStep
<1>2. \A p \in Pay : CashRow(p)' /\ HoldRow(p)' /\ OnHold(p)'
  <2>1. \A p \in Pay : CashRow(p)'
    BY <1>0, <1>1, CashRows DEF News
  <2>2. ASSUME NEW p \in Pay, pi'[p] = "hold" PROVE row'[p].purpose = "guarantee"
    <3>1. row[p].purpose = "guarantee"
      BY <1>1, <2>2 DEF News, Settles, LateInv, OnHold
    <3> QED
      BY <1>0, <3>1, RefExists DEF Grows
  <2> QED
    BY <1>1, <2>1, <2>2 DEF RowsStay, OnHold
<1>3. \A e \in sent' : e.type = "payment_failed" => Declined(e.p)'
  <2>1. sent \subseteq sent'
    BY <1>1 DEF News
  <2>2. \A e \in sent : e.type = "payment_failed" => Declined(e.p)'
    BY <2>1 DEF LateInv, Declined
  <2> QED
    BY <1>1, <2>2 DEF News
<1>4. ASSUME NEW s \in Proc PROVE LateJob(job[s])'
  <2>1. CASE job'[s] = job[s]
    <3>1. PICK j : j = job[s]
      OBVIOUS
    <3>2. JobFact(j) /\ LateJob(j)
      BY <3>1, MoneyTypes DEF LateInv
    <3>3. LateJob(j)'
      BY <1>0, <1>1, <3>2, LateGrows DEF News
    <3> QED
      BY <2>1, <3>1, <3>3 DEF LateJob, Declined
  <2>2. CASE job'[s] # job[s]
    <3>1. PICK r \in Proc : \E j : Become(r, j) /\ LateJob(j)'
      BY <1>1, <2>2 DEF Learns, LearnsAt
    <3>2. PICK j : Become(r, j) /\ LateJob(j)'
      BY <3>1
    <3>3. job \in [Proc -> Job]
      BY MoneyTypes DEF JobT
    <3>4. s = r /\ job'[s] = j
      BY <2>2, <3>2, <3>3 DEF Become
    <3> QED
      BY <3>2, <3>4 DEF LateJob, Declined
  <2> QED
    BY <2>1, <2>2
<1> QED
  BY <1>1, <1>2, <1>3, <1>4 DEF LateInv

(* What the handlers and Stripe know of each other's payments. *)
THEOREM PaymentsLate == Spec => []LateInv
<1>1. Init => LateInv
  <2> SUFFICES ASSUME Init PROVE LateInv
    OBVIOUS
  <2>1. \A p \in Pay : CashRow(p) /\ HoldRow(p) /\ OnHold(p)
    BY DEF Init, CashRow, HoldRow, OnHold, NoRow
  <2>2. \A r \in Proc : LateJob(job[r])
    BY PcIs DEF Init, LateJob
  <2> QED
    BY <2>1, <2>2 DEF Init, LateInv
<1>2. MoneyInv /\ LateInv /\ [Next]_vars => LateInv'
  <2>1. ASSUME MoneyInv, LateInv, UNCHANGED vars PROVE LateInv'
    <3>1. row' = row /\ UNCHANGED <<pi, cs, sent, job>>
      BY <2>1 DEF vars, table, stripe
    <3> QED
      BY <2>1, <3>1 DEF LateInv, CashRow, HoldRow, OnHold, LateJob, Declined
  <2> QED
    BY <2>1, LateStep
<1> QED
  BY <1>1, <1>2, PaymentsMoney, PTL DEF Spec

(***************************************************************************)
(* payments/service.py, payments/guarantee.py: no interleaving of handlers *)
(* takes money out of the books, but for the two writes that rest on an    *)
(* older read.                                                             *)
(***************************************************************************)
THEOREM PaymentsCollectedStays == Spec => CollectedStays
<1>1. MoneyInv /\ LateInv /\ [Next]_vars
      => [\A p \in Pay : Collected(row[p].status) /\ ~Declined(p) /\ ~Releasing(p)
                         => Collected(row'[p].status)]_vars
  BY LateStep DEF RowsStay, Stays
<1> QED
  BY <1>1, PaymentsMoney, PaymentsLate, PTL DEF Spec, CollectedStays

-----------------------------------------------------------------------------
(* No sale is forgotten.  The event's mark moves only with the handler      *)
(* that takes the event in hand, and a handler in the middle of its work   *)
(* is moved only by its own steps.                                         *)
LEMMA MarkStep ==
    ASSUME Step
    PROVE  /\ processed' = processed \/ \E r \in Proc, e \in sent \ processed : handle_webhook(r, e)
           /\ crashes' = crashes \/ crashes' = crashes + 1
<1>1. CASE Creation
  BY <1>1 DEF Creation, create_order, create_manual_order, create_intent, create_terminal_intent,
              create_guarantee_intent, NewIntent, create_payment_link
<1>2. CASE Outside
  BY <1>2 DEF Outside, Elapse, PayCard, DeclineCard, HoldExpires, SessionExpires, DashboardCapture, StripeOnly
<1>3. ASSUME NEW done, cancel_stale_pending_orders(done) \/ ExpiryDies(done)
      PROVE  processed' = processed /\ (crashes' = crashes \/ crashes' = crashes + 1)
  BY <1>3 DEF cancel_stale_pending_orders, ExpiryDies
<1>4. ASSUME NEW r \in Proc, Request(r) PROVE processed' = processed /\ crashes' = crashes
  BY <1>4 DEF Request, confirm, settle_guarantee_cash, create_refund, RefundCall, capture_guarantee,
              update_status, Commit, Redeliver, cancel_my_order
<1>5. ASSUME NEW r \in Proc, Die(r) \/ \E p \in Pay : release_guarantee(r, p)
      PROVE  processed' = processed /\ (crashes' = crashes \/ crashes' = crashes + 1)
  BY <1>5 DEF Die, release_guarantee
<1>6. ASSUME NEW r \in Proc, Continue(r) PROVE processed' = processed /\ crashes' = crashes
  <2>1. ASSUME \/ LinkCreated(r) \/ handle_intent_event(r) \/ handle_checkout_completed(r)
               \/ handle_checkout_expired(r) \/ handle_charge_refunded(r) \/ handle_payment_failure(r)
               \/ FailureCommit(r) \/ SaleCommit(r) \/ SaleRefused(r) \/ SaleAbandoned(r) \/ AutoRefundMark(r)
               \/ \E q \in Pay : AutoRefundCall(r, q) \/ CashCommit(r, q)
        PROVE  processed' = processed /\ crashes' = crashes
    BY <2>1 DEF LinkCreated, handle_intent_event, handle_checkout_completed, handle_checkout_expired,
                handle_charge_refunded, handle_payment_failure, FailureCommit, SaleCommit, SaleRefused,
                SaleAbandoned, AutoRefundMark, AutoRefundCall, RefundCall, CashCommit
  <2>2. ASSUME \/ AutoRefundImpossible(r) \/ RefundCommit(r) \/ AutoRefundEnd(r)
               \/ GuaranteeSkipped(r) \/ sync_external_capture(r)
               \/ GuaranteeCommit(r) \/ GuaranteeRefused(r) \/ AutoReleaseCall(r) \/ AutoReleaseEnd(r)
               \/ CaptureCommit(r) \/ ReleaseCommit(r) \/ ReleaseAbsorbed(r)
               \/ CustomerCancel(r) \/ RedeliverCommit(r)
        PROVE  processed' = processed /\ crashes' = crashes
    BY <2>2 DEF AutoRefundImpossible, RefundCommit, AutoRefundEnd, GuaranteeSkipped, sync_external_capture,
                GuaranteeCommit, GuaranteeRefused, AutoReleaseCall, AutoReleaseEnd, CaptureCommit,
                ReleaseCommit, ReleaseAbsorbed, CustomerCancel, Commit, RedeliverCommit
  <2> QED
    BY <1>6, <2>1, <2>2 DEF Continue
<1>7. ASSUME NEW r \in Proc, NEW e, handle_webhook(r, e) PROVE crashes' = crashes
  BY <1>7 DEF handle_webhook
<1> QED
  BY <1>1, <1>2, <1>3, <1>4, <1>5, <1>6, <1>7 DEF Step, Worker, Deliver

LEMMA MoverStep ==
    ASSUME MoneyInv, LateInv, Step, NEW r \in Proc, job[r].pc \notin {"idle", "trailing"}, job'[r] # job[r]
    PROVE  Continue(r) \/ Die(r)
<1>0. job[r] # Idle
  BY IdleIs
<1>1. ASSUME NEW s \in Proc, \E j : Become(s, j) PROVE s = r
  <2>1. job \in [Proc -> Job]
    BY MoneyTypes DEF JobT
  <2> QED
    BY <1>1, <2>1 DEF Become
<1>2. ~Creation
  <2>1. ASSUME NEW p \in Pay, NEW s \in Proc, NEW purpose, create_payment_link(s, p, purpose) PROVE FALSE
    BY <1>0, <1>1, <2>1 DEF create_payment_link
  <2>2. ASSUME create_order \/ \E p \in Pay : \/ create_intent(p) \/ create_terminal_intent(p)
                                              \/ create_guarantee_intent(p) \/ create_manual_order(p)
        PROVE  FALSE
    BY <2>2 DEF create_order, create_intent, create_terminal_intent, create_guarantee_intent, NewIntent,
                create_manual_order
  <2> QED
    BY <2>1, <2>2 DEF Creation
<1>3. ~Outside
  BY DEF Outside, Elapse, PayCard, DeclineCard, HoldExpires, SessionExpires, DashboardCapture, StripeOnly
<1>4. ASSUME NEW done, cancel_stale_pending_orders(done) \/ ExpiryDies(done) PROVE FALSE
  BY <1>4 DEF cancel_stale_pending_orders, ExpiryDies
<1>5. ASSUME NEW s \in Proc, Request(s) \/ Deliver(s) PROVE FALSE
  <2>1. s = r
    BY <1>1, <1>5, LearnsRequest DEF LearnsAt
  <2> QED
    BY <1>0, <1>5, <2>1
    DEF Request, Deliver, confirm, settle_guarantee_cash, create_refund, capture_guarantee, update_status,
        Redeliver, cancel_my_order, handle_webhook
<1>6. ASSUME NEW s \in Proc, NEW p \in Pay, release_guarantee(s, p) PROVE FALSE
  <2>1. s = r
    BY <1>1, <1>6 DEF release_guarantee
  <2> QED
    BY <1>0, <1>6, <2>1 DEF release_guarantee
<1>7. ASSUME NEW s \in Proc, Continue(s) PROVE s = r
  BY <1>1, <1>7, LearnsContinue DEF LearnsAt
<1>8. ASSUME NEW s \in Proc, Die(s) PROVE s = r
  BY <1>1, <1>8 DEF Die, Done
<1> QED
  BY <1>2, <1>3, <1>4, <1>5, <1>6, <1>7, <1>8 DEF Step, Worker

(* A handler that has a collected sale in hand books it or keeps it. *)
Holds(j, p) == /\ j.p = p
               /\ \/ j.pc \in {"sale", "auto"}
                  \/ j.pc = "event" /\ j.doc = "succeeded"

LEMMA HandStep ==
    ASSUME MoneyInv, LateInv, NEW r \in Proc, Continue(r), "expired_read" \notin entry,
           NEW p \in Pay, Holds(job[r], p), Unbooked(p)
    PROVE  Collected(row'[p].status) \/ Holds(job'[r], p)
<1>0. row \in [Pay -> Row] /\ job \in [Proc -> Job]
  BY MoneyTypes DEF TableT, JobT
<1>w. Collected("paid")
  BY DEF Collected
<1>1. CASE job[r].pc = "event" /\ job[r].doc = "succeeded"
  <2>1. handle_intent_event(r)
    BY <1>1
    DEF Continue, LinkCreated, handle_checkout_completed, handle_checkout_expired, handle_charge_refunded,
        handle_payment_failure, Handling, FailureCommit, SaleCommit, SaleRefused, SaleAbandoned,
        AutoRefundMark, AutoRefundCall, CashCommit, AutoRefundImpossible, RefundCommit, AutoRefundEnd,
        GuaranteeSkipped, Finalizable, sync_external_capture, GuaranteeCommit, GuaranteeRefused,
        AutoReleaseCall, AutoReleaseEnd, CaptureCommit, ReleaseCommit, ReleaseAbsorbed, CustomerCancel,
        RedeliverCommit
  <2>2. ReadSale(r, p)
    BY <2>1 DEF handle_intent_event, Holds, Unbooked
  <2>3. Become(r, Saw("sale", p, status, ""))
    BY <2>2 DEF ReadSale, Unbooked, Collected
  <2>4. PICK s, d : Become(r, Saw("sale", p, s, d))
    BY <2>3
  <2>5. PICK j : Become(r, j) /\ j.pc = "sale" /\ j.p = p
    BY <2>4, JobSaw
  <2>6. job'[r] = j
    BY <1>0, <2>5 DEF Become
  <2>7. Holds(job'[r], p)
    BY <2>5, <2>6 DEF Holds
  <2> QED
    BY <2>7
<1>2. CASE job[r].pc = "sale"
  <2>1. SaleCommit(r) \/ SaleRefused(r) \/ SaleAbandoned(r)
    BY <1>2
    DEF Continue, LinkCreated, handle_intent_event, handle_checkout_completed, handle_checkout_expired,
        handle_charge_refunded, handle_payment_failure, Handling, FailureCommit,
        AutoRefundMark, AutoRefundCall, CashCommit, AutoRefundImpossible, RefundCommit, AutoRefundEnd,
        GuaranteeSkipped, Finalizable, sync_external_capture, GuaranteeCommit, GuaranteeRefused,
        AutoReleaseCall, AutoReleaseEnd, CaptureCommit, ReleaseCommit, ReleaseAbsorbed, CustomerCancel,
        RedeliverCommit
  <2>2. CASE SaleCommit(r)
    <3>1. row' = [row EXCEPT ![p].status = "paid", ![p].ref = "pi"]
      BY <2>2 DEF SaleCommit, SalePaid, IntentSucceeded, Holds, Unbooked
    <3>2. row'[p].status = "paid"
      BY <1>0, <3>1 DEF Row
    <3> QED
      BY <1>w, <3>2
  <2>3. CASE SaleRefused(r)
    <3>1. Become(r, At("auto", p))
      BY <2>3 DEF SaleRefused, Holds
    <3>2. PICK j : Become(r, j) /\ j.pc = "auto" /\ j.p = p
      BY <3>1, JobAt
    <3>3. job'[r] = j
      BY <1>0, <3>2 DEF Become
    <3>4. Holds(job'[r], p)
      BY <3>2, <3>3 DEF Holds
    <3> QED
      BY <3>4
  <2> QED
    BY <2>1, <2>2, <2>3 DEF SaleAbandoned
<1>3. CASE job[r].pc = "auto"
  <2>1. AutoRefundMark(r)
    BY <1>3
    DEF Continue, LinkCreated, handle_intent_event, handle_checkout_completed, handle_checkout_expired,
        handle_charge_refunded, handle_payment_failure, Handling, FailureCommit, SaleCommit, SaleRefused,
        SaleAbandoned, AutoRefundCall, CashCommit, AutoRefundImpossible, RefundCommit, AutoRefundEnd,
        GuaranteeSkipped, Finalizable, sync_external_capture, GuaranteeCommit, GuaranteeRefused,
        AutoReleaseCall, AutoReleaseEnd, CaptureCommit, ReleaseCommit, ReleaseAbsorbed, CustomerCancel,
        RedeliverCommit
  <2>2. row' = [row EXCEPT ![p].status = "paid"]
    BY <2>1 DEF AutoRefundMark, SetPayment, Holds
  <2>3. row'[p].status = "paid"
    BY <1>0, <2>2 DEF Row
  <2> QED
    BY <1>w, <2>3
<1> QED
  BY <1>1, <1>2, <1>3 DEF Holds

LEMMA CrashStep ==
    ASSUME MoneyInv, Step, crashes' = 0
    PROVE  crashes = 0 /\ \A r \in Proc : ~Die(r)
<1>1. crashes \in Nat
  BY DEF MoneyInv, TypeOK
<1>2. \A r \in Proc : ~Die(r)
  BY <1>1 DEF Die
<1>3. crashes' = crashes \/ crashes' = crashes + 1
  BY MarkStep
<1> QED
  BY <1>1, <1>2, <1>3

LEMMA ForgottenStep ==
    ASSUME MoneyInv, LateInv, NothingForgotten, Next
    PROVE  NothingForgotten'
<1>0. Step /\ entry' = entry /\ Grows
  BY MoneyStep DEF Next, Kept
<1> SUFFICES ASSUME crashes' = 0, entry \cap {"decline", "expired_read"} = {}, NEW p \in Pay, Unbooked(p)'
             PROVE  Emit("succeeded", p, 0) \in sent' \ processed' \/ InHand(p)'
  BY <1>0 DEF NothingForgotten, Undisturbed
<1>1. /\ crashes = 0 /\ \A r \in Proc : ~Die(r)
      /\ RowsStay /\ News
      /\ processed' = processed \/ \E r \in Proc, e \in sent \ processed : handle_webhook(r, e)
  BY <1>0, CrashStep, RowsStep, NewsStep, MarkStep
<1>2. ASSUME NEW r \in Proc, Holds(job'[r], p) PROVE InHand(p)'
  BY <1>2 DEF Holds, InHand
<1>3. row[p].status # "absent" => row'[p].purpose = row[p].purpose
  BY <1>0 DEF Grows
<1>4. CASE pi[p] # "succeeded"
  <2>1. pi'[p] = "succeeded" /\ row'[p].purpose = "sale"
    BY DEF Unbooked
  <2>2. row[p].purpose # "guarantee"
    BY <1>3, <2>1, RefExists
  <2> QED
    BY <1>1, <1>4, <2>1, <2>2 DEF News, Settles
<1>5. CASE pi[p] = "succeeded"
  <2>1. row[p].status # "absent"
    BY <1>5, RefExists
  <2>2. row[p].purpose = "sale" /\ ~Collected(row'[p].status)
    BY <1>3, <2>1 DEF Unbooked
  <2>3. ~Declined(p)
    <3>1. PICK e : e = Emit("payment_failed", p, 0)
      OBVIOUS
    <3>2. e.type = "payment_failed" /\ e.p = p
      BY <3>1 DEF Emit
    <3>3. e \notin sent
      BY <3>2 DEF MoneyInv, Facts, EventFact
    <3> QED
      BY <3>1, <3>3 DEF Declined
  <2>4. ~Releasing(p)
    BY <2>2 DEF Releasing, LateInv, LateJob
  <2>5. Unbooked(p)
    BY <1>1, <1>5, <2>2, <2>3, <2>4 DEF RowsStay, Stays, Unbooked
  <2>6. ASSUME NEW r \in Proc, Holds(job[r], p) PROVE InHand(p)'
    <3>1. CASE job'[r] = job[r]
      BY <1>2, <2>6, <3>1
    <3>2. CASE job'[r] # job[r]
      <4>1. job[r].pc \notin {"idle", "trailing"}
        BY <2>6 DEF Holds
      <4>2. Continue(r)
        BY <1>0, <1>1, <3>2, <4>1, MoverStep
      <4> QED
        BY <1>2, <2>2, <2>5, <2>6, <4>2, HandStep
    <3> QED
      BY <3>1, <3>2
  <2>7. CASE InHand(p)
    <3>1. PICK r \in Proc : Holds(job[r], p)
      BY <2>7 DEF InHand, Holds
    <3> QED
      BY <2>6, <3>1
  <2>8. CASE Emit("succeeded", p, 0) \in sent \ processed
    <3>1. PICK e : e = Emit("succeeded", p, 0)
      OBVIOUS
    <3>2. e \in sent' /\ e \notin processed /\ e.type = "succeeded" /\ e.p = p
      BY <1>1, <2>8, <3>1 DEF News, Emit
    <3>3. CASE e \notin processed'
      BY <3>1, <3>2, <3>3
    <3>4. CASE e \in processed'
      <4>1. PICK r \in Proc, d \in sent \ processed : handle_webhook(r, d)
        BY <1>1, <3>2, <3>4
      <4>2. d = e
        BY <3>2, <3>4, <4>1 DEF handle_webhook
      <4>3. PICK j : j = [At("event", e.p) EXCEPT !.doc = e.type, !.n = e.n]
        OBVIOUS
      <4>4. j.pc = "event" /\ j.doc = "succeeded" /\ j.p = p
        BY <3>2, <4>3 DEF At, Idle
      <4>5. job' = [job EXCEPT ![r] = j] /\ job \in [Proc -> Job]
        BY <4>1, <4>2, <4>3, MoneyTypes DEF handle_webhook, Become, JobT
      <4>6. job'[r] = j
        BY <4>5
      <4>7. Holds(job'[r], p)
        BY <4>4, <4>6 DEF Holds
      <4> QED
        BY <1>2, <4>7
    <3> QED
      BY <3>3, <3>4
  <2> QED
    BY <1>1, <2>5, <2>7, <2>8 DEF NothingForgotten, Undisturbed
<1> QED
  BY <1>4, <1>5

(***************************************************************************)
(* handle_webhook, finalize_payment: while no handler dies, a sale that    *)
(* Stripe collected is in the books, or its event is still to be treated,  *)
(* or a handler is about to book it.                                       *)
(***************************************************************************)
THEOREM PaymentsNothingForgotten == Spec => []NothingForgotten
<1>1. Init => NothingForgotten
  BY DEF Init, NothingForgotten, Unbooked
<1>2. MoneyInv /\ LateInv /\ NothingForgotten /\ [Next]_vars => NothingForgotten'
  <2>1. ASSUME NothingForgotten, UNCHANGED vars PROVE NothingForgotten'
    BY <2>1 DEF NothingForgotten, Undisturbed, Unbooked, InHand, vars, order, table, stripe
  <2> QED
    BY <2>1, ForgottenStep
<1> QED
  BY <1>1, <1>2, PaymentsMoney, PaymentsLate, PTL DEF Spec

-----------------------------------------------------------------------------
(* No hold is lost.  Once the books show a hold as authorized no handler   *)
(* takes it out of them, except after a refused attempt of its intent.     *)
LEMMA HeldRow ==
    ASSUME MoneyInv, LateInv, NEW p \in Pay, pi[p] = "hold"
    PROVE  /\ row[p].purpose = "guarantee" /\ row[p].provider # "cash" /\ row[p].status # "absent"
           /\ ~Sold(p) /\ ~Taken(p)
<1>1. OnHold(p) /\ CashRow(p)
  BY DEF LateInv
<1>2. row[p].status # "absent"
  BY RefExists
<1> QED
  BY <1>1, <1>2 DEF OnHold, CashRow, Sold, Taken

(* A hold that is neither taken nor authorized is open to a finalization.  *)
LEMMA HeldOpen ==
    ASSUME MoneyInv, LateInv, NEW p \in Pay, pi[p] = "hold", ~Failed(p), row[p].status # "authorized"
    PROVE  row[p].status \notin SETTLED_STATUSES
<1>1. RowFact(p) /\ ~Taken(p) /\ row[p].purpose = "guarantee"
  BY HeldRow, MoneyTypes
<1> QED
  BY <1>1 DEF RowFact, Collected, SETTLED_STATUSES

Shown(p) == row[p].status = "authorized"

LEMMA ShownEvents ==
    ASSUME MoneyInv, LateInv, NEW p \in Pay, pi[p] = "hold", ~Failed(p), Shown(p),
           NEW r \in Proc
    PROVE  \/ handle_checkout_completed(r) \/ handle_checkout_expired(r)
           \/ handle_charge_refunded(r) \/ LinkCreated(r)
           => Shown(p)'
<1>0. row \in [Pay -> Row] /\ ~Taken(p)
  BY HeldRow, MoneyTypes DEF TableT
<1>1. ASSUME handle_checkout_completed(r) \/ LinkCreated(r) PROVE Shown(p)'
  <2>1. \/ row' = row \/ row' = [row EXCEPT ![job[r].p].ref = "pi"] \/ row' = [row EXCEPT ![job[r].p].ref = "cs"]
    BY <1>1 DEF handle_checkout_completed, LinkCreated
  <2> QED
    BY <1>0, <2>1 DEF Shown, Row
<1>2. ASSUME handle_checkout_expired(r) PROVE Shown(p)'
  BY <1>0, <1>2 DEF handle_checkout_expired, Shown, Row
<1>3. ASSUME handle_charge_refunded(r) PROVE Shown(p)'
  <2>1. Taken(job[r].p)
    BY <1>3, MoneyTypes DEF handle_charge_refunded, Handling, JobFact, EventFact
  <2> QED
    BY <1>0, <1>3, <2>1 DEF handle_charge_refunded, Shown
<1> QED
  BY <1>1, <1>2, <1>3

LEMMA ShownSales ==
    ASSUME MoneyInv, LateInv, NEW p \in Pay, pi[p] = "hold", ~Failed(p), Shown(p),
           NEW r \in Proc
    PROVE  SaleCommit(r) \/ AutoRefundMark(r) \/ AutoRefundEnd(r) \/ RefundCommit(r) => Shown(p)'
<1>0. row \in [Pay -> Row] /\ ~Taken(p) /\ ~Sold(p)
  BY HeldRow, MoneyTypes DEF TableT
<1>1. ASSUME SaleCommit(r) \/ AutoRefundMark(r) \/ AutoRefundEnd(r) PROVE Shown(p)'
  <2>1. Sold(job[r].p)
    BY <1>1, MoneyTypes DEF SaleCommit, AutoRefundMark, AutoRefundEnd, JobFact, Refunding
  <2> QED
    BY <1>0, <1>1, <2>1 DEF SaleCommit, SalePaid, AutoRefundMark, AutoRefundEnd, SetPayment, Shown
<1>2. ASSUME RefundCommit(r) PROVE Shown(p)'
  <2>1. Taken(job[r].q)
    BY <1>2, MoneyTypes DEF RefundCommit, JobFact
  <2> QED
    BY <1>0, <1>2, <2>1 DEF RefundCommit, SetPayment, table, Shown
<1> QED
  BY <1>1, <1>2

LEMMA ShownHolds ==
    ASSUME MoneyInv, LateInv, NEW p \in Pay, pi[p] = "hold", ~Failed(p), Shown(p),
           NEW r \in Proc
    PROVE  \/ FailureCommit(r) \/ sync_external_capture(r) \/ GuaranteeCommit(r)
           \/ AutoReleaseEnd(r) \/ CaptureCommit(r) \/ ReleaseCommit(r)
           \/ (\E q \in Pay : CashCommit(r, q))
           => Shown(p)'
<1>0. row \in [Pay -> Row] /\ JobFact(job[r]) /\ row[p].status # "absent"
  BY HeldRow, MoneyTypes DEF TableT
<1>1. ASSUME FailureCommit(r) PROVE Shown(p)'
  <2>1. job[r].p # p
    BY <1>0, <1>1 DEF FailureCommit, JobFact
  <2> QED
    BY <1>0, <1>1, <2>1 DEF FailureCommit, SetPayment, Shown
<1>2. ASSUME sync_external_capture(r) PROVE Shown(p)'
  <2>1. job[r].p # p
    BY <1>2 DEF sync_external_capture, Finalizable, SETTLED_STATUSES, Shown
  <2> QED
    BY <1>0, <1>2, <2>1 DEF sync_external_capture, Shown
<1>3. ASSUME GuaranteeCommit(r) PROVE Shown(p)'
  <2>1. job[r].p # p
    BY <1>3 DEF GuaranteeCommit, Finalizable, SETTLED_STATUSES, Shown
  <2> QED
    BY <1>0, <1>3, <2>1 DEF GuaranteeCommit, Shown
<1>4. ASSUME AutoReleaseEnd(r) PROVE Shown(p)'
  <2>1. CASE job[r].p # p
    BY <1>0, <1>4, <2>1 DEF AutoReleaseEnd, SetPayment, Shown
  <2>2. CASE job[r].p = p
    <3>1. job[r].doc = "authorized"
      BY <1>0, <1>4, <2>2 DEF AutoReleaseEnd, JobFact
    <3>2. PICK s : s = Written(job[r].seen, job[r].doc, row[p].status)
      OBVIOUS
    <3>3. s = "authorized"
      BY <3>1, <3>2 DEF Written, Shown
    <3>4. row' = [row EXCEPT ![p].status = s]
      BY <1>4, <2>2, <3>2 DEF AutoReleaseEnd, SetPayment
    <3> QED
      BY <1>0, <3>3, <3>4 DEF Shown, Row
  <2> QED
    BY <2>1, <2>2
<1>5. ASSUME CaptureCommit(r) PROVE Shown(p)'
  <2>1. job[r].p # p
    BY <1>0, <1>5 DEF CaptureCommit, JobFact
  <2> QED
    BY <1>0, <1>5, <2>1 DEF CaptureCommit, Shown
<1>6. ASSUME ReleaseCommit(r) PROVE Shown(p)'
  <2>1. job[r].p # p
    BY <1>0, <1>6 DEF ReleaseCommit, JobFact
  <2> QED
    BY <1>0, <1>6, <2>1 DEF ReleaseCommit, SetPayment, Shown
<1>7. ASSUME NEW q \in Pay, CashCommit(r, q) PROVE Shown(p)'
  <2>1. job[r].p # p /\ q # p
    BY <1>0, <1>7 DEF CashCommit, Fresh, JobFact
  <2> QED
    BY <1>0, <1>7, <2>1 DEF CashCommit, Shown
<1> QED
  BY <1>1, <1>2, <1>3, <1>4, <1>5, <1>6, <1>7

LEMMA ShownStep ==
    ASSUME MoneyInv, LateInv, Step, NEW p \in Pay, pi[p] = "hold", ~Failed(p), Shown(p)
    PROVE  Shown(p)'
<1>0. row \in [Pay -> Row] /\ row[p].status # "absent"
  BY HeldRow, MoneyTypes DEF TableT
<1>s. ASSUME row' = row PROVE Shown(p)'
  BY <1>s DEF Shown
<1>1. CASE Creation
  <2>1. ASSUME NEW q \in Pay, \/ create_intent(q) \/ create_terminal_intent(q) \/ create_guarantee_intent(q)
                              \/ create_manual_order(q)
        PROVE  Shown(p)'
    <3>1. q # p /\ \A x \in Pay : x # q => row'[x] = row[x]
      BY <1>0, <2>1 DEF create_intent, create_terminal_intent, create_guarantee_intent, NewIntent,
                        create_manual_order, Fresh, Insert
    <3> QED
      BY <3>1 DEF Shown
  <2>2. ASSUME NEW r \in Proc, NEW q \in Pay, NEW purpose, create_payment_link(r, q, purpose)
        PROVE  Shown(p)'
    <3>1. q # p
      BY <1>0, <2>2 DEF create_payment_link, Fresh
    <3>2. row'[p] = row[p]
      BY <2>2, <3>1 DEF create_payment_link, Shown
    <3> QED
      BY <3>2 DEF Shown
  <2> QED
    BY <1>1, <1>s, <2>1, <2>2 DEF Creation, create_order, table
<1>2. CASE Outside
  BY <1>2, <1>s DEF Outside, Elapse, PayCard, DeclineCard, HoldExpires, SessionExpires, DashboardCapture,
                    StripeOnly, table
<1>3. ASSUME NEW done, cancel_stale_pending_orders(done) \/ ExpiryDies(done) PROVE Shown(p)'
  BY <1>3 DEF cancel_stale_pending_orders, StalePayments, ExpiryDies, table, Shown
<1>4. ASSUME NEW r \in Proc, Request(r) \/ Deliver(r) \/ Die(r) PROVE Shown(p)'
  BY <1>s, <1>4 DEF Request, Deliver, Die, handle_webhook, confirm, settle_guarantee_cash, create_refund,
                    RefundCall, capture_guarantee, update_status, Commit, Redeliver, cancel_my_order, table
<1>5. ASSUME NEW r \in Proc, NEW q \in Pay, release_guarantee(r, q) PROVE Shown(p)'
  BY <1>s, <1>5 DEF release_guarantee, table
<1>6. ASSUME NEW r \in Proc, Continue(r) PROVE Shown(p)'
  <2>1. ASSUME \/ handle_intent_event(r) \/ handle_payment_failure(r) \/ SaleRefused(r) \/ SaleAbandoned(r)
               \/ AutoRefundImpossible(r) \/ GuaranteeSkipped(r) \/ GuaranteeRefused(r) \/ AutoReleaseCall(r)
               \/ ReleaseAbsorbed(r) \/ CustomerCancel(r) \/ RedeliverCommit(r)
               \/ \E q \in Pay : AutoRefundCall(r, q)
        PROVE  Shown(p)'
    BY <1>s, <2>1 DEF handle_intent_event, handle_payment_failure, SaleRefused, SaleAbandoned,
                      AutoRefundImpossible, GuaranteeSkipped, GuaranteeRefused, AutoReleaseCall,
                      ReleaseAbsorbed, CustomerCancel, Commit, RedeliverCommit, AutoRefundCall, RefundCall, table
  <2> QED
    BY <1>6, <2>1, ShownEvents, ShownSales, ShownHolds DEF Continue
<1> QED
  BY <1>1, <1>2, <1>3, <1>4, <1>5, <1>6 DEF Step, Worker

(* A handler that has a hold in hand; one that lets a confirmation go read *)
(* the row before it was authorized.                                       *)
HoldsFor(j, p) ==
    /\ j.p = p
    /\ \/ j.pc = "event" /\ j.doc = "capturable"
       \/ j.pc = "guar" /\ j.doc \in {"hold", "verify"}
       \/ j.pc = "autorel" /\ j.seen # "authorized"
       \/ j.pc = "relend" /\ j.doc = "authorized" /\ j.seen # "authorized"

LEMMA SawWhole ==
    ASSUME MoneyInv, NEW r \in Proc, NEW pc, NEW p, NEW s, NEW d, Become(r, Saw(pc, p, s, d))
    PROVE  job'[r].pc = pc /\ job'[r].p = p /\ job'[r].seen = s /\ job'[r].doc = d
<1>1. PICK j : j = Saw(pc, p, s, d)
  OBVIOUS
<1>2. j.pc = pc /\ j.p = p /\ j.seen = s /\ j.doc = d
  BY <1>1 DEF Saw, At, Idle
<1>3. job'[r] = j
  BY <1>1, MoneyTypes DEF Become, JobT
<1> QED
  BY <1>2, <1>3

LEMMA HoldHandStep ==
    ASSUME MoneyInv, LateInv, NEW r \in Proc, Continue(r),
           NEW p \in Pay, HoldsFor(job[r], p), pi[p] = "hold", ~Failed(p), ~Shown(p)
    PROVE  Shown(p)' \/ HoldsFor(job'[r], p) \/ pi'[p] # "hold"
<1>0. row \in [Pay -> Row] /\ job \in [Proc -> Job] /\ pi \in [Pay -> IntentStatus]
  BY MoneyTypes DEF TableT, JobT, StripeT
<1>f. row[p].status \notin SETTLED_STATUSES /\ row[p].purpose = "guarantee" /\ job[r].p = p
  BY HeldOpen, HeldRow DEF HoldsFor, Shown
<1>1. CASE job[r].pc = "event" /\ job[r].doc = "capturable"
  <2>1. handle_intent_event(r)
    BY <1>1
    DEF Continue, LinkCreated, handle_checkout_completed, handle_checkout_expired, handle_charge_refunded,
        handle_payment_failure, Handling, FailureCommit, SaleCommit, SaleRefused, SaleAbandoned,
        AutoRefundMark, AutoRefundCall, CashCommit, AutoRefundImpossible, RefundCommit, AutoRefundEnd,
        GuaranteeSkipped, Finalizable, sync_external_capture, GuaranteeCommit, GuaranteeRefused,
        AutoReleaseCall, AutoReleaseEnd, CaptureCommit, ReleaseCommit, ReleaseAbsorbed, CustomerCancel,
        RedeliverCommit
  <2>2. Become(r, Saw("guar", p, status, "hold"))
    BY <1>1, <1>f, <2>1 DEF handle_intent_event, ReadGuarantee
  <2>3. PICK s, d : Become(r, Saw("guar", p, s, d)) /\ d = "hold"
    BY <2>2
  <2> QED
    BY <2>3, SawWhole DEF HoldsFor
<1>2. CASE job[r].pc = "guar" /\ job[r].doc \in {"hold", "verify"}
  <2>1. GuaranteeSkipped(r) \/ sync_external_capture(r) \/ GuaranteeCommit(r) \/ GuaranteeRefused(r)
    BY <1>2
    DEF Continue, LinkCreated, handle_intent_event, handle_checkout_completed, handle_checkout_expired,
        handle_charge_refunded, handle_payment_failure, Handling, FailureCommit, SaleCommit, SaleRefused,
        SaleAbandoned, AutoRefundMark, AutoRefundCall, CashCommit, AutoRefundImpossible, RefundCommit,
        AutoRefundEnd, AutoReleaseCall, AutoReleaseEnd, CaptureCommit, ReleaseCommit, ReleaseAbsorbed,
        CustomerCancel, RedeliverCommit
  <2>2. Intent(r) = "hold"
    BY <1>2, <1>f DEF Intent
  <2>3. ~GuaranteeSkipped(r) /\ ~sync_external_capture(r)
    BY <1>f, <2>2 DEF GuaranteeSkipped, sync_external_capture, Finalizable
  <2>4. CASE GuaranteeCommit(r)
    <3>1. row' = [row EXCEPT ![p].status = "authorized", ![p].ref = "pi"]
      BY <1>f, <2>4 DEF GuaranteeCommit
    <3> QED
      BY <1>0, <3>1 DEF Shown, Row
  <2>5. CASE GuaranteeRefused(r)
    <3>1. Become(r, Saw("autorel", p, row[p].status, ""))
      BY <1>f, <2>5 DEF GuaranteeRefused
    <3>2. row[p].status # "authorized"
      BY DEF Shown
    <3>3. PICK s, d : Become(r, Saw("autorel", p, s, d)) /\ s # "authorized"
      BY <3>1, <3>2
    <3> QED
      BY <3>3, SawWhole DEF HoldsFor
  <2> QED
    BY <2>1, <2>3, <2>4, <2>5
<1>3. CASE job[r].pc = "autorel" /\ job[r].seen # "authorized"
  <2>1. AutoReleaseCall(r)
    BY <1>3
    DEF Continue, LinkCreated, handle_intent_event, handle_checkout_completed, handle_checkout_expired,
        handle_charge_refunded, handle_payment_failure, Handling, FailureCommit, SaleCommit, SaleRefused,
        SaleAbandoned, AutoRefundMark, AutoRefundCall, CashCommit, AutoRefundImpossible, RefundCommit,
        AutoRefundEnd, GuaranteeSkipped, Finalizable, sync_external_capture, GuaranteeCommit,
        GuaranteeRefused, AutoReleaseEnd, CaptureCommit, ReleaseCommit, ReleaseAbsorbed, CustomerCancel,
        RedeliverCommit
  <2>2. CASE CancelIntent(job[r].p)
    BY <1>0, <1>f, <2>2 DEF CancelIntent
  <2>3. CASE Become(r, [job[r] EXCEPT !.pc = "relend", !.doc = "authorized"])
    <3>1. job'[r] = [job[r] EXCEPT !.pc = "relend", !.doc = "authorized"] /\ job[r] \in Job
      BY <1>0, <2>3 DEF Become
    <3>2. /\ job'[r].pc = "relend" /\ job'[r].doc = "authorized"
          /\ job'[r].p = job[r].p /\ job'[r].seen = job[r].seen
      BY <3>1 DEF Job
    <3> QED
      BY <1>3, <1>f, <3>2 DEF HoldsFor
  <2> QED
    BY <2>1, <2>2, <2>3 DEF AutoReleaseCall
<1>4. CASE job[r].pc = "relend" /\ job[r].doc = "authorized" /\ job[r].seen # "authorized"
  <2>1. AutoReleaseEnd(r)
    BY <1>4
    DEF Continue, LinkCreated, handle_intent_event, handle_checkout_completed, handle_checkout_expired,
        handle_charge_refunded, handle_payment_failure, Handling, FailureCommit, SaleCommit, SaleRefused,
        SaleAbandoned, AutoRefundMark, AutoRefundCall, CashCommit, AutoRefundImpossible, RefundCommit,
        AutoRefundEnd, GuaranteeSkipped, Finalizable, sync_external_capture, GuaranteeCommit,
        GuaranteeRefused, AutoReleaseCall, CaptureCommit, ReleaseCommit, ReleaseAbsorbed, CustomerCancel,
        RedeliverCommit
  <2>2. PICK s : s = Written(job[r].seen, job[r].doc, row[p].status)
    OBVIOUS
  <2>3. s = "authorized"
    BY <1>4, <2>2 DEF Written
  <2>4. row' = [row EXCEPT ![p].status = s]
    BY <1>f, <2>1, <2>2 DEF AutoReleaseEnd, SetPayment
  <2> QED
    BY <1>0, <2>3, <2>4 DEF Shown, Row
<1> QED
  BY <1>1, <1>2, <1>3, <1>4 DEF HoldsFor

(* What Stripe told of its holds, and where a hold that the books do not   *)
(* show is.                                                                *)
Told      == \A e \in sent : e.type = "capturable" => pi[e.p] \notin {"none", "open"}
Coming(p) == Emit("capturable", p, 0) \in sent \ processed
HoldKept(p) ==
    pi[p] = "hold" /\ ~Shown(p) => Coming(p) \/ Failed(p) \/ \E r \in Proc : HoldsFor(job[r], p)

HoldsInv == Told /\ (crashes = 0 => \A p \in Pay : HoldKept(p))

LEMMA HoldsStep ==
    ASSUME MoneyInv, LateInv, HoldsInv, Next
    PROVE  HoldsInv'
<1>0. Step /\ Grows
  BY MoneyStep DEF Next, Kept
<1>1. /\ News
      /\ processed' = processed \/ \E r \in Proc, e \in sent \ processed : handle_webhook(r, e)
  BY <1>0, NewsStep, MarkStep
<1>2. Told'
  <2> SUFFICES ASSUME NEW e \in sent', e.type = "capturable" PROVE pi'[e.p] \notin {"none", "open"}
    BY DEF Told
  <2>1. CASE e \in sent
    <3>1. e.p \in Pay
      BY <2>1 DEF MoneyInv, TypeOK, Event
    <3>2. pi[e.p] \notin {"none", "open"}
      BY <2>1 DEF HoldsInv, Told
    <3> QED
      BY <1>1, <3>1, <3>2 DEF News, Grants
  <2>2. CASE e \notin sent
    BY <1>1, <2>2 DEF News, Granted
  <2> QED
    BY <2>1, <2>2
<1>3. ASSUME crashes' = 0, NEW p \in Pay, pi'[p] = "hold", ~Shown(p)', ~Failed(p)'
      PROVE  Coming(p)' \/ \E r \in Proc : HoldsFor(job'[r], p)
  <2>1. crashes = 0 /\ (\A r \in Proc : ~Die(r)) /\ ~Failed(p)
    BY <1>0, <1>3, CrashStep, FailedGrows
  <2>2. CASE pi[p] # "hold"
    <3>1. pi[p] \in {"none", "open"} /\ Emit("capturable", p, 0) \in sent' /\ processed' = processed
      BY <1>1, <1>3, <2>2 DEF News, Grants
    <3>2. Emit("capturable", p, 0) \notin processed
      <4>1. PICK e : e = Emit("capturable", p, 0)
        OBVIOUS
      <4>2. e.type = "capturable" /\ e.p = p
        BY <4>1 DEF Emit
      <4>3. e \notin sent
        BY <3>1, <4>2 DEF HoldsInv, Told
      <4> QED
        BY <4>1, <4>3 DEF MoneyInv, TypeOK
    <3> QED
      BY <3>1, <3>2 DEF Coming
  <2>3. CASE pi[p] = "hold"
    <3>1. ~Shown(p)
      BY <1>0, <1>3, <2>1, <2>3, ShownStep
    <3>2. ASSUME NEW r \in Proc, HoldsFor(job[r], p) PROVE HoldsFor(job'[r], p)
      <4>1. CASE job'[r] = job[r]
        BY <3>2, <4>1
      <4>2. CASE job'[r] # job[r]
        <5>1. job[r].pc \notin {"idle", "trailing"}
          BY <3>2 DEF HoldsFor
        <5>2. Continue(r)
          BY <1>0, <2>1, <4>2, <5>1, MoverStep
        <5> QED
          BY <1>3, <2>1, <2>3, <3>1, <3>2, <5>2, HoldHandStep
      <4> QED
        BY <4>1, <4>2
    <3>3. ASSUME Coming(p) PROVE Coming(p)' \/ \E r \in Proc : HoldsFor(job'[r], p)
      <4>1. PICK e : e = Emit("capturable", p, 0)
        OBVIOUS
      <4>2. e \in sent' /\ e \notin processed /\ e.type = "capturable" /\ e.p = p
        BY <1>1, <3>3, <4>1 DEF News, Emit, Coming
      <4>3. CASE e \notin processed'
        BY <4>1, <4>2, <4>3 DEF Coming
      <4>4. CASE e \in processed'
        <5>1. PICK r \in Proc, d \in sent \ processed : handle_webhook(r, d)
          BY <1>1, <4>2, <4>4
        <5>2. d = e
          BY <4>2, <4>4, <5>1 DEF handle_webhook
        <5>3. PICK j : j = [At("event", e.p) EXCEPT !.doc = e.type, !.n = e.n]
          OBVIOUS
        <5>4. j.pc = "event" /\ j.doc = "capturable" /\ j.p = p
          BY <4>2, <5>3 DEF At, Idle
        <5>5. job' = [job EXCEPT ![r] = j] /\ job \in [Proc -> Job]
          BY <5>1, <5>2, <5>3, MoneyTypes DEF handle_webhook, Become, JobT
        <5>6. job'[r] = j
          BY <5>5
        <5> QED
          BY <5>4, <5>6 DEF HoldsFor
      <4> QED
        BY <4>3, <4>4
    <3> QED
      BY <2>1, <2>3, <3>1, <3>2, <3>3 DEF HoldsInv, HoldKept
  <2> QED
    BY <2>2, <2>3
<1> QED
  BY <1>2, <1>3 DEF HoldsInv, HoldKept

(***************************************************************************)
(* handle_webhook, finalize_guarantee: while no handler dies, a hold that  *)
(* blocks a customer's card is authorized in the books, or its event is    *)
(* still to be treated, or a handler is about to authorize or to release   *)
(* it; or an attempt of its intent was refused.                            *)
(***************************************************************************)
THEOREM PaymentsHoldsKnown == Spec => []HoldsKnown
<1>1. Init => HoldsInv
  BY DEF Init, HoldsInv, Told, HoldKept
<1>2. MoneyInv /\ LateInv /\ HoldsInv /\ [Next]_vars => HoldsInv'
  <2>1. ASSUME HoldsInv, UNCHANGED vars PROVE HoldsInv'
    BY <2>1 DEF HoldsInv, Told, HoldKept, Shown, Coming, Failed, HoldsFor, vars, order, table, stripe
  <2> QED
    BY <2>1, HoldsStep
<1>3. HoldsInv => HoldsKnown
  BY DEF HoldsInv, HoldKept, HoldsKnown, HoldInHand, HoldsFor, Shown, Coming
<1> QED
  BY <1>1, <1>2, <1>3, PaymentsMoney, PaymentsLate, PTL DEF Spec
=============================================================================
