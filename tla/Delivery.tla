------------------------------ MODULE Delivery ------------------------------
(***************************************************************************)
(* The deliveries of one establishment whose orders leave with its own     *)
(* drivers: who takes an order (delivery/dispatch_service.py), what the    *)
(* order's status does to its delivery (delivery/lifecycle.py, called by   *)
(* update_status inside its transaction), the code that proves the hand-   *)
(* over (delivery/proof.py) and the failures an administrator treats       *)
(* (delivery/failures.py).                                                 *)
(*                                                                         *)
(* update_status holds the order's row from its first read to its commit,  *)
(* looks for the live delivery once without a lock (may it leave, is a     *)
(* code needed) and once with one, and reads the driver's runs without     *)
(* any: it is three steps.  The handlers of the drivers check, release     *)
(* their locks and only then call it.  A handler that locks a delivery     *)
(* before the order does both in one step: nothing it read can change      *)
(* while it waits.                                                         *)
(*                                                                         *)
(* Abstractions.  Dispatch is enabled, orders start in preparation and are *)
(* deliveries of the drivers' establishment.  A refusal that depends on    *)
(* what is not kept here (clocking in, waiting time, calls, cash handed    *)
(* over) is one of the ways in which a handler may give up.  What          *)
(* payments/ does in a call is one step here; Payments has its detail.     *)
(***************************************************************************)
EXTENDS Integers, FiniteSets

CONSTANTS
    Order, Driver,
    Deliv, OrderOf,  \* ids of deliveries rows, and the order each is for
    Cap,             \* max_active_deliveries
    MaxFailed,       \* MAX_FAILED_ATTEMPTS
    MaxNonce,        \* bound: codes an order may have had
    Proc,            \* request handlers running at the same time
    Profiles         \* the sets of entry points to look at

ASSUME DelivAssumption == Deliv \subseteq Nat \ {0} /\ OrderOf \in [Deliv -> Order]
ASSUME LimitAssumption == Cap \in Nat /\ MaxFailed \in Nat /\ MaxNonce \in Nat \ {0}
ASSUME FiniteAssumption == /\ IsFiniteSet(Order) /\ IsFiniteSet(Deliv)
                           /\ IsFiniteSet(Proc) /\ Proc # {}

None == 0

VARIABLES
    status, pay,   \* per order: orders.status, orders.payment_status
    refunded,      \* per order: how much of its payment was given back
    nonce,         \* per order: delivery_code_nonce, numbered
    active,        \* per driver: driver_profiles.is_active
    row,           \* the deliveries table
    run,           \* delivery_runs, named by the delivery that opened each
    attempts,      \* per delivery: failed delivery_code_attempts
    failure,       \* per delivery: delivery_failures.status
    job,           \* what each handler is in the middle of
    entry          \* the entry points that this behaviour opens, fixed

table == <<row, run, attempts, failure>>
order == <<status, pay, refunded, nonce>>
vars  == <<status, pay, refunded, nonce, active, row, run, attempts, failure,
           job, entry>>

(* For the constant definitions only. *)
Graph == INSTANCE OrderLifecycle WITH held <- 0

-----------------------------------------------------------------------------
DELIVERY_ACTIVE_STATUSES  == {"assigned", "out_for_delivery", "arrived"}
ASSIGNABLE_ORDER_STATUSES == {"confirmed", "queued", "preparing", "ready"}
EnRoute == {"out_for_delivery", "arrived"}

PayStatus == {"paid", "guaranteed", "guarantee_released", "guarantee_captured"}
Proof     == {"none", "not_required", "code", "admin_override"}

(* A deliveries row; proof and code are the note of its "delivered" event. *)
DelivRow == [status : DELIVERY_ACTIVE_STATUSES
                      \cup {"absent", "delivered", "failed", "cancelled"},
             driver : Driver \cup {None}, run : Deliv \cup {None},
             proof : Proof, code : 0 .. MaxNonce]
NoRow == [status |-> "absent", driver |-> None, run |-> None,
          proof |-> "none", code |-> 0]

(***************************************************************************)
(* A handler between two of its steps: the driver and orders it works on,  *)
(* the order it has locked, the delivery it has locked, the status it will *)
(* write, the proof it brings with the code typed, the payment status it   *)
(* read, the run it read, whether it reports a failure, and its resolution *)
(* of one.                                                                 *)
(***************************************************************************)
Job == [pc : {"idle", "assign", "claim", "depart", "count", "try", "settle",
              "locked", "follow", "resolve", "mark"},
        d : Driver \cup {None}, os : SUBSET Order, o : Order \cup {None},
        x : Deliv \cup {None}, to : Graph!OrderStatus,
        proof : Proof, code : 0 .. MaxNonce, pay : PayStatus,
        run : Deliv \cup {None}, last : BOOLEAN, report : BOOLEAN,
        act : {"refund", "retain", "redeliver"}]

Idle == [pc |-> "idle", d |-> None, os |-> {}, o |-> None, x |-> None,
         to |-> "none", proof |-> "none", code |-> 0, pay |-> "paid",
         run |-> None, last |-> FALSE, report |-> FALSE, act |-> "refund"]

Become(r, j) == job' = [job EXCEPT ![r] = j]

(* A behaviour in which no two handlers overlap. *)
Serial == "serial" \in entry
Alone  == Serial => \A s \in Proc : job[s] = Idle
Start(r) == job[r] = Idle /\ Alone

(* active_delivery *)
LiveRows == {x \in Deliv : row[x].status \in DELIVERY_ACTIVE_STATUSES}
Live(o)  == {x \in LiveRows : OrderOf[x] = o}
(* _active_count *)
LiveOf(d) == {x \in LiveRows : row[x].driver = d}

Free(o)    == {x \in Deliv : OrderOf[x] = o /\ row[x].status = "absent"}
NewRow(o)  == CHOOSE x \in Free(o) : TRUE

(* The row locks.  Mutant: update_status lets go of the order it has read. *)
Unlocked(o) == \E r \in Proc : job[r].pc = "claim" /\ o \in job[r].os
Locked(o) == \E r \in Proc :
    \/ job[r].pc \in {"locked", "follow"} /\ job[r].o = o
    \/ job[r].pc = "claim" /\ o \in job[r].os

RowLocked(x) == \E r \in Proc :
    job[r].pc \in {"locked", "follow"} /\ job[r].x = x

DriverLocked(d) == \E r \in Proc : job[r].pc = "claim" /\ job[r].d = d

-----------------------------------------------------------------------------
(* Who takes an order *)

Assigned(d) == [NoRow EXCEPT !.status = "assigned", !.driver = d]

(* assign reads the driver without a lock ... *)
assign(r, d, os) ==
    /\ "assign" \in entry /\ Start(r)
    /\ active[d] /\ os # {}
    /\ Become(r, [Idle EXCEPT !.pc = "assign", !.d = d, !.os = os])
    /\ UNCHANGED <<order, active, table>>

(* ... then locks the orders, creates or moves their deliveries, all or none. *)
AssignCommit(r) ==
    /\ job[r].pc = "assign"
    /\ \A o \in job[r].os :
         /\ ~Locked(o) /\ status[o] \in ASSIGNABLE_ORDER_STATUSES
         /\ \A x \in Live(o) : row[x].status = "assigned"
         /\ Live(o) = {} => Free(o) # {}
    /\ row' = [x \in Deliv |->
         IF OrderOf[x] \notin job[r].os THEN row[x]
         ELSE IF x \in Live(OrderOf[x])
              THEN [row[x] EXCEPT !.driver = job[r].d]
         ELSE IF Live(OrderOf[x]) = {} /\ x = NewRow(OrderOf[x])
              THEN Assigned(job[r].d)
         ELSE row[x]]
    /\ Become(r, Idle)
    /\ UNCHANGED <<order, active, run, attempts, failure>>

unassign(o) ==
    /\ "unassign" \in entry /\ Alone /\ ~Locked(o)
    /\ \E x \in Live(o) :
         /\ row[x].status = "assigned"
         /\ row' = [row EXCEPT ![x].status = "cancelled"]
    /\ UNCHANGED <<order, active, run, attempts, failure, job>>

(* Counted once the deliveries are added.  Mutant: before. *)
WithinCapBefore(d, os) == Cardinality(LiveOf(d)) <= Cap
WithinCap(d, os) == Cardinality(LiveOf(d)) + Cardinality(os) <= Cap

(* The driver's row, then the orders', stay locked until the commit. *)
claim(r, d, os) ==
    /\ "claim" \in entry /\ Start(r)
    /\ ~DriverLocked(d) /\ active[d] /\ os # {}
    /\ \A o \in os : /\ ~Locked(o) /\ Live(o) = {} /\ Free(o) # {}
                     /\ status[o] \in ASSIGNABLE_ORDER_STATUSES
    /\ WithinCap(d, os)
    /\ Become(r, [Idle EXCEPT !.pc = "claim", !.d = d, !.os = os])
    /\ UNCHANGED <<order, active, table>>

ClaimCommit(r) ==
    /\ job[r].pc = "claim"
    /\ row' = [x \in Deliv |->
         IF OrderOf[x] \in job[r].os /\ x = NewRow(OrderOf[x])
         THEN Assigned(job[r].d) ELSE row[x]]
    /\ Become(r, Idle)
    /\ UNCHANGED <<order, active, run, attempts, failure>>

(* Locks the delivery alone. *)
release(d, x) ==
    /\ "release" \in entry /\ Alone
    /\ active[d] /\ row[x].driver = d /\ row[x].status = "assigned"
    /\ ~RowLocked(x)
    /\ row' = [row EXCEPT ![x].status = "cancelled"]
    /\ UNCHANGED <<order, active, run, attempts, failure, job>>

Busy(d) == LiveOf(d) # {}

update_driver(d, is_active) ==
    /\ "driver" \in entry /\ Alone /\ ~DriverLocked(d)
    /\ active[d] # is_active
    /\ ~is_active => ~Busy(d)
    /\ active' = [active EXCEPT ![d] = is_active]
    /\ UNCHANGED <<order, table, job>>

-----------------------------------------------------------------------------
(* update_status, and the delivery that follows it *)

ensure_driver_for_departure(o) == Live(o) # {}

(* Mutant: only a delivery on the road needs a code. *)
ProofOnTheRoad(o) == "proof" \in entry
                     /\ \E x \in Live(o) : row[x].status \in EnRoute
proof_required_for(o) == "proof" \in entry /\ Live(o) # {}

Follows == {"out_for_delivery", "delivered", "cancelled", "delivery_failed"}

(* Its first step, for handler r that then carries j. *)
Begin(r, j, o, to, proof) ==
    /\ ~Locked(o)
    /\ to \in Follows \cap Graph!VALID_TRANSITIONS[status[o]]
    /\ to = "out_for_delivery" => ensure_driver_for_departure(o)
    /\ to = "delivered" => /\ proof = "none" => ~proof_required_for(o)
                           /\ pay[o] # "guaranteed"
    /\ Become(r, [j EXCEPT !.pc = "locked", !.o = o, !.to = to,
                           !.proof = proof])
    /\ UNCHANGED <<order, active, table>>

(* The runs that a departure of driver d may join. *)
ActiveRuns(d) == {y \in Deliv : run[y] = "active" /\ row[y].driver = d}

(* The other live deliveries of run y.  Mutant: those arrived are done. *)
RemainingMoving(x, y) == {z \in LiveRows \ {x} : row[z].run = y
                                            /\ row[z].status # "arrived"}
Remaining(x, y) == {z \in LiveRows \ {x} : row[z].run = y}

(***************************************************************************)
(* The live delivery is found and locked; a departure finds the driver's   *)
(* run or opens one, an end counts what its run has left.                  *)
(***************************************************************************)
Follow(r) ==
    LET o == job[r].o
    IN /\ job[r].pc = "locked"
       /\ \/ /\ Live(o) = {}
             /\ Become(r, [job[r] EXCEPT !.pc = "follow", !.x = None])
          \/ \E x \in Live(o) :
               \/ /\ job[r].to = "out_for_delivery"
                  /\ \E y \in IF ActiveRuns(row[x].driver) = {} THEN {x}
                              ELSE ActiveRuns(row[x].driver) :
                       Become(r, [job[r] EXCEPT !.pc = "follow", !.x = x,
                                                !.run = y])
               \/ /\ job[r].to # "out_for_delivery"
                  /\ Become(r, [job[r] EXCEPT !.pc = "follow", !.x = x,
                         !.run = row[x].run,
                         !.last = Remaining(x, row[x].run) = {}])
       /\ UNCHANGED <<order, active, table>>

(* on_departure, on_delivered, on_order_closed: what the commit writes. *)
RowAfter(j) ==
    CASE j.to = "out_for_delivery" ->
           [row[j.x] EXCEPT !.status = "out_for_delivery", !.run = j.run]
      [] j.to = "delivered" ->
           [row[j.x] EXCEPT !.status = "delivered", !.proof = j.proof,
                            !.code = j.code]
      [] j.to = "delivery_failed" -> [row[j.x] EXCEPT !.status = "failed"]
      [] OTHER -> [row[j.x] EXCEPT !.status = "cancelled"]

RunAfter(j) ==
    CASE j.to = "out_for_delivery" /\ j.run = j.x -> "active"
      [] j.to # "out_for_delivery" /\ j.last      -> "completed"
      [] OTHER                                    -> run[j.run]

(* The failure reported is written in the same transaction. *)
FailureAfter(j) == IF j.report THEN [failure EXCEPT ![j.x] = "pending"]
                   ELSE failure

(***************************************************************************)
(* The commit.  A cancelled order then tries to free its hold, once.  A    *)
(* departure goes on with the driver's other orders.                       *)
(***************************************************************************)
StatusCommit(r) ==
    LET j == job[r]
    IN /\ j.pc = "follow"
       /\ status' = [status EXCEPT ![j.o] = j.to]
       /\ IF j.x = None THEN UNCHANGED <<row, run>>
          ELSE /\ row' = [row EXCEPT ![j.x] = RowAfter(j)]
               /\ run' = IF j.run = None THEN run
                         ELSE [run EXCEPT ![j.run] = RunAfter(j)]
       /\ failure' = FailureAfter(j)
       /\ \/ UNCHANGED pay
          \/ /\ j.to = "cancelled" /\ pay[j.o] = "guaranteed"
             /\ pay' = [pay EXCEPT ![j.o] = "guarantee_released"]
       /\ Become(r, IF j.os = {} THEN Idle
                    ELSE [Idle EXCEPT !.pc = "depart", !.d = j.d, !.os = j.os])
       /\ UNCHANGED <<refunded, nonce, active, attempts>>

(* The counter or the kitchen, through PATCH /orders/{id}/status ... *)
patch_status(r, o, to) ==
    /\ to \in entry /\ Start(r)
    /\ Begin(r, Idle, o, to, "none")

(* ... a status no delivery follows, and the station that reopens an order. *)
Advance(o) ==
    /\ Alone /\ ~Locked(o)
    /\ \/ status[o] = "preparing" /\ status' = [status EXCEPT ![o] = "ready"]
       \/ /\ "reopen" \in entry /\ status[o] = "ready"
          /\ status' = [status EXCEPT ![o] = "preparing"]
    /\ UNCHANGED <<pay, refunded, nonce, active, table, job>>

-----------------------------------------------------------------------------
(* On the road *)

(* _own_delivery, for a driver who may still log in. *)
Own(d, x) == active[d] /\ row[x].driver = d /\ ~RowLocked(x)

(* Checks every delivery, lets go of the locks ... *)
driver_depart(r, d, xs) ==
    /\ "depart" \in entry /\ Start(r) /\ xs # {}
    /\ \A x \in xs : /\ Own(d, x) /\ row[x].status = "assigned"
                     /\ status[OrderOf[x]] = "ready"
    /\ Become(r, [Idle EXCEPT !.pc = "depart", !.d = d,
                              !.os = {OrderOf[x] : x \in xs}])
    /\ UNCHANGED <<order, active, table>>

(* ... and sends the orders off one after the other. *)
Depart(r, o) ==
    /\ job[r].pc = "depart" /\ o \in job[r].os
    /\ Begin(r, [job[r] EXCEPT !.os = @ \ {o}], o, "out_for_delivery", "none")

driver_arrived(d, x) ==
    /\ "arrived" \in entry /\ Alone
    /\ Own(d, x) /\ row[x].status = "out_for_delivery"
    /\ row' = [row EXCEPT ![x].status = "arrived"]
    /\ UNCHANGED <<order, active, run, attempts, failure, job>>

(* The driver types a code (0: a wrong one), or none where none is needed. *)
driver_deliver(r, d, x, code) ==
    /\ "deliver" \in entry /\ Start(r)
    /\ Own(d, x) /\ row[x].status \in EnRoute /\ ~Locked(OrderOf[x])
    /\ code <= nonce[OrderOf[x]]
    /\ \E pc \in IF "proof" \in entry THEN {"count"} ELSE {"count", "settle"} :
         Become(r, [Idle EXCEPT !.pc = pc, !.d = d, !.x = x,
                      !.o = OrderOf[x], !.pay = pay[OrderOf[x]],
                      !.proof = "not_required",
                      !.code = IF pc = "count" THEN code ELSE 0])
    /\ UNCHANGED <<order, active, table>>

(* verify_code counts the failed attempts.  Mutant: one too many. *)
MayTryOnceMore(x) == attempts[x] <= MaxFailed
MayTry(x) == attempts[x] < MaxFailed

Count(r) ==
    /\ job[r].pc = "count" /\ MayTry(job[r].x)
    /\ Become(r, [job[r] EXCEPT !.pc = "try"])
    /\ UNCHANGED <<order, active, table>>

(* The attempt is committed whatever its outcome. *)
Try(r) ==
    /\ job[r].pc = "try"
    /\ IF job[r].code = nonce[job[r].o]
       THEN /\ Become(r, [job[r] EXCEPT !.pc = "settle", !.proof = "code"])
            /\ UNCHANGED attempts
       ELSE /\ Become(r, Idle)
            /\ attempts' = [attempts EXCEPT ![job[r].x] = @ + 1]
    /\ UNCHANGED <<order, active, row, run, failure>>

(* settle_guarantee_cash, when the payment was a hold ... *)
Settle(r) ==
    /\ job[r].pc = "settle" /\ job[r].pay = "guaranteed"
    /\ ~Locked(job[r].o) /\ pay[job[r].o] = "guaranteed"
    /\ pay' = [pay EXCEPT ![job[r].o] = "paid"]
    /\ Become(r, [job[r] EXCEPT !.pay = "paid"])
    /\ UNCHANGED <<status, refunded, nonce, active, table>>

(* ... then the order is delivered. *)
HandOver(r) ==
    /\ job[r].pc = "settle" /\ job[r].pay = "paid"
    /\ Begin(r, [job[r] EXCEPT !.x = None], job[r].o, "delivered",
             job[r].proof)

admin_deliver_without_code(r, x) ==
    /\ "override" \in entry /\ Start(r)
    /\ row[x].status \in EnRoute /\ ~RowLocked(x)
    /\ Begin(r, [Idle EXCEPT !.x = x], OrderOf[x], "delivered",
             "admin_override")

report_failure(r, d, x) ==
    /\ "report" \in entry /\ Start(r)
    /\ Own(d, x) /\ row[x].status \in EnRoute
    /\ Begin(r, [Idle EXCEPT !.x = x, !.report = TRUE], OrderOf[x],
             "delivery_failed", "none")

-----------------------------------------------------------------------------
(* The treatment of a failure *)

resolve_failure(r, x, act) ==
    /\ act \in entry /\ Start(r)
    /\ failure[x] = "pending" /\ ~Locked(OrderOf[x])
    /\ Become(r, [Idle EXCEPT !.pc = "resolve", !.o = OrderOf[x], !.x = x,
                              !.act = act, !.pay = pay[OrderOf[x]]])
    /\ UNCHANGED <<order, active, table>>

Done(r) == Become(r, [job[r] EXCEPT !.pc = "mark"])

(* create_refund of a payment that is not refunded already; the order's    *)
(* payment status stays.                                                   *)
Refund(r) ==
    LET o == job[r].o
    IN /\ job[r].pc = "resolve" /\ job[r].pay \in {"paid", "guarantee_captured"}
       /\ \/ /\ job[r].act = "refund" /\ refunded[o] # "all"
             /\ refunded' = [refunded EXCEPT ![o] = "all"]
          \/ /\ job[r].act = "retain" /\ refunded[o] # "all"
             /\ \E part \in {"some", "all"} :
                  /\ part = "all" => refunded[o] = "some"
                  /\ refunded' = [refunded EXCEPT ![o] = part]
          \/ job[r].act = "retain" /\ UNCHANGED refunded  \* all is retained
       /\ Done(r)
       /\ UNCHANGED <<status, pay, nonce, active, table>>

(* release_guarantee or capture_guarantee; GUARANTEE_NOT_FOUND counts as   *)
(* done already.                                                           *)
SettleHold(r) ==
    LET o == job[r].o
    IN /\ job[r].pc = "resolve" /\ job[r].pay = "guaranteed"
       /\ job[r].act \in {"refund", "retain"} /\ ~Locked(o)
       /\ IF pay[o] # "guaranteed" THEN UNCHANGED pay
          ELSE \E p \in IF job[r].act = "refund" THEN {"guarantee_released"}
                        ELSE {"paid", "guarantee_captured"} :
                 pay' = [pay EXCEPT ![o] = p]
       /\ Done(r)
       /\ UNCHANGED <<status, refunded, nonce, active, table>>

(* Nothing was ever taken. *)
NothingToRefund(r) ==
    /\ job[r].pc = "resolve" /\ job[r].act = "refund"
    /\ job[r].pay = "guarantee_released"
    /\ Done(r)
    /\ UNCHANGED <<order, active, table>>

(* A new code, and update_status(o, "ready", allow_redelivery). *)
Redeliver(r) ==
    LET o == job[r].o
    IN /\ job[r].pc = "resolve" /\ job[r].act = "redeliver"
       /\ job[r].pay \in {"paid", "guaranteed"}
       /\ ~Locked(o) /\ status[o] = "delivery_failed" /\ nonce[o] < MaxNonce
       /\ nonce' = [nonce EXCEPT ![o] = @ + 1]
       /\ status' = [status EXCEPT ![o] = "ready"]
       /\ Done(r)
       /\ UNCHANGED <<pay, refunded, active, table>>

(* Mutant: the failure stays open. *)
NotMarked(x) == failure
Marked(x) == [failure EXCEPT ![x] = "resolved"]

ResolveMark(r) ==
    /\ job[r].pc = "mark"
    /\ failure' = Marked(job[r].x)
    /\ Become(r, Idle)
    /\ UNCHANGED <<order, active, row, run, attempts>>

(***************************************************************************)
(* A handler is refused, loses a deadlock or gives up before it writes; a  *)
(* process that dies may also leave a resolution unmarked.                 *)
(***************************************************************************)
Refused(r) ==
    /\ job[r].pc \notin {"idle", "mark"}
    /\ Become(r, Idle)
    /\ UNCHANGED <<order, active, table>>

Die(r) ==
    /\ "crash" \in entry /\ job[r].pc = "mark"
    /\ Become(r, Idle)
    /\ UNCHANGED <<order, active, table>>

-----------------------------------------------------------------------------
Init ==
    /\ status = [o \in Order |-> "preparing"]
    /\ pay \in [Order -> {"paid", "guaranteed"}]
    /\ refunded = [o \in Order |-> "none"]
    /\ nonce = [o \in Order |-> 1]
    /\ active = [d \in Driver |-> TRUE]
    /\ row = [x \in Deliv |-> NoRow]
    /\ run = [x \in Deliv |-> "none"]
    /\ attempts = [x \in Deliv |-> 0]
    /\ failure = [x \in Deliv |-> "none"]
    /\ job = [r \in Proc |-> Idle]
    /\ entry \in Profiles

Continue(r) ==
    \/ AssignCommit(r) \/ ClaimCommit(r) \/ Follow(r) \/ StatusCommit(r)
    \/ Count(r) \/ Try(r) \/ Settle(r) \/ HandOver(r)
    \/ Refund(r) \/ SettleHold(r) \/ NothingToRefund(r) \/ Redeliver(r)
    \/ ResolveMark(r) \/ Refused(r) \/ Die(r)
    \/ \E o \in Order : Depart(r, o)

Request(r) ==
    \/ \E d \in Driver, os \in SUBSET Order : assign(r, d, os) \/ claim(r, d, os)
    \/ \E d \in Driver, xs \in SUBSET Deliv : driver_depart(r, d, xs)
    \/ \E o \in Order, to \in Follows : patch_status(r, o, to)
    \/ \E x \in Deliv :
        \/ admin_deliver_without_code(r, x)
        \/ \E d \in Driver :
            \/ report_failure(r, d, x)
            \/ \E code \in 0 .. MaxNonce : driver_deliver(r, d, x, code)
        \/ \E act \in {"refund", "retain", "redeliver"} :
             resolve_failure(r, x, act)

Step ==
    \/ \E r \in Proc : Request(r) \/ Continue(r)
    \/ \E o \in Order : unassign(o) \/ Advance(o)
    \/ \E d \in Driver :
        \/ \E x \in Deliv : release(d, x) \/ driver_arrived(d, x)
        \/ \E b \in BOOLEAN : update_driver(d, b)

Next == Step /\ UNCHANGED entry

Spec == Init /\ [][Next]_vars
-----------------------------------------------------------------------------
(* Properties *)

(* Every variable keeps the shape its column has. *)
TypeOK ==
    /\ status \in [Order -> Graph!OrderStatus]
    /\ pay \in [Order -> PayStatus]
    /\ refunded \in [Order -> {"none", "some", "all"}]
    /\ nonce \in [Order -> 0 .. MaxNonce]
    /\ active \in [Driver -> BOOLEAN]
    /\ row \in [Deliv -> DelivRow]
    /\ run \in [Deliv -> {"none", "active", "completed"}]
    /\ attempts \in [Deliv -> Nat]
    /\ failure \in [Deliv -> {"none", "pending", "resolved"}]
    /\ job \in [Proc -> Job]
    /\ entry \in Profiles

(***************************************************************************)
(* The deliveries table cannot diverge from the orders: an order has one   *)
(* live delivery at most; one that waits belongs to an order that may      *)
(* still be assigned, one on the road to an order out for delivery; so an  *)
(* order that ended has none, whatever claims, assignments, releases and   *)
(* status changes overlapped (lifecycle.py, assign, _claim_locked).  And   *)
(* where drivers cannot put an order back, an order on the road has a      *)
(* driver: the check of update_status, made without locking the delivery,  *)
(* still holds when the departure commits (ensure_driver_for_departure).   *)
(***************************************************************************)
DeliveryFollowsOrder ==
    /\ \A x, y \in LiveRows : OrderOf[x] = OrderOf[y] => x = y
    /\ \A x \in LiveRows :
         IF row[x].status = "assigned"
         THEN status[OrderOf[x]] \in ASSIGNABLE_ORDER_STATUSES
         ELSE status[OrderOf[x]] = "out_for_delivery"
    /\ "release" \notin entry =>
         \A o \in Order : status[o] = "out_for_delivery" => Live(o) # {}

(***************************************************************************)
(* Where only drivers assign, none carries more than the limit, and none   *)
(* that was deactivated carries anything, though claims, deactivations and *)
(* departures of the same driver overlap (_claim_locked, update_driver).   *)
(***************************************************************************)
ClaimsWithinCap ==
    "assign" \notin entry =>
        \A d \in Driver :
            Cardinality(LiveOf(d)) <= IF active[d] THEN Cap ELSE 0

(***************************************************************************)
(* When handlers do not overlap, a run is active exactly while some of its *)
(* deliveries are on the road, and a driver has one active run at most     *)
(* (on_departure, _complete_run_if_done).                                  *)
(***************************************************************************)
RunsInStep ==
    Serial =>
        /\ \A y \in Deliv : run[y] = "active"
                            <=> \E x \in LiveRows : row[x].run = y
        /\ \A d \in Driver : Cardinality(ActiveRuns(d)) <= 1

(***************************************************************************)
(* The limit on wrong codes is exceeded by at most the attempts that were  *)
(* counted together, one per handler (verify_code).                        *)
(***************************************************************************)
AttemptsBounded ==
    \A x \in Deliv : attempts[x] <= MaxFailed + Cardinality(Proc) - 1

(***************************************************************************)
(* Where a proof is required, every delivery that ends as delivered bears  *)
(* the customer's code or an administrator's override; and, when handlers  *)
(* do not overlap, the code is the one in force when it was handed over:   *)
(* a redelivery has made the earlier ones worthless (proof_required_for,   *)
(* verify_code, regenerate_nonce).                                         *)
(***************************************************************************)
DeliveredIsProven ==
    "proof" \in entry => \A x \in Deliv : row[x].status = "delivered" =>
        /\ row[x].proof \in {"code", "admin_override"}
        /\ Serial /\ row[x].proof = "code"
             => row[x].code = nonce[OrderOf[x]]

(***************************************************************************)
(* When handlers do not overlap and none dies, an order whose payment was  *)
(* given back is never sent out again (resolve_failure).                   *)
(***************************************************************************)
RefundedStaysHere ==
    Serial /\ "crash" \notin entry =>
        \A o \in Order : refunded[o] = "all" => status[o] = "delivery_failed"

(***************************************************************************)
(* From the kitchen on each order keeps to OrderLifecycle and holds its    *)
(* stock, although the status a handler writes was checked steps earlier   *)
(* and the counter, the drivers, a station and the treatment of a failure  *)
(* all write it (update_status, driver_deliver, report_failure,            *)
(* resolve_failure).                                                       *)
(***************************************************************************)
Life(o) == INSTANCE OrderLifecycle WITH status <- status[o], held <- 1

StaysInLifecycle ==
    [][\A o \in Order : [Life(o)!Next]_(Life(o)!lvars)]_vars

=============================================================================
