------------------------------ MODULE Kitchen ------------------------------
(***************************************************************************)
(* The orders of one restaurant in its kitchen: the queue that a           *)
(* confirmation falls into when the kitchen is full, the status endpoint,  *)
(* and the preparation screens of the stations (orders/service.py:         *)
(* update_status, create_manual_order, update_station_preparation,         *)
(* update_item_preparation).                                               *)
(*                                                                         *)
(* update_status locks its order's row until it commits, but counts the    *)
(* other orders without a lock: a confirmation is two steps, the count and *)
(* the commit.  update_item_preparation takes no lock at all.  Everything  *)
(* else runs under the order's lock and is one step.                       *)
(*                                                                         *)
(* Abstractions.  Every order has the same items; the line that only       *)
(* groups the components of a menu is left out.  Payment is modelled in    *)
(* Payments and ingredient quantities in Stock: here every order is paid,  *)
(* and the stock may refuse any confirmation.                              *)
(***************************************************************************)
EXTENDS Integers, FiniteSets

CONSTANTS
    Order, Item,
    StationOf,   \* order_items.preparation_station, per item
    Threshold,   \* tenant_config.peak_orders_threshold
    Proc,        \* request handlers running at the same time
    Profiles     \* the profiles an instance explores: the entry points that
                 \* are open, and the statuses the staff asks for

ASSUME ThresholdAssumption == Threshold \in Nat \ {0}   \* schema: ge=1
ASSUME StationAssumption   == StationOf \in [Item -> STRING]
ASSUME FiniteAssumption    == IsFiniteSet(Order) /\ IsFiniteSet(Proc)

VARIABLES
    status, held,   \* per order: orders.status, net stock deductions
    prep,           \* per order and item: preparation_status
    job,            \* what each handler is in the middle of
    entry           \* the profile of this behaviour

vars == <<status, held, prep, job, entry>>

Life(o) == INSTANCE OrderLifecycle WITH status <- status[o], held <- held[o]

(* For the constant definitions only. *)
Graph == INSTANCE OrderLifecycle

-----------------------------------------------------------------------------
PREPARATION_STATUSES == {"pending", "preparing", "ready"}

VALID_PREPARATION_TRANSITIONS ==
    [s \in PREPARATION_STATUSES |->
       CASE s = "pending"   -> {"preparing", "ready"}
         [] s = "preparing" -> {"ready"}
         [] s = "ready"     -> {"preparing"}]

STATION_PREPARABLE_ORDER_STATUSES == {"confirmed", "preparing", "ready"}

ACTIVE_PREPARATION_ORDER_STATUSES ==
    {"pending", "confirmed", "queued", "preparing", "ready",
     "out_for_delivery"}

Idle == [pc |-> "idle"]

(* A confirmation that has counted, or an item update that has read. *)
Job == {Idle}
       \cup [pc : {"confirm"}, o : Order, to : {"confirmed", "queued"}]
       \cup [pc : {"item"}, o : Order, i : Item,
             seen : PREPARATION_STATUSES, to : PREPARATION_STATUSES]

Become(r, j) == job' = [job EXCEPT ![r] = j]

(* The row lock of the order is taken.  Mutant: no lock. *)
Unlocked(o) == FALSE
Locked(o) == \E r \in Proc : job[r].pc = "confirm" /\ job[r].o = o

-----------------------------------------------------------------------------
(* The queue *)

(* The orders the code counts against the threshold.  A queued order that  *)
(* is confirmed again counts itself.                                       *)
(* Mutants: the waiting orders are forgotten; those done are counted.      *)
ActiveInPreparation == {o \in Order : status[o] = "preparing"}

ActiveForever == {o \in Order : status[o] \notin {"none", "pending",
                                                  "cancelled", "rejected"}}

ActiveOrders == {o \in Order : status[o] \in {"confirmed", "preparing",
                                              "queued"}}

Routed == IF Cardinality(ActiveOrders) >= Threshold
          THEN "queued" ELSE "confirmed"

create_order(o) ==
    /\ "order" \in entry /\ status[o] = "none" /\ ~Locked(o)
    /\ status' = [status EXCEPT ![o] = "pending"]
    /\ UNCHANGED <<held, prep, job>>

(* update_status(o, "confirmed"), up to the commit; create_manual_order    *)
(* runs it on the row it has just inserted.                                *)
Confirm(r, o) ==
    /\ job[r] = Idle /\ ~Locked(o)
    /\ \/ "confirmed" \in Graph!VALID_TRANSITIONS[status[o]]
       \/ "manual" \in entry /\ status[o] = "none"
    /\ Become(r, [pc |-> "confirm", o |-> o, to |-> Routed])
    /\ UNCHANGED <<status, held, prep>>

(* Stock is deducted with the confirmation, not with the queueing. *)
Deducted(o, to) == IF to = "confirmed" THEN [held EXCEPT ![o] = @ + 1]
                   ELSE held

ConfirmCommit(r) ==
    /\ job[r].pc = "confirm"
    /\ LET o == job[r].o
       IN /\ status' = [status EXCEPT ![o] = job[r].to]
          /\ held' = Deducted(o, job[r].to)
    /\ Become(r, Idle)
    /\ UNCHANGED prep

(* INSUFFICIENT_STOCK: everything is rolled back. *)
ConfirmRefused(r) ==
    /\ job[r].pc = "confirm" /\ job[r].to = "confirmed"
    /\ "stockout" \in entry
    /\ Become(r, Idle)
    /\ UNCHANGED <<status, held, prep>>

(* Every other transition of PATCH /orders/{id}/status. *)
update_status(o, to) ==
    /\ to \in entry /\ to # "confirmed"
    /\ to \in Graph!VALID_TRANSITIONS[status[o]]
    /\ ~Locked(o)
    /\ status' = [status EXCEPT ![o] = to]
    /\ held' = IF to = "cancelled" /\ status[o] = "confirmed"
               THEN [held EXCEPT ![o] = @ - 1] ELSE held
    /\ UNCHANGED <<prep, job>>

(* A failed delivery that an administrator sends out again. *)
Redeliver(o) ==
    /\ "redeliver" \in entry /\ status[o] = "delivery_failed"
    /\ status' = [status EXCEPT ![o] = "ready"]
    /\ UNCHANGED <<held, prep, job>>

-----------------------------------------------------------------------------
(* The preparation screens *)

Station == {StationOf[i] : i \in Item}
ItemsOf(s) == {i \in Item : StationOf[i] = s}
Prepared == {i \in Item : StationOf[i] # "none"}

(***************************************************************************)
(* The order's status after station s of order o moved to st: the last     *)
(* station to be ready takes a preparing order with it, and a reopened     *)
(* station takes a ready one back.                                         *)
(***************************************************************************)
(* Mutant: a reopened station leaves the order ready. *)
SyncedOneWay(o, s, st) ==
    IF st = "ready" /\ status[o] = "preparing"
       /\ \A i \in Prepared : i \in ItemsOf(s) \/ prep[o][i] = "ready"
    THEN "ready" ELSE status[o]

Synced(o, s, st) ==
    IF st = "ready" /\ status[o] = "preparing" /\ Prepared # {}
       /\ \A i \in Prepared : i \in ItemsOf(s) \/ prep[o][i] = "ready"
    THEN "ready"
    ELSE IF st = "preparing" /\ status[o] = "ready" THEN "preparing"
    ELSE status[o]

update_station_preparation(o, s, st) ==
    /\ "station" \in entry /\ ~Locked(o)
    /\ status[o] \in STATION_PREPARABLE_ORDER_STATUSES
    /\ \E i \in ItemsOf(s) : prep[o][i] # st       \* else: idempotent
    /\ \A i \in ItemsOf(s) :
         prep[o][i] = st \/ st \in VALID_PREPARATION_TRANSITIONS[prep[o][i]]
    /\ prep' = [prep EXCEPT ![o] = [i \in Item |->
                  IF i \in ItemsOf(s) THEN st ELSE @[i]]]
    /\ status' = [status EXCEPT ![o] = Synced(o, s, st)]
    /\ UNCHANGED <<held, job>>

(* update_item_preparation reads the order and the item without a lock ... *)
update_item_preparation(r, o, i, st) ==
    /\ "item" \in entry /\ job[r] = Idle
    /\ status[o] \in ACTIVE_PREPARATION_ORDER_STATUSES
    /\ Become(r, [pc |-> "item", o |-> o, i |-> i, seen |-> prep[o][i],
                  to |-> st])
    /\ UNCHANGED <<status, held, prep>>

(* ... and commits the item alone; a column set to the value it was loaded *)
(* with is not written.                                                    *)
ItemCommit(r) ==
    /\ job[r].pc = "item"
    /\ prep' = IF job[r].seen = job[r].to THEN prep
               ELSE [prep EXCEPT ![job[r].o][job[r].i] = job[r].to]
    /\ Become(r, Idle)
    /\ UNCHANGED <<status, held>>

-----------------------------------------------------------------------------
Init ==
    /\ status = [o \in Order |-> "none"]
    /\ held = [o \in Order |-> 0]
    /\ prep = [o \in Order |-> [i \in Item |-> "pending"]]
    /\ job = [r \in Proc |-> Idle]
    /\ entry \in Profiles

Serve(o) == \E to \in Graph!OrderStatus : update_status(o, to)
Cook(o)  == \E to \in {"preparing", "ready"} : update_status(o, to)

Step ==
    \/ \E r \in Proc : \/ ConfirmCommit(r) \/ ConfirmRefused(r)
                       \/ ItemCommit(r)
                       \/ \E o \in Order : Confirm(r, o)
    \/ \E o \in Order :
        \/ create_order(o) \/ Serve(o) \/ Redeliver(o)
        \/ \E st \in PREPARATION_STATUSES :
            \/ \E s \in Station : update_station_preparation(o, s, st)
            \/ \E r \in Proc, i \in Item : update_item_preparation(r, o, i, st)

Next == Step /\ UNCHANGED entry

Spec == Init /\ [][Next]_vars

(***************************************************************************)
(* Fairness of the queue's liveness: handlers end, the staff takes every   *)
(* order to the end of its preparation, and never gives up confirming a    *)
(* queued order.  Nobody has to cancel anything.                           *)
(***************************************************************************)
Fairness ==
    /\ \A r \in Proc : WF_vars(ConfirmCommit(r) /\ UNCHANGED entry)
    /\ \A o \in Order :
         /\ SF_vars(Cook(o) /\ UNCHANGED entry)
         /\ SF_vars((\E r \in Proc : Confirm(r, o)) /\ UNCHANGED entry)

FairSpec == Spec /\ Fairness

-----------------------------------------------------------------------------
(* Properties *)

(* Every variable keeps the shape its column has. *)
TypeOK ==
    /\ status \in [Order -> Graph!OrderStatus]
    /\ held \in [Order -> Int]
    /\ prep \in [Order -> [Item -> PREPARATION_STATUSES]]
    /\ job \in [Proc -> Job]
    /\ entry \in Profiles

(***************************************************************************)
(* The stations' screens, the status endpoint and the queue together keep  *)
(* every order inside its life cycle, and take its ingredients once        *)
(* (update_status, update_station_preparation, create_manual_order).       *)
(***************************************************************************)
ImplementsLifecycle ==
    /\ \A o \in Order : Life(o)!Init
    /\ [][\A o \in Order : [Life(o)!Next]_(Life(o)!lvars)]_vars

(***************************************************************************)
(* An order that reached the kitchen holds its ingredients exactly once,   *)
(* and one that did not holds none, whatever confirmations, queueings and  *)
(* cancellations overlapped (update_status, deduct_for_order,              *)
(* restore_for_order).                                                     *)
(***************************************************************************)
StockHeldOnce == \A o \in Order : Life(o)!HeldOnce

(* The stations' screens alone decide when an order is ready. *)
ScreensOnly == "item" \notin entry /\ "ready" \notin entry

(***************************************************************************)
(* An order a screen shows as ready has every station ready, through any   *)
(* sequence of preparations, corrections and reopenings by the stations    *)
(* (update_station_preparation).                                           *)
(***************************************************************************)
ReadyIsPrepared ==
    ScreensOnly => \A o \in Order : status[o] = "ready"
                     => \A i \in Prepared : prep[o][i] = "ready"

(***************************************************************************)
(* The row lock does its work: a confirmation in flight is alone on its    *)
(* order, whose status still allows it when it commits (update_status).    *)
(***************************************************************************)
LockHolds ==
    \A r \in Proc : job[r].pc = "confirm" =>
        /\ status[job[r].o] \in {"none", "pending", "queued"}
        /\ \A s \in Proc : job[s].pc = "confirm" /\ job[s].o = job[r].o
                           => s = r

InKitchen == {o \in Order : status[o] \in {"confirmed", "preparing"}}

(***************************************************************************)
(* Confirmations that count at the same time overshoot the threshold by at *)
(* most the number of them that were running together (update_status).     *)
(* The stations' screens are closed: a reopened station puts a ready order *)
(* back into preparation and counts nobody (update_station_preparation).   *)
(***************************************************************************)
OvershootBounded ==
    "station" \notin entry =>
        Cardinality(InKitchen) <= Threshold + Cardinality(Proc) - 1

Queue == {o \in Order : status[o] = "queued"}

(***************************************************************************)
(* While fewer orders wait than the threshold, a queued order that the     *)
(* staff keeps confirming as the kitchen empties leaves the queue          *)
(* (update_status).                                                        *)
(***************************************************************************)
ShortQueueDrains ==
    [](Cardinality(Queue) < Threshold)
    => \A o \in Order : (o \in Queue) ~> (o \notin Queue)

=============================================================================
