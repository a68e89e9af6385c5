--------------------------- MODULE Kitchen_proofs ---------------------------
(***************************************************************************)
(* What Kitchen guarantees for every set of orders, items and handlers and *)
(* every threshold: the row lock isolates a confirmation, every order      *)
(* stays inside its life cycle, and its ingredients are taken once.        *)
(***************************************************************************)
EXTENDS Kitchen, FiniteSetTheorems, TLAPS

(***************************************************************************)
(* The column types survive every handler of the kitchen.                  *)
(***************************************************************************)
THEOREM KitchenTypeOK == Spec => []TypeOK
<1>1. Init => TypeOK
  BY DEF Init, TypeOK, Job, Idle, Graph!OrderStatus, PREPARATION_STATUSES
<1>2. TypeOK /\ [Next]_vars => TypeOK'
  <2> SUFFICES ASSUME TypeOK, [Next]_vars PROVE TypeOK'
    OBVIOUS
  <2>0. entry' = entry
    BY DEF Next, vars
  <2> USE <2>0 DEF TypeOK
  <2>1. ASSUME NEW r \in Proc, ConfirmCommit(r) PROVE TypeOK'
    BY <2>1 DEF Deducted, ConfirmCommit, Become, Job, Idle, Graph!OrderStatus
  <2>2. ASSUME NEW r \in Proc, ConfirmRefused(r) PROVE TypeOK'
    BY <2>2 DEF ConfirmRefused, Become, Job, Idle
  <2>3. ASSUME NEW r \in Proc, ItemCommit(r) PROVE TypeOK'
    BY <2>3 DEF ItemCommit, Become, Job, Idle
  <2>4. ASSUME NEW r \in Proc, NEW o \in Order, Confirm(r, o) PROVE TypeOK'
    BY <2>4 DEF Confirm, Become, Routed, Job, Idle
  <2>5. ASSUME NEW o \in Order, create_order(o) PROVE TypeOK'
    BY <2>5 DEF create_order, Graph!OrderStatus
  <2>6. ASSUME NEW o \in Order, Serve(o) PROVE TypeOK'
    BY <2>6 DEF Serve, update_status
  <2>7. ASSUME NEW o \in Order, Redeliver(o) PROVE TypeOK'
    BY <2>7 DEF Redeliver, Graph!OrderStatus
  <2>8. ASSUME NEW o \in Order, NEW s \in Station,
               NEW st \in PREPARATION_STATUSES,
               update_station_preparation(o, s, st)
        PROVE  TypeOK'
    <3>1. Synced(o, s, st) \in Graph!OrderStatus
      BY DEF Synced, Graph!OrderStatus
    <3> QED
      BY <2>8, <3>1 DEF update_station_preparation
  <2>9. ASSUME NEW o \in Order, NEW r \in Proc, NEW i \in Item,
               NEW st \in PREPARATION_STATUSES,
               update_item_preparation(r, o, i, st)
        PROVE  TypeOK'
    BY <2>9 DEF update_item_preparation, Become, Job, Idle
  <2>10. CASE UNCHANGED vars
    BY <2>10 DEF vars
  <2> QED
    BY <2>1, <2>2, <2>3, <2>4, <2>5, <2>6, <2>7, <2>8, <2>9, <2>10 DEF Next, Step
<1> QED
  BY <1>1, <1>2, PTL DEF Spec

-----------------------------------------------------------------------------
(***************************************************************************)
(* The lock is what isolates a confirmation: only its holder moves the     *)
(* order, so the status it validated is the status it replaces.            *)
(***************************************************************************)
LEMMA LockStep ==
    ASSUME TypeOK, LockHolds, [Next]_vars
    PROVE  LockHolds'
<1> USE DEF TypeOK, LockHolds
<1>1. ASSUME NEW r \in Proc, ConfirmCommit(r) PROVE LockHolds'
  BY <1>1 DEF Deducted, ConfirmCommit, Become, Job, Idle
<1>2. ASSUME NEW r \in Proc, ConfirmRefused(r) PROVE LockHolds'
  BY <1>2 DEF ConfirmRefused, Become, Job, Idle
<1>3. ASSUME NEW r \in Proc, ItemCommit(r) PROVE LockHolds'
  BY <1>3 DEF ItemCommit, Become, Job, Idle
<1>4. ASSUME NEW r \in Proc, NEW o \in Order, Confirm(r, o) PROVE LockHolds'
  <2>1. status[o] \in {"none", "pending", "queued"}
    BY <1>4 DEF Confirm, Graph!VALID_TRANSITIONS, Graph!OrderStatus
  <2> QED
    BY <1>4, <2>1 DEF Confirm, Locked, Become, Job, Idle
<1>5. ASSUME NEW o \in Order, create_order(o) PROVE LockHolds'
  BY <1>5 DEF create_order, Locked
<1>6. ASSUME NEW o \in Order, Serve(o) PROVE LockHolds'
  BY <1>6 DEF Serve, update_status, Locked
<1>7. ASSUME NEW o \in Order, Redeliver(o) PROVE LockHolds'
  BY <1>7 DEF Redeliver
<1>8. ASSUME NEW o \in Order, NEW s \in Station,
             NEW st \in PREPARATION_STATUSES,
             update_station_preparation(o, s, st)
      PROVE  LockHolds'
  BY <1>8 DEF update_station_preparation, Locked
<1>9. ASSUME NEW o \in Order, NEW r \in Proc, NEW i \in Item,
             NEW st \in PREPARATION_STATUSES,
             update_item_preparation(r, o, i, st)
      PROVE  LockHolds'
  BY <1>9 DEF update_item_preparation, Become, Job, Idle
<1>10. CASE UNCHANGED vars
  BY <1>10 DEF vars
<1> QED
  BY <1>1, <1>2, <1>3, <1>4, <1>5, <1>6, <1>7, <1>8, <1>9, <1>10 DEF Next, Step

(***************************************************************************)
(* update_status: a confirmation in flight is alone on its order, and      *)
(* commits on a status that still allows it, for any number of handlers.   *)
(***************************************************************************)
THEOREM KitchenLockHolds == Spec => []LockHolds
<1>1. Init => LockHolds
  BY DEF Init, LockHolds, Idle
<1> QED
  BY <1>1, LockStep, KitchenTypeOK, PTL DEF Spec

-----------------------------------------------------------------------------
(***************************************************************************)
(* Each step of the kitchen is, for each order, a step of its life cycle   *)
(* or leaves it alone.                                                     *)
(***************************************************************************)
LEMMA LifeStep ==
    ASSUME TypeOK, LockHolds, [Next]_vars, NEW x \in Order
    PROVE  [Life(x)!Next]_(Life(x)!lvars)
<1> USE DEF TypeOK
<1>1. ASSUME NEW r \in Proc, ConfirmCommit(r)
      PROVE  [Life(x)!Next]_(Life(x)!lvars)
  <2>1. /\ job[r].pc = "confirm"
        /\ job[r].o \in Order
        /\ job[r].to \in {"confirmed", "queued"}
        /\ status[job[r].o] \in {"none", "pending", "queued"}
    BY <1>1 DEF Deducted, ConfirmCommit, LockHolds, Job, Idle
  <2>2. CASE x = job[r].o
    <3>1. status'[x] = job[r].to /\ held'[x] = IF job[r].to = "confirmed"
                                               THEN held[x] + 1 ELSE held[x]
      BY <1>1, <2>1, <2>2 DEF Deducted, ConfirmCommit
    <3> QED
      BY <2>1, <2>2, <3>1
      DEF Life!Next, Life!Create, Life!Confirm, Life!VALID_TRANSITIONS,
          Life!OrderStatus
  <2>3. CASE x # job[r].o
    BY <1>1, <2>1, <2>3 DEF Deducted, ConfirmCommit, Life!lvars
  <2> QED
    BY <2>2, <2>3
<1>2. ASSUME NEW o \in Order, create_order(o)
      PROVE  [Life(x)!Next]_(Life(x)!lvars)
  BY <1>2 DEF create_order, Life!Next, Life!Create, Life!lvars
<1>3. ASSUME NEW o \in Order, NEW to \in Graph!OrderStatus,
             update_status(o, to)
      PROVE  [Life(x)!Next]_(Life(x)!lvars)
  <2>1. CASE x # o
    BY <1>3, <2>1 DEF update_status, Life!lvars
  <2>2. CASE x = o /\ to = "cancelled"
    BY <1>3, <2>2 DEF update_status, Life!Next, Life!Cancel,
                      Graph!VALID_TRANSITIONS, Life!VALID_TRANSITIONS,
                      Graph!OrderStatus, Life!OrderStatus
  <2>3. CASE x = o /\ to # "cancelled"
    BY <1>3, <2>3 DEF update_status, Life!Next, Life!Advance,
                      Graph!VALID_TRANSITIONS, Life!VALID_TRANSITIONS,
                      Graph!OrderStatus, Life!OrderStatus
  <2> QED
    BY <2>1, <2>2, <2>3
<1>4. ASSUME NEW o \in Order, Redeliver(o)
      PROVE  [Life(x)!Next]_(Life(x)!lvars)
  BY <1>4 DEF Redeliver, Life!Next, Life!Redeliver, Life!lvars
<1>5. ASSUME NEW o \in Order, NEW s \in Station,
             NEW st \in PREPARATION_STATUSES,
             update_station_preparation(o, s, st)
      PROVE  [Life(x)!Next]_(Life(x)!lvars)
  <2>1. /\ status' = [status EXCEPT ![o] = Synced(o, s, st)]
        /\ held' = held
    BY <1>5 DEF update_station_preparation
  <2>2. CASE x = o /\ Synced(o, s, st) = "ready" /\ status[o] = "preparing"
    BY <2>1, <2>2 DEF Life!Next, Life!Advance, Life!VALID_TRANSITIONS,
                      Life!OrderStatus
  <2>3. CASE x = o /\ Synced(o, s, st) = "preparing" /\ status[o] = "ready"
    BY <2>1, <2>3 DEF Life!Next, Life!Reopen
  <2>4. CASE x # o \/ Synced(o, s, st) = status[o]
    BY <2>1, <2>4 DEF Life!lvars
  <2> QED
    BY <2>2, <2>3, <2>4 DEF Synced
<1>6. CASE UNCHANGED <<status, held>>
  BY <1>6 DEF Life!lvars
<1>7. ASSUME NEW r \in Proc
      PROVE  /\ ConfirmRefused(r) => UNCHANGED <<status, held>>
             /\ ItemCommit(r) => UNCHANGED <<status, held>>
             /\ \A o \in Order : Confirm(r, o) => UNCHANGED <<status, held>>
             /\ \A o \in Order, i \in Item, st \in PREPARATION_STATUSES :
                  update_item_preparation(r, o, i, st)
                  => UNCHANGED <<status, held>>
  BY DEF ConfirmRefused, ItemCommit, Confirm, update_item_preparation
<1> QED
  BY <1>1, <1>2, <1>3, <1>4, <1>5, <1>6, <1>7 DEF Next, Step, Serve, vars

(***************************************************************************)
(* The kitchen implements the life cycle of every order.                   *)
(***************************************************************************)
THEOREM KitchenImplementsLifecycle == Spec => ImplementsLifecycle
<1>1. Init => \A o \in Order : Life(o)!Init
  BY DEF Init, Life!Init
<1>2. TypeOK /\ LockHolds /\ [Next]_vars
      => [\A o \in Order : [Life(o)!Next]_(Life(o)!lvars)]_vars
  BY LifeStep
<1> QED
  BY <1>1, <1>2, KitchenTypeOK, KitchenLockHolds, PTL
  DEF Spec, ImplementsLifecycle

(***************************************************************************)
(* One step of the life cycle keeps the ingredients taken once.            *)
(***************************************************************************)
LEMMA HeldStep ==
    ASSUME NEW x \in Order, Life(x)!HeldOnce,
           [Life(x)!Next]_(Life(x)!lvars)
    PROVE  Life(x)!HeldOnce'
<1> USE DEF Life!HeldOnce, Life!Cooked, Life!Uncooked, Life!OrderStatus
<1>1. CASE Life(x)!Create
  BY <1>1 DEF Life!Create
<1>2. CASE Life(x)!Confirm
  BY <1>2 DEF Life!Confirm, Life!VALID_TRANSITIONS
<1>3. CASE Life(x)!Cancel
  BY <1>3 DEF Life!Cancel, Life!VALID_TRANSITIONS
<1>4. CASE Life(x)!Advance
  BY <1>4 DEF Life!Advance, Life!VALID_TRANSITIONS
<1>5. CASE Life(x)!Redeliver \/ Life(x)!Reopen
  BY <1>5 DEF Life!Redeliver, Life!Reopen
<1>6. CASE UNCHANGED Life(x)!lvars
  BY <1>6 DEF Life!lvars
<1> QED
  BY <1>1, <1>2, <1>3, <1>4, <1>5, <1>6 DEF Life!Next

(***************************************************************************)
(* update_status with deduct_for_order and restore_for_order: for any      *)
(* number of orders and of overlapping handlers, an order that reached the *)
(* kitchen holds its ingredients once and one that did not holds none.     *)
(***************************************************************************)
THEOREM KitchenStockHeldOnce == Spec => []StockHeldOnce
<1>1. Init => StockHeldOnce
  BY DEF Init, StockHeldOnce, Life!HeldOnce, Life!Cooked, Life!Uncooked,
         Life!OrderStatus
<1>2. TypeOK /\ LockHolds /\ StockHeldOnce /\ [Next]_vars => StockHeldOnce'
  <2> SUFFICES ASSUME TypeOK, LockHolds, StockHeldOnce, [Next]_vars,
                      NEW x \in Order
               PROVE  Life(x)!HeldOnce'
    BY DEF StockHeldOnce
  <2>1. Life(x)!HeldOnce
    BY DEF StockHeldOnce
  <2>2. [Life(x)!Next]_(Life(x)!lvars)
    BY LifeStep
  <2> QED
    BY <2>1, <2>2, HeldStep
<1> QED
  BY <1>1, <1>2, KitchenTypeOK, KitchenLockHolds, PTL DEF Spec

-----------------------------------------------------------------------------
(***************************************************************************)
(* The strengthening of ReadyIsPrepared: no item update is in flight, and  *)
(* an order that left the kitchen, and may come back to "ready", was fully *)
(* prepared when it did.                                                   *)
(***************************************************************************)
PreparedInv ==
    ScreensOnly =>
    /\ \A r \in Proc : job[r].pc # "item"
    /\ \A o \in Order :
         status[o] \in {"ready", "out_for_delivery", "delivery_failed"}
         => \A i \in Prepared : prep[o][i] = "ready"

(***************************************************************************)
(* update_station_preparation: where only the stations' screens prepare,   *)
(* an order shown as ready has every station ready.                        *)
(***************************************************************************)
THEOREM KitchenReadyIsPrepared == Spec => []ReadyIsPrepared
<1>1. Init => PreparedInv
  BY DEF Init, PreparedInv, Idle
<1>2. TypeOK /\ LockHolds /\ PreparedInv /\ [Next]_vars => PreparedInv'
  <2> SUFFICES ASSUME TypeOK, LockHolds, PreparedInv, [Next]_vars,
                      ScreensOnly
               PROVE  PreparedInv'
    BY DEF Next, vars, ScreensOnly, PreparedInv
  <2>0. entry' = entry
    BY DEF Next, vars
  <2> USE <2>0 DEF TypeOK, PreparedInv
  <2>1. ASSUME NEW r \in Proc, ConfirmCommit(r) PROVE PreparedInv'
    BY <2>1 DEF Deducted, ConfirmCommit, Become, Job, Idle
  <2>2. ASSUME NEW r \in Proc, ConfirmRefused(r) PROVE PreparedInv'
    BY <2>2 DEF ConfirmRefused, Become, Job, Idle
  <2>3. ASSUME NEW r \in Proc, NEW o \in Order, Confirm(r, o)
        PROVE  PreparedInv'
    BY <2>3 DEF Confirm, Become, Job, Idle
  <2>4. ASSUME NEW o \in Order, create_order(o) PROVE PreparedInv'
    BY <2>4 DEF create_order
  <2>5. ASSUME NEW o \in Order, NEW to \in Graph!OrderStatus,
               update_status(o, to)
        PROVE  PreparedInv'
    <3>1. to \in {"out_for_delivery", "delivery_failed"}
          => status[o] \in {"ready", "out_for_delivery"}
      BY <2>5 DEF update_status, Graph!VALID_TRANSITIONS, Graph!OrderStatus
    <3>2. to # "ready"
      BY <2>5 DEF update_status, ScreensOnly
    <3> QED
      BY <2>5, <3>1, <3>2 DEF update_status
  <2>6. ASSUME NEW o \in Order, Redeliver(o) PROVE PreparedInv'
    BY <2>6 DEF Redeliver
  <2>7. ASSUME NEW o \in Order, NEW s \in Station,
               NEW st \in PREPARATION_STATUSES,
               update_station_preparation(o, s, st)
        PROVE  PreparedInv'
    <3>1. \A i \in Item : prep'[o][i] = IF i \in ItemsOf(s) THEN st
                                        ELSE prep[o][i]
      BY <2>7 DEF update_station_preparation
    <3>2. \A x \in Order \ {o} : prep'[x] = prep[x] /\ status'[x] = status[x]
      BY <2>7 DEF update_station_preparation
    <3>3. status'[o] = Synced(o, s, st) /\ job' = job
      BY <2>7 DEF update_station_preparation
    <3>4. ASSUME NEW i \in Prepared,
                 status'[o] \in {"ready", "out_for_delivery",
                                 "delivery_failed"}
          PROVE  prep'[o][i] = "ready"
      <4>1. i \in Item
        BY DEF Prepared
      <4>2. CASE status[o] = "ready"
        <5>1. st # "preparing"
          BY <3>3, <3>4, <4>2 DEF Synced
        <5>2. st # "pending"
          <6>1. PICK k \in Item : st \in VALID_PREPARATION_TRANSITIONS[prep[o][k]]
            BY <2>7 DEF update_station_preparation, ItemsOf
          <6>2. prep[o][k] \in {"pending", "preparing", "ready"}
            BY DEF PREPARATION_STATUSES
          <6> QED
            BY <6>1, <6>2 DEF VALID_PREPARATION_TRANSITIONS,
                              PREPARATION_STATUSES
        <5> QED
          BY <3>1, <4>1, <4>2, <5>1, <5>2 DEF PREPARATION_STATUSES
      <4>3. CASE status[o] # "ready"
        BY <2>7, <3>1, <3>3, <3>4, <4>1, <4>3
        DEF Synced, update_station_preparation,
            STATION_PREPARABLE_ORDER_STATUSES
      <4> QED
        BY <4>2, <4>3
    <3> QED
      BY <3>2, <3>3, <3>4
  <2>8. ASSUME NEW o \in Order, NEW r \in Proc, NEW i \in Item,
               NEW st \in PREPARATION_STATUSES,
               update_item_preparation(r, o, i, st)
        PROVE  PreparedInv'
    BY <2>8 DEF update_item_preparation, ScreensOnly
  <2>9. ASSUME NEW r \in Proc, ItemCommit(r) PROVE PreparedInv'
    BY <2>9 DEF ItemCommit
  <2>10. CASE UNCHANGED vars
    BY <2>10 DEF vars
  <2> QED
    BY <2>1, <2>2, <2>3, <2>4, <2>5, <2>6, <2>7, <2>8, <2>9, <2>10
    DEF Next, Step, Serve
<1>3. PreparedInv => ReadyIsPrepared
  BY DEF PreparedInv, ReadyIsPrepared
<1> QED
  BY <1>1, <1>2, <1>3, KitchenTypeOK, KitchenLockHolds, PTL DEF Spec

-----------------------------------------------------------------------------
(***************************************************************************)
(* The confirmations in flight that found room: each will put one more     *)
(* order into the kitchen, so they count as if they had already.           *)
(***************************************************************************)
Admitted == {r \in Proc : job[r].pc = "confirm" /\ job[r].to = "confirmed"}

OvershootInv ==
    "station" \notin entry =>
        Cardinality(InKitchen) + Cardinality(Admitted)
          <= Threshold + Cardinality(Proc) - 1

(* Every set of orders or of handlers is finite, and has a size. *)
LEMMA Sizes ==
    /\ \A S \in SUBSET Order : IsFiniteSet(S) /\ Cardinality(S) \in Nat
    /\ \A R \in SUBSET Proc : /\ IsFiniteSet(R) /\ Cardinality(R) \in Nat
                             /\ Cardinality(R) <= Cardinality(Proc)
    /\ Cardinality(Proc) \in Nat
BY FiniteAssumption, FS_Subset, FS_CardinalityType

(***************************************************************************)
(* A step that neither opens the kitchen to an order nor admits one.       *)
(***************************************************************************)
LEMMA FewerStep ==
    ASSUME OvershootInv, "station" \notin entry,
           InKitchen' \subseteq InKitchen, Admitted' \subseteq Admitted
    PROVE  Cardinality(InKitchen') + Cardinality(Admitted')
             <= Threshold + Cardinality(Proc) - 1
<1>1. InKitchen \subseteq Order /\ Admitted \subseteq Proc
  BY DEF InKitchen, Admitted
<1>2. /\ Cardinality(InKitchen') <= Cardinality(InKitchen)
      /\ Cardinality(Admitted') <= Cardinality(Admitted)
  BY <1>1, Sizes, FS_Subset
<1>3. /\ Cardinality(InKitchen) \in Nat /\ Cardinality(Admitted) \in Nat
      /\ Cardinality(InKitchen') \in Nat /\ Cardinality(Admitted') \in Nat
      /\ Cardinality(Proc) \in Nat
  BY <1>1, Sizes
<1> QED
  BY <1>2, <1>3, ThresholdAssumption DEF OvershootInv

(***************************************************************************)
(* update_status: a confirmation that found room counted a kitchen below   *)
(* the threshold; its commit turns an admitted order into one more there.  *)
(***************************************************************************)
LEMMA OvershootStep ==
    ASSUME TypeOK, LockHolds, OvershootInv, "station" \notin entry, [Next]_vars
    PROVE  Cardinality(InKitchen') + Cardinality(Admitted')
             <= Threshold + Cardinality(Proc) - 1
<1> DEFINE Goal == Cardinality(InKitchen') + Cardinality(Admitted')
                     <= Threshold + Cardinality(Proc) - 1
<1> USE DEF TypeOK
<1>0. InKitchen \subseteq Order /\ Admitted \subseteq Proc
  BY DEF InKitchen, Admitted
<1>1. ASSUME NEW r \in Proc, ConfirmCommit(r) PROVE Goal
  <2>1. /\ job[r].pc = "confirm" /\ job[r].o \in Order
        /\ job[r].to \in {"confirmed", "queued"}
        /\ status[job[r].o] \in {"none", "pending", "queued"}
        /\ status' = [status EXCEPT ![job[r].o] = job[r].to]
        /\ job' = [job EXCEPT ![r] = Idle]
    BY <1>1 DEF ConfirmCommit, LockHolds, Become, Job, Idle
  <2>2. Admitted' = Admitted \ {r}
    BY <2>1 DEF Admitted, Idle
  <2>3. CASE job[r].to = "queued"
    <3>1. InKitchen' \subseteq InKitchen
      BY <2>1, <2>3 DEF InKitchen
    <3> QED BY <2>2, <3>1, FewerStep
  <2>4. CASE job[r].to = "confirmed"
    <3>1. InKitchen' = InKitchen \cup {job[r].o} /\ job[r].o \notin InKitchen
      BY <2>1, <2>4 DEF InKitchen
    <3>2. Cardinality(InKitchen') = Cardinality(InKitchen) + 1
      BY <1>0, <3>1, Sizes, FS_AddElement
    <3>3. r \in Admitted
      BY <2>1, <2>4 DEF Admitted
    <3>4. Cardinality(Admitted') = Cardinality(Admitted) - 1
      BY <1>0, <2>2, <3>3, Sizes, FS_RemoveElement
    <3>5. /\ Cardinality(InKitchen) \in Nat /\ Cardinality(Admitted) \in Nat
          /\ Cardinality(Proc) \in Nat
      BY <1>0, Sizes
    <3> QED
      BY <3>2, <3>4, <3>5, ThresholdAssumption DEF OvershootInv
  <2> QED BY <2>1, <2>3, <2>4
<1>2. ASSUME NEW r \in Proc, NEW o \in Order, Confirm(r, o) PROVE Goal
  <2>1. /\ job' = [job EXCEPT ![r] = [pc |-> "confirm", o |-> o,
                                     to |-> Routed]]
        /\ status' = status
    BY <1>2 DEF Confirm, Become
  <2>2. InKitchen' = InKitchen
    BY <2>1 DEF InKitchen
  <2>3. CASE Routed = "queued"
    <3>1. Admitted' \subseteq Admitted
      BY <2>1, <2>3 DEF Admitted
    <3> QED BY <2>2, <3>1, FewerStep
  <2>4. CASE Routed # "queued"
    <3>1. ~(Cardinality(ActiveOrders) >= Threshold)
      BY <2>4 DEF Routed
    <3>2. InKitchen \subseteq ActiveOrders /\ ActiveOrders \subseteq Order
      BY DEF InKitchen, ActiveOrders
    <3>3. Cardinality(InKitchen) <= Cardinality(ActiveOrders)
      BY <3>2, Sizes, FS_Subset
    <3>4. Admitted' \subseteq Proc
      BY DEF Admitted
    <3>5. /\ Cardinality(InKitchen) \in Nat /\ Cardinality(ActiveOrders) \in Nat
          /\ Cardinality(Admitted') \in Nat /\ Cardinality(Proc) \in Nat
          /\ Cardinality(Admitted') <= Cardinality(Proc)
      BY <1>0, <3>2, <3>4, Sizes
    <3> QED
      BY <2>2, <3>1, <3>3, <3>5, ThresholdAssumption
  <2> QED BY <2>3, <2>4
<1>3. ASSUME NEW r \in Proc, ConfirmRefused(r) \/ ItemCommit(r) PROVE Goal
  <2>1. InKitchen' = InKitchen /\ Admitted' \subseteq Admitted
    BY <1>3 DEF ConfirmRefused, ItemCommit, Become, Idle, InKitchen, Admitted
  <2> QED BY <2>1, FewerStep
<1>4. ASSUME NEW o \in Order, create_order(o) \/ Redeliver(o) PROVE Goal
  <2>1. InKitchen' \subseteq InKitchen /\ Admitted' = Admitted
    BY <1>4 DEF create_order, Redeliver, InKitchen, Admitted
  <2> QED BY <2>1, FewerStep
<1>5. ASSUME NEW o \in Order, NEW to \in Graph!OrderStatus,
             update_status(o, to)
      PROVE  Goal
  <2>1. to # "confirmed" /\ (to = "preparing" => status[o] = "confirmed")
    BY <1>5 DEF update_status, Graph!VALID_TRANSITIONS, Graph!OrderStatus
  <2>2. InKitchen' \subseteq InKitchen /\ Admitted' = Admitted
    BY <1>5, <2>1 DEF update_status, InKitchen, Admitted
  <2> QED BY <2>2, FewerStep
<1>6. ASSUME NEW o \in Order, NEW r \in Proc, NEW i \in Item,
             NEW st \in PREPARATION_STATUSES,
             update_item_preparation(r, o, i, st)
      PROVE  Goal
  <2>1. InKitchen' = InKitchen /\ Admitted' \subseteq Admitted
    BY <1>6 DEF update_item_preparation, Become, InKitchen, Admitted
  <2> QED BY <2>1, FewerStep
<1>7. CASE UNCHANGED vars
  <2>1. InKitchen' = InKitchen /\ Admitted' = Admitted
    BY <1>7 DEF vars, InKitchen, Admitted
  <2> QED BY <2>1, FewerStep
<1>8. ASSUME NEW o \in Order, NEW s \in Station,
             NEW st \in PREPARATION_STATUSES,
             update_station_preparation(o, s, st)
      PROVE  FALSE
  BY <1>8 DEF update_station_preparation
<1> QED
  BY <1>1, <1>2, <1>3, <1>4, <1>5, <1>6, <1>7, <1>8 DEF Next, Step, Serve

(***************************************************************************)
(* The count that no lock protects (update_status): where stations reopen  *)
(* nothing, the kitchen holds at most the threshold and one order for each *)
(* further handler, whatever their number.                                 *)
(***************************************************************************)
THEOREM KitchenOvershootBounded == Spec => []OvershootBounded
<1>1. Init => OvershootInv
  <2> SUFFICES ASSUME Init PROVE OvershootInv
    OBVIOUS
  <2>1. InKitchen = {} /\ Admitted = {}
    BY DEF Init, Idle, InKitchen, Admitted
  <2> QED
    BY <2>1, FS_EmptySet, Sizes, ThresholdAssumption DEF OvershootInv
<1>2. TypeOK /\ LockHolds /\ OvershootInv /\ [Next]_vars => OvershootInv'
  <2> SUFFICES ASSUME TypeOK, LockHolds, OvershootInv, [Next]_vars,
                      "station" \notin entry'
               PROVE  Cardinality(InKitchen') + Cardinality(Admitted')
                        <= Threshold + Cardinality(Proc) - 1
    BY DEF OvershootInv
  <2>1. "station" \notin entry
    BY DEF Next, vars
  <2> QED BY <2>1, OvershootStep
<1>3. OvershootInv => OvershootBounded
  <2>1. InKitchen \subseteq Order /\ Admitted \subseteq Proc
    BY DEF InKitchen, Admitted
  <2>2. /\ Cardinality(InKitchen) \in Nat /\ Cardinality(Admitted) \in Nat
        /\ Cardinality(Proc) \in Nat
    BY <2>1, Sizes
  <2> QED
    BY <2>2, ThresholdAssumption DEF OvershootInv, OvershootBounded
<1> QED
  BY <1>1, <1>2, <1>3, KitchenTypeOK, KitchenLockHolds, PTL DEF Spec

=============================================================================
