---------------------------- MODULE Stock_proofs ----------------------------
(***************************************************************************)
(* What Stock guarantees for every set of orders, requests and handlers,   *)
(* and for every recipe and quantity.                                      *)
(***************************************************************************)
EXTENDS Stock, TLAPS

(***************************************************************************)
(* What a handler will write is possible: it was checked against the       *)
(* quantity the handler read, not against the one it overwrites.           *)
(***************************************************************************)
WritesPossible ==
    /\ qty \in 0 .. MaxQty
    /\ \A r \in Proc : job[r].seen + job[r].delta \in 0 .. MaxQty

StockInv == TypeOK /\ WritesPossible

(* What Start does to a typed state, whatever the handler read. *)
LEMMA StartStep ==
    ASSUME StockInv, NEW r \in Proc, NEW j \in Job,
           j.seen + j.delta \in 0 .. MaxQty, Start(r, j), entry' = entry
    PROVE  StockInv'
BY DEF StockInv, TypeOK, WritesPossible, Start, data

(* The record of a handler that is not running. *)
LEMMA IdleType == /\ Idle \in Job
                  /\ Idle.op = "idle" /\ Idle.seen = 0 /\ Idle.delta = 0
<1>1. 0 \in 0 .. MaxQty /\ 0 \in -MaxQty .. MaxQty
  BY QtyAssumption
<1> QED
  BY <1>1 DEF Idle, Job, Op, None

(* The record Reads builds. *)
LEMMA ReadsType ==
    ASSUME StockInv, NEW op \in Op,
           NEW t \in Order \cup Request \cup Batch \cup {None},
           NEW delta \in -MaxQty .. MaxQty
    PROVE  /\ Reads(op, t, delta) \in Job
           /\ Reads(op, t, delta).op = op
           /\ Reads(op, t, delta).t = t
           /\ Reads(op, t, delta).seen = qty
           /\ Reads(op, t, delta).delta = delta
<1>1. qty \in 0 .. MaxQty
  BY DEF StockInv, WritesPossible
<1> QED
  BY <1>1, IdleType DEF Reads, Job

(***************************************************************************)
(* The commit of any handler keeps every column in its type.               *)
(***************************************************************************)
LEMMA CommitStep ==
    ASSUME StockInv, NEW r \in Proc, Commit(r), entry' = entry
    PROVE  StockInv'
<1> DEFINE j == job[r]
<1> USE QtyAssumption
<1>1. j \in Job /\ j.seen + j.delta \in 0 .. MaxQty
  BY DEF StockInv, TypeOK, WritesPossible
<1>a. j.seen \in Int /\ j.delta \in Int
  <2>1. j.seen \in 0 .. MaxQty /\ j.delta \in -MaxQty .. MaxQty
    BY <1>1 DEF Job
  <2> QED
    BY <2>1
<1>2. qty' \in 0 .. MaxQty /\ ledger' \in Int /\ need' \in Recipes
  <2>1. /\ qty' = IF j.delta = 0 THEN qty ELSE j.seen + j.delta
        /\ ledger' = ledger + j.delta
        /\ need' = need
    BY DEF Commit, Movement
  <2> QED
    BY <1>1, <1>a, <2>1 DEF StockInv, TypeOK, WritesPossible
<1>3. batch' \in [Batch -> BatchRow]
  <2>1. ASSUME NEW b \in Batch PROVE BatchAfter(j)[b] \in BatchRow
    BY <1>1, <2>1
    DEF BatchAfter, Job, BatchRow, BatchStatus, StockInv, TypeOK
  <2> QED
    BY <2>1 DEF Commit, BatchAfter
<1>4. hidden' \in BOOLEAN
  BY DEF Commit
<1>5. /\ ostatus' \in [Order -> {"pending", "confirmed", "preparing",
                                 "cancelled"}]
      /\ taken' \in [Order -> Int]
  <2>1. \/ UNCHANGED <<ostatus, taken>>
        \/ /\ ostatus' = [ostatus EXCEPT ![j.t] = OrderAfter(j)]
           /\ taken' = [taken EXCEPT ![j.t] = @ - j.delta]
    BY DEF Commit
  <2> QED
    BY <1>a, <2>1 DEF OrderAfter, StockInv, TypeOK
<1>6. /\ request' \in [Request -> RequestRow]
      /\ applied' \in [Request -> Nat]
  <2>1. \/ request' = request
        \/ request' = [request EXCEPT ![j.t].status = RequestAfter(j)]
    BY DEF Commit
  <2>2. applied' = applied \/ applied' = [applied EXCEPT ![j.t] = @ + 1]
    BY DEF Commit
  <2>3. request \in [Request -> RequestRow] /\ applied \in [Request -> Nat]
    BY DEF StockInv, TypeOK
  <2>4. request' \in [Request -> RequestRow]
    BY <2>1, <2>3 DEF RequestAfter, RequestRow
  <2>5. applied' \in [Request -> Nat]
    BY <2>2, <2>3
  <2> QED
    BY <2>4, <2>5
<1>7. job' = [job EXCEPT ![r] = Idle]
  BY DEF Commit
<1> QED
  BY <1>2, <1>3, <1>4, <1>5, <1>6, <1>7, IdleType
  DEF StockInv, TypeOK, WritesPossible

(***************************************************************************)
(* What any handler has read when it starts: the quantity of that moment,  *)
(* a change that the quantity allows and, for an order, an order in the    *)
(* right status that nobody else has locked and the amount of its recipe;  *)
(* for a review, a request that waits for one.  Orders and adjustments     *)
(* that leave too little hide the product, and nothing else lowers the     *)
(* quantity but discards, corrections of a batch and approvals.            *)
(***************************************************************************)
Sound(j) ==
    /\ j \in Job
    /\ j.seen = qty
    /\ qty + j.delta \in 0 .. MaxQty
    /\ j.op = "deduct" => /\ j.t \in Order /\ ostatus[j.t] = "pending"
                          /\ j.delta = -need /\ ~Locked(j.t)
    /\ j.op = "restore" => /\ j.t \in Order /\ ostatus[j.t] = "confirmed"
                           /\ j.delta = need /\ ~Locked(j.t)
    /\ j.op \in {"approve", "reject"} =>
         j.t \in Request /\ request[j.t].status = "pending"
    /\ j.delta < 0 =>
         \/ j.op = "approve" \/ j.op \in {"discard", "patch"} \cap entry
         \/ qty + j.delta < need => j.hide

LEMMA HandlerStarts ==
    ASSUME StockInv, NEW r \in Proc, Handler(r)
    PROVE  \E j : Sound(j) /\ Start(r, j)
<1> USE QtyAssumption, RecipeAssumption
<1>0. /\ qty \in 0 .. MaxQty /\ need \in Nat
      /\ \A b \in Batch : batch[b].quantity \in 0 .. MaxQty
                          /\ batch[b].status \in BatchStatus
      /\ \A q \in Request : request[q].delta \in -MaxQty .. MaxQty
      /\ Expired \subseteq Batch
  BY DEF StockInv, TypeOK, WritesPossible, BatchRow, RequestRow, Expired
<1>1. CASE mark_expired_batches(r)
  <2> DEFINE R == Reads("mark", None, 0)
  <2>1. "mark" \in Op /\ 0 \in -MaxQty .. MaxQty BY DEF Op
  <2>2. R \in Job /\ R.op = "mark" /\ R.seen = qty /\ R.delta = 0
    BY <2>1, ReadsType
  <2> DEFINE j == [R EXCEPT !.marks = Expired]
  <2>3. Start(r, j)
    BY <1>1 DEF mark_expired_batches
  <2> HIDE DEF R
  <2>4. qty + 0 \in 0 .. MaxQty /\ j.delta = 0 /\ ~(0 < 0)
    BY <1>0, <2>2
  <2>5. Sound(j)
    BY <1>0, <2>2, <2>4 DEF Job, Sound
  <2> HIDE DEF j
  <2> QED BY <2>3, <2>5
<1>2. ASSUME NEW o \in Order, deduct_for_order(r, o)
      PROVE  \E j : Sound(j) /\ Start(r, j)
  <2> DEFINE R == Reads("deduct", o, -need)
  <2>1. "deduct" \in Op BY DEF Op
  <2>2. -need \in -MaxQty .. MaxQty /\ qty - need \in 0 .. MaxQty
    BY <1>0, <1>2 DEF deduct_for_order
  <2>3. /\ R \in Job /\ R.op = "deduct" /\ R.t = o /\ R.seen = qty
        /\ R.delta = -need
    BY <2>1, <2>2, ReadsType
  <2> DEFINE h == Hides(-need)
             j == [R EXCEPT !.marks = Expired, !.hide = h]
  <2>4. Start(r, j)
    BY <1>2 DEF deduct_for_order
  <2>5. h \in BOOLEAN /\ (-need < 0 /\ qty - need < need => h)
    BY <1>0 DEF Hides, Unproducible
  <2>6. ostatus[o] = "pending" /\ ~Locked(o)
    BY <1>2 DEF deduct_for_order
  <2> HIDE DEF R, h
  <2>7. Sound(j)
    BY <1>0, <2>2, <2>3, <2>5, <2>6 DEF Job, Sound
  <2> HIDE DEF j
  <2> QED BY <2>4, <2>7
<1>3. ASSUME NEW o \in Order, restore_for_order(r, o)
      PROVE  \E j : Sound(j) /\ Start(r, j)
  <2> DEFINE j == Reads("restore", o, need)
  <2>1. "restore" \in Op BY DEF Op
  <2>2. need \in -MaxQty .. MaxQty /\ qty + need \in 0 .. MaxQty
    BY <1>0, <1>3 DEF restore_for_order, Possible
  <2>3. /\ j \in Job /\ j.op = "restore" /\ j.t = o /\ j.seen = qty
        /\ j.delta = need
    BY <2>1, <2>2, ReadsType
  <2>4. ostatus[o] = "confirmed" /\ ~Locked(o) /\ Start(r, j)
    BY <1>3 DEF restore_for_order
  <2> HIDE DEF j
  <2> QED BY <2>2, <2>3, <2>4 DEF Sound
<1>4. ASSUME NEW b \in Batch, NEW n \in Amount, NewBatch(r, b, n)
      PROVE  \E j : Sound(j) /\ Start(r, j)
  <2> DEFINE R == Reads("batch", b, n)
             j == [R EXCEPT !.doc = "sealed", !.n = n]
  <2>1. "batch" \in Op /\ n \in -MaxQty .. MaxQty /\ n \in 0 .. MaxQty
    BY DEF Op, Amount
  <2>2. R \in Job /\ R.op = "batch" /\ R.seen = qty /\ R.delta = n
    BY <2>1, ReadsType
  <2>3. qty + n \in 0 .. MaxQty /\ Start(r, j)
    BY <1>4 DEF NewBatch, Possible
  <2> HIDE DEF R
  <2>a. j.delta = n /\ ~(n < 0)
    BY <2>1, <2>2, QtyAssumption
  <2>4. Sound(j)
    BY <2>1, <2>2, <2>3, <2>a DEF Job, Sound, BatchStatus
  <2> HIDE DEF j
  <2> QED BY <2>3, <2>4
<1>5. ASSUME NEW b \in Batch, NEW n \in Amount,
             NEW s \in BatchStatus \ {"absent"}, NEW renew \in BOOLEAN,
             patch_batch(r, b, n, s, renew)
      PROVE  \E j : Sound(j) /\ Start(r, j)
  <2> DEFINE d == n - batch[b].quantity
             R == Reads("patch", b, d)
             c == IF s = batch[b].status THEN "" ELSE s
             j == [R EXCEPT !.n = n, !.renew = renew, !.doc = c]
  <2>a. "patch" \in Op BY DEF Op
  <2>b. n \in 0 .. MaxQty BY DEF Amount
  <2>c. batch[b].quantity \in 0 .. MaxQty BY <1>0
  <2>1. d \in -MaxQty .. MaxQty BY <2>b, <2>c
  <2>d. c \in BatchStatus \cup {""} OBVIOUS
  <2>2. qty + d \in 0 .. MaxQty /\ Start(r, j) /\ "patch" \in entry
    BY <1>5 DEF patch_batch, Possible
  <2> HIDE DEF c, d
  <2>3. R \in Job /\ R.op = "patch" /\ R.seen = qty /\ R.delta = d
    BY <2>a, <2>1, ReadsType
  <2> HIDE DEF R
  <2>4. Sound(j)
    BY <2>b, <2>d, <2>2, <2>3 DEF Job, Sound
  <2> HIDE DEF j
  <2> QED BY <2>2, <2>4
<1>6. ASSUME NEW b \in Batch, open_batch(r, b)
      PROVE  \E j : Sound(j) /\ Start(r, j)
  <2> DEFINE R == Reads("open", b, 0)
             j == [R EXCEPT !.doc = "opened"]
  <2>1. "open" \in Op /\ 0 \in -MaxQty .. MaxQty BY DEF Op
  <2>2. R \in Job /\ R.op = "open" /\ R.seen = qty /\ R.delta = 0
    BY <2>1, ReadsType
  <2>3. Start(r, j)
    BY <1>6 DEF open_batch
  <2> HIDE DEF R
  <2>4. qty + 0 \in 0 .. MaxQty /\ j.delta = 0 /\ ~(0 < 0)
    BY <1>0, <2>2
  <2>5. Sound(j)
    BY <1>0, <2>2, <2>4 DEF Job, Sound, BatchStatus
  <2> HIDE DEF j
  <2> QED BY <2>3, <2>5
<1>7. ASSUME NEW b \in Batch, discard_batch(r, b)
      PROVE  \E j : Sound(j) /\ Start(r, j)
  <2> DEFINE d == -batch[b].quantity
             R == Reads("discard", b, d)
             j == [R EXCEPT !.doc = "discarded"]
  <2>1. "discard" \in Op /\ d \in -MaxQty .. MaxQty BY <1>0 DEF Op
  <2>2. qty + d \in 0 .. MaxQty /\ Start(r, j) /\ "discard" \in entry
    BY <1>7 DEF discard_batch, Possible
  <2> HIDE DEF d
  <2>3. R \in Job /\ R.op = "discard" /\ R.seen = qty /\ R.delta = d
    BY <2>1, ReadsType
  <2> HIDE DEF R
  <2>4. Sound(j)
    BY <2>2, <2>3 DEF Job, Sound, BatchStatus
  <2> HIDE DEF j
  <2> QED BY <2>2, <2>4
<1>8. ASSUME NEW q \in Request, \/ approve_adjustment_request(r, q)
                                \/ reject_adjustment_request(r, q)
      PROVE  \E j : Sound(j) /\ Start(r, j)
  <2>1. PICK op \in {"approve", "reject"}, d \in -MaxQty .. MaxQty :
            /\ qty + d \in 0 .. MaxQty /\ Start(r, Reads(op, q, d))
            /\ request[q].status = "pending" /\ (op = "reject" => d = 0)
    BY <1>0, <1>8
    DEF approve_adjustment_request, reject_adjustment_request, Possible
  <2> DEFINE j == Reads(op, q, d)
  <2>2. op \in Op BY DEF Op
  <2>3. /\ j \in Job /\ j.op = op /\ j.t = q /\ j.seen = qty
        /\ j.delta = d
    BY <2>2, ReadsType
  <2>4. Start(r, j) BY <2>1
  <2> HIDE DEF j
  <2> QED BY <2>1, <2>3, <2>4 DEF Sound
<1>9. ASSUME NEW delta \in -MaxQty .. MaxQty,
             adjust_ingredient_stock(r, delta)
      PROVE  \E j : Sound(j) /\ Start(r, j)
  <2> DEFINE R == Reads("adjust", None, delta)
             m == IF delta < 0 THEN Expired ELSE {}
             h == Hides(delta)
             j == [R EXCEPT !.marks = m, !.hide = h]
  <2>1. "adjust" \in Op BY DEF Op
  <2>2. R \in Job /\ R.op = "adjust" /\ R.seen = qty /\ R.delta = delta
    BY <2>1, ReadsType
  <2>3. qty + delta \in 0 .. MaxQty /\ Start(r, j)
    BY <1>9 DEF adjust_ingredient_stock, Possible
  <2>4. /\ m \subseteq Batch /\ h \in BOOLEAN
        /\ delta < 0 /\ qty + delta < need => h
    BY <1>0, <2>3 DEF Hides, Unproducible
  <2> HIDE DEF R, m, h
  <2>5. Sound(j)
    BY <2>2, <2>3, <2>4 DEF Job, Sound
  <2> HIDE DEF j
  <2> QED BY <2>3, <2>5
<1> QED
  BY <1>1, <1>2, <1>3, <1>4, <1>5, <1>6, <1>7, <1>8, <1>9
  DEF Handler, supply, create_batch

(* Every step keeps the types and the possible writes. *)
LEMMA StockStep ==
    ASSUME StockInv, [Next]_vars
    PROVE  StockInv'
<1>0. entry' = entry
  BY DEF Next, vars
<1>1. ASSUME NEW r \in Proc, Handler(r) PROVE StockInv'
  <2>1. PICK j : Sound(j) /\ Start(r, j)
    BY <1>1, HandlerStarts
  <2>2. j \in Job /\ j.seen + j.delta \in 0 .. MaxQty
    BY <2>1 DEF Sound
  <2> QED BY <1>0, <2>1, <2>2, StartStep
<1>2. ASSUME NEW r \in Proc, Commit(r) PROVE StockInv'
  BY <1>0, <1>2, CommitStep
<1>3. ASSUME NEW r \in Proc, Die(r) PROVE StockInv'
  <2>1. 0 + 0 \in 0 .. MaxQty BY QtyAssumption
  <2> QED
    BY <1>0, <1>3, <2>1, IdleType
    DEF Die, data, StockInv, TypeOK, WritesPossible
<1>4. ASSUME NEW b \in Batch, Lapse(b) PROVE StockInv'
  BY <1>0, <1>4 DEF Lapse, StockInv, TypeOK, WritesPossible, BatchRow
<1>5. ASSUME NEW o \in Order, Prepare(o) PROVE StockInv'
  BY <1>0, <1>5 DEF Prepare, StockInv, TypeOK, WritesPossible
<1>6. ASSUME NEW q \in Request, NEW delta \in -MaxQty .. MaxQty,
             create_adjustment_request(q, delta)
      PROVE  StockInv'
  BY <1>0, <1>6
  DEF create_adjustment_request, StockInv, TypeOK, WritesPossible, RequestRow
<1>7. ASSUME NEW n \in Recipes, replace_recipe(n) PROVE StockInv'
  <2>1. /\ need' = n /\ qty' = qty /\ ledger' = ledger /\ job' = job
        /\ taken' = taken /\ applied' = applied /\ request' = request
        /\ ostatus' = ostatus
    BY <1>7 DEF replace_recipe
  <2>2. hidden' \in BOOLEAN
    BY <1>7 DEF replace_recipe, StockInv, TypeOK
  <2>3. batch' \in [Batch -> BatchRow]
    BY <1>7 DEF replace_recipe, StockInv, TypeOK, BatchRow, BatchStatus
  <2> QED
    BY <1>0, <2>1, <2>2, <2>3 DEF StockInv, TypeOK, WritesPossible
<1>8. ASSUME NEW available \in BOOLEAN,
             set_product_availability_override(available)
      PROVE  StockInv'
  BY <1>0, <1>8
  DEF set_product_availability_override, StockInv, TypeOK, WritesPossible
<1>9. CASE UNCHANGED vars
  BY <1>9 DEF vars, StockInv, TypeOK, WritesPossible
<1> QED
  BY <1>1, <1>2, <1>3, <1>4, <1>5, <1>6, <1>7, <1>8, <1>9
  DEF Next, Step

LEMMA StockInit ==
    ASSUME Init
    PROVE  StockInv
<1> USE QtyAssumption
<1>1. /\ Initial \in 0 .. MaxQty /\ Initial \in Int /\ 0 \in 0 .. MaxQty
      /\ 0 \in -MaxQty .. MaxQty /\ 0 + 0 \in 0 .. MaxQty
  BY StartAssumption
<1>2. batch \in [Batch -> BatchRow]
  BY <1>1 DEF Init, NoBatch, BatchRow, BatchStatus
<1>3. request \in [Request -> RequestRow]
  BY <1>1 DEF Init, RequestRow
<1>4. /\ job \in [Proc -> Job]
      /\ \A r \in Proc : job[r].seen + job[r].delta \in 0 .. MaxQty
  BY <1>1, IdleType DEF Init
<1>5. hidden \in BOOLEAN
  BY DEF Init
<1>6. /\ taken \in [Order -> Int] /\ applied \in [Request -> Nat]
      /\ ostatus \in [Order -> {"pending", "confirmed", "preparing",
                                "cancelled"}]
  BY DEF Init
<1>7. /\ qty = Initial /\ ledger = Initial /\ need \in Recipes
      /\ entry \in Profiles
  BY DEF Init
<1> QED
  BY <1>1, <1>2, <1>3, <1>4, <1>5, <1>6, <1>7
  DEF StockInv, TypeOK, WritesPossible

(* Every column keeps its type, whatever handlers overlap. *)
THEOREM StockTypeOK == Spec => []TypeOK
<1>1. StockInv => TypeOK BY DEF StockInv
<1> QED BY <1>1, StockInit, StockStep, PTL DEF Spec

(***************************************************************************)
(* No overlap of handlers makes the quantity negative: each checked its    *)
(* write against the quantity it read (deduct_for_order, discard_batch).   *)
(***************************************************************************)
THEOREM StockNeverNegative == Spec => []NeverNegative
<1>1. StockInv => NeverNegative
  BY DEF StockInv, WritesPossible, NeverNegative
<1> QED BY <1>1, StockInit, StockStep, PTL DEF Spec

-----------------------------------------------------------------------------
(***************************************************************************)
(* The movements of an order.  The strengthening is what update_status     *)
(* relies on: a handler between deduct_for_order or restore_for_order and  *)
(* its commit has the order to itself, finds it in the status it read, and *)
(* will write the amount of the recipe.                                    *)
(***************************************************************************)
OrderOp == {"deduct", "restore"}

Deducted ==
    \A o \in Order :
        taken[o] = IF ostatus[o] \in {"confirmed", "preparing"}
                   THEN need ELSE 0

OrderJobs ==
    \A r \in Proc :
        job[r].op \in OrderOp =>
            /\ job[r].t \in Order
            /\ job[r].op = "deduct" => /\ ostatus[job[r].t] = "pending"
                                       /\ job[r].delta = -need
            /\ job[r].op = "restore" => /\ ostatus[job[r].t] = "confirmed"
                                        /\ job[r].delta = need
            /\ \A s \in Proc : job[s].op \in OrderOp /\ job[s].t = job[r].t
                               => s = r

DeductInv == StockInv /\ ("recipe" \notin entry => OrderJobs /\ Deducted)

LEMMA DeductStep ==
    ASSUME StockInv, OrderJobs, Deducted, "recipe" \notin entry, [Next]_vars
    PROVE  OrderJobs' /\ Deducted'
<1>0. StockInv /\ StockInv'
  BY StockStep
<1>1. ASSUME NEW r \in Proc, Handler(r) PROVE OrderJobs' /\ Deducted'
  <2>1. PICK j : Sound(j) /\ Start(r, j)
    BY <1>0, <1>1, HandlerStarts
  <2>2. Deducted'
    BY <2>1 DEF Start, data, Deducted
  <2>3. /\ job' = [job EXCEPT ![r] = j]
        /\ ostatus' = ostatus /\ need' = need
        /\ job \in [Proc -> Job]
    BY <1>0, <2>1 DEF Start, data, StockInv, TypeOK
  <2>4. j.op \in OrderOp =>
            \A s \in Proc : job[s].op \in OrderOp => job[s].t # j.t
    BY <2>1 DEF Sound, Locked, OrderOp
  <2>5. OrderJobs'
    BY <2>1, <2>3, <2>4 DEF OrderJobs, OrderOp, Sound
  <2> QED BY <2>2, <2>5
<1>2. ASSUME NEW r \in Proc, Commit(r) PROVE OrderJobs' /\ Deducted'
  <2> DEFINE j == job[r]
  <2>1. /\ job' = [job EXCEPT ![r] = Idle] /\ need' = need
        /\ job \in [Proc -> Job] /\ Idle.op = "idle"
    BY <1>0, <1>2, IdleType DEF Commit, StockInv, TypeOK
  <2>2. /\ ostatus \in [Order -> {"pending", "confirmed", "preparing",
                                  "cancelled"}]
        /\ taken \in [Order -> Int] /\ need \in Int
    BY <1>0, RecipeAssumption DEF StockInv, TypeOK
  <2>3. CASE j.op \in OrderOp
    <3>1. /\ j.t \in Order
          /\ ostatus' = [ostatus EXCEPT ![j.t] = OrderAfter(j)]
          /\ taken' = [taken EXCEPT ![j.t] = @ - j.delta]
      BY <1>2, <2>3 DEF Commit, OrderJobs, OrderOp
    <3>2. OrderJobs'
      BY <2>1, <2>2, <2>3, <3>1 DEF OrderJobs, OrderOp
    <3>3. CASE j.op = "deduct"
      <4>1. /\ j.delta = -need /\ taken[j.t] = 0
            /\ OrderAfter(j) = "confirmed"
        BY <2>3, <3>1, <3>3
        DEF OrderJobs, Deducted, OrderAfter
      <4>2. taken[j.t] - j.delta = need
        BY <2>2, <4>1
      <4> QED BY <2>1, <2>2, <3>1, <3>2, <4>1, <4>2
              DEF Deducted
    <3>4. CASE j.op = "restore"
      <4>1. /\ j.delta = need /\ taken[j.t] = need
            /\ OrderAfter(j) = "cancelled"
        BY <2>3, <3>1, <3>4
        DEF OrderJobs, Deducted, OrderAfter
      <4>2. taken[j.t] - j.delta = 0
        BY <2>2, <4>1
      <4> QED BY <2>1, <2>2, <3>1, <3>2, <4>1, <4>2
              DEF Deducted
    <3> QED BY <2>3, <3>3, <3>4 DEF OrderOp
  <2>4. CASE j.op \notin OrderOp
    <3>1. ostatus' = ostatus /\ taken' = taken
      BY <1>2, <2>4 DEF Commit, OrderOp
    <3> QED BY <2>1, <3>1 DEF OrderJobs, OrderOp, Deducted
  <2> QED BY <2>3, <2>4
<1>3. ASSUME NEW r \in Proc, Die(r) PROVE OrderJobs' /\ Deducted'
  <2>1. /\ job' = [job EXCEPT ![r] = Idle] /\ need' = need
        /\ ostatus' = ostatus /\ taken' = taken
        /\ job \in [Proc -> Job] /\ Idle.op = "idle"
    BY <1>0, <1>3, IdleType DEF Die, data, StockInv, TypeOK
  <2> QED BY <2>1 DEF OrderJobs, OrderOp, Deducted
<1>4. ASSUME NEW o \in Order, Prepare(o) PROVE OrderJobs' /\ Deducted'
  <2>1. /\ ostatus' = [ostatus EXCEPT ![o] = "preparing"]
        /\ ostatus[o] = "confirmed" /\ ~Locked(o)
        /\ job' = job /\ need' = need /\ taken' = taken
        /\ ostatus \in [Order -> {"pending", "confirmed", "preparing",
                                  "cancelled"}]
    BY <1>0, <1>4 DEF Prepare, StockInv, TypeOK
  <2>2. Deducted'
    BY <2>1 DEF Deducted
  <2>3. OrderJobs'
    BY <2>1 DEF OrderJobs, OrderOp, Locked
  <2> QED BY <2>2, <2>3
<1>5. ASSUME \/ \E b \in Batch : Lapse(b)
             \/ \E q \in Request, delta \in -MaxQty .. MaxQty :
                   create_adjustment_request(q, delta)
             \/ \E available \in BOOLEAN :
                   set_product_availability_override(available)
             \/ UNCHANGED vars
      PROVE  OrderJobs' /\ Deducted'
  <2>1. job' = job /\ need' = need /\ taken' = taken /\ ostatus' = ostatus
    BY <1>5 DEF Lapse, create_adjustment_request,
                set_product_availability_override, vars
  <2> QED BY <2>1 DEF OrderJobs, Deducted
<1>6. \A n \in Recipes : ~replace_recipe(n)
  BY DEF replace_recipe
<1> QED
  BY <1>0, <1>1, <1>2, <1>3, <1>4, <1>5, <1>6 DEF Next, Step

(***************************************************************************)
(* The movements of every order add up to its recipe while it is confirmed *)
(* and to nothing before and after, for every overlap of handlers and as   *)
(* long as no recipe is edited (deduct_for_order, restore_for_order).      *)
(***************************************************************************)
THEOREM StockDeductedOnce == Spec => []DeductedOnce
<1>1. Init => DeductInv
  <2> SUFFICES ASSUME Init PROVE DeductInv
    OBVIOUS
  <2>1. /\ job = [r \in Proc |-> Idle] /\ Idle.op = "idle"
        /\ taken = [o \in Order |-> 0]
        /\ ostatus = [o \in Order |-> "pending"]
    BY IdleType DEF Init
  <2> QED
    BY <2>1, StockInit DEF DeductInv, OrderJobs, OrderOp, Deducted
<1>2. DeductInv /\ [Next]_vars => DeductInv'
  <2> SUFFICES ASSUME DeductInv, [Next]_vars PROVE DeductInv'
    OBVIOUS
  <2>1. entry' = entry
    BY DEF Next, vars
  <2>2. StockInv /\ StockInv'
    BY StockStep DEF DeductInv
  <2>3. CASE "recipe" \notin entry
    <3>1. OrderJobs' /\ Deducted'
      BY <2>2, <2>3, DeductStep DEF DeductInv
    <3> QED BY <2>2, <3>1 DEF DeductInv
  <2>4. CASE "recipe" \in entry
    BY <2>1, <2>2, <2>4 DEF DeductInv
  <2> QED BY <2>3, <2>4
<1>3. DeductInv => DeductedOnce
  BY DEF DeductInv, Deducted, DeductedOnce
<1> QED BY <1>1, <1>2, <1>3, PTL DEF Spec

-----------------------------------------------------------------------------
(***************************************************************************)
(* Handlers one after the other: at most one is between its reads and its  *)
(* commit, and the quantity it read is still the quantity.                 *)
(***************************************************************************)
OneByOne ==
    /\ qty = ledger
    /\ \A r \in Proc : job[r] # Idle =>
         /\ job[r].seen = qty
         /\ \A s \in Proc : job[s] # Idle => s = r

LedgerInv == StockInv /\ (Serial => OneByOne)

LEMMA SerialStep ==
    ASSUME StockInv, OneByOne, Serial, [Next]_vars
    PROVE  OneByOne'
<1>a. /\ job \in [Proc -> Job] /\ qty = ledger /\ qty \in Int
      /\ \A r \in Proc : job[r] # Idle =>
           /\ job[r].seen = qty
           /\ \A s \in Proc : job[s] # Idle => s = r
  BY DEF OneByOne, StockInv, TypeOK
<1>1. ASSUME NEW r \in Proc, Handler(r) PROVE OneByOne'
  <2>1. PICK j : Sound(j) /\ Start(r, j)
    BY <1>1, HandlerStarts
  <2>2. /\ job' = [job EXCEPT ![r] = j] /\ j.seen = qty
        /\ qty' = qty /\ ledger' = ledger
        /\ \A s \in Proc : job[s] = Idle
    BY <2>1 DEF Start, data, Sound
  <2> QED BY <1>a, <2>2 DEF OneByOne
<1>2. ASSUME NEW r \in Proc, Commit(r) PROVE OneByOne'
  <2>1. /\ job' = [job EXCEPT ![r] = Idle] /\ job[r] # Idle
        /\ qty' = IF job[r].delta = 0 THEN qty
                  ELSE job[r].seen + job[r].delta
        /\ ledger' = ledger + job[r].delta
    BY <1>2 DEF Commit, Movement
  <2>2. job[r].seen = qty /\ \A s \in Proc : job[s] # Idle => s = r
    BY <1>a, <2>1
  <2>3. job[r].delta \in -MaxQty .. MaxQty
    BY <1>a DEF Job
  <2>4. qty' = ledger'
    BY <1>a, <2>1, <2>2, <2>3, QtyAssumption
  <2>5. \A s \in Proc : job'[s] = Idle
    BY <1>a, <2>1, <2>2
  <2> QED BY <2>4, <2>5 DEF OneByOne
<1>3. ASSUME NEW r \in Proc, Die(r) PROVE OneByOne'
  <2>1. /\ job' = [job EXCEPT ![r] = Idle] /\ qty' = qty
        /\ ledger' = ledger
    BY <1>3 DEF Die, data
  <2> QED BY <1>a, <2>1 DEF OneByOne
<1>4. ASSUME \/ \E b \in Batch : Lapse(b)
             \/ \E o \in Order : Prepare(o)
             \/ \E q \in Request, delta \in -MaxQty .. MaxQty :
                   create_adjustment_request(q, delta)
             \/ \E n \in Recipes : replace_recipe(n)
             \/ \E available \in BOOLEAN :
                   set_product_availability_override(available)
             \/ UNCHANGED vars
      PROVE  OneByOne'
  <2>1. job' = job /\ qty' = qty /\ ledger' = ledger
    BY <1>4 DEF Lapse, Prepare, create_adjustment_request, replace_recipe,
                set_product_availability_override, vars
  <2> QED BY <1>a, <2>1 DEF OneByOne
<1> QED BY <1>1, <1>2, <1>3, <1>4 DEF Next, Step

(***************************************************************************)
(* With one handler at a time the movements explain the quantity; two that *)
(* overlap are enough to lose a change of it (supply, deduct_for_order,    *)
(* adjust_ingredient_stock).                                               *)
(***************************************************************************)
THEOREM StockLedgerExplainsQty == Spec => []LedgerExplainsQty
<1>1. Init => LedgerInv
  <2> SUFFICES ASSUME Init PROVE LedgerInv
    OBVIOUS
  <2>1. job = [r \in Proc |-> Idle] /\ qty = Initial /\ ledger = Initial
    BY DEF Init
  <2> QED
    BY <2>1, StockInit DEF LedgerInv, OneByOne
<1>2. LedgerInv /\ [Next]_vars => LedgerInv'
  <2> SUFFICES ASSUME LedgerInv, [Next]_vars PROVE LedgerInv'
    OBVIOUS
  <2>1. entry' = entry /\ (Serial' <=> Serial)
    BY DEF Next, vars, Serial
  <2>2. StockInv /\ StockInv'
    BY StockStep DEF LedgerInv
  <2>3. CASE Serial
    <3>1. OneByOne'
      BY <2>2, <2>3, SerialStep DEF LedgerInv
    <3> QED BY <2>2, <3>1 DEF LedgerInv
  <2>4. CASE ~Serial
    BY <2>1, <2>2, <2>4 DEF LedgerInv
  <2> QED BY <2>3, <2>4
<1>3. LedgerInv => LedgerExplainsQty
  BY DEF LedgerInv, OneByOne, LedgerExplainsQty, MovementsExplainQty
<1> QED BY <1>1, <1>2, <1>3, PTL DEF Spec

-----------------------------------------------------------------------------
(***************************************************************************)
(* A review between its reads and its commit has found the request waiting *)
(* and, alone as it is, finds it waiting still.                            *)
(***************************************************************************)
ReviewJobs ==
    \A r \in Proc : job[r].op \in {"approve", "reject"} =>
        job[r].t \in Request /\ request[job[r].t].status = "pending"

Reviewed ==
    \A q \in Request :
        applied[q] = IF request[q].status = "approved" THEN 1 ELSE 0

ReviewInv == LedgerInv /\ (Serial => ReviewJobs /\ Reviewed)

LEMMA ReviewStep ==
    ASSUME StockInv, OneByOne, ReviewJobs, Reviewed, Serial, [Next]_vars
    PROVE  ReviewJobs' /\ Reviewed'
<1>0. /\ job \in [Proc -> Job] /\ applied \in [Request -> Nat]
      /\ request \in [Request -> RequestRow]
      /\ Idle.op = "idle"
  BY IdleType DEF StockInv, TypeOK
<1>1. ASSUME NEW r \in Proc, Handler(r) PROVE ReviewJobs' /\ Reviewed'
  <2>1. PICK j : Sound(j) /\ Start(r, j)
    BY <1>1, HandlerStarts
  <2>2. /\ job' = [job EXCEPT ![r] = j] /\ request' = request
        /\ applied' = applied
    BY <2>1 DEF Start, data
  <2>3. j.op \in {"approve", "reject"} =>
            j.t \in Request /\ request[j.t].status = "pending"
    BY <2>1 DEF Sound
  <2> QED BY <1>0, <2>2, <2>3 DEF ReviewJobs, Reviewed
<1>2. ASSUME NEW r \in Proc, Commit(r) PROVE ReviewJobs' /\ Reviewed'
  <2> DEFINE j == job[r]
  <2>1. /\ job' = [job EXCEPT ![r] = Idle] /\ j # Idle
        /\ request' = IF j.op \in {"approve", "reject"}
                      THEN [request EXCEPT ![j.t].status = RequestAfter(j)]
                      ELSE request
        /\ applied' = IF j.op = "approve" THEN [applied EXCEPT ![j.t] = @ + 1]
                      ELSE applied
    BY <1>2 DEF Commit
  <2>2. \A s \in Proc : job[s] # Idle => s = r
    BY <2>1 DEF OneByOne
  <2>3. ReviewJobs'
    BY <1>0, <2>1, <2>2 DEF ReviewJobs
  <2>4. Reviewed'
    <3>1. CASE j.op = "approve"
      <4>1. j.t \in Request /\ applied[j.t] = 0
        BY <3>1 DEF ReviewJobs, Reviewed
      <4> QED BY <1>0, <2>1, <3>1, <4>1 DEF Reviewed, RequestAfter, RequestRow
    <3>2. CASE j.op = "reject"
      <4>1. j.t \in Request /\ applied[j.t] = 0
        BY <3>2 DEF ReviewJobs, Reviewed
      <4> QED BY <1>0, <2>1, <3>2, <4>1 DEF Reviewed, RequestAfter, RequestRow
    <3>3. CASE j.op \notin {"approve", "reject"}
      BY <2>1, <3>3 DEF Reviewed
    <3> QED BY <3>1, <3>2, <3>3
  <2> QED BY <2>3, <2>4
<1>3. ASSUME NEW r \in Proc, Die(r) PROVE ReviewJobs' /\ Reviewed'
  <2>1. /\ job' = [job EXCEPT ![r] = Idle] /\ request' = request
        /\ applied' = applied
    BY <1>3 DEF Die, data
  <2> QED BY <1>0, <2>1 DEF ReviewJobs, Reviewed
<1>4. ASSUME NEW q \in Request, NEW delta \in -MaxQty .. MaxQty,
             create_adjustment_request(q, delta)
      PROVE  ReviewJobs' /\ Reviewed'
  <2>1. /\ request[q].status = "absent" /\ job' = job /\ applied' = applied
        /\ request' = [request EXCEPT ![q] = [status |-> "pending",
                                             delta |-> delta]]
    BY <1>4 DEF create_adjustment_request
  <2> QED BY <1>0, <2>1 DEF ReviewJobs, Reviewed
<1>5. ASSUME \/ \E b \in Batch : Lapse(b)
             \/ \E o \in Order : Prepare(o)
             \/ \E n \in Recipes : replace_recipe(n)
             \/ \E available \in BOOLEAN :
                   set_product_availability_override(available)
             \/ UNCHANGED vars
      PROVE  ReviewJobs' /\ Reviewed'
  <2>1. job' = job /\ request' = request /\ applied' = applied
    BY <1>5 DEF Lapse, Prepare, replace_recipe,
                set_product_availability_override, vars
  <2> QED BY <2>1 DEF ReviewJobs, Reviewed
<1> QED BY <1>1, <1>2, <1>3, <1>4, <1>5 DEF Next, Step

(***************************************************************************)
(* With one handler at a time, a request's change is applied when and only *)
(* when it was approved, and once (approve_adjustment_request,             *)
(* reject_adjustment_request).                                             *)
(***************************************************************************)
THEOREM StockReviewedOnce == Spec => []ReviewedOnce
<1>1. Init => ReviewInv
  <2> SUFFICES ASSUME Init PROVE ReviewInv
    OBVIOUS
  <2>1. /\ job = [r \in Proc |-> Idle] /\ qty = Initial /\ ledger = Initial
        /\ request = [q \in Request |-> [status |-> "absent", delta |-> 0]]
        /\ applied = [q \in Request |-> 0] /\ Idle.op = "idle"
    BY IdleType DEF Init
  <2>2. LedgerInv
    BY <2>1, StockInit DEF LedgerInv, OneByOne
  <2> QED
    BY <2>1, <2>2 DEF ReviewInv, ReviewJobs, Reviewed
<1>2. ReviewInv /\ [Next]_vars => ReviewInv'
  <2> SUFFICES ASSUME ReviewInv, [Next]_vars PROVE ReviewInv'
    OBVIOUS
  <2>1. Serial' <=> Serial
    BY DEF Next, vars, Serial
  <2>2. StockInv /\ StockInv' /\ (Serial => OneByOne)
    BY StockStep DEF ReviewInv, LedgerInv
  <2>3. CASE Serial
    <3>1. OneByOne' /\ ReviewJobs' /\ Reviewed'
      BY <2>2, <2>3, SerialStep, ReviewStep DEF ReviewInv
    <3> QED BY <2>2, <3>1 DEF ReviewInv, LedgerInv
  <2>4. CASE ~Serial
    BY <2>1, <2>2, <2>4 DEF ReviewInv, LedgerInv
  <2> QED BY <2>3, <2>4
<1>3. ReviewInv => ReviewedOnce
  BY DEF ReviewInv, Reviewed, ReviewedOnce
<1> QED BY <1>1, <1>2, <1>3, PTL DEF Spec

-----------------------------------------------------------------------------
(***************************************************************************)
(* Where every operation that lowers the quantity synchronises the         *)
(* product: a handler that will leave too little either hides the product  *)
(* in the same commit or found it hidden, and nothing shows it again.      *)
(***************************************************************************)
Synchronised ==
    entry \cap {"recipe", "discard", "patch", "request", "override"} = {}

Hiding ==
    /\ qty < need => hidden
    /\ \A q \in Request : request[q].status = "absent"
    /\ \A r \in Proc :
         /\ job[r].op \notin {"approve", "reject"}
         /\ job[r].delta # 0 /\ job[r].seen + job[r].delta < need
              => job[r].hide \/ hidden

HidingInv == StockInv /\ (Synchronised => Hiding)

LEMMA HidingStep ==
    ASSUME StockInv, Hiding, Synchronised, [Next]_vars
    PROVE  Hiding'
<1>0. /\ job \in [Proc -> Job] /\ need \in Nat /\ qty \in 0 .. MaxQty
      /\ request \in [Request -> RequestRow] /\ hidden \in BOOLEAN
      /\ Idle.delta = 0 /\ Idle.op = "idle"
  BY IdleType, RecipeAssumption DEF StockInv, TypeOK, WritesPossible
<1>1. ASSUME NEW r \in Proc, Handler(r) PROVE Hiding'
  <2>1. PICK j : Sound(j) /\ Start(r, j)
    BY <1>1, HandlerStarts
  <2>2. /\ job' = [job EXCEPT ![r] = j] /\ request' = request
        /\ qty' = qty /\ need' = need /\ hidden' = hidden
    BY <2>1 DEF Start, data
  <2>3. j.seen = qty /\ j.delta \in -MaxQty .. MaxQty
    BY <2>1 DEF Sound, Job
  <2>4. j.op \notin {"approve", "reject"} /\ {"discard", "patch"} \cap entry = {}
    BY <2>1 DEF Sound, Hiding, Synchronised
  <2>5. j.delta < 0 => (qty + j.delta < need => j.hide)
    BY <2>1, <2>4 DEF Sound
  <2>6. j.delta # 0 /\ j.seen + j.delta < need => j.hide \/ hidden
    BY <1>0, <2>3, <2>5, QtyAssumption DEF Hiding
  <2> QED BY <1>0, <2>2, <2>4, <2>6 DEF Hiding
<1>2. ASSUME NEW r \in Proc, Commit(r) PROVE Hiding'
  <2> DEFINE j == job[r]
  <2>1. /\ job' = [job EXCEPT ![r] = Idle] /\ need' = need
        /\ qty' = IF j.delta = 0 THEN qty ELSE j.seen + j.delta
        /\ hidden' = (hidden \/ j.hide)
        /\ request' = IF j.op \in {"approve", "reject"}
                      THEN [request EXCEPT ![j.t].status = RequestAfter(j)]
                      ELSE request
    BY <1>2 DEF Commit
  <2>2. qty' < need' => hidden'
    BY <2>1 DEF Hiding
  <2>3. request' = request
    BY <2>1 DEF Hiding
  <2> QED BY <1>0, <2>1, <2>2, <2>3 DEF Hiding
<1>3. ASSUME NEW r \in Proc, Die(r) PROVE Hiding'
  <2>1. /\ job' = [job EXCEPT ![r] = Idle] /\ request' = request
        /\ qty' = qty /\ need' = need /\ hidden' = hidden
    BY <1>3 DEF Die, data
  <2> QED BY <1>0, <2>1 DEF Hiding
<1>4. ASSUME \/ \E b \in Batch : Lapse(b)
             \/ \E o \in Order : Prepare(o)
             \/ UNCHANGED vars
      PROVE  Hiding'
  <2>1. /\ job' = job /\ request' = request
        /\ qty' = qty /\ need' = need /\ hidden' = hidden
    BY <1>4 DEF Lapse, Prepare, vars
  <2> QED BY <2>1 DEF Hiding
<1>5. /\ \A q \in Request, delta \in -MaxQty .. MaxQty :
           ~create_adjustment_request(q, delta)
      /\ \A n \in Recipes : ~replace_recipe(n)
      /\ \A available \in BOOLEAN :
           ~set_product_availability_override(available)
  BY DEF create_adjustment_request, replace_recipe,
         set_product_availability_override, Synchronised
<1> QED BY <1>1, <1>2, <1>3, <1>4, <1>5 DEF Next, Step

(***************************************************************************)
(* sync_auto_stock_availability_overrides: a product that the quantity no  *)
(* longer suffices for is off sale, whatever confirmations, cancellations, *)
(* deliveries and adjustments overlap.                                     *)
(***************************************************************************)
THEOREM StockUnproducibleIsHidden == Spec => []UnproducibleIsHidden
<1>1. Init => HidingInv
  <2> SUFFICES ASSUME Init PROVE HidingInv
    OBVIOUS
  <2>1. /\ job = [r \in Proc |-> Idle] /\ qty = Initial
        /\ request = [q \in Request |-> [status |-> "absent", delta |-> 0]]
        /\ hidden = (Initial < need)
        /\ Idle.op = "idle" /\ Idle.delta = 0
    BY IdleType DEF Init
  <2> QED
    BY <2>1, StockInit DEF HidingInv, Hiding
<1>2. HidingInv /\ [Next]_vars => HidingInv'
  <2> SUFFICES ASSUME HidingInv, [Next]_vars PROVE HidingInv'
    OBVIOUS
  <2>1. Synchronised' <=> Synchronised
    BY DEF Next, vars, Synchronised
  <2> QED
    BY <2>1, StockStep, HidingStep DEF HidingInv
<1>3. HidingInv => UnproducibleIsHidden
  BY DEF HidingInv, Hiding, Synchronised, UnproducibleIsHidden
<1> QED BY <1>1, <1>2, <1>3, PTL DEF Spec

=============================================================================
