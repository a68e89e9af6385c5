--------------------------- MODULE Delivery_proofs ---------------------------
(***************************************************************************)
(* What Delivery guarantees for any number of orders, drivers, deliveries  *)
(* and handlers, and any set of entry points.                              *)
(***************************************************************************)
EXTENDS Delivery, FiniteSetTheorems, TLAPS

(***************************************************************************)
(* The handlers.  What a handler carries depends on where it is (JobOK),   *)
(* and it holds the lock of an order only in three places.                 *)
(***************************************************************************)
Holding == {"claim", "locked", "follow"}
OnOrder == {"count", "try", "settle", "resolve", "mark"}

JobOK(j) ==
    /\ j.pc \in OnOrder => j.x \in Deliv /\ j.o = OrderOf[j.x]
    /\ j.pc \in {"locked", "follow"} => j.o \in Order
    /\ j.pc = "claim" => j.d \in Driver
    /\ j.pc = "assign" => "assign" \in entry
    /\ j.pc = "settle" /\ "proof" \in entry => j.proof = "code"

Types == TypeOK /\ \A r \in Proc : JobOK(job[r])

(* A handler that starts alone, or goes on. *)
Acts(r) == Alone \/ job[r] # Idle

(* A handler takes a step that leaves it with no lock, and leaves the      *)
(* orders' statuses and codes, the deliveries and the drivers as they are. *)
Rests(r, j) ==
    /\ j \in Job /\ JobOK(j) /\ Become(r, j) /\ j.pc \notin Holding /\ Acts(r)
    /\ UNCHANGED <<status, nonce, active, row, run>>
    /\ pay' \in [Order -> PayStatus] /\ refunded' \in [Order -> {"none", "some", "all"}]
    /\ failure' \in [Deliv -> {"none", "pending", "resolved"}]
    /\ \/ attempts' = attempts
       \/ /\ job[r].pc = "try" /\ j.pc = "idle"
          /\ attempts' = [attempts EXCEPT ![job[r].x] = @ + 1]
    /\ j.pc = "try" => MayTry(j.x) /\ attempts' = attempts
    /\ j.pc = "settle" /\ j.proof = "code" =>
         \/ j.code = nonce[j.o]
         \/ job[r].pc = "settle" /\ job[r].proof = "code" /\ job[r].code = j.code /\ job[r].o = j.o

-----------------------------------------------------------------------------
LEMMA IdleIs == Idle \in Job /\ JobOK(Idle) /\ Idle.pc = "idle"
BY LimitAssumption DEF Idle, Job, JobOK, OnOrder, Proof, PayStatus, Graph!OrderStatus

LEMMA BecomeIs ==
    ASSUME job \in [Proc -> Job], NEW r \in Proc, NEW j \in Job, Become(r, j)
    PROVE  /\ job' \in [Proc -> Job] /\ job'[r] = j
           /\ \A s \in Proc : s # r => job'[s] = job[s]
BY DEF Become

(* A request that takes no lock yet. *)
LEMMA Arrives ==
    ASSUME Types, NEW r \in Proc, NEW j \in Job, Become(r, j), Start(r) \/ job[r].pc # "idle",
           j.pc \in {"assign", "depart", "count", "settle", "resolve"}, JobOK(j),
           j.pc = "settle" => j.proof # "code",
           UNCHANGED <<order, active, table>>
    PROVE  Rests(r, j)
<1>1. UNCHANGED <<status, nonce, active, row, run, pay, refunded, failure, attempts>>
  BY DEF order, table
<1>2. Acts(r)
  BY IdleIs DEF Start, Acts
<1>3. j.pc \notin Holding /\ j.pc # "try"
  BY DEF Holding
<1> QED
  BY <1>1, <1>2, <1>3 DEF Rests, Types, TypeOK

LEMMA Requests ==
    ASSUME Types, NEW r \in Proc, Request(r)
    PROVE  \/ \E j : Rests(r, j)
           \/ \E d \in Driver, os \in SUBSET Order : claim(r, d, os)
           \/ \E j \in Job, o \in Order, to \in Follows, proof \in {"none", "admin_override"} :
                Start(r) /\ Begin(r, j, o, to, proof)
<1>0. /\ pay \in [Order -> PayStatus] /\ nonce \in [Order -> 0..MaxNonce]
      /\ OrderOf \in [Deliv -> Order] /\ row \in [Deliv -> DelivRow]
  BY DelivAssumption DEF Types, TypeOK
<1>1. ASSUME NEW d \in Driver, NEW os \in SUBSET Order, assign(r, d, os) PROVE \E j : Rests(r, j)
  <2> DEFINE j == [Idle EXCEPT !.pc = "assign", !.d = d, !.os = os]
  <2>1. /\ Become(r, j) /\ Start(r) /\ "assign" \in entry /\ UNCHANGED <<order, active, table>>
    BY <1>1 DEF assign
  <2>2. j \in Job /\ j.pc = "assign"
    BY IdleIs DEF Job, Idle
  <2> HIDE DEF j
  <2>3. JobOK(j)
    BY <2>1, <2>2 DEF JobOK, OnOrder
  <2> QED
    BY <2>1, <2>2, <2>3, Arrives
<1>2. ASSUME NEW d \in Driver, NEW xs \in SUBSET Deliv, driver_depart(r, d, xs) PROVE \E j : Rests(r, j)
  <2> DEFINE os == {OrderOf[x] : x \in xs}
             j == [Idle EXCEPT !.pc = "depart", !.d = d, !.os = os]
  <2>1. Become(r, j) /\ Start(r) /\ UNCHANGED <<order, active, table>>
    BY <1>2 DEF driver_depart
  <2>2. os \in SUBSET Order
    BY <1>0
  <2> HIDE DEF os
  <2>3. j \in Job /\ j.pc = "depart"
    BY <2>2, IdleIs DEF Job, Idle
  <2> HIDE DEF j
  <2>4. JobOK(j)
    BY <2>3 DEF JobOK, OnOrder
  <2> QED
    BY <2>1, <2>3, <2>4, Arrives
<1>3. ASSUME NEW x \in Deliv, NEW d \in Driver, NEW code \in 0..MaxNonce, driver_deliver(r, d, x, code)
      PROVE  \E j : Rests(r, j)
  <2> PICK pc \in IF "proof" \in entry THEN {"count"} ELSE {"count", "settle"} :
         Become(r, [Idle EXCEPT !.pc = pc, !.d = d, !.x = x,
                      !.o = OrderOf[x], !.pay = pay[OrderOf[x]],
                      !.proof = "not_required",
                      !.code = IF pc = "count" THEN code ELSE 0])
    BY <1>3 DEF driver_deliver
  <2> DEFINE o == OrderOf[x]
             p == pay[o]
             c == IF pc = "count" THEN code ELSE 0
             j == [Idle EXCEPT !.pc = pc, !.d = d, !.x = x, !.o = o, !.pay = p,
                               !.proof = "not_required", !.code = c]
  <2>1. Become(r, j) /\ Start(r) /\ UNCHANGED <<order, active, table>>
    BY <1>3 DEF driver_deliver
  <2>2. o \in Order /\ p \in PayStatus /\ c \in 0..MaxNonce /\ pc \in {"count", "settle"}
        /\ ("proof" \in entry => pc = "count")
    BY <1>0, LimitAssumption
  <2> HIDE DEF p, c
  <2>3. j \in Job /\ j.pc = pc /\ j.x = x /\ j.o = OrderOf[x] /\ j.proof = "not_required"
    BY <2>2, IdleIs DEF Job, Idle, Proof
  <2> HIDE DEF j
  <2>4. JobOK(j)
    BY <2>2, <2>3 DEF JobOK, OnOrder
  <2> QED
    BY <2>1, <2>2, <2>3, <2>4, Arrives
<1>4. ASSUME NEW x \in Deliv, NEW act \in {"refund", "retain", "redeliver"}, resolve_failure(r, x, act)
      PROVE  \E j : Rests(r, j)
  <2> DEFINE o == OrderOf[x]
             p == pay[o]
             j == [Idle EXCEPT !.pc = "resolve", !.o = o, !.x = x, !.act = act, !.pay = p]
  <2>1. Become(r, j) /\ Start(r) /\ UNCHANGED <<order, active, table>>
    BY <1>4 DEF resolve_failure
  <2>2. o \in Order /\ p \in PayStatus
    BY <1>0
  <2> HIDE DEF p
  <2>3. j \in Job /\ j.pc = "resolve" /\ j.x = x /\ j.o = OrderOf[x]
    BY <2>2, IdleIs DEF Job, Idle
  <2> HIDE DEF j
  <2>4. JobOK(j)
    BY <2>3 DEF JobOK, OnOrder
  <2> QED
    BY <2>1, <2>3, <2>4, Arrives
<1>5. ASSUME NEW o \in Order, NEW to \in Follows, patch_status(r, o, to)
      PROVE  Start(r) /\ Begin(r, Idle, o, to, "none")
  BY <1>5 DEF patch_status
<1>6. ASSUME NEW x \in Deliv, admin_deliver_without_code(r, x)
      PROVE  \E j \in Job : Start(r) /\ Begin(r, j, OrderOf[x], "delivered", "admin_override")
  <2> DEFINE j == [Idle EXCEPT !.x = x]
  <2>1. j \in Job
    BY IdleIs DEF Job, Idle
  <2> QED
    BY <1>6, <2>1 DEF admin_deliver_without_code
<1>7. ASSUME NEW x \in Deliv, NEW d \in Driver, report_failure(r, d, x)
      PROVE  \E j \in Job : Start(r) /\ Begin(r, j, OrderOf[x], "delivery_failed", "none")
  <2> DEFINE j == [Idle EXCEPT !.x = x, !.report = TRUE]
  <2>1. j \in Job
    BY IdleIs DEF Job, Idle
  <2> QED
    BY <1>7, <2>1 DEF report_failure
<1>8. /\ \A x \in Deliv : OrderOf[x] \in Order
      /\ Idle \in Job /\ "delivered" \in Follows /\ "delivery_failed" \in Follows
  BY <1>0, IdleIs DEF Follows
<1> DEFINE B == \E j \in Job, o \in Order, to \in Follows, proof \in {"none", "admin_override"} :
                  Start(r) /\ Begin(r, j, o, to, proof)
<1>9. ASSUME NEW o \in Order, NEW to \in Follows, patch_status(r, o, to) PROVE B
  BY <1>5, <1>8, <1>9
<1>10. ASSUME NEW x \in Deliv, admin_deliver_without_code(r, x) PROVE B
  BY <1>6, <1>8, <1>10
<1>11. ASSUME NEW x \in Deliv, NEW d \in Driver, report_failure(r, d, x) PROVE B
  BY <1>7, <1>8, <1>11
<1> HIDE DEF B
<1>12. \/ \E j : Rests(r, j)
       \/ \E d \in Driver, os \in SUBSET Order : claim(r, d, os)
       \/ B
  BY <1>1, <1>2, <1>3, <1>4, <1>9, <1>10, <1>11 DEF Request
<1> QED
  BY <1>12 DEF B

(* update_status has locked the order for handler r. *)
Begins(r, j, o, to, proof) ==
    /\ Begin(r, j, o, to, proof) /\ Acts(r)
    /\ \/ proof \in {"none", "admin_override"}
       \/ /\ job[r].pc = "settle" /\ proof = job[r].proof
          /\ j.code = job[r].code /\ o = job[r].o

LEMMA Continues ==
    ASSUME Types, NEW r \in Proc, Continue(r)
    PROVE  \/ \E j : Rests(r, j)
           \/ \E j \in Job, o \in Order, to \in Follows, proof \in Proof : Begins(r, j, o, to, proof)
           \/ AssignCommit(r) \/ ClaimCommit(r) \/ Follow(r) \/ StatusCommit(r) \/ Redeliver(r)
<1>0. /\ pay \in [Order -> PayStatus] /\ refunded \in [Order -> {"none", "some", "all"}]
      /\ failure \in [Deliv -> {"none", "pending", "resolved"}] /\ attempts \in [Deliv -> Nat]
      /\ job[r] \in Job /\ JobOK(job[r]) /\ OrderOf \in [Deliv -> Order]
      /\ job[r].pc # "idle" => Acts(r)
  BY DelivAssumption, IdleIs DEF Types, TypeOK, Acts
<1>1. ASSUME Count(r) PROVE \E j : Rests(r, j)
  <2> DEFINE j == [job[r] EXCEPT !.pc = "try"]
  <2>1. /\ job[r].pc = "count" /\ MayTry(job[r].x) /\ Become(r, j)
        /\ UNCHANGED <<status, nonce, active, row, run, pay, refunded, failure, attempts>>
    BY <1>1 DEF Count, order, table
  <2>2. j \in Job /\ j.pc = "try" /\ j.x = job[r].x /\ j.o = job[r].o
    BY <1>0 DEF Job
  <2> HIDE DEF j
  <2>3. JobOK(j)
    BY <2>1, <2>2, <1>0 DEF JobOK, OnOrder
  <2>4. Rests(r, j)
    BY <2>1, <2>2, <2>3, <1>0 DEF Rests, Holding
  <2> QED
    BY <2>4
<1>2. ASSUME Try(r) PROVE \E j : Rests(r, j)
  <2>1. CASE job[r].code = nonce[job[r].o]
    <3> DEFINE j == [job[r] EXCEPT !.pc = "settle", !.proof = "code"]
    <3>1. /\ job[r].pc = "try" /\ Become(r, j)
          /\ UNCHANGED <<status, nonce, active, row, run, pay, refunded, failure, attempts>>
      BY <1>2, <2>1 DEF Try, order
    <3>2. j \in Job /\ j.pc = "settle" /\ j.x = job[r].x /\ j.o = job[r].o /\ j.code = job[r].code
          /\ j.proof = "code"
      BY <1>0 DEF Job, Proof
    <3> HIDE DEF j
    <3>3. JobOK(j)
      BY <3>1, <3>2, <1>0 DEF JobOK, OnOrder
    <3>4. Rests(r, j)
      BY <3>1, <3>2, <3>3, <2>1, <1>0 DEF Rests, Holding
    <3> QED
      BY <3>4
  <2>2. CASE job[r].code # nonce[job[r].o]
    <3>1. /\ job[r].pc = "try" /\ Become(r, Idle)
          /\ attempts' = [attempts EXCEPT ![job[r].x] = @ + 1]
          /\ UNCHANGED <<status, nonce, active, row, run, pay, refunded, failure>>
      BY <1>2, <2>2 DEF Try, order
    <3>2. Rests(r, Idle)
      BY <3>1, <1>0, IdleIs DEF Rests, Holding
    <3> QED
      BY <3>2
  <2> QED
    BY <2>1, <2>2
<1>3. ASSUME Settle(r) PROVE \E j : Rests(r, j)
  <2> DEFINE j == [job[r] EXCEPT !.pay = "paid"]
  <2>1. /\ job[r].pc = "settle" /\ Become(r, j) /\ pay' = [pay EXCEPT ![job[r].o] = "paid"]
        /\ UNCHANGED <<status, nonce, active, row, run, refunded, failure, attempts>>
    BY <1>3 DEF Settle, table
  <2>2. j \in Job /\ j.pc = "settle" /\ j.x = job[r].x /\ j.o = job[r].o /\ j.code = job[r].code
        /\ j.proof = job[r].proof
    BY <2>1, <1>0 DEF Job, PayStatus
  <2>3. pay' \in [Order -> PayStatus]
    BY <2>1, <1>0 DEF PayStatus
  <2> HIDE DEF j
  <2>4. JobOK(j)
    BY <2>1, <2>2, <1>0 DEF JobOK, OnOrder
  <2>5. Rests(r, j)
    BY <2>1, <2>2, <2>3, <2>4, <1>0 DEF Rests, Holding
  <2> QED
    BY <2>5
<1>4. ASSUME job[r].pc = "resolve", Done(r),
             UNCHANGED <<status, nonce, active, row, run, failure, attempts>>,
             pay' \in [Order -> PayStatus], refunded' \in [Order -> {"none", "some", "all"}]
      PROVE  \E j : Rests(r, j)
  <2> DEFINE j == [job[r] EXCEPT !.pc = "mark"]
  <2>1. Become(r, j)
    BY <1>4 DEF Done
  <2>2. j \in Job /\ j.pc = "mark" /\ j.x = job[r].x /\ j.o = job[r].o
    BY <1>0 DEF Job
  <2> HIDE DEF j
  <2>3. JobOK(j)
    BY <2>2, <1>0, <1>4 DEF JobOK, OnOrder
  <2>4. Rests(r, j)
    BY <2>1, <2>2, <2>3, <1>0, <1>4 DEF Rests, Holding
  <2> QED
    BY <2>4
<1>5. ASSUME Refund(r) PROVE \E j : Rests(r, j)
  <2>1. refunded' \in [Order -> {"none", "some", "all"}]
    BY <1>0, <1>5 DEF Refund
  <2> QED
    BY <2>1, <1>0, <1>4, <1>5 DEF Refund, table
<1>6. ASSUME SettleHold(r) PROVE \E j : Rests(r, j)
  <2>1. pay' \in [Order -> PayStatus]
    BY <1>0, <1>6 DEF SettleHold, PayStatus
  <2> QED
    BY <2>1, <1>0, <1>4, <1>6 DEF SettleHold, table
<1>7. ASSUME NothingToRefund(r) PROVE \E j : Rests(r, j)
  BY <1>0, <1>4, <1>7 DEF NothingToRefund, table, order
<1>8. ASSUME Become(r, Idle), job[r].pc # "idle", failure' \in [Deliv -> {"none", "pending", "resolved"}],
             UNCHANGED <<status, nonce, active, row, run, attempts, pay, refunded>>
      PROVE  \E j : Rests(r, j)
  <2>1. Rests(r, Idle)
    BY <1>0, <1>8, IdleIs DEF Rests, Holding
  <2> QED
    BY <2>1
<1>9. ASSUME ResolveMark(r) PROVE \E j : Rests(r, j)
  <2>1. failure' \in [Deliv -> {"none", "pending", "resolved"}]
    BY <1>0, <1>9 DEF ResolveMark, Marked
  <2> QED
    BY <2>1, <1>8, <1>9 DEF ResolveMark, order
<1>10. ASSUME Refused(r) \/ Die(r) PROVE \E j : Rests(r, j)
  BY <1>0, <1>8, <1>10 DEF Refused, Die, order, table
<1> DEFINE B == \E j \in Job, o \in Order, to \in Follows, proof \in Proof : Begins(r, j, o, to, proof)
<1>11. ASSUME HandOver(r) PROVE B
  <2> DEFINE j == [job[r] EXCEPT !.x = None]
  <2>1. job[r].pc = "settle" /\ Begin(r, j, job[r].o, "delivered", job[r].proof)
    BY <1>11 DEF HandOver
  <2>2. j \in Job /\ j.code = job[r].code /\ job[r].proof \in Proof
    BY <1>0 DEF Job
  <2>3. job[r].o \in Order /\ "delivered" \in Follows
    BY <2>1, <1>0 DEF JobOK, OnOrder, Follows
  <2> HIDE DEF j
  <2>4. Begins(r, j, job[r].o, "delivered", job[r].proof)
    BY <2>1, <2>2, <1>0 DEF Begins
  <2> QED
    BY <2>2, <2>3, <2>4
<1>12. ASSUME NEW o \in Order, Depart(r, o) PROVE B
  <2> DEFINE j == [job[r] EXCEPT !.os = @ \ {o}]
  <2>1. job[r].pc = "depart" /\ Begin(r, j, o, "out_for_delivery", "none")
    BY <1>12 DEF Depart
  <2>2. j \in Job /\ "out_for_delivery" \in Follows /\ "none" \in Proof
    <3>1. job[r].os \ {o} \in SUBSET Order
      BY <1>0 DEF Job
    <3> QED
      BY <3>1, <1>0 DEF Job, Follows, Proof
  <2> HIDE DEF j
  <2>3. Begins(r, j, o, "out_for_delivery", "none")
    BY <2>1, <1>0 DEF Begins
  <2> QED
    BY <2>2, <2>3
<1> HIDE DEF B
<1>13. \/ \E j : Rests(r, j)
       \/ B
       \/ AssignCommit(r) \/ ClaimCommit(r) \/ Follow(r) \/ StatusCommit(r) \/ Redeliver(r)
  BY <1>1, <1>2, <1>3, <1>5, <1>6, <1>7, <1>9, <1>10, <1>11, <1>12 DEF Continue
<1> QED
  BY <1>13 DEF B

LEMMA Steps ==
    ASSUME Types, Step
    PROVE  \/ \E r \in Proc :
                \/ \E j : Rests(r, j)
                \/ \E j \in Job, o \in Order, to \in Follows, proof \in Proof : Begins(r, j, o, to, proof)
                \/ \E d \in Driver, os \in SUBSET Order : claim(r, d, os)
                \/ AssignCommit(r) \/ ClaimCommit(r) \/ Follow(r) \/ StatusCommit(r) \/ Redeliver(r)
           \/ \E o \in Order : unassign(o) \/ Advance(o)
           \/ \E d \in Driver, x \in Deliv : release(d, x) \/ driver_arrived(d, x)
           \/ \E d \in Driver, b \in BOOLEAN : update_driver(d, b)
<1>1. ASSUME NEW r \in Proc, NEW j \in Job, NEW o \in Order, NEW to \in Follows,
             NEW proof \in {"none", "admin_override"}, Start(r), Begin(r, j, o, to, proof)
      PROVE  proof \in Proof /\ Begins(r, j, o, to, proof)
  BY <1>1 DEF Begins, Start, Acts, Proof
<1> QED
  BY <1>1, Requests, Continues DEF Step

-----------------------------------------------------------------------------
(* What the commits write *)

LEMMA NoRowIs ==
    ASSUME NEW d \in Driver \cup {None}
    PROVE  /\ Assigned(d) \in DelivRow /\ Assigned(d).status = "assigned" /\ Assigned(d).driver = d
           /\ NoRow \in DelivRow /\ NoRow.status = "absent"
<1>1. NoRow \in DelivRow /\ NoRow.status = "absent"
  BY LimitAssumption DEF NoRow, DelivRow, Proof
<1> QED
  BY <1>1 DEF Assigned, DelivRow, DELIVERY_ACTIVE_STATUSES

(* The id of the next delivery of an order. *)
LEMMA NewRowIs ==
    ASSUME NEW o \in Order, Free(o) # {}
    PROVE  NewRow(o) \in Deliv /\ OrderOf[NewRow(o)] = o /\ row[NewRow(o)].status = "absent"
<1>1. NewRow(o) \in Free(o)
  BY DEF NewRow
<1> QED
  BY <1>1 DEF Free

LEMMA AssignIs ==
    ASSUME Types, NEW r \in Proc, AssignCommit(r)
    PROVE  /\ row' \in [Deliv -> DelivRow] /\ job[r].pc = "assign" /\ Become(r, Idle)
           /\ UNCHANGED <<status, pay, refunded, nonce, active, run, attempts, failure>>
           /\ \A o \in job[r].os : ~Locked(o) /\ status[o] \in ASSIGNABLE_ORDER_STATUSES
           /\ \A x \in Deliv :
                \/ row'[x] = row[x]
                \/ /\ OrderOf[x] \in job[r].os /\ row'[x].status = "assigned"
                   /\ \/ x \in LiveRows
                      \/ /\ Live(OrderOf[x]) = {} /\ x = NewRow(OrderOf[x])
                         /\ row[x].status = "absent"
<1> DEFINE d == job[r].d
           moved(x) == [row[x] EXCEPT !.driver = d]
<1>1. /\ job[r].pc = "assign" /\ Become(r, Idle)
      /\ UNCHANGED <<status, pay, refunded, nonce, active, run, attempts, failure>>
      /\ \A o \in job[r].os : /\ ~Locked(o) /\ status[o] \in ASSIGNABLE_ORDER_STATUSES
                              /\ \A x \in Live(o) : row[x].status = "assigned"
                              /\ Live(o) = {} => Free(o) # {}
      /\ row' = [x \in Deliv |->
           IF OrderOf[x] \notin job[r].os THEN row[x]
           ELSE IF x \in Live(OrderOf[x]) THEN moved(x)
           ELSE IF Live(OrderOf[x]) = {} /\ x = NewRow(OrderOf[x]) THEN Assigned(d)
           ELSE row[x]]
  BY DEF AssignCommit, order
<1>2. /\ d \in Driver \cup {None} /\ \A x \in Deliv : row[x] \in DelivRow /\ OrderOf[x] \in Order
      /\ job[r].os \subseteq Order
  BY DelivAssumption DEF Types, TypeOK, Job
<1>3. Assigned(d) \in DelivRow /\ Assigned(d).status = "assigned"
  BY <1>2, NoRowIs
<1> HIDE DEF d
<1>4. \A x \in Deliv : moved(x) \in DelivRow /\ moved(x).status = row[x].status
  BY <1>2 DEF DelivRow
<1> HIDE DEF moved
<1>5. row' \in [Deliv -> DelivRow]
  BY <1>1, <1>2, <1>3, <1>4
<1>6. ASSUME NEW x \in Deliv
      PROVE  \/ row'[x] = row[x]
             \/ /\ OrderOf[x] \in job[r].os /\ row'[x].status = "assigned"
                /\ \/ x \in LiveRows
                   \/ /\ Live(OrderOf[x]) = {} /\ x = NewRow(OrderOf[x])
                      /\ row[x].status = "absent"
  <2>1. CASE OrderOf[x] \notin job[r].os
    BY <2>1, <1>1
  <2>2. CASE OrderOf[x] \in job[r].os /\ x \in Live(OrderOf[x])
    BY <2>2, <1>1, <1>4 DEF Live
  <2>3. CASE OrderOf[x] \in job[r].os /\ x \notin Live(OrderOf[x])
             /\ Live(OrderOf[x]) = {} /\ x = NewRow(OrderOf[x])
    <3>1. row'[x] = Assigned(d) /\ Free(OrderOf[x]) # {}
      BY <2>3, <1>1
    <3>2. row[x].status = "absent"
      BY <2>3, <3>1, <1>2, NewRowIs
    <3> QED
      BY <2>3, <3>1, <3>2, <1>3
  <2>4. CASE OrderOf[x] \in job[r].os /\ x \notin Live(OrderOf[x])
             /\ ~(Live(OrderOf[x]) = {} /\ x = NewRow(OrderOf[x]))
    BY <2>4, <1>1
  <2> QED
    BY <2>1, <2>2, <2>3, <2>4
<1> QED
  BY <1>1, <1>5, <1>6

LEMMA ClaimIs ==
    ASSUME Types, NEW r \in Proc, ClaimCommit(r),
           \A o \in job[r].os : Free(o) # {}
    PROVE  /\ row' \in [Deliv -> DelivRow] /\ job[r].pc = "claim" /\ Become(r, Idle)
           /\ UNCHANGED <<status, pay, refunded, nonce, active, run, attempts, failure>>
           /\ \A x \in Deliv :
                \/ row'[x] = row[x]
                \/ /\ OrderOf[x] \in job[r].os /\ x = NewRow(OrderOf[x])
                   /\ row[x].status = "absent"
                   /\ row'[x].status = "assigned" /\ row'[x].driver = job[r].d
<1> DEFINE d == job[r].d
<1>1. /\ job[r].pc = "claim" /\ Become(r, Idle)
      /\ UNCHANGED <<status, pay, refunded, nonce, active, run, attempts, failure>>
      /\ row' = [x \in Deliv |-> IF OrderOf[x] \in job[r].os /\ x = NewRow(OrderOf[x])
                                 THEN Assigned(d) ELSE row[x]]
  BY DEF ClaimCommit, order
<1>2. /\ d \in Driver \cup {None} /\ \A x \in Deliv : row[x] \in DelivRow /\ OrderOf[x] \in Order
  BY DelivAssumption DEF Types, TypeOK, Job
<1>3. Assigned(d) \in DelivRow /\ Assigned(d).status = "assigned" /\ Assigned(d).driver = d
  BY <1>2, NoRowIs
<1>4. row' \in [Deliv -> DelivRow]
  BY <1>1, <1>2, <1>3
<1>5. ASSUME NEW x \in Deliv, OrderOf[x] \in job[r].os, x = NewRow(OrderOf[x])
      PROVE  row[x].status = "absent"
  BY <1>2, <1>5, NewRowIs
<1> QED
  BY <1>1, <1>3, <1>4, <1>5

(* unassign, release, driver_arrived: the status of one row. *)
LEMMA MarkIs ==
    ASSUME Types, NEW x \in Deliv, NEW st \in {"cancelled", "arrived"},
           row' = [row EXCEPT ![x].status = st]
    PROVE  /\ row' \in [Deliv -> DelivRow]
           /\ row'[x].status = st /\ row'[x].driver = row[x].driver /\ row'[x].run = row[x].run
           /\ \A y \in Deliv : y # x => row'[y] = row[y]
<1> DEFINE n == [row[x] EXCEPT !.status = st]
<1>1. row \in [Deliv -> DelivRow]
  BY DEF Types, TypeOK
<1>2. row' = [row EXCEPT ![x] = n]
  BY <1>1
<1>3. n \in DelivRow /\ n.status = st /\ n.driver = row[x].driver /\ n.run = row[x].run
  BY <1>1 DEF DelivRow, DELIVERY_ACTIVE_STATUSES
<1> HIDE DEF n
<1> QED
  BY <1>1, <1>2, <1>3

LEMMA StatusIs ==
    ASSUME Types, NEW r \in Proc, StatusCommit(r)
    PROVE  LET j == job[r]
           IN  /\ j.pc = "follow" /\ j.o \in Order /\ status' = [status EXCEPT ![j.o] = j.to]
               /\ row' \in [Deliv -> DelivRow] /\ run' \in [Deliv -> {"none", "active", "completed"}]
               /\ pay' \in [Order -> PayStatus] /\ failure' \in [Deliv -> {"none", "pending", "resolved"}]
               /\ UNCHANGED <<refunded, nonce, active, attempts>>
               /\ job' \in [Proc -> Job] /\ job'[r].pc \in {"idle", "depart"}
               /\ \A s \in Proc : s # r => job'[s] = job[s]
               /\ \A y \in Deliv : y # j.x => row'[y] = row[y]
               /\ j.x # None =>
                    /\ j.x \in Deliv /\ row'[j.x].driver = row[j.x].driver
                    /\ row'[j.x].status = IF j.to = "out_for_delivery" THEN "out_for_delivery"
                                          ELSE IF j.to = "delivered" THEN "delivered"
                                          ELSE IF j.to = "delivery_failed" THEN "failed"
                                          ELSE "cancelled"
                    /\ j.to = "delivered" => row'[j.x].proof = j.proof /\ row'[j.x].code = j.code
<1> DEFINE j == job[r]
           n == RowAfter(j)
           k == IF j.os = {} THEN Idle ELSE [Idle EXCEPT !.pc = "depart", !.d = j.d, !.os = j.os]
<1>1. /\ j.pc = "follow" /\ status' = [status EXCEPT ![j.o] = j.to]
      /\ IF j.x = None THEN row' = row /\ run' = run
         ELSE /\ row' = [row EXCEPT ![j.x] = n]
              /\ run' = IF j.run = None THEN run ELSE [run EXCEPT ![j.run] = RunAfter(j)]
      /\ failure' = FailureAfter(j)
      /\ pay' = pay \/ pay' = [pay EXCEPT ![j.o] = "guarantee_released"]
      /\ Become(r, k) /\ UNCHANGED <<refunded, nonce, active, attempts>>
  BY DEF StatusCommit
<1>2. /\ j \in Job /\ JobOK(j) /\ row \in [Deliv -> DelivRow] /\ pay \in [Order -> PayStatus]
      /\ run \in [Deliv -> {"none", "active", "completed"}]
      /\ failure \in [Deliv -> {"none", "pending", "resolved"}] /\ job \in [Proc -> Job]
      /\ None \notin Deliv
  BY DelivAssumption DEF Types, TypeOK, None
<1> HIDE DEF j
<1>3. j.o \in Order /\ j.x \in Deliv \cup {None} /\ j.run \in Deliv \cup {None}
      /\ j.proof \in Proof /\ j.code \in 0..MaxNonce /\ j.d \in Driver \cup {None} /\ j.os \in SUBSET Order
  BY <1>1, <1>2 DEF Job, JobOK
<1>4. k \in Job /\ k.pc \in {"idle", "depart"}
  <2>1. [Idle EXCEPT !.pc = "depart", !.d = j.d, !.os = j.os] \in Job
    BY <1>3, IdleIs DEF Job, Idle
  <2>2. [Idle EXCEPT !.pc = "depart", !.d = j.d, !.os = j.os].pc = "depart"
    BY DEF Idle
  <2> QED
    BY <2>1, <2>2, IdleIs
<1> HIDE DEF k
<1>5. job' \in [Proc -> Job] /\ job'[r] = k /\ \A s \in Proc : s # r => job'[s] = job[s]
  BY <1>1, <1>2, <1>4, BecomeIs
<1>6. ASSUME j.x \in Deliv
      PROVE  /\ n \in DelivRow /\ n.driver = row[j.x].driver
             /\ n.status = IF j.to = "out_for_delivery" THEN "out_for_delivery"
                           ELSE IF j.to = "delivered" THEN "delivered"
                           ELSE IF j.to = "delivery_failed" THEN "failed"
                           ELSE "cancelled"
             /\ j.to = "delivered" => n.proof = j.proof /\ n.code = j.code
  <2>1. row[j.x] \in DelivRow
    BY <1>2, <1>6
  <2>2. CASE j.to = "out_for_delivery"
    BY <2>1, <2>2, <1>3 DEF RowAfter, DelivRow, DELIVERY_ACTIVE_STATUSES
  <2>3. CASE j.to = "delivered"
    BY <2>1, <2>3, <1>3 DEF RowAfter, DelivRow
  <2>4. CASE j.to = "delivery_failed"
    BY <2>1, <2>4 DEF RowAfter, DelivRow
  <2>5. CASE j.to \notin {"out_for_delivery", "delivered", "delivery_failed"}
    BY <2>1, <2>5 DEF RowAfter, DelivRow
  <2> QED
    BY <2>2, <2>3, <2>4, <2>5
<1> HIDE DEF n
<1>7. pay' \in [Order -> PayStatus] /\ failure' \in [Deliv -> {"none", "pending", "resolved"}]
  BY <1>1, <1>2 DEF FailureAfter, PayStatus
<1>8. run' \in [Deliv -> {"none", "active", "completed"}]
  <2>1. j.run \in Deliv => RunAfter(j) \in {"none", "active", "completed"}
    BY <1>2 DEF RunAfter
  <2> QED
    BY <2>1, <1>1, <1>2, <1>3
<1>9. CASE j.x = None
  BY <1>1, <1>2, <1>3, <1>4, <1>5, <1>7, <1>8, <1>9 DEF j
<1>10. CASE j.x # None
  <2>1. /\ j.x \in Deliv /\ row' \in [Deliv -> DelivRow] /\ row'[j.x] = n
        /\ \A y \in Deliv : y # j.x => row'[y] = row[y]
    BY <1>1, <1>2, <1>3, <1>6, <1>10
  <2> QED
    BY <2>1, <1>1, <1>3, <1>4, <1>5, <1>6, <1>7, <1>8 DEF j
<1> QED
  BY <1>9, <1>10

LEMMA BeginIs ==
    ASSUME Types, NEW r \in Proc, NEW j \in Job, NEW o \in Order, NEW to \in Follows,
           NEW proof \in Proof, Begins(r, j, o, to, proof)
    PROVE  /\ job' \in [Proc -> Job] /\ job'[r].pc = "locked" /\ job'[r].o = o /\ job'[r].to = to
           /\ job'[r].proof = proof /\ job'[r].code = j.code
           /\ \A s \in Proc : s # r => job'[s] = job[s]
           /\ ~Locked(o) /\ to \in Graph!VALID_TRANSITIONS[status[o]]
           /\ to = "out_for_delivery" => Live(o) # {}
           /\ to = "delivered" /\ proof = "none" => ~proof_required_for(o)
           /\ UNCHANGED <<status, pay, refunded, nonce, active, row, run, attempts, failure>>
<1> DEFINE n == [j EXCEPT !.pc = "locked", !.o = o, !.to = to, !.proof = proof]
<1>1. /\ Become(r, n) /\ ~Locked(o) /\ to \in Graph!VALID_TRANSITIONS[status[o]]
      /\ to = "out_for_delivery" => Live(o) # {}
      /\ to = "delivered" /\ proof = "none" => ~proof_required_for(o)
      /\ UNCHANGED <<status, pay, refunded, nonce, active, row, run, attempts, failure>>
  BY DEF Begins, Begin, order, table, ensure_driver_for_departure
<1>2. to \in Graph!OrderStatus
  BY DEF Follows, Graph!OrderStatus
<1>3. n \in Job /\ n.pc = "locked" /\ n.o = o /\ n.to = to /\ n.proof = proof /\ n.code = j.code
  BY <1>2 DEF Job
<1> HIDE DEF n
<1>4. job' \in [Proc -> Job] /\ job'[r] = n /\ \A s \in Proc : s # r => job'[s] = job[s]
  BY <1>1, <1>3, BecomeIs DEF Types, TypeOK
<1> QED
  BY <1>1, <1>3, <1>4

LEMMA FollowIs ==
    ASSUME Types, NEW r \in Proc, Follow(r)
    PROVE  LET j == job[r]
               n == job'[r]
           IN  /\ job' \in [Proc -> Job] /\ j.pc = "locked" /\ n.pc = "follow"
               /\ n.o = j.o /\ n.to = j.to /\ n.proof = j.proof /\ n.code = j.code
               /\ \A s \in Proc : s # r => job'[s] = job[s]
               /\ (n.x = None /\ Live(j.o) = {}) \/ n.x \in Live(j.o)
               /\ UNCHANGED <<status, pay, refunded, nonce, active, row, run, attempts, failure>>
<1>0. job \in [Proc -> Job] /\ job[r] \in Job /\ row \in [Deliv -> DelivRow]
  BY DEF Types, TypeOK
<1>1. job[r].pc = "locked" /\ UNCHANGED <<status, pay, refunded, nonce, active, row, run, attempts, failure>>
  BY DEF Follow, order, table
<1>2. \E x \in Deliv \cup {None}, y \in Deliv \cup {None}, b \in BOOLEAN :
        /\ (x = None /\ Live(job[r].o) = {}) \/ x \in Live(job[r].o)
        /\ \/ Become(r, [job[r] EXCEPT !.pc = "follow", !.x = x])
           \/ Become(r, [job[r] EXCEPT !.pc = "follow", !.x = x, !.run = y])
           \/ Become(r, [job[r] EXCEPT !.pc = "follow", !.x = x, !.run = y, !.last = b])
  <2>1. CASE /\ Live(job[r].o) = {}
             /\ Become(r, [job[r] EXCEPT !.pc = "follow", !.x = None])
    BY <2>1
  <2>2. ASSUME NEW x \in Live(job[r].o),
               \E y \in IF ActiveRuns(row[x].driver) = {} THEN {x} ELSE ActiveRuns(row[x].driver) :
                   Become(r, [job[r] EXCEPT !.pc = "follow", !.x = x, !.run = y])
        PROVE  \E y \in Deliv : x \in Deliv /\ Become(r, [job[r] EXCEPT !.pc = "follow", !.x = x, !.run = y])
    BY <2>2 DEF ActiveRuns, Live, LiveRows
  <2>3. ASSUME NEW x \in Live(job[r].o),
               Become(r, [job[r] EXCEPT !.pc = "follow", !.x = x, !.run = row[x].run,
                                        !.last = Remaining(x, row[x].run) = {}])
        PROVE  \E y \in Deliv \cup {None}, b \in BOOLEAN :
                 x \in Deliv /\ Become(r, [job[r] EXCEPT !.pc = "follow", !.x = x, !.run = y, !.last = b])
    <3>1. x \in Deliv /\ row[x].run \in Deliv \cup {None}
      BY <1>0 DEF Live, LiveRows, DelivRow
    <3>2. (Remaining(x, row[x].run) = {}) \in BOOLEAN
      OBVIOUS
    <3> QED
      BY <2>3, <3>1, <3>2
  <2> QED
    BY <2>1, <2>2, <2>3 DEF Follow
<1>3. PICK x \in Deliv \cup {None}, y \in Deliv \cup {None}, b \in BOOLEAN :
        /\ (x = None /\ Live(job[r].o) = {}) \/ x \in Live(job[r].o)
        /\ \/ Become(r, [job[r] EXCEPT !.pc = "follow", !.x = x])
           \/ Become(r, [job[r] EXCEPT !.pc = "follow", !.x = x, !.run = y])
           \/ Become(r, [job[r] EXCEPT !.pc = "follow", !.x = x, !.run = y, !.last = b])
  BY <1>2
<1> DEFINE j == job[r]
<1>4. \E n \in Job : /\ n.pc = "follow" /\ n.x = x /\ n.o = j.o /\ n.to = j.to
                     /\ n.proof = j.proof /\ n.code = j.code /\ Become(r, n)
  <2> DEFINE n1 == [j EXCEPT !.pc = "follow", !.x = x]
             n2 == [j EXCEPT !.pc = "follow", !.x = x, !.run = y]
             n3 == [j EXCEPT !.pc = "follow", !.x = x, !.run = y, !.last = b]
  <2>1. Become(r, n1) \/ Become(r, n2) \/ Become(r, n3)
    BY <1>3
  <2>2. j \in Job
    BY <1>0
  <2> HIDE DEF j
  <2>3. n1 \in Job /\ n1.pc = "follow" /\ n1.x = x /\ n1.o = j.o /\ n1.to = j.to
                     /\ n1.proof = j.proof /\ n1.code = j.code
    BY <2>2 DEF Job
  <2>4. n2 \in Job /\ n2.pc = "follow" /\ n2.x = x /\ n2.o = j.o /\ n2.to = j.to
                     /\ n2.proof = j.proof /\ n2.code = j.code
    BY <2>2 DEF Job
  <2>5. n3 \in Job /\ n3.pc = "follow" /\ n3.x = x /\ n3.o = j.o /\ n3.to = j.to
                     /\ n3.proof = j.proof /\ n3.code = j.code
    BY <2>2 DEF Job
  <2> HIDE DEF n1, n2, n3
  <2> QED
    BY <2>1, <2>3, <2>4, <2>5
<1>5. PICK n \in Job : /\ n.pc = "follow" /\ n.x = x /\ n.o = j.o /\ n.to = j.to
                       /\ n.proof = j.proof /\ n.code = j.code /\ Become(r, n)
  BY <1>4
<1>6. job' \in [Proc -> Job] /\ job'[r] = n /\ \A s \in Proc : s # r => job'[s] = job[s]
  BY <1>0, <1>5, BecomeIs
<1> QED
  BY <1>1, <1>3, <1>5, <1>6

-----------------------------------------------------------------------------
(* Types *)

LEMMA TypesInit == Init => Types
<1> SUFFICES ASSUME Init PROVE Types
  OBVIOUS
<1>1. NoRow \in DelivRow
  BY NoRowIs DEF None
<1>2. 1 \in 0 .. MaxNonce /\ "preparing" \in Graph!OrderStatus
  BY LimitAssumption DEF Graph!OrderStatus
<1>3. TypeOK
  BY <1>1, <1>2, IdleIs DEF Init, TypeOK, PayStatus
<1>4. \A r \in Proc : job[r] = Idle
  BY DEF Init
<1> QED
  BY <1>3, <1>4, IdleIs DEF Types

(* The handlers keep their shape when one of them moves, or none. *)
LEMMA JobsKept ==
    ASSUME Types, job' \in [Proc -> Job], entry' = entry,
           NEW r \in Proc, JobOK(job'[r]), \A s \in Proc : s # r => job'[s] = job[s]
    PROVE  \A s \in Proc : JobOK(job[s])'
<1> SUFFICES ASSUME NEW s \in Proc PROVE JobOK(job[s])'
  OBVIOUS
<1>1. JobOK(job'[s])
  BY DEF Types
<1> QED
  BY <1>1 DEF JobOK

LEMMA TypesStep ==
    ASSUME Types, Next, \A r \in Proc : job[r].pc = "claim" => \A o \in job[r].os : Free(o) # {}
    PROVE  Types'
<1>0. /\ TypeOK /\ entry' = entry /\ Step /\ job \in [Proc -> Job]
      /\ \A r \in Proc : JobOK(job[r]) /\ job[r] \in Job
  BY DEF Types, TypeOK, Next
<1>1. ASSUME UNCHANGED <<status, pay, refunded, nonce, active, row, run, attempts, failure>>,
             job' \in [Proc -> Job], NEW r \in Proc, JobOK(job'[r]),
             \A s \in Proc : s # r => job'[s] = job[s]
      PROVE  Types'
  <2>1. TypeOK'
    BY <1>0, <1>1 DEF TypeOK
  <2> QED
    BY <2>1, <1>0, <1>1, JobsKept DEF Types
<1>2. ASSUME NEW r \in Proc, NEW j, Rests(r, j) PROVE Types'
  <2>1. /\ j \in Job /\ JobOK(j) /\ Become(r, j) /\ UNCHANGED <<status, nonce, active, row, run>>
        /\ pay' \in [Order -> PayStatus] /\ refunded' \in [Order -> {"none", "some", "all"}]
        /\ failure' \in [Deliv -> {"none", "pending", "resolved"}]
    BY <1>2 DEF Rests
  <2>2. attempts' \in [Deliv -> Nat]
    <3>1. attempts \in [Deliv -> Nat]
      BY <1>0 DEF TypeOK
    <3> QED
      BY <3>1, <1>2 DEF Rests
  <2>3. job' \in [Proc -> Job] /\ job'[r] = j /\ \A s \in Proc : s # r => job'[s] = job[s]
    BY <1>0, <2>1, BecomeIs
  <2>4. TypeOK'
    BY <1>0, <2>1, <2>2, <2>3 DEF TypeOK
  <2> QED
    BY <2>1, <2>3, <2>4, <1>0, JobsKept DEF Types
<1>3. ASSUME NEW r \in Proc, NEW j \in Job, NEW o \in Order, NEW to \in Follows, NEW proof \in Proof,
             Begins(r, j, o, to, proof)
      PROVE  Types'
  <2>1. /\ job' \in [Proc -> Job] /\ job'[r].pc = "locked" /\ job'[r].o \in Order
        /\ \A s \in Proc : s # r => job'[s] = job[s]
        /\ UNCHANGED <<status, pay, refunded, nonce, active, row, run, attempts, failure>>
    BY <1>3, BeginIs
  <2>2. JobOK(job'[r])
    BY <2>1 DEF JobOK, OnOrder
  <2> QED
    BY <1>1, <2>1, <2>2
<1>4. ASSUME NEW r \in Proc, NEW d \in Driver, NEW os \in SUBSET Order, claim(r, d, os) PROVE Types'
  <2> DEFINE j == [Idle EXCEPT !.pc = "claim", !.d = d, !.os = os]
  <2>1. Become(r, j) /\ UNCHANGED <<status, pay, refunded, nonce, active, row, run, attempts, failure>>
    BY <1>4 DEF claim, order, table
  <2>2. j \in Job /\ j.pc = "claim" /\ j.d = d
    BY IdleIs DEF Job, Idle
  <2> HIDE DEF j
  <2>3. JobOK(j)
    BY <2>2 DEF JobOK, OnOrder
  <2>4. job' \in [Proc -> Job] /\ job'[r] = j /\ \A s \in Proc : s # r => job'[s] = job[s]
    BY <1>0, <2>1, <2>2, BecomeIs
  <2> QED
    BY <1>1, <2>1, <2>3, <2>4
<1>5. ASSUME NEW r \in Proc, Become(r, Idle), row' \in [Deliv -> DelivRow],
             UNCHANGED <<status, pay, refunded, nonce, active, run, attempts, failure>>
      PROVE  Types'
  <2>1. job' \in [Proc -> Job] /\ job'[r] = Idle /\ \A s \in Proc : s # r => job'[s] = job[s]
    BY <1>0, <1>5, IdleIs, BecomeIs
  <2>2. TypeOK'
    BY <1>0, <1>5, <2>1 DEF TypeOK
  <2> QED
    BY <2>1, <2>2, <1>0, IdleIs, JobsKept DEF Types
<1>6. ASSUME NEW r \in Proc, AssignCommit(r) PROVE Types'
  <2>1. /\ Become(r, Idle) /\ row' \in [Deliv -> DelivRow]
        /\ UNCHANGED <<status, pay, refunded, nonce, active, run, attempts, failure>>
    BY <1>6, AssignIs
  <2> QED
    BY <2>1, <1>5
<1>7. ASSUME NEW r \in Proc, ClaimCommit(r) PROVE Types'
  <2>1. job[r].pc = "claim"
    BY <1>7 DEF ClaimCommit
  <2>2. /\ Become(r, Idle) /\ row' \in [Deliv -> DelivRow]
        /\ UNCHANGED <<status, pay, refunded, nonce, active, run, attempts, failure>>
    BY <2>1, <1>7, ClaimIs
  <2> QED
    BY <2>2, <1>5
<1>8. ASSUME NEW r \in Proc, Follow(r) PROVE Types'
  <2>1. /\ job' \in [Proc -> Job] /\ job'[r].pc = "follow" /\ job[r].pc = "locked" /\ job'[r].o = job[r].o
        /\ \A s \in Proc : s # r => job'[s] = job[s]
        /\ UNCHANGED <<status, pay, refunded, nonce, active, row, run, attempts, failure>>
    BY <1>8, FollowIs
  <2>2. JobOK(job'[r])
    BY <2>1, <1>0 DEF JobOK, OnOrder
  <2> QED
    BY <1>1, <2>1, <2>2
<1>9. ASSUME NEW r \in Proc, StatusCommit(r) PROVE Types'
  <2>1. /\ job[r].o \in Order /\ status' = [status EXCEPT ![job[r].o] = job[r].to]
        /\ row' \in [Deliv -> DelivRow] /\ run' \in [Deliv -> {"none", "active", "completed"}]
        /\ pay' \in [Order -> PayStatus] /\ failure' \in [Deliv -> {"none", "pending", "resolved"}]
        /\ UNCHANGED <<refunded, nonce, active, attempts>>
        /\ job' \in [Proc -> Job] /\ job'[r].pc \in {"idle", "depart"}
        /\ \A s \in Proc : s # r => job'[s] = job[s]
    BY <1>9, StatusIs
  <2>2. JobOK(job'[r])
    BY <2>1 DEF JobOK, OnOrder
  <2>3. job[r].to \in Graph!OrderStatus
    BY <1>0 DEF Job
  <2>4. TypeOK'
    BY <1>0, <2>1, <2>3 DEF TypeOK
  <2> QED
    BY <2>1, <2>2, <2>4, <1>0, JobsKept DEF Types
<1>10. ASSUME NEW r \in Proc, Redeliver(r) PROVE Types'
  <2> DEFINE j == [job[r] EXCEPT !.pc = "mark"]
             o == job[r].o
  <2>1. /\ job[r].pc = "resolve" /\ Become(r, j) /\ nonce[o] < MaxNonce
        /\ nonce' = [nonce EXCEPT ![o] = @ + 1] /\ status' = [status EXCEPT ![o] = "ready"]
        /\ UNCHANGED <<pay, refunded, active, row, run, attempts, failure>>
    BY <1>10 DEF Redeliver, Done, table
  <2>2. j \in Job /\ j.pc = "mark" /\ j.x = job[r].x /\ j.o = job[r].o
    BY <1>0 DEF Job
  <2>3. job[r].x \in Deliv /\ job[r].o = OrderOf[job[r].x]
    BY <2>1, <1>0 DEF JobOK, OnOrder
  <2> HIDE DEF j
  <2>4. JobOK(j)
    BY <2>2, <2>3 DEF JobOK, OnOrder
  <2>5. job' \in [Proc -> Job] /\ job'[r] = j /\ \A s \in Proc : s # r => job'[s] = job[s]
    BY <1>0, <2>1, <2>2, BecomeIs
  <2>6. nonce' \in [Order -> 0 .. MaxNonce]
    <3>1. nonce \in [Order -> 0 .. MaxNonce]
      BY <1>0 DEF TypeOK
    <3>2. o \in Order
      BY <2>3, DelivAssumption
    <3> HIDE DEF o
    <3> QED
      BY <3>1, <3>2, <2>1, LimitAssumption
  <2>7. status' \in [Order -> Graph!OrderStatus]
    BY <2>1, <1>0 DEF TypeOK, Graph!OrderStatus
  <2>8. TypeOK'
    BY <1>0, <2>1, <2>5, <2>6, <2>7 DEF TypeOK
  <2> QED
    BY <2>4, <2>5, <2>8, <1>0, JobsKept DEF Types
<1>11. ASSUME UNCHANGED <<pay, refunded, nonce, run, attempts, failure, job>>,
              status' \in [Order -> Graph!OrderStatus], active' \in [Driver -> BOOLEAN],
              row' \in [Deliv -> DelivRow]
       PROVE  Types'
  <2>1. TypeOK'
    BY <1>0, <1>11 DEF TypeOK
  <2>2. \A s \in Proc : JobOK(job[s])'
    BY <1>0, <1>11 DEF JobOK
  <2> QED
    BY <2>1, <2>2 DEF Types
<1>12. ASSUME NEW o \in Order, unassign(o) PROVE Types'
  <2>1. PICK x \in Deliv : row' = [row EXCEPT ![x].status = "cancelled"]
    BY <1>12 DEF unassign, Live, LiveRows
  <2>2. row' \in [Deliv -> DelivRow]
    BY <2>1, MarkIs
  <2> QED
    BY <2>2, <1>0, <1>11, <1>12 DEF unassign, order, TypeOK
<1>13. ASSUME NEW d \in Driver, NEW x \in Deliv, release(d, x) \/ driver_arrived(d, x) PROVE Types'
  <2>1. row' \in [Deliv -> DelivRow]
    BY <1>13, MarkIs DEF release, driver_arrived
  <2> QED
    BY <2>1, <1>0, <1>11, <1>13 DEF release, driver_arrived, order, TypeOK
<1>14. ASSUME NEW o \in Order, Advance(o) PROVE Types'
  <2>1. status' \in [Order -> Graph!OrderStatus]
    BY <1>0, <1>14 DEF Advance, TypeOK, Graph!OrderStatus
  <2> QED
    BY <2>1, <1>0, <1>11, <1>14 DEF Advance, table, TypeOK
<1>15. ASSUME NEW d \in Driver, NEW b \in BOOLEAN, update_driver(d, b) PROVE Types'
  <2>1. active' \in [Driver -> BOOLEAN]
    BY <1>0, <1>15 DEF update_driver, TypeOK
  <2> QED
    BY <2>1, <1>0, <1>11, <1>15 DEF update_driver, table, order, TypeOK
<1> HIDE DEF Types
<1> QED
  BY <1>0, <1>2, <1>3, <1>4, <1>6, <1>7, <1>8, <1>9, <1>10, <1>12, <1>13, <1>14, <1>15, Steps

-----------------------------------------------------------------------------
(***************************************************************************)
(* The locks, and what the handlers that hold one rely on: nobody else has *)
(* the order; the status to be written is still allowed; the checks made   *)
(* without a lock on the delivery are still true, unless drivers may put   *)
(* deliveries back; the delivery found is still live, or there is still    *)
(* none.                                                                   *)
(***************************************************************************)
Holds(r, o) ==
    \/ job[r].pc \in {"locked", "follow"} /\ job[r].o = o
    \/ job[r].pc = "claim" /\ o \in job[r].os

LockOnce == \A o \in Order, r, s \in Proc : Holds(r, o) /\ Holds(s, o) => r = s

Proven == {"code", "admin_override"}

Going(r) ==
    job[r].pc \in {"locked", "follow"} =>
        /\ job[r].to \in Follows \cap Graph!VALID_TRANSITIONS[status[job[r].o]]
        /\ job[r].to = "out_for_delivery" /\ "release" \notin entry => Live(job[r].o) # {}
        /\ job[r].to = "delivered" /\ "proof" \in entry /\ job[r].proof \notin Proven
             => Live(job[r].o) = {}
        /\ job[r].pc = "follow" => \/ job[r].x = None /\ Live(job[r].o) = {}
                                   \/ job[r].x \in Live(job[r].o)

Claiming(r) ==
    job[r].pc = "claim" =>
        /\ active[job[r].d]
        /\ \A o \in job[r].os : /\ Live(o) = {} /\ Free(o) # {}
                                /\ status[o] \in ASSIGNABLE_ORDER_STATUSES

(* The deliveries: the three parts of DeliveryFollowsOrder, and the end. *)
OneLive == \A x, y \in LiveRows : OrderOf[x] = OrderOf[y] => x = y

RowsFollow ==
    \A x \in LiveRows :
        IF row[x].status = "assigned"
        THEN status[OrderOf[x]] \in ASSIGNABLE_ORDER_STATUSES
        ELSE status[OrderOf[x]] = "out_for_delivery"

RoadCarried ==
    "release" \notin entry =>
        \A o \in Order : status[o] = "out_for_delivery" => Live(o) # {}

Ended ==
    \A x \in Deliv : row[x].status = "delivered" =>
        /\ status[OrderOf[x]] = "delivered"
        /\ "proof" \in entry => row[x].proof \in Proven

Held  == LockOnce /\ \A r \in Proc : Going(r) /\ Claiming(r)
Table == OneLive /\ RowsFollow /\ RoadCarried /\ Ended
Core  == Types /\ Held /\ Table

(* A step leaves handler s, and all that it relies on, as they are. *)
Leaves(s) ==
    /\ job'[s] = job[s]
    /\ \A o \in Order : Holds(s, o) =>
         /\ status'[o] = status[o]
         /\ Live(o)' \subseteq Live(o) /\ Free(o) \subseteq Free(o)'
         /\ "release" \notin entry => Live(o)' = Live(o)
         /\ \A x \in Live(o) : job[s].pc = "follow" /\ job[s].x = x => x \in Live(o)'
    /\ \A d \in Driver : job[s].pc = "claim" /\ job[s].d = d /\ active[d] => active'[d]

LEMMA SameRows ==
    ASSUME NEW o \in Order, \A x \in Deliv : OrderOf[x] = o => row'[x].status = row[x].status
    PROVE  Live(o)' = Live(o) /\ Free(o)' = Free(o)
BY DEF Live, LiveRows, Free

LEMMA LeavesFrom ==
    ASSUME NEW s \in Proc, job'[s] = job[s], active' = active,
           \A o \in Order : Holds(s, o) =>
             /\ status'[o] = status[o]
             /\ \A x \in Deliv : OrderOf[x] = o => row'[x].status = row[x].status
    PROVE  Leaves(s)
<1>1. \A o \in Order : Holds(s, o) => Live(o)' = Live(o) /\ Free(o)' = Free(o)
  BY SameRows
<1> QED
  BY <1>1 DEF Leaves

LEMMA LeftGoing ==
    ASSUME Types, entry' = entry, NEW s \in Proc, Leaves(s), Going(s), Claiming(s)
    PROVE  Going(s)' /\ Claiming(s)'
<1>0. job[s] \in Job /\ JobOK(job[s]) /\ job'[s] = job[s]
  BY DEF Types, TypeOK, Leaves
<1>1. Going(s)'
  <2> SUFFICES ASSUME job[s].pc \in {"locked", "follow"} PROVE Going(s)'
    BY <1>0 DEF Going
  <2>1. PICK o \in Order : o = job[s].o
    BY <1>0 DEF JobOK
  <2>2. Holds(s, o)
    BY <2>1 DEF Holds
  <2>3. /\ status'[o] = status[o]
        /\ Live(o)' \subseteq Live(o)
        /\ "release" \notin entry => Live(o)' = Live(o)
        /\ \A x \in Live(o) : job[s].pc = "follow" /\ job[s].x = x => x \in Live(o)'
    BY <2>2 DEF Leaves
  <2>4. /\ job[s].to \in Follows \cap Graph!VALID_TRANSITIONS[status[o]]
        /\ job[s].to = "out_for_delivery" /\ "release" \notin entry => Live(o) # {}
        /\ job[s].to = "delivered" /\ "proof" \in entry /\ job[s].proof \notin Proven => Live(o) = {}
        /\ job[s].pc = "follow" => (job[s].x = None /\ Live(o) = {}) \/ job[s].x \in Live(o)
    BY <2>1 DEF Going
  <2>5. job'[s].o = o
    BY <2>1, <1>0
  <2>6. /\ job'[s].to \in Follows \cap Graph!VALID_TRANSITIONS[status'[o]]
        /\ job'[s].to = "out_for_delivery" /\ "release" \notin entry' => Live(o)' # {}
        /\ job'[s].to = "delivered" /\ "proof" \in entry' /\ job'[s].proof \notin Proven => Live(o)' = {}
        /\ job'[s].pc = "follow" => (job'[s].x = None /\ Live(o)' = {}) \/ job'[s].x \in Live(o)'
    BY <2>3, <2>4, <1>0
  <2> QED
    BY <2>5, <2>6 DEF Going
<1>2. Claiming(s)'
  <2> SUFFICES ASSUME job[s].pc = "claim" PROVE Claiming(s)'
    BY <1>0 DEF Claiming
  <2>1. job[s].d \in Driver /\ job[s].os \subseteq Order
    BY <1>0 DEF JobOK, Job
  <2>2. \A o \in job[s].os : Holds(s, o)
    BY DEF Holds
  <2>3. active'[job[s].d]
    BY <2>1 DEF Leaves, Claiming
  <2>4. ASSUME NEW o \in job[s].os
        PROVE  Live(o)' = {} /\ Free(o)' # {} /\ status'[o] \in ASSIGNABLE_ORDER_STATUSES
    BY <2>1, <2>2 DEF Leaves, Claiming
  <2> QED
    BY <2>3, <2>4, <1>0 DEF Claiming
<1> QED
  BY <1>1, <1>2

LEMMA HoldsSame ==
    ASSUME NEW s \in Proc, job'[s] = job[s], NEW o
    PROVE  Holds(s, o)' <=> Holds(s, o)
BY DEF Holds

(* Every handler is left alone or ends up with no lock. *)
LEMMA HeldLeft ==
    ASSUME Types, Held, entry' = entry,
           \A s \in Proc : Leaves(s) \/ job'[s].pc \notin Holding
    PROVE  Held'
<1>1. \A s \in Proc : Going(s)' /\ Claiming(s)'
  <2> TAKE s \in Proc
  <2>1. CASE Leaves(s)
    BY <2>1, LeftGoing DEF Held
  <2>2. CASE job'[s].pc \notin Holding
    BY <2>2 DEF Holding, Going, Claiming
  <2> QED
    BY <2>1, <2>2
<1>2. \A s \in Proc, o \in Order : Holds(s, o)' => Holds(s, o)
  <2> TAKE s \in Proc, o \in Order
  <2>1. CASE Leaves(s)
    BY <2>1, HoldsSame DEF Leaves
  <2>2. CASE job'[s].pc \notin Holding
    BY <2>2 DEF Holding, Holds
  <2> QED
    BY <2>1, <2>2
<1> QED
  BY <1>1, <1>2 DEF Held, LockOnce

(* Handler r takes its lock or goes on under it; nothing else moves. *)
LEMMA HeldTaken ==
    ASSUME Types, Held, entry' = entry, UNCHANGED <<status, active, row>>,
           NEW r \in Proc, \A s \in Proc : s # r => job'[s] = job[s],
           Going(r)', Claiming(r)',
           \A o \in Order : Holds(r, o)' => Holds(r, o) \/ ~Locked(o)
    PROVE  Held'
<1>1. \A s \in Proc : s # r => Leaves(s)
  BY LeavesFrom
<1>2. \A s \in Proc : Going(s)' /\ Claiming(s)'
  BY <1>1, LeftGoing DEF Held
<1>3. \A s \in Proc, o \in Order : s # r => (Holds(s, o)' <=> Holds(s, o))
  BY HoldsSame
<1>4. \A s \in Proc, o \in Order : Holds(s, o) => Locked(o)
  BY DEF Holds, Locked
<1>5. LockOnce'
  <2> SUFFICES ASSUME NEW o \in Order, NEW p \in Proc, NEW s \in Proc, Holds(p, o)', Holds(s, o)'
               PROVE  p = s
    BY DEF LockOnce
  <2>1. CASE p # r /\ s # r
    BY <2>1, <1>3 DEF Held, LockOnce
  <2>2. CASE p = r /\ s # r
    BY <2>2, <1>3, <1>4 DEF Held, LockOnce
  <2>3. CASE p # r /\ s = r
    BY <2>3, <1>3, <1>4 DEF Held, LockOnce
  <2> QED
    BY <2>1, <2>2, <2>3
<1> QED
  BY <1>2, <1>5 DEF Held

LEMMA TableSame ==
    ASSUME Table, entry' = entry, UNCHANGED <<status, row>>
    PROVE  Table'
<1>1. LiveRows' = LiveRows /\ \A o \in Order : Live(o)' = Live(o)
  BY DEF LiveRows, Live
<1> QED
  BY <1>1 DEF Table, OneLive, RowsFollow, RoadCarried, Ended

(* An assignment or a claim: some orders that may be assigned get a row, or keep theirs. *)
LEMMA TableAdds ==
    ASSUME Types, Table, entry' = entry, status' = status, NEW os \in SUBSET Order,
           \A o \in os : status[o] \in ASSIGNABLE_ORDER_STATUSES,
           \A x \in Deliv :
             \/ row'[x] = row[x]
             \/ /\ OrderOf[x] \in os /\ row'[x].status = "assigned"
                /\ \/ x \in LiveRows
                   \/ Live(OrderOf[x]) = {} /\ x = NewRow(OrderOf[x])
    PROVE  Table'
<1>1. \A x \in LiveRows' : /\ x \in Deliv
                           /\ \/ x \in LiveRows
                              \/ Live(OrderOf[x]) = {} /\ x = NewRow(OrderOf[x])
  BY DEF LiveRows
<1>2. \A x \in LiveRows : x \in LiveRows'
  BY DEF LiveRows, DELIVERY_ACTIVE_STATUSES
<1>3. OneLive'
  <2> SUFFICES ASSUME NEW x \in LiveRows', NEW y \in LiveRows', OrderOf[x] = OrderOf[y] PROVE x = y
    BY DEF OneLive
  <2>1. x \in LiveRows => x \in Live(OrderOf[x])
    BY DEF Live
  <2>2. y \in LiveRows => y \in Live(OrderOf[y])
    BY DEF Live
  <2> QED
    BY <1>1, <2>1, <2>2 DEF Table, OneLive
<1>4. RowsFollow'
  <2> SUFFICES ASSUME NEW x \in LiveRows'
               PROVE  IF row'[x].status = "assigned"
                      THEN status'[OrderOf[x]] \in ASSIGNABLE_ORDER_STATUSES
                      ELSE status'[OrderOf[x]] = "out_for_delivery"
    BY DEF RowsFollow
  <2>1. CASE row'[x] = row[x]
    <3>1. x \in LiveRows
      BY <2>1 DEF LiveRows
    <3> QED
      BY <2>1, <3>1 DEF Table, RowsFollow
  <2>2. CASE row'[x] # row[x]
    BY <2>2, <1>1
  <2> QED
    BY <2>1, <2>2
<1>5. RoadCarried'
  <2>1. \A o \in Order : Live(o) # {} => Live(o)' # {}
    BY <1>2 DEF Live
  <2> QED
    BY <2>1 DEF Table, RoadCarried
<1>6. Ended'
  BY DEF Table, Ended
<1> QED
  BY <1>3, <1>4, <1>5, <1>6 DEF Table

(* unassign and release *)
LEMMA TableDrops ==
    ASSUME Types, Table, entry' = entry, status' = status, NEW x \in Deliv,
           row[x].status = "assigned", row'[x].status = "cancelled",
           \A y \in Deliv : y # x => row'[y] = row[y]
    PROVE  Table'
<1>1. LiveRows' = LiveRows \ {x} /\ x \in LiveRows
  BY DEF LiveRows, DELIVERY_ACTIVE_STATUSES
<1>2. \A y \in LiveRows' : y \in LiveRows /\ row'[y] = row[y]
  BY <1>1 DEF LiveRows
<1>3. status[OrderOf[x]] # "out_for_delivery"
  BY <1>1 DEF Table, RowsFollow, ASSIGNABLE_ORDER_STATUSES
<1>4. \A o \in Order : o # OrderOf[x] => Live(o)' = Live(o)
  BY <1>1 DEF Live
<1>5. OneLive' /\ RowsFollow'
  BY <1>2 DEF Table, OneLive, RowsFollow
<1>6. RoadCarried'
  BY <1>3, <1>4 DEF Table, RoadCarried
<1>7. Ended'
  BY DEF Table, Ended
<1> QED
  BY <1>5, <1>6, <1>7 DEF Table

LEMMA TableArrives ==
    ASSUME Types, Table, entry' = entry, status' = status, NEW x \in Deliv,
           row[x].status = "out_for_delivery", row'[x].status = "arrived",
           \A y \in Deliv : y # x => row'[y] = row[y]
    PROVE  Table' /\ \A o \in Order : Live(o)' = Live(o) /\ Free(o)' = Free(o)
<1>1. LiveRows' = LiveRows /\ x \in LiveRows
  BY DEF LiveRows, DELIVERY_ACTIVE_STATUSES
<1>2. \A o \in Order : Live(o)' = Live(o) /\ Free(o)' = Free(o)
  BY <1>1 DEF Live, Free
<1>3. OneLive' /\ RoadCarried'
  BY <1>1, <1>2 DEF Table, OneLive, RoadCarried
<1>4. RowsFollow'
  <2> SUFFICES ASSUME NEW y \in LiveRows
               PROVE  IF row'[y].status = "assigned"
                      THEN status[OrderOf[y]] \in ASSIGNABLE_ORDER_STATUSES
                      ELSE status[OrderOf[y]] = "out_for_delivery"
    BY <1>1 DEF RowsFollow
  <2>1. y \in Deliv
    BY DEF LiveRows
  <2> QED
    BY <2>1 DEF Table, RowsFollow
<1>5. Ended'
  BY DEF Table, Ended
<1> QED
  BY <1>2, <1>3, <1>4, <1>5 DEF Table

(* Redeliver and Advance *)
LEMMA TableMoves ==
    ASSUME Types, Table, entry' = entry, row' = row, NEW o \in Order,
           NEW to \in ASSIGNABLE_ORDER_STATUSES, status' = [status EXCEPT ![o] = to],
           status[o] \in ASSIGNABLE_ORDER_STATUSES \cup {"delivery_failed"}
    PROVE  Table'
<1>0. /\ status \in [Order -> Graph!OrderStatus] /\ OrderOf \in [Deliv -> Order]
      /\ to # "out_for_delivery" /\ to # "delivered"
      /\ status[o] # "out_for_delivery" /\ status[o] # "delivered"
  BY DelivAssumption DEF Types, TypeOK, ASSIGNABLE_ORDER_STATUSES
<1>1. LiveRows' = LiveRows /\ \A p \in Order : Live(p)' = Live(p)
  BY DEF LiveRows, Live
<1>2. /\ status'[o] = to /\ \A p \in Order : p # o => status'[p] = status[p]
  BY <1>0
<1>3. OneLive'
  BY <1>1 DEF Table, OneLive
<1>4. RowsFollow'
  <2> SUFFICES ASSUME NEW x \in LiveRows
               PROVE  IF row[x].status = "assigned"
                      THEN status'[OrderOf[x]] \in ASSIGNABLE_ORDER_STATUSES
                      ELSE status'[OrderOf[x]] = "out_for_delivery"
    BY <1>1 DEF RowsFollow
  <2>1. OrderOf[x] \in Order
    BY <1>0 DEF LiveRows
  <2> QED
    BY <2>1, <1>0, <1>2 DEF Table, RowsFollow
<1>5. RoadCarried'
  BY <1>0, <1>1, <1>2 DEF Table, RoadCarried
<1>6. Ended'
  BY <1>0, <1>2 DEF Table, Ended
<1> QED
  BY <1>3, <1>4, <1>5, <1>6 DEF Table

LEMMA TableFollows ==
    ASSUME Types, Held, Table, entry' = entry, NEW r \in Proc, StatusCommit(r)
    PROVE  Table' /\ (job[r].x # None => job[r].x \in Live(job[r].o))
<1> DEFINE j == job[r]
           o == job[r].o
           x == job[r].x
           to == job[r].to
<1>0. /\ status \in [Order -> Graph!OrderStatus] /\ OrderOf \in [Deliv -> Order]
      /\ row \in [Deliv -> DelivRow] /\ None \notin Deliv
  BY DelivAssumption DEF Types, TypeOK, None
<1>1. /\ j.pc = "follow" /\ o \in Order /\ status' = [status EXCEPT ![o] = to]
      /\ \A y \in Deliv : y # x => row'[y] = row[y]
      /\ x # None =>
           /\ x \in Deliv
           /\ row'[x].status = IF to = "out_for_delivery" THEN "out_for_delivery"
                               ELSE IF to = "delivered" THEN "delivered"
                               ELSE IF to = "delivery_failed" THEN "failed"
                               ELSE "cancelled"
           /\ to = "delivered" => row'[x].proof = j.proof
  BY StatusIs
<1>2. /\ to \in Follows \cap Graph!VALID_TRANSITIONS[status[o]]
      /\ to = "out_for_delivery" /\ "release" \notin entry => Live(o) # {}
      /\ to = "delivered" /\ "proof" \in entry /\ j.proof \notin Proven => Live(o) = {}
      /\ (x = None /\ Live(o) = {}) \/ x \in Live(o)
  BY <1>1 DEF Held, Going
<1>3. status[o] # "delivered" /\ status[o] \in Graph!OrderStatus
  <2>1. status[o] \in Graph!OrderStatus
    BY <1>0, <1>1
  <2>2. Graph!VALID_TRANSITIONS["delivered"] = {}
    BY DEF Graph!VALID_TRANSITIONS, Graph!OrderStatus
  <2> QED
    BY <2>1, <2>2, <1>2
<1> HIDE DEF j, o, x, to
<1>4. status'[o] = to /\ \A p \in Order : p # o => status'[p] = status[p]
  BY <1>0, <1>1
<1>5. ASSUME NEW y \in Deliv, row[y].status = "delivered" PROVE OrderOf[y] # o /\ OrderOf[y] \in Order
  BY <1>0, <1>3, <1>5 DEF Table, Ended
<1>6. x \notin Deliv => x = None
  BY <1>2 DEF Live, LiveRows
<1>7. CASE x = None
  <2>1. Live(o) = {} /\ \A y \in Deliv : row'[y] = row[y]
    BY <1>0, <1>1, <1>2, <1>7 DEF Live, LiveRows
  <2>2. LiveRows' = LiveRows /\ \A p \in Order : Live(p)' = Live(p)
    BY <2>1 DEF LiveRows, Live
  <2>3. \A y \in LiveRows : OrderOf[y] # o /\ OrderOf[y] \in Order
    BY <2>1, <1>0 DEF Live, LiveRows
  <2>4. OneLive'
    BY <2>2 DEF Table, OneLive
  <2>5. RowsFollow'
    <3>1. \A y \in LiveRows : row'[y] = row[y]
      BY <2>1 DEF LiveRows
    <3> QED
      BY <3>1, <2>2, <2>3, <1>4 DEF Table, RowsFollow
  <2>6. RoadCarried'
    BY <2>1, <2>2, <1>2, <1>4 DEF Table, RoadCarried
  <2>7. Ended'
    BY <2>1, <1>4, <1>5 DEF Table, Ended
  <2> QED
    BY <2>4, <2>5, <2>6, <2>7, <1>7 DEF Table, x, o
<1>8. CASE x # None
  <2>1. x \in Deliv /\ x \in Live(o) /\ x \in LiveRows /\ OrderOf[x] = o
    BY <1>1, <1>2, <1>8 DEF Live
  <2>2. \A y \in LiveRows : y # x => OrderOf[y] # o /\ OrderOf[y] \in Order /\ row'[y] = row[y] /\ y \in Deliv
    BY <2>1, <1>0, <1>1 DEF Table, OneLive, LiveRows
  <2>3. LiveRows' \subseteq LiveRows /\ \A y \in LiveRows : y # x => y \in LiveRows'
    <3>1. ASSUME NEW y \in LiveRows' PROVE y \in LiveRows
      BY <3>1, <2>1, <1>1 DEF LiveRows
    <3>2. ASSUME NEW y \in LiveRows, y # x PROVE y \in LiveRows'
      BY <3>2, <2>2 DEF LiveRows
    <3> QED
      BY <3>1, <3>2
  <2>4. OneLive'
    BY <2>3 DEF Table, OneLive
  <2>5. x \in LiveRows' => to = "out_for_delivery"
    BY <2>1, <1>1, <1>8 DEF LiveRows, DELIVERY_ACTIVE_STATUSES
  <2>6. RowsFollow'
    <3> SUFFICES ASSUME NEW y \in LiveRows'
                 PROVE  IF row'[y].status = "assigned"
                        THEN status'[OrderOf[y]] \in ASSIGNABLE_ORDER_STATUSES
                        ELSE status'[OrderOf[y]] = "out_for_delivery"
      BY DEF RowsFollow
    <3>1. CASE y = x
      BY <3>1, <2>1, <2>5, <1>1, <1>4, <1>8
    <3>2. CASE y # x
      BY <3>2, <2>2, <2>3, <1>4 DEF Table, RowsFollow
    <3> QED
      BY <3>1, <3>2
  <2>7. RoadCarried'
    <3> SUFFICES ASSUME "release" \notin entry, NEW p \in Order, status'[p] = "out_for_delivery"
                 PROVE  Live(p)' # {}
      BY DEF RoadCarried
    <3>1. CASE p = o
      <4>1. x \in LiveRows'
        BY <3>1, <2>1, <1>1, <1>4, <1>8 DEF LiveRows, DELIVERY_ACTIVE_STATUSES
      <4> QED
        BY <4>1, <3>1, <2>1 DEF Live
    <3>2. CASE p # o
      <4>1. PICK y \in Live(p) : TRUE
        BY <3>2, <1>4 DEF Table, RoadCarried
      <4>2. y \in Live(p)'
        BY <4>1, <3>2, <2>1, <2>3 DEF Live
      <4> QED
        BY <4>2
    <3> QED
      BY <3>1, <3>2
  <2>8. Ended'
    <3> SUFFICES ASSUME NEW y \in Deliv, row'[y].status = "delivered"
                 PROVE  status'[OrderOf[y]] = "delivered" /\ ("proof" \in entry => row'[y].proof \in Proven)
      BY DEF Ended
    <3>1. CASE y = x
      <4>1. to = "delivered"
        BY <3>1, <1>1, <1>8
      <4> QED
        BY <4>1, <3>1, <2>1, <1>1, <1>2, <1>4, <1>8
    <3>2. CASE y # x
      BY <3>2, <1>1, <1>4, <1>5 DEF Table, Ended
    <3> QED
      BY <3>1, <3>2
  <2> QED
    BY <2>1, <2>4, <2>6, <2>7, <2>8 DEF Table, x, o
<1> QED
  BY <1>7, <1>8

LEMMA CoreInit == Init => Core
<1> SUFFICES ASSUME Init PROVE Core
  OBVIOUS
<1>1. \A r \in Proc : job[r] = Idle
  BY DEF Init
<1>2. Held
  BY <1>1, IdleIs DEF Held, LockOnce, Going, Claiming, Holds
<1>3. \A x \in Deliv : row[x].status = "absent"
  BY DEF Init, NoRow
<1>4. LiveRows = {}
  BY <1>3 DEF LiveRows, DELIVERY_ACTIVE_STATUSES
<1>5. \A o \in Order : status[o] = "preparing"
  BY DEF Init
<1>6. Table
  BY <1>3, <1>4, <1>5 DEF Table, OneLive, RowsFollow, RoadCarried, Ended
<1> QED
  BY <1>2, <1>6, TypesInit DEF Core

LEMMA CoreStep == Core /\ Next => Core'
<1> SUFFICES ASSUME Core, Next PROVE Held' /\ Table'
  <2>1. ASSUME Core, Next PROVE Types'
    <3>1. Types /\ \A r \in Proc : job[r].pc = "claim" => \A o \in job[r].os : Free(o) # {}
      BY <2>1 DEF Core, Held, Claiming
    <3> QED
      BY <2>1, <3>1, TypesStep
  <2> QED
    BY <2>1 DEF Core
<1>0. /\ Types /\ Held /\ Table /\ entry' = entry /\ Step /\ OrderOf \in [Deliv -> Order]
      /\ job \in [Proc -> Job] /\ \A r \in Proc : JobOK(job[r])
  BY DelivAssumption DEF Core, Next, Types, TypeOK
<1>1. ASSUME NEW r \in Proc, NEW j, Rests(r, j) PROVE Held' /\ Table'
  <2>1. j \in Job /\ Become(r, j) /\ j.pc \notin Holding /\ UNCHANGED <<status, active, row>>
    BY <1>1 DEF Rests
  <2>2. job'[r] = j /\ \A s \in Proc : s # r => job'[s] = job[s]
    BY <2>1, <1>0, BecomeIs
  <2>3. \A s \in Proc : s # r => Leaves(s)
    BY <2>1, <2>2, LeavesFrom
  <2>4. Held'
    BY <2>1, <2>2, <2>3, <1>0, HeldLeft
  <2> QED
    BY <2>1, <2>4, <1>0, TableSame
<1>2. ASSUME NEW r \in Proc, NEW j \in Job, NEW o \in Order, NEW to \in Follows, NEW proof \in Proof,
             Begins(r, j, o, to, proof)
      PROVE  Held' /\ Table'
  <2>1. /\ job'[r].pc = "locked" /\ job'[r].o = o /\ job'[r].to = to /\ job'[r].proof = proof
        /\ \A s \in Proc : s # r => job'[s] = job[s]
        /\ ~Locked(o) /\ to \in Graph!VALID_TRANSITIONS[status[o]]
        /\ to = "out_for_delivery" => Live(o) # {}
        /\ to = "delivered" /\ proof = "none" => ~proof_required_for(o)
        /\ UNCHANGED <<status, active, row>>
    BY <1>0, <1>2, BeginIs
  <2>2. Live(o)' = Live(o)
    BY <2>1, SameRows
  <2>3. to = "delivered" /\ "proof" \in entry /\ proof \notin Proven => Live(o) = {}
    <3>1. "proof" \in entry /\ proof \notin Proven => proof = "none"
      <4>1. JobOK(job[r])
        BY <1>0
      <4> QED
        BY <4>1, <1>2 DEF Begins, Proven, JobOK
    <3> QED
      BY <3>1, <2>1 DEF proof_required_for
  <2>4. Going(r)'
    BY <2>1, <2>2, <2>3, <1>0 DEF Going
  <2>5. Claiming(r)' /\ \A p \in Order : Holds(r, p)' => ~Locked(p)
    BY <2>1 DEF Claiming, Holds
  <2>6. Held'
    BY <2>1, <2>4, <2>5, <1>0, HeldTaken
  <2> QED
    BY <2>1, <2>6, <1>0, TableSame
<1>3. ASSUME NEW r \in Proc, NEW d \in Driver, NEW os \in SUBSET Order, claim(r, d, os) PROVE Held' /\ Table'
  <2> DEFINE j == [Idle EXCEPT !.pc = "claim", !.d = d, !.os = os]
  <2>1. /\ Become(r, j) /\ UNCHANGED <<status, active, row>> /\ active[d]
        /\ \A o \in os : /\ ~Locked(o) /\ Live(o) = {} /\ Free(o) # {}
                         /\ status[o] \in ASSIGNABLE_ORDER_STATUSES
    BY <1>3 DEF claim, order, table
  <2>2. j \in Job /\ j.pc = "claim" /\ j.d = d /\ j.os = os
    BY IdleIs DEF Job, Idle
  <2> HIDE DEF j
  <2>3. job'[r] = j /\ \A s \in Proc : s # r => job'[s] = job[s]
    BY <2>1, <2>2, <1>0, BecomeIs
  <2>4. \A o \in Order : Live(o)' = Live(o) /\ Free(o)' = Free(o)
    BY <2>1, SameRows
  <2>5. Going(r)' /\ \A p \in Order : Holds(r, p)' => ~Locked(p)
    BY <2>1, <2>2, <2>3 DEF Going, Holds
  <2>6. Claiming(r)'
    BY <2>1, <2>2, <2>3, <2>4 DEF Claiming
  <2>7. Held'
    BY <2>1, <2>3, <2>5, <2>6, <1>0, HeldTaken
  <2> QED
    BY <2>1, <2>7, <1>0, TableSame
<1>4. ASSUME NEW r \in Proc, Follow(r) PROVE Held' /\ Table'
  <2>1. /\ job[r].pc = "locked" /\ job'[r].pc = "follow" /\ job'[r].o = job[r].o
        /\ job'[r].to = job[r].to /\ job'[r].proof = job[r].proof
        /\ \A s \in Proc : s # r => job'[s] = job[s]
        /\ (job'[r].x = None /\ Live(job[r].o) = {}) \/ job'[r].x \in Live(job[r].o)
        /\ UNCHANGED <<status, active, row>>
    BY <1>0, <1>4, FollowIs
  <2>2. PICK o \in Order : o = job[r].o
    BY <2>1, <1>0 DEF JobOK
  <2>3. Live(o)' = Live(o)
    BY <2>1, SameRows
  <2>4. /\ job[r].to \in Follows \cap Graph!VALID_TRANSITIONS[status[o]]
        /\ job[r].to = "out_for_delivery" /\ "release" \notin entry => Live(o) # {}
        /\ job[r].to = "delivered" /\ "proof" \in entry /\ job[r].proof \notin Proven => Live(o) = {}
    BY <2>1, <2>2, <1>0 DEF Held, Going
  <2>5. Going(r)'
    BY <2>1, <2>2, <2>3, <2>4, <1>0 DEF Going
  <2>6. Claiming(r)' /\ \A p \in Order : Holds(r, p)' => Holds(r, p)
    BY <2>1 DEF Claiming, Holds
  <2>7. Held'
    BY <2>1, <2>5, <2>6, <1>0, HeldTaken
  <2> QED
    BY <2>1, <2>7, <1>0, TableSame
<1>5. \A s \in Proc, o \in Order : Holds(s, o) => Locked(o)
  BY DEF Holds, Locked
<1>6. ASSUME NEW r \in Proc, AssignCommit(r) PROVE Held' /\ Table'
  <2>1. /\ Become(r, Idle) /\ UNCHANGED <<status, active>>
        /\ \A o \in job[r].os : ~Locked(o) /\ status[o] \in ASSIGNABLE_ORDER_STATUSES
        /\ \A x \in Deliv :
             \/ row'[x] = row[x]
             \/ /\ OrderOf[x] \in job[r].os /\ row'[x].status = "assigned"
                /\ \/ x \in LiveRows
                   \/ Live(OrderOf[x]) = {} /\ x = NewRow(OrderOf[x])
    BY <1>0, <1>6, AssignIs
  <2>2. job'[r] = Idle /\ \A s \in Proc : s # r => job'[s] = job[s]
    BY <2>1, <1>0, IdleIs, BecomeIs
  <2>3. \A s \in Proc, o \in Order : Holds(s, o) =>
          /\ status'[o] = status[o]
          /\ \A x \in Deliv : OrderOf[x] = o => row'[x].status = row[x].status
    BY <2>1, <1>5
  <2>4. \A s \in Proc : s # r => Leaves(s)
    BY <2>1, <2>2, <2>3, LeavesFrom
  <2>5. Held'
    BY <2>2, <2>4, <1>0, IdleIs, HeldLeft DEF Holding
  <2>6. job[r].os \in SUBSET Order
    BY <1>0 DEF Job
  <2>7. Table'
    BY <2>1, <2>6, <1>0, TableAdds
  <2> QED
    BY <2>5, <2>7
<1>7. ASSUME NEW r \in Proc, ClaimCommit(r) PROVE Held' /\ Table'
  <2>0. /\ job[r].pc = "claim" /\ job[r].os \in SUBSET Order
        /\ \A o \in job[r].os : Live(o) = {} /\ Free(o) # {} /\ status[o] \in ASSIGNABLE_ORDER_STATUSES
    BY <1>0, <1>7 DEF ClaimCommit, Held, Claiming, Job
  <2>1. /\ Become(r, Idle) /\ UNCHANGED <<status, active>>
        /\ \A x \in Deliv :
             \/ row'[x] = row[x]
             \/ /\ OrderOf[x] \in job[r].os /\ x = NewRow(OrderOf[x]) /\ row'[x].status = "assigned"
    BY <1>0, <1>7, <2>0, ClaimIs
  <2>2. job'[r] = Idle /\ \A s \in Proc : s # r => job'[s] = job[s]
    BY <2>1, <1>0, IdleIs, BecomeIs
  <2>3. \A s \in Proc, o \in Order : s # r /\ Holds(s, o) => o \notin job[r].os
    BY <2>0, <1>0 DEF Held, LockOnce, Holds
  <2>4. \A s \in Proc : s # r => Leaves(s)
    BY <2>1, <2>2, <2>3, LeavesFrom
  <2>5. Held'
    BY <2>2, <2>4, <1>0, IdleIs, HeldLeft DEF Holding
  <2>6. Table'
    BY <2>0, <2>1, <1>0, TableAdds
  <2> QED
    BY <2>5, <2>6
<1>8. ASSUME NEW r \in Proc, StatusCommit(r) PROVE Held' /\ Table'
  <2>1. /\ job[r].pc = "follow" /\ job[r].o \in Order /\ status' = [status EXCEPT ![job[r].o] = job[r].to]
        /\ active' = active /\ job'[r].pc \in {"idle", "depart"}
        /\ \A s \in Proc : s # r => job'[s] = job[s]
        /\ \A y \in Deliv : y # job[r].x => row'[y] = row[y]
    BY <1>0, <1>8, StatusIs
  <2>2. Table' /\ (job[r].x # None => job[r].x \in Live(job[r].o))
    BY <1>0, <1>8, TableFollows
  <2>3. \A s \in Proc, o \in Order : s # r /\ Holds(s, o) => o # job[r].o
    BY <2>1, <1>0 DEF Held, LockOnce, Holds
  <2>4. \A y \in Deliv : OrderOf[y] # job[r].o => row'[y] = row[y]
    <3>1. None \notin Deliv
      BY DelivAssumption DEF None
    <3> QED
      BY <3>1, <2>1, <2>2 DEF Live
  <2>5. \A o \in Order : o # job[r].o => status'[o] = status[o]
    BY <2>1, <1>0 DEF Types, TypeOK
  <2>6. \A s \in Proc : s # r => Leaves(s)
    BY <2>1, <2>3, <2>4, <2>5, LeavesFrom
  <2>7. Held'
    BY <2>1, <2>6, <1>0, HeldLeft DEF Holding
  <2> QED
    BY <2>2, <2>7
<1>9. ASSUME NEW r \in Proc, Redeliver(r) PROVE Held' /\ Table'
  <2> DEFINE j == [job[r] EXCEPT !.pc = "mark"]
  <2>1. /\ job[r].pc = "resolve" /\ Become(r, j) /\ status' = [status EXCEPT ![job[r].o] = "ready"]
        /\ ~Locked(job[r].o) /\ status[job[r].o] = "delivery_failed" /\ UNCHANGED <<active, row>>
    BY <1>9 DEF Redeliver, Done, table
  <2>2. j \in Job /\ j.pc = "mark"
    BY <1>0 DEF Job
  <2>3. PICK o \in Order : o = job[r].o
    BY <2>1, <1>0 DEF JobOK, OnOrder
  <2> HIDE DEF j
  <2>4. job'[r] = j /\ \A s \in Proc : s # r => job'[s] = job[s]
    BY <1>0, <2>1, <2>2, BecomeIs
  <2>5. \A p \in Order : p # o => status'[p] = status[p]
    BY <2>1, <2>3, <1>0 DEF Types, TypeOK
  <2>6. \A s \in Proc : s # r => Leaves(s)
    BY <2>1, <2>3, <2>4, <2>5, <1>5, LeavesFrom
  <2>7. Held'
    BY <2>2, <2>4, <2>6, <1>0, HeldLeft DEF Holding
  <2>8. Table'
    BY <2>1, <2>3, <1>0, TableMoves DEF ASSIGNABLE_ORDER_STATUSES
  <2> QED
    BY <2>7, <2>8
<1>10. ASSUME NEW o \in Order, Advance(o) PROVE Held' /\ Table'
  <2>1. /\ ~Locked(o) /\ UNCHANGED <<active, row, job>> /\ status[o] \in {"preparing", "ready"}
        /\ \E to \in {"preparing", "ready"} : status' = [status EXCEPT ![o] = to]
    BY <1>10 DEF Advance, table
  <2>2. \A p \in Order : p # o => status'[p] = status[p]
    BY <2>1, <1>0 DEF Types, TypeOK
  <2>3. \A s \in Proc : Leaves(s)
    BY <2>1, <2>2, <1>5, LeavesFrom
  <2>4. Held'
    BY <2>3, <1>0, HeldLeft
  <2>5. Table'
    BY <2>1, <1>0, TableMoves DEF ASSIGNABLE_ORDER_STATUSES
  <2> QED
    BY <2>4, <2>5
<1>11. ASSUME NEW o \in Order, unassign(o) PROVE Held' /\ Table'
  <2>1. PICK x \in Live(o) : row[x].status = "assigned" /\ row' = [row EXCEPT ![x].status = "cancelled"]
    BY <1>11 DEF unassign
  <2>2. ~Locked(o) /\ UNCHANGED <<status, active, job>>
    BY <1>11 DEF unassign, order
  <2>3. x \in Deliv /\ OrderOf[x] = o
    BY DEF Live, LiveRows
  <2>4. row'[x].status = "cancelled" /\ \A y \in Deliv : y # x => row'[y] = row[y]
    BY <2>1, <2>3, <1>0, MarkIs
  <2>5. \A s \in Proc : Leaves(s)
    BY <2>2, <2>3, <2>4, <1>5, LeavesFrom
  <2>6. Held'
    BY <2>5, <1>0, HeldLeft
  <2>7. Table'
    BY <2>1, <2>2, <2>3, <2>4, <1>0, TableDrops
  <2> QED
    BY <2>6, <2>7
<1>12. ASSUME NEW d \in Driver, NEW x \in Deliv, release(d, x) PROVE Held' /\ Table'
  <2>1. /\ "release" \in entry /\ row[x].status = "assigned" /\ ~RowLocked(x)
        /\ row' = [row EXCEPT ![x].status = "cancelled"] /\ UNCHANGED <<status, active, job>>
    BY <1>12 DEF release, order
  <2>2. row'[x].status = "cancelled" /\ \A y \in Deliv : y # x => row'[y] = row[y]
    BY <2>1, <1>0, MarkIs
  <2>3. \A o \in Order : /\ Live(o)' = Live(o) \ {x}
                         /\ Free(o)' = Free(o)
    BY <2>1, <2>2 DEF Live, LiveRows, Free, DELIVERY_ACTIVE_STATUSES
  <2>4. \A s \in Proc : job[s].pc = "follow" => job[s].x # x
    BY <2>1 DEF RowLocked
  <2>5. \A s \in Proc : Leaves(s)
    BY <2>1, <2>3, <2>4 DEF Leaves
  <2>6. Held'
    BY <2>5, <1>0, HeldLeft
  <2>7. Table'
    BY <2>1, <2>2, <1>0, TableDrops
  <2> QED
    BY <2>6, <2>7
<1>13. ASSUME NEW d \in Driver, NEW x \in Deliv, driver_arrived(d, x) PROVE Held' /\ Table'
  <2>1. /\ row[x].status = "out_for_delivery" /\ row' = [row EXCEPT ![x].status = "arrived"]
        /\ UNCHANGED <<status, active, job>>
    BY <1>13 DEF driver_arrived, order
  <2>2. row'[x].status = "arrived" /\ \A y \in Deliv : y # x => row'[y] = row[y]
    BY <2>1, <1>0, MarkIs
  <2>3. Table' /\ \A o \in Order : Live(o)' = Live(o) /\ Free(o)' = Free(o)
    BY <2>1, <2>2, <1>0, TableArrives
  <2>4. \A s \in Proc : Leaves(s)
    BY <2>1, <2>3 DEF Leaves
  <2>5. Held'
    BY <2>4, <1>0, HeldLeft
  <2> QED
    BY <2>3, <2>5
<1>14. ASSUME NEW d \in Driver, NEW b \in BOOLEAN, update_driver(d, b) PROVE Held' /\ Table'
  <2>1. ~DriverLocked(d) /\ active' = [active EXCEPT ![d] = b] /\ UNCHANGED <<status, row, job>>
    BY <1>14 DEF update_driver, order, table
  <2>2. \A s \in Proc : job[s].pc = "claim" => job[s].d # d
    BY <2>1 DEF DriverLocked
  <2>3. \A e \in Driver : e # d => active'[e] = active[e]
    BY <2>1, <1>0 DEF Types, TypeOK
  <2>4. \A o \in Order : Live(o)' = Live(o) /\ Free(o)' = Free(o)
    BY <2>1, SameRows
  <2>5. \A s \in Proc : Leaves(s)
    BY <2>1, <2>2, <2>3, <2>4 DEF Leaves
  <2>6. Held'
    BY <2>5, <1>0, HeldLeft
  <2> QED
    BY <2>1, <2>6, <1>0, TableSame
<1> DEFINE Goal == Held' /\ Table'
<1> HIDE DEF Goal
<1>15. Goal
  BY <1>0, <1>1, <1>2, <1>3, <1>4, <1>6, <1>7, <1>8, <1>9, <1>10, <1>11, <1>12, <1>13, <1>14, Steps DEF Goal
<1> QED
  BY <1>15 DEF Goal

LEMMA CoreStutter == Core /\ UNCHANGED vars => Core'
<1> SUFFICES ASSUME Core, UNCHANGED vars PROVE Core'
  OBVIOUS
<1> USE DEF vars
<1>1. Types'
  BY DEF Core, Types, TypeOK, JobOK
<1>2. Table'
  BY TableSame DEF Core
<1>3. \A s \in Proc : Leaves(s)
  BY LeavesFrom
<1>4. Held'
  BY <1>3, HeldLeft DEF Core
<1> QED
  BY <1>1, <1>2, <1>4 DEF Core

(***************************************************************************)
(* The core of the inductive argument: the types, one handler per order    *)
(* lock (update_status holds its row FOR UPDATE) and the rows of the       *)
(* deliveries that follow from it.                                         *)
(***************************************************************************)
THEOREM DeliveryCore == Spec => []Core
BY CoreInit, CoreStep, CoreStutter, PTL DEF Spec

(***************************************************************************)
(* Every table and every handler keeps its type (delivery/models.py).      *)
(***************************************************************************)
THEOREM DeliveryTypeOK == Spec => []TypeOK
<1>1. Core => TypeOK
  BY DEF Core, Types
<1> QED
  BY <1>1, DeliveryCore, PTL

(***************************************************************************)
(* The deliveries follow the orders (lifecycle.py, assign, _claim_locked,  *)
(* update_status), whichever handlers overlap.                             *)
(***************************************************************************)
THEOREM DeliveriesFollowOrders == Spec => []DeliveryFollowsOrder
<1>1. Core => DeliveryFollowsOrder
  BY DEF Core, Table, OneLive, RowsFollow, RoadCarried, DeliveryFollowsOrder
<1> QED
  BY <1>1, DeliveryCore, PTL

(***************************************************************************)
(* The life cycle.  The deliveries begin in the kitchen, so no order is    *)
(* confirmed again and a cancellation gives nothing back.                  *)
(***************************************************************************)
Cooking == \A o \in Order : status[o] # "confirmed"

(* The ways in which the status of an order moves. *)
Moves(o) ==
    \/ status'[o] = status[o]
    \/ status'[o] \in Follows \cap Graph!VALID_TRANSITIONS[status[o]]
    \/ status[o] = "preparing" /\ status'[o] = "ready"
    \/ status[o] = "ready" /\ status'[o] = "preparing"
    \/ status[o] = "delivery_failed" /\ status'[o] = "ready"

LEMMA MovesStep ==
    ASSUME Core, Next, NEW o \in Order
    PROVE  Moves(o)
<1>0. /\ Types /\ Step /\ status \in [Order -> Graph!OrderStatus]
      /\ \A r \in Proc : Going(r) /\ JobOK(job[r])
  BY DEF Core, Held, Next, Types, TypeOK
<1>1. ASSUME NEW r \in Proc, StatusCommit(r) PROVE Moves(o)
  <2>1. /\ job[r].pc = "follow"
        /\ status' = [status EXCEPT ![job[r].o] = job[r].to]
    BY <1>1 DEF StatusCommit
  <2>2. job[r].to \in Follows \cap Graph!VALID_TRANSITIONS[status[job[r].o]]
    BY <1>0, <2>1 DEF Going
  <2> QED
    BY <1>0, <2>1, <2>2 DEF Moves
<1>2. ASSUME NEW r \in Proc, Redeliver(r) PROVE Moves(o)
  BY <1>0, <1>2 DEF Redeliver, Moves
<1>3. ASSUME NEW q \in Order, Advance(q) PROVE Moves(o)
  BY <1>0, <1>3 DEF Advance, Moves
<1>4. CASE status' = status
  BY <1>4 DEF Moves
<1>5. ASSUME NEW r \in Proc, NEW j, Rests(r, j) PROVE status' = status
  BY <1>5 DEF Rests
<1>6. ASSUME NEW r \in Proc, NEW j, NEW q, NEW to, NEW proof, Begins(r, j, q, to, proof)
      PROVE  status' = status
  BY <1>6 DEF Begins, Begin, order
<1>7. ASSUME NEW r \in Proc,
             \/ \E d \in Driver, os \in SUBSET Order : claim(r, d, os)
             \/ AssignCommit(r) \/ ClaimCommit(r) \/ Follow(r)
      PROVE  status' = status
  BY <1>7 DEF claim, AssignCommit, ClaimCommit, Follow, order
<1>8. ASSUME \/ \E q \in Order : unassign(q)
             \/ \E d \in Driver, x \in Deliv : release(d, x) \/ driver_arrived(d, x)
             \/ \E d \in Driver, b \in BOOLEAN : update_driver(d, b)
      PROVE  status' = status
  BY <1>8 DEF unassign, release, driver_arrived, update_driver, order
<1> QED
  BY <1>0, <1>1, <1>2, <1>3, <1>4, <1>5, <1>6, <1>7, <1>8, Steps

LEMMA LifeMoves ==
    ASSUME NEW o \in Order, status[o] \in Graph!OrderStatus \ {"confirmed"}, Moves(o)
    PROVE  [Life(o)!Next]_(Life(o)!lvars)
<1>1. CASE status'[o] = status[o]
  BY <1>1 DEF Life!lvars
<1>2. CASE status'[o] \in Follows \cap Graph!VALID_TRANSITIONS[status[o]]
  <2>1. Graph!VALID_TRANSITIONS[status[o]] = Life(o)!VALID_TRANSITIONS[status[o]]
    BY DEF Graph!VALID_TRANSITIONS, Life!VALID_TRANSITIONS, Graph!OrderStatus, Life!OrderStatus
  <2>2. CASE status'[o] = "cancelled"
    BY <1>2, <2>1, <2>2 DEF Life!Next, Life!Cancel
  <2>3. CASE status'[o] # "cancelled"
    BY <1>2, <2>1, <2>3 DEF Life!Next, Life!Advance, Follows
  <2> QED
    BY <2>2, <2>3
<1>3. CASE status[o] = "preparing" /\ status'[o] = "ready"
  <2>1. status'[o] \in Life(o)!VALID_TRANSITIONS[status[o]]
    BY <1>3 DEF Life!VALID_TRANSITIONS, Life!OrderStatus
  <2> QED
    BY <1>3, <2>1 DEF Life!Next, Life!Advance
<1>4. CASE status[o] = "ready" /\ status'[o] = "preparing"
  BY <1>4 DEF Life!Next, Life!Reopen
<1>5. CASE status[o] = "delivery_failed" /\ status'[o] = "ready"
  BY <1>5 DEF Life!Next, Life!Redeliver
<1> QED
  BY <1>1, <1>2, <1>3, <1>4, <1>5 DEF Moves

LEMMA CookingAlways == Spec => []Cooking
<1>1. Init => Cooking
  BY DEF Init, Cooking
<1>2. ASSUME Core, Cooking, [Next]_vars PROVE Cooking'
  <2>1. CASE Next
    BY <1>2, <2>1, MovesStep DEF Moves, Cooking, Follows
  <2>2. CASE UNCHANGED vars
    BY <1>2, <2>2 DEF vars, Cooking
  <2> QED
    BY <1>2, <2>1, <2>2
<1> QED
  BY <1>1, <1>2, DeliveryCore, PTL DEF Spec

(***************************************************************************)
(* An order on its way stays in the life cycle: the move that              *)
(* update_status checked is still allowed when it is committed, since the  *)
(* order was locked all the time; the other writers check and write at     *)
(* once (Advance, _redeliver).                                             *)
(***************************************************************************)
THEOREM DeliveryStaysInLifecycle == Spec => StaysInLifecycle
<1>1. ASSUME Core, Cooking, [Next]_vars, NEW o \in Order
      PROVE  [Life(o)!Next]_(Life(o)!lvars)
  <2>1. status[o] \in Graph!OrderStatus \ {"confirmed"}
    BY <1>1 DEF Core, Types, TypeOK, Cooking
  <2>2. Moves(o)
    BY <1>1, MovesStep DEF vars, Moves
  <2> QED
    BY <2>1, <2>2, LifeMoves
<1>2. Core /\ Cooking /\ [Next]_vars
        => [\A o \in Order : [Life(o)!Next]_(Life(o)!lvars)]_vars
  BY <1>1
<1> QED
  BY <1>2, DeliveryCore, CookingAlways, PTL DEF Spec, StaysInLifecycle

-----------------------------------------------------------------------------
(***************************************************************************)
(* Wrong codes.  An attempt that was counted and not yet committed is one  *)
(* more that may fail.                                                     *)
(***************************************************************************)
Trying(x) == {r \in Proc : job[r].pc = "try" /\ job[r].x = x}

CountedInv ==
    \A x \in Deliv : attempts[x] + Cardinality(Trying(x)) <= MaxFailed + Cardinality(Proc) - 1

LEMMA TryingFinite ==
    ASSUME NEW x
    PROVE  /\ IsFiniteSet(Trying(x)) /\ Cardinality(Trying(x)) \in Nat
           /\ Cardinality(Proc) \in Nat /\ Cardinality(Proc) >= 1
           /\ Cardinality(Trying(x)) <= Cardinality(Proc)
<1>1. Trying(x) \in SUBSET Proc /\ IsFiniteSet(Proc) /\ Proc # {}
  BY FiniteAssumption DEF Trying
<1>2. IsFiniteSet(Trying(x)) /\ Cardinality(Trying(x)) <= Cardinality(Proc)
  BY <1>1, FS_Subset
<1>3. Cardinality(Proc) \in Nat /\ Cardinality(Trying(x)) \in Nat
  BY <1>1, <1>2, FS_CardinalityType
<1>4. Cardinality(Proc) # 0
  BY <1>1, FS_EmptySet
<1> QED
  BY <1>2, <1>3, <1>4

LEMMA CountedInit == Init => CountedInv
<1> SUFFICES ASSUME Init, NEW x \in Deliv
             PROVE  attempts[x] + Cardinality(Trying(x)) <= MaxFailed + Cardinality(Proc) - 1
  BY DEF CountedInv
<1>1. attempts[x] = 0 /\ \A r \in Proc : job[r] = Idle
  BY DEF Init
<1>2. Trying(x) = {}
  BY <1>1, IdleIs DEF Trying
<1>3. Cardinality(Trying(x)) = 0
  BY <1>2, FS_EmptySet
<1> QED
  BY <1>1, <1>3, TryingFinite, LimitAssumption

LEMMA CountedKept ==
    ASSUME Types, CountedInv, attempts' = attempts,
           \A s \in Proc : job'[s] = job[s] \/ job'[s].pc # "try"
    PROVE  CountedInv'
<1> SUFFICES ASSUME NEW x \in Deliv
             PROVE  attempts'[x] + Cardinality(Trying(x)') <= MaxFailed + Cardinality(Proc) - 1
  BY DEF CountedInv
<1>1. Trying(x)' \in SUBSET Trying(x)
  BY DEF Trying
<1>2. Cardinality(Trying(x)') <= Cardinality(Trying(x)) /\ Cardinality(Trying(x)') \in Nat
  BY <1>1, TryingFinite, FS_Subset, FS_CardinalityType
<1>3. attempts'[x] = attempts[x] /\ attempts[x] \in Nat
  BY DEF Types, TypeOK
<1>4. attempts[x] + Cardinality(Trying(x)) <= MaxFailed + Cardinality(Proc) - 1
  BY DEF CountedInv
<1> QED
  BY <1>2, <1>3, <1>4, TryingFinite, LimitAssumption

LEMMA CountedRests ==
    ASSUME Types, CountedInv, NEW r \in Proc, NEW j, Rests(r, j)
    PROVE  CountedInv'
<1>0. /\ job \in [Proc -> Job] /\ attempts \in [Deliv -> Nat] /\ JobOK(job[r])
      /\ j \in Job /\ Become(r, j)
  BY DEF Types, TypeOK, Rests
<1>1. job'[r] = j /\ \A s \in Proc : s # r => job'[s] = job[s]
  BY <1>0, BecomeIs
<1>2. CASE attempts' = attempts /\ j.pc # "try"
  BY <1>1, <1>2, CountedKept
<1>3. CASE j.pc = "try"
  <2>1. attempts' = attempts /\ attempts[j.x] < MaxFailed
    BY <1>3 DEF Rests, MayTry
  <2> SUFFICES ASSUME NEW x \in Deliv
               PROVE  attempts[x] + Cardinality(Trying(x)') <= MaxFailed + Cardinality(Proc) - 1
    BY <2>1 DEF CountedInv
  <2>2. Trying(x)' \in SUBSET Proc
    BY DEF Trying
  <2>3. Cardinality(Trying(x)') <= Cardinality(Proc) /\ Cardinality(Trying(x)') \in Nat
    BY <2>2, FS_Subset, FS_CardinalityType, FiniteAssumption
  <2>4. CASE x = j.x
    <3>1. attempts[x] \in Nat /\ attempts[x] < MaxFailed /\ MaxFailed \in Nat
      BY <2>1, <2>4, <1>0, LimitAssumption
    <3>2. Cardinality(Proc) \in Nat
      BY TryingFinite
    <3> QED
      BY <3>1, <3>2, <2>3
  <2>5. CASE x # j.x
    <3>1. Trying(x)' \in SUBSET Trying(x)
      BY <2>5, <1>1 DEF Trying
    <3>2. Cardinality(Trying(x)') <= Cardinality(Trying(x))
      BY <3>1, TryingFinite, FS_Subset
    <3>3. attempts[x] + Cardinality(Trying(x)) <= MaxFailed + Cardinality(Proc) - 1
      BY DEF CountedInv
    <3> QED
      BY <3>2, <3>3, <2>3, <1>0, TryingFinite, LimitAssumption
  <2> QED
    BY <2>4, <2>5
<1>4. CASE /\ job[r].pc = "try" /\ j.pc = "idle"
           /\ attempts' = [attempts EXCEPT ![job[r].x] = @ + 1]
  <2>1. PICK y \in Deliv : y = job[r].x
    BY <1>0, <1>4 DEF JobOK, OnOrder
  <2>2. attempts'[y] = attempts[y] + 1 /\ \A x \in Deliv : x # y => attempts'[x] = attempts[x]
    <3>1. attempts' = [attempts EXCEPT ![y] = @ + 1]
      BY <2>1, <1>4
    <3> QED
      BY <3>1, <1>0
  <2> SUFFICES ASSUME NEW x \in Deliv
               PROVE  attempts'[x] + Cardinality(Trying(x)') <= MaxFailed + Cardinality(Proc) - 1
    BY DEF CountedInv
  <2>3. Trying(x)' = Trying(x) \ {r}
    BY <1>1, <1>4 DEF Trying
  <2>4. r \in Trying(y)
    BY <2>1, <1>4 DEF Trying
  <2>5. Cardinality(Trying(x)') = IF r \in Trying(x) THEN Cardinality(Trying(x)) - 1 ELSE Cardinality(Trying(x))
    BY <2>3, TryingFinite, FS_RemoveElement
  <2>6. r \in Trying(x) => x = y
    BY <2>1 DEF Trying
  <2>7. attempts[x] + Cardinality(Trying(x)) <= MaxFailed + Cardinality(Proc) - 1
    BY DEF CountedInv
  <2>8. attempts[x] \in Nat /\ Cardinality(Trying(x)) \in Nat /\ Cardinality(Proc) \in Nat /\ MaxFailed \in Nat
    BY <1>0, TryingFinite, LimitAssumption
  <2>9. CASE x = y
    BY <2>2, <2>4, <2>5, <2>7, <2>8, <2>9
  <2>10. CASE x # y
    BY <2>2, <2>5, <2>6, <2>7, <2>8, <2>10
  <2> QED
    BY <2>9, <2>10
<1> QED
  BY <1>2, <1>3, <1>4 DEF Rests

(* Every other step leaves the attempts, and starts none. *)
LEMMA CountedStep ==
    ASSUME Core, CountedInv, Next
    PROVE  CountedInv'
<1>0. Types /\ Step /\ job \in [Proc -> Job]
  BY DEF Core, Next, Types, TypeOK
<1>1. ASSUME NEW r \in Proc, attempts' = attempts, job'[r].pc # "try",
             \A s \in Proc : s # r => job'[s] = job[s]
      PROVE  CountedInv'
  BY <1>0, <1>1, CountedKept
<1>2. ASSUME NEW r \in Proc, NEW j \in Job, NEW o \in Order, NEW to \in Follows, NEW proof \in Proof,
             Begins(r, j, o, to, proof)
      PROVE  CountedInv'
  BY <1>0, <1>1, <1>2, BeginIs
<1>3. ASSUME NEW r \in Proc, NEW d \in Driver, NEW os \in SUBSET Order, claim(r, d, os) PROVE CountedInv'
  <2> DEFINE j == [Idle EXCEPT !.pc = "claim", !.d = d, !.os = os]
  <2>1. Become(r, j) /\ attempts' = attempts
    BY <1>3 DEF claim, table
  <2>2. j \in Job /\ j.pc = "claim"
    BY IdleIs DEF Job, Idle
  <2> HIDE DEF j
  <2> QED
    BY <2>1, <2>2, <1>0, <1>1, BecomeIs
<1>4. ASSUME NEW r \in Proc, AssignCommit(r) \/ ClaimCommit(r) PROVE CountedInv'
  <2>1. Become(r, Idle) /\ attempts' = attempts
    BY <1>4 DEF AssignCommit, ClaimCommit
  <2> QED
    BY <2>1, <1>0, <1>1, IdleIs, BecomeIs
<1>5. ASSUME NEW r \in Proc, Follow(r) PROVE CountedInv'
  BY <1>0, <1>1, <1>5, FollowIs
<1>6. ASSUME NEW r \in Proc, StatusCommit(r) PROVE CountedInv'
  BY <1>0, <1>1, <1>6, StatusIs
<1>7. ASSUME NEW r \in Proc, Redeliver(r) PROVE CountedInv'
  <2> DEFINE j == [job[r] EXCEPT !.pc = "mark"]
  <2>1. Become(r, j) /\ attempts' = attempts
    BY <1>7 DEF Redeliver, Done, table
  <2>2. j \in Job /\ j.pc = "mark"
    BY <1>0 DEF Job
  <2> HIDE DEF j
  <2> QED
    BY <2>1, <2>2, <1>0, <1>1, BecomeIs
<1>8. ASSUME UNCHANGED <<job, attempts>> PROVE CountedInv'
  BY <1>0, <1>8, CountedKept
<1>9. ASSUME NEW o \in Order, unassign(o) \/ Advance(o) PROVE CountedInv'
  BY <1>8, <1>9 DEF unassign, Advance, table
<1>10. ASSUME NEW d \in Driver, NEW x \in Deliv, release(d, x) \/ driver_arrived(d, x) PROVE CountedInv'
  BY <1>8, <1>10 DEF release, driver_arrived
<1>11. ASSUME NEW d \in Driver, NEW b \in BOOLEAN, update_driver(d, b) PROVE CountedInv'
  BY <1>8, <1>11 DEF update_driver, table
<1> HIDE DEF CountedInv
<1> QED
  BY <1>0, <1>2, <1>3, <1>4, <1>5, <1>6, <1>7, <1>9, <1>10, <1>11, CountedRests, Steps

(***************************************************************************)
(* The limit on wrong codes is exceeded by at most the attempts that were  *)
(* counted together (verify_code), for any number of handlers.             *)
(***************************************************************************)
THEOREM DeliveryAttemptsBounded == Spec => []AttemptsBounded
<1>1. Core /\ CountedInv => AttemptsBounded
  <2> SUFFICES ASSUME Core, CountedInv, NEW x \in Deliv
               PROVE  attempts[x] <= MaxFailed + Cardinality(Proc) - 1
    BY DEF AttemptsBounded
  <2>1. attempts[x] \in Nat /\ attempts[x] + Cardinality(Trying(x)) <= MaxFailed + Cardinality(Proc) - 1
    BY DEF Core, Types, TypeOK, CountedInv
  <2> QED
    BY <2>1, TryingFinite, LimitAssumption
<1>2. Core /\ CountedInv /\ [Next]_vars => CountedInv'
  <2>1. ASSUME Core, CountedInv, UNCHANGED vars PROVE CountedInv'
    BY <2>1, CountedKept DEF vars, Core
  <2> QED
    BY <2>1, CountedStep
<1> QED
  BY <1>1, <1>2, CountedInit, DeliveryCore, PTL DEF Spec

-----------------------------------------------------------------------------
(***************************************************************************)
(* The limit of a driver.  A claim under way has counted what the driver   *)
(* carries and what it adds; nobody else claims for the same driver, or    *)
(* deactivates him, before its commit.                                     *)
(***************************************************************************)
Claims(r, d) == job[r].pc = "claim" /\ job[r].d = d

CapInv ==
    "assign" \notin entry => \A d \in Driver :
        /\ Cardinality(LiveOf(d)) <= IF active[d] THEN Cap ELSE 0
        /\ \A r \in Proc : Claims(r, d) =>
             /\ Cardinality(LiveOf(d)) + Cardinality(job[r].os) <= Cap
             /\ \A s \in Proc : Claims(s, d) => r = s

LEMMA LiveOfFinite ==
    ASSUME NEW d
    PROVE  /\ LiveOf(d) \in SUBSET Deliv
           /\ IsFiniteSet(LiveOf(d)) /\ Cardinality(LiveOf(d)) \in Nat
<1>1. LiveOf(d) \in SUBSET Deliv
  BY DEF LiveOf, LiveRows
<1> QED
  BY <1>1, FiniteAssumption, FS_Subset, FS_CardinalityType

LEMMA CapInit == Init => CapInv
<1> SUFFICES ASSUME Init PROVE CapInv
  OBVIOUS
<1>1. (\A r \in Proc : job[r].pc = "idle") /\ (\A d \in Driver : active[d] = TRUE)
      /\ \A x \in Deliv : row[x].status = "absent"
  BY IdleIs DEF Init, NoRow
<1>2. \A d \in Driver : LiveOf(d) = {}
  BY <1>1 DEF LiveOf, LiveRows, DELIVERY_ACTIVE_STATUSES
<1> QED
  <2>1. \A d \in Driver : Cardinality(LiveOf(d)) = 0
    BY <1>2, FS_EmptySet
  <2>2. \A r \in Proc, d \in Driver : ~Claims(r, d)
    BY <1>1 DEF Claims
  <2> QED
    BY <2>1, <2>2, <1>1, LimitAssumption DEF CapInv

(* Nobody carries more, and nobody claims who did not. *)
LEMMA CapKept ==
    ASSUME Types, CapInv, entry' = entry, active' = active,
           \A d \in Driver : LiveOf(d)' \subseteq LiveOf(d),
           \A s \in Proc : job'[s] = job[s] \/ job'[s].pc # "claim"
    PROVE  CapInv'
<1> SUFFICES ASSUME "assign" \notin entry, NEW d \in Driver
             PROVE  /\ Cardinality(LiveOf(d)') <= IF active[d] THEN Cap ELSE 0
                    /\ \A r \in Proc : Claims(r, d)' =>
                         /\ Cardinality(LiveOf(d)') + Cardinality(job'[r].os) <= Cap
                         /\ \A s \in Proc : Claims(s, d)' => r = s
  BY DEF CapInv
<1>1. /\ Cardinality(LiveOf(d)) <= IF active[d] THEN Cap ELSE 0
      /\ \A r \in Proc : Claims(r, d) =>
           /\ Cardinality(LiveOf(d)) + Cardinality(job[r].os) <= Cap
           /\ \A s \in Proc : Claims(s, d) => r = s
  BY DEF CapInv
<1>2. /\ Cardinality(LiveOf(d)') <= Cardinality(LiveOf(d))
      /\ Cardinality(LiveOf(d)') \in Nat /\ Cardinality(LiveOf(d)) \in Nat
  <2>1. LiveOf(d)' \in SUBSET LiveOf(d)
    OBVIOUS
  <2> QED
    BY <2>1, LiveOfFinite, FS_Subset, FS_CardinalityType
<1>3. \A r \in Proc : Claims(r, d)' => Claims(r, d) /\ job'[r] = job[r]
  BY DEF Claims
<1>4. \A r \in Proc : Cardinality(job[r].os) \in Nat
  <2> TAKE r \in Proc
  <2>1. job[r].os \in SUBSET Order
    BY DEF Types, TypeOK, Job
  <2> QED
    BY <2>1, FiniteAssumption, FS_Subset, FS_CardinalityType
<1>5. Cap \in Nat
  BY LimitAssumption
<1> QED
  BY <1>1, <1>2, <1>3, <1>4, <1>5

LEMMA CapTaken ==
    ASSUME Types, CapInv, entry' = entry, NEW r \in Proc, NEW d \in Driver, NEW os \in SUBSET Order,
           claim(r, d, os)
    PROVE  CapInv'
<1> DEFINE j == [Idle EXCEPT !.pc = "claim", !.d = d, !.os = os]
<1>1. /\ Become(r, j) /\ UNCHANGED <<active, row>> /\ ~DriverLocked(d)
      /\ Cardinality(LiveOf(d)) + Cardinality(os) <= Cap
  BY DEF claim, table, WithinCap
<1>2. j \in Job /\ j.pc = "claim" /\ j.d = d /\ j.os = os
  BY IdleIs DEF Job, Idle
<1> HIDE DEF j
<1>3. job'[r] = j /\ \A s \in Proc : s # r => job'[s] = job[s]
  BY <1>1, <1>2, BecomeIs DEF Types, TypeOK
<1>4. \A e \in Driver : LiveOf(e)' = LiveOf(e)
  BY <1>1 DEF LiveOf, LiveRows
<1>5. \A s \in Proc : ~Claims(s, d)
  BY <1>1 DEF DriverLocked, Claims
<1>6. \A s \in Proc, e \in Driver : Claims(s, e)' =>
         \/ s # r /\ Claims(s, e) /\ job'[s].os = job[s].os
         \/ s = r /\ e = d /\ job'[s].os = os
  BY <1>2, <1>3 DEF Claims
<1> SUFFICES ASSUME "assign" \notin entry, NEW e \in Driver
             PROVE  /\ Cardinality(LiveOf(e)) <= IF active[e] THEN Cap ELSE 0
                    /\ \A p \in Proc : Claims(p, e)' =>
                         /\ Cardinality(LiveOf(e)) + Cardinality(job'[p].os) <= Cap
                         /\ \A s \in Proc : Claims(s, e)' => p = s
  BY <1>1, <1>4 DEF CapInv
<1>7. /\ Cardinality(LiveOf(e)) <= IF active[e] THEN Cap ELSE 0
      /\ \A p \in Proc : Claims(p, e) =>
           /\ Cardinality(LiveOf(e)) + Cardinality(job[p].os) <= Cap
           /\ \A s \in Proc : Claims(s, e) => p = s
  BY DEF CapInv
<1> QED
  BY <1>1, <1>5, <1>6, <1>7

(* The claim's commit adds one delivery per order, for its driver. *)
LEMMA CapCommit ==
    ASSUME Types, Held, CapInv, entry' = entry, NEW r \in Proc, ClaimCommit(r)
    PROVE  CapInv'
<1>0. /\ job[r].pc = "claim" /\ job[r].os \in SUBSET Order /\ JobOK(job[r])
      /\ \A o \in job[r].os : Free(o) # {}
      /\ active[job[r].d]
  BY DEF ClaimCommit, Held, Claiming, Types, TypeOK, Job
<1>1. /\ Become(r, Idle) /\ active' = active
      /\ \A x \in Deliv :
           \/ row'[x] = row[x]
           \/ /\ OrderOf[x] \in job[r].os /\ x = NewRow(OrderOf[x])
              /\ row'[x].driver = job[r].d
  BY <1>0, ClaimIs
<1>2. job'[r] = Idle /\ \A s \in Proc : s # r => job'[s] = job[s]
  BY <1>1, IdleIs, BecomeIs DEF Types, TypeOK
<1>3. PICK d \in Driver : d = job[r].d
  BY <1>0 DEF JobOK
<1>4. PICK os \in SUBSET Order : os = job[r].os
  BY <1>0
<1> DEFINE New == {x \in Deliv : OrderOf[x] \in os /\ x = NewRow(OrderOf[x])}
<1>5. IsFiniteSet(New) /\ Cardinality(New) <= Cardinality(os)
      /\ Cardinality(New) \in Nat /\ Cardinality(os) \in Nat
  <2> DEFINE f == [x \in New |-> OrderOf[x]]
  <2>1. f \in Injection(New, os)
    <3>1. f \in [New -> os]
      OBVIOUS
    <3>2. \A x, y \in New : f[x] = f[y] => x = y
      OBVIOUS
    <3> HIDE DEF f, New
    <3> QED
      BY <3>1, <3>2 DEF Injection, IsInjective
  <2>2. IsFiniteSet(os)
    BY FiniteAssumption, FS_Subset
  <2> HIDE DEF f, New
  <2> QED
    BY <2>1, <2>2, FS_Injection, FS_CardinalityType
<1>6. LiveOf(d)' \subseteq LiveOf(d) \cup New
  BY <1>1, <1>4 DEF LiveOf, LiveRows
<1>7. \A e \in Driver : e # d => LiveOf(e)' \subseteq LiveOf(e)
  BY <1>1, <1>3 DEF LiveOf, LiveRows
<1> HIDE DEF New
<1>8. /\ IsFiniteSet(LiveOf(d) \cup New)
      /\ Cardinality(LiveOf(d) \cup New) <= Cardinality(LiveOf(d)) + Cardinality(New)
  <2>1. /\ IsFiniteSet(LiveOf(d) \cup New)
        /\ Cardinality(LiveOf(d) \cup New)
             = Cardinality(LiveOf(d)) + Cardinality(New) - Cardinality(LiveOf(d) \cap New)
    BY <1>5, LiveOfFinite, FS_Union
  <2>2. Cardinality(LiveOf(d) \cap New) \in Nat
    BY LiveOfFinite, FS_Intersection, FS_CardinalityType
  <2> QED
    BY <2>1, <2>2, <1>5, LiveOfFinite
<1>9. ASSUME "assign" \notin entry PROVE Cardinality(LiveOf(d)') <= Cap
  <2>1. Claims(r, d)
    BY <1>0, <1>3 DEF Claims
  <2>2. Cardinality(LiveOf(d)) + Cardinality(os) <= Cap
    BY <2>1, <1>4, <1>9 DEF CapInv
  <2>3. LiveOf(d)' \in SUBSET (LiveOf(d) \cup New)
    BY <1>6
  <2>4. /\ Cardinality(LiveOf(d)') <= Cardinality(LiveOf(d) \cup New)
        /\ Cardinality(LiveOf(d)') \in Nat /\ Cardinality(LiveOf(d) \cup New) \in Nat
    BY <2>3, <1>8, FS_Subset, FS_CardinalityType
  <2> QED
    BY <2>2, <2>4, <1>5, <1>8, LiveOfFinite, LimitAssumption
<1>10. \A s \in Proc, e \in Driver : Claims(s, e)' => s # r /\ Claims(s, e) /\ job'[s].os = job[s].os
  BY <1>2, IdleIs DEF Claims
<1> SUFFICES ASSUME "assign" \notin entry, NEW e \in Driver
             PROVE  /\ Cardinality(LiveOf(e)') <= IF active[e] THEN Cap ELSE 0
                    /\ \A p \in Proc : Claims(p, e)' =>
                         /\ Cardinality(LiveOf(e)') + Cardinality(job'[p].os) <= Cap
                         /\ \A s \in Proc : Claims(s, e)' => p = s
  BY <1>1 DEF CapInv
<1>11. CASE e = d
  <2>1. \A s \in Proc : ~Claims(s, e)'
    <3>1. Claims(r, d)
      BY <1>0, <1>3 DEF Claims
    <3> QED
      BY <3>1, <1>10, <1>11 DEF CapInv
  <2> QED
    BY <2>1, <1>0, <1>3, <1>9, <1>11
<1>12. CASE e # d
  <2>1. LiveOf(e)' \in SUBSET LiveOf(e)
    BY <1>7, <1>12
  <2>2. /\ Cardinality(LiveOf(e)') <= Cardinality(LiveOf(e))
        /\ Cardinality(LiveOf(e)') \in Nat /\ Cardinality(LiveOf(e)) \in Nat
    BY <2>1, LiveOfFinite, FS_Subset, FS_CardinalityType
  <2>3. /\ Cardinality(LiveOf(e)) <= IF active[e] THEN Cap ELSE 0
        /\ \A p \in Proc : Claims(p, e) =>
             /\ Cardinality(LiveOf(e)) + Cardinality(job[p].os) <= Cap
             /\ \A s \in Proc : Claims(s, e) => p = s
    BY DEF CapInv
  <2>4. \A p \in Proc : Cardinality(job[p].os) \in Nat
    <3> TAKE p \in Proc
    <3>1. job[p].os \in SUBSET Order
      BY DEF Types, TypeOK, Job
    <3> QED
      BY <3>1, FiniteAssumption, FS_Subset, FS_CardinalityType
  <2>5. Cap \in Nat
    BY LimitAssumption
  <2> QED
    BY <2>2, <2>3, <2>4, <2>5, <1>10
<1> QED
  BY <1>11, <1>12

LEMMA CapDriver ==
    ASSUME Types, CapInv, entry' = entry, NEW d \in Driver, NEW b \in BOOLEAN, update_driver(d, b)
    PROVE  CapInv'
<1>1. /\ ~b => LiveOf(d) = {}
      /\ active' = [active EXCEPT ![d] = b] /\ UNCHANGED <<row, job>>
      /\ \A s \in Proc : ~Claims(s, d)
  BY DEF update_driver, table, Busy, DriverLocked, Claims
<1>2. active'[d] = b /\ \A e \in Driver : e # d => active'[e] = active[e]
  BY <1>1 DEF Types, TypeOK
<1>3. \A e \in Driver : LiveOf(e)' = LiveOf(e)
  BY <1>1 DEF LiveOf, LiveRows
<1>4. \A e \in Driver, s \in Proc : Claims(s, e)' <=> Claims(s, e)
  BY <1>1 DEF Claims
<1>5. Cardinality(LiveOf(d)) \in Nat /\ Cap \in Nat /\ (LiveOf(d) = {} => Cardinality(LiveOf(d)) = 0)
  BY LiveOfFinite, LimitAssumption, FS_EmptySet
<1> SUFFICES ASSUME "assign" \notin entry, NEW e \in Driver
             PROVE  /\ Cardinality(LiveOf(e)) <= IF active'[e] THEN Cap ELSE 0
                    /\ \A p \in Proc : Claims(p, e) =>
                         /\ Cardinality(LiveOf(e)) + Cardinality(job[p].os) <= Cap
                         /\ \A s \in Proc : Claims(s, e) => p = s
  BY <1>1, <1>3, <1>4 DEF CapInv
<1>6. CASE e = d
  BY <1>1, <1>2, <1>5, <1>6 DEF CapInv
<1>7. CASE e # d
  BY <1>2, <1>7 DEF CapInv
<1> QED
  BY <1>6, <1>7

LEMMA CapStep ==
    ASSUME Core, CapInv, Next
    PROVE  CapInv'
<1>0. Types /\ Held /\ Table /\ Step /\ entry' = entry /\ job \in [Proc -> Job] /\ None \notin Deliv
  BY DelivAssumption DEF Core, Next, Types, TypeOK, None
<1>1. ASSUME row' = row PROVE \A d \in Driver : LiveOf(d)' \subseteq LiveOf(d)
  BY <1>1 DEF LiveOf, LiveRows
<1>2. ASSUME NEW r \in Proc, UNCHANGED <<active, row>>, job'[r].pc # "claim",
             \A s \in Proc : s # r => job'[s] = job[s]
      PROVE  CapInv'
  BY <1>0, <1>1, <1>2, CapKept
<1>3. ASSUME NEW r \in Proc, NEW j, Rests(r, j) PROVE CapInv'
  <2>1. j \in Job /\ Become(r, j) /\ j.pc \notin Holding /\ UNCHANGED <<active, row>>
    BY <1>3 DEF Rests
  <2> QED
    BY <2>1, <1>0, <1>2, BecomeIs DEF Holding
<1>4. ASSUME NEW r \in Proc, NEW j \in Job, NEW o \in Order, NEW to \in Follows, NEW proof \in Proof,
             Begins(r, j, o, to, proof)
      PROVE  CapInv'
  BY <1>0, <1>2, <1>4, BeginIs
<1>5. ASSUME NEW r \in Proc, AssignCommit(r) PROVE CapInv'
  <2>1. "assign" \in entry
    BY <1>0, <1>5 DEF AssignCommit, Types, JobOK
  <2> QED
    BY <2>1, <1>0 DEF CapInv
<1>6. ASSUME NEW r \in Proc, Follow(r) PROVE CapInv'
  BY <1>0, <1>2, <1>6, FollowIs
<1>7. ASSUME NEW r \in Proc, StatusCommit(r) PROVE CapInv'
  <2>1. /\ active' = active /\ job'[r].pc \in {"idle", "depart"}
        /\ \A s \in Proc : s # r => job'[s] = job[s]
        /\ \A y \in Deliv : y # job[r].x => row'[y] = row[y]
        /\ job[r].x # None => row'[job[r].x].driver = row[job[r].x].driver
    BY <1>0, <1>7, StatusIs
  <2>2. job[r].x # None => job[r].x \in LiveRows
    BY <1>0, <1>7, TableFollows DEF Live
  <2>3. \A y \in Deliv : row'[y].driver = row[y].driver
    BY <2>1, <1>0
  <2>4. LiveRows' \subseteq LiveRows
    BY <2>1, <2>2, <1>0 DEF LiveRows
  <2>5. \A d \in Driver : LiveOf(d)' \subseteq LiveOf(d)
    BY <2>3, <2>4 DEF LiveOf, LiveRows
  <2> QED
    BY <2>1, <2>5, <1>0, CapKept
<1>8. ASSUME NEW r \in Proc, Redeliver(r) PROVE CapInv'
  <2> DEFINE j == [job[r] EXCEPT !.pc = "mark"]
  <2>1. Become(r, j) /\ UNCHANGED <<active, row>>
    BY <1>8 DEF Redeliver, Done, table
  <2>2. j \in Job /\ j.pc = "mark"
    BY <1>0 DEF Job
  <2> HIDE DEF j
  <2> QED
    BY <2>1, <2>2, <1>0, <1>2, BecomeIs
<1>9. ASSUME NEW o \in Order, Advance(o) PROVE CapInv'
  BY <1>0, <1>1, <1>9, CapKept DEF Advance, table
<1>10. ASSUME UNCHANGED <<active, job>>, NEW x \in Deliv, x \in LiveRows, NEW st \in {"cancelled", "arrived"},
              row' = [row EXCEPT ![x].status = st]
       PROVE  CapInv'
  <2>1. row'[x].driver = row[x].driver /\ \A y \in Deliv : y # x => row'[y] = row[y]
    BY <1>0, <1>10, MarkIs
  <2>2. \A d \in Driver : LiveOf(d)' \subseteq LiveOf(d)
    BY <2>1, <1>10 DEF LiveOf, LiveRows
  <2> QED
    BY <2>2, <1>0, <1>10, CapKept
<1>11. ASSUME NEW o \in Order, unassign(o) PROVE CapInv'
  <2>1. PICK x \in Live(o) : row' = [row EXCEPT ![x].status = "cancelled"]
    BY <1>11 DEF unassign
  <2>2. x \in Deliv /\ x \in LiveRows
    BY DEF Live, LiveRows
  <2> QED
    BY <2>1, <2>2, <1>10, <1>11 DEF unassign
<1>12. ASSUME NEW d \in Driver, NEW x \in Deliv, release(d, x) \/ driver_arrived(d, x) PROVE CapInv'
  <2>1. x \in LiveRows
    BY <1>12 DEF release, driver_arrived, LiveRows, DELIVERY_ACTIVE_STATUSES
  <2> QED
    BY <2>1, <1>10, <1>12 DEF release, driver_arrived
<1>13. ASSUME NEW r \in Proc, NEW d \in Driver, NEW os \in SUBSET Order, claim(r, d, os) PROVE CapInv'
  BY <1>0, <1>13, CapTaken
<1>14. ASSUME NEW r \in Proc, ClaimCommit(r) PROVE CapInv'
  BY <1>0, <1>14, CapCommit
<1>15. ASSUME NEW d \in Driver, NEW b \in BOOLEAN, update_driver(d, b) PROVE CapInv'
  BY <1>0, <1>15, CapDriver
<1> HIDE DEF CapInv
<1> QED
  BY <1>0, <1>3, <1>4, <1>5, <1>6, <1>7, <1>8, <1>9, <1>11, <1>12, <1>13, <1>14, <1>15, Steps

(***************************************************************************)
(* Where only drivers assign, none carries more than the limit and none    *)
(* that was deactivated carries anything (_claim_locked, update_driver).   *)
(***************************************************************************)
THEOREM DeliveryClaimsWithinCap == Spec => []ClaimsWithinCap
<1>1. CapInv => ClaimsWithinCap
  BY DEF CapInv, ClaimsWithinCap
<1>2. Core /\ CapInv /\ [Next]_vars => CapInv'
  <2>1. ASSUME Core, CapInv, UNCHANGED vars PROVE CapInv'
    <3>1. \A d \in Driver : LiveOf(d)' \subseteq LiveOf(d)
      BY <2>1 DEF vars, LiveOf, LiveRows
    <3> QED
      BY <3>1, <2>1, CapKept DEF vars, Core
  <2> QED
    BY <2>1, CapStep
<1> QED
  BY <1>1, <1>2, CapInit, DeliveryCore, PTL DEF Spec

-----------------------------------------------------------------------------
(***************************************************************************)
(* The proof of a delivery.  When handlers do not overlap, the code that a *)
(* handler brings is the one in force, up to its commit: a redelivery      *)
(* would need another handler, or an order that has already ended.         *)
(***************************************************************************)
Single == \A r, s \in Proc : job[r] # Idle /\ job[s] # Idle => r = s

CodeCarried ==
    \A r \in Proc : job[r].pc \in {"settle", "locked", "follow"} /\ job[r].proof = "code"
                    => job[r].code = nonce[job[r].o]

CodeKept ==
    \A x \in Deliv : row[x].status = "delivered" /\ row[x].proof = "code"
                     => row[x].code = nonce[OrderOf[x]]

CodeInv == Serial => Single /\ CodeCarried /\ CodeKept

LEMMA CodeInit == Init => CodeInv
<1> SUFFICES ASSUME Init PROVE CodeInv
  OBVIOUS
<1>1. (\A r \in Proc : job[r] = Idle) /\ \A x \in Deliv : row[x].status = "absent"
  BY DEF Init, NoRow
<1> QED
  BY <1>1, IdleIs DEF CodeInv, Single, CodeCarried, CodeKept

(* Only handler r moves, and nobody else was at work. *)
LEMMA SingleKept ==
    ASSUME Single, NEW r \in Proc, \A s \in Proc : s # r => job'[s] = job[s],
           job[r] # Idle \/ \A s \in Proc : job[s] = Idle
    PROVE  Single'
<1>1. \A s \in Proc : s # r => job'[s] = Idle
  BY DEF Single
<1> QED
  BY <1>1 DEF Single

LEMMA CarriedKept ==
    ASSUME CodeCarried, nonce' = nonce, NEW r \in Proc,
           \A s \in Proc : s # r => job'[s] = job[s],
           job'[r].pc \in {"settle", "locked", "follow"} /\ job'[r].proof = "code"
             => job'[r].code = nonce[job'[r].o]
    PROVE  CodeCarried'
BY DEF CodeCarried

LEMMA KeptKept ==
    ASSUME CodeKept, nonce' = nonce,
           \A x \in Deliv : row'[x] = row[x] \/ row'[x].status # "delivered"
    PROVE  CodeKept'
BY DEF CodeKept

LEMMA CodeStep ==
    ASSUME Core, CodeInv, Next
    PROVE  CodeInv'
<1>0. /\ Types /\ Held /\ Table /\ Step /\ entry' = entry /\ job \in [Proc -> Job]
      /\ \A r \in Proc : JobOK(job[r])
  BY DEF Core, Next, Types, TypeOK
<1> SUFFICES ASSUME Serial PROVE Single' /\ CodeCarried' /\ CodeKept'
  BY <1>0 DEF CodeInv, Serial
<1>1. Single /\ CodeCarried /\ CodeKept
  BY DEF CodeInv
<1> DEFINE Goal == Single' /\ CodeCarried' /\ CodeKept'
<1>2. ASSUME NEW r \in Proc, Acts(r) \/ job[r].pc # "idle", nonce' = nonce,
             \A s \in Proc : s # r => job'[s] = job[s],
             job'[r].pc \in {"settle", "locked", "follow"} /\ job'[r].proof = "code"
               => job'[r].code = nonce[job'[r].o]
      PROVE  Single' /\ CodeCarried'
  <2>1. job[r] # Idle \/ \A s \in Proc : job[s] = Idle
    BY <1>2, IdleIs DEF Acts, Alone
  <2> QED
    BY <2>1, <1>1, <1>2, SingleKept, CarriedKept
<1>3. ASSUME row' = row, nonce' = nonce PROVE CodeKept'
  BY <1>1, <1>3, KeptKept
<1>4. ASSUME NEW r \in Proc, NEW j, Rests(r, j) PROVE Goal
  <2>1. j \in Job /\ Become(r, j) /\ j.pc \notin Holding /\ UNCHANGED <<nonce, row>> /\ Acts(r)
    BY <1>4 DEF Rests
  <2>2. job'[r] = j /\ \A s \in Proc : s # r => job'[s] = job[s]
    BY <2>1, <1>0, BecomeIs
  <2>3. j.pc = "settle" /\ j.proof = "code" => j.code = nonce[j.o]
    BY <1>1, <1>4 DEF Rests, CodeCarried
  <2> QED
    BY <2>1, <2>2, <2>3, <1>2, <1>3 DEF Holding
<1>5. ASSUME NEW r \in Proc, NEW j \in Job, NEW o \in Order, NEW to \in Follows, NEW proof \in Proof,
             Begins(r, j, o, to, proof)
      PROVE  Goal
  <2>1. /\ job'[r].pc = "locked" /\ job'[r].o = o /\ job'[r].proof = proof /\ job'[r].code = j.code
        /\ \A s \in Proc : s # r => job'[s] = job[s]
        /\ UNCHANGED <<nonce, row>>
    BY <1>0, <1>5, BeginIs
  <2>2. Acts(r) /\ (proof = "code" => j.code = nonce[o])
    BY <1>1, <1>5 DEF Begins, CodeCarried
  <2> QED
    BY <2>1, <2>2, <1>2, <1>3
<1>6. ASSUME NEW r \in Proc, NEW d \in Driver, NEW os \in SUBSET Order, claim(r, d, os) PROVE Goal
  <2> DEFINE j == [Idle EXCEPT !.pc = "claim", !.d = d, !.os = os]
  <2>1. Become(r, j) /\ UNCHANGED <<nonce, row>> /\ Acts(r)
    BY <1>6 DEF claim, table, order, Start, Acts
  <2>2. j \in Job /\ j.pc = "claim"
    BY IdleIs DEF Job, Idle
  <2> HIDE DEF j
  <2>3. job'[r] = j /\ \A s \in Proc : s # r => job'[s] = job[s]
    BY <2>1, <2>2, <1>0, BecomeIs
  <2> QED
    BY <2>1, <2>2, <2>3, <1>2, <1>3
<1>7. ASSUME NEW r \in Proc, AssignCommit(r) \/ ClaimCommit(r) PROVE Goal
  <2>1. Become(r, Idle) /\ nonce' = nonce /\ job[r].pc # "idle"
    BY <1>7 DEF AssignCommit, ClaimCommit, order
  <2>2. \A x \in Deliv : row'[x] = row[x] \/ row'[x].status # "delivered"
    <3>1. CASE AssignCommit(r)
      BY <3>1, <1>0, AssignIs
    <3>2. CASE ClaimCommit(r)
      <4>1. \A o \in job[r].os : Free(o) # {}
        BY <3>2, <1>0 DEF ClaimCommit, Held, Claiming
      <4> QED
        BY <4>1, <3>2, <1>0, ClaimIs
    <3> QED
      BY <3>1, <3>2, <1>7
  <2>3. job'[r] = Idle /\ \A s \in Proc : s # r => job'[s] = job[s]
    BY <2>1, <1>0, IdleIs, BecomeIs
  <2>4. CodeKept'
    BY <2>1, <2>2, <1>1, KeptKept
  <2> QED
    BY <2>1, <2>3, <2>4, <1>2, IdleIs
<1>8. ASSUME NEW r \in Proc, Follow(r) PROVE Goal
  <2>1. /\ job[r].pc = "locked" /\ job'[r].pc = "follow" /\ job'[r].o = job[r].o
        /\ job'[r].proof = job[r].proof /\ job'[r].code = job[r].code
        /\ \A s \in Proc : s # r => job'[s] = job[s]
        /\ UNCHANGED <<nonce, row>>
    BY <1>0, <1>8, FollowIs
  <2>2. job[r].proof = "code" => job[r].code = nonce[job[r].o]
    BY <2>1, <1>1 DEF CodeCarried
  <2> QED
    BY <2>1, <2>2, <1>2, <1>3
<1>9. ASSUME NEW r \in Proc, StatusCommit(r) PROVE Goal
  <2>1. /\ job[r].pc = "follow" /\ nonce' = nonce /\ job'[r].pc \in {"idle", "depart"}
        /\ \A s \in Proc : s # r => job'[s] = job[s]
        /\ \A y \in Deliv : y # job[r].x => row'[y] = row[y]
        /\ job[r].x # None =>
             /\ row'[job[r].x].status = "delivered" => job[r].to = "delivered"
             /\ job[r].to = "delivered" => /\ row'[job[r].x].proof = job[r].proof
                                           /\ row'[job[r].x].code = job[r].code
    BY <1>0, <1>9, StatusIs
  <2>2. job[r].x # None => OrderOf[job[r].x] = job[r].o
    BY <1>0, <1>9, TableFollows DEF Live
  <2>3. job[r].proof = "code" => job[r].code = nonce[job[r].o]
    BY <2>1, <1>1 DEF CodeCarried
  <2>4. CodeKept'
    <3> SUFFICES ASSUME NEW x \in Deliv, row'[x].status = "delivered", row'[x].proof = "code"
                 PROVE  row'[x].code = nonce[OrderOf[x]]
      BY <2>1 DEF CodeKept
    <3>1. CASE x = job[r].x
      <4>1. job[r].x # None
        BY <3>1, DelivAssumption DEF None
      <4> QED
        BY <4>1, <3>1, <2>1, <2>2, <2>3
    <3>2. CASE x # job[r].x
      BY <3>2, <2>1, <1>1 DEF CodeKept
    <3> QED
      BY <3>1, <3>2
  <2> QED
    BY <2>1, <2>4, <1>2
<1>10. ASSUME NEW r \in Proc, Redeliver(r) PROVE Goal
  <2> DEFINE j == [job[r] EXCEPT !.pc = "mark"]
  <2>1. /\ job[r].pc = "resolve" /\ Become(r, j) /\ nonce' = [nonce EXCEPT ![job[r].o] = @ + 1]
        /\ status[job[r].o] = "delivery_failed" /\ row' = row
    BY <1>10 DEF Redeliver, Done, table
  <2>2. j \in Job /\ j.pc = "mark"
    BY <1>0 DEF Job
  <2>3. PICK o \in Order : o = job[r].o
    BY <2>1, <1>0, DelivAssumption DEF JobOK, OnOrder
  <2> HIDE DEF j
  <2>4. job'[r] = j /\ \A s \in Proc : s # r => job'[s] = job[s]
    BY <2>1, <2>2, <1>0, BecomeIs
  <2>5. \A p \in Order : p # o => nonce'[p] = nonce[p]
    BY <2>1, <2>3, <1>0 DEF Types, TypeOK
  <2>6. job[r] # Idle
    BY <2>1, IdleIs
  <2>7. Single' /\ \A s \in Proc : s # r => job'[s] = Idle
    BY <2>4, <2>6, <1>1, SingleKept DEF Single
  <2>8. CodeCarried'
    BY <2>2, <2>4, <2>7, IdleIs DEF CodeCarried
  <2>9. CodeKept'
    <3>1. \A x \in Deliv : row[x].status = "delivered" => OrderOf[x] \in Order /\ OrderOf[x] # o
      BY <2>1, <2>3, <1>0, DelivAssumption DEF Table, Ended
    <3> QED
      BY <3>1, <2>1, <2>5, <1>1 DEF CodeKept
  <2> QED
    BY <2>7, <2>8, <2>9
<1>11. ASSUME UNCHANGED <<nonce, job>>, \A x \in Deliv : row'[x] = row[x] \/ row'[x].status # "delivered" PROVE Goal
  <2>1. CodeKept'
    BY <1>1, <1>11, KeptKept
  <2> QED
    BY <2>1, <1>1, <1>11 DEF Single, CodeCarried
<1>12. ASSUME UNCHANGED <<nonce, job>>, NEW x \in Deliv, NEW st \in {"cancelled", "arrived"},
              row' = [row EXCEPT ![x].status = st]
       PROVE  Goal
  <2>1. row'[x].status = st /\ \A y \in Deliv : y # x => row'[y] = row[y]
    BY <1>0, <1>12, MarkIs
  <2>2. \A y \in Deliv : row'[y] = row[y] \/ row'[y].status # "delivered"
    BY <2>1
  <2> QED
    BY <2>2, <1>11, <1>12
<1>13. ASSUME NEW o \in Order, unassign(o) PROVE Goal
  <2>1. PICK x \in Live(o) : row' = [row EXCEPT ![x].status = "cancelled"]
    BY <1>13 DEF unassign
  <2>2. x \in Deliv
    BY DEF Live, LiveRows
  <2> QED
    BY <2>1, <2>2, <1>12, <1>13 DEF unassign, order
<1>14. ASSUME NEW d \in Driver, NEW x \in Deliv, release(d, x) \/ driver_arrived(d, x) PROVE Goal
  BY <1>12, <1>14 DEF release, driver_arrived, order
<1>15. ASSUME NEW o \in Order, Advance(o) PROVE Goal
  BY <1>11, <1>15 DEF Advance, table
<1>16. ASSUME NEW d \in Driver, NEW b \in BOOLEAN, update_driver(d, b) PROVE Goal
  BY <1>11, <1>16 DEF update_driver, order, table
<1> HIDE DEF Goal
<1>17. Goal
  BY <1>0, <1>4, <1>5, <1>6, <1>7, <1>8, <1>9, <1>10, <1>13, <1>14, <1>15, <1>16, Steps
<1> QED
  BY <1>17 DEF Goal

(* One handler at a time carries the code in force, and rows keep it. *)
THEOREM DeliveryCode == Spec => []CodeInv
<1>1. Core /\ CodeInv /\ [Next]_vars => CodeInv'
  <2>1. ASSUME Core, CodeInv, UNCHANGED vars PROVE CodeInv'
    BY <2>1 DEF vars, CodeInv, Serial, Single, CodeCarried, CodeKept
  <2> QED
    BY <2>1, CodeStep
<1> QED
  BY <1>1, CodeInit, DeliveryCore, PTL DEF Spec

(***************************************************************************)
(* Where a proof is required, a delivered row bears the customer's code or *)
(* an administrator's override; and, when handlers do not overlap, the     *)
(* code is the one in force (proof_required_for, verify_code).             *)
(***************************************************************************)
THEOREM DeliveryIsProven == Spec => []DeliveredIsProven
<1>1. Core /\ CodeInv => DeliveredIsProven
  BY DEF Core, Table, Ended, Proven, CodeInv, CodeKept, DeliveredIsProven
<1> QED
  BY <1>1, DeliveryCode, DeliveryCore, PTL

-----------------------------------------------------------------------------
(***************************************************************************)
(* The runs.  Once it is on the road a delivery keeps its run, its driver  *)
(* and so the run it opened; before that it has none.  A handler that is   *)
(* alone finds at its commit the runs it read.                             *)
(***************************************************************************)
Waiting == {"absent", "assigned"}

RunRows ==
    /\ \A x \in Deliv :
         /\ row[x].status \in Waiting => row[x].run = None
         /\ row[x].run # None => row[row[x].run].status \notin Waiting
    /\ \A x \in LiveRows : row[x].run # None => run[row[x].run] = "active"
    /\ \A y \in Deliv : run[y] = "active" => \E x \in LiveRows : row[x].run = y
    /\ \A y, z \in Deliv : run[y] = "active" /\ run[z] = "active"
                          /\ row[y].driver = row[z].driver => y = z

(* What a departure, or an end, of delivery x has read of the runs. *)
RunRead(j) ==
    IF j.to = "out_for_delivery"
    THEN \/ ActiveRuns(row[j.x].driver) = {} /\ j.run = j.x
         \/ j.run \in ActiveRuns(row[j.x].driver)
    ELSE j.run = row[j.x].run /\ (j.last <=> Remaining(j.x, j.run) = {})

RunsRead ==
    \A r \in Proc : job[r].pc = "follow" /\ job[r].x # None =>
        /\ RunRead(job[r])
        /\ job[r].to = "out_for_delivery" => row[job[r].x].status = "assigned"

RunInv == Serial => RunRows /\ RunsRead

LEMMA RunInit == Init => RunInv
<1> SUFFICES ASSUME Init PROVE RunRows /\ RunsRead
  BY DEF RunInv
<1>1. \A r \in Proc : job[r].pc = "idle"
  BY IdleIs DEF Init
<1>2. \A x \in Deliv : row[x].status = "absent" /\ row[x].run = None /\ run[x] = "none"
  BY DEF Init, NoRow
<1>3. LiveRows = {}
  BY <1>2 DEF LiveRows, DELIVERY_ACTIVE_STATUSES
<1> QED
  BY <1>1, <1>2, <1>3 DEF RunRows, RunsRead

(* An assignment or a claim gives rows that wait, and no run. *)
LEMMA AssignRun ==
    ASSUME Types, RunRows, NEW r \in Proc, AssignCommit(r), NEW x \in Deliv
    PROVE  \/ row'[x] = row[x]
           \/ /\ row[x].status \in Waiting /\ row'[x].status = "assigned"
              /\ row'[x].run = None
<1> DEFINE d == job[r].d
           moved == [row[x] EXCEPT !.driver = d]
<1>1. /\ \A o \in job[r].os : /\ \A y \in Live(o) : row[y].status = "assigned"
                              /\ Live(o) = {} => Free(o) # {}
      /\ row'[x] = IF OrderOf[x] \notin job[r].os THEN row[x]
                   ELSE IF x \in Live(OrderOf[x]) THEN moved
                   ELSE IF Live(OrderOf[x]) = {} /\ x = NewRow(OrderOf[x])
                        THEN Assigned(d)
                   ELSE row[x]
  BY DEF AssignCommit
<1>2. /\ d \in Driver \cup {None} /\ row[x] \in DelivRow /\ OrderOf[x] \in Order
  BY DelivAssumption DEF Types, TypeOK, Job
<1>3. moved.status = row[x].status /\ moved.run = row[x].run
  BY <1>2 DEF DelivRow
<1>4. Assigned(d).status = "assigned" /\ Assigned(d).run = None
  BY DEF Assigned, NoRow
<1> HIDE DEF d, moved
<1>5. CASE OrderOf[x] \in job[r].os /\ x \in Live(OrderOf[x])
  BY <1>1, <1>3, <1>5 DEF RunRows, Waiting
<1>6. CASE /\ OrderOf[x] \in job[r].os /\ x \notin Live(OrderOf[x])
           /\ Live(OrderOf[x]) = {} /\ x = NewRow(OrderOf[x])
  <2>1. row[x].status = "absent"
    BY <1>1, <1>2, <1>6, NewRowIs
  <2> QED
    BY <2>1, <1>1, <1>4, <1>6 DEF Waiting
<1> QED
  BY <1>1, <1>5, <1>6

LEMMA ClaimRun ==
    ASSUME Types, NEW r \in Proc, ClaimCommit(r),
           \A o \in job[r].os : Free(o) # {}, NEW x \in Deliv
    PROVE  \/ row'[x] = row[x]
           \/ /\ row[x].status \in Waiting /\ row'[x].status = "assigned"
              /\ row'[x].run = None
<1>1. row'[x] = IF OrderOf[x] \in job[r].os /\ x = NewRow(OrderOf[x])
                THEN Assigned(job[r].d) ELSE row[x]
  BY DEF ClaimCommit
<1>2. Assigned(job[r].d).status = "assigned" /\ Assigned(job[r].d).run = None
  BY DEF Assigned, NoRow
<1>3. ASSUME OrderOf[x] \in job[r].os, x = NewRow(OrderOf[x])
      PROVE  row[x].status = "absent"
  BY <1>3, NewRowIs, DelivAssumption
<1> QED
  BY <1>1, <1>2, <1>3 DEF Waiting

(* The runs that the handler finds together with the delivery. *)
LEMMA FollowRun ==
    ASSUME Types, NEW r \in Proc, Follow(r), job'[r].x # None
    PROVE  RunRead(job'[r])
<1>0. job[r] \in Job /\ job \in [Proc -> Job]
  BY DEF Types, TypeOK
<1> DEFINE j == job[r]
<1>1. ASSUME Become(r, [j EXCEPT !.pc = "follow", !.x = None]) PROVE FALSE
  BY <1>0, <1>1 DEF Become, Job
<1>2. ASSUME j.to = "out_for_delivery", NEW x \in Live(j.o),
             NEW y \in IF ActiveRuns(row[x].driver) = {} THEN {x}
                       ELSE ActiveRuns(row[x].driver),
             Become(r, [j EXCEPT !.pc = "follow", !.x = x, !.run = y])
      PROVE  RunRead(job'[r])
  <2>1. job'[r].x = x /\ job'[r].run = y /\ job'[r].to = "out_for_delivery"
    BY <1>0, <1>2 DEF Become, Job
  <2> QED
    BY <2>1, <1>0, <1>2 DEF RunRead
<1>3. ASSUME j.to # "out_for_delivery", NEW x \in Live(j.o), NEW b,
             b = (Remaining(x, row[x].run) = {}),
             Become(r, [j EXCEPT !.pc = "follow", !.x = x, !.run = row[x].run,
                                 !.last = b])
      PROVE  RunRead(job'[r])
  <2>1. /\ job'[r].x = x /\ job'[r].run = row[x].run /\ job'[r].to = j.to
        /\ job'[r].last = b
    BY <1>0, <1>3 DEF Become, Job
  <2> QED
    BY <2>1, <1>0, <1>3 DEF RunRead
<1> QED
  BY <1>1, <1>2, <1>3 DEF Follow

(* What the commit writes of the runs. *)
LEMMA StatusRun ==
    ASSUME Types, NEW r \in Proc, StatusCommit(r)
    PROVE  LET j == job[r]
           IN  /\ j.x = None => row' = row /\ run' = run
               /\ j.x # None =>
                    /\ j.x \in Deliv
                    /\ row'[j.x].run = IF j.to = "out_for_delivery" THEN j.run
                                       ELSE row[j.x].run
                    /\ run' = IF j.run = None THEN run
                              ELSE [run EXCEPT ![j.run] = RunAfter(j)]
<1> DEFINE j == job[r]
           n == RowAfter(j)
<1>1. IF j.x = None THEN row' = row /\ run' = run
      ELSE /\ row' = [row EXCEPT ![j.x] = n]
           /\ run' = IF j.run = None THEN run
                     ELSE [run EXCEPT ![j.run] = RunAfter(j)]
  BY DEF StatusCommit
<1>2. j \in Job /\ row \in [Deliv -> DelivRow]
  BY DEF Types, TypeOK
<1>3. ASSUME j.x \in Deliv
      PROVE  n.run = IF j.to = "out_for_delivery" THEN j.run ELSE row[j.x].run
  <2>1. row[j.x] \in DelivRow
    BY <1>2, <1>3
  <2> QED
    BY <2>1 DEF RowAfter, DelivRow
<1>4. j.x \in Deliv \cup {None}
  BY <1>2 DEF Job
<1> HIDE DEF j, n
<1> QED
  BY <1>1, <1>2, <1>3, <1>4 DEF j

(* Rows that wait may be given a driver, and get no run. *)
LEMMA RowsWait ==
    ASSUME Types, RunRows, run' = run,
           \A x \in Deliv :
             \/ row'[x] = row[x]
             \/ /\ row[x].status \in Waiting /\ row'[x].status = "assigned"
                /\ row'[x].run = None
    PROVE  RunRows'
<1>0. \A x \in Deliv : row[x].run \in Deliv \cup {None}
  BY DEF Types, TypeOK, DelivRow
<1>1. \A x \in Deliv : row[x].status \notin Waiting => row'[x] = row[x]
  OBVIOUS
<1>2. \A x \in Deliv : row'[x].run # None => row'[x] = row[x]
  OBVIOUS
<1>3. \A x \in Deliv : row[x].run # None =>
        row'[x] = row[x] /\ row'[row[x].run] = row[row[x].run]
  BY <1>0, <1>1 DEF RunRows
<1>4. \A x \in Deliv : row[x].run # None => (x \in LiveRows' <=> x \in LiveRows)
  BY <1>3 DEF LiveRows
<1>5. ASSUME NEW x \in Deliv
      PROVE  /\ row'[x].status \in Waiting => row'[x].run = None
             /\ row'[x].run # None => row'[row'[x].run].status \notin Waiting
             /\ x \in LiveRows' /\ row'[x].run # None => run[row'[x].run] = "active"
  BY <1>2, <1>3, <1>4 DEF RunRows
<1>6. ASSUME NEW y \in Deliv, run[y] = "active"
      PROVE  row'[y] = row[y] /\ \E x \in LiveRows' : row'[x].run = y
  <2>1. PICK x \in LiveRows : row[x].run = y
    BY <1>6 DEF RunRows
  <2>2. x \in Deliv /\ row[x].run # None
    BY <2>1, DelivAssumption DEF LiveRows, None
  <2> QED
    BY <2>1, <2>2, <1>3, <1>4
<1>7. LiveRows' \subseteq Deliv
  BY DEF LiveRows
<1>8. \A y, z \in Deliv : run[y] = "active" /\ run[z] = "active"
                          /\ row'[y].driver = row'[z].driver => y = z
  BY <1>6 DEF RunRows
<1> QED
  BY <1>5, <1>6, <1>7, <1>8 DEF RunRows

(* A row that waits is put back, or one on the road arrives. *)
LEMMA RowMoves ==
    ASSUME Types, RunRows, run' = run, NEW x \in Deliv,
           \/ row[x].status = "assigned" /\ row'[x].status = "cancelled"
           \/ row[x].status = "out_for_delivery" /\ row'[x].status = "arrived",
           row'[x].driver = row[x].driver, row'[x].run = row[x].run,
           \A y \in Deliv : y # x => row'[y] = row[y]
    PROVE  RunRows'
<1>0. \A y \in Deliv : row[y].run \in Deliv \cup {None}
  BY DEF Types, TypeOK, DelivRow
<1>1. \A y \in Deliv : /\ row'[y].driver = row[y].driver /\ row'[y].run = row[y].run
                       /\ row[y].status \notin Waiting => row'[y].status \notin Waiting
                       /\ row'[y].status \in Waiting => row[y].status \in Waiting
  BY DEF Waiting
<1>2. \A y \in Deliv : row[y].run # None => (y \in LiveRows' <=> y \in LiveRows)
  BY DEF RunRows, Waiting, LiveRows, DELIVERY_ACTIVE_STATUSES
<1>3. LiveRows' \subseteq Deliv /\ LiveRows \subseteq Deliv
  BY DEF LiveRows
<1>4. ASSUME NEW y \in Deliv, run[y] = "active" PROVE \E z \in LiveRows' : row'[z].run = y
  <2>1. PICK z \in LiveRows : row[z].run = y
    BY <1>4 DEF RunRows
  <2>2. row[z].run # None
    BY <2>1, DelivAssumption DEF None
  <2> QED
    BY <2>1, <2>2, <1>1, <1>2, <1>3
<1>5. \A y, z \in Deliv : run[y] = "active" /\ run[z] = "active"
                          /\ row'[y].driver = row'[z].driver => y = z
  BY <1>1 DEF RunRows
<1>6. \A y \in Deliv : /\ row'[y].status \in Waiting => row'[y].run = None
                       /\ row'[y].run # None => row'[row'[y].run].status \notin Waiting
  BY <1>0, <1>1 DEF RunRows
<1>7. \A y \in LiveRows' : row'[y].run # None => run[row'[y].run] = "active"
  BY <1>1, <1>2, <1>3 DEF RunRows
<1> QED
  BY <1>4, <1>5, <1>6, <1>7 DEF RunRows

(* A departure opens a run or joins the active one of its driver. *)
LEMMA RunsJoined ==
    ASSUME Types, RunRows, NEW x \in LiveRows, NEW y \in Deliv,
           row[x].status = "assigned",
           \/ ActiveRuns(row[x].driver) = {} /\ y = x
           \/ y \in ActiveRuns(row[x].driver),
           \A z \in Deliv : z # x => row'[z] = row[z],
           row'[x].status = "out_for_delivery", row'[x].run = y,
           row'[x].driver = row[x].driver,
           run' = [run EXCEPT ![y] = "active"]
    PROVE  RunRows'
<1>0. /\ x \in Deliv /\ None \notin Deliv /\ \A z \in Deliv : row[z].run \in Deliv \cup {None}
      /\ run \in [Deliv -> {"none", "active", "completed"}]
  BY DelivAssumption DEF Types, TypeOK, DelivRow, LiveRows, None
<1>1. LiveRows' = LiveRows /\ LiveRows \subseteq Deliv
  BY <1>0 DEF LiveRows, DELIVERY_ACTIVE_STATUSES
<1>2. /\ run'[y] = "active" /\ \A z \in Deliv : z # y => run'[z] = run[z]
      /\ \A z \in Deliv : run[z] = "active" => run'[z] = "active"
  BY <1>0
<1>3. \A z \in Deliv : row[z].run # None => row[z].run # x /\ row'[z] = row[z]
  <2>1. row[x].run = None /\ row[x].status \in Waiting
    BY <1>0 DEF RunRows, Waiting
  <2> QED
    BY <2>1 DEF RunRows
<1>4. row'[y].status \notin Waiting
  <2>1. CASE y = x
    BY <2>1 DEF Waiting
  <2>2. CASE y # x
    <3>1. PICK z \in LiveRows : row[z].run = y
      BY <2>2 DEF RunRows, ActiveRuns
    <3>2. row[y].status \notin Waiting
      BY <3>1, <1>0, <1>1 DEF RunRows
    <3> QED
      BY <2>2, <3>2
  <2> QED
    BY <2>1, <2>2
<1>5. ASSUME NEW z \in Deliv
      PROVE  /\ row'[z].status \in Waiting => row'[z].run = None
             /\ row'[z].run # None => row'[row'[z].run].status \notin Waiting
             /\ z \in LiveRows' /\ row'[z].run # None => run'[row'[z].run] = "active"
  <2>1. CASE z = x
    BY <2>1, <1>2, <1>4 DEF Waiting
  <2>2. CASE z # x
    <3>1. row'[z] = row[z]
      BY <2>2
    <3>2. CASE row[z].run = None
      BY <3>1, <3>2
    <3>3. CASE row[z].run # None
      <4>1. row[z].run \in Deliv /\ row'[row[z].run] = row[row[z].run]
        BY <3>3, <1>0, <1>3
      <4> QED
        BY <3>1, <3>3, <4>1, <1>1, <1>2 DEF RunRows
    <3> QED
      BY <3>2, <3>3
  <2> QED
    BY <2>1, <2>2
<1>6. ASSUME NEW z \in Deliv, run'[z] = "active" PROVE \E w \in LiveRows' : row'[w].run = z
  <2>1. CASE z = y
    BY <2>1, <1>1
  <2>2. CASE z # y
    <3>1. PICK w \in LiveRows : row[w].run = z
      BY <2>2, <1>2, <1>6 DEF RunRows
    <3>2. row'[w] = row[w]
      BY <3>1, <1>0, <1>1, <1>3
    <3> QED
      BY <3>1, <3>2, <1>1
  <2> QED
    BY <2>1, <2>2
<1>7. ASSUME NEW a \in Deliv, NEW b \in Deliv, run'[a] = "active", run'[b] = "active",
             row'[a].driver = row'[b].driver
      PROVE  a = b
  <2>1. row[a].driver = row[b].driver
    BY <1>7
  <2>2. CASE y \in ActiveRuns(row[x].driver)
    <3>1. run[y] = "active"
      BY <2>2 DEF ActiveRuns
    <3>2. run[a] = "active" /\ run[b] = "active"
      BY <3>1, <1>2, <1>7
    <3> QED
      BY <2>1, <3>2 DEF RunRows
  <2>3. CASE ActiveRuns(row[x].driver) = {} /\ y = x
    <3>1. ~(run[a] = "active" /\ row[a].driver = row[x].driver)
      BY <2>3 DEF ActiveRuns
    <3>2. ~(run[b] = "active" /\ row[b].driver = row[x].driver)
      BY <2>3 DEF ActiveRuns
    <3> QED
      BY <2>1, <2>3, <3>1, <3>2, <1>2, <1>7 DEF RunRows
  <2> QED
    BY <2>2, <2>3
<1> QED
  BY <1>1, <1>5, <1>6, <1>7 DEF RunRows

(* An end closes its run when nothing else of it is left. *)
LEMMA RunsClosed ==
    ASSUME Types, RunRows, NEW x \in LiveRows, NEW y, y = row[x].run, NEW last \in BOOLEAN,
           last <=> Remaining(x, y) = {},
           \A z \in Deliv : z # x => row'[z] = row[z],
           row'[x].status \in {"delivered", "failed", "cancelled"},
           row'[x].run = y, row'[x].driver = row[x].driver,
           run' = IF y # None /\ last THEN [run EXCEPT ![y] = "completed"] ELSE run
    PROVE  RunRows'
<1>0. /\ x \in Deliv /\ None \notin Deliv /\ \A z \in Deliv : row[z].run \in Deliv \cup {None}
      /\ run \in [Deliv -> {"none", "active", "completed"}]
  BY DelivAssumption DEF Types, TypeOK, DelivRow, LiveRows, None
<1>1. LiveRows' = LiveRows \ {x} /\ LiveRows \subseteq Deliv
  BY <1>0 DEF LiveRows, DELIVERY_ACTIVE_STATUSES
<1>2. \A z \in Deliv : /\ row'[z].driver = row[z].driver /\ row'[z].run = row[z].run
                       /\ row[z].status \notin Waiting => row'[z].status \notin Waiting
                       /\ row'[z].status \in Waiting => row[z].status \in Waiting
  BY DEF Waiting
<1>3. \A z \in Deliv : run'[z] = "active" =>
        run[z] = "active" /\ (z = y => Remaining(x, y) # {})
  BY <1>0
<1>4. \A z \in Deliv : /\ row'[z].status \in Waiting => row'[z].run = None
                       /\ row'[z].run # None => row'[row'[z].run].status \notin Waiting
  BY <1>0, <1>2 DEF RunRows
<1>5. ASSUME NEW z \in LiveRows', row'[z].run # None PROVE run'[row'[z].run] = "active"
  <2>1. z \in Deliv /\ z \in LiveRows /\ z # x /\ row'[z].run = row[z].run
    BY <1>1, <1>2
  <2>2. row[z].run \in Deliv /\ run[row[z].run] = "active"
    BY <2>1, <1>0, <1>5 DEF RunRows
  <2>3. row[z].run = y => Remaining(x, y) # {}
    BY <2>1 DEF Remaining
  <2> QED
    BY <2>1, <2>2, <2>3, <1>0
<1>6. ASSUME NEW z \in Deliv, run'[z] = "active" PROVE \E w \in LiveRows' : row'[w].run = z
  <2>1. CASE z = y
    <3>1. PICK w \in Remaining(x, y) : TRUE
      BY <2>1, <1>3, <1>6
    <3>2. w \in LiveRows' /\ row[w].run = z
      BY <3>1, <2>1, <1>1 DEF Remaining
    <3> QED
      BY <3>2, <1>1, <1>2
  <2>2. CASE z # y
    <3>1. PICK w \in LiveRows : row[w].run = z
      BY <1>3, <1>6 DEF RunRows
    <3> QED
      BY <2>2, <3>1, <1>1, <1>2
  <2> QED
    BY <2>1, <2>2
<1>7. \A a, b \in Deliv : run'[a] = "active" /\ run'[b] = "active"
                          /\ row'[a].driver = row'[b].driver => a = b
  BY <1>2, <1>3 DEF RunRows
<1> QED
  BY <1>4, <1>5, <1>6, <1>7 DEF RunRows

LEMMA RowsCommit ==
    ASSUME Core, entry' = entry, RunRows, RunsRead, NEW r \in Proc, StatusCommit(r)
    PROVE  RunRows'
<1> DEFINE j == job[r]
           x == job[r].x
           y == job[r].run
<1>0. Types /\ Held /\ Table /\ j \in Job /\ row \in [Deliv -> DelivRow]
      /\ run \in [Deliv -> {"none", "active", "completed"}]
  BY DEF Core, Types, TypeOK
<1>1. j.pc = "follow" /\ (x # None => x \in LiveRows)
      /\ j.to \in Follows
  <2>1. j.pc = "follow"
    BY <1>0, StatusIs
  <2>2. x # None => x \in Live(j.o)
    BY <1>0, TableFollows
  <2>3. j.to \in Follows
    BY <2>1, <1>0 DEF Held, Going
  <2> QED
    BY <2>1, <2>2, <2>3 DEF Live
<1>2. CASE x = None
  <2>1. row' = row /\ run' = run
    BY <1>0, <1>2, StatusRun
  <2> QED
    BY <2>1, <1>0, RowsWait
<1>3. CASE x # None
  <2>1. /\ x \in LiveRows /\ RunRead(j)
        /\ j.to = "out_for_delivery" => row[x].status = "assigned"
    BY <1>1, <1>3 DEF RunsRead
  <2>2. /\ \A z \in Deliv : z # x => row'[z] = row[z]
        /\ row'[x].driver = row[x].driver
        /\ row'[x].status = IF j.to = "out_for_delivery" THEN "out_for_delivery"
                            ELSE IF j.to = "delivered" THEN "delivered"
                            ELSE IF j.to = "delivery_failed" THEN "failed"
                            ELSE "cancelled"
    BY <1>0, <1>3, StatusIs
  <2>3. /\ row'[x].run = IF j.to = "out_for_delivery" THEN y ELSE row[x].run
        /\ run' = IF y = None THEN run ELSE [run EXCEPT ![y] = RunAfter(j)]
    BY <1>0, <1>3, StatusRun
  <2>4. x \in Deliv /\ None \notin Deliv
    BY <2>1, DelivAssumption DEF LiveRows, None
  <2>5. CASE j.to = "out_for_delivery"
    <3>1. \/ ActiveRuns(row[x].driver) = {} /\ y = x
          \/ y \in ActiveRuns(row[x].driver)
      BY <2>1, <2>5 DEF RunRead
    <3>2. y \in Deliv /\ RunAfter(j) = "active"
      BY <2>4, <2>5, <3>1 DEF RunAfter, ActiveRuns
    <3>3. run' = [run EXCEPT ![y] = "active"]
      BY <2>3, <2>4, <3>2
    <3>4. row'[x].status = "out_for_delivery" /\ row'[x].run = y /\ row[x].status = "assigned"
      BY <2>1, <2>2, <2>3, <2>5
    <3> HIDE DEF x, y, j
    <3> QED
      BY <1>0, <2>1, <2>2, <3>1, <3>2, <3>3, <3>4, RunsJoined
  <2>6. CASE j.to # "out_for_delivery"
    <3>1. y = row[x].run /\ (j.last <=> Remaining(x, y) = {}) /\ j.last \in BOOLEAN
      BY <2>1, <2>6, <1>0 DEF RunRead, Job
    <3>2. RunAfter(j) = IF j.last THEN "completed" ELSE run[y]
      BY <2>6 DEF RunAfter
    <3>3. run' = IF y # None /\ j.last THEN [run EXCEPT ![y] = "completed"] ELSE run
      BY <2>3, <3>2, <1>0
    <3>4. row'[x].status \in {"delivered", "failed", "cancelled"} /\ row'[x].run = y
      BY <2>2, <2>3, <2>6, <3>1
    <3> HIDE DEF x, y, j
    <3> QED
      BY <1>0, <2>1, <2>2, <3>1, <3>3, <3>4, RunsClosed
  <2> QED
    BY <2>5, <2>6
<1> QED
  BY <1>2, <1>3

(* A departure is of a delivery that waits. *)
LEMMA DepartsWaiting ==
    ASSUME Core, NEW r \in Proc, Follow(r), job'[r].x # None, job'[r].to = "out_for_delivery"
    PROVE  row[job'[r].x].status = "assigned"
<1>1. Types /\ Held /\ Table /\ status \in [Order -> Graph!OrderStatus]
  BY DEF Core, Types, TypeOK
<1>2. job[r].pc = "locked" /\ job[r].to = "out_for_delivery" /\ job'[r].x \in Live(job[r].o)
  BY <1>1, FollowIs
<1>3. PICK o \in Order : o = job[r].o
  BY <1>1, <1>2 DEF Types, JobOK
<1>4. "out_for_delivery" \in Graph!VALID_TRANSITIONS[status[o]]
  BY <1>1, <1>2, <1>3 DEF Held, Going
<1>5. status[o] # "out_for_delivery"
  BY <1>4, <1>1 DEF Graph!VALID_TRANSITIONS, Graph!OrderStatus
<1>6. job'[r].x \in LiveRows /\ OrderOf[job'[r].x] = o
  BY <1>2, <1>3 DEF Live
<1> QED
  BY <1>5, <1>6, <1>1 DEF Table, RowsFollow

(* What the others have read stays true while no row and no run changes. *)
LEMMA ReadKept ==
    ASSUME RunsRead, row' = row, run' = run,
           \A s \in Proc : job'[s] = job[s] \/ job'[s].pc # "follow"
    PROVE  RunsRead'
<1> SUFFICES ASSUME NEW s \in Proc, job'[s].pc = "follow", job'[s].x # None
             PROVE  /\ RunRead(job[s])'
                    /\ job'[s].to = "out_for_delivery" => row'[job'[s].x].status = "assigned"
  BY DEF RunsRead
<1>1. job'[s] = job[s]
  OBVIOUS
<1>2. RunRead(job[s]) /\ (job[s].to = "out_for_delivery" => row[job[s].x].status = "assigned")
  BY <1>1 DEF RunsRead
<1>3. RunRead(job[s])'
  BY <1>1, <1>2 DEF RunRead, ActiveRuns, Remaining, LiveRows
<1> QED
  BY <1>1, <1>2, <1>3

LEMMA RunStep ==
    ASSUME Core, CodeInv, RunInv, Next
    PROVE  RunInv'
<1>0. /\ Types /\ Held /\ Table /\ Step /\ entry' = entry /\ job \in [Proc -> Job]
      /\ row \in [Deliv -> DelivRow]
  BY DEF Core, Next, Types, TypeOK
<1> SUFFICES ASSUME Serial PROVE RunRows' /\ RunsRead'
  BY <1>0 DEF RunInv, Serial
<1>1. Single /\ RunRows /\ RunsRead
  BY DEF RunInv, CodeInv
<1> DEFINE Goal == RunRows' /\ RunsRead'
<1>2. ASSUME row' = row, run' = run, \A s \in Proc : job'[s] = job[s] \/ job'[s].pc # "follow"
      PROVE  Goal
  BY <1>0, <1>1, <1>2, RowsWait, ReadKept
<1>3. ASSUME \A s \in Proc : job'[s].pc # "follow" PROVE RunsRead'
  BY <1>3 DEF RunsRead
<1>4. ASSUME NEW r \in Proc, job[r] # Idle, job'[r].pc # "follow", \A s \in Proc : s # r => job'[s] = job[s]
      PROVE  RunsRead'
  <2>1. \A s \in Proc : s # r => job'[s] = Idle
    BY <1>1, <1>4 DEF Single
  <2> QED
    BY <2>1, <1>3, <1>4, IdleIs
<1>5. ASSUME NEW r \in Proc, NEW j, Rests(r, j) PROVE Goal
  <2>1. j \in Job /\ Become(r, j) /\ j.pc \notin Holding /\ UNCHANGED <<row, run>>
    BY <1>5 DEF Rests
  <2>2. job'[r] = j /\ \A s \in Proc : s # r => job'[s] = job[s]
    BY <2>1, <1>0, BecomeIs
  <2> QED
    BY <2>1, <2>2, <1>2 DEF Holding
<1>6. ASSUME NEW r \in Proc, NEW j \in Job, NEW o \in Order, NEW to \in Follows, NEW proof \in Proof,
             Begins(r, j, o, to, proof)
      PROVE  Goal
  <2>1. job'[r].pc = "locked" /\ UNCHANGED <<row, run>> /\ \A s \in Proc : s # r => job'[s] = job[s]
    BY <1>0, <1>6, BeginIs
  <2> QED
    BY <2>1, <1>2
<1>7. ASSUME NEW r \in Proc, NEW d \in Driver, NEW os \in SUBSET Order, claim(r, d, os) PROVE Goal
  <2> DEFINE j == [Idle EXCEPT !.pc = "claim", !.d = d, !.os = os]
  <2>1. Become(r, j) /\ UNCHANGED <<row, run>>
    BY <1>7 DEF claim, table
  <2>2. j \in Job /\ j.pc = "claim"
    BY IdleIs DEF Job, Idle
  <2> HIDE DEF j
  <2>3. job'[r] = j /\ \A s \in Proc : s # r => job'[s] = job[s]
    BY <2>1, <2>2, <1>0, BecomeIs
  <2> QED
    BY <2>1, <2>2, <2>3, <1>2
<1>8. ASSUME NEW r \in Proc, AssignCommit(r) PROVE Goal
  <2>1. job[r].pc = "assign" /\ Become(r, Idle) /\ run' = run
    BY <1>0, <1>8, AssignIs
  <2>2. \A x \in Deliv :
          \/ row'[x] = row[x]
          \/ row[x].status \in Waiting /\ row'[x].status = "assigned" /\ row'[x].run = None
    BY <1>0, <1>1, <1>8, AssignRun
  <2>3. job'[r] = Idle /\ \A s \in Proc : s # r => job'[s] = job[s]
    BY <2>1, <1>0, IdleIs, BecomeIs
  <2>4. RunRows'
    BY <2>1, <2>2, <1>0, <1>1, RowsWait
  <2> QED
    BY <2>1, <2>3, <2>4, <1>4, IdleIs
<1>9. ASSUME NEW r \in Proc, ClaimCommit(r) PROVE Goal
  <2>0. \A o \in job[r].os : Free(o) # {}
    BY <1>9, <1>0 DEF ClaimCommit, Held, Claiming
  <2>1. job[r].pc = "claim" /\ Become(r, Idle) /\ run' = run
    BY <2>0, <1>0, <1>9, ClaimIs
  <2>2. \A x \in Deliv :
          \/ row'[x] = row[x]
          \/ row[x].status \in Waiting /\ row'[x].status = "assigned" /\ row'[x].run = None
    BY <2>0, <1>0, <1>9, ClaimRun
  <2>3. job'[r] = Idle /\ \A s \in Proc : s # r => job'[s] = job[s]
    BY <2>1, <1>0, IdleIs, BecomeIs
  <2>4. RunRows'
    BY <2>1, <2>2, <1>0, <1>1, RowsWait
  <2> QED
    BY <2>1, <2>3, <2>4, <1>4, IdleIs
<1>10. ASSUME NEW r \in Proc, Follow(r) PROVE Goal
  <2>1. /\ job[r].pc = "locked" /\ UNCHANGED <<row, run>> /\ \A s \in Proc : s # r => job'[s] = job[s]
    BY <1>0, <1>10, FollowIs
  <2>2. \A s \in Proc : s # r => job'[s].pc # "follow"
    <3>1. job[r] # Idle
      BY <2>1, IdleIs
    <3> QED
      BY <3>1, <2>1, <1>1, IdleIs DEF Single
  <2>3. job'[r].x # None => /\ RunRead(job'[r])
                            /\ job'[r].to = "out_for_delivery" => row[job'[r].x].status = "assigned"
    BY <1>0, <1>10, FollowRun, DepartsWaiting
  <2>4. RunRead(job'[r]) => RunRead(job[r])'
    BY <2>1 DEF RunRead, ActiveRuns, Remaining, LiveRows
  <2>5. RunsRead'
    BY <2>1, <2>2, <2>3, <2>4 DEF RunsRead
  <2>6. RunRows'
    BY <2>1, <1>0, <1>1, RowsWait
  <2> QED
    BY <2>5, <2>6
<1>11. ASSUME NEW r \in Proc, StatusCommit(r) PROVE Goal
  <2>1. /\ job[r].pc = "follow" /\ job'[r].pc \in {"idle", "depart"}
        /\ \A s \in Proc : s # r => job'[s] = job[s]
    BY <1>0, <1>11, StatusIs
  <2>2. job[r] # Idle
    BY <2>1, IdleIs
  <2>3. RunsRead'
    BY <2>1, <2>2, <1>4
  <2> QED
    BY <2>3, <1>0, <1>1, <1>11, RowsCommit
<1>12. ASSUME NEW r \in Proc, Redeliver(r) PROVE Goal
  <2> DEFINE j == [job[r] EXCEPT !.pc = "mark"]
  <2>1. Become(r, j) /\ UNCHANGED <<row, run>>
    BY <1>12 DEF Redeliver, Done, table
  <2>2. j \in Job /\ j.pc = "mark"
    BY <1>0 DEF Job
  <2> HIDE DEF j
  <2>3. job'[r] = j /\ \A s \in Proc : s # r => job'[s] = job[s]
    BY <2>1, <2>2, <1>0, BecomeIs
  <2> QED
    BY <2>1, <2>2, <2>3, <1>2
<1>13. ASSUME NEW x \in Deliv, NEW st \in {"cancelled", "arrived"}, Alone, UNCHANGED <<run, job>>,
              row[x].status = IF st = "cancelled" THEN "assigned" ELSE "out_for_delivery",
              row' = [row EXCEPT ![x].status = st]
       PROVE  Goal
  <2>1. /\ row'[x].status = st /\ row'[x].driver = row[x].driver /\ row'[x].run = row[x].run
        /\ \A y \in Deliv : y # x => row'[y] = row[y]
    BY <1>0, <1>13, MarkIs
  <2>2. RunRows'
    BY <2>1, <1>0, <1>1, <1>13, RowMoves
  <2>3. \A s \in Proc : job'[s].pc # "follow"
    BY <1>13, IdleIs DEF Alone
  <2> QED
    BY <2>2, <2>3, <1>3
<1>14. ASSUME NEW o \in Order, unassign(o) PROVE Goal
  <2>1. PICK x \in Live(o) : row[x].status = "assigned" /\ row' = [row EXCEPT ![x].status = "cancelled"]
    BY <1>14 DEF unassign
  <2>2. x \in Deliv
    BY DEF Live, LiveRows
  <2> QED
    BY <2>1, <2>2, <1>13, <1>14 DEF unassign
<1>15. ASSUME NEW d \in Driver, NEW x \in Deliv, release(d, x) \/ driver_arrived(d, x) PROVE Goal
  BY <1>13, <1>15 DEF release, driver_arrived
<1>16. ASSUME NEW o \in Order, Advance(o) PROVE Goal
  BY <1>2, <1>16 DEF Advance, table
<1>17. ASSUME NEW d \in Driver, NEW b \in BOOLEAN, update_driver(d, b) PROVE Goal
  BY <1>2, <1>17 DEF update_driver, table
<1> HIDE DEF Goal
<1>18. Goal
  BY <1>0, <1>5, <1>6, <1>7, <1>8, <1>9, <1>10, <1>11, <1>12, <1>14, <1>15, <1>16, <1>17, Steps
<1> QED
  BY <1>18 DEF Goal

(***************************************************************************)
(* When handlers do not overlap, a run is active exactly while some of its *)
(* deliveries are on the road, and a driver has one active run at most     *)
(* (on_departure, _complete_run_if_done).                                  *)
(***************************************************************************)
THEOREM DeliveryRunsInStep == Spec => []RunsInStep
<1>1. Core /\ CodeInv /\ RunInv /\ [Next]_vars => RunInv'
  <2>1. ASSUME RunInv, UNCHANGED vars PROVE RunInv'
    BY <2>1 DEF vars, RunInv, Serial, RunRows, RunsRead, RunRead, LiveRows, ActiveRuns, Remaining
  <2> QED
    BY <2>1, RunStep
<1>2. ASSUME RunInv PROVE RunsInStep
  <2> SUFFICES ASSUME RunRows
               PROVE  /\ \A y \in Deliv : run[y] = "active" <=> \E x \in LiveRows : row[x].run = y
                      /\ \A d \in Driver : Cardinality(ActiveRuns(d)) <= 1
    BY <1>2 DEF RunInv, RunsInStep
  <2>1. ASSUME NEW y \in Deliv PROVE run[y] = "active" <=> \E x \in LiveRows : row[x].run = y
    <3>1. y # None
      BY DelivAssumption DEF None
    <3> QED
      BY <3>1 DEF RunRows
  <2>2. ASSUME NEW d \in Driver PROVE Cardinality(ActiveRuns(d)) <= 1
    <3>1. \A y, z \in ActiveRuns(d) : y = z
      BY DEF ActiveRuns, RunRows
    <3>2. CASE ActiveRuns(d) = {}
      BY <3>2, FS_EmptySet
    <3>3. CASE ActiveRuns(d) # {}
      <4>1. PICK y : y \in ActiveRuns(d)
        BY <3>3
      <4>2. ActiveRuns(d) = {y}
        BY <3>1, <4>1
      <4>3. Cardinality({y}) = 1
        BY FS_Singleton
      <4> QED
        BY <4>2, <4>3
    <3> QED
      BY <3>2, <3>3
  <2> QED
    BY <2>1, <2>2
<1> QED
  BY <1>1, <1>2, RunInit, DeliveryCode, DeliveryCore, PTL DEF Spec

-----------------------------------------------------------------------------
(***************************************************************************)
(* The failures.  While handlers do not overlap and none dies, an order    *)
(* has one open failure at most; it waits in delivery_failed, with its     *)
(* payment not given back, until the handler that resolved it marks it.    *)
(***************************************************************************)
Marking(x) == \E r \in Proc : job[r].pc = "mark" /\ job[r].x = x

FailureRows ==
    /\ \A o \in Order : refunded[o] = "all" => status[o] = "delivery_failed"
    /\ \A x \in Deliv : failure[x] = "pending" =>
         /\ status[OrderOf[x]] = "delivery_failed" \/ Marking(x)
         /\ refunded[OrderOf[x]] = "all" => Marking(x)
    /\ \A x, y \in Deliv : failure[x] = "pending" /\ failure[y] = "pending"
                          /\ OrderOf[x] = OrderOf[y] => x = y

FailureJob(j) ==
    /\ j.pc \in {"resolve", "mark"} => failure[j.x] = "pending"
    /\ j.report => j.pc \in {"locked", "follow"} /\ j.to = "delivery_failed"

FailureInv ==
    Serial /\ "crash" \notin entry =>
        FailureRows /\ \A r \in Proc : FailureJob(job[r])

LEMMA IdleFails == FailureJob(Idle)
BY DEF FailureJob, Idle

LEMMA FailureInit == Init => FailureInv
<1> SUFFICES ASSUME Init PROVE FailureRows /\ \A r \in Proc : FailureJob(job[r])
  BY DEF FailureInv
<1>1. \A r \in Proc : FailureJob(job[r])
  BY IdleFails DEF Init
<1>2. FailureRows
  BY DEF Init, FailureRows
<1> QED
  BY <1>1, <1>2

(* Handler r goes on to job j; it has no failure to mark before. *)
Quiet(r, j) ==
    /\ Become(r, j) /\ FailureJob(j) /\ job[r].pc # "mark"
    /\ UNCHANGED <<status, refunded, failure>>

(* update_status, locked for a handler that reports no failure, or one. *)
LEMMA BeginQuiet ==
    ASSUME NEW r \in Proc, NEW j \in Job, NEW o, NEW to, NEW proof,
           Begin(r, j, o, to, proof), job[r].pc # "mark",
           j.report => to = "delivery_failed"
    PROVE  \E k : Quiet(r, k)
<1> DEFINE k == [j EXCEPT !.pc = "locked", !.o = o, !.to = to, !.proof = proof]
<1>1. Become(r, k) /\ UNCHANGED <<status, refunded, failure>>
  BY DEF Begin, order, table
<1>2. k.pc = "locked" /\ k.report = j.report /\ k.to = to
  BY DEF Job
<1> HIDE DEF k
<1>3. FailureJob(k)
  BY <1>2 DEF FailureJob
<1> QED
  BY <1>1, <1>3 DEF Quiet

LEMMA RequestQuiet ==
    ASSUME Types, NEW r \in Proc, Request(r)
    PROVE  \E k : Quiet(r, k)
<1>0. /\ Start(r) => job[r].pc # "mark"
      /\ Idle \in Job /\ Idle.report = FALSE
  BY IdleIs DEF Start, Idle
<1>1. ASSUME NEW d \in Driver, NEW os \in SUBSET Order, assign(r, d, os) \/ claim(r, d, os) PROVE \E k : Quiet(r, k)
  <2>1. /\ Start(r) /\ UNCHANGED <<status, refunded, failure>>
        /\ \E pc \in {"assign", "claim"} : Become(r, [Idle EXCEPT !.pc = pc, !.d = d, !.os = os])
    BY <1>1 DEF assign, claim, order, table
  <2>2. PICK pc \in {"assign", "claim"} : Become(r, [Idle EXCEPT !.pc = pc, !.d = d, !.os = os])
    BY <2>1
  <2>3. FailureJob([Idle EXCEPT !.pc = pc, !.d = d, !.os = os])
    BY DEF FailureJob, Idle
  <2> QED
    BY <2>1, <2>2, <2>3, <1>0 DEF Quiet
<1>2. ASSUME NEW d \in Driver, NEW xs \in SUBSET Deliv, driver_depart(r, d, xs) PROVE \E k : Quiet(r, k)
  <2> DEFINE os == {OrderOf[x] : x \in xs}
  <2>1. /\ Start(r) /\ UNCHANGED <<status, refunded, failure>>
        /\ Become(r, [Idle EXCEPT !.pc = "depart", !.d = d, !.os = os])
    BY <1>2 DEF driver_depart, order, table
  <2>2. FailureJob([Idle EXCEPT !.pc = "depart", !.d = d, !.os = os])
    BY DEF FailureJob, Idle
  <2> QED
    BY <2>1, <2>2, <1>0 DEF Quiet
<1>3. ASSUME NEW o \in Order, NEW to \in Follows, patch_status(r, o, to) PROVE \E k : Quiet(r, k)
  BY <1>0, <1>3, BeginQuiet DEF patch_status
<1>4. ASSUME NEW x \in Deliv, admin_deliver_without_code(r, x) PROVE \E k : Quiet(r, k)
  <2>1. [Idle EXCEPT !.x = x] \in Job /\ [Idle EXCEPT !.x = x].report = FALSE
    BY <1>0 DEF Idle, Job
  <2> QED
    BY <1>0, <1>4, <2>1, BeginQuiet DEF admin_deliver_without_code
<1>5. ASSUME NEW x \in Deliv, NEW d \in Driver, report_failure(r, d, x) PROVE \E k : Quiet(r, k)
  <2>1. [Idle EXCEPT !.x = x, !.report = TRUE] \in Job
    BY <1>0 DEF Idle, Job
  <2> QED
    BY <1>0, <1>5, <2>1, BeginQuiet DEF report_failure
<1>6. ASSUME NEW x \in Deliv, NEW d \in Driver, NEW code \in 0 .. MaxNonce, driver_deliver(r, d, x, code)
      PROVE  \E k : Quiet(r, k)
  <2> DEFINE k(pc) == [Idle EXCEPT !.pc = pc, !.d = d, !.x = x, !.o = OrderOf[x], !.pay = pay[OrderOf[x]],
                                   !.proof = "not_required", !.code = IF pc = "count" THEN code ELSE 0]
  <2>1. /\ Start(r) /\ UNCHANGED <<status, refunded, failure>>
        /\ \E pc \in {"count", "settle"} : Become(r, k(pc))
    BY <1>6 DEF driver_deliver, order, table
  <2>2. \A pc \in {"count", "settle"} : FailureJob(k(pc))
    BY DEF FailureJob, Idle
  <2> QED
    BY <2>1, <2>2, <1>0 DEF Quiet
<1>7. ASSUME NEW x \in Deliv, NEW act \in {"refund", "retain", "redeliver"}, resolve_failure(r, x, act)
      PROVE  \E k : Quiet(r, k)
  <2> DEFINE k == [Idle EXCEPT !.pc = "resolve", !.o = OrderOf[x], !.x = x, !.act = act, !.pay = pay[OrderOf[x]]]
  <2>1. /\ Start(r) /\ UNCHANGED <<status, refunded, failure>> /\ failure[x] = "pending" /\ Become(r, k)
    BY <1>7 DEF resolve_failure, order, table
  <2>2. FailureJob(k)
    BY <2>1 DEF FailureJob, Idle
  <2> QED
    BY <2>1, <2>2, <1>0 DEF Quiet
<1> DEFINE Goal == \E k : Quiet(r, k)
<1> HIDE DEF Goal
<1>8. Goal
  BY <1>1, <1>2, <1>3, <1>4, <1>5, <1>6, <1>7 DEF Request, Goal
<1> QED
  BY <1>8 DEF Goal

LEMMA ContinueQuiet ==
    ASSUME Types, "crash" \notin entry, NEW r \in Proc, FailureJob(job[r]), Continue(r)
    PROVE  \/ \E k : Quiet(r, k)
           \/ StatusCommit(r) \/ Refund(r) \/ Redeliver(r) \/ ResolveMark(r)
<1> DEFINE j == job[r]
           Goal == \E k : Quiet(r, k)
<1>0. j \in Job /\ FailureJob(j)
  BY DEF Types, TypeOK
<1>1. ASSUME AssignCommit(r) \/ ClaimCommit(r) \/ Refused(r) PROVE Goal
  <2>1. Become(r, Idle) /\ UNCHANGED <<status, refunded, failure>> /\ j.pc # "mark"
    BY <1>1 DEF AssignCommit, ClaimCommit, Refused, order, table
  <2> QED
    BY <2>1, IdleFails DEF Quiet
<1>2. ASSUME Follow(r) PROVE Goal
  <2>1. j.pc = "locked" /\ UNCHANGED <<status, refunded, failure>>
    BY <1>2 DEF Follow, order, table
  <2>2. j.report => j.to = "delivery_failed"
    BY <1>0 DEF FailureJob
  <2> DEFINE k1(x) == [j EXCEPT !.pc = "follow", !.x = x]
             k2(x, y) == [j EXCEPT !.pc = "follow", !.x = x, !.run = y]
             k3(x, y, b) == [j EXCEPT !.pc = "follow", !.x = x, !.run = y, !.last = b]
  <2>3. \/ \E x : Become(r, k1(x))
        \/ \E x, y : Become(r, k2(x, y))
        \/ \E x, y, b : Become(r, k3(x, y, b))
    BY <1>2 DEF Follow
  <2> HIDE DEF j
  <2>4. \A x, y, b : FailureJob(k1(x)) /\ FailureJob(k2(x, y)) /\ FailureJob(k3(x, y, b))
    BY <1>0, <2>2 DEF FailureJob, Job
  <2> HIDE DEF k1, k2, k3
  <2> QED
    BY <2>1, <2>3, <2>4 DEF Quiet, j
<1>3. ASSUME Count(r) \/ Try(r) \/ Settle(r) PROVE Goal
  <2>1. /\ j.pc \in {"count", "try", "settle"} /\ UNCHANGED <<status, refunded, failure>>
        /\ \/ Become(r, Idle)
           \/ Become(r, [j EXCEPT !.pc = "try"])
           \/ Become(r, [j EXCEPT !.pc = "settle", !.proof = "code"])
           \/ Become(r, [j EXCEPT !.pay = "paid"])
    BY <1>3 DEF Count, Try, Settle, order, table
  <2> HIDE DEF j
  <2>2. /\ FailureJob([j EXCEPT !.pc = "try"])
        /\ FailureJob([j EXCEPT !.pc = "settle", !.proof = "code"])
        /\ FailureJob([j EXCEPT !.pay = "paid"])
    BY <1>0, <2>1 DEF FailureJob, Job
  <2> QED
    BY <2>1, <2>2, IdleFails DEF Quiet, j
<1>4. ASSUME HandOver(r) PROVE Goal
  <2>1. j.pc = "settle" /\ Begin(r, [j EXCEPT !.x = None], j.o, "delivered", j.proof)
    BY <1>4 DEF HandOver
  <2>2. ~j.report
    BY <1>0, <2>1 DEF FailureJob
  <2>3. [j EXCEPT !.x = None] \in Job /\ ~[j EXCEPT !.x = None].report
    BY <1>0, <2>2 DEF Job
  <2> QED
    BY <2>1, <2>3, BeginQuiet
<1>5. ASSUME NEW o \in Order, Depart(r, o) PROVE Goal
  <2>1. j.pc = "depart" /\ Begin(r, [j EXCEPT !.os = @ \ {o}], o, "out_for_delivery", "none")
    BY <1>5 DEF Depart
  <2>2. ~j.report
    BY <1>0, <2>1 DEF FailureJob
  <2>3. [j EXCEPT !.os = @ \ {o}] \in Job /\ ~[j EXCEPT !.os = @ \ {o}].report
    BY <1>0, <2>2 DEF Job
  <2> QED
    BY <2>1, <2>3, BeginQuiet
<1>6. ASSUME SettleHold(r) \/ NothingToRefund(r) PROVE Goal
  <2>1. /\ j.pc = "resolve" /\ UNCHANGED <<status, refunded, failure>>
        /\ Become(r, [j EXCEPT !.pc = "mark"])
    BY <1>6 DEF SettleHold, NothingToRefund, Done, order, table
  <2>2. FailureJob([j EXCEPT !.pc = "mark"])
    BY <1>0, <2>1 DEF FailureJob, Job
  <2> QED
    BY <2>1, <2>2 DEF Quiet
<1>7. ~Die(r)
  BY DEF Die
<1> HIDE DEF Goal
<1>8. Goal \/ StatusCommit(r) \/ Refund(r) \/ Redeliver(r) \/ ResolveMark(r)
  BY <1>1, <1>2, <1>3, <1>4, <1>5, <1>6, <1>7 DEF Continue
<1> QED
  BY <1>8 DEF Goal

LEMMA FailureStep ==
    ASSUME Core, CodeInv, FailureInv, Next
    PROVE  FailureInv'
<1>0. /\ Types /\ Held /\ Table /\ Step /\ entry' = entry /\ job \in [Proc -> Job]
      /\ status \in [Order -> Graph!OrderStatus] /\ refunded \in [Order -> {"none", "some", "all"}]
      /\ failure \in [Deliv -> {"none", "pending", "resolved"}] /\ OrderOf \in [Deliv -> Order]
      /\ None \notin Deliv
  BY DelivAssumption DEF Core, Next, Types, TypeOK, None
<1> DEFINE Goal == FailureRows' /\ \A s \in Proc : FailureJob(job[s])'
<1> SUFFICES ASSUME Serial, "crash" \notin entry PROVE Goal
  BY <1>0 DEF FailureInv, Serial
<1>1. Single /\ FailureRows /\ \A s \in Proc : FailureJob(job[s])
  BY DEF FailureInv, CodeInv
<1>2. ASSUME NEW r \in Proc, NEW k, Quiet(r, k) PROVE Goal
  <2>1. /\ job'[r] = k /\ (\A s \in Proc : s # r => job'[s] = job[s])
        /\ job[r].pc # "mark" /\ FailureJob(k) /\ UNCHANGED <<status, refunded, failure>>
    BY <1>0, <1>2 DEF Quiet, Become
  <2>2. \A s \in Proc : FailureJob(job[s])'
    BY <2>1, <1>1 DEF FailureJob
  <2>3. \A x : Marking(x) => Marking(x)'
    BY <2>1 DEF Marking
  <2>4. FailureRows'
    BY <2>1, <2>3, <1>1 DEF FailureRows
  <2> QED
    BY <2>2, <2>4
(* A handler that treats or reports a failure is alone. *)
<1>3. ASSUME NEW r \in Proc, job[r].pc # "idle"
      PROVE  /\ \A s \in Proc : s # r => job[s] = Idle
             /\ \A x : Marking(x) => job[r].pc = "mark" /\ x = job[r].x
  <2>1. \A s \in Proc : s # r => job[s] = Idle
    BY <1>1, <1>3, IdleIs DEF Single
  <2> QED
    BY <2>1, IdleIs DEF Marking
<1>4. ASSUME NEW r \in Proc, NEW k, Become(r, k), FailureJob(k)', job[r].pc # "idle"
      PROVE  job'[r] = k /\ \A s \in Proc : FailureJob(job[s])'
  <2>1. job'[r] = k /\ \A s \in Proc : s # r => job'[s] = Idle
    BY <1>0, <1>3, <1>4 DEF Become
  <2>2. \A s \in Proc : s # r => FailureJob(job[s])'
    BY <2>1 DEF FailureJob, Idle
  <2>3. FailureJob(job[r])'
    BY <2>1, <1>4 DEF FailureJob
  <2> QED
    BY <2>1, <2>2, <2>3
(* The failure that handler r treats, and its order. *)
<1>5. ASSUME NEW r \in Proc, job[r].pc \in {"resolve", "mark"}
      PROVE  \E x \in Deliv, o \in Order :
               /\ x = job[r].x /\ o = job[r].o /\ o = OrderOf[x] /\ failure[x] = "pending"
               /\ \A y \in Deliv : failure[y] = "pending" /\ OrderOf[y] = o => y = x
               /\ job[r].pc = "resolve" => status[o] = "delivery_failed" /\ refunded[o] # "all"
  <2>1. JobOK(job[r]) /\ FailureJob(job[r])
    BY <1>0, <1>1 DEF Types
  <2>2. /\ job[r].x \in Deliv /\ job[r].o = OrderOf[job[r].x] /\ failure[job[r].x] = "pending"
        /\ OrderOf[job[r].x] \in Order
    BY <2>1, <1>0, <1>5 DEF JobOK, OnOrder, FailureJob
  <2>3. job[r].pc = "resolve" => ~Marking(job[r].x)
    BY <1>3, <1>5
  <2> QED
    BY <2>2, <2>3, <1>1 DEF FailureRows
<1>6. ASSUME NEW r \in Proc, Refund(r) \/ Redeliver(r) PROVE Goal
  <2>1. /\ job[r].pc = "resolve" /\ Become(r, [job[r] EXCEPT !.pc = "mark"]) /\ failure' = failure
        /\ \/ status' = status /\ \E part \in {"none", "some", "all"} : refunded' = [refunded EXCEPT ![job[r].o] = part]
           \/ status' = [status EXCEPT ![job[r].o] = "ready"] /\ refunded' = refunded
    <3>1. CASE Redeliver(r)
      BY <3>1 DEF Redeliver, Done, table
    <3>2. CASE Refund(r)
      <4>1. job[r].o \in Order
        BY <3>2, <1>5 DEF Refund
      <4>2. refunded' = refunded => refunded' = [refunded EXCEPT ![job[r].o] = refunded[job[r].o]]
        BY <1>0
      <4>3. refunded[job[r].o] \in {"none", "some", "all"}
        BY <4>1, <1>0
      <4> QED
        BY <3>2, <4>2, <4>3 DEF Refund, Done, table
    <3> QED
      BY <1>6, <3>1, <3>2
  <2>2. PICK x \in Deliv, o \in Order :
               /\ x = job[r].x /\ o = job[r].o /\ o = OrderOf[x] /\ failure[x] = "pending"
               /\ \A y \in Deliv : failure[y] = "pending" /\ OrderOf[y] = o => y = x
               /\ status[o] = "delivery_failed" /\ refunded[o] # "all"
    BY <2>1, <1>5
  <2>3. [job[r] EXCEPT !.pc = "mark"].pc = "mark" /\ [job[r] EXCEPT !.pc = "mark"].x = x
        /\ ~[job[r] EXCEPT !.pc = "mark"].report
    <3>1. job[r] \in Job /\ FailureJob(job[r])
      BY <1>0, <1>1 DEF Types, TypeOK
    <3> QED
      BY <2>1, <2>2, <3>1 DEF Job, FailureJob
  <2> DEFINE k == [job[r] EXCEPT !.pc = "mark"]
  <2>4. job'[r] = k /\ \A s \in Proc : s # r => job'[s] = Idle
    BY <1>0, <1>3, <2>1 DEF Become
  <2>5. Marking(x)' /\ \A s \in Proc : FailureJob(job[s])'
    <3>1. \A s \in Proc : s # r => FailureJob(job[s])'
      BY <2>4 DEF FailureJob, Idle
    <3>2. FailureJob(job[r])'
      BY <2>1, <2>2, <2>3, <2>4 DEF FailureJob
    <3>3. Marking(x)'
      BY <2>3, <2>4 DEF Marking
    <3> QED
      BY <3>1, <3>2, <3>3
  <2>6. \A p \in Order : p # o => status'[p] = status[p] /\ refunded'[p] = refunded[p]
    BY <2>1, <2>2, <1>0
  <2>7. \A p \in Order : refunded'[p] = "all" => status'[p] = "delivery_failed"
    <3>1. refunded'[o] = "all" => status'[o] = "delivery_failed"
      BY <2>1, <2>2, <1>0
    <3> QED
      BY <3>1, <2>6, <1>1 DEF FailureRows
  <2>8. \A y : ~Marking(y)
    BY <2>1, <1>3
  <2>9. ASSUME NEW y \in Deliv, failure'[y] = "pending"
         PROVE  /\ status'[OrderOf[y]] = "delivery_failed" \/ Marking(y)'
                /\ refunded'[OrderOf[y]] = "all" => Marking(y)'
    <3>1. failure[y] = "pending" /\ OrderOf[y] \in Order
      BY <2>1, <2>9, <1>0
    <3>2. CASE y = x
      BY <2>5, <3>2
    <3>3. CASE y # x
      <4>1. OrderOf[y] # o
        BY <2>2, <3>1, <3>3
      <4> QED
        BY <4>1, <2>6, <2>8, <3>1, <1>1 DEF FailureRows
    <3> QED
      BY <3>2, <3>3
  <2>10. FailureRows'
    BY <2>1, <2>7, <2>9, <1>1 DEF FailureRows
  <2> QED
    BY <2>5, <2>10
<1>7. ASSUME NEW r \in Proc, ResolveMark(r) PROVE Goal
  <2>1. /\ job[r].pc = "mark" /\ Become(r, Idle) /\ UNCHANGED <<status, refunded>>
        /\ failure' = [failure EXCEPT ![job[r].x] = "resolved"]
    BY <1>7 DEF ResolveMark, Marked, order
  <2>2. PICK x \in Deliv : x = job[r].x
    BY <2>1, <1>5
  <2>3. \A y \in Deliv : failure'[y] = "pending" => y # x /\ failure[y] = "pending" /\ ~Marking(y)
    BY <2>1, <2>2, <1>0, <1>3
  <2>4. FailureRows'
    BY <2>1, <2>3, <1>1 DEF FailureRows
  <2>5. FailureJob(Idle)'
    BY DEF FailureJob, Idle
  <2>6. \A s \in Proc : FailureJob(job[s])'
    BY <2>1, <2>5, <1>4
  <2> QED
    BY <2>4, <2>6
<1>8. ASSUME NEW r \in Proc, StatusCommit(r) PROVE Goal
  <2> DEFINE j == job[r]
             k == IF j.os = {} THEN Idle ELSE [Idle EXCEPT !.pc = "depart", !.d = j.d, !.os = j.os]
  <2>1. /\ j.pc = "follow" /\ status' = [status EXCEPT ![j.o] = j.to] /\ refunded' = refunded
        /\ failure' = FailureAfter(j) /\ Become(r, k)
    BY <1>8 DEF StatusCommit
  <2>2. PICK o \in Order : o = j.o
    BY <1>0, <1>8, StatusIs
  <2>3. status[o] # "delivery_failed"
    <3>1. j.to \in Graph!VALID_TRANSITIONS[status[o]]
      BY <2>1, <2>2, <1>0 DEF Held, Going
    <3> QED
      BY <3>1, <1>0 DEF Graph!VALID_TRANSITIONS, Graph!OrderStatus
  <2>4. \A y : ~Marking(y)
    BY <2>1, <1>3
  <2>5. \A y \in Deliv : failure[y] = "pending" => OrderOf[y] # o /\ refunded[OrderOf[y]] # "all"
    BY <2>3, <2>4, <1>1 DEF FailureRows
  <2>6. \A y \in Deliv : failure'[y] = "pending" =>
          failure[y] = "pending" \/ (y = j.x /\ j.to = "delivery_failed" /\ OrderOf[y] = o)
    <3>1. j.report => j.to = "delivery_failed"
      BY <1>1 DEF FailureJob
    <3>2. j.x # None => OrderOf[j.x] = o
      BY <1>0, <1>8, <2>2, TableFollows DEF Live
    <3>3. \A y \in Deliv : failure'[y] = "pending" => failure[y] = "pending" \/ (j.report /\ y = j.x)
      BY <2>1, <1>0 DEF FailureAfter
    <3> QED
      BY <3>1, <3>2, <3>3, <1>0
  <2>7. refunded[o] # "all"
    BY <2>3, <1>1 DEF FailureRows
  <2>8. /\ status'[o] = j.to /\ \A p \in Order : p # o => status'[p] = status[p]
    BY <2>1, <2>2, <1>0
  <2> HIDE DEF j, k
  <2>9. FailureRows'
    <3>1. \A p \in Order : refunded'[p] = "all" => status'[p] = "delivery_failed"
      BY <2>1, <2>7, <2>8, <1>1 DEF FailureRows
    <3>2. ASSUME NEW y \in Deliv, failure'[y] = "pending"
          PROVE  status'[OrderOf[y]] = "delivery_failed" /\ refunded'[OrderOf[y]] # "all"
      <4>1. CASE failure[y] = "pending"
        BY <4>1, <2>1, <2>4, <2>5, <2>8, <1>0, <1>1 DEF FailureRows
      <4>2. CASE y = j.x /\ j.to = "delivery_failed" /\ OrderOf[y] = o
        BY <4>2, <2>1, <2>7, <2>8
      <4> QED
        BY <3>2, <4>1, <4>2, <2>6
    <3>3. ASSUME NEW y \in Deliv, NEW z \in Deliv, failure'[y] = "pending", failure'[z] = "pending",
                 OrderOf[y] = OrderOf[z]
          PROVE  y = z
      BY <3>3, <2>5, <2>6, <1>1 DEF FailureRows
    <3> QED
      BY <3>1, <3>2, <3>3 DEF FailureRows
  <2>10. \A s \in Proc : FailureJob(job[s])'
    <3>1. job'[r] = k /\ \A s \in Proc : s # r => job'[s] = Idle
      BY <2>1, <1>0, <1>3 DEF Become, j
    <3>2. k.pc \in {"idle", "depart"} /\ ~k.report
      BY DEF Idle, k
    <3>3. FailureJob(job[r])'
      BY <3>1, <3>2 DEF FailureJob
    <3> QED
      BY <3>1, <3>3 DEF FailureJob, Idle
  <2> QED
    BY <2>9, <2>10
<1>9. ASSUME NEW o \in Order, Advance(o) PROVE Goal
  <2>1. /\ UNCHANGED <<refunded, failure, job>> /\ status[o] # "delivery_failed"
        /\ \E to : status' = [status EXCEPT ![o] = to] /\ Alone
    BY <1>9 DEF Advance, table
  <2>2. \A y : ~Marking(y)
    BY <2>1, IdleIs DEF Alone, Marking
  <2>3. \A p \in Order : p # o => status'[p] = status[p]
    BY <2>1, <1>0
  <2>4. FailureRows'
    <3>1. \A p \in Order : refunded[p] = "all" => p # o /\ status[p] = "delivery_failed"
      BY <2>1, <1>1 DEF FailureRows
    <3>2. \A y \in Deliv : failure[y] = "pending" =>
            /\ OrderOf[y] # o /\ status[OrderOf[y]] = "delivery_failed"
            /\ refunded[OrderOf[y]] # "all"
      BY <2>1, <2>2, <1>1 DEF FailureRows
    <3> QED
      BY <3>1, <3>2, <2>1, <2>3, <1>0, <1>1 DEF FailureRows
  <2> QED
    BY <2>1, <2>4, <1>1 DEF FailureJob
<1>10. ASSUME UNCHANGED <<status, refunded, failure, job>> PROVE Goal
  BY <1>1, <1>10 DEF FailureRows, FailureJob, Marking
<1>11. ASSUME NEW o \in Order, unassign(o) PROVE Goal
  BY <1>10, <1>11 DEF unassign, order
<1>12. ASSUME NEW d \in Driver, NEW x \in Deliv, release(d, x) \/ driver_arrived(d, x) PROVE Goal
  BY <1>10, <1>12 DEF release, driver_arrived, order
<1>13. ASSUME NEW d \in Driver, NEW b \in BOOLEAN, update_driver(d, b) PROVE Goal
  BY <1>10, <1>13 DEF update_driver, order, table
<1>14. ASSUME NEW r \in Proc, Request(r) \/ Continue(r) PROVE Goal
  <2>1. FailureJob(job[r])
    BY <1>1
  <2> HIDE DEF Goal
  <2> QED
    BY <2>1, <1>0, <1>2, <1>6, <1>7, <1>8, <1>14, RequestQuiet, ContinueQuiet
<1> HIDE DEF Goal
<1> QED
  BY <1>0, <1>9, <1>11, <1>12, <1>13, <1>14 DEF Step

(***************************************************************************)
(* When handlers do not overlap and none dies, an order whose payment was  *)
(* given back is never sent out again (resolve_failure).                   *)
(***************************************************************************)
THEOREM DeliveryRefundedStaysHere == Spec => []RefundedStaysHere
<1>1. Core /\ CodeInv /\ FailureInv /\ [Next]_vars => FailureInv'
  <2>1. ASSUME FailureInv, UNCHANGED vars PROVE FailureInv'
    BY <2>1 DEF vars, FailureInv, Serial, FailureRows, FailureJob, Marking
  <2> QED
    BY <2>1, FailureStep
<1>2. FailureInv => RefundedStaysHere
  BY DEF FailureInv, FailureRows, RefundedStaysHere
<1> QED
  BY <1>1, <1>2, FailureInit, DeliveryCode, DeliveryCore, PTL DEF Spec

=============================================================================
