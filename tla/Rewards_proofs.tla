--------------------------- MODULE Rewards_proofs ---------------------------
(***************************************************************************)
(* What Rewards guarantees for any number of orders, keys, codes,          *)
(* reservations and handlers, any points and limits, and any profile.      *)
(***************************************************************************)
EXTENDS Rewards, FiniteSetTheorems, TLAPS

(***************************************************************************)
(* The column types without the counters' bounds, and what a handler       *)
(* carries for the step it is about to do.                                 *)
(***************************************************************************)
EarnCol  == [count : Nat, n : Nat, aged : BOOLEAN]
PromoCol == [state : {"absent", "active", "inactive"}, ended : BOOLEAN,
             uses : Nat, max : Limits, per : Limits, peak : Limits,
             most : Limits, first : BOOLEAN, bought : BOOLEAN]

Placing == {"eligible", "order"}
OnOrder == Placing \cup {"usage", "delivered", "credit"}

JobOK(j) ==
    /\ j.op \in OnOrder => j.o \in Order
    /\ j.op \in Placing => /\ j.n \in {0, Cost} /\ j.row.promo = j.p
                           /\ j.row.status \in {"pending", "confirmed"}
                           /\ j.row.src = "guest" => j.p = None
    /\ j.op = "code" => j.p \in Promo
    /\ j.op = "reserve" => j.v \in Resv /\ j.n \in 0 .. Cost
    /\ j.op \in {"add", "credit", "expire"} => j.n \in Nat

Columns ==
    /\ points \in Int /\ ledger \in Int /\ bought \in Nat
    /\ earn \in [Order -> EarnCol] /\ order \in [Order -> OrderRow]
    /\ promo \in [Promo -> PromoCol] /\ usage \subseteq Order
    /\ resv \in [Resv -> ResvRow] /\ program \in Program

Jobs  == job \in [Proc -> Job] /\ \A r \in Proc : JobOK(job[r])
Types == Columns /\ Jobs

LEMMA IdleIs == Idle \in Job /\ JobOK(Idle) /\ Idle.op = "idle" /\ NoOrder \in OrderRow
BY NoneAssumption DEF Idle, Job, JobOK, NoOrder, OrderRow, OnOrder, Placing

LEMMA DoIs ==
    ASSUME job \in [Proc -> Job], NEW r \in Proc, NEW j, Do(r, j)
    PROVE  job'[r] = j /\ \A s \in Proc : s # r => job'[s] = job[s]
BY DEF Do

LEMMA JobsStep ==
    ASSUME Jobs, NEW r \in Proc, NEW j \in Job, JobOK(j), Do(r, j)
    PROVE  Jobs'
<1>1. job' \in [Proc -> Job]
  BY DEF Jobs, Do
<1>2. \A s \in Proc : JobOK(job'[s])
  BY DoIs DEF Jobs
<1>3. (\A s \in Proc : JobOK(job'[s])) => \A s \in Proc : JobOK(job[s])'
  BY DEF JobOK
<1> QED
  BY <1>1, <1>2, <1>3 DEF Jobs

LEMMA JobsSame ==
    ASSUME Jobs, job' = job
    PROVE  Jobs'
BY DEF Jobs, JobOK

(* The points of an order are not negative. *)
LEMMA CreditIsNat == Columns => compute_points_for_order \in Nat
<1> SUFFICES ASSUME Columns PROVE compute_points_for_order \in Nat
  OBVIOUS
<1> DEFINE raw == 1 + (IF Delivered THEN 0 ELSE FirstBonus)
<1> DEFINE m == IF raw < Cap THEN raw ELSE Cap
<1>1. m \in Nat
  BY PointsAssumption
<1>2. \A x, y \in Nat : x * y \in Nat
  OBVIOUS
<1>3. Base * m \in Nat
  BY <1>1, <1>2, PointsAssumption
<1> QED
  BY <1>3 DEF compute_points_for_order

(***************************************************************************)
(* A handler that begins: what it is to do, and what it carries.           *)
(***************************************************************************)
Carries(j, op, v, x, n) ==
    /\ j \in Job /\ JobOK(j) /\ j.op = op /\ j.v = v /\ j.seen = x /\ j.n = n
    /\ j.o = None /\ j.p = None

LEMMA IdleHas ==
    /\ Idle \in Job /\ Idle.o = None /\ Idle.p = None /\ Idle.v = None /\ Idle.seen = 0
    /\ Idle.n = 0
BY IdleIs DEF Idle

LEMMA BegunPoints ==
    ASSUME NEW op \in {"add", "expire"}, NEW x \in Int, NEW n \in Nat
    PROVE  Carries([Idle EXCEPT !.op = op, !.seen = x, !.n = n], op, None, x, n)
<1> DEFINE j == [Idle EXCEPT !.op = op, !.seen = x, !.n = n]
<1>1. n \in Int
  OBVIOUS
<1>2. j \in Job
  <2>1. \A i \in Job : [i EXCEPT !.op = op, !.seen = x, !.n = n] \in Job
    BY <1>1 DEF Job
  <2> QED
    BY <2>1, IdleHas
<1>3. j.op = op /\ j.seen = x /\ j.n = n /\ j.o = None /\ j.p = None /\ j.v = None
  BY IdleHas DEF Job
<1> HIDE DEF j
<1>4. JobOK(j)
  BY <1>3 DEF JobOK, OnOrder, Placing
<1> QED
  BY <1>2, <1>3, <1>4 DEF Carries, j

LEMMA BegunReserve ==
    ASSUME NEW v \in Resv, NEW n \in 0 .. Cost
    PROVE  Carries([Idle EXCEPT !.op = "reserve", !.v = v, !.n = n], "reserve", v, 0, n)
<1>1. n \in Int
  BY PointsAssumption
<1>2. \A i \in Job : i.o = None /\ i.p = None /\ i.seen = 0 =>
        Carries([i EXCEPT !.op = "reserve", !.v = v, !.n = n], "reserve", v, 0, n)
  BY <1>1 DEF Carries, Job, JobOK, OnOrder, Placing
<1> QED
  BY <1>2, IdleHas

LEMMA BegunNotice == Carries([Idle EXCEPT !.op = "notice"], "notice", None, 0, 0)
<1>1. \A i \in Job : i.o = None /\ i.p = None /\ i.v = None /\ i.seen = 0 /\ i.n = 0 =>
        Carries([i EXCEPT !.op = "notice"], "notice", None, 0, 0)
  BY DEF Carries, Job, JobOK, OnOrder, Placing
<1> QED
  BY <1>1, IdleHas

-----------------------------------------------------------------------------
(* The actions, grouped by what they write *)

(* Handlers that begin with reads only, and those that end without a write. *)
Begins(r) ==
    \/ \E n \in 1 .. Cost : add_points(r, n)
    \/ \E v \in Resv, o \in Order, n \in 1 .. Cost : create_checkout_reservation(r, v, o, n)
    \/ check_and_expire_points(r) \/ notify_expiring_points(r)
Ends(r) == Refuse(r) \/ Die(r) \/ NoticeCommit(r)

(* Commits of the balance that leave the other tables alone. *)
Balances(r) ==
    \/ AddCommit(r) \/ ExpireCommit(r)
    \/ \E n \in 1 .. Cost : redeem_points(r, n)

Reservations(r) ==
    \/ ReserveCommit(r)
    \/ \E v \in Resv : confirm_checkout_reservation(r, v) \/ cancel_checkout_reservation(r, v)

(* A handler that begins has read the balance it is to write over. *)
LEMMA BeginsIs ==
    ASSUME Types, NEW r \in Proc, Begins(r)
    PROVE  /\ Free(r)
           /\ UNCHANGED <<points, ledger, earn, order, promo, usage, resv, bought, program>>
           /\ \E j \in Job : /\ Do(r, j) /\ JobOK(j)
                             /\ j.op \in {"add", "reserve", "expire", "notice"}
                             /\ j.op \in {"add", "expire"} => j.seen = points
                             /\ j.op = "expire" => j.n <= points
<1>0. points \in Int
  BY DEF Types, Columns
<1>1. /\ Free(r)
      /\ UNCHANGED <<points, ledger, earn, order, promo, usage, resv, bought, program>>
  BY DEF Begins, add_points, create_checkout_reservation, check_and_expire_points,
         notify_expiring_points
<1>2. ASSUME NEW n \in 1 .. Cost, add_points(r, n)
      PROVE  \E j : Do(r, j) /\ Carries(j, "add", None, points, n)
  <2>1. n \in Nat
    BY PointsAssumption
  <2> QED
    BY <1>0, <1>2, <2>1, BegunPoints DEF add_points
<1>3. ASSUME NEW v \in Resv, NEW o \in Order, NEW n \in 1 .. Cost,
             create_checkout_reservation(r, v, o, n)
      PROVE  \E j : Do(r, j) /\ Carries(j, "reserve", v, 0, n)
  <2>1. n \in 0 .. Cost
    BY PointsAssumption
  <2> QED
    BY <1>3, <2>1, BegunReserve DEF create_checkout_reservation
<1>4. ASSUME check_and_expire_points(r)
      PROVE  \E n \in 1 .. points : \E j : Do(r, j) /\ Carries(j, "expire", None, points, n)
  <2>1. PICK n \in 1 .. points : Do(r, [Idle EXCEPT !.op = "expire", !.seen = points, !.n = n])
    BY <1>4 DEF check_and_expire_points
  <2>2. n \in Nat
    BY <1>0
  <2> QED
    BY <1>0, <2>1, <2>2, BegunPoints
<1>5. ASSUME notify_expiring_points(r)
      PROVE  \E j : Do(r, j) /\ Carries(j, "notice", None, 0, 0)
  BY <1>5, BegunNotice DEF notify_expiring_points
<1>6. \/ \E n \in 1 .. Cost : \E j : Do(r, j) /\ Carries(j, "add", None, points, n)
      \/ \E v \in Resv, n \in 1 .. Cost : \E j : Do(r, j) /\ Carries(j, "reserve", v, 0, n)
      \/ \E n \in 1 .. points : \E j : Do(r, j) /\ Carries(j, "expire", None, points, n)
      \/ \E j : Do(r, j) /\ Carries(j, "notice", None, 0, 0)
  BY <1>2, <1>3, <1>4, <1>5 DEF Begins
<1> QED
  BY <1>0, <1>1, <1>6 DEF Carries

LEMMA TypesBegins ==
    ASSUME Types, NEW r \in Proc, Begins(r)
    PROVE  Types'
BY BeginsIs, JobsStep DEF Types, Columns

LEMMA TypesEnds ==
    ASSUME Types, NEW r \in Proc, Ends(r)
    PROVE  Types'
<1>1. Jobs'
  BY IdleIs, JobsStep DEF Ends, Refuse, Die, NoticeCommit, Types
<1>2. program' \in Program
  BY DEF Ends, Refuse, Die, NoticeCommit, Types, Columns, Program
<1> QED
  BY <1>1, <1>2 DEF Ends, Refuse, Die, NoticeCommit, Types, Columns

LEMMA TypesBalances ==
    ASSUME Types, NEW r \in Proc, Balances(r)
    PROVE  Types'
<1>0. job[r].seen \in Int /\ (job[r].op \in {"add", "expire"} => job[r].n \in Nat)
  BY DEF Types, Jobs, Job, JobOK
<1>1. ASSUME AddCommit(r) \/ ExpireCommit(r) PROVE Types'
  <2>1. Jobs'
    BY <1>1, IdleIs, JobsStep DEF AddCommit, ExpireCommit, Types
  <2> QED
    BY <1>0, <1>1, <2>1 DEF AddCommit, ExpireCommit, Write, Types, Columns
<1>2. ASSUME NEW n \in 1 .. Cost, redeem_points(r, n) PROVE Types'
  BY <1>2, JobsSame DEF redeem_points, Debit, Types, Columns
<1> QED
  BY <1>1, <1>2 DEF Balances

LEMMA TypesReservations ==
    ASSUME Types, NEW r \in Proc, Reservations(r)
    PROVE  Types'
<1>1. ASSUME ReserveCommit(r) PROVE Types'
  <2>1. job[r].v \in Resv /\ job[r].n \in 0 .. Cost
    BY <1>1 DEF ReserveCommit, Types, Jobs, JobOK
  <2>2. resv' \in [Resv -> ResvRow]
    BY <1>1, <2>1 DEF ReserveCommit, Types, Columns, ResvRow
  <2>3. Jobs'
    BY <1>1, IdleIs, JobsStep DEF ReserveCommit, Types
  <2> QED
    BY <1>1, <2>2, <2>3 DEF ReserveCommit, Types, Columns
<1>2. ASSUME NEW v \in Resv, confirm_checkout_reservation(r, v) PROVE Types'
  <2>1. resv[v].n \in Int
    BY PointsAssumption DEF Types, Columns, ResvRow
  <2>2. resv' \in [Resv -> ResvRow]
    BY <1>2 DEF confirm_checkout_reservation, Types, Columns, ResvRow
  <2> QED
    BY <1>2, <2>1, <2>2, JobsSame DEF confirm_checkout_reservation, Debit, Types, Columns
<1>3. ASSUME NEW v \in Resv, cancel_checkout_reservation(r, v) PROVE Types'
  <2>1. resv' \in [Resv -> ResvRow]
    BY <1>3 DEF cancel_checkout_reservation, Types, Columns, ResvRow
  <2> QED
    BY <1>3, <2>1, JobsSame DEF cancel_checkout_reservation, Types, Columns
<1> QED
  BY <1>1, <1>2, <1>3 DEF Reservations

-----------------------------------------------------------------------------
(* Promotions *)

LEMMA PromoIs == /\ NoPromo \in PromoCol /\ NoPromo.state = "absent" /\ NoPromo.uses = 0
                 /\ ~NoPromo.bought /\ NoPromo.max = 1 /\ NoPromo.per = 1
                 /\ NoPromo.peak = 1 /\ NoPromo.most = 1
BY LimitAssumption DEF NoPromo, PromoCol

LEMMA LimitsAre == \A q \in PromoCol : /\ q.max \in Limits /\ q.per \in Limits
                                        /\ q.peak \in Limits /\ q.most \in Limits
                                        /\ q.max \in Int /\ q.per \in Int
                                        /\ q.peak \in Int /\ q.most \in Int
<1>1. \A l \in Limits : l \in Int
  BY LimitAssumption
<1> TAKE q \in PromoCol
<1>2. q.max \in Limits /\ q.per \in Limits /\ q.peak \in Limits /\ q.most \in Limits
  BY DEF PromoCol
<1> QED
  BY <1>1, <1>2

(* A code newly made, whatever its limits: nobody has used it. *)
NewCode(row) == /\ row \in PromoCol /\ row.state = "active" /\ row.uses = 0
                /\ row.max <= row.peak /\ row.per <= row.most

LEMMA IssuedIs == NewCode([NoPromo EXCEPT !.state = "active", !.bought = TRUE])
<1> DEFINE row == [NoPromo EXCEPT !.state = "active", !.bought = TRUE]
<1>1. /\ row \in PromoCol /\ row.state = "active" /\ row.uses = 0
      /\ row.max = 1 /\ row.peak = 1 /\ row.per = 1 /\ row.most = 1
  BY PromoIs DEF PromoCol
<1> HIDE DEF row
<1>2. NewCode(row)
  BY <1>1 DEF NewCode
<1> QED
  BY <1>2 DEF row

LEMMA CreatedIs ==
    ASSUME NEW max \in Limits, NEW per \in Limits, NEW first \in BOOLEAN
    PROVE  LET row == [NoPromo EXCEPT !.state = "active", !.max = max, !.peak = max,
                                      !.per = per, !.most = per, !.first = first]
           IN NewCode(row) /\ ~row.bought
<1> DEFINE row == [NoPromo EXCEPT !.state = "active", !.max = max, !.peak = max,
                                  !.per = per, !.most = per, !.first = first]
<1>1. max \in Int /\ per \in Int
  BY LimitAssumption
<1>2. /\ row \in PromoCol /\ row.state = "active" /\ row.uses = 0 /\ ~row.bought
      /\ row.max = max /\ row.peak = max /\ row.per = per /\ row.most = per
  BY PromoIs DEF PromoCol
<1> HIDE DEF row
<1>3. NewCode(row) /\ ~row.bought
  BY <1>1, <1>2 DEF NewCode
<1> QED
  BY <1>3 DEF row

LEMMA GeneratedIs ==
    ASSUME NEW max \in Limits
    PROVE  LET row == [NoPromo EXCEPT !.state = "active", !.max = max, !.peak = max]
           IN NewCode(row) /\ ~row.bought
<1> DEFINE row == [NoPromo EXCEPT !.state = "active", !.max = max, !.peak = max]
<1>1. max \in Int
  BY LimitAssumption
<1>2. /\ row \in PromoCol /\ row.state = "active" /\ row.uses = 0 /\ ~row.bought
      /\ row.max = max /\ row.peak = max /\ row.per = 1 /\ row.most = 1
  BY PromoIs DEF PromoCol
<1> HIDE DEF row
<1>3. NewCode(row) /\ ~row.bought
  BY <1>1, <1>2 DEF NewCode
<1> QED
  BY <1>3 DEF row

(* A code that is changed keeps its uses; its largest limits only grow. *)
Changed(q, row) ==
    /\ row \in PromoCol /\ row.uses = q.uses /\ row.bought = q.bought
    /\ q.state # "absent" /\ row.state # "absent"
    /\ row.peak >= q.peak /\ row.most >= q.most
    /\ q.max <= q.peak => row.max <= row.peak
    /\ q.per <= q.most => row.per <= row.most

LEMMA UpdatedIs ==
    ASSUME NEW q \in PromoCol, q.state # "absent",
           NEW max \in Limits, NEW per \in Limits, NEW first \in BOOLEAN
    PROVE  Changed(q, [q EXCEPT !.max = max, !.per = per, !.first = first,
                                !.peak = IF max > @ THEN max ELSE @,
                                !.most = IF per > @ THEN per ELSE @])
<1>1. /\ max \in Int /\ per \in Int /\ q.max \in Int /\ q.per \in Int /\ q.peak \in Int
      /\ q.most \in Int /\ q.peak \in Limits /\ q.most \in Limits
  BY LimitsAre, LimitAssumption
<1>2. PICK peak \in Limits : peak = IF max > q.peak THEN max ELSE q.peak
  BY <1>1
<1>3. PICK most \in Limits : most = IF per > q.most THEN per ELSE q.most
  BY <1>1
<1>4. peak \in Int /\ most \in Int /\ peak >= q.peak /\ most >= q.most /\ max <= peak /\ per <= most
  BY <1>1, <1>2, <1>3
<1> DEFINE row == [q EXCEPT !.max = max, !.per = per, !.first = first, !.peak = peak, !.most = most]
<1>5. row \in PromoCol
  BY DEF PromoCol
<1>6. /\ row.uses = q.uses /\ row.bought = q.bought /\ row.state = q.state
      /\ row.peak = peak /\ row.most = most /\ row.max = max /\ row.per = per
  BY DEF PromoCol
<1>7. Changed(q, row)
  <2> HIDE DEF row
  <2> QED
    BY <1>4, <1>5, <1>6 DEF Changed
<1> QED
  BY <1>2, <1>3, <1>7

LEMMA ToggledIs ==
    ASSUME NEW q \in PromoCol, q.state # "absent", NEW active \in BOOLEAN
    PROVE  Changed(q, [q EXCEPT !.state = IF active THEN "active" ELSE "inactive"])
<1>1. /\ q.max \in Int /\ q.per \in Int /\ q.peak \in Int /\ q.most \in Int
  BY LimitsAre
<1>2. PICK state \in {"active", "inactive"} : state = IF active THEN "active" ELSE "inactive"
  OBVIOUS
<1> DEFINE row == [q EXCEPT !.state = state]
<1>3. /\ row \in PromoCol /\ row.uses = q.uses /\ row.bought = q.bought /\ row.state = state
      /\ row.peak = q.peak /\ row.most = q.most /\ row.max = q.max /\ row.per = q.per
  BY DEF PromoCol
<1>4. Changed(q, row)
  <2> HIDE DEF row
  <2> QED
    BY <1>1, <1>2, <1>3 DEF Changed
<1> QED
  BY <1>2, <1>4

LEMMA EndedIs ==
    ASSUME NEW q \in PromoCol, q.state # "absent"
    PROVE  Changed(q, [q EXCEPT !.ended = TRUE])
<1>1. /\ q.max \in Int /\ q.per \in Int /\ q.peak \in Int /\ q.most \in Int
  BY LimitsAre
<1> DEFINE row == [q EXCEPT !.ended = TRUE]
<1>2. /\ row \in PromoCol /\ row.uses = q.uses /\ row.bought = q.bought /\ row.state = q.state
      /\ row.peak = q.peak /\ row.most = q.most /\ row.max = q.max /\ row.per = q.per
  BY DEF PromoCol
<1>3. Changed(q, row)
  <2> HIDE DEF row
  <2> QED
    BY <1>1, <1>2 DEF Changed
<1> QED
  BY <1>3

(* The promotions after a step that changes one of them. *)
LEMMA PromoSet ==
    ASSUME promo \in [Promo -> PromoCol], NEW p \in Promo, NEW row \in PromoCol,
           promo' = [promo EXCEPT ![p] = row]
    PROVE  /\ promo' \in [Promo -> PromoCol] /\ promo'[p] = row
           /\ \A q \in Promo : q # p => promo'[q] = promo[q]
OBVIOUS

(* What an administrator does to a code, and what the clock does. *)
Edits ==
    \E p \in Promo :
        \/ \E max, per \in Limits, first \in BOOLEAN : update_promotion(p, max, per, first)
        \/ \E active \in BOOLEAN : toggle_promotion(p, active)
        \/ delete_promotion(p) \/ cleanup_expired_promotions(p)

Same == UNCHANGED <<points, ledger, earn, order, usage, resv, bought, program, job>>

LEMMA EditsIs ==
    ASSUME Types, Edits
    PROVE  \E p \in Promo, row \in PromoCol :
             /\ Changed(promo[p], row) /\ ~PromoLocked(p)
             /\ promo' = [promo EXCEPT ![p] = row] /\ Same
<1> USE DEF Same
<1>0. promo \in [Promo -> PromoCol]
  BY DEF Types, Columns
<1>1. ASSUME NEW p \in Promo, NEW active \in BOOLEAN, toggle_promotion(p, active)
      PROVE  \E row \in PromoCol :
               /\ Changed(promo[p], row) /\ ~PromoLocked(p)
               /\ promo' = [promo EXCEPT ![p] = row] /\ Same
  <2>1. PICK row : row = [promo[p] EXCEPT !.state = IF active THEN "active" ELSE "inactive"]
    OBVIOUS
  <2>2. Changed(promo[p], row)
    BY <1>0, <1>1, <2>1, ToggledIs DEF toggle_promotion
  <2>3. ~PromoLocked(p) /\ promo' = [promo EXCEPT ![p] = row] /\ Same
    BY <1>1, <2>1 DEF toggle_promotion, Admin
  <2> QED
    BY <2>2, <2>3 DEF Changed
<1>2. ASSUME NEW p \in Promo, delete_promotion(p) \/ cleanup_expired_promotions(p)
      PROVE  toggle_promotion(p, FALSE)
  BY <1>2 DEF delete_promotion, cleanup_expired_promotions
<1>3. ASSUME NEW p \in Promo, NEW max \in Limits, NEW per \in Limits, NEW first \in BOOLEAN,
             update_promotion(p, max, per, first)
      PROVE  \E row \in PromoCol :
               /\ Changed(promo[p], row) /\ ~PromoLocked(p)
               /\ promo' = [promo EXCEPT ![p] = row] /\ Same
  <2>1. PICK row : row = [promo[p] EXCEPT !.max = max, !.per = per, !.first = first,
                                 !.peak = IF max > @ THEN max ELSE @,
                                 !.most = IF per > @ THEN per ELSE @]
    OBVIOUS
  <2>2. Changed(promo[p], row)
    BY <1>0, <1>3, <2>1, UpdatedIs DEF update_promotion
  <2>3. ~PromoLocked(p) /\ promo' = [promo EXCEPT ![p] = row] /\ Same
    BY <1>3, <2>1 DEF update_promotion, Admin
  <2> QED
    BY <2>2, <2>3 DEF Changed
<1> QED
  BY <1>1, <1>2, <1>3 DEF Edits

(* A code that is made where there was none, for nobody's use yet. *)
LEMMA CreateIs ==
    ASSUME Types, NEW p \in Promo, NEW max \in Limits, NEW per \in Limits, NEW first \in BOOLEAN,
           create_promotion(p, max, per, first)
    PROVE  \E row \in PromoCol :
             /\ NewCode(row) /\ ~row.bought
             /\ promo[p].state = "absent" /\ \A s \in Proc : job[s].p # p
             /\ promo' = [promo EXCEPT ![p] = row] /\ Same
<1>1. PICK row : row = [NoPromo EXCEPT !.state = "active", !.max = max, !.peak = max,
                                       !.per = per, !.most = per, !.first = first]
  OBVIOUS
<1>2. NewCode(row) /\ ~row.bought
  BY <1>1, CreatedIs
<1>3. row \in PromoCol
  BY <1>2 DEF NewCode
<1>4. /\ promo[p].state = "absent" /\ \A s \in Proc : job[s].p # p
      /\ promo' = [promo EXCEPT ![p] = row] /\ Same
  BY <1>1 DEF create_promotion, Admin, Same
<1> QED
  BY <1>2, <1>3, <1>4

LEMMA GenerateIs ==
    ASSUME NEW max \in Limits, bulk_generate(max)
    PROVE  \E row \in PromoCol :
             /\ NewCode(row) /\ ~row.bought
             /\ \A p \in Promo : promo[p].state = "absent"
             /\ \A s \in Proc : job[s].p = None
             /\ promo' = [p \in Promo |-> row] /\ Same
<1>1. PICK row : row = [NoPromo EXCEPT !.state = "active", !.max = max, !.peak = max]
  OBVIOUS
<1>2. NewCode(row) /\ ~row.bought
  BY <1>1, GeneratedIs
<1>3. row \in PromoCol
  BY <1>2 DEF NewCode
<1>4. /\ \A p \in Promo : promo[p].state = "absent"
      /\ \A s \in Proc : job[s].p = None
      /\ promo' = [p \in Promo |-> row] /\ Same
  BY <1>1 DEF bulk_generate, Same
<1> QED
  BY <1>2, <1>3, <1>4

LEMMA IssueIs ==
    ASSUME Types, NEW r \in Proc, IssueCode(r)
    PROVE  /\ job[r].op = "code" /\ job[r].p \in Promo /\ Do(r, Idle)
           /\ \E row \in PromoCol : NewCode(row) /\ promo' = [promo EXCEPT ![job[r].p] = row]
           /\ UNCHANGED <<points, ledger, earn, order, usage, resv, bought, program>>
<1>1. PICK row : row = [NoPromo EXCEPT !.state = "active", !.bought = TRUE]
  OBVIOUS
<1>2. NewCode(row)
  BY <1>1, IssuedIs
<1>3. row \in PromoCol
  BY <1>2 DEF NewCode
<1> QED
  BY <1>1, <1>2, <1>3 DEF IssueCode, Types, Jobs, JobOK

LEMMA TypesCodes ==
    ASSUME Types, Codes
    PROVE  Types'
<1>1. ASSUME Edits PROVE Types'
  BY <1>1, EditsIs, PromoSet, JobsSame DEF Types, Columns, Same
<1>2. ASSUME NEW p \in Promo, NEW max \in Limits, NEW per \in Limits, NEW first \in BOOLEAN,
             create_promotion(p, max, per, first)
      PROVE  Types'
  BY <1>2, CreateIs, PromoSet, JobsSame DEF Types, Columns, Same
<1>3. ASSUME NEW max \in Limits, bulk_generate(max) PROVE Types'
  <2>1. promo' \in [Promo -> PromoCol] /\ Same
    BY <1>3, GenerateIs
  <2> QED
    BY <2>1, JobsSame DEF Types, Columns, Same
<1> QED
  BY <1>1, <1>2, <1>3 DEF Codes, Edits

LEMMA TypesIssue ==
    ASSUME Types, NEW r \in Proc, IssueCode(r)
    PROVE  Types'
<1>1. promo' \in [Promo -> PromoCol]
  BY IssueIs, PromoSet DEF Types, Columns
<1>2. Jobs'
  BY IssueIs, IdleIs, JobsStep DEF Types
<1> QED
  BY <1>1, <1>2, IssueIs DEF Types, Columns

-----------------------------------------------------------------------------
(* Handlers that work on an order *)

LEMMA BegunOrder ==
    ASSUME NEW op \in {"usage", "delivered"}, NEW o \in Order
    PROVE  LET j == [Idle EXCEPT !.op = op, !.o = o]
           IN j \in Job /\ JobOK(j) /\ j.op = op /\ j.o = o /\ j.p = None
<1> DEFINE j == [Idle EXCEPT !.op = op, !.o = o]
<1>1. \A i \in Job : [i EXCEPT !.op = op, !.o = o] \in Job
  BY DEF Job
<1>2. j \in Job
  BY <1>1, IdleHas
<1>3. j.op = op /\ j.o = o /\ j.p = None
  BY IdleHas DEF Job
<1> HIDE DEF j
<1>4. JobOK(j)
  BY <1>3 DEF JobOK, OnOrder, Placing
<1> QED
  BY <1>2, <1>3, <1>4 DEF j

CreditJob(j, o, x, n) ==
    /\ j \in Job /\ JobOK(j) /\ j.op = "credit" /\ j.o = o /\ j.seen = x /\ j.n = n
    /\ j.p = None

LEMMA BegunCredit ==
    ASSUME NEW o \in Order, NEW x \in Int, NEW n \in Nat
    PROVE  CreditJob([Idle EXCEPT !.op = "credit", !.o = o, !.seen = x, !.n = n], o, x, n)
<1> DEFINE j == [Idle EXCEPT !.op = "credit", !.o = o, !.seen = x, !.n = n]
<1>0. n \in Int
  OBVIOUS
<1>1. \A i \in Job : [i EXCEPT !.op = "credit", !.o = o, !.seen = x, !.n = n] \in Job
  BY <1>0 DEF Job
<1>2. j \in Job
  BY <1>1, IdleHas
<1>3. j.op = "credit" /\ j.o = o /\ j.seen = x /\ j.n = n /\ j.p = None
  BY IdleHas DEF Job
<1> HIDE DEF j
<1>4. JobOK(j)
  BY <1>3 DEF JobOK, OnOrder, Placing
<1> QED
  BY <1>2, <1>3, <1>4 DEF j, CreditJob

LEMMA BegunCode ==
    ASSUME NEW p \in Promo
    PROVE  LET j == [Idle EXCEPT !.op = "code", !.p = p]
           IN j \in Job /\ JobOK(j) /\ j.op = "code" /\ j.p = p
<1> DEFINE j == [Idle EXCEPT !.op = "code", !.p = p]
<1>1. \A i \in Job : [i EXCEPT !.op = "code", !.p = p] \in Job
  BY DEF Job
<1>2. j \in Job
  BY <1>1, IdleHas
<1>3. j.op = "code" /\ j.p = p
  BY IdleHas DEF Job
<1> HIDE DEF j
<1>4. JobOK(j)
  BY <1>3 DEF JobOK, OnOrder, Placing
<1> QED
  BY <1>2, <1>3, <1>4 DEF j

(* What create_order asks for and remembers. *)
Source == {"customer", "manual", "guest"}

LEMMA CreateOrderIs ==
    ASSUME Types, NEW r \in Proc, NEW o \in Order, NEW src \in Source, NEW k \in Key,
           NEW p \in Promo \cup {None}, NEW n \in {0, Cost}, NEW paid \in BOOLEAN,
           create_order(r, o, src, k, p, n, paid)
    PROVE  \E j \in Job :
             /\ JobOK(j) /\ Do(r, j) /\ j.op = "eligible" /\ j.o = o /\ j.p = p /\ j.n = n
             /\ j.row.src = src
             /\ UNCHANGED <<points, ledger, earn, order, promo, usage, resv, bought, program>>
<1>1. PICK st \in {"pending", "confirmed"} : st = IF paid THEN "confirmed" ELSE "pending"
  OBVIOUS
<1> DEFINE row == [status |-> st, src |-> src, key |-> k, promo |-> p, recent |-> TRUE]
<1>2. row \in OrderRow
  BY DEF OrderRow, Source
<1>3. row.status = st /\ row.src = src /\ row.promo = p
  OBVIOUS
<1> HIDE DEF row
<1> DEFINE j == [Idle EXCEPT !.op = "eligible", !.o = o, !.p = p, !.n = n, !.row = row]
<1>4. n \in Int
  BY PointsAssumption
<1>5. \A i \in Job : [i EXCEPT !.op = "eligible", !.o = o, !.p = p, !.n = n, !.row = row] \in Job
  BY <1>2, <1>4 DEF Job
<1>6. j \in Job
  BY <1>5, IdleHas
<1>7. j.op = "eligible" /\ j.o = o /\ j.p = p /\ j.n = n /\ j.row = row
  BY IdleHas DEF Job
<1>8. p # None => src # "guest"
  BY DEF create_order, HasUser
<1>9. Do(r, j)
  BY <1>1 DEF create_order, row
<1> HIDE DEF j
<1>10. JobOK(j)
  BY <1>3, <1>7, <1>8 DEF JobOK, OnOrder, Placing
<1>11. UNCHANGED <<points, ledger, earn, order, promo, usage, resv, bought, program>>
  BY DEF create_order
<1> QED
  BY <1>3, <1>6, <1>7, <1>9, <1>10, <1>11

LEMMA ApplyIs ==
    ASSUME Types, NEW r \in Proc, apply_promo(r)
    PROVE  \E j \in Job :
             /\ JobOK(j) /\ Do(r, j) /\ j.op = "order" /\ j.o = job[r].o /\ j.p = job[r].p
             /\ j.n = job[r].n /\ j.seen = points /\ j.row = job[r].row
             /\ j.n <= points
             /\ UNCHANGED <<points, ledger, earn, order, promo, usage, resv, bought, program>>
<1>0. points \in Int /\ job[r] \in Job /\ JobOK(job[r]) /\ job[r].op = "eligible"
  BY DEF Types, Columns, Jobs, apply_promo
<1> DEFINE j == [job[r] EXCEPT !.op = "order", !.seen = points]
<1>1. \A i \in Job : [i EXCEPT !.op = "order", !.seen = points] \in Job
  BY <1>0 DEF Job
<1>2. j \in Job
  BY <1>0, <1>1
<1>3. /\ j.op = "order" /\ j.seen = points /\ j.o = job[r].o /\ j.p = job[r].p /\ j.n = job[r].n
      /\ j.row = job[r].row
  BY <1>0 DEF Job
<1>4. Do(r, j) /\ job[r].n <= points
      /\ UNCHANGED <<points, ledger, earn, order, promo, usage, resv, bought, program>>
  BY DEF apply_promo
<1> HIDE DEF j
<1>5. JobOK(j)
  BY <1>0, <1>3 DEF JobOK, OnOrder, Placing
<1> QED
  BY <1>2, <1>3, <1>4, <1>5

(* A field of one row *)
LEMMA UsesPlus ==
    ASSUME promo \in [Promo -> PromoCol], NEW p \in Promo, promo' = [promo EXCEPT ![p].uses = @ + 1]
    PROVE  \E row \in PromoCol :
             /\ row.uses = promo[p].uses + 1
             /\ row.state = promo[p].state /\ row.bought = promo[p].bought
             /\ row.max = promo[p].max /\ row.per = promo[p].per
             /\ row.peak = promo[p].peak /\ row.most = promo[p].most
             /\ promo' = [promo EXCEPT ![p] = row]
<1> DEFINE row == [promo[p] EXCEPT !.uses = @ + 1]
<1>1. \A q \in PromoCol : q.uses + 1 \in Nat
  BY DEF PromoCol
<1>2. \A q \in PromoCol, u \in Nat : [q EXCEPT !.uses = u] \in PromoCol
  BY DEF PromoCol
<1>3. row \in PromoCol
  BY <1>1, <1>2
<1>4. /\ row.uses = promo[p].uses + 1
      /\ row.state = promo[p].state /\ row.bought = promo[p].bought
      /\ row.max = promo[p].max /\ row.per = promo[p].per
      /\ row.peak = promo[p].peak /\ row.most = promo[p].most
  BY DEF PromoCol
<1>5. promo' = [promo EXCEPT ![p] = row]
  OBVIOUS
<1> QED
  BY <1>3, <1>4, <1>5

LEMMA OrderStatusSet ==
    ASSUME order \in [Order -> OrderRow], NEW o \in Order,
           NEW s \in {"confirmed", "ready", "delivered", "cancelled"},
           order' = [order EXCEPT ![o].status = s]
    PROVE  /\ order' \in [Order -> OrderRow] /\ order'[o].status = s
           /\ order'[o].src = order[o].src /\ order'[o].key = order[o].key
           /\ order'[o].promo = order[o].promo
           /\ \A q \in Order : q # o => order'[q] = order[q]
<1>1. \A q \in OrderRow : [q EXCEPT !.status = s] \in OrderRow
  BY DEF OrderRow
<1>2. order' = [order EXCEPT ![o] = [order[o] EXCEPT !.status = s]]
  OBVIOUS
<1>3. order'[o] = [order[o] EXCEPT !.status = s]
  BY <1>2
<1>4. order' \in [Order -> OrderRow]
  BY <1>1, <1>2
<1>5. \A q \in Order : q # o => order'[q] = order[q]
  BY <1>2
<1> QED
  BY <1>3, <1>4, <1>5 DEF OrderRow

LEMMA OrderForgotten ==
    ASSUME order \in [Order -> OrderRow], NEW o \in Order, order' = [order EXCEPT ![o].recent = FALSE]
    PROVE  /\ order' \in [Order -> OrderRow]
           /\ \A q \in Order : /\ order'[q].status = order[q].status /\ order'[q].src = order[q].src
                               /\ order'[q].key = order[q].key /\ order'[q].promo = order[q].promo
<1>1. \A q \in OrderRow : [q EXCEPT !.recent = FALSE] \in OrderRow
  BY DEF OrderRow
<1>2. order' = [order EXCEPT ![o] = [order[o] EXCEPT !.recent = FALSE]]
  OBVIOUS
<1>3. order'[o] = [order[o] EXCEPT !.recent = FALSE]
  BY <1>2
<1>4. order' \in [Order -> OrderRow]
  BY <1>1, <1>2
<1>5. \A q \in Order : q # o => order'[q] = order[q]
  BY <1>2
<1> QED
  BY <1>3, <1>4, <1>5 DEF OrderRow

(* What follows the commit of an order. *)
LEMMA AfterIs ==
    ASSUME NEW j \in Job, JobOK(j), j.op = "order"
    PROVE  \E i \in Job :
             /\ i = Afterwards(j) /\ JobOK(i) /\ i.p = None
             /\ i.op \in {"idle", "usage", "delivered"}
             /\ i.op = "idle" => i = Idle
             /\ i.op # "idle" => i.o = j.o
             /\ i.op = "usage" <=> j.row.src = "customer" /\ j.p # None
             /\ i.op = "delivered" => j.row.src = "manual"
<1>1. j.o \in Order
  BY DEF JobOK, OnOrder, Placing
<1>2. CASE j.row.src = "customer" /\ j.p # None
  <2>1. Afterwards(j) = [Idle EXCEPT !.op = "usage", !.o = j.o]
    BY <1>2 DEF Afterwards
  <2> QED
    BY <1>1, <1>2, <2>1, BegunOrder
<1>3. CASE ~(j.row.src = "customer" /\ j.p # None) /\ j.row.src = "manual" /\ j.row.status = "confirmed"
  <2>1. Afterwards(j) = [Idle EXCEPT !.op = "delivered", !.o = j.o]
    BY <1>3 DEF Afterwards
  <2> QED
    BY <1>1, <1>3, <2>1, BegunOrder
<1>4. CASE ~(j.row.src = "customer" /\ j.p # None)
           /\ ~(j.row.src = "manual" /\ j.row.status = "confirmed")
  <2>1. Afterwards(j) = Idle
    BY <1>4 DEF Afterwards
  <2> QED
    BY <1>4, <2>1, IdleIs, IdleHas
<1> QED
  BY <1>2, <1>3, <1>4

LEMMA OrderCommitIs ==
    ASSUME Types, NEW r \in Proc, OrderCommit(r)
    PROVE  /\ job[r] \in Job /\ JobOK(job[r]) /\ job[r].op = "order" /\ job[r].o \in Order
           /\ job[r].row \in OrderRow /\ Unique(job[r].row)
           /\ order' = [order EXCEPT ![job[r].o] = job[r].row]
           /\ Do(r, Afterwards(job[r]))
           /\ job[r].p = None => promo' = promo
           /\ job[r].p # None => /\ job[r].p \in Promo
                                 /\ promo' = [promo EXCEPT ![job[r].p].uses = @ + 1]
           /\ job[r].n > 0 => Write(job[r], -job[r].n)
           /\ ~(job[r].n > 0) => UNCHANGED <<points, ledger>>
           /\ UNCHANGED <<earn, usage, resv, bought, program>>
<1>1. job[r] \in Job /\ JobOK(job[r]) /\ job[r].op = "order"
  BY DEF OrderCommit, Types, Jobs
<1>2. job[r].o \in Order
  BY <1>1 DEF JobOK, OnOrder, Placing
<1>3. job[r].row \in OrderRow /\ job[r].p \in Promo \cup {None}
  BY <1>1 DEF Job
<1> QED
  BY <1>1, <1>2, <1>3 DEF OrderCommit

LEMMA TypesOrders ==
    ASSUME Types, NEW r \in Proc, Orders(r)
    PROVE  Types'
<1>1. ASSUME NEW o \in Order, NEW src \in Source, NEW k \in Key,
             NEW p \in Promo \cup {None}, NEW n \in {0, Cost}, NEW paid \in BOOLEAN,
             create_order(r, o, src, k, p, n, paid)
      PROVE  Types'
  BY <1>1, CreateOrderIs, JobsStep DEF Types, Columns
<1>2. ASSUME apply_promo(r) PROVE Types'
  BY <1>2, ApplyIs, JobsStep DEF Types, Columns
<1>3. ASSUME OrderCommit(r) PROVE Types'
  <2>1. order' \in [Order -> OrderRow]
    BY <1>3, OrderCommitIs DEF Types, Columns
  <2>2. promo' \in [Promo -> PromoCol]
    <3>0. promo \in [Promo -> PromoCol]
      BY DEF Types, Columns
    <3>1. CASE job[r].p = None
      BY <1>3, <3>0, <3>1, OrderCommitIs
    <3>2. CASE job[r].p # None
      <4>1. job[r].p \in Promo /\ promo' = [promo EXCEPT ![job[r].p].uses = @ + 1]
        BY <1>3, <3>2, OrderCommitIs
      <4>2. PICK row \in PromoCol : promo' = [promo EXCEPT ![job[r].p] = row]
        BY <3>0, <4>1, UsesPlus
      <4> QED
        BY <3>0, <4>1, <4>2, PromoSet
    <3> QED
      BY <3>1, <3>2
  <2>3. Jobs'
    <3>1. PICK i \in Job : i = Afterwards(job[r]) /\ JobOK(i)
      BY <1>3, OrderCommitIs, AfterIs
    <3> QED
      BY <1>3, <3>1, OrderCommitIs, JobsStep DEF Types
  <2>4. job[r].n \in Int /\ job[r].seen \in Int
    BY <1>3, OrderCommitIs DEF Job
  <2>5. points' \in Int /\ ledger' \in Int
    <3>1. CASE job[r].n > 0
      <4>1. Write(job[r], -job[r].n)
        BY <1>3, <3>1, OrderCommitIs
      <4> QED
        BY <2>4, <4>1 DEF Write, Types, Columns
    <3>2. CASE ~(job[r].n > 0)
      BY <1>3, <3>2, OrderCommitIs DEF Types, Columns
    <3> QED
      BY <3>1, <3>2
  <2> QED
    BY <1>3, <2>1, <2>2, <2>3, <2>5, OrderCommitIs DEF Types, Columns
<1>4. ASSUME Refuse(r) PROVE Types'
  BY <1>4, TypesEnds DEF Ends
<1>5. ASSUME record_promo_usage(r) PROVE Types'
  <2>1. job[r].o \in Order
    BY <1>5 DEF record_promo_usage, Types, Jobs, JobOK, OnOrder
  <2>2. Jobs'
    BY <1>5, IdleIs, JobsStep DEF record_promo_usage, Types
  <2> QED
    BY <1>5, <2>1, <2>2 DEF record_promo_usage, Types, Columns
<1>6. ASSUME NEW o \in Order, NEW s \in {"confirmed", "ready", "delivered", "cancelled"},
             update_status(r, o, s)
      PROVE  Types'
  <2>1. order' \in [Order -> OrderRow]
    BY <1>6, OrderStatusSet DEF update_status, Types, Columns
  <2>2. Jobs'
    BY <1>6, BegunOrder, JobsStep, JobsSame DEF update_status, Types
  <2> QED
    BY <1>6, <2>1, <2>2 DEF update_status, Types, Columns
<1>7. ASSUME credit_points_for_order(r) PROVE Types'
  <2>1. job[r].o \in Order /\ compute_points_for_order \in Nat /\ points \in Int
    BY <1>7, CreditIsNat DEF credit_points_for_order, Types, Jobs, Columns, JobOK, OnOrder
  <2>2. PICK j \in Job : JobOK(j) /\ Do(r, j)
    <3>1. \/ Do(r, Idle)
          \/ Do(r, [Idle EXCEPT !.op = "credit", !.o = job[r].o, !.seen = points,
                                !.n = compute_points_for_order])
      BY <1>7 DEF credit_points_for_order
    <3> QED
      BY <2>1, <3>1, BegunCredit, IdleIs DEF CreditJob
  <2>3. Jobs'
    BY <2>2, JobsStep DEF Types
  <2> QED
    BY <1>7, <2>3 DEF credit_points_for_order, Types, Columns
<1>8. ASSUME CreditCommit(r) PROVE Types'
  <2>1. job[r].o \in Order /\ job[r].n \in Nat /\ job[r].seen \in Int
    BY <1>8 DEF CreditCommit, Types, Jobs, Job, JobOK, OnOrder
  <2>2. Jobs'
    BY <1>8, IdleIs, JobsStep DEF CreditCommit, Types
  <2>3. earn' \in [Order -> EarnCol]
    BY <1>8, <2>1 DEF CreditCommit, Types, Columns, EarnCol
  <2> QED
    BY <1>8, <2>1, <2>2, <2>3 DEF CreditCommit, Write, Types, Columns
<1> QED
  BY <1>1, <1>2, <1>3, <1>4, <1>5, <1>6, <1>7, <1>8 DEF Orders, Source

LEMMA TypesTime ==
    ASSUME Types, Time
    PROVE  Types'
<1>0. Jobs'
  BY JobsSame DEF Time, Types
<1>1. ASSUME NEW v \in Resv, ReservationLapses(v) PROVE Types'
  BY <1>0, <1>1 DEF Time, ReservationLapses, Types, Columns, ResvRow
<1>2. ASSUME NEW p \in Promo, PromotionEnds(p) PROVE Types'
  <2>1. [promo[p] EXCEPT !.ended = TRUE] \in PromoCol
    BY DEF Types, Columns, PromoCol
  <2>2. promo' \in [Promo -> PromoCol]
    BY <1>2, <2>1 DEF PromotionEnds, Types, Columns
  <2> QED
    BY <1>0, <1>2, <2>2 DEF Time, PromotionEnds, Types, Columns
<1>3. ASSUME NEW o \in Order, EarningAges(o) PROVE Types'
  BY <1>0, <1>3 DEF Time, EarningAges, Types, Columns, EarnCol
<1>4. ASSUME NEW o \in Order, KeyForgotten(o) PROVE Types'
  <2>1. order' \in [Order -> OrderRow]
    BY <1>4, OrderForgotten DEF KeyForgotten, Types, Columns
  <2> QED
    BY <1>0, <1>4, <2>1 DEF Time, KeyForgotten, Types, Columns
<1> QED
  BY <1>1, <1>2, <1>3, <1>4 DEF Time

LEMMA TypesProgramme ==
    ASSUME Types, Programme
    PROVE  Types'
<1>1. ASSUME NEW active \in BOOLEAN, update_config(active) PROVE Types'
  BY <1>1, JobsSame DEF update_config, Types, Columns, Program
<1>2. ASSUME NEW kind \in {"code", "product", "inactive"}, update_reward(kind) PROVE Types'
  BY <1>2, JobsSame DEF update_reward, Types, Columns, Program
<1> QED
  BY <1>1, <1>2 DEF Programme

LEMMA TypesReward ==
    ASSUME Types, NEW r \in Proc, NEW p \in Promo, redeem_reward(r, p)
    PROVE  Types'
<1>1. Jobs'
  BY BegunCode, JobsStep, JobsSame DEF redeem_reward, Types
<1>2. points' \in Int /\ ledger' \in Int /\ bought' \in Nat
  BY PointsAssumption DEF redeem_reward, Debit, Types, Columns
<1> QED
  BY <1>1, <1>2 DEF redeem_reward, Types, Columns

(* Every step is one of these. *)
LEMMA Steps ==
    Next => /\ entry' = entry
            /\ \/ \E r \in Proc :
                    \/ Begins(r) \/ Ends(r) \/ Balances(r) \/ Reservations(r) \/ Orders(r)
                    \/ IssueCode(r) \/ CreditCommit(r)
                    \/ \E p \in Promo : redeem_reward(r, p)
               \/ Codes \/ Programme \/ Time
BY DEF Next, Points, Worker, Begins, Ends, Balances, Reservations

LEMMA TypesStep == Types /\ [Next]_vars => Types'
<1>1. ASSUME Types, Next PROVE Types'
  BY <1>1, Steps, TypesBegins, TypesEnds, TypesBalances, TypesReservations, TypesOrders,
     TypesIssue, TypesReward, TypesCodes, TypesProgramme, TypesTime DEF Orders
<1>2. ASSUME Types, UNCHANGED vars PROVE Types'
  BY <1>2, JobsSame DEF vars, Types, Columns
<1> QED
  BY <1>1, <1>2

LEMMA TypesInit == Init => Types
<1> SUFFICES ASSUME Init PROVE Types
  OBVIOUS
<1>1. Jobs
  BY IdleIs DEF Init, Jobs
<1>2. order \in [Order -> OrderRow] /\ promo \in [Promo -> PromoCol]
  BY IdleIs, PromoIs DEF Init
<1>3. /\ earn \in [Order -> EarnCol] /\ resv \in [Resv -> ResvRow] /\ program \in Program
  BY PointsAssumption DEF Init, EarnCol, ResvRow, Program
<1>4. points \in Int /\ ledger \in Int /\ bought \in Nat /\ usage \subseteq Order
  BY PointsAssumption DEF Init
<1> QED
  BY <1>1, <1>2, <1>3, <1>4 DEF Types, Columns

-----------------------------------------------------------------------------
(***************************************************************************)
(* Orders.  An order that is being placed does not exist yet, and is one   *)
(* handler's; what follows it finds it there.                              *)
(***************************************************************************)
Owns(r, o) == job[r].op \in Placing /\ job[r].o = o

Owned ==
    /\ \A o \in Order : order[o].status = "absent" =>
                          order[o].promo = None /\ order[o].src = "guest"
    /\ \A r \in Proc, o \in Order : Owns(r, o) => /\ order[o].status = "absent"
                                                  /\ \A s \in Proc : Owns(s, o) => r = s
    /\ \A r \in Proc : job[r].op \in OnOrder \ Placing => order[job[r].o].status # "absent"

(* The orders keep what their keys, codes and customers are. *)
Kept ==
    \A o \in Order : /\ order'[o].status = "absent" <=> order[o].status = "absent"
                     /\ order'[o].src = order[o].src /\ order'[o].key = order[o].key
                     /\ order'[o].promo = order[o].promo

(* A step that is about no order leaves the handlers as they are, or one   *)
(* of them without an order.                                               *)
Aside == \/ job' = job
         \/ \E r \in Proc : \E j : Do(r, j) /\ j.op \notin OnOrder

Asides(r) ==
    \/ Begins(r) \/ Ends(r) \/ Balances(r) \/ Reservations(r) \/ IssueCode(r)
    \/ record_promo_usage(r) \/ CreditCommit(r) \/ \E p \in Promo : redeem_reward(r, p)

LEMMA AsideIs ==
    ASSUME Types, (\E r \in Proc : Asides(r)) \/ Codes \/ Programme
    PROVE  order' = order /\ Aside
<1>0. "idle" \notin OnOrder /\ "add" \notin OnOrder /\ "expire" \notin OnOrder /\ "reserve" \notin OnOrder
      /\ "notice" \notin OnOrder /\ "code" \notin OnOrder
  BY DEF OnOrder, Placing
<1>1. ASSUME NEW r \in Proc, Begins(r) PROVE order' = order /\ Aside
  BY <1>0, <1>1, BeginsIs DEF Aside
<1>2. ASSUME NEW r \in Proc, Ends(r) PROVE order' = order /\ Aside
  BY <1>0, <1>2, IdleIs DEF Ends, Refuse, Die, NoticeCommit, Aside
<1>3. ASSUME NEW r \in Proc, Balances(r) PROVE order' = order /\ Aside
  BY <1>0, <1>3, IdleIs DEF Balances, AddCommit, ExpireCommit, redeem_points, Aside
<1>4. ASSUME NEW r \in Proc, Reservations(r) PROVE order' = order /\ Aside
  BY <1>0, <1>4, IdleIs DEF Reservations, ReserveCommit, confirm_checkout_reservation,
                            cancel_checkout_reservation, Aside
<1>5. ASSUME NEW r \in Proc, IssueCode(r) \/ record_promo_usage(r) \/ CreditCommit(r)
      PROVE  order' = order /\ Aside
  BY <1>0, <1>5, IdleIs DEF IssueCode, record_promo_usage, CreditCommit, Aside
<1>6. ASSUME NEW r \in Proc, NEW p \in Promo, redeem_reward(r, p) PROVE order' = order /\ Aside
  <2>1. job' = job \/ Do(r, [Idle EXCEPT !.op = "code", !.p = p])
    BY <1>6 DEF redeem_reward
  <2>2. job' = job \/ \E j : Do(r, j) /\ j.op = "code"
    BY <2>1, BegunCode
  <2> QED
    BY <1>0, <1>6, <2>2 DEF redeem_reward, Aside
<1>7. ASSUME Codes PROVE order' = order /\ Aside
  BY <1>7 DEF Codes, create_promotion, update_promotion, toggle_promotion, delete_promotion,
              cleanup_expired_promotions, bulk_generate, Admin, Aside
<1>8. ASSUME Programme PROVE order' = order /\ Aside
  BY <1>8 DEF Programme, update_config, update_reward, Aside
<1> QED
  BY <1>1, <1>2, <1>3, <1>4, <1>5, <1>6, <1>7, <1>8 DEF Asides

LEMMA TimeIs == Types /\ Time => Kept /\ job' = job /\ \A o \in Order : order'[o].status = order[o].status
<1> SUFFICES ASSUME Types, Time
             PROVE  Kept /\ job' = job /\ \A o \in Order : order'[o].status = order[o].status
  OBVIOUS
<1>1. job' = job
  BY DEF Time
<1>2. order' = order \/ \E o \in Order : KeyForgotten(o)
  BY DEF Time, ReservationLapses, PromotionEnds, EarningAges
<1>3. order' = order \/ \E o \in Order : order' = [order EXCEPT ![o].recent = FALSE]
  BY <1>2 DEF KeyForgotten
<1> QED
  BY <1>1, <1>3, OrderForgotten DEF Kept, Types, Columns

(* What is left of the steps: those of a handler about an order. *)
OrderSteps(r) ==
    \/ \E o \in Order, src \in Source, k \in Key,
          p \in Promo \cup {None}, n \in {0, Cost}, paid \in BOOLEAN :
         create_order(r, o, src, k, p, n, paid)
    \/ apply_promo(r) \/ OrderCommit(r) \/ credit_points_for_order(r)
    \/ \E o \in Order, s \in {"confirmed", "ready", "delivered", "cancelled"} :
         update_status(r, o, s)

LEMMA StepsOfOrders ==
    Next => \/ \E r \in Proc : Asides(r) \/ OrderSteps(r)
            \/ Codes \/ Programme \/ Time
BY Steps DEF Asides, OrderSteps, Orders, Source, Ends

LEMMA UpdateIs ==
    ASSUME Types, NEW r \in Proc, NEW o \in Order,
           NEW s \in {"confirmed", "ready", "delivered", "cancelled"}, update_status(r, o, s)
    PROVE  /\ Kept /\ order[o].status \notin {"absent", "delivered"} /\ order'[o].status = s
           /\ \A q \in Order : q # o => order'[q].status = order[q].status
           /\ \/ job' = job
              \/ /\ job[r] = Idle /\ s = "delivered" /\ HasUser(order[o].src)
                 /\ \E j \in Job : Do(r, j) /\ JobOK(j) /\ j.op = "delivered" /\ j.o = o /\ j.p = None
<1>0. order \in [Order -> OrderRow] /\ order' = [order EXCEPT ![o].status = s]
  BY DEF update_status, Types, Columns
<1>1. order[o].status \notin {"absent", "delivered"}
  BY DEF update_status
<1>2. Kept /\ order'[o].status = s /\ \A q \in Order : q # o => order'[q].status = order[q].status
  BY <1>0, <1>1, OrderStatusSet DEF Kept
<1>3. \/ job' = job
      \/ /\ job[r] = Idle /\ s = "delivered" /\ HasUser(order[o].src)
         /\ Do(r, [Idle EXCEPT !.op = "delivered", !.o = o])
  BY DEF update_status, Free
<1> QED
  BY <1>1, <1>2, <1>3, BegunOrder

LEMMA CreditIs ==
    ASSUME Types, NEW r \in Proc, credit_points_for_order(r)
    PROVE  /\ order' = order /\ job[r].op = "delivered" /\ job[r].o \in Order
           /\ \E j \in Job :
                /\ Do(r, j) /\ JobOK(j)
                /\ \/ j = Idle
                   \/ /\ j.op = "credit" /\ j.o = job[r].o /\ j.seen = points /\ j.p = None
                      /\ ~AlreadyCredited(job[r].o)
           /\ UNCHANGED <<points, ledger, earn, order, promo, usage, resv, bought, program>>
<1>1. job[r].o \in Order /\ compute_points_for_order \in Nat /\ points \in Int
  BY CreditIsNat DEF credit_points_for_order, Types, Jobs, Columns, JobOK, OnOrder
<1>2. \/ Do(r, Idle)
      \/ /\ ~AlreadyCredited(job[r].o)
         /\ Do(r, [Idle EXCEPT !.op = "credit", !.o = job[r].o, !.seen = points,
                               !.n = compute_points_for_order])
  BY DEF credit_points_for_order
<1>3. /\ job[r].op = "delivered"
      /\ UNCHANGED <<points, ledger, earn, order, promo, usage, resv, bought, program>>
  BY DEF credit_points_for_order
<1>4. CASE Do(r, Idle)
  BY <1>1, <1>3, <1>4, IdleIs
<1>5. CASE /\ ~AlreadyCredited(job[r].o)
           /\ Do(r, [Idle EXCEPT !.op = "credit", !.o = job[r].o, !.seen = points,
                                 !.n = compute_points_for_order])
  <2>1. PICK j : Do(r, j) /\ CreditJob(j, job[r].o, points, compute_points_for_order)
    BY <1>1, <1>5, BegunCredit
  <2> QED
    BY <1>1, <1>3, <1>5, <2>1 DEF CreditJob
<1> QED
  BY <1>2, <1>4, <1>5

LEMMA OwnedAside ==
    ASSUME Types, Owned, order' = order, Aside
    PROVE  Owned'
<1>1. CASE job' = job
  BY <1>1 DEF Owned, Owns
<1>2. ASSUME NEW r \in Proc, NEW j, Do(r, j), j.op \notin OnOrder PROVE Owned'
  <2>1. job'[r] = j /\ \A s \in Proc : s # r => job'[s] = job[s]
    BY <1>2, DoIs DEF Types, Jobs
  <2>2. j.op \notin Placing
    BY <1>2 DEF OnOrder
  <2>3. \A s \in Proc, o \in Order : Owns(s, o)' => Owns(s, o)
    BY <2>1, <2>2 DEF Owns
  <2> QED
    BY <1>2, <2>1, <2>3 DEF Owned
<1> QED
  BY <1>1, <1>2 DEF Aside

LEMMA OwnedKept ==
    ASSUME Types, Owned, Kept, job' = job
    PROVE  Owned'
<1>1. \A r \in Proc : job[r].op \in OnOrder => job[r].o \in Order
  BY DEF Types, Jobs, JobOK
<1> QED
  BY <1>1 DEF Owned, Kept, Owns

(* A handler that is not placing an order turns to an order that exists. *)
LEMMA OwnedTurns ==
    ASSUME Types, Owned, Kept, NEW r \in Proc, NEW j, Do(r, j), j.op \notin Placing,
           j.op \in OnOrder => j.o \in Order /\ order[j.o].status # "absent"
    PROVE  Owned'
<1>1. job'[r] = j /\ \A s \in Proc : s # r => job'[s] = job[s]
  BY DoIs DEF Types, Jobs
<1>2. \A s \in Proc : job[s].op \in OnOrder => job[s].o \in Order
  BY DEF Types, Jobs, JobOK
<1>3. \A s \in Proc, o \in Order : Owns(s, o)' => Owns(s, o)
  BY <1>1 DEF Owns
<1>4. \A s \in Proc : job'[s].op \in OnOrder \ Placing =>
                        job'[s].o \in Order /\ order[job'[s].o].status # "absent"
  BY <1>1, <1>2 DEF Owned
<1> QED
  BY <1>3, <1>4 DEF Owned, Kept

LEMMA OwnedStep == Types /\ Owned /\ [Next]_vars => Owned'
<1> SUFFICES ASSUME Types, Owned, [Next]_vars PROVE Owned'
  OBVIOUS
<1>0. "eligible" \in Placing /\ "order" \in Placing /\ "eligible" \in OnOrder /\ "order" \in OnOrder
      /\ {"usage", "delivered", "credit"} = OnOrder \ Placing /\ "idle" \notin OnOrder
      /\ "idle" \notin Placing /\ "usage" \notin Placing /\ "delivered" \notin Placing
      /\ "credit" \notin Placing
  BY DEF OnOrder, Placing
<1>1. ASSUME (\E r \in Proc : Asides(r)) \/ Codes \/ Programme PROVE Owned'
  BY <1>1, AsideIs, OwnedAside
<1>2. ASSUME Time PROVE Owned'
  BY <1>2, TimeIs, OwnedKept
<1>3. ASSUME NEW r \in Proc, NEW o \in Order, NEW src \in Source, NEW k \in Key,
             NEW p \in Promo \cup {None}, NEW n \in {0, Cost}, NEW paid \in BOOLEAN,
             create_order(r, o, src, k, p, n, paid)
      PROVE  Owned'
  <2>1. PICK j \in Job : Do(r, j) /\ j.op = "eligible" /\ j.o = o /\ order' = order
    BY <1>3, CreateOrderIs
  <2>2. order[o].status = "absent" /\ \A s \in Proc : job[s].o # o
    BY <1>3 DEF create_order
  <2>3. job'[r] = j /\ \A s \in Proc : s # r => job'[s] = job[s]
    BY <2>1, DoIs DEF Types, Jobs
  <2>4. \A s \in Proc, q \in Order : Owns(s, q)' <=> (s = r /\ q = o) \/ (s # r /\ Owns(s, q))
    BY <1>0, <2>1, <2>3 DEF Owns
  <2>5. \A s \in Proc : ~Owns(s, o)
    BY <2>2 DEF Owns
  <2>6. \A s \in Proc : job'[s].op \in OnOrder \ Placing => order[job'[s].o].status # "absent"
    BY <1>0, <2>1, <2>3 DEF Owned
  <2> QED
    BY <2>1, <2>2, <2>4, <2>5, <2>6 DEF Owned
<1>4. ASSUME NEW r \in Proc, apply_promo(r) PROVE Owned'
  <2>1. PICK j \in Job : Do(r, j) /\ j.op = "order" /\ j.o = job[r].o /\ order' = order
    BY <1>4, ApplyIs
  <2>2. job[r].op = "eligible"
    BY <1>4 DEF apply_promo
  <2>3. job'[r] = j /\ \A s \in Proc : s # r => job'[s] = job[s]
    BY <2>1, DoIs DEF Types, Jobs
  <2>4. \A s \in Proc, q \in Order : Owns(s, q)' <=> Owns(s, q)
    BY <1>0, <2>1, <2>2, <2>3 DEF Owns
  <2>5. \A s \in Proc : job'[s].op \in OnOrder \ Placing => order[job'[s].o].status # "absent"
    BY <1>0, <2>1, <2>3 DEF Owned
  <2> QED
    BY <2>1, <2>4, <2>5 DEF Owned
<1>5. ASSUME NEW r \in Proc, OrderCommit(r) PROVE Owned'
  <2>0. PICK o \in Order : o = job[r].o
    BY <1>5, OrderCommitIs
  <2>1. /\ job[r].op = "order" /\ order' = [order EXCEPT ![o] = job[r].row]
        /\ job[r].row.status # "absent"
    BY <1>0, <1>5, <2>0, OrderCommitIs DEF JobOK
  <2>2. PICK i \in Job : /\ Do(r, i) /\ i.op \notin Placing
                         /\ i.op # "idle" => i.o = o
    <3>1. job[r] \in Job /\ JobOK(job[r]) /\ job[r].op = "order" /\ Do(r, Afterwards(job[r]))
      BY <1>5, OrderCommitIs
    <3>2. PICK i \in Job : /\ i = Afterwards(job[r]) /\ i.op \in {"idle", "usage", "delivered"}
                           /\ i.op # "idle" => i.o = job[r].o
      BY <3>1, AfterIs
    <3> QED
      BY <1>0, <2>0, <3>1, <3>2
  <2>3. job'[r] = i /\ \A s \in Proc : s # r => job'[s] = job[s]
    BY <2>2, DoIs DEF Types, Jobs
  <2>4. order'[o] = job[r].row /\ \A q \in Order : q # o => order'[q] = order[q]
    BY <2>1 DEF Types, Columns
  <2>5. Owns(r, o)
    BY <1>0, <2>0, <2>1 DEF Owns
  <2>6. \A s \in Proc, q \in Order : Owns(s, q)' => q # o /\ Owns(s, q)
    BY <2>2, <2>3, <2>5 DEF Owned, Owns
  <2>7. \A s \in Proc : job'[s].op \in OnOrder \ Placing => order'[job'[s].o].status # "absent"
    <3>1. \A s \in Proc : job[s].op \in OnOrder => job[s].o \in Order
      BY DEF Types, Jobs, JobOK
    <3>2. \A q \in Order : order[q].status # "absent" => order'[q].status # "absent"
      BY <2>1, <2>4
    <3>3. order'[o].status # "absent"
      BY <2>1, <2>4
    <3> QED
      BY <1>0, <2>2, <2>3, <3>1, <3>2, <3>3 DEF Owned
  <2> QED
    BY <2>1, <2>4, <2>6, <2>7 DEF Owned
<1>6. ASSUME NEW r \in Proc, credit_points_for_order(r) PROVE Owned'
  <2>1. PICK j \in Job : /\ Do(r, j) /\ order' = order /\ job[r].op = "delivered"
                         /\ j.op = "idle" \/ (j.op = "credit" /\ j.o = job[r].o)
    BY <1>6, CreditIs, IdleIs
  <2>2. job[r].o \in Order /\ order[job[r].o].status # "absent"
    BY <1>0, <2>1 DEF Owned, Types, Jobs, JobOK
  <2>3. Kept
    BY <2>1 DEF Kept
  <2>4. j.op \notin Placing /\ (j.op \in OnOrder => j.o = job[r].o)
    BY <1>0, <2>1
  <2> QED
    BY <2>1, <2>2, <2>3, <2>4, OwnedTurns
<1>7. ASSUME NEW r \in Proc, NEW o \in Order,
             NEW s \in {"confirmed", "ready", "delivered", "cancelled"}, update_status(r, o, s)
      PROVE  Owned'
  <2>1. Kept /\ order[o].status # "absent"
    BY <1>7, UpdateIs
  <2>2. CASE job' = job
    BY <2>1, <2>2, OwnedKept
  <2>3. CASE job' # job
    <3>1. PICK j \in Job : Do(r, j) /\ j.op = "delivered" /\ j.o = o
      BY <1>7, <2>3, UpdateIs
    <3>2. j.op \notin Placing
      BY <1>0, <3>1
    <3> QED
      BY <2>1, <3>1, <3>2, OwnedTurns
  <2> QED
    BY <2>2, <2>3
<1>8. ASSUME UNCHANGED vars PROVE Owned'
  BY <1>8 DEF vars, Owned, Owns
<1> QED
  BY <1>1, <1>2, <1>3, <1>4, <1>5, <1>6, <1>7, <1>8, StepsOfOrders DEF OrderSteps

LEMMA OwnedInit == Init => Owned
BY IdleIs, NoneAssumption DEF Init, Owned, Owns, NoOrder, OnOrder, Placing

-----------------------------------------------------------------------------
(* One order per key *)

LEMMA KeptOrCommit ==
    ASSUME Types, [Next]_vars
    PROVE  Kept \/ \E r \in Proc : OrderCommit(r)
<1>1. order' = order => Kept
  BY DEF Kept
<1>2. ASSUME (\E r \in Proc : Asides(r)) \/ Codes \/ Programme PROVE Kept
  BY <1>1, <1>2, AsideIs
<1>3. ASSUME NEW r \in Proc, OrderSteps(r) PROVE Kept \/ OrderCommit(r)
  <2>1. ASSUME NEW o \in Order, NEW s \in {"confirmed", "ready", "delivered", "cancelled"},
               update_status(r, o, s)
        PROVE  Kept
    BY <2>1, UpdateIs
  <2>2. ASSUME NEW o \in Order, NEW src \in Source, NEW k \in Key,
               NEW p \in Promo \cup {None}, NEW n \in {0, Cost}, NEW paid \in BOOLEAN,
               create_order(r, o, src, k, p, n, paid)
        PROVE  Kept
    BY <1>1, <2>2 DEF create_order
  <2>3. apply_promo(r) \/ credit_points_for_order(r) => Kept
    BY <1>1 DEF apply_promo, credit_points_for_order
  <2> QED
    BY <1>3, <2>1, <2>2, <2>3 DEF OrderSteps
<1>4. Time => Kept
  BY TimeIs
<1>5. UNCHANGED vars => Kept
  BY <1>1 DEF vars
<1> QED
  BY <1>2, <1>3, <1>4, <1>5, StepsOfOrders

(* The commit of an order: it did not exist, and it is what its handler    *)
(* was to insert.                                                          *)
Inserts(r, o) ==
    /\ Owns(r, o) /\ order[o].status = "absent"
    /\ order[o].promo = None /\ order[o].src = "guest"
    /\ order'[o] = job[r].row /\ job[r].row.status \in {"pending", "confirmed"}
    /\ job[r].row.promo = job[r].p /\ (job[r].row.src = "guest" => job[r].p = None)
    /\ \A q \in Order : q # o => order'[q] = order[q]

LEMMA CommitInserts ==
    ASSUME Types, Owned, NEW r \in Proc, OrderCommit(r)
    PROVE  job[r].o \in Order /\ Inserts(r, job[r].o)
<1>1. /\ job[r].o \in Order /\ order' = [order EXCEPT ![job[r].o] = job[r].row]
      /\ job[r].op = "order" /\ JobOK(job[r])
  BY OrderCommitIs
<1>2. job[r].op \in Placing
  BY <1>1 DEF Placing
<1>3. /\ order'[job[r].o] = job[r].row
      /\ \A q \in Order : q # job[r].o => order'[q] = order[q]
  BY <1>1 DEF Types, Columns
<1>4. Owns(r, job[r].o)
  BY <1>2 DEF Owns
<1>5. /\ order[job[r].o].status = "absent" /\ order[job[r].o].promo = None
      /\ order[job[r].o].src = "guest"
  BY <1>1, <1>4 DEF Owned
<1> QED
  BY <1>1, <1>2, <1>3, <1>4, <1>5 DEF Inserts, JobOK

LEMMA KeyStep == Types /\ Owned /\ OneOrderPerKey /\ [Next]_vars => OneOrderPerKey'
<1> SUFFICES ASSUME Types, Owned, OneOrderPerKey, [Next]_vars PROVE OneOrderPerKey'
  OBVIOUS
<1>1. CASE Kept
  BY <1>1 DEF Kept, OneOrderPerKey, HasUser
<1>2. ASSUME NEW r \in Proc, OrderCommit(r) PROVE OneOrderPerKey'
  <2>1. PICK o \in Order : Inserts(r, o) /\ Unique(job[r].row)
    BY <1>2, CommitInserts, OrderCommitIs
  <2>2. \A q \in Order : q # o => order'[q] = order[q]
    BY <2>1 DEF Inserts
  <2>3. ASSUME NEW q \in Order, q # o, order[q].status # "absent", HasUser(order[q].src),
               HasUser(order'[o].src)
        PROVE  order[q].key # order'[o].key
    BY <2>1, <2>3 DEF Inserts, Unique
  <2> QED
    BY <2>2, <2>3 DEF OneOrderPerKey, HasUser
<1> QED
  BY <1>1, <1>2, KeptOrCommit

-----------------------------------------------------------------------------
(* Handlers that do not overlap *)

Single == Serial => \A r, s \in Proc : job[r] # Idle /\ job[s] # Idle => r = s

(* A handler begins when it is free, or goes on. *)
Turn == \/ job' = job
        \/ \E r \in Proc : \E j : Do(r, j) /\ (Free(r) \/ job[r] # Idle)

LEMMA TurnIs == Next => Turn
<1> SUFFICES ASSUME Next PROVE Turn
  OBVIOUS
<1>0. \A r \in Proc : job[r].op # "idle" => job[r] # Idle
  BY IdleIs
<1>1. ASSUME NEW r \in Proc, Points(r) \/ Worker(r) \/ Die(r) PROVE Turn
  BY <1>0, <1>1 DEF Points, Worker, Die, add_points, redeem_points, AddCommit, IssueCode, redeem_reward,
     confirm_checkout_reservation, cancel_checkout_reservation, create_checkout_reservation,
     ReserveCommit, check_and_expire_points, ExpireCommit, notify_expiring_points, NoticeCommit, Turn
<1>2. ASSUME NEW r \in Proc, Orders(r) PROVE Turn
  <2>1. ASSUME NEW o \in Order, NEW src \in Source, NEW k \in Key,
               NEW p \in Promo \cup {None}, NEW n \in {0, Cost}, NEW paid \in BOOLEAN,
               create_order(r, o, src, k, p, n, paid)
        PROVE  Turn
    BY <2>1 DEF create_order, Turn
  <2>2. ASSUME NEW o \in Order, NEW s \in {"confirmed", "ready", "delivered", "cancelled"},
               update_status(r, o, s)
        PROVE  Turn
    BY <2>2 DEF update_status, Turn
  <2>3. apply_promo(r) \/ Refuse(r) => Turn
    BY <1>0 DEF apply_promo, Refuse, Turn
  <2>4. OrderCommit(r) => Turn
    BY <1>0 DEF OrderCommit, Turn
  <2>5. credit_points_for_order(r) => Turn
    BY <1>0 DEF credit_points_for_order, Turn
  <2>6. record_promo_usage(r) \/ CreditCommit(r) => Turn
    BY <1>0 DEF record_promo_usage, CreditCommit, Turn
  <2> QED
    BY <1>2, <2>1, <2>2, <2>3, <2>4, <2>5, <2>6 DEF Orders, Source
<1>3. Codes => job' = job
  BY DEF Codes, create_promotion, update_promotion, toggle_promotion, delete_promotion,
         cleanup_expired_promotions, bulk_generate, Admin
<1>4. Programme \/ Time => job' = job
  BY DEF Programme, update_config, update_reward, Time
<1> QED
  BY <1>1, <1>2, <1>3, <1>4 DEF Next, Turn

LEMMA SingleStep == Types /\ Single /\ [Next]_vars => Single'
<1> SUFFICES ASSUME Types, Single, [Next]_vars PROVE Single'
  OBVIOUS
<1>1. entry' = entry /\ Turn
  BY TurnIs DEF Next, vars, Turn
<1>2. CASE job' = job
  BY <1>1, <1>2 DEF Single, Serial
<1>3. ASSUME NEW r \in Proc, NEW j, Do(r, j), Free(r) \/ job[r] # Idle PROVE Single'
  <2>1. job'[r] = j /\ \A s \in Proc : s # r => job'[s] = job[s]
    BY <1>3, DoIs DEF Types, Jobs
  <2>2. Serial => \A s \in Proc : s # r => job[s] = Idle
    BY <1>3 DEF Single, Free
  <2> QED
    BY <1>1, <2>1, <2>2 DEF Single, Serial
<1> QED
  BY <1>1, <1>2, <1>3 DEF Turn

LEMMA SingleInit == Init => Single
BY DEF Init, Single

-----------------------------------------------------------------------------
(***************************************************************************)
(* The balance.  A handler that is to write an absolute balance read one   *)
(* that was not negative and takes no more than it read; one that runs     *)
(* alone writes over what it read.                                         *)
(***************************************************************************)
Writers == {"add", "credit", "expire", "order"}

Solvent(j) == /\ j.op \in {"add", "credit"} => j.seen >= 0
              /\ j.op \in {"expire", "order"} => j.n <= j.seen

Balanced ==
    /\ points >= 0 /\ \A r \in Proc : Solvent(job[r])
    /\ Serial => /\ points = ledger
                 /\ \A r \in Proc : job[r].op \in Writers => job[r].seen = points

(* A step leaves the balance alone, debits it at once, or commits what a   *)
(* handler computed.                                                       *)
Reads == /\ points' = points /\ ledger' = ledger
         /\ \/ job' = job
            \/ \E r \in Proc : \E j : Do(r, j) /\ Solvent(j) /\ (j.op \in Writers => j.seen = points)

Debits(r) ==
    /\ Free(r) /\ \E d \in Int : points' = points + d /\ ledger' = ledger + d
    /\ points' >= 0 /\ (job' = job \/ \E j : Do(r, j) /\ j.op \notin Writers)

Commits(r) ==
    /\ job[r].op \in Writers /\ \E d \in Int : points' = job[r].seen + d /\ ledger' = ledger + d
    /\ points' >= 0 /\ \E j : Do(r, j) /\ j.op \notin Writers

LEMMA NoWriter == \A j : j.op \notin Writers => Solvent(j)
BY DEF Writers, Solvent

LEMMA BalancedBy ==
    ASSUME Types, Single, Balanced, entry' = entry,
           Reads \/ \E r \in Proc : Debits(r) \/ Commits(r)
    PROVE  Balanced'
<1>0. points \in Int /\ ledger \in Int
  BY DEF Types, Columns
<1>1. ASSUME Reads, job' = job PROVE Balanced'
  BY <1>1 DEF Reads, Balanced, Solvent, Serial
<1>2. ASSUME points' = points, ledger' = ledger, NEW r \in Proc, NEW j, Do(r, j), Solvent(j),
             j.op \in Writers => j.seen = points
      PROVE  Balanced'
  <2>1. job'[r] = j /\ \A s \in Proc : s # r => job'[s] = job[s]
    BY <1>2, DoIs DEF Types, Jobs
  <2>2. \A s \in Proc : Solvent(job'[s])
    BY <1>2, <2>1 DEF Balanced
  <2> QED
    BY <1>2, <2>1, <2>2 DEF Balanced, Solvent, Serial
<1>3. ASSUME NEW r \in Proc, Debits(r) PROVE Balanced'
  <2>1. Serial => /\ points' = ledger' /\ \A s \in Proc : job[s] = Idle
    BY <1>0, <1>3 DEF Debits, Free, Balanced
  <2>2. CASE job' = job
    BY <1>3, <2>1, <2>2, IdleIs DEF Debits, Balanced, Solvent, Serial, Writers
  <2>3. ASSUME NEW j, Do(r, j), j.op \notin Writers PROVE Balanced'
    <3>1. job'[r] = j /\ \A s \in Proc : s # r => job'[s] = job[s]
      BY <2>3, DoIs DEF Types, Jobs
    <3>2. \A s \in Proc : Solvent(job'[s])
      BY <2>3, <3>1, NoWriter DEF Balanced
    <3>3. "idle" \notin Writers
      BY DEF Writers
    <3>4. Serial => \A s \in Proc : job'[s].op \notin Writers
      BY <2>1, <2>3, <3>1, <3>3, IdleIs
    <3> QED
      BY <1>3, <2>1, <3>2, <3>4 DEF Debits, Balanced, Solvent, Serial
  <2> QED
    BY <1>3, <2>2, <2>3 DEF Debits
<1>4. ASSUME NEW r \in Proc, Commits(r) PROVE Balanced'
  <2>0. "idle" \notin Writers
    BY DEF Writers
  <2>1. PICK j : Do(r, j) /\ j.op \notin Writers
    BY <1>4 DEF Commits
  <2>2. job'[r] = j /\ \A s \in Proc : s # r => job'[s] = job[s]
    BY <2>1, DoIs DEF Types, Jobs
  <2>3. \A s \in Proc : Solvent(job'[s])
    BY <2>1, <2>2, NoWriter DEF Balanced
  <2>4. Serial => \A s \in Proc : s # r => job[s] = Idle
    BY <1>4, <2>0, IdleIs DEF Commits, Single
  <2>5. Serial => \A s \in Proc : job'[s].op \notin Writers
    BY <2>0, <2>1, <2>2, <2>4, IdleIs
  <2>6. Serial => points' = ledger'
    BY <1>0, <1>4 DEF Commits, Balanced
  <2> QED
    BY <1>4, <2>3, <2>5, <2>6 DEF Commits, Balanced, Solvent, Serial
<1> QED
  BY <1>1, <1>2, <1>3, <1>4 DEF Reads

(* A balance written after a read. *)
LEMMA WriteIs ==
    ASSUME Types, Balanced, NEW r \in Proc, job[r].op \in Writers, NEW d \in Int, Write(job[r], d),
           job[r].op \in {"add", "credit"} => d >= 0,
           job[r].op \in {"expire", "order"} => d = -job[r].n,
           NEW j, Do(r, j), j.op \notin Writers
    PROVE  Commits(r)
<1>1. job[r].seen \in Int /\ job[r].n \in Int
  BY DEF Types, Jobs, Job
<1>2. job[r].seen + d >= 0
  BY <1>1 DEF Balanced, Solvent, Writers
<1> QED
  BY <1>1, <1>2 DEF Write, Commits

LEMMA BalancedSteps ==
    ASSUME Types, Balanced, Next
    PROVE  Reads \/ \E r \in Proc : Debits(r) \/ Commits(r)
<1>0. /\ "idle" \notin Writers /\ "notice" \notin Writers /\ "reserve" \notin Writers
      /\ "code" \notin Writers /\ "eligible" \notin Writers /\ "usage" \notin Writers
      /\ "delivered" \notin Writers /\ points \in Int /\ ledger \in Int /\ points >= 0
  BY DEF Writers, Types, Columns, Balanced
<1>1. ASSUME NEW r \in Proc, Begins(r) PROVE Reads
  <2>1. PICK j \in Job : /\ Do(r, j) /\ j.op \in {"add", "reserve", "expire", "notice"}
                         /\ j.op \in {"add", "expire"} => j.seen = points
                         /\ j.op = "expire" => j.n <= points
    BY <1>1, BeginsIs
  <2>2. points' = points /\ ledger' = ledger
    BY <1>1, BeginsIs
  <2>3. Solvent(j) /\ (j.op \in Writers => j.seen = points)
    BY <1>0, <2>1 DEF Solvent, Writers
  <2> QED
    BY <2>1, <2>2, <2>3 DEF Reads
<1>2. ASSUME NEW r \in Proc, Ends(r) \/ IssueCode(r) \/ record_promo_usage(r) \/ ReserveCommit(r)
      PROVE  Reads
  <2>1. Do(r, Idle) /\ points' = points /\ ledger' = ledger
    BY <1>2 DEF Ends, Refuse, Die, NoticeCommit, IssueCode, record_promo_usage, ReserveCommit
  <2> QED
    BY <1>0, <2>1, NoWriter, IdleIs DEF Reads
<1>3. ASSUME NEW r \in Proc, Balances(r) PROVE Debits(r) \/ Commits(r)
  <2>1. ASSUME AddCommit(r) PROVE Commits(r)
    <3>1. job[r].op = "add" /\ Write(job[r], job[r].n) /\ Do(r, Idle)
      BY <2>1 DEF AddCommit
    <3>2. job[r].n \in Nat
      BY <3>1 DEF Types, Jobs, JobOK
    <3> QED
      BY <1>0, <3>1, <3>2, WriteIs, IdleIs DEF Writers
  <2>2. ASSUME ExpireCommit(r) PROVE Commits(r)
    <3>1. job[r].op = "expire" /\ Write(job[r], -job[r].n) /\ Do(r, Idle)
      BY <2>2 DEF ExpireCommit
    <3>2. job[r].n \in Nat
      BY <3>1 DEF Types, Jobs, JobOK
    <3>3. -job[r].n \in Int
      BY <3>2
    <3> QED
      BY <1>0, <3>1, <3>3, WriteIs, IdleIs DEF Writers
  <2>3. ASSUME NEW n \in 1 .. Cost, redeem_points(r, n) PROVE Debits(r)
    <3>1. n \in Int /\ Debit(n) /\ Free(r) /\ job' = job
      BY <2>3 DEF redeem_points
    <3> QED
      BY <1>0, <3>1 DEF Debit, Debits
  <2> QED
    BY <1>3, <2>1, <2>2, <2>3 DEF Balances
<1>4. ASSUME NEW r \in Proc, NEW v \in Resv,
             confirm_checkout_reservation(r, v) \/ cancel_checkout_reservation(r, v)
      PROVE  Reads \/ Debits(r)
  <2>1. resv[v].n \in Int
    BY PointsAssumption DEF Types, Columns, ResvRow
  <2>2. CASE Debit(resv[v].n) /\ Free(r) /\ job' = job
    BY <1>0, <2>1, <2>2 DEF Debit, Debits
  <2>3. CASE points' = points /\ ledger' = ledger /\ job' = job
    BY <2>3 DEF Reads
  <2> QED
    BY <1>4, <2>2, <2>3 DEF confirm_checkout_reservation, cancel_checkout_reservation
<1>5. ASSUME NEW r \in Proc, NEW p \in Promo, redeem_reward(r, p) PROVE Debits(r)
  <2>1. Free(r) /\ Debit(Cost) /\ Cost \in Int
    BY <1>5, PointsAssumption DEF redeem_reward
  <2>2. job' = job \/ \E j : Do(r, j) /\ j.op = "code"
    BY <1>5, BegunCode DEF redeem_reward
  <2> QED
    BY <1>0, <2>1, <2>2 DEF Debit, Debits
<1>6. ASSUME NEW r \in Proc, OrderSteps(r) PROVE Reads \/ Commits(r)
  <2>1. ASSUME NEW o \in Order, NEW src \in Source, NEW k \in Key,
               NEW p \in Promo \cup {None}, NEW n \in {0, Cost}, NEW paid \in BOOLEAN,
               create_order(r, o, src, k, p, n, paid)
        PROVE  Reads
    BY <1>0, <2>1, CreateOrderIs, NoWriter DEF Reads
  <2>2. ASSUME apply_promo(r) PROVE Reads
    <3>1. PICK j \in Job : /\ Do(r, j) /\ j.op = "order" /\ j.seen = points /\ j.n <= points
                           /\ points' = points /\ ledger' = ledger
      BY <2>2, ApplyIs
    <3> QED
      BY <3>1 DEF Reads, Solvent
  <2>3. ASSUME OrderCommit(r) PROVE Reads \/ Commits(r)
    <3>1. job[r] \in Job /\ JobOK(job[r]) /\ job[r].op = "order" /\ Do(r, Afterwards(job[r]))
      BY <2>3, OrderCommitIs
    <3>2. PICK i \in Job : i = Afterwards(job[r]) /\ i.op \in {"idle", "usage", "delivered"}
      BY <3>1, AfterIs
    <3>3. i.op \notin Writers /\ Do(r, i)
      BY <1>0, <3>1, <3>2
    <3>4. CASE job[r].n > 0
      <4>1. Write(job[r], -job[r].n)
        BY <2>3, <3>4, OrderCommitIs
      <4>2. job[r].n \in Int
        BY <3>1 DEF Job
      <4>3. -job[r].n \in Int
        BY <4>2
      <4> QED
        BY <3>1, <3>3, <4>1, <4>3, WriteIs DEF Writers
    <3>5. CASE ~(job[r].n > 0)
      BY <2>3, <3>3, <3>5, OrderCommitIs, NoWriter DEF Reads
    <3> QED
      BY <3>4, <3>5
  <2>4. ASSUME credit_points_for_order(r) PROVE Reads
    <3>1. PICK j \in Job : /\ Do(r, j) /\ (j = Idle \/ (j.op = "credit" /\ j.seen = points))
                           /\ points' = points /\ ledger' = ledger
      BY <2>4, CreditIs
    <3>2. Solvent(j) /\ (j.op \in Writers => j.seen = points)
      <4>1. CASE j = Idle
        BY <1>0, <4>1, NoWriter, IdleIs
      <4>2. CASE j.op = "credit" /\ j.seen = points
        BY <1>0, <4>2 DEF Solvent
      <4> QED
        BY <3>1, <4>1, <4>2
    <3> QED
      BY <3>1, <3>2 DEF Reads
  <2>5. ASSUME NEW o \in Order, NEW s \in {"confirmed", "ready", "delivered", "cancelled"},
               update_status(r, o, s)
        PROVE  Reads
    <3>1. points' = points /\ ledger' = ledger
      BY <2>5 DEF update_status
    <3>2. job' = job \/ \E j \in Job : Do(r, j) /\ j.op = "delivered"
      BY <2>5, UpdateIs
    <3> QED
      BY <1>0, <3>1, <3>2, NoWriter DEF Reads
  <2> QED
    BY <1>6, <2>1, <2>2, <2>3, <2>4, <2>5 DEF OrderSteps
<1>7. ASSUME NEW r \in Proc, CreditCommit(r) PROVE Commits(r)
  <2>1. job[r].op = "credit" /\ Write(job[r], job[r].n) /\ Do(r, Idle)
    BY <1>7 DEF CreditCommit
  <2>2. job[r].n \in Nat
    BY <2>1 DEF Types, Jobs, JobOK
  <2> QED
    BY <1>0, <2>1, <2>2, WriteIs, IdleIs DEF Writers
<1>8. Codes => Reads
  BY DEF Codes, create_promotion, update_promotion, toggle_promotion, delete_promotion,
         cleanup_expired_promotions, bulk_generate, Admin, Reads
<1>9. Programme \/ Time => Reads
  BY DEF Programme, update_config, update_reward, Time, Reads
<1> QED
  BY <1>1, <1>2, <1>3, <1>4, <1>5, <1>6, <1>7, <1>8, <1>9, StepsOfOrders DEF Asides, Reservations

LEMMA BalancedStep == Types /\ Single /\ Balanced /\ [Next]_vars => Balanced'
<1>1. ASSUME Types, Single, Balanced, Next PROVE Balanced'
  BY <1>1, BalancedSteps, BalancedBy DEF Next
<1>2. ASSUME Balanced, UNCHANGED vars PROVE Balanced'
  BY <1>2 DEF vars, Balanced, Solvent, Serial
<1> QED
  BY <1>1, <1>2

LEMMA BalancedInit == Init => Balanced
BY IdleIs, PointsAssumption DEF Init, Balanced, Solvent, Writers

-----------------------------------------------------------------------------
(* Sets of handlers, of orders and of codes that grow or lose one *)

LEMMA Fewer ==
    ASSUME NEW S, NEW T, IsFiniteSet(S), T \subseteq S
    PROVE  /\ IsFiniteSet(T) /\ Cardinality(S) \in Nat /\ Cardinality(T) \in Nat
           /\ Cardinality(T) <= Cardinality(S)
BY FS_Subset, FS_CardinalityType

LEMMA OneMore ==
    ASSUME NEW S, NEW T, NEW x, IsFiniteSet(S), T \subseteq S \cup {x}
    PROVE  /\ Cardinality(S) \in Nat /\ Cardinality(T) \in Nat
           /\ Cardinality(T) <= Cardinality(S) + 1
<1>0. Cardinality(S) \in Nat
  BY FS_CardinalityType
<1>1. IsFiniteSet(S \cup {x}) /\ Cardinality(S \cup {x}) <= Cardinality(S) + 1
  BY <1>0, FS_AddElement
<1>2. Cardinality(T) <= Cardinality(S \cup {x}) /\ Cardinality(T) \in Nat /\ Cardinality(S \cup {x}) \in Nat
  BY <1>1, Fewer
<1> QED
  BY <1>0, <1>1, <1>2

LEMMA OneLess ==
    ASSUME NEW S, NEW T, NEW x \in S, IsFiniteSet(S), T \subseteq S \ {x}
    PROVE  /\ Cardinality(S) \in Nat /\ Cardinality(T) \in Nat
           /\ Cardinality(T) + 1 <= Cardinality(S)
<1>1. IsFiniteSet(S \ {x}) /\ Cardinality(S) \in Nat /\ Cardinality(S \ {x}) = Cardinality(S) - 1
  BY FS_RemoveElement, FS_CardinalityType
<1>2. Cardinality(T) <= Cardinality(S \ {x}) /\ Cardinality(T) \in Nat
  BY <1>1, Fewer
<1> QED
  BY <1>1, <1>2

-----------------------------------------------------------------------------
(***************************************************************************)
(* Earning.  An order has a chance of points when it is stored at the      *)
(* counter for the customer and another when it is delivered; what it has  *)
(* earned and what handlers are about to credit stay within its chances.   *)
(***************************************************************************)
Crediting(j, o) == j.op \in {"delivered", "credit"} /\ j.o = o
Credits(o) == {r \in Proc : Crediting(job[r], o)}
Chances(o) == (IF order[o].status # "absent" /\ order[o].src = "manual" THEN 1 ELSE 0)
              + (IF order[o].status = "delivered" THEN 1 ELSE 0)

Earned == \A o \in Order : earn[o].count + Cardinality(Credits(o)) <= Chances(o)

(* Alone, a handler credits an order that was not credited. *)
Once == Serial => /\ \A o \in Order : earn[o].count <= 1
                  /\ \A r \in Proc : job[r].op = "credit" => earn[job[r].o].count = 0

LEMMA CreditsFinite == \A o : IsFiniteSet(Credits(o))
BY FiniteAssumption, FS_Subset DEF Credits

(* What a step does to one order. *)
Unpaid(o) == earn'[o].count = earn[o].count /\ Chances(o)' >= Chances(o)

EarnedOf(o) ==
    \/ Unpaid(o) /\ Credits(o)' \subseteq Credits(o)
    \/ /\ earn'[o].count = earn[o].count /\ Chances(o)' >= Chances(o) + 1
       /\ \E r \in Proc : Credits(o)' \subseteq Credits(o) \cup {r}
    \/ /\ earn'[o].count = earn[o].count + 1 /\ Chances(o)' >= Chances(o)
       /\ \E r \in Credits(o) : Credits(o)' \subseteq Credits(o) \ {r}

LEMMA EarnedBy ==
    ASSUME Types, Earned, \A o \in Order : EarnedOf(o)
    PROVE  Earned'
<1> SUFFICES ASSUME NEW o \in Order PROVE (earn[o].count + Cardinality(Credits(o)) <= Chances(o))'
  BY DEF Earned
<1> DEFINE S == Credits(o)
<1> DEFINE T == Credits(o)'
<1> DEFINE c == Chances(o)
<1> DEFINE d == Chances(o)'
<1>1. IsFiniteSet(S) /\ c \in Int /\ d \in Int /\ earn[o].count \in Nat
  BY CreditsFinite DEF Chances, Types, Columns, EarnCol
<1>2. earn[o].count + Cardinality(S) <= c
  BY DEF Earned
<1>3. EarnedOf(o)
  OBVIOUS
<1>4. ASSUME earn'[o].count = earn[o].count, d >= c, T \subseteq S
      PROVE  earn'[o].count + Cardinality(T) <= d
  <2>1. Cardinality(S) \in Nat /\ Cardinality(T) \in Nat /\ Cardinality(T) <= Cardinality(S)
    BY <1>1, <1>4, Fewer
  <2> QED
    BY <1>1, <1>2, <1>4, <2>1
<1>5. ASSUME earn'[o].count = earn[o].count, d >= c + 1, NEW r \in Proc, T \subseteq S \cup {r}
      PROVE  earn'[o].count + Cardinality(T) <= d
  <2>1. Cardinality(S) \in Nat /\ Cardinality(T) \in Nat /\ Cardinality(T) <= Cardinality(S) + 1
    BY <1>1, <1>5, OneMore
  <2> QED
    BY <1>1, <1>2, <1>5, <2>1
<1>6. ASSUME earn'[o].count = earn[o].count + 1, d >= c, NEW r \in S, T \subseteq S \ {r}
      PROVE  earn'[o].count + Cardinality(T) <= d
  <2>1. Cardinality(S) \in Nat /\ Cardinality(T) \in Nat /\ Cardinality(T) + 1 <= Cardinality(S)
    BY <1>1, <1>6, OneLess
  <2> QED
    BY <1>1, <1>2, <1>6, <2>1
<1> QED
  BY <1>3, <1>4, <1>5, <1>6 DEF EarnedOf, Unpaid

(* A handler that moves on. *)
LEMMA CreditsMove ==
    ASSUME Types, NEW r \in Proc, NEW j, Do(r, j), NEW o
    PROVE  /\ Credits(o)' \subseteq Credits(o) \cup {r}
           /\ (~Crediting(j, o) \/ r \in Credits(o)) => Credits(o)' \subseteq Credits(o)
           /\ ~Crediting(j, o) => Credits(o)' \subseteq Credits(o) \ {r}
BY DoIs DEF Types, Jobs, Credits, Crediting

LEMMA CreditsSame == ASSUME NEW o, job' = job PROVE Credits(o)' = Credits(o)
BY DEF Credits

(* The orders keep their states. *)
SameStatus == \A o \in Order : order'[o].status = order[o].status

LEMMA ChancesKept ==
    ASSUME NEW o \in Order, Kept, order'[o].status = order[o].status
    PROVE  Chances(o)' = Chances(o) /\ Chances(o) \in Int
BY DEF Kept, Chances

LEMMA EarnKept ==
    ASSUME Types, (\E r \in Proc : Asides(r) /\ ~CreditCommit(r)) \/ Codes \/ Programme
    PROVE  earn' = earn
<1>1. ASSUME NEW r \in Proc, Begins(r) \/ Ends(r) PROVE earn' = earn
  BY <1>1, BeginsIs DEF Ends, Refuse, Die, NoticeCommit
<1>2. ASSUME NEW r \in Proc, Balances(r) \/ Reservations(r) PROVE earn' = earn
  BY <1>2 DEF Balances, AddCommit, ExpireCommit, redeem_points, Reservations, ReserveCommit,
              confirm_checkout_reservation, cancel_checkout_reservation
<1>3. ASSUME NEW r \in Proc,
             IssueCode(r) \/ record_promo_usage(r) \/ \E p \in Promo : redeem_reward(r, p)
      PROVE  earn' = earn
  BY <1>3 DEF IssueCode, record_promo_usage, redeem_reward
<1>4. Codes => earn' = earn
  BY DEF Codes, create_promotion, update_promotion, toggle_promotion, delete_promotion,
         cleanup_expired_promotions, bulk_generate, Admin
<1>5. Programme => earn' = earn
  BY DEF Programme, update_config, update_reward
<1> QED
  BY <1>1, <1>2, <1>3, <1>4, <1>5 DEF Asides

LEMMA EarnTime == Types /\ Time => \A o \in Order : earn'[o].count = earn[o].count
<1> SUFFICES ASSUME Types, Time PROVE \A o \in Order : earn'[o].count = earn[o].count
  OBVIOUS
<1>1. earn' = earn \/ \E q \in Order : earn' = [earn EXCEPT ![q].aged = TRUE]
  BY DEF Time, ReservationLapses, PromotionEnds, EarningAges, KeyForgotten
<1> QED
  BY <1>1 DEF Types, Columns, EarnCol

LEMMA CreditCommitIs ==
    ASSUME Types, NEW r \in Proc, CreditCommit(r)
    PROVE  /\ job[r].op = "credit" /\ job[r].o \in Order /\ Do(r, Idle)
           /\ earn'[job[r].o].count = earn[job[r].o].count + 1
           /\ \A q \in Order : q # job[r].o => earn'[q] = earn[q]
           /\ order' = order
<1>1. job[r].op = "credit" /\ job[r].o \in Order
  BY DEF CreditCommit, Types, Jobs, JobOK, OnOrder
<1> QED
  BY <1>1 DEF CreditCommit, Types, Columns, EarnCol

LEMMA EarnedStep == Types /\ Owned /\ Earned /\ [Next]_vars => Earned'
<1> SUFFICES ASSUME Types, Owned, Earned, [Next]_vars PROVE \A o \in Order : EarnedOf(o)
  BY EarnedBy
<1>0. \A o \in Order : Chances(o) \in Int
  BY DEF Chances
<1>1. ASSUME (\E r \in Proc : Asides(r) /\ ~CreditCommit(r)) \/ Codes \/ Programme
      PROVE  \A o \in Order : EarnedOf(o)
  <2>1. order' = order /\ Aside /\ earn' = earn
    BY <1>1, AsideIs, EarnKept
  <2>2. \A o \in Order : Unpaid(o)
    BY <1>0, <2>1 DEF Unpaid, Chances
  <2>3. \A o \in Order : Credits(o)' \subseteq Credits(o)
    <3>1. CASE job' = job
      BY <3>1, CreditsSame
    <3>2. ASSUME NEW r \in Proc, NEW j, Do(r, j), j.op \notin OnOrder
          PROVE  \A o \in Order : Credits(o)' \subseteq Credits(o)
      <4>1. \A o \in Order : ~Crediting(j, o)
        BY <3>2 DEF Crediting, OnOrder
      <4> QED
        BY <3>2, <4>1, CreditsMove
    <3> QED
      BY <2>1, <3>1, <3>2 DEF Aside
  <2> QED
    BY <2>2, <2>3 DEF EarnedOf
<1>2. ASSUME NEW r \in Proc, CreditCommit(r) PROVE \A o \in Order : EarnedOf(o)
  <2>1. /\ job[r].op = "credit" /\ job[r].o \in Order /\ Do(r, Idle)
        /\ earn'[job[r].o].count = earn[job[r].o].count + 1
        /\ \A q \in Order : q # job[r].o => earn'[q] = earn[q]
        /\ order' = order
    BY <1>2, CreditCommitIs
  <2>2. \A o \in Order : Chances(o)' >= Chances(o)
    BY <1>0, <2>1 DEF Chances
  <2>3. \A o \in Order : ~Crediting(Idle, o)
    BY IdleIs DEF Crediting
  <2>4. r \in Credits(job[r].o)
    BY <2>1 DEF Credits, Crediting
  <2>5. \A o \in Order : Credits(o)' \subseteq Credits(o) \ {r}
    BY <2>1, <2>3, CreditsMove
  <2>6. \A o \in Order : o # job[r].o => EarnedOf(o)
    BY <2>1, <2>2, <2>5 DEF EarnedOf, Unpaid
  <2>7. EarnedOf(job[r].o)
    <3>1. PICK o \in Order : o = job[r].o
      BY <2>1
    <3>2. /\ earn'[o].count = earn[o].count + 1 /\ Chances(o)' >= Chances(o) /\ r \in Credits(o)
          /\ Credits(o)' \subseteq Credits(o) \ {r}
      BY <2>1, <2>2, <2>4, <2>5, <3>1
    <3>3. EarnedOf(o)
      BY <3>2 DEF EarnedOf
    <3> QED
      BY <3>1, <3>3
  <2> QED
    BY <2>6, <2>7
<1>3. ASSUME Time PROVE \A o \in Order : EarnedOf(o)
  <2>1. /\ Kept /\ job' = job /\ \A o \in Order : order'[o].status = order[o].status
        /\ \A o \in Order : earn'[o].count = earn[o].count
    BY <1>3, TimeIs, EarnTime
  <2>2. \A o \in Order : Unpaid(o)
    BY <1>0, <2>1, ChancesKept DEF Unpaid
  <2> QED
    BY <2>1, <2>2, CreditsSame DEF EarnedOf
<1>4. ASSUME NEW r \in Proc, NEW o \in Order, NEW src \in Source, NEW k \in Key,
             NEW p \in Promo \cup {None}, NEW n \in {0, Cost}, NEW paid \in BOOLEAN,
             create_order(r, o, src, k, p, n, paid)
      PROVE  \A q \in Order : EarnedOf(q)
  <2>1. PICK j \in Job : Do(r, j) /\ j.op = "eligible" /\ order' = order /\ earn' = earn
    BY <1>4, CreateOrderIs
  <2>2. \A q \in Order : Unpaid(q) /\ ~Crediting(j, q)
    BY <1>0, <2>1 DEF Unpaid, Chances, Crediting
  <2> QED
    BY <2>1, <2>2, CreditsMove DEF EarnedOf
<1>5. ASSUME NEW r \in Proc, apply_promo(r) PROVE \A q \in Order : EarnedOf(q)
  <2>1. PICK j \in Job : Do(r, j) /\ j.op = "order" /\ order' = order /\ earn' = earn
    BY <1>5, ApplyIs
  <2>2. \A q \in Order : Unpaid(q) /\ ~Crediting(j, q)
    BY <1>0, <2>1 DEF Unpaid, Chances, Crediting
  <2> QED
    BY <2>1, <2>2, CreditsMove DEF EarnedOf
<1>6. ASSUME NEW r \in Proc, OrderCommit(r) PROVE \A q \in Order : EarnedOf(q)
  <2>0. PICK o \in Order : o = job[r].o /\ Inserts(r, o)
    BY <1>6, CommitInserts
  <2>1. /\ job[r] \in Job /\ JobOK(job[r]) /\ job[r].op = "order" /\ Do(r, Afterwards(job[r]))
        /\ earn' = earn
    BY <1>6, OrderCommitIs
  <2>2. PICK i \in Job : /\ i = Afterwards(job[r]) /\ i.op \in {"idle", "usage", "delivered"}
                         /\ i.op # "idle" => i.o = o
                         /\ i.op = "delivered" => job[r].row.src = "manual"
    BY <2>0, <2>1, AfterIs
  <2>3. Do(r, i)
    BY <2>1, <2>2
  <2>4. ASSUME NEW q \in Order, q # o PROVE EarnedOf(q)
    <3>1. Unpaid(q)
      BY <1>0, <2>0, <2>1, <2>4 DEF Inserts, Unpaid, Chances
    <3>2. ~Crediting(i, q)
      BY <2>2, <2>4 DEF Crediting
    <3> QED
      BY <2>3, <3>1, <3>2, CreditsMove DEF EarnedOf
  <2>5. EarnedOf(o)
    <3>1. Chances(o) = 0
      BY <2>0 DEF Inserts, Chances
    <3>2. Chances(o)' >= 0 /\ (job[r].row.src = "manual" => Chances(o)' >= 1)
      BY <2>0 DEF Inserts, Chances
    <3>3. CASE i.op = "delivered"
      <4>1. Chances(o)' >= Chances(o) + 1
        BY <2>2, <3>1, <3>2, <3>3
      <4>2. Credits(o)' \subseteq Credits(o) \cup {r}
        BY <2>3, CreditsMove
      <4> QED
        BY <2>1, <4>1, <4>2 DEF EarnedOf
    <3>4. CASE i.op # "delivered"
      <4>1. ~Crediting(i, o)
        BY <2>2, <3>4 DEF Crediting
      <4>2. Credits(o)' \subseteq Credits(o)
        BY <2>3, <4>1, CreditsMove
      <4> QED
        BY <2>1, <3>1, <3>2, <4>2 DEF EarnedOf, Unpaid
    <3> QED
      BY <3>3, <3>4
  <2> QED
    BY <2>4, <2>5
<1>7. ASSUME NEW r \in Proc, credit_points_for_order(r) PROVE \A q \in Order : EarnedOf(q)
  <2>1. PICK j \in Job : /\ Do(r, j) /\ order' = order /\ earn' = earn /\ job[r].op = "delivered"
                         /\ (j.op = "idle" \/ (j.op = "credit" /\ j.o = job[r].o))
    BY <1>7, CreditIs, IdleIs
  <2>2. \A q \in Order : Unpaid(q)
    BY <1>0, <2>1 DEF Unpaid, Chances
  <2>3. \A q \in Order : ~Crediting(j, q) \/ r \in Credits(q)
    BY <2>1 DEF Credits, Crediting
  <2> QED
    BY <2>1, <2>2, <2>3, CreditsMove DEF EarnedOf
<1>8. ASSUME NEW r \in Proc, NEW o \in Order,
             NEW s \in {"confirmed", "ready", "delivered", "cancelled"}, update_status(r, o, s)
      PROVE  \A q \in Order : EarnedOf(q)
  <2>1. /\ Kept /\ order[o].status \notin {"absent", "delivered"} /\ order'[o].status = s
        /\ \A q \in Order : q # o => order'[q].status = order[q].status
    BY <1>8, UpdateIs
  <2>2. earn' = earn
    BY <1>8 DEF update_status
  <2>3. Chances(o)' = Chances(o) + (IF s = "delivered" THEN 1 ELSE 0)
    BY <2>1 DEF Kept, Chances
  <2>4. \A q \in Order : Unpaid(q)
    BY <1>0, <2>1, <2>2, <2>3, ChancesKept DEF Unpaid
  <2>5. CASE job' = job
    BY <2>4, <2>5, CreditsSame DEF EarnedOf
  <2>6. CASE job' # job
    <3>1. s = "delivered"
      BY <1>8, <2>6, UpdateIs
    <3>2. PICK j \in Job : Do(r, j) /\ j.op = "delivered" /\ j.o = o
      BY <1>8, <2>6, UpdateIs
    <3>3. ASSUME NEW q \in Order, q # o PROVE EarnedOf(q)
      BY <2>4, <3>2, <3>3, CreditsMove DEF EarnedOf, Crediting
    <3>4. EarnedOf(o)
      <4>1. Credits(o)' \subseteq Credits(o) \cup {r}
        BY <3>2, CreditsMove
      <4>2. Chances(o)' >= Chances(o) + 1
        BY <1>0, <2>3, <3>1
      <4> QED
        BY <2>2, <4>1, <4>2 DEF EarnedOf
    <3> QED
      BY <3>3, <3>4
  <2> QED
    BY <2>5, <2>6
<1>9. ASSUME UNCHANGED vars PROVE \A q \in Order : EarnedOf(q)
  BY <1>0, <1>9, CreditsSame DEF vars, EarnedOf, Unpaid, Chances
<1> QED
  BY <1>1, <1>2, <1>3, <1>4, <1>5, <1>6, <1>7, <1>8, <1>9, StepsOfOrders DEF OrderSteps

LEMMA EarnedInit == Init => Earned
<1> SUFFICES ASSUME Init, NEW o \in Order PROVE earn[o].count + Cardinality(Credits(o)) <= Chances(o)
  BY DEF Earned
<1>1. Credits(o) = {}
  BY IdleIs DEF Init, Credits, Crediting
<1>2. earn[o].count = 0 /\ Chances(o) = 0
  BY DEF Init, Chances, NoOrder
<1> QED
  BY <1>1, <1>2, FS_EmptySet

LEMMA OnceOther ==
    ASSUME Types, Once, entry' = entry, \A o \in Order : earn'[o].count = earn[o].count,
           job' = job \/ \E r \in Proc : \E j : Do(r, j) /\ j.op # "credit"
    PROVE  Once'
<1>1. \A r \in Proc : job[r].op = "credit" => job[r].o \in Order
  BY DEF Types, Jobs, JobOK, OnOrder
<1>2. CASE job' = job
  BY <1>1, <1>2 DEF Once, Serial
<1>3. ASSUME NEW r \in Proc, NEW j, Do(r, j), j.op # "credit" PROVE Once'
  <2>1. job'[r] = j /\ \A s \in Proc : s # r => job'[s] = job[s]
    BY <1>3, DoIs DEF Types, Jobs
  <2> QED
    BY <1>1, <1>3, <2>1 DEF Once, Serial
<1> QED
  BY <1>2, <1>3

LEMMA OnceStep == Types /\ Single /\ Once /\ [Next]_vars => Once'
<1> SUFFICES ASSUME Types, Single, Once, [Next]_vars PROVE Once'
  OBVIOUS
<1>0. entry' = entry
  BY DEF Next, vars
<1>1. ASSUME (\E r \in Proc : Asides(r) /\ ~CreditCommit(r)) \/ Codes \/ Programme PROVE Once'
  <2>1. earn' = earn /\ Aside
    BY <1>1, AsideIs, EarnKept
  <2>2. "credit" \in OnOrder
    BY DEF OnOrder
  <2>3. job' = job \/ \E r \in Proc : \E j : Do(r, j) /\ j.op # "credit"
    BY <2>1, <2>2 DEF Aside
  <2> QED
    BY <1>0, <2>1, <2>3, OnceOther
<1>2. ASSUME NEW r \in Proc, CreditCommit(r) PROVE Once'
  <2>1. PICK o \in Order : /\ o = job[r].o /\ earn'[o].count = earn[o].count + 1
                           /\ \A q \in Order : q # o => earn'[q] = earn[q]
                           /\ job[r].op = "credit" /\ Do(r, Idle)
    BY <1>2, CreditCommitIs
  <2>2. job'[r] = Idle /\ \A s \in Proc : s # r => job'[s] = job[s]
    BY <2>1, DoIs DEF Types, Jobs
  <2>3. Serial => \A s \in Proc : job'[s].op = "idle"
    BY <2>1, <2>2, IdleIs DEF Single
  <2>4. Serial => earn[o].count = 0
    BY <2>1 DEF Once
  <2>5. Serial => \A q \in Order : earn'[q].count <= 1
    BY <2>1, <2>4 DEF Once
  <2> QED
    BY <1>0, <2>3, <2>5 DEF Once, Serial
<1>3. ASSUME Time PROVE Once'
  BY <1>0, <1>3, TimeIs, EarnTime, OnceOther
<1>4. ASSUME NEW r \in Proc, credit_points_for_order(r) PROVE Once'
  <2>1. PICK j \in Job : /\ Do(r, j) /\ earn' = earn
                         /\ (j = Idle \/ (/\ j.op = "credit" /\ j.o = job[r].o
                                          /\ ~AlreadyCredited(job[r].o)))
    BY <1>4, CreditIs
  <2>2. CASE j.op # "credit"
    BY <1>0, <2>1, <2>2, OnceOther
  <2>3. CASE j.op = "credit"
    <3>1. PICK o \in Order : o = job[r].o
      BY <1>4, CreditIs
    <3>2. j.o = o /\ ~(earn[o].count > 0) /\ earn[o].count \in Nat
      BY <2>1, <2>3, <3>1, IdleIs DEF AlreadyCredited, Types, Columns, EarnCol
    <3>3. job'[r] = j /\ \A s \in Proc : s # r => job'[s] = job[s]
      BY <2>1, DoIs DEF Types, Jobs
    <3> QED
      BY <1>0, <2>1, <3>2, <3>3 DEF Once, Serial
  <2> QED
    BY <2>2, <2>3
<1>5. ASSUME NEW r \in Proc, OrderSteps(r), ~credit_points_for_order(r) PROVE Once'
  <2>1. ASSUME NEW o \in Order, NEW src \in Source, NEW k \in Key,
               NEW p \in Promo \cup {None}, NEW n \in {0, Cost}, NEW paid \in BOOLEAN,
               create_order(r, o, src, k, p, n, paid)
        PROVE  Once'
    <3>1. PICK j \in Job : Do(r, j) /\ j.op = "eligible" /\ earn' = earn
      BY <2>1, CreateOrderIs
    <3> QED
      BY <1>0, <3>1, OnceOther
  <2>2. ASSUME apply_promo(r) PROVE Once'
    <3>1. PICK j \in Job : Do(r, j) /\ j.op = "order" /\ earn' = earn
      BY <2>2, ApplyIs
    <3> QED
      BY <1>0, <3>1, OnceOther
  <2>3. ASSUME OrderCommit(r) PROVE Once'
    <3>1. /\ job[r] \in Job /\ JobOK(job[r]) /\ job[r].op = "order" /\ Do(r, Afterwards(job[r]))
          /\ earn' = earn
      BY <2>3, OrderCommitIs
    <3>2. PICK i \in Job : i = Afterwards(job[r]) /\ i.op \in {"idle", "usage", "delivered"}
      BY <3>1, AfterIs
    <3> QED
      BY <1>0, <3>1, <3>2, OnceOther
  <2>4. ASSUME NEW o \in Order, NEW s \in {"confirmed", "ready", "delivered", "cancelled"},
               update_status(r, o, s)
        PROVE  Once'
    <3>1. job' = job \/ \E j \in Job : Do(r, j) /\ j.op = "delivered"
      BY <2>4, UpdateIs
    <3>2. earn' = earn
      BY <2>4 DEF update_status
    <3> QED
      BY <1>0, <3>1, <3>2, OnceOther
  <2> QED
    BY <1>5, <2>1, <2>2, <2>3, <2>4 DEF OrderSteps
<1>6. ASSUME UNCHANGED vars PROVE Once'
  BY <1>6, <1>0, OnceOther DEF vars
<1> QED
  BY <1>1, <1>2, <1>3, <1>4, <1>5, <1>6, StepsOfOrders

LEMMA OnceInit == Init => Once
BY IdleIs DEF Init, Once

(* A reservation is debited when it is confirmed. *)
Debited == \A v \in Resv : resv[v].debits = IF resv[v].status = "confirmed" THEN 1 ELSE 0

LEMMA DebitedStep == Types /\ Debited /\ [Next]_vars => Debited'
<1> SUFFICES ASSUME Types, Debited, [Next]_vars PROVE Debited'
  OBVIOUS
<1>0. resv \in [Resv -> ResvRow]
  BY DEF Types, Columns
<1>1. CASE resv' = resv
  BY <1>1 DEF Debited
<1>2. ASSUME NEW r \in Proc, ReserveCommit(r) PROVE Debited'
  BY <1>0, <1>2 DEF ReserveCommit, Debited
<1>3. ASSUME NEW r \in Proc, NEW v \in Resv, confirm_checkout_reservation(r, v) PROVE Debited'
  BY <1>0, <1>3 DEF confirm_checkout_reservation, Debited, ResvRow
<1>4. ASSUME NEW r \in Proc, NEW v \in Resv, cancel_checkout_reservation(r, v) PROVE Debited'
  BY <1>0, <1>4 DEF cancel_checkout_reservation, Debited, ResvRow
<1>5. ASSUME Time PROVE Debited'
  <2>1. resv' = resv \/ \E v \in Resv : resv' = [resv EXCEPT ![v].lapsed = TRUE]
    BY <1>5 DEF Time, ReservationLapses, PromotionEnds, EarningAges, KeyForgotten
  <2> QED
    BY <1>0, <2>1 DEF Debited, ResvRow
<1>6. ASSUME NEW r \in Proc, Begins(r) \/ Ends(r) \/ Balances(r) PROVE resv' = resv
  BY <1>6, BeginsIs DEF Ends, Refuse, Die, NoticeCommit, Balances, AddCommit,
              ExpireCommit, redeem_points
<1>7. ASSUME NEW r \in Proc, IssueCode(r) \/ record_promo_usage(r) \/ CreditCommit(r)
      PROVE  resv' = resv
  BY <1>7 DEF IssueCode, record_promo_usage, CreditCommit
<1>8. ASSUME NEW r \in Proc, NEW p \in Promo, redeem_reward(r, p) PROVE resv' = resv
  BY <1>8 DEF redeem_reward
<1>9. ASSUME NEW r \in Proc, OrderSteps(r) PROVE resv' = resv
  BY <1>9, CreateOrderIs, ApplyIs, OrderCommitIs, CreditIs DEF OrderSteps, update_status
<1>10. Codes \/ Programme => resv' = resv
  BY DEF Codes, create_promotion, update_promotion, toggle_promotion, delete_promotion,
         cleanup_expired_promotions, bulk_generate, Admin, Programme, update_config, update_reward
<1>11. UNCHANGED vars => resv' = resv
  BY DEF vars
<1> QED
  BY <1>1, <1>2, <1>3, <1>4, <1>5, <1>6, <1>7, <1>8, <1>9, <1>10, <1>11, StepsOfOrders
     DEF Asides, Reservations

LEMMA DebitedInit == Init => Debited
BY DEF Init, Debited

-----------------------------------------------------------------------------
(***************************************************************************)
(* Codes.  A code that an order is being placed with exists; while its row *)
(* is locked there is room for one use more; a code that is paid for and   *)
(* not issued does not exist, and one handler is to issue it.              *)
(***************************************************************************)
Coding == Placing \cup {"code"}

Fits(j, row) == /\ j.op \in Placing => row.state # "absent"
                /\ j.op = "order" => row.uses < row.max
                /\ j.op = "code" => row.state = "absent"

CodeRows == \A p \in Promo : /\ promo[p].max <= promo[p].peak /\ promo[p].uses <= promo[p].peak
                             /\ promo[p].state = "absent" => promo[p].uses = 0 /\ ~promo[p].bought

CodeJobs == \A r \in Proc, p \in Promo : job[r].p = p => Fits(job[r], promo[p])

Alone == \A r, s \in Proc : /\ job[r].op \in {"order", "code"} /\ job[s].op = job[r].op
                            /\ job[s].p = job[r].p /\ job[r].p \in Promo
                            => r = s

Coded == CodeRows /\ CodeJobs /\ Alone

(* What a step does to the codes and to the handlers that need them. *)
Plain == /\ promo' = promo /\ bought' = bought
         /\ job' = job \/ \E r \in Proc : \E j : Do(r, j) /\ j.op \notin Coding
Picks(r) ==
    /\ promo' = promo /\ bought' = bought
    /\ \E j : /\ Do(r, j) /\ j.op = "eligible"
              /\ j.p \in Promo => promo[j.p].state # "absent"
Locks(r) ==
    /\ promo' = promo /\ bought' = bought /\ job[r].op = "eligible"
    /\ \E j : /\ Do(r, j) /\ j.op = "order" /\ j.p = job[r].p
              /\ j.p \in Promo => promo[j.p].uses < promo[j.p].max /\ ~PromoLocked(j.p)
Buys(r, p) ==
    /\ promo' = promo /\ bought' = bought + 1 /\ promo[p].state = "absent"
    /\ \A s \in Proc : job[s].p # p
    /\ \E j : Do(r, j) /\ j.op = "code" /\ j.p = p
Alters(p) ==
    /\ job' = job /\ bought' = bought
    /\ \E row \in PromoCol : /\ Changed(promo[p], row) /\ promo' = [promo EXCEPT ![p] = row]
                             /\ ~PromoLocked(p) \/ row.max = promo[p].max
Makes(p) ==
    /\ job' = job /\ bought' = bought /\ promo[p].state = "absent" /\ \A s \in Proc : job[s].p # p
    /\ \E row \in PromoCol : /\ NewCode(row) /\ ~row.bought /\ promo' = [promo EXCEPT ![p] = row]
MakesAll ==
    /\ job' = job /\ bought' = bought
    /\ \A p \in Promo : promo[p].state = "absent"
    /\ \A s \in Proc : job[s].p = None
    /\ \E row \in PromoCol : /\ NewCode(row) /\ ~row.bought /\ promo' = [p \in Promo |-> row]

CodeStep ==
    \/ Plain
    \/ \E r \in Proc : \/ Picks(r) \/ Locks(r) \/ OrderCommit(r) \/ IssueCode(r)
                       \/ \E p \in Promo : Buys(r, p)
    \/ \E p \in Promo : Alters(p) \/ Makes(p)
    \/ MakesAll

LEMMA CodeSteps == ASSUME Types, [Next]_vars PROVE CodeStep
<1>0. /\ "idle" \notin Coding /\ "add" \notin Coding /\ "expire" \notin Coding
      /\ "reserve" \notin Coding /\ "notice" \notin Coding /\ "usage" \notin Coding
      /\ "delivered" \notin Coding /\ "credit" \notin Coding
  BY DEF Coding, Placing
<1>1. ASSUME NEW r \in Proc,
             Begins(r) \/ Ends(r) \/ Balances(r) \/ Reservations(r) \/ record_promo_usage(r)
             \/ CreditCommit(r)
      PROVE  Plain
  <2>1. promo' = promo /\ bought' = bought
    <3>1. Begins(r) \/ Ends(r) => promo' = promo /\ bought' = bought
      BY BeginsIs DEF Ends, Refuse, Die, NoticeCommit
    <3>2. Balances(r) \/ Reservations(r) => promo' = promo /\ bought' = bought
      BY DEF Balances, AddCommit, ExpireCommit, redeem_points, Reservations, ReserveCommit,
             confirm_checkout_reservation, cancel_checkout_reservation
    <3>3. record_promo_usage(r) \/ CreditCommit(r) => promo' = promo /\ bought' = bought
      BY DEF record_promo_usage, CreditCommit
    <3> QED
      BY <1>1, <3>1, <3>2, <3>3
  <2>2. job' = job \/ \E j : Do(r, j) /\ j.op \notin Coding
    <3>5. ASSUME Ends(r) \/ record_promo_usage(r) \/ CreditCommit(r) PROVE Do(r, Idle)
      BY <3>5 DEF Ends, Refuse, Die, NoticeCommit, record_promo_usage, CreditCommit
    <3>6. ASSUME Balances(r) \/ Reservations(r) PROVE Do(r, Idle) \/ job' = job
      BY <3>6 DEF Balances, AddCommit, ExpireCommit, redeem_points, Reservations, ReserveCommit,
                  confirm_checkout_reservation, cancel_checkout_reservation
    <3>7. Begins(r) => \E j : Do(r, j) /\ j.op \notin Coding
      BY <1>0, BeginsIs
    <3>8. Do(r, Idle) => \E j : Do(r, j) /\ j.op \notin Coding
      BY <1>0, IdleIs
    <3> QED
      BY <1>1, <3>5, <3>6, <3>7, <3>8
  <2> QED
    BY <2>1, <2>2 DEF Plain
<1>2. ASSUME NEW r \in Proc, NEW p \in Promo, redeem_reward(r, p) PROVE Plain \/ Buys(r, p)
  <2>1. CASE job' = job /\ bought' = bought
    BY <1>2, <2>1 DEF redeem_reward, Plain
  <2>2. CASE Do(r, [Idle EXCEPT !.op = "code", !.p = p]) /\ bought' = bought + 1
    <3>1. PICK j : Do(r, j) /\ j.op = "code" /\ j.p = p
      BY <2>2, BegunCode
    <3> QED
      BY <1>2, <2>2, <3>1 DEF redeem_reward, Buys
  <2> QED
    BY <1>2, <2>1, <2>2 DEF redeem_reward
<1>3. ASSUME NEW r \in Proc, OrderSteps(r), ~OrderCommit(r) PROVE Plain \/ Picks(r) \/ Locks(r)
  <2>1. ASSUME NEW o \in Order, NEW src \in Source, NEW k \in Key,
               NEW p \in Promo \cup {None}, NEW n \in {0, Cost}, NEW paid \in BOOLEAN,
               create_order(r, o, src, k, p, n, paid)
        PROVE  Picks(r)
    <3>1. PICK j \in Job : Do(r, j) /\ j.op = "eligible" /\ j.p = p /\ promo' = promo /\ bought' = bought
      BY <2>1, CreateOrderIs
    <3>2. p \in Promo => promo[p].state = "active"
      BY <2>1, NoneAssumption DEF create_order, _assert_promo_eligible
    <3> QED
      BY <3>1, <3>2 DEF Picks
  <2>2. ASSUME apply_promo(r) PROVE Locks(r)
    <3>1. PICK j \in Job : Do(r, j) /\ j.op = "order" /\ j.p = job[r].p /\ promo' = promo /\ bought' = bought
      BY <2>2, ApplyIs
    <3>2. /\ job[r].op = "eligible"
          /\ job[r].p \in Promo => promo[job[r].p].uses < promo[job[r].p].max /\ ~PromoLocked(job[r].p)
      BY <2>2, NoneAssumption DEF apply_promo, Quota
    <3> QED
      BY <3>1, <3>2 DEF Locks
  <2>3. ASSUME credit_points_for_order(r) PROVE Plain
    <3>1. PICK j \in Job : /\ Do(r, j) /\ (j.op = "idle" \/ j.op = "credit")
                           /\ promo' = promo /\ bought' = bought
      BY <2>3, CreditIs, IdleIs
    <3> QED
      BY <1>0, <3>1 DEF Plain
  <2>4. ASSUME NEW o \in Order, NEW s \in {"confirmed", "ready", "delivered", "cancelled"},
               update_status(r, o, s)
        PROVE  Plain
    <3>1. job' = job \/ \E j \in Job : Do(r, j) /\ j.op = "delivered"
      BY <2>4, UpdateIs
    <3>2. promo' = promo /\ bought' = bought
      BY <2>4 DEF update_status
    <3> QED
      BY <1>0, <3>1, <3>2 DEF Plain
  <2> QED
    BY <1>3, <2>1, <2>2, <2>3, <2>4 DEF OrderSteps
<1>4. ASSUME Codes PROVE (\E p \in Promo : Alters(p) \/ Makes(p)) \/ MakesAll
  <2>1. Edits => \E p \in Promo : Alters(p)
    BY EditsIs DEF Alters, Same
  <2>2. ASSUME NEW p \in Promo, NEW max \in Limits, NEW per \in Limits, NEW first \in BOOLEAN,
               create_promotion(p, max, per, first)
        PROVE  Makes(p)
    BY <2>2, CreateIs DEF Makes, Same
  <2>3. ASSUME NEW max \in Limits, bulk_generate(max) PROVE MakesAll
    BY <2>3, GenerateIs DEF MakesAll, Same
  <2> QED
    BY <1>4, <2>1, <2>2, <2>3 DEF Codes, Edits
<1>5. Programme => Plain
  BY DEF Programme, update_config, update_reward, Plain
<1>6. ASSUME Time PROVE Plain \/ \E p \in Promo : Alters(p)
  <2>1. job' = job /\ bought' = bought
    BY <1>6 DEF Time
  <2>2. promo' = promo \/ \E p \in Promo : PromotionEnds(p)
    BY <1>6 DEF Time, ReservationLapses, EarningAges, KeyForgotten
  <2>3. ASSUME NEW p \in Promo, PromotionEnds(p) PROVE Alters(p)
    <3>0. promo[p] \in PromoCol /\ promo[p].state # "absent"
      BY <2>3 DEF PromotionEnds, Types, Columns
    <3>1. promo' = [promo EXCEPT ![p] = [promo[p] EXCEPT !.ended = TRUE]]
      BY <2>3 DEF PromotionEnds
    <3>2. PICK row : row = [promo[p] EXCEPT !.ended = TRUE]
      OBVIOUS
    <3>3. Changed(promo[p], row)
      BY <3>0, <3>2, EndedIs
    <3>4. row.max = promo[p].max
      BY <3>0, <3>2 DEF PromoCol
    <3>5. row \in PromoCol
      BY <3>3 DEF Changed
    <3> QED
      BY <2>1, <3>1, <3>2, <3>3, <3>4, <3>5 DEF Alters
  <2> QED
    BY <2>1, <2>2, <2>3 DEF Plain
<1>7. UNCHANGED vars => Plain
  BY DEF vars, Plain
<1> QED
  BY <1>1, <1>2, <1>3, <1>4, <1>5, <1>6, <1>7, StepsOfOrders DEF Asides, CodeStep

(* The handlers after a step, one of which goes on as j. *)
LEMMA CodedMoves ==
    ASSUME Types, CodeJobs, Alone, NEW r \in Proc, NEW j, Do(r, j),
           \A s \in Proc, p \in Promo : s # r /\ job[s].p = p => Fits(job[s], promo'[p]),
           \A p \in Promo : j.p = p => Fits(j, promo'[p]),
           j.op \in {"order", "code"} /\ j.p \in Promo =>
             \A s \in Proc : s # r => ~(job[s].op = j.op /\ job[s].p = j.p)
    PROVE  CodeJobs' /\ Alone'
<1>1. job'[r] = j /\ \A s \in Proc : s # r => job'[s] = job[s]
  BY DoIs DEF Types, Jobs
<1>2. \A s \in Proc, p \in Promo : job'[s].p = p => Fits(job'[s], promo'[p])
  BY <1>1
<1>3. CodeJobs'
  BY <1>2 DEF CodeJobs, Fits
<1>4. Alone'
  BY <1>1 DEF Alone
<1> QED
  BY <1>3, <1>4

LEMMA NotCoding == \A j, row : j.op \notin Coding => Fits(j, row) /\ j.op \notin {"order", "code"}
BY DEF Coding, Placing, Fits

LEMMA CodedStep == Types /\ Owned /\ Coded /\ [Next]_vars => Coded'
<1> SUFFICES ASSUME Types, Owned, Coded, [Next]_vars PROVE Coded'
  OBVIOUS
<1>0. promo \in [Promo -> PromoCol] /\ CodeRows /\ CodeJobs /\ Alone
  BY DEF Types, Columns, Coded
<1>a. "order" \in Placing /\ "eligible" \in Placing /\ "code" \notin Placing /\ "order" # "code"
  BY DEF Placing
<1>1. ASSUME Plain PROVE Coded'
  <2>1. CodeRows'
    BY <1>0, <1>1 DEF Plain, CodeRows
  <2>2. CASE job' = job
    BY <1>0, <1>1, <2>1, <2>2 DEF Plain, Coded, CodeJobs, Fits, Alone
  <2>3. ASSUME NEW r \in Proc, NEW j, Do(r, j), j.op \notin Coding PROVE Coded'
    <3>1. \A s \in Proc, p \in Promo : job[s].p = p => Fits(job[s], promo'[p])
      BY <1>0, <1>1 DEF Plain, CodeJobs
    <3>2. CodeJobs' /\ Alone'
      BY <1>0, <2>3, <3>1, NotCoding, CodedMoves
    <3> QED
      BY <2>1, <3>2 DEF Coded
  <2> QED
    BY <1>1, <2>2, <2>3 DEF Plain
<1>2. ASSUME NEW r \in Proc, Picks(r) PROVE Coded'
  <2>1. PICK j : /\ Do(r, j) /\ j.op = "eligible"
                 /\ j.p \in Promo => promo[j.p].state # "absent"
    BY <1>2 DEF Picks
  <2>2. promo' = promo
    BY <1>2 DEF Picks
  <2>3. \A p \in Promo : j.p = p => Fits(j, promo'[p])
    BY <1>a, <2>1, <2>2 DEF Fits
  <2>4. CodeJobs' /\ Alone'
    BY <1>0, <2>1, <2>2, <2>3, CodedMoves DEF CodeJobs
  <2> QED
    BY <1>0, <2>2, <2>4 DEF Coded, CodeRows
<1>3. ASSUME NEW r \in Proc, Locks(r) PROVE Coded'
  <2>1. PICK j : /\ Do(r, j) /\ j.op = "order" /\ j.p = job[r].p
                 /\ j.p \in Promo => promo[j.p].uses < promo[j.p].max /\ ~PromoLocked(j.p)
    BY <1>3 DEF Locks
  <2>2. promo' = promo /\ job[r].op = "eligible"
    BY <1>3 DEF Locks
  <2>3. \A p \in Promo : j.p = p => Fits(j, promo'[p])
    BY <1>0, <1>a, <2>1, <2>2 DEF Fits, CodeJobs
  <2>4. j.p \in Promo => \A s \in Proc : ~(job[s].op = "order" /\ job[s].p = j.p)
    BY <2>1 DEF PromoLocked
  <2>5. CodeJobs' /\ Alone'
    BY <1>0, <2>1, <2>2, <2>3, <2>4, CodedMoves DEF CodeJobs
  <2> QED
    BY <1>0, <2>2, <2>5 DEF Coded, CodeRows
<1>4. ASSUME NEW r \in Proc, OrderCommit(r) PROVE Coded'
  <2>1. /\ job[r] \in Job /\ JobOK(job[r]) /\ job[r].op = "order" /\ Do(r, Afterwards(job[r]))
    BY <1>4, OrderCommitIs
  <2>2. PICK i \in Job : i = Afterwards(job[r]) /\ i.op \in {"idle", "usage", "delivered"}
    BY <2>1, AfterIs
  <2>3. i.op \notin Coding /\ Do(r, i)
    BY <2>1, <2>2 DEF Coding, Placing
  <2>4. CASE job[r].p = None
    <3>1. promo' = promo
      BY <1>4, <2>4, OrderCommitIs
    <3>2. CodeJobs' /\ Alone'
      BY <1>0, <2>3, <3>1, NotCoding, CodedMoves DEF CodeJobs
    <3> QED
      BY <1>0, <3>1, <3>2 DEF Coded, CodeRows
  <2>5. CASE job[r].p # None
    <3>1. PICK p \in Promo : p = job[r].p /\ promo' = [promo EXCEPT ![p].uses = @ + 1]
      BY <1>4, <2>5, OrderCommitIs
    <3>2. PICK row \in PromoCol : /\ row.uses = promo[p].uses + 1
                                  /\ row.state = promo[p].state /\ row.bought = promo[p].bought
                                  /\ row.max = promo[p].max /\ row.peak = promo[p].peak
                                  /\ promo' = [promo EXCEPT ![p] = row]
      BY <1>0, <3>1, UsesPlus
    <3>3. promo'[p] = row /\ \A q \in Promo : q # p => promo'[q] = promo[q]
      BY <1>0, <3>2, PromoSet
    <3>4. /\ promo[p].state # "absent" /\ promo[p].uses < promo[p].max
          /\ promo[p].uses \in Nat /\ promo[p].max \in Int /\ promo[p].peak \in Int
      BY <1>0, <1>a, <2>1, <3>1, LimitsAre DEF CodeJobs, Fits, PromoCol
    <3>5. row.max <= row.peak /\ row.uses <= row.peak
      BY <1>0, <3>2, <3>4 DEF CodeRows
    <3>6. CodeRows'
      BY <1>0, <3>2, <3>3, <3>4, <3>5 DEF CodeRows
    <3>7. \A s \in Proc, q \in Promo : s # r /\ job[s].p = q => Fits(job[s], promo'[q])
      <4> TAKE s \in Proc, q \in Promo
      <4> HAVE s # r /\ job[s].p = q
      <4>1. CASE q # p
        BY <1>0, <3>3, <4>1 DEF CodeJobs
      <4>2. CASE q = p
        <5>1. job[s].op # "order"
          BY <1>0, <2>1, <3>1, <4>2 DEF Alone
        <5> QED
          BY <1>0, <3>2, <3>3, <4>2, <5>1 DEF CodeJobs, Fits
      <4> QED
        BY <4>1, <4>2
    <3>8. CodeJobs' /\ Alone'
      BY <1>0, <2>3, <3>7, NotCoding, CodedMoves
    <3> QED
      BY <3>6, <3>8 DEF Coded
  <2> QED
    BY <2>4, <2>5
<1>5. ASSUME NEW r \in Proc, IssueCode(r) PROVE Coded'
  <2>1. PICK p \in Promo : p = job[r].p /\ job[r].op = "code" /\ Do(r, Idle)
    BY <1>5, IssueIs
  <2>2. PICK row \in PromoCol : NewCode(row) /\ promo' = [promo EXCEPT ![p] = row]
    BY <1>5, <2>1, IssueIs
  <2>3. promo'[p] = row /\ \A q \in Promo : q # p => promo'[q] = promo[q]
    BY <1>0, <2>2, PromoSet
  <2>4. promo[p].state = "absent"
    BY <1>0, <2>1 DEF CodeJobs, Fits
  <2>5. CodeRows'
    <3>1. 0 <= row.peak
      BY LimitsAre, LimitAssumption
    <3> QED
      BY <1>0, <2>2, <2>3, <3>1 DEF CodeRows, NewCode
  <2>6. \A s \in Proc, q \in Promo : s # r /\ job[s].p = q => Fits(job[s], promo'[q])
    <3> TAKE s \in Proc, q \in Promo
    <3> HAVE s # r /\ job[s].p = q
    <3>1. CASE q # p
      BY <1>0, <2>3, <3>1 DEF CodeJobs
    <3>2. CASE q = p
      <4>1. job[s].op # "code"
        BY <1>0, <2>1, <3>2 DEF Alone
      <4>2. job[s].op \notin Placing
        BY <1>0, <2>4, <3>2 DEF CodeJobs, Fits
      <4> QED
        BY <1>a, <4>1, <4>2 DEF Fits
    <3> QED
      BY <3>1, <3>2
  <2>7. Idle.op \notin Coding
    BY IdleIs DEF Coding, Placing
  <2>8. CodeJobs' /\ Alone'
    BY <1>0, <2>1, <2>6, <2>7, NotCoding, CodedMoves
  <2> QED
    BY <2>5, <2>8 DEF Coded
<1>6. ASSUME NEW r \in Proc, NEW p \in Promo, Buys(r, p) PROVE Coded'
  <2>1. PICK j : Do(r, j) /\ j.op = "code" /\ j.p = p
    BY <1>6 DEF Buys
  <2>2. promo' = promo /\ promo[p].state = "absent" /\ \A s \in Proc : job[s].p # p
    BY <1>6 DEF Buys
  <2>3. \A q \in Promo : j.p = q => Fits(j, promo'[q])
    BY <1>a, <2>1, <2>2 DEF Fits
  <2>4. CodeJobs' /\ Alone'
    BY <1>0, <2>1, <2>2, <2>3, CodedMoves DEF CodeJobs
  <2> QED
    BY <1>0, <2>2, <2>4 DEF Coded, CodeRows
<1>7. ASSUME NEW p \in Promo, Alters(p) PROVE Coded'
  <2>1. PICK row \in PromoCol : /\ Changed(promo[p], row) /\ promo' = [promo EXCEPT ![p] = row]
                                /\ ~PromoLocked(p) \/ row.max = promo[p].max
    BY <1>7 DEF Alters
  <2>2. promo'[p] = row /\ \A q \in Promo : q # p => promo'[q] = promo[q]
    BY <1>0, <2>1, PromoSet
  <2>3. job' = job
    BY <1>7 DEF Alters
  <2>4. /\ promo[p].uses \in Nat /\ promo[p].peak \in Int /\ row.peak \in Int
        /\ promo[p].max <= promo[p].peak /\ promo[p].uses <= promo[p].peak
    BY <1>0, LimitsAre DEF PromoCol, CodeRows
  <2>5. row.max <= row.peak /\ row.uses <= row.peak /\ row.state # "absent"
    BY <2>1, <2>4 DEF Changed
  <2>6. CodeRows'
    BY <1>0, <2>2, <2>5 DEF CodeRows
  <2>7. \A s \in Proc : job[s].p = p => Fits(job[s], row)
    <3> TAKE s \in Proc
    <3> HAVE job[s].p = p
    <3>1. Fits(job[s], promo[p])
      BY <1>0 DEF CodeJobs
    <3>2. job[s].op = "order" => row.max = promo[p].max
      BY <2>1 DEF PromoLocked
    <3> QED
      BY <2>1, <3>1, <3>2 DEF Fits, Changed
  <2>8. CodeJobs'
    BY <1>0, <2>2, <2>3, <2>7 DEF CodeJobs, Fits
  <2> QED
    BY <1>0, <2>3, <2>6, <2>8 DEF Coded, Alone
<1>8. ASSUME NEW p \in Promo, Makes(p) PROVE Coded'
  <2>1. PICK row \in PromoCol : NewCode(row) /\ ~row.bought /\ promo' = [promo EXCEPT ![p] = row]
    BY <1>8 DEF Makes
  <2>2. promo'[p] = row /\ \A q \in Promo : q # p => promo'[q] = promo[q]
    BY <1>0, <2>1, PromoSet
  <2>3. job' = job /\ \A s \in Proc : job[s].p # p
    BY <1>8 DEF Makes
  <2>4. 0 <= row.peak
    BY LimitsAre, LimitAssumption
  <2>5. CodeRows'
    BY <1>0, <2>1, <2>2, <2>4 DEF CodeRows, NewCode
  <2>6. CodeJobs'
    BY <1>0, <2>2, <2>3 DEF CodeJobs, Fits
  <2> QED
    BY <1>0, <2>3, <2>5, <2>6 DEF Coded, Alone
<1>9. ASSUME MakesAll PROVE Coded'
  <2>1. PICK row \in PromoCol : NewCode(row) /\ ~row.bought /\ promo' = [p \in Promo |-> row]
    BY <1>9 DEF MakesAll
  <2>2. job' = job /\ \A s \in Proc, p \in Promo : job[s].p # p
    BY <1>9, NoneAssumption DEF MakesAll
  <2>3. 0 <= row.peak
    BY LimitsAre, LimitAssumption
  <2>4. CodeRows'
    BY <2>1, <2>3 DEF CodeRows, NewCode
  <2>5. CodeJobs' /\ Alone'
    BY <1>0, <2>2 DEF CodeJobs, Alone
  <2> QED
    BY <2>4, <2>5 DEF Coded
<1> QED
  BY <1>1, <1>2, <1>3, <1>4, <1>5, <1>6, <1>7, <1>8, <1>9, CodeSteps DEF CodeStep

LEMMA CodedInit == Init => Coded
<1> SUFFICES ASSUME Init PROVE Coded
  OBVIOUS
<1>1. \A p \in Promo : promo[p] = NoPromo
  BY DEF Init
<1>2. \A r \in Proc : job[r].op = "idle"
  BY IdleIs DEF Init
<1>3. CodeRows
  BY <1>1, PromoIs DEF CodeRows
<1>4. CodeJobs /\ Alone
  BY <1>2 DEF CodeJobs, Fits, Placing, Alone
<1> QED
  BY <1>3, <1>4 DEF Coded

-----------------------------------------------------------------------------
(* The uses of a code are its orders; a code is paid before it is issued. *)

OrdersWith(p) == {o \in Order : order[o].promo = p}
Counted == \A p \in Promo : promo[p].uses = Cardinality(OrdersWith(p))

Paid == {p \in Promo : promo[p].bought \/ \E r \in Proc : job[r].op = "code" /\ job[r].p = p}
Backed == Cardinality(Paid) <= bought

LEMMA Finites == /\ \A p : IsFiniteSet(OrdersWith(p)) /\ IsFiniteSet(Paid)
                 /\ \A p : Cardinality(OrdersWith(p)) \in Nat
BY FiniteAssumption, FS_Subset, FS_CardinalityType DEF OrdersWith, Paid

LEMMA UsesIs ==
    ASSUME Types, Coded, [Next]_vars, ~\E r \in Proc : OrderCommit(r)
    PROVE  \A p \in Promo : promo'[p].uses = promo[p].uses
<1>0. promo \in [Promo -> PromoCol] /\ CodeRows /\ CodeJobs
  BY DEF Types, Columns, Coded
<1>1. ASSUME NEW p \in Promo, NEW row \in PromoCol, promo' = [promo EXCEPT ![p] = row],
             row.uses = promo[p].uses
      PROVE  \A q \in Promo : promo'[q].uses = promo[q].uses
  BY <1>0, <1>1, PromoSet
<1>2. ASSUME NEW r \in Proc, IssueCode(r) PROVE \A q \in Promo : promo'[q].uses = promo[q].uses
  <2>1. PICK p \in Promo : p = job[r].p /\ job[r].op = "code"
    BY <1>2, IssueIs
  <2>2. PICK row \in PromoCol : NewCode(row) /\ promo' = [promo EXCEPT ![p] = row]
    BY <1>2, <2>1, IssueIs
  <2>3. promo[p].uses = 0
    BY <1>0, <2>1 DEF CodeJobs, CodeRows, Fits
  <2> QED
    BY <1>1, <2>2, <2>3 DEF NewCode
<1>3. ASSUME NEW p \in Promo, Alters(p) PROVE \A q \in Promo : promo'[q].uses = promo[q].uses
  BY <1>1, <1>3 DEF Alters, Changed
<1>4. ASSUME NEW p \in Promo, Makes(p) PROVE \A q \in Promo : promo'[q].uses = promo[q].uses
  BY <1>0, <1>1, <1>4 DEF Makes, NewCode, CodeRows
<1>5. ASSUME MakesAll PROVE \A q \in Promo : promo'[q].uses = promo[q].uses
  BY <1>0, <1>5 DEF MakesAll, NewCode, CodeRows
<1> QED
  BY <1>2, <1>3, <1>4, <1>5, CodeSteps DEF CodeStep, Plain, Picks, Locks, Buys

LEMMA CountedStep == Types /\ Owned /\ Coded /\ Counted /\ [Next]_vars => Counted'
<1> SUFFICES ASSUME Types, Owned, Coded, Counted, [Next]_vars PROVE Counted'
  OBVIOUS
<1>1. ASSUME NEW r \in Proc, OrderCommit(r) PROVE Counted'
  <2>1. PICK o \in Order : o = job[r].o /\ Inserts(r, o)
    BY <1>1, CommitInserts
  <2>2. CASE job[r].p = None
    <3>1. promo' = promo
      BY <1>1, <2>2, OrderCommitIs
    <3>2. \A q \in Promo : OrdersWith(q)' = OrdersWith(q)
      BY <2>1, <2>2 DEF Inserts, OrdersWith
    <3> QED
      BY <3>1, <3>2 DEF Counted
  <2>3. CASE job[r].p # None
    <3>0. promo \in [Promo -> PromoCol]
      BY DEF Types, Columns
    <3>1. PICK p \in Promo : p = job[r].p /\ promo' = [promo EXCEPT ![p].uses = @ + 1]
      BY <1>1, <2>3, OrderCommitIs
    <3>2. PICK row \in PromoCol : row.uses = promo[p].uses + 1 /\ promo' = [promo EXCEPT ![p] = row]
      BY <3>0, <3>1, UsesPlus
    <3>3. promo'[p] = row /\ \A q \in Promo : q # p => promo'[q] = promo[q]
      BY <3>0, <3>2, PromoSet
    <3>4. \A q \in Promo : q # p => OrdersWith(q)' = OrdersWith(q)
      BY <2>1, <3>1, NoneAssumption DEF Inserts, OrdersWith
    <3>5. OrdersWith(p)' = OrdersWith(p) \cup {o} /\ o \notin OrdersWith(p)
      BY <2>1, <3>1, NoneAssumption DEF Inserts, OrdersWith
    <3>6. Cardinality(OrdersWith(p) \cup {o}) = Cardinality(OrdersWith(p)) + 1
      BY <3>5, Finites, FS_AddElement
    <3> QED
      BY <3>2, <3>3, <3>4, <3>5, <3>6 DEF Counted
  <2> QED
    BY <2>2, <2>3
<1>2. ASSUME ~\E r \in Proc : OrderCommit(r) PROVE Counted'
  <2>1. Kept
    BY <1>2, KeptOrCommit
  <2>2. \A p \in Promo : OrdersWith(p)' = OrdersWith(p)
    BY <2>1 DEF Kept, OrdersWith
  <2> QED
    BY <1>2, <2>2, UsesIs DEF Counted
<1> QED
  BY <1>1, <1>2

LEMMA CountedInit == Init => Counted
<1> SUFFICES ASSUME Init, NEW p \in Promo PROVE promo[p].uses = Cardinality(OrdersWith(p))
  BY DEF Counted
<1>1. OrdersWith(p) = {}
  BY NoneAssumption DEF Init, OrdersWith, NoOrder
<1> QED
  BY <1>1, FS_EmptySet DEF Init, NoPromo

LEMMA PaidMoves ==
    ASSUME Types, NEW r \in Proc, NEW j, Do(r, j), \A p \in Promo : promo'[p].bought => p \in Paid
    PROVE  /\ j.op # "code" => Paid' \subseteq Paid
           /\ \A p \in Promo : j.p = p => Paid' \subseteq Paid \cup {p}
<1>1. job'[r] = j /\ \A s \in Proc : s # r => job'[s] = job[s]
  BY DoIs DEF Types, Jobs
<1> QED
  BY <1>1 DEF Paid

LEMMA PaidStep ==
    ASSUME Types, [Next]_vars
    PROVE  \/ bought' = bought /\ Paid' \subseteq Paid
           \/ bought' = bought + 1 /\ \E p \in Promo : Paid' \subseteq Paid \cup {p}
<1>0. promo \in [Promo -> PromoCol]
  BY DEF Types, Columns
<1>a. \A p \in Promo : promo[p].bought => p \in Paid
  BY DEF Paid
<1>b. "code" \in Coding /\ Idle.op # "code"
  BY IdleIs DEF Coding
<1>1. ASSUME Plain PROVE bought' = bought /\ Paid' \subseteq Paid
  <2>1. CASE job' = job
    BY <1>1, <2>1 DEF Plain, Paid
  <2>2. CASE job' # job
    BY <1>1, <1>a, <1>b, <2>2, PaidMoves DEF Plain
  <2> QED
    BY <2>1, <2>2
<1>2. ASSUME NEW r \in Proc, Picks(r) \/ Locks(r) PROVE bought' = bought /\ Paid' \subseteq Paid
  <2>1. PICK j : Do(r, j) /\ j.op # "code"
    BY <1>2 DEF Picks, Locks
  <2>2. promo' = promo /\ bought' = bought
    BY <1>2 DEF Picks, Locks
  <2> QED
    BY <1>a, <2>1, <2>2, PaidMoves
<1>3. ASSUME NEW r \in Proc, OrderCommit(r) PROVE bought' = bought /\ Paid' \subseteq Paid
  <2>1. /\ job[r] \in Job /\ JobOK(job[r]) /\ job[r].op = "order" /\ Do(r, Afterwards(job[r]))
        /\ bought' = bought
    BY <1>3, OrderCommitIs
  <2>2. PICK i \in Job : i = Afterwards(job[r]) /\ i.op \in {"idle", "usage", "delivered"}
    BY <2>1, AfterIs
  <2>3. \A q \in Promo : promo'[q].bought = promo[q].bought
    <3>1. CASE job[r].p = None
      BY <1>3, <3>1, OrderCommitIs
    <3>2. CASE job[r].p # None
      <4>1. PICK p \in Promo : promo' = [promo EXCEPT ![p].uses = @ + 1]
        BY <1>3, <3>2, OrderCommitIs
      <4>2. PICK row \in PromoCol : row.bought = promo[p].bought /\ promo' = [promo EXCEPT ![p] = row]
        BY <1>0, <4>1, UsesPlus
      <4> QED
        BY <1>0, <4>2, PromoSet
    <3> QED
      BY <3>1, <3>2
  <2> QED
    BY <1>a, <2>1, <2>2, <2>3, PaidMoves
<1>4. ASSUME NEW r \in Proc, IssueCode(r) PROVE bought' = bought /\ Paid' \subseteq Paid
  <2>1. PICK p \in Promo : p = job[r].p /\ job[r].op = "code" /\ Do(r, Idle) /\ bought' = bought
    BY <1>4, IssueIs
  <2>2. PICK row \in PromoCol : promo' = [promo EXCEPT ![p] = row]
    BY <1>4, <2>1, IssueIs
  <2>3. p \in Paid /\ \A q \in Promo : q # p => promo'[q] = promo[q]
    BY <1>0, <2>1, <2>2, PromoSet DEF Paid
  <2>4. \A q \in Promo : promo'[q].bought => q \in Paid
    BY <1>a, <2>3
  <2> QED
    BY <1>b, <2>1, <2>4, PaidMoves
<1>5. ASSUME NEW r \in Proc, NEW p \in Promo, Buys(r, p)
      PROVE  bought' = bought + 1 /\ Paid' \subseteq Paid \cup {p}
  <2>1. PICK j : Do(r, j) /\ j.p = p
    BY <1>5 DEF Buys
  <2>2. promo' = promo /\ bought' = bought + 1
    BY <1>5 DEF Buys
  <2> QED
    BY <1>a, <2>1, <2>2, PaidMoves
<1>6. ASSUME NEW p \in Promo, Alters(p) PROVE bought' = bought /\ Paid' \subseteq Paid
  BY <1>0, <1>6, PromoSet DEF Alters, Changed, Paid
<1>7. ASSUME NEW p \in Promo, Makes(p) PROVE bought' = bought /\ Paid' \subseteq Paid
  BY <1>0, <1>7, PromoSet DEF Makes, Paid
<1>8. ASSUME MakesAll PROVE bought' = bought /\ Paid' \subseteq Paid
  BY <1>8 DEF MakesAll, Paid
<1> QED
  BY <1>1, <1>2, <1>3, <1>4, <1>5, <1>6, <1>7, <1>8, CodeSteps DEF CodeStep

LEMMA BackedStep == Types /\ Backed /\ [Next]_vars => Backed'
<1> SUFFICES ASSUME Types, Backed, [Next]_vars PROVE Backed'
  OBVIOUS
<1>0. bought \in Nat /\ Cardinality(Paid) <= bought /\ IsFiniteSet(Paid)
  BY Finites DEF Types, Columns, Backed
<1>1. ASSUME bought' = bought, Paid' \subseteq Paid PROVE Cardinality(Paid') <= bought'
  <2>1. Cardinality(Paid) \in Nat /\ Cardinality(Paid') \in Nat /\ Cardinality(Paid') <= Cardinality(Paid)
    BY <1>0, <1>1, Fewer
  <2> QED
    BY <1>0, <1>1, <2>1
<1>2. ASSUME bought' = bought + 1, NEW p \in Promo, Paid' \subseteq Paid \cup {p}
      PROVE  Cardinality(Paid') <= bought'
  <2>1. Cardinality(Paid) \in Nat /\ Cardinality(Paid') \in Nat
        /\ Cardinality(Paid') <= Cardinality(Paid) + 1
    BY <1>0, <1>2, OneMore
  <2> QED
    BY <1>0, <1>2, <2>1
<1> QED
  BY <1>1, <1>2, PaidStep DEF Backed

LEMMA BackedInit == Init => Backed
<1> SUFFICES ASSUME Init PROVE Backed
  OBVIOUS
<1>1. Paid = {}
  BY IdleIs, PromoIs DEF Init, Paid
<1> QED
  BY <1>1, FS_EmptySet DEF Backed, Init

-----------------------------------------------------------------------------
(***************************************************************************)
(* The limit per customer.  When handlers do not overlap and do not die,   *)
(* the customer's orders with a code have their usage rows or a handler    *)
(* about to write one, and an order that is being placed with a code finds *)
(* fewer usage rows than the code ever allowed.                            *)
(***************************************************************************)
Mine(p)  == {o \in Order : order[o].promo = p /\ order[o].src = "customer"}
Rows(p)  == {o \in usage : order[o].promo = p}
Orderly  == Serial /\ "crash" \notin entry
Larger   == \A p \in Promo : promo[p].per <= promo[p].most

Recorded == \A o \in Order : order[o].src = "customer" /\ order[o].promo \in Promo =>
                o \in usage \/ \E r \in Proc : job[r].op = "usage" /\ job[r].o = o
Eligible == \A r \in Proc, p \in Promo : job[r].op \in Placing /\ job[r].p = p =>
                Cardinality(Rows(p)) < promo[p].most
Limited  == \A p \in Promo : Cardinality(Mine(p)) <= promo[p].most

PerUser == Orderly => Recorded /\ Eligible /\ Limited

LEMMA LargerStep == Types /\ Larger /\ [Next]_vars => Larger'
<1> SUFFICES ASSUME Types, Larger, [Next]_vars PROVE Larger'
  OBVIOUS
<1>0. promo \in [Promo -> PromoCol]
  BY DEF Types, Columns
<1>1. ASSUME NEW p \in Promo, NEW row \in PromoCol, promo' = [promo EXCEPT ![p] = row],
             row.per <= row.most
      PROVE  Larger'
  BY <1>0, <1>1, PromoSet DEF Larger
<1>2. ASSUME NEW r \in Proc, OrderCommit(r) PROVE Larger'
  <2>1. CASE job[r].p = None
    BY <1>2, <2>1, OrderCommitIs DEF Larger
  <2>2. CASE job[r].p # None
    <3>1. PICK p \in Promo : promo' = [promo EXCEPT ![p].uses = @ + 1]
      BY <1>2, <2>2, OrderCommitIs
    <3>2. PICK row \in PromoCol : /\ row.per = promo[p].per /\ row.most = promo[p].most
                                  /\ promo' = [promo EXCEPT ![p] = row]
      BY <1>0, <3>1, UsesPlus
    <3> QED
      BY <1>1, <3>2 DEF Larger
  <2> QED
    BY <2>1, <2>2
<1>3. ASSUME NEW r \in Proc, IssueCode(r) PROVE Larger'
  <2>1. PICK p \in Promo : p = job[r].p
    BY <1>3, IssueIs
  <2>2. PICK row \in PromoCol : NewCode(row) /\ promo' = [promo EXCEPT ![p] = row]
    BY <1>3, <2>1, IssueIs
  <2> QED
    BY <1>1, <2>2 DEF NewCode
<1>4. ASSUME NEW p \in Promo, Alters(p) PROVE Larger'
  BY <1>1, <1>4 DEF Alters, Changed, Larger
<1>5. ASSUME NEW p \in Promo, Makes(p) PROVE Larger'
  BY <1>1, <1>5 DEF Makes, NewCode
<1>6. MakesAll => Larger'
  BY DEF MakesAll, NewCode, Larger
<1> QED
  BY <1>2, <1>3, <1>4, <1>5, <1>6, CodeSteps DEF CodeStep, Plain, Picks, Locks, Buys, Larger

LEMMA LargerInit == Init => Larger
BY PromoIs DEF Init, Larger

(* The largest limit of a code that exists never shrinks. *)
LEMMA MostIs ==
    ASSUME Types, Coded, [Next]_vars
    PROVE  \A p \in Promo : promo[p].state # "absent" => promo'[p].most >= promo[p].most
<1>0. /\ promo \in [Promo -> PromoCol] /\ CodeJobs
      /\ \A p \in Promo : promo[p].most \in Int
  BY LimitsAre DEF Types, Columns, Coded
<1>1. ASSUME NEW p \in Promo, NEW row \in PromoCol, promo' = [promo EXCEPT ![p] = row],
             promo[p].state = "absent" \/ row.most >= promo[p].most
      PROVE  \A q \in Promo : promo[q].state # "absent" => promo'[q].most >= promo[q].most
  BY <1>0, <1>1, PromoSet
<1>2. ASSUME NEW r \in Proc, OrderCommit(r)
      PROVE  \A q \in Promo : promo[q].state # "absent" => promo'[q].most >= promo[q].most
  <2>1. CASE job[r].p = None
    <3>1. promo' = promo
      BY <1>2, <2>1, OrderCommitIs
    <3> QED
      BY <1>0, <3>1
  <2>2. CASE job[r].p # None
    <3>1. PICK p \in Promo : promo' = [promo EXCEPT ![p].uses = @ + 1]
      BY <1>2, <2>2, OrderCommitIs
    <3>2. PICK row \in PromoCol : row.most = promo[p].most /\ promo' = [promo EXCEPT ![p] = row]
      BY <1>0, <3>1, UsesPlus
    <3> QED
      BY <1>0, <1>1, <3>2
  <2> QED
    BY <2>1, <2>2
<1>3. ASSUME NEW r \in Proc, IssueCode(r)
      PROVE  \A q \in Promo : promo[q].state # "absent" => promo'[q].most >= promo[q].most
  <2>1. PICK p \in Promo : p = job[r].p /\ job[r].op = "code"
    BY <1>3, IssueIs
  <2>2. PICK row \in PromoCol : promo' = [promo EXCEPT ![p] = row]
    BY <1>3, <2>1, IssueIs
  <2>3. promo[p].state = "absent"
    BY <1>0, <2>1 DEF CodeJobs, Fits
  <2> QED
    BY <1>1, <2>2, <2>3
<1>4. ASSUME NEW p \in Promo, Alters(p)
      PROVE  \A q \in Promo : promo[q].state # "absent" => promo'[q].most >= promo[q].most
  BY <1>1, <1>4 DEF Alters, Changed
<1>5. ASSUME NEW p \in Promo, Makes(p)
      PROVE  \A q \in Promo : promo[q].state # "absent" => promo'[q].most >= promo[q].most
  BY <1>1, <1>5 DEF Makes
<1>6. MakesAll => \A q \in Promo : promo[q].state = "absent"
  BY DEF MakesAll
<1>7. promo' = promo => \A q \in Promo : promo'[q].most >= promo[q].most
  BY <1>0
<1> QED
  BY <1>2, <1>3, <1>4, <1>5, <1>6, <1>7, CodeSteps DEF CodeStep, Plain, Picks, Locks, Buys

(* The other steps: no usage is to be recorded, and no order to be placed. *)
Elsewhere ==
    /\ usage' = usage /\ Kept
    /\ job' = job \/ \E r \in Proc : \E j : Do(r, j) /\ j.op \notin Placing /\ job[r].op # "usage"

LEMMA ElsewhereIs ==
    ASSUME Types, [Next]_vars
    PROVE  \/ Elsewhere
           \/ \E r \in Proc : \/ record_promo_usage(r) \/ Die(r) \/ OrderCommit(r) \/ apply_promo(r)
                              \/ \E o \in Order, src \in Source, k \in Key,
                                    p \in Promo \cup {None}, n \in {0, Cost}, paid \in BOOLEAN :
                                   create_order(r, o, src, k, p, n, paid)
<1>0. /\ order' = order => Kept
      /\ Idle.op = "idle" /\ "idle" \notin Placing /\ "add" \notin Placing /\ "reserve" \notin Placing
      /\ "expire" \notin Placing /\ "notice" \notin Placing /\ "code" \notin Placing
      /\ "delivered" \notin Placing /\ "credit" \notin Placing
  BY IdleIs DEF Kept, Placing
<1>1. ASSUME NEW r \in Proc, Begins(r) PROVE Elsewhere
  <2>1. /\ job[r] = Idle /\ usage' = usage /\ order' = order
        /\ \E j \in Job : Do(r, j) /\ j.op \in {"add", "reserve", "expire", "notice"}
    BY <1>1, BeginsIs DEF Free
  <2> QED
    BY <1>0, <2>1 DEF Elsewhere
<1>2. ASSUME NEW r \in Proc, Refuse(r) \/ NoticeCommit(r) \/ IssueCode(r) \/ CreditCommit(r)
                             \/ AddCommit(r) \/ ExpireCommit(r) \/ ReserveCommit(r)
      PROVE  Elsewhere
  <2>1. Do(r, Idle) /\ usage' = usage /\ order' = order /\ job[r].op # "usage"
    BY <1>2 DEF Refuse, NoticeCommit, IssueCode, CreditCommit, AddCommit, ExpireCommit, ReserveCommit
  <2> QED
    BY <1>0, <2>1 DEF Elsewhere
<1>3. ASSUME NEW r \in Proc, \/ \E n \in 1 .. Cost : redeem_points(r, n)
                             \/ \E v \in Resv : \/ confirm_checkout_reservation(r, v)
                                                \/ cancel_checkout_reservation(r, v)
      PROVE  Elsewhere
  BY <1>0, <1>3 DEF redeem_points, confirm_checkout_reservation, cancel_checkout_reservation, Elsewhere
<1>4. ASSUME NEW r \in Proc, NEW p \in Promo, redeem_reward(r, p) PROVE Elsewhere
  <2>1. job[r] = Idle /\ usage' = usage /\ order' = order
    BY <1>4 DEF redeem_reward, Free
  <2>2. job' = job \/ \E j : Do(r, j) /\ j.op = "code"
    BY <1>4, BegunCode DEF redeem_reward
  <2> QED
    BY <1>0, <2>1, <2>2 DEF Elsewhere
<1>5. ASSUME NEW r \in Proc, credit_points_for_order(r) PROVE Elsewhere
  <2>1. PICK j \in Job : /\ Do(r, j) /\ (j = Idle \/ j.op = "credit") /\ order' = order
                         /\ usage' = usage /\ job[r].op = "delivered"
    BY <1>5, CreditIs
  <2> QED
    BY <1>0, <2>1 DEF Elsewhere
<1>6. ASSUME NEW r \in Proc, NEW o \in Order,
             NEW s \in {"confirmed", "ready", "delivered", "cancelled"}, update_status(r, o, s)
      PROVE  Elsewhere
  <2>1. usage' = usage /\ Kept
    BY <1>6, UpdateIs DEF update_status
  <2>2. job' = job \/ \E j \in Job : job[r] = Idle /\ Do(r, j) /\ j.op = "delivered"
    BY <1>6, UpdateIs
  <2> QED
    BY <1>0, <2>1, <2>2 DEF Elsewhere
<1>7. ASSUME Codes \/ Programme PROVE Elsewhere
  <2>1. Codes => job' = job /\ usage' = usage
    BY DEF Codes, create_promotion, update_promotion, toggle_promotion, delete_promotion,
           cleanup_expired_promotions, bulk_generate, Admin
  <2>2. Programme => job' = job /\ usage' = usage
    BY DEF Programme, update_config, update_reward
  <2> QED
    BY <1>0, <1>7, <2>1, <2>2, AsideIs DEF Elsewhere
<1>8. Time => Elsewhere
  BY TimeIs DEF Time, Elsewhere
<1>9. UNCHANGED vars => Elsewhere
  BY <1>0 DEF vars, Elsewhere
<1> QED
  BY <1>1, <1>2, <1>3, <1>4, <1>5, <1>6, <1>7, <1>8, <1>9, StepsOfOrders
     DEF Asides, Ends, Balances, Reservations, OrderSteps

LEMMA MineFinite == /\ \A p : IsFiniteSet(Mine(p)) /\ Cardinality(Mine(p)) \in Nat
                    /\ Types => \A p : IsFiniteSet(Rows(p)) /\ Cardinality(Rows(p)) \in Nat
BY FiniteAssumption, FS_Subset, FS_CardinalityType DEF Mine, Rows, Types, Columns

(* The orders and their usage rows stay: the limit holds, and so does what *)
(* a handler that is placing an order found.                               *)
LEMMA LimitedKept ==
    ASSUME Types, Coded, Counted, Limited, Kept, [Next]_vars
    PROVE  Limited'
<1> SUFFICES ASSUME NEW p \in Promo PROVE Cardinality(Mine(p)') <= promo'[p].most
  BY DEF Limited
<1>0. /\ promo \in [Promo -> PromoCol] /\ promo[p].most \in Int /\ CodeRows
      /\ Cardinality(Mine(p)) \in Nat
  BY LimitsAre, MineFinite DEF Types, Columns, Coded
<1>1. promo' \in [Promo -> PromoCol]
  BY TypesStep DEF Types, Columns
<1>2. promo'[p].most \in Nat
  BY <1>1, LimitsAre, LimitAssumption
<1>3. Mine(p)' = Mine(p)
  BY DEF Kept, Mine
<1>4. CASE promo[p].state # "absent"
  <2>1. promo'[p].most >= promo[p].most
    BY <1>4, MostIs
  <2>2. Cardinality(Mine(p)) <= promo[p].most
    BY DEF Limited
  <2> QED
    BY <1>0, <1>2, <1>3, <2>1, <2>2
<1>5. CASE promo[p].state = "absent"
  <2>1. Cardinality(OrdersWith(p)) = 0
    BY <1>0, <1>5 DEF CodeRows, Counted
  <2>2. OrdersWith(p) = {}
    BY <2>1, Finites, FS_EmptySet
  <2>3. Mine(p) = {}
    BY <2>2 DEF Mine, OrdersWith
  <2> QED
    BY <1>2, <1>3, <2>3, FS_EmptySet
<1> QED
  BY <1>4, <1>5

LEMMA EligibleKept ==
    ASSUME Types, Coded, Eligible, Kept, usage' = usage, [Next]_vars,
           NEW r \in Proc, NEW p \in Promo, job[r].op \in Placing, job[r].p = p
    PROVE  Cardinality(Rows(p)') < promo'[p].most
<1>1. promo[p].state # "absent" /\ Cardinality(Rows(p)) < promo[p].most
  BY DEF Coded, CodeJobs, Fits, Eligible
<1>2. promo'[p].most >= promo[p].most
  BY <1>1, MostIs
<1>3. Rows(p)' = Rows(p)
  BY DEF Kept, Rows, Types, Columns
<1>4. promo[p].most \in Int /\ promo'[p].most \in Int /\ Cardinality(Rows(p)) \in Nat
  BY TypesStep, LimitsAre, MineFinite DEF Types, Columns
<1> QED
  BY <1>1, <1>2, <1>3, <1>4

LEMMA PerUserStep ==
    Types /\ Owned /\ Single /\ Coded /\ Counted /\ Larger /\ PerUser /\ [Next]_vars => PerUser'
<1> SUFFICES ASSUME Types, Owned, Single, Coded, Counted, Larger, PerUser, [Next]_vars, Orderly'
             PROVE  Recorded' /\ Eligible' /\ Limited'
  BY DEF PerUser
<1>0. entry' = entry
  BY DEF Next, vars
<1>a. Orderly /\ Serial /\ Recorded /\ Eligible /\ Limited
  BY <1>0 DEF Orderly, Serial, PerUser
<1>b. \A r, s \in Proc : job[r] # Idle /\ job[s] # Idle => r = s
  BY <1>a DEF Single
<1>c. /\ Idle.op = "idle" /\ "idle" \notin Placing /\ "usage" \notin Placing /\ "delivered" \notin Placing
      /\ "order" \in Placing /\ "eligible" \in Placing
  BY IdleIs DEF Placing
<1>d. promo \in [Promo -> PromoCol] /\ usage \subseteq Order
  BY DEF Types, Columns
<1>1. ASSUME Elsewhere PROVE Recorded' /\ Eligible' /\ Limited'
  <2>1. Kept /\ usage' = usage
    BY <1>1 DEF Elsewhere
  <2>2. \/ job' = job
        \/ \E r \in Proc : \E j : /\ job'[r] = j /\ j.op \notin Placing /\ job[r].op # "usage"
                                  /\ \A s \in Proc : s # r => job'[s] = job[s]
    BY <1>1, DoIs DEF Elsewhere, Types, Jobs
  <2>3. \A s \in Proc : job[s].op = "usage" => job'[s] = job[s]
    BY <2>2
  <2>4. \A s \in Proc : job'[s].op \in Placing => job'[s] = job[s]
    BY <2>2
  <2>5. Recorded'
    BY <1>a, <2>1, <2>3 DEF Recorded, Kept
  <2>6. Eligible'
    <3> SUFFICES ASSUME NEW s \in Proc, NEW p \in Promo, job'[s].op \in Placing, job'[s].p = p
                 PROVE  Cardinality(Rows(p)') < promo'[p].most
      BY DEF Eligible
    <3> QED
      BY <1>a, <2>1, <2>4, EligibleKept
  <2> QED
    BY <1>a, <2>1, <2>5, <2>6, LimitedKept
<1>2. ASSUME NEW r \in Proc, record_promo_usage(r) PROVE Recorded' /\ Eligible' /\ Limited'
  <2>1. /\ job[r].op = "usage" /\ usage' = usage \cup {job[r].o} /\ Do(r, Idle)
        /\ order' = order /\ promo' = promo
    BY <1>2 DEF record_promo_usage
  <2>2. job'[r] = Idle /\ \A s \in Proc : s # r => job'[s] = job[s]
    BY <2>1, DoIs DEF Types, Jobs
  <2>3. \A s \in Proc : job'[s].op \notin Placing
    BY <1>b, <1>c, <2>1, <2>2
  <2>4. Recorded'
    BY <1>a, <2>1, <2>2 DEF Recorded
  <2>5. Limited'
    BY <1>a, <2>1 DEF Limited, Mine
  <2> QED
    BY <2>3, <2>4, <2>5 DEF Eligible
<1>3. ASSUME NEW r \in Proc, Die(r) PROVE FALSE
  BY <1>3, <1>a DEF Die, Orderly
<1>4. ASSUME NEW r \in Proc, apply_promo(r) PROVE Recorded' /\ Eligible' /\ Limited'
  <2>1. PICK j \in Job : /\ Do(r, j) /\ j.op = "order" /\ j.p = job[r].p
                         /\ order' = order /\ usage' = usage
    BY <1>4, ApplyIs
  <2>2. job[r].op = "eligible"
    BY <1>4 DEF apply_promo
  <2>3. job'[r] = j /\ \A s \in Proc : s # r => job'[s] = job[s]
    BY <2>1, DoIs DEF Types, Jobs
  <2>4. Kept
    BY <2>1 DEF Kept
  <2>5. \A s \in Proc : job[s].op = "usage" => job'[s] = job[s]
    BY <2>2, <2>3
  <2>6. Recorded'
    BY <1>a, <2>1, <2>5 DEF Recorded
  <2>7. \A s \in Proc : job'[s].op \in Placing => job[s].op \in Placing /\ job[s].p = job'[s].p
    BY <1>c, <2>1, <2>2, <2>3
  <2>8. Eligible'
    <3> SUFFICES ASSUME NEW s \in Proc, NEW p \in Promo, job'[s].op \in Placing, job'[s].p = p
                 PROVE  Cardinality(Rows(p)') < promo'[p].most
      BY DEF Eligible
    <3> QED
      BY <1>a, <2>1, <2>4, <2>7, EligibleKept
  <2> QED
    BY <1>a, <2>4, <2>6, <2>8, LimitedKept
<1>5. ASSUME NEW r \in Proc, NEW o \in Order, NEW src \in Source, NEW k \in Key,
             NEW p \in Promo \cup {None}, NEW n \in {0, Cost}, NEW paid \in BOOLEAN,
             create_order(r, o, src, k, p, n, paid)
      PROVE  Recorded' /\ Eligible' /\ Limited'
  <2>1. PICK j \in Job : /\ Do(r, j) /\ j.op = "eligible" /\ j.p = p
                         /\ order' = order /\ usage' = usage /\ promo' = promo
    BY <1>5, CreateOrderIs
  <2>2. job[r] = Idle
    BY <1>5 DEF create_order, Free
  <2>3. job'[r] = j /\ \A s \in Proc : s # r => job'[s] = job[s]
    BY <2>1, DoIs DEF Types, Jobs
  <2>4. Kept
    BY <2>1 DEF Kept
  <2>5. \A s \in Proc : job[s].op = "usage" => job'[s] = job[s]
    BY <1>c, <2>2, <2>3
  <2>6. Recorded'
    BY <1>a, <2>1, <2>5 DEF Recorded
  <2>7. p \in Promo => Cardinality(Rows(p)) < promo[p].most
    <3> SUFFICES ASSUME p \in Promo PROVE Cardinality(Rows(p)) < promo[p].most
      OBVIOUS
    <3>1. Used(p) < promo[p].per
      BY <1>5, NoneAssumption DEF create_order, _assert_promo_eligible
    <3>2. Used(p) = Cardinality(Rows(p))
      BY DEF Used, Rows
    <3>3. promo[p].per <= promo[p].most
      BY DEF Larger
    <3>4. promo[p].per \in Int /\ promo[p].most \in Int /\ Cardinality(Rows(p)) \in Nat
      BY <1>d, LimitsAre, MineFinite
    <3> QED
      BY <3>1, <3>2, <3>3, <3>4
  <2>8. Eligible'
    <3> SUFFICES ASSUME NEW s \in Proc, NEW q \in Promo, job'[s].op \in Placing, job'[s].p = q
                 PROVE  Cardinality(Rows(q)') < promo'[q].most
      BY DEF Eligible
    <3>1. Rows(q)' = Rows(q)
      BY <2>1 DEF Rows
    <3>2. CASE s = r
      BY <2>1, <2>3, <2>7, <3>1, <3>2
    <3>3. CASE s # r
      BY <1>a, <2>1, <2>3, <3>1, <3>3 DEF Eligible
    <3> QED
      BY <3>2, <3>3
  <2> QED
    BY <1>a, <2>4, <2>6, <2>8, LimitedKept
<1>6. ASSUME NEW r \in Proc, OrderCommit(r) PROVE Recorded' /\ Eligible' /\ Limited'
  <2>0. PICK o \in Order : o = job[r].o /\ Inserts(r, o)
    BY <1>6, CommitInserts
  <2>1. /\ job[r] \in Job /\ JobOK(job[r]) /\ job[r].op = "order" /\ Do(r, Afterwards(job[r]))
        /\ usage' = usage
    BY <1>6, OrderCommitIs
  <2>2. PICK i \in Job : /\ i = Afterwards(job[r]) /\ i.op \in {"idle", "usage", "delivered"}
                         /\ i.op # "idle" => i.o = o
                         /\ i.op = "usage" <=> job[r].row.src = "customer" /\ job[r].p # None
    BY <2>0, <2>1, AfterIs
  <2>3. job'[r] = i /\ \A s \in Proc : s # r => job'[s] = job[s]
    BY <2>1, <2>2, DoIs DEF Types, Jobs
  <2>4. \A s \in Proc : s # r => job[s] = Idle
    BY <1>b, <1>c, <2>1
  <2>5. Eligible'
    BY <1>c, <2>2, <2>3, <2>4 DEF Eligible
  <2>6. \A q \in Order : q # o => order'[q] = order[q]
    BY <2>0 DEF Inserts
  <2>7. \A q \in Order : order[q].src = "customer" /\ order[q].promo \in Promo => q \in usage
    BY <1>a, <1>c, <2>1, <2>4 DEF Recorded
  <2>8. Recorded'
    <3>1. order'[o].src = "customer" /\ order'[o].promo \in Promo => i.op = "usage" /\ i.o = o
      BY <2>0, <2>2, NoneAssumption DEF Inserts
    <3> QED
      BY <2>1, <2>3, <2>6, <2>7, <3>1 DEF Recorded
  <2>9. Limited'
    <3> SUFFICES ASSUME NEW p \in Promo PROVE Cardinality(Mine(p)') <= promo'[p].most
      BY DEF Limited
    <3>0. promo[p].most \in Int /\ Cardinality(Mine(p)) \in Nat /\ Cardinality(Rows(p)) \in Nat
          /\ IsFiniteSet(Mine(p)) /\ IsFiniteSet(Rows(p))
      BY <1>d, LimitsAre, MineFinite
    <3>1. promo'[p].most = promo[p].most
      <4>1. CASE job[r].p = None
        BY <1>6, <4>1, OrderCommitIs
      <4>2. CASE job[r].p # None
        <5>1. PICK q \in Promo : promo' = [promo EXCEPT ![q].uses = @ + 1]
          BY <1>6, <4>2, OrderCommitIs
        <5>2. PICK row \in PromoCol : row.most = promo[q].most /\ promo' = [promo EXCEPT ![q] = row]
          BY <1>d, <5>1, UsesPlus
        <5> QED
          BY <1>d, <5>2, PromoSet
      <4> QED
        BY <4>1, <4>2
    <3>2. CASE job[r].p # p
      <4>1. Mine(p)' \subseteq Mine(p)
        BY <2>0, <2>6, <3>2 DEF Mine, Inserts
      <4>2. Cardinality(Mine(p)') \in Nat /\ Cardinality(Mine(p)') <= Cardinality(Mine(p))
        BY <3>0, <4>1, Fewer
      <4>3. Cardinality(Mine(p)) <= promo[p].most
        BY <1>a DEF Limited
      <4> QED
        BY <3>0, <3>1, <4>2, <4>3
    <3>3. CASE job[r].p = p
      <4>1. Mine(p)' \subseteq Rows(p) \cup {o}
        BY <2>6, <2>7 DEF Mine, Rows
      <4>2. Cardinality(Mine(p)') \in Nat /\ Cardinality(Mine(p)') <= Cardinality(Rows(p)) + 1
        BY <3>0, <4>1, OneMore
      <4>3. Cardinality(Rows(p)) < promo[p].most
        BY <1>a, <1>c, <2>1, <3>3 DEF Eligible
      <4> QED
        BY <3>0, <3>1, <4>2, <4>3
    <3> QED
      BY <3>2, <3>3
  <2> QED
    BY <2>5, <2>8, <2>9
<1> QED
  BY <1>1, <1>2, <1>3, <1>4, <1>5, <1>6, ElsewhereIs DEF Source

LEMMA PerUserInit == Init => PerUser
<1> SUFFICES ASSUME Init PROVE Recorded /\ Eligible /\ Limited
  BY DEF PerUser
<1>1. \A o \in Order : order[o].promo \notin Promo
  BY NoneAssumption DEF Init, NoOrder
<1>2. \A r \in Proc : job[r].op \notin Placing
  BY IdleIs DEF Init, Placing
<1>3. \A p \in Promo : Mine(p) = {} /\ promo[p].most = 1
  BY <1>1, PromoIs DEF Init, Mine
<1>4. \A p \in Promo : Cardinality(Mine(p)) <= promo[p].most
  BY <1>3, FS_EmptySet
<1> QED
  BY <1>1, <1>2, <1>4 DEF Recorded, Eligible, Limited

-----------------------------------------------------------------------------
(***************************************************************************)
(* The theorems                                                            *)
(***************************************************************************)

(* What the model's rows, handlers and counters are in every state. *)
RewardsInv ==
    /\ Types /\ Owned /\ Single /\ OneOrderPerKey /\ Balanced
    /\ Earned /\ Once /\ Debited
    /\ Coded /\ Counted /\ Backed
    /\ Larger /\ PerUser

(* No step of the loyalty, promotion and order handlers leads out of it,   *)
(* whatever they interleave with and wherever they die.                    *)
THEOREM RewardsInductive == Spec => []RewardsInv
<1>1. Init => RewardsInv
  <2> SUFFICES ASSUME Init PROVE RewardsInv
    OBVIOUS
  <2>1. OneOrderPerKey
    BY DEF Init, OneOrderPerKey, NoOrder
  <2> QED
    BY <2>1, TypesInit, OwnedInit, SingleInit, BalancedInit, EarnedInit, OnceInit, DebitedInit,
       CodedInit, CountedInit, BackedInit, LargerInit, PerUserInit DEF RewardsInv
<1>2. RewardsInv /\ [Next]_vars => RewardsInv'
  BY TypesStep, OwnedStep, SingleStep, KeyStep, BalancedStep, EarnedStep, OnceStep, DebitedStep,
     CodedStep, CountedStep, BackedStep, LargerStep, PerUserStep DEF RewardsInv
<1> QED
  BY <1>1, <1>2, PTL DEF Spec

(* An order's transactions stay within two, and a code's uses within the   *)
(* number of orders: the columns of the tables are never overrun.          *)
THEOREM RewardsTypes == Spec => []TypeOK
<1>1. RewardsInv => TypeOK
  <2> SUFFICES ASSUME RewardsInv PROVE TypeOK
    OBVIOUS
  <2>0. Types /\ Earned /\ Counted
    BY DEF RewardsInv
  <2>1. \A o \in Order : earn[o] \in EarnRow
    <3> TAKE o \in Order
    <3>1. earn[o] \in EarnCol
      BY <2>0 DEF Types, Columns
    <3>2. earn[o].count + Cardinality(Credits(o)) <= Chances(o)
      BY <2>0 DEF Earned
    <3>3. Cardinality(Credits(o)) \in Nat
      BY CreditsFinite, FS_CardinalityType
    <3>4. Chances(o) \in 0 .. 2
      BY DEF Chances
    <3>5. earn[o].count \in 0 .. 2
      BY <3>1, <3>2, <3>3, <3>4 DEF EarnCol
    <3> QED
      BY <3>1, <3>5 DEF EarnCol, EarnRow
  <2>2. \A p \in Promo : promo[p] \in PromoRow
    <3> TAKE p \in Promo
    <3>1. promo[p] \in PromoCol
      BY <2>0 DEF Types, Columns
    <3>2. promo[p].uses = Cardinality(OrdersWith(p))
      BY <2>0 DEF Counted
    <3>3. OrdersWith(p) \subseteq Order
      BY DEF OrdersWith
    <3>4. Cardinality(OrdersWith(p)) \in Nat /\ Cardinality(Order) \in Nat
          /\ Cardinality(OrdersWith(p)) <= Cardinality(Order)
      BY <3>3, FiniteAssumption, Fewer
    <3>5. promo[p].uses \in 0 .. Cardinality(Order)
      BY <3>2, <3>4
    <3> QED
      BY <3>1, <3>5 DEF PromoCol, PromoRow
  <2>3. earn \in [Order -> EarnRow] /\ promo \in [Promo -> PromoRow]
    BY <2>0, <2>1, <2>2 DEF Types, Columns
  <2> QED
    BY <2>0, <2>3 DEF Types, Columns, Jobs, TypeOK
<1> QED
  BY <1>1, RewardsInductive, PTL

(* The conditional debits and the absolute writes of loyalty, the worker   *)
(* and create_order never take the balance below zero, and one at a time   *)
(* they keep it the sum of its transactions.                               *)
THEOREM RewardsBalance == Spec => []BalanceSound
<1>1. RewardsInv => BalanceSound
  BY DEF RewardsInv, Balanced, BalanceSound
<1> QED
  BY <1>1, RewardsInductive, PTL

(* A reservation is debited once, when it is confirmed; an order of the    *)
(* application earns once however its credits overlap, and any order when  *)
(* they do not.                                                            *)
THEOREM RewardsPaid == Spec => []PaidOnce
<1>1. RewardsInv => PaidOnce
  <2> SUFFICES ASSUME RewardsInv PROVE PaidOnce
    OBVIOUS
  <2>0. Types /\ Earned /\ Once /\ Debited
    BY DEF RewardsInv
  <2>1. ASSUME NEW o \in Order, Serial \/ order[o].src = "customer" PROVE earn[o].count <= 1
    <3>1. CASE Serial
      BY <2>0, <3>1 DEF Once
    <3>2. CASE order[o].src = "customer"
      <4>1. earn[o].count \in Nat
        BY <2>0 DEF Types, Columns, EarnCol
      <4>2. earn[o].count + Cardinality(Credits(o)) <= Chances(o)
        BY <2>0 DEF Earned
      <4>3. Cardinality(Credits(o)) \in Nat
        BY CreditsFinite, FS_CardinalityType
      <4>4. Chances(o) \in 0 .. 1
        BY <3>2 DEF Chances
      <4> QED
        BY <4>1, <4>2, <4>3, <4>4
    <3> QED
      BY <2>1, <3>1, <3>2
  <2> QED
    BY <2>0, <2>1 DEF Debited, PaidOnce
<1> QED
  BY <1>1, RewardsInductive, PTL

(* current_uses is the number of orders stored with the code and stays     *)
(* within its largest quota, and every code issued for points was paid.    *)
THEOREM RewardsCodes == Spec => []CodesAccounted
<1>1. RewardsInv => CodesAccounted
  <2> SUFFICES ASSUME RewardsInv PROVE CodesAccounted
    OBVIOUS
  <2>0. Types /\ CodeRows /\ Counted /\ Backed
    BY DEF RewardsInv, Coded
  <2>1. \A p \in Promo : /\ promo[p].uses = Cardinality({o \in Order : order[o].promo = p})
                         /\ promo[p].uses <= promo[p].peak
    BY <2>0 DEF CodeRows, Counted, OrdersWith
  <2>2. {p \in Promo : promo[p].bought} \subseteq Paid
    BY DEF Paid
  <2>3. /\ Cardinality(Paid) \in Nat /\ Cardinality({p \in Promo : promo[p].bought}) \in Nat
        /\ Cardinality({p \in Promo : promo[p].bought}) <= Cardinality(Paid)
    BY <2>2, Finites, Fewer
  <2>4. bought \in Nat /\ Cardinality(Paid) <= bought
    BY <2>0 DEF Types, Columns, Backed
  <2>5. Cardinality({p \in Promo : promo[p].bought}) <= bought
    BY <2>3, <2>4
  <2> QED
    BY <2>1, <2>5 DEF CodesAccounted
<1> QED
  BY <1>1, RewardsInductive, PTL

(* One at a time and without a crash between an order and its usage row,   *)
(* the customer's orders with a code stay within its limit per customer.   *)
THEOREM RewardsPerUser == Spec => []PerUserLimit
<1>1. RewardsInv => PerUserLimit
  BY DEF RewardsInv, PerUser, Orderly, Limited, Mine, PerUserLimit
<1> QED
  BY <1>1, RewardsInductive, PTL

(* One idempotency key is one order of the customer's, whichever requests  *)
(* overlap and however long apart they are.                                *)
THEOREM RewardsKeys == Spec => []OneOrderPerKey
<1>1. RewardsInv => OneOrderPerKey
  BY DEF RewardsInv
<1> QED
  BY <1>1, RewardsInductive, PTL
=============================================================================
