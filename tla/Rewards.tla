------------------------------ MODULE Rewards ------------------------------
(***************************************************************************)
(* The points of one customer (loyalty/), the promotion codes              *)
(* (promotions/) and the orders that spend and earn them: create_order,    *)
(* create_manual_order and the delivery of an order (orders/service.py).   *)
(*                                                                         *)
(* An order may be placed by the customer, at the counter for the customer *)
(* ("manual") or for nobody in particular ("guest").  Only the second may  *)
(* spend points on a reward; a guest has neither points nor codes.         *)
(*                                                                         *)
(* Debits are conditional UPDATEs, everything else that changes the        *)
(* balance reads it without a lock and writes the absolute result at its   *)
(* commit.  A handler is in the middle of such a pair when its job says so.*)
(*                                                                         *)
(* Abstractions.  Amounts of money are left out: an order is worth         *)
(* Base points.  A refusal that the state below does not explain (price,   *)
(* zone, kitchen closed by HACCP) may come at any time: Refuse.            *)
(***************************************************************************)
EXTENDS Integers, FiniteSets, FiniteSetsExt

CONSTANTS
    Order, Key, Promo, Resv,
    Cost,              \* loyalty_rewards.points_required
    Base, FirstBonus, Cap,  \* points of an order, first_order rule, cap
    Initial,           \* points at the start
    MaxPoints,         \* bound: the largest balance that is written
    MaxLedger,         \* bound: the largest sum of transactions
    MaxBought,         \* bound: exchanges of points for a code
    Limits,            \* values of max_uses and max_uses_per_user
    Proc, Profiles, None

ASSUME PointsAssumption == /\ Cost \in Nat \ {0} /\ MaxPoints \in Nat
                           /\ Initial \in 0 .. MaxPoints /\ MaxLedger \in Nat
                           /\ MaxBought \in Nat
                           /\ Base \in Nat /\ FirstBonus \in Nat /\ Cap \in Nat
ASSUME LimitAssumption  == Limits \subseteq Nat \ {0} /\ 1 \in Limits
ASSUME NoneAssumption   == None \notin Order \cup Key \cup Promo \cup Resv
ASSUME FiniteAssumption == /\ IsFiniteSet(Order) /\ IsFiniteSet(Promo)
                           /\ IsFiniteSet(Proc)

VARIABLES
    points,    \* loyalty_accounts.points
    ledger,    \* Initial plus the sum of loyalty_transactions.points_delta
    earn,      \* per order: its order_delivered_ transactions
    order,     \* orders
    promo,     \* promotions
    usage,     \* orders that have a promo_code_usages row
    resv,      \* loyalty_point_reservations
    bought,    \* codes paid with points: redeem_reward_ transactions
    program,   \* loyalty_config.is_active, the reward, today's notice
    job, entry

vars == <<points, ledger, earn, order, promo, usage, resv, bought, program,
          job, entry>>

OrderRow == [status : {"absent", "pending", "confirmed", "ready", "delivered",
                       "cancelled"},
             src : {"customer", "manual", "guest"}, key : Key \cup {None},
             promo : Promo \cup {None}, recent : BOOLEAN]
PromoRow == [state : {"absent", "active", "inactive"}, ended : BOOLEAN,
             uses : 0 .. Cardinality(Order), max : Limits, per : Limits,
             peak : Limits, most : Limits,  \* the largest max and per so far
             first : BOOLEAN, bought : BOOLEAN]
ResvRow  == [status : {"absent", "reserved", "confirmed", "expired",
                       "cancelled"},
             n : 0 .. Cost, lapsed : BOOLEAN, debits : 0 .. 2]
EarnRow  == [count : 0 .. 2, n : Nat, aged : BOOLEAN]
Program  == [active : BOOLEAN, reward : {"code", "product", "inactive"},
             noticed : BOOLEAN]

NoOrder == [status |-> "absent", src |-> "guest", key |-> None,
            promo |-> None, recent |-> TRUE]
NoPromo == [state |-> "absent", ended |-> FALSE, uses |-> 0, max |-> 1,
            per |-> 1, peak |-> 1, most |-> 1, first |-> FALSE, bought |-> FALSE]

(* A handler: what it is about to do (op), for which order, code and       *)
(* reservation, the balance it read and the points it moves, and the order *)
(* it is to insert.                                                        *)
Job == [op : {"idle", "add", "code", "reserve", "eligible", "order", "usage",
              "delivered", "credit", "expire", "notice"},
        o : Order \cup {None}, p : Promo \cup {None}, v : Resv \cup {None},
        seen : Int, n : Int, row : OrderRow]
Idle == [op |-> "idle", o |-> None, p |-> None, v |-> None, seen |-> 0,
         n |-> 0, row |-> NoOrder]

Serial  == "serial" \in entry
Free(r) == /\ job[r] = Idle
           /\ Serial => \A s \in Proc : job[s] = Idle
Do(r, j) == job' = [job EXCEPT ![r] = j]

-----------------------------------------------------------------------------
(* The balance *)

(* An unlocked read, and the absolute write that follows from it. *)
Write(j, delta) ==
    /\ points' = j.seen + delta /\ ledger' = ledger + delta
    /\ points' <= MaxPoints /\ ledger' \in -MaxLedger .. MaxLedger

(* UPDATE ... SET points = points - n WHERE points >= n.                   *)
(* Mutant: without the WHERE.                                              *)
DebitAnyway(n) ==
    /\ points' = points - n /\ ledger' = ledger - n
    /\ ledger' \in -MaxLedger .. MaxLedger
Debit(n) ==
    /\ points >= n /\ points' = points - n /\ ledger' = ledger - n
    /\ ledger' \in -MaxLedger .. MaxLedger

add_points(r, n) ==
    /\ "admin" \in entry /\ Free(r) /\ points + n <= MaxPoints
    /\ Do(r, [Idle EXCEPT !.op = "add", !.seen = points, !.n = n])
    /\ UNCHANGED <<points, ledger, earn, order, promo, usage, resv, bought,
                   program>>

AddCommit(r) ==
    /\ job[r].op = "add" /\ Write(job[r], job[r].n) /\ Do(r, Idle)
    /\ UNCHANGED <<earn, order, promo, usage, resv, bought, program>>

redeem_points(r, n) ==
    /\ "redeem" \in entry /\ Free(r) /\ Debit(n)
    /\ UNCHANGED <<earn, order, promo, usage, resv, bought, program, job>>

(* The points go in one transaction, the code that they buy comes in the   *)
(* next.                                                                   *)
redeem_reward(r, p) ==
    /\ "redeem" \in entry /\ Free(r) /\ program.reward # "inactive"
    /\ promo[p].state = "absent" /\ \A s \in Proc : job[s].p # p
    /\ bought < MaxBought /\ Debit(Cost)
    /\ IF program.reward = "code"
       THEN /\ Do(r, [Idle EXCEPT !.op = "code", !.p = p])
            /\ bought' = bought + 1
       ELSE UNCHANGED <<job, bought>>
    /\ UNCHANGED <<earn, order, promo, usage, resv, program>>

(* One use, for the one who paid. *)
IssueCode(r) ==
    /\ job[r].op = "code" /\ Do(r, Idle)
    /\ promo' = [promo EXCEPT ![job[r].p] =
                   [NoPromo EXCEPT !.state = "active", !.bought = TRUE]]
    /\ UNCHANGED <<points, ledger, earn, order, usage, resv, bought, program>>

-----------------------------------------------------------------------------
(* Points set aside at the checkout *)

get_available_points ==
    LET held == MapThenSumSet(LAMBDA v : resv[v].n,
                  {v \in Resv : resv[v].status = "reserved" /\ ~resv[v].lapsed})
    IN IF held < points THEN points - held ELSE 0

create_checkout_reservation(r, v, o, n) ==
    /\ "checkout" \in entry /\ Free(r)
    /\ resv[v].status = "absent" /\ \A s \in Proc : job[s].v # v
    /\ order[o].src # "guest" /\ order[o].status \in {"pending", "confirmed"}
    /\ n <= get_available_points
    /\ Do(r, [Idle EXCEPT !.op = "reserve", !.v = v, !.n = n])
    /\ UNCHANGED <<points, ledger, earn, order, promo, usage, resv, bought,
                   program>>

ReserveCommit(r) ==
    /\ job[r].op = "reserve" /\ Do(r, Idle)
    /\ resv' = [resv EXCEPT ![job[r].v] =
                  [status |-> "reserved", n |-> job[r].n, lapsed |-> FALSE,
                   debits |-> 0]]
    /\ UNCHANGED <<points, ledger, earn, order, promo, usage, bought, program>>

(* The reservation is locked; debit, transaction and status are one        *)
(* commit.                                                                 *)
confirm_checkout_reservation(r, v) ==
    /\ "checkout" \in entry /\ Free(r) /\ resv[v].status = "reserved"
    /\ IF resv[v].lapsed
       THEN /\ resv' = [resv EXCEPT ![v].status = "expired"]
            /\ UNCHANGED <<points, ledger>>
       ELSE /\ Debit(resv[v].n)
            /\ resv' = [resv EXCEPT ![v].status = "confirmed",
                                    ![v].debits = IF @ = 2 THEN 2 ELSE @ + 1]
    /\ UNCHANGED <<earn, order, promo, usage, bought, program, job>>

cancel_checkout_reservation(r, v) ==
    /\ "checkout" \in entry /\ Free(r)
    /\ resv[v].status \in {"reserved", "expired"}
    /\ resv' = [resv EXCEPT ![v].status = "cancelled"]
    /\ UNCHANGED <<points, ledger, earn, order, promo, usage, bought, program,
                   job>>

-----------------------------------------------------------------------------
(* Codes *)

(* A code that an order is about to use is locked from apply_promo's       *)
(* UPDATE to the order's commit.                                           *)
PromoLocked(p) == \E s \in Proc : job[s].op = "order" /\ job[s].p = p

Delivered == \E o \in Order : order[o].status = "delivered"
                              /\ order[o].src # "guest"

Used(p) == Cardinality({o \in usage : order[o].promo = p})

_assert_promo_eligible(p) ==
    /\ promo[p].state = "active" /\ ~promo[p].ended
    /\ Used(p) < promo[p].per
    /\ promo[p].first => ~Delivered

(* The quota belongs to the UPDATE.  Mutant: one use more. *)
QuotaPlus(p) == promo[p].state = "active" /\ promo[p].uses <= promo[p].max
Quota(p)     == promo[p].state = "active" /\ promo[p].uses < promo[p].max

Admin(p, row) ==
    /\ "promo" \in entry /\ ~PromoLocked(p)
    /\ promo' = [promo EXCEPT ![p] = row]
    /\ UNCHANGED <<points, ledger, earn, order, usage, resv, bought, program,
                   job>>

create_promotion(p, max, per, first) ==
    /\ promo[p].state = "absent" /\ \A s \in Proc : job[s].p # p
    /\ Admin(p, [NoPromo EXCEPT !.state = "active", !.max = max, !.peak = max,
                                !.per = per, !.most = per, !.first = first])

(* A campaign: as many codes as asked for, all or none. *)
bulk_generate(max) ==
    /\ "promo" \in entry /\ \A p \in Promo : promo[p].state = "absent"
    /\ \A s \in Proc : job[s].p = None
    /\ promo' = [p \in Promo |-> [NoPromo EXCEPT !.state = "active",
                                                 !.max = max, !.peak = max]]
    /\ UNCHANGED <<points, ledger, earn, order, usage, resv, bought, program,
                   job>>

update_promotion(p, max, per, first) ==
    /\ promo[p].state # "absent"
    /\ Admin(p, [promo[p] EXCEPT !.max = max, !.per = per, !.first = first,
                                 !.peak = IF max > @ THEN max ELSE @,
                                 !.most = IF per > @ THEN per ELSE @])

toggle_promotion(p, active) ==
    /\ promo[p].state # "absent"
    /\ Admin(p, [promo[p] EXCEPT !.state = IF active THEN "active"
                                           ELSE "inactive"])

(* Deleting a code only switches it off. *)
delete_promotion(p) == promo[p].state = "active" /\ toggle_promotion(p, FALSE)

cleanup_expired_promotions(p) ==
    /\ promo[p].ended /\ promo[p].state = "active" /\ toggle_promotion(p, FALSE)

-----------------------------------------------------------------------------
(* Placing an order *)

HasUser(src) == src # "guest"

(* _find_idempotent_order(user, key): within 24 hours. *)
Known(user, k) == \E o \in Order : /\ order[o].status # "absent"
                                   /\ order[o].key = k /\ order[o].recent
                                   /\ HasUser(order[o].src) = user

(* uq_orders_user_id_idempotency_key: NULLs are distinct.                  *)
(* Mutant: the index is not unique.                                        *)
UniqueNever(row) == TRUE
Unique(row) == HasUser(row.src) =>
    \A o \in Order : ~(/\ order[o].status # "absent" /\ HasUser(order[o].src)
                       /\ order[o].key = row.key)

(* create_order and create_manual_order up to the code's eligibility.  The *)
(* counter looks the key up among the orders of nobody, even when it is    *)
(* about to insert one of the customer's.                                  *)
create_order(r, o, src, k, p, n, paid) ==
    /\ src \in entry /\ Free(r) /\ order[o].status = "absent"
    /\ \A s \in Proc : job[s].o # o
    /\ ~Known(src = "customer", k)
    /\ p # None => HasUser(src) /\ _assert_promo_eligible(p)
    /\ n > 0 => src = "manual" /\ program.reward # "inactive"
    /\ paid => src # "customer"
    /\ Do(r, [Idle EXCEPT !.op = "eligible", !.o = o, !.p = p, !.n = n,
                !.row = [status |-> IF paid THEN "confirmed" ELSE "pending",
                         src |-> src, key |-> k, promo |-> p,
                         recent |-> TRUE]])
    /\ UNCHANGED <<points, ledger, earn, order, promo, usage, resv, bought,
                   program>>

(* The UPDATE of the code, then the balance the reward is checked against. *)
apply_promo(r) ==
    /\ job[r].op = "eligible"
    /\ job[r].p # None => Quota(job[r].p) /\ ~PromoLocked(job[r].p)
    /\ job[r].n <= points
    /\ Do(r, [job[r] EXCEPT !.op = "order", !.seen = points])
    /\ UNCHANGED <<points, ledger, earn, order, promo, usage, resv, bought,
                   program>>

(* What follows the commit: the usage row of a customer's code, the points *)
(* of an order paid at the counter.                                        *)
(* Mutant: nobody records the usage.                                       *)
AfterwardsNoUsage(j) ==
    IF j.row.src = "manual" /\ j.row.status = "confirmed"
    THEN [Idle EXCEPT !.op = "delivered", !.o = j.o] ELSE Idle
Afterwards(j) ==
    IF j.row.src = "customer" /\ j.p # None
    THEN [Idle EXCEPT !.op = "usage", !.o = j.o]
    ELSE IF j.row.src = "manual" /\ j.row.status = "confirmed"
         THEN [Idle EXCEPT !.op = "delivered", !.o = j.o] ELSE Idle

OrderCommit(r) ==
    LET j == job[r]
    IN /\ j.op = "order" /\ Unique(j.row)
       /\ order' = [order EXCEPT ![j.o] = j.row]
       /\ promo' = IF j.p = None THEN promo
                   ELSE [promo EXCEPT ![j.p].uses = @ + 1]
       /\ IF j.n > 0 THEN Write(j, -j.n) ELSE UNCHANGED <<points, ledger>>
       /\ Do(r, Afterwards(j))
       /\ UNCHANGED <<earn, usage, resv, bought, program>>

(* Any refusal, and the second of two orders with one key: rolled back. *)
Refuse(r) ==
    /\ job[r].op \in {"eligible", "order"} /\ Do(r, Idle)
    /\ UNCHANGED <<points, ledger, earn, order, promo, usage, resv, bought,
                   program>>

record_promo_usage(r) ==
    /\ job[r].op = "usage" /\ usage' = usage \cup {job[r].o} /\ Do(r, Idle)
    /\ UNCHANGED <<points, ledger, earn, order, promo, resv, bought, program>>

-----------------------------------------------------------------------------
(* Earning *)

compute_points_for_order ==
    LET raw == 1 + (IF Delivered THEN 0 ELSE FirstBonus)
    IN IF program.active THEN Base * (IF raw < Cap THEN raw ELSE Cap) ELSE 0

(* update_status up to its commit; delivered, it goes on to the points. *)
update_status(r, o, s) ==
    /\ "status" \in entry /\ Free(r)
    /\ <<order[o].status, s>> \in
         {<<"pending", "confirmed">>, <<"confirmed", "ready">>,
          <<"ready", "delivered">>, <<"pending", "cancelled">>,
          <<"confirmed", "cancelled">>, <<"ready", "cancelled">>}
    /\ order' = [order EXCEPT ![o].status = s]
    /\ IF s = "delivered" /\ HasUser(order[o].src)
       THEN Do(r, [Idle EXCEPT !.op = "delivered", !.o = o])
       ELSE UNCHANGED job
    /\ UNCHANGED <<points, ledger, earn, promo, usage, resv, bought, program>>

(* Mutant: the transactions are not looked at. *)
NeverCredited(o)   == FALSE
AlreadyCredited(o) == earn[o].count > 0

credit_points_for_order(r) ==
    LET o == job[r].o
        n == compute_points_for_order
    IN /\ job[r].op = "delivered"
       /\ Do(r, IF AlreadyCredited(o) \/ n = 0 THEN Idle
                ELSE [Idle EXCEPT !.op = "credit", !.o = o, !.seen = points,
                                  !.n = n])
       /\ UNCHANGED <<points, ledger, earn, order, promo, usage, resv, bought,
                      program>>

CreditCommit(r) ==
    /\ job[r].op = "credit" /\ Write(job[r], job[r].n) /\ Do(r, Idle)
    /\ earn' = [earn EXCEPT ![job[r].o] =
                  [count |-> @.count + 1, n |-> @.n + job[r].n,
                   aged |-> FALSE]]
    /\ UNCHANGED <<order, promo, usage, resv, bought, program>>

(* Everything earned before the cut-off, whatever went since. *)
Stale == MapThenSumSet(LAMBDA o : earn[o].n, {o \in Order : earn[o].aged})

(* Nothing aged, or no balance left: nothing to expire.                    *)
check_and_expire_points(r) ==
    LET n == IF Stale < points THEN Stale ELSE points
    IN /\ "expiry" \in entry /\ Free(r) /\ n \in 1 .. points
       /\ Do(r, [Idle EXCEPT !.op = "expire", !.seen = points, !.n = n])
       /\ UNCHANGED <<points, ledger, earn, order, promo, usage, resv, bought,
                      program>>

ExpireCommit(r) ==
    /\ job[r].op = "expire" /\ Write(job[r], -job[r].n) /\ Do(r, Idle)
    /\ UNCHANGED <<earn, order, promo, usage, resv, bought, program>>

(* The message goes out before the transaction that remembers it. *)
notify_expiring_points(r) ==
    /\ "expiry" \in entry /\ Free(r) /\ points > 0 /\ ~program.noticed
    /\ \E o \in Order : earn[o].n > 0
    /\ Do(r, [Idle EXCEPT !.op = "notice"])
    /\ UNCHANGED <<points, ledger, earn, order, promo, usage, resv, bought,
                   program>>

NoticeCommit(r) ==
    /\ job[r].op = "notice" /\ Do(r, Idle)
    /\ program' = [program EXCEPT !.noticed = TRUE]
    /\ UNCHANGED <<points, ledger, earn, order, promo, usage, resv, bought>>

-----------------------------------------------------------------------------
(* The programme, the clock and crashes *)

update_config(active) ==
    /\ "admin" \in entry /\ program' = [program EXCEPT !.active = active]
    /\ UNCHANGED <<points, ledger, earn, order, promo, usage, resv, bought,
                   job>>

update_reward(kind) ==
    /\ "admin" \in entry /\ program' = [program EXCEPT !.reward = kind]
    /\ UNCHANGED <<points, ledger, earn, order, promo, usage, resv, bought,
                   job>>

ReservationLapses(v) ==
    /\ resv[v].status # "absent" /\ ~resv[v].lapsed
    /\ resv' = [resv EXCEPT ![v].lapsed = TRUE] /\ UNCHANGED <<earn, order, promo>>
PromotionEnds(p) ==
    /\ promo[p].state # "absent" /\ ~promo[p].ended
    /\ promo' = [promo EXCEPT ![p].ended = TRUE] /\ UNCHANGED <<earn, order, resv>>
EarningAges(o) ==
    /\ earn[o].count > 0 /\ ~earn[o].aged
    /\ earn' = [earn EXCEPT ![o].aged = TRUE] /\ UNCHANGED <<order, promo, resv>>
KeyForgotten(o) ==
    /\ order[o].status # "absent" /\ order[o].recent
    /\ order' = [order EXCEPT ![o].recent = FALSE] /\ UNCHANGED <<earn, promo, resv>>

Time ==
    /\ "time" \in entry
    /\ \/ \E v \in Resv : ReservationLapses(v)
       \/ \E p \in Promo : PromotionEnds(p)
       \/ \E o \in Order : EarningAges(o) \/ KeyForgotten(o)
    /\ UNCHANGED <<points, ledger, usage, bought, program, job>>

(* The handler dies: what it had not committed is gone. *)
Die(r) ==
    /\ "crash" \in entry /\ job[r] # Idle /\ Do(r, Idle)
    /\ UNCHANGED <<points, ledger, earn, order, promo, usage, resv, bought,
                   program>>

-----------------------------------------------------------------------------
Init ==
    /\ points = Initial /\ ledger = Initial /\ bought = 0 /\ usage = {}
    /\ earn = [o \in Order |-> [count |-> 0, n |-> 0, aged |-> FALSE]]
    /\ order = [o \in Order |-> NoOrder]
    /\ promo = [p \in Promo |-> NoPromo]
    /\ resv = [v \in Resv |-> [status |-> "absent", n |-> 0, lapsed |-> FALSE,
                               debits |-> 0]]
    /\ program = [active |-> TRUE, reward |-> "code", noticed |-> FALSE]
    /\ job = [r \in Proc |-> Idle]
    /\ entry \in Profiles

Points(r) ==
    \/ \E n \in 1 .. Cost : add_points(r, n) \/ redeem_points(r, n)
    \/ AddCommit(r) \/ IssueCode(r)
    \/ \E p \in Promo : redeem_reward(r, p)
    \/ \E v \in Resv : \/ confirm_checkout_reservation(r, v)
                       \/ cancel_checkout_reservation(r, v)
                       \/ \E o \in Order, n \in 1 .. Cost :
                            create_checkout_reservation(r, v, o, n)
    \/ ReserveCommit(r)

Orders(r) ==
    \/ \E o \in Order, src \in {"customer", "manual", "guest"}, k \in Key,
          p \in Promo \cup {None}, n \in {0, Cost}, paid \in BOOLEAN :
         create_order(r, o, src, k, p, n, paid)
    \/ apply_promo(r) \/ OrderCommit(r) \/ Refuse(r) \/ record_promo_usage(r)
    \/ \E o \in Order, s \in {"confirmed", "ready", "delivered", "cancelled"} :
         update_status(r, o, s)
    \/ credit_points_for_order(r) \/ CreditCommit(r)

Worker(r) ==
    \/ check_and_expire_points(r) \/ ExpireCommit(r)
    \/ notify_expiring_points(r) \/ NoticeCommit(r)

Codes ==
    \/ \E p \in Promo :
        \/ \E max, per \in Limits, first \in BOOLEAN :
             \/ create_promotion(p, max, per, first)
             \/ update_promotion(p, max, per, first)
        \/ \E active \in BOOLEAN : toggle_promotion(p, active)
        \/ delete_promotion(p) \/ cleanup_expired_promotions(p)
    \/ \E max \in Limits : bulk_generate(max)

Programme ==
    \/ \E active \in BOOLEAN : update_config(active)
    \/ \E kind \in {"code", "product", "inactive"} : update_reward(kind)

Next ==
    /\ \/ \E r \in Proc : Points(r) \/ Orders(r) \/ Worker(r) \/ Die(r)
       \/ Codes \/ Programme \/ Time
    /\ UNCHANGED entry

Spec == Init /\ [][Next]_vars

-----------------------------------------------------------------------------
(* Properties *)

(* The tables hold what their columns allow, and a handler's job is one.   *)
TypeOK ==
    /\ points \in Int /\ ledger \in Int /\ bought \in Nat
    /\ earn \in [Order -> EarnRow] /\ order \in [Order -> OrderRow]
    /\ promo \in [Promo -> PromoRow] /\ usage \subseteq Order
    /\ resv \in [Resv -> ResvRow] /\ program \in Program
    /\ job \in [Proc -> Job]

(* The balance is never negative, however the conditional debits and the   *)
(* absolute writes of loyalty/account/service.py, credit_points_for_order, *)
(* check_and_expire_points and create_order overlap; and when they do not  *)
(* overlap the transactions add up to it, crashes included.                *)
BalanceSound == points >= 0 /\ (Serial => points = ledger)

(* A reservation takes its points exactly when it is confirmed, once, in   *)
(* confirm_checkout_reservation, whatever runs beside it; and an order     *)
(* earns its points once, although the counter credits it when it is paid  *)
(* and its delivery credits it again (handlers that do not overlap, or an  *)
(* order of the application).                                              *)
PaidOnce ==
    /\ \A v \in Resv :
         resv[v].debits = IF resv[v].status = "confirmed" THEN 1 ELSE 0
    /\ \A o \in Order :
         Serial \/ order[o].src = "customer" => earn[o].count <= 1

(* promotions.current_uses counts the orders stored with the code, within  *)
(* the largest quota the code ever had, under any overlap and any crash;   *)
(* and a code bought with points was paid for.                             *)
CodesAccounted ==
    /\ \A p \in Promo :
         /\ promo[p].uses = Cardinality({o \in Order : order[o].promo = p})
         /\ promo[p].uses <= promo[p].peak
    /\ Cardinality({p \in Promo : promo[p].bought}) <= bought

(* max_uses_per_user (the largest the code ever had) holds for the         *)
(* customer's own orders, one at a time and if no crash comes between an   *)
(* order and its usage row.                                                *)
PerUserLimit ==
    Serial /\ "crash" \notin entry =>
      \A p \in Promo : Cardinality({o \in Order : order[o].promo = p
                                       /\ order[o].src = "customer"})
                       <= promo[p].most

(* Two requests with one idempotency key, overlapping or a day apart, give *)
(* the customer one order, although _find_idempotent_order sees neither a  *)
(* request in progress nor, from the counter, the customer's orders.       *)
OneOrderPerKey ==
    \A o, q \in Order :
      /\ o # q /\ order[o].status # "absent" /\ order[q].status # "absent"
      /\ HasUser(order[o].src) /\ HasUser(order[q].src)
      => order[o].key # order[q].key

=============================================================================
