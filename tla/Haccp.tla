-------------------------------- MODULE Haccp --------------------------------
(***************************************************************************)
(* The strict daily HACCP workflow of one establishment                    *)
(* (app/modules/haccp/strict_service.py) and the gate it puts in front of  *)
(* new orders (app/modules/haccp/order_gate.py).                           *)
(*                                                                         *)
(* Every handler of the workflow locks the establishment row first, so it  *)
(* is one action.  The gate of an order does not: it locks the session     *)
(* rows it reads and keeps them until the order is committed, so an order  *)
(* is two actions and the handlers wait for the rows it holds.             *)
(***************************************************************************)
EXTENDS Naturals, FiniteSets

CONSTANTS
    Equipment, Task, Ingredient,  \* the items a checklist can ask for
    WeeklyTask, AdminTask,        \* tasks done once a cycle, or by an admin only
    CheckedAt,                    \* [Item -> SUBSET Kinds]: check_at_*, session_type
    Admin, Staff,                 \* the accounts
    Key,                          \* idempotency keys a client can choose
    Order,                        \* orders being created
    MaxDay, Cycle, Anchor,        \* days, length of a "week", due_from
    MaxRev, MaxSnap               \* bounds on revisions and on configuration changes

ASSUME BoundsAssumption == /\ MaxDay \in Nat \ {0} /\ MaxRev \in Nat \ {0} /\ MaxSnap \in Nat
                           /\ Cycle \in Nat \ {0} /\ Anchor \in Nat \ {0}

Item == Equipment \cup Task \cup Ingredient
Kinds == {"opening", "closing"}
Days == 1..MaxDay

\* The ticks of a day: just after midnight (within four hours of a late
\* closing the day before), the service and the hour before it, the time after
\* the last service, and the last hour before midnight.
Ticks == {"night", "service", "evening", "last_hour"}
After == [t \in Ticks |-> CASE t = "night" -> "service" [] t = "service" -> "evening"
                            [] t = "evening" -> "last_hour" [] t = "last_hour" -> "night"]

NoDay == 0
NotAsked == MaxSnap + 1   \* the item is not on the checklist
DoneInCycle == MaxSnap + 2   \* ... because an earlier session of the cycle proves it
Absent == [status |-> "none", rev |-> 0, req |-> [i \in Item |-> NotAsked],
           proof |-> [i \in Item |-> "none"], last |-> [i \in Item |-> "none"],
           counted |-> FALSE]
NoReceipt == [act |-> "none", rev |-> 0]
NoOrder == [st |-> "idle", day |-> NoDay, held |-> {}, strict |-> FALSE]

VARIABLES
    now,       \* [day, tick]: the establishment's local time
    hours,     \* business hours less closures, per day
    live,      \* configuration and stock, per item
    checks,    \* haccp_daily_sessions, with the requirements and the evidence
    receipts,  \* haccp_audit_events of subject "request:...", per session and key
    scope,     \* haccp_staff_scopes
    strict,    \* establishment_operations.strict_enabled and activated_at
    ord        \* orders between the gate and their commit

vars == <<now, hours, live, checks, receipts, scope, strict, ord>>

HaccpDailySession == [status : {"none", "in_progress", "complete", "regularized"},
                      rev : 0..MaxRev, req : [Item -> 0..(MaxSnap + 2)],
                      proof : [Item -> {"none", "ok", "bad"}],
                      last : [Item -> {"none", "ok", "bad"}], counted : BOOLEAN]

Receipt == [act : {"none", "evidence_recorded", "session_completed", "validation_refused",
                   "closing_regularized", "day_reopened"},
            rev : 0..MaxRev]

Final(row) == row.status \in {"complete", "regularized"}

access(u) == u \in Admin \/ u \in scope

(***************************************************************************)
(* Rows held by an order that passed the gate                              *)
(***************************************************************************)
Rows(S) == {r \in S : r[1] \in Days /\ checks[r[1]][r[2]].status # "none"}
Free_Always(S) == TRUE
Free(S) == \A o \in Order : ord[o].held \cap S = {}

(***************************************************************************)
(* strict_checklist.build                                                  *)
(***************************************************************************)
cycle_start(d) == IF d < Anchor THEN NoDay ELSE Anchor + ((d - Anchor) \div Cycle) * Cycle

\* A session that is complete, on its current revision, proves the task.
ProvenInCycle(i, d) ==
    \E e \in Days, k \in Kinds :
        cycle_start(d) <= e /\ e < d /\ checks[e][k].status = "complete"
        /\ checks[e][k].proof[i] = "ok"

build(d, k) == [i \in Item |->
    CASE live[i].on # "scoped" \/ k \notin CheckedAt[i] -> NotAsked
      [] i \in WeeklyTask /\ cycle_start(d) = NoDay -> NotAsked
      [] i \in WeeklyTask /\ cycle_start(d) # NoDay /\ ProvenInCycle(i, d) -> DoneInCycle
      [] OTHER -> live[i].snap]

NotConfigured ==
    \/ \E i \in Item : live[i].on = "alone"
    \/ \E S \in {Equipment, Task, Ingredient} : \A i \in S : live[i].on # "scoped"

Asked(req) == {i \in Item : req[i] \leq MaxSnap}
Stale(row, expected) ==
    \E i \in Item : row.req[i] # expected[i] /\ (i \in Asked(row.req) \/ i \in Asked(expected))

\* A new revision of the requirements: the evidence of the previous one is history.
replace_requirements(row, rev, d, k) ==
    [row EXCEPT !.rev = rev, !.req = build(d, k), !.proof = [i \in Item |-> "none"]]

(***************************************************************************)
(* The business day of a control, and the closings that are missing        *)
(***************************************************************************)
OpeningDay ==
    IF now.tick = "last_hour" /\ now.day < MaxDay /\ hours[now.day + 1].open = "midnight"
    THEN now.day + 1
    ELSE IF \/ hours[now.day].open = "day" /\ now.tick = "service"
            \/ hours[now.day].open = "midnight" /\ now.tick \in {"night", "service"}
         THEN now.day ELSE NoDay

ClosingDay ==
    IF /\ now.tick = "night" /\ now.day > 1
       /\ hours[now.day - 1].open # "none" /\ hours[now.day - 1].late
       /\ checks[now.day - 1]["opening"].status = "complete"
       /\ checks[now.day - 1]["closing"].status \in {"none", "in_progress"}
    THEN now.day - 1 ELSE now.day

business_day(k) == IF k = "opening" THEN OpeningDay ELSE ClosingDay

missing_closings_None(d) == {}
missing_closings(d) ==
    {e \in Days : /\ e < d /\ checks[e]["opening"].status = "complete"
                  /\ checks[e]["opening"].counted
                  /\ ~Final(checks[e]["closing"])}

\* The rows the handlers lock besides the one they write (daily, FOR UPDATE).
ClosingsOf(d) == {<<e, "closing">> : e \in {f \in Days :
    f < d /\ checks[f]["opening"].status = "complete" /\ checks[f]["opening"].counted}}
DayRows(k) == IF k = "closing"
              THEN {<<now.day - 1, "opening">>, <<now.day - 1, "closing">>} ELSE {}
Locks(d, k) == Rows({<<d, "opening">>, <<d, "closing">>} \cup DayRows(k)
                    \cup (IF k = "opening" THEN ClosingsOf(d) ELSE {}))

(***************************************************************************)
(* evaluate: no blocker is left                                            *)
(***************************************************************************)
Validable_NoHistory(d, k) ==
    LET row == checks[d][k] expected == build(d, k)
    IN  /\ ~NotConfigured /\ ~Stale(row, expected)
        /\ \A i \in Asked(row.req) : row.proof[i] = "ok" /\ ~live[i].problem
        /\ k = "opening" => missing_closings(d) = {} /\ ~Final(checks[d]["closing"])
        /\ k = "closing" => checks[d]["opening"].status = "complete"
Validable(d, k) ==
    LET row == checks[d][k] expected == build(d, k)
    IN  /\ ~NotConfigured /\ ~Stale(row, expected)
        /\ \A i \in Item \ Asked(expected) : row.last[i] # "bad"
        /\ \A i \in Asked(row.req) : row.proof[i] = "ok" /\ ~live[i].problem
        /\ k = "opening" => missing_closings(d) = {} /\ ~Final(checks[d]["closing"])
        /\ k = "closing" => checks[d]["opening"].status = "complete"

current_write(d, k) ==
    /\ d = business_day(k)
    /\ checks[d][k].status = "in_progress"
    /\ ~Stale(checks[d][k], build(d, k))
    /\ Free(Locks(d, k))

\* What a request with a known key is answered: nothing is written again.
replay_AnyRevision(d, k, key) == receipts[d][k][key].act
replay(d, k, key) ==
    IF receipts[d][k][key].rev = checks[d][k].rev THEN receipts[d][k][key].act ELSE "refused"

receipt(d, k, key, act, rev) ==
    receipts' = [receipts EXCEPT ![d][k][key] = [act |-> act, rev |-> rev]]
New(d, k, key) == receipts[d][k][key] = NoReceipt

(***************************************************************************)
(* The handlers                                                            *)
(***************************************************************************)
start(u, k) ==
    LET d == business_day(k) IN
    /\ access(u) /\ d # NoDay /\ Free(Locks(d, k))
    /\ LET row == checks[d][k] IN
       /\ \/ row.status = "none"
          \/ row.status = "in_progress" /\ row.rev < MaxRev /\ Stale(row, build(d, k))
       /\ checks' = [checks EXCEPT ![d][k] =
                       [replace_requirements(row, row.rev + 1, d, k) EXCEPT !.status = "in_progress"]]
    /\ UNCHANGED <<now, hours, live, receipts, scope, strict, ord>>

\* An automatic problem of a lot cannot be overridden by a confirmation.
Compliant(i, said) == IF i \in Ingredient /\ live[i].problem THEN "bad" ELSE said

record(u, d, k, key, said, corrected) ==
    /\ access(u) /\ New(d, k, key) /\ current_write(d, k)
    /\ DOMAIN said \subseteq Asked(checks[d][k].req)
    /\ \A i \in DOMAIN said : i \in AdminTask => u \in Admin
    /\ \A i \in DOMAIN said : checks[d][k].last[i] = "bad" /\ said[i] = "ok" => corrected
    /\ LET found == [i \in DOMAIN said |-> Compliant(i, said[i])]
           upd(f) == [i \in Item |-> IF i \in DOMAIN found THEN found[i] ELSE f[i]]
       IN  checks' = [checks EXCEPT ![d][k].proof = upd(@), ![d][k].last = upd(@)]
    /\ receipt(d, k, key, "evidence_recorded", checks[d][k].rev)
    /\ UNCHANGED <<now, hours, live, scope, strict, ord>>

complete(u, d, k, key) ==
    /\ access(u) /\ New(d, k, key) /\ current_write(d, k)
    /\ IF Validable(d, k)
       THEN /\ checks' = [checks EXCEPT ![d][k].status = "complete", ![d][k].counted = strict]
            /\ receipt(d, k, key, "session_completed", checks[d][k].rev)
       ELSE /\ receipt(d, k, key, "validation_refused", checks[d][k].rev)
            /\ UNCHANGED checks
    /\ UNCHANGED <<now, hours, live, scope, strict, ord>>

prepare_regularization(u) ==
    LET days == {e \in missing_closings(now.day) : checks[e]["closing"].status = "none"} IN
    /\ access(u) /\ strict /\ days # {} /\ Free(Rows(ClosingsOf(now.day)))
    /\ checks' = [e \in Days |-> IF e \in days
                    THEN [checks[e] EXCEPT !["closing"] = [Absent EXCEPT !.status = "in_progress", !.rev = 1]]
                    ELSE checks[e]]
    /\ UNCHANGED <<now, hours, live, receipts, scope, strict, ord>>

regularize(u, d, key) ==
    /\ access(u) /\ New(d, "closing", key)
    /\ checks[d]["closing"].status = "in_progress"
    /\ d \in missing_closings(now.day)
    /\ Free(Rows({<<d, "closing">>} \cup ClosingsOf(now.day)))
    /\ checks' = [checks EXCEPT ![d]["closing"].status = "regularized",
                                ![d]["closing"].counted = strict]
    /\ receipt(d, "closing", key, "closing_regularized", checks[d]["closing"].rev)
    /\ UNCHANGED <<now, hours, live, scope, strict, ord>>

reopen(u, d, key) ==
    /\ access(u) /\ New(d, "opening", key)
    /\ d = OpeningDay /\ checks[d]["opening"].status = "complete"
    /\ checks[d]["closing"].status = "complete" /\ Free(Locks(d, "opening"))
    /\ \A k \in Kinds : checks[d][k].rev < MaxRev
    /\ checks' = [checks EXCEPT ![d] = [k \in Kinds |->
           [replace_requirements(checks[d][k], checks[d][k].rev + 1, d, k) EXCEPT
               !.status = "in_progress", !.counted = FALSE]]]
    /\ receipt(d, "opening", key, "day_reopened", checks[d]["opening"].rev + 1)
    /\ UNCHANGED <<now, hours, live, scope, strict, ord>>

assign_staff(a, u, enabled) ==
    /\ a \in Admin /\ u \in Staff
    /\ scope' = IF enabled THEN scope \cup {u} ELSE scope \ {u}
    /\ UNCHANGED <<now, hours, live, checks, receipts, strict, ord>>

(***************************************************************************)
(* The gate: create_order checks the decision, and commits the order later *)
(***************************************************************************)
decision(d) ==
    /\ checks[d]["opening"].status = "complete"
    /\ ~Final(checks[d]["closing"])
    /\ missing_closings(d) = {}

enforce_ordering(o) ==
    /\ ord[o].st = "idle"
    /\ strict => decision(now.day) /\ \A i \in Ingredient : live[i].usable
    /\ LET held == Rows({<<now.day, "opening">>, <<now.day, "closing">>} \cup ClosingsOf(now.day))
       IN  /\ strict => Free(held)
           /\ ord' = [ord EXCEPT ![o] = [st |-> "gated", day |-> now.day, strict |-> strict,
                                         held |-> IF strict THEN held ELSE {}]]
    /\ UNCHANGED <<now, hours, live, checks, receipts, scope, strict>>

OrderCommit(o) ==
    /\ ord[o].st = "gated"
    /\ ord' = [ord EXCEPT ![o] = [@ EXCEPT !.st = "placed", !.held = {}]]
    /\ UNCHANGED <<now, hours, live, checks, receipts, scope, strict>>

\* The transaction of the order fails or its process dies: the locks go with it.
OrderAbort(o) ==
    /\ ord[o].st = "gated"
    /\ ord' = [ord EXCEPT ![o] = NoOrder]
    /\ UNCHANGED <<now, hours, live, checks, receipts, scope, strict>>

(***************************************************************************)
(* What the workflow does not control                                      *)
(***************************************************************************)
Tick ==
    /\ now.day < MaxDay \/ now.tick # "last_hour"
    /\ now' = [day |-> IF now.tick = "last_hour" THEN now.day + 1 ELSE now.day,
               tick |-> After[now.tick]]
    /\ UNCHANGED <<hours, live, checks, receipts, scope, strict, ord>>

\* A threshold, a task, a lot or a quantity changes, or the item is withdrawn
\* or assigned: the rows a session read are locked until it commits.
ChangeItem(i, on, problem, usable) ==
    /\ live[i].snap < MaxSnap
    /\ live' = [live EXCEPT ![i] = [snap |-> @.snap + 1, on |-> on,
                                    problem |-> problem, usable |-> usable]]
    /\ UNCHANGED <<now, hours, checks, receipts, scope, strict, ord>>

\* A lot passes its effective date: a problem, and the same snapshot.
LotExpires(i) ==
    /\ i \in Ingredient /\ ~live[i].problem
    /\ live' = [live EXCEPT ![i].problem = TRUE, ![i].usable = FALSE]
    /\ UNCHANGED <<now, hours, checks, receipts, scope, strict, ord>>

\* The establishment is activated by hand: no route does it.
Activate ==
    /\ ~strict /\ strict' = TRUE
    /\ UNCHANGED <<now, hours, live, checks, receipts, scope, ord>>

(***************************************************************************)
(* The specification                                                       *)
(***************************************************************************)
Hours == [open : {"none", "day", "midnight"}, late : BOOLEAN]

\* An establishment that is set up, before or after its activation.
Init ==
    /\ now = [day |-> 1, tick |-> "service"]
    /\ hours \in [Days -> Hours]
    /\ live = [i \in Item |-> [snap |-> 0, on |-> "scoped", problem |-> FALSE, usable |-> TRUE]]
    /\ checks = [d \in Days |-> [k \in Kinds |-> Absent]]
    /\ receipts = [d \in Days |-> [k \in Kinds |-> [key \in Key |-> NoReceipt]]]
    /\ scope = {} /\ strict \in BOOLEAN
    /\ ord = [o \in Order |-> NoOrder]

Workflow(u) ==
    \/ prepare_regularization(u)
    \/ \E k \in Kinds : start(u, k)
    \/ \E d \in Days, key \in Key :
         \/ regularize(u, d, key) \/ reopen(u, d, key)
         \/ \E k \in Kinds :
              \/ complete(u, d, k, key)
              \/ \E S \in SUBSET Item \ {{}}, corrected \in BOOLEAN :
                   \E said \in [S -> {"ok", "bad"}] : record(u, d, k, key, said, corrected)

Next ==
    \/ \E u \in Admin \cup Staff : Workflow(u)
    \/ \E a \in Admin, u \in Staff, b \in BOOLEAN : assign_staff(a, u, b)
    \/ \E o \in Order : enforce_ordering(o) \/ OrderCommit(o) \/ OrderAbort(o)
    \/ Tick \/ Activate
    \/ \E i \in Item : \/ LotExpires(i)
                       \/ \E on \in {"off", "alone", "scoped"}, p, us \in BOOLEAN :
                            ChangeItem(i, on, p, us)

Spec == Init /\ [][Next]_vars

(***************************************************************************)
(* Properties                                                              *)
(***************************************************************************)
TypeOK ==
    /\ now \in [day : Days, tick : Ticks] /\ hours \in [Days -> Hours]
    /\ checks \in [Days -> [Kinds -> HaccpDailySession]]
    /\ live \in [Item -> [snap : 0..MaxSnap, on : {"off", "alone", "scoped"},
                          problem : BOOLEAN, usable : BOOLEAN]]
    /\ scope \subseteq Staff /\ strict \in BOOLEAN
    /\ receipts \in [Days -> [Kinds -> [Key -> Receipt]]]
    /\ ord \in [Order -> [st : {"idle", "gated", "placed"}, day : Days \cup {NoDay},
                         held : SUBSET (Days \X Kinds), strict : BOOLEAN]]

\* A session is complete only with a compliant proof, on its current revision,
\* of everything its checklist asks; a failure of any revision was corrected,
\* even when its item was withdrawn since; and what it left out because the
\* cycle was done is proven by an earlier session that is still complete
\* (strict_service.complete, evaluate, strict_checklist.build).
CompleteIsProven ==
    \A d \in Days, k \in Kinds : checks[d][k].status = "complete" =>
        \A i \in Item :
            /\ i \in Asked(checks[d][k].req) => checks[d][k].proof[i] = "ok"
            /\ checks[d][k].last[i] # "bad"
            /\ checks[d][k].req[i] = DoneInCycle =>
                 \E e \in Days, f \in Kinds :
                     /\ cycle_start(d) <= e /\ e < d
                     /\ checks[e][f].status = "complete" /\ checks[e][f].proof[i] = "ok"

\* Days are dealt with in order: while the opening of a day is validated, no
\* earlier day opened since the activation is left without its closing, and a
\* closing stands only on an opening that stands (missing_closings, evaluate,
\* reopen).
OneDayAtATime ==
    \A d \in Days :
        /\ checks[d]["opening"].status = "complete" /\ checks[d]["opening"].counted
             => \A e \in Days : e < d /\ checks[e]["opening"].status = "complete"
                                 /\ checks[e]["opening"].counted => Final(checks[e]["closing"])
        /\ Final(checks[d]["closing"]) => checks[d]["opening"].status = "complete"

\* The answer a retried request gets from its receipt is still true: a session
\* it calls validated or regularised is so, whatever was reopened since
\* (strict_service.replay).
AnswersStillTrue ==
    \A d \in Days, k \in Kinds, key \in Key :
        /\ replay(d, k, key) = "session_completed" => checks[d][k].status = "complete"
        /\ replay(d, k, key) = "closing_regularized" => checks[d][k].status = "regularized"

\* An order the gate let through is committed while the controls of its day
\* still stand: the day is open and its closing is not validated, although the
\* gate was passed earlier (order_gate.enforce_ordering, strict_service.daily).
OrdersWhileOpen ==
    [][\A o \in Order : ord[o].st = "gated" /\ ord'[o].st = "placed" /\ ord[o].strict =>
         /\ checks[ord[o].day]["opening"].status = "complete"
         /\ checks[ord[o].day]["closing"].status # "complete"]_vars

=============================================================================
