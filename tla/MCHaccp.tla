------------------------------- MODULE MCHaccp -------------------------------
(***************************************************************************)
(* Bounded instance of Haccp.  A step of MCNext is a step of Next; `entry` *)
(* restricts a behaviour to the operations of one mix, so that each mix    *)
(* can go deep.                                                            *)
(***************************************************************************)
EXTENDS Haccp, TLC

CONSTANTS Fridge, Oven, Floor, Milk, Boss, Cook, k1, k2, k3, k4, o1, Mixes

VARIABLE entry

AllKinds == {"opening", "closing"}
AtBoth == [i \in {Fridge, Oven, Floor, Milk} |-> IF i = Oven THEN {} ELSE AllKinds]

Open == [open |-> "day", late |-> TRUE]
Lunch == [open |-> "day", late |-> FALSE]
Midnight == [open |-> "midnight", late |-> TRUE]
Shut == [open |-> "none", late |-> FALSE]

\* ops: the operations of the mix; values: what evidence can say; kinds: the
\* sessions; last: its last day; keys: requests per session.
Mix == [
  Proofs  |-> [ops |-> {"record", "change", "expire"}, values |-> {"ok", "bad"},
               kinds |-> {"opening"}, last |-> 1, hours |-> <<Open, Shut, Shut>>, keys |-> 3],
  Weeks   |-> [ops |-> {"record", "tick", "reopen"}, values |-> {"ok"},
               kinds |-> AllKinds, last |-> 3, hours |-> <<Open, Midnight, Lunch>>, keys |-> 3],
  Forgot  |-> [ops |-> {"record", "tick", "regularize", "activate"}, values |-> {"ok"},
               kinds |-> AllKinds, last |-> 3, hours |-> <<Open, Lunch, Open>>, keys |-> 2],
  Retries |-> [ops |-> {"record", "reopen", "refuse", "assign", "tick"}, values |-> {"ok"},
               kinds |-> AllKinds, last |-> 1, hours |-> <<Open, Shut, Shut>>, keys |-> 4],
  Orders  |-> [ops |-> {"record", "tick", "order", "regularize", "reopen", "activate", "expire"},
               values |-> {"ok"}, kinds |-> AllKinds, last |-> 2,
               hours |-> <<Open, Open, Shut>>, keys |-> 3]]

MCInit ==
    /\ entry \in Mixes /\ Init
    /\ hours = [d \in Days |-> Mix[entry].hours[d]]
    /\ strict = (entry # "Forgot")

Can(op) == op \in Mix[entry].ops
Users == Admin \cup Staff

\* A client that does not retry takes the next unused key: the keys of one
\* session are interchangeable.
KeyNo == [k \in Key |-> CASE k = k1 -> 1 [] k = k2 -> 2 [] k = k3 -> 3 [] k = k4 -> 4]
NextKey(d, k, key) == /\ KeyNo[key] <= Mix[entry].keys
                      /\ \A other \in Key : KeyNo[other] < KeyNo[key] => ~New(d, k, other)

\* What a request can say.  With one value the whole checklist is answered at
\* once, when it is not yet; otherwise an item, or the whole of it.
Said(row) ==
    LET A == Asked(row.req) V == Mix[entry].values
    IN  IF Cardinality(V) > 1 THEN UNION {[S -> V] : S \in ({A} \cup {{i} : i \in A}) \ {{}}}
        ELSE IF \E i \in A : row.proof[i] # "ok" THEN [A -> V] ELSE {}

MCNext ==
    /\ UNCHANGED entry
    /\ \/ \E u \in Users, k \in Mix[entry].kinds : start(u, k)
       \/ \E u \in Users, k \in Mix[entry].kinds : \E d \in {business_day(k)} \ {NoDay}, key \in Key :
             /\ NextKey(d, k, key)
             /\ \/ /\ Can("record")
                   /\ \E said \in Said(checks[d][k]), corrected \in BOOLEAN :
                        record(u, d, k, key, said, corrected)
                \/ (Can("refuse") \/ Validable(d, k)) /\ complete(u, d, k, key)
       \/ Can("regularize") /\ \E u \in Users :
             \/ prepare_regularization(u)
             \/ \E d \in Days, key \in Key : NextKey(d, "closing", key) /\ regularize(u, d, key)
       \/ Can("reopen") /\ \E u \in Users, d \in Days, key \in Key :
             NextKey(d, "opening", key) /\ reopen(u, d, key)
       \/ Can("assign") /\ \E a \in Admin, u \in Staff, b \in BOOLEAN : assign_staff(a, u, b)
       \/ Can("order") /\ \E o \in Order : enforce_ordering(o) \/ OrderCommit(o) \/ OrderAbort(o)
       \/ Can("tick") /\ (now.day < Mix[entry].last \/ now.tick # "last_hour") /\ Tick
       \/ Can("change") /\ \E i \in Item, on \in {"scoped", "off", "alone"}, p \in BOOLEAN :
             /\ on # "scoped" => ~p
             /\ i # Oven
             /\ Cardinality({j \in Item : live[j].snap > 0}) < 2
             /\ ChangeItem(i, on, p, ~p)
       \/ Can("expire") /\ \E i \in Item : LotExpires(i)
       \/ Can("activate") /\ Activate

MCSpec == MCInit /\ [][MCNext]_<<vars, entry>>
=============================================================================
