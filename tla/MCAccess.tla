------------------------------ MODULE MCAccess ------------------------------
(* Small instances of Access. *)
EXTENDS Access

CONSTANTS boss, cook, guest

Kinds == [a \in Account |-> IF a = boss THEN "admin" ELSE IF a = cook THEN "staff" ELSE "customer"]
MCGrants == {{}, {"orders:read"}}
CONSTANTS i1, i2
Mix(ops, who, on, n) ==
    [ops |-> ops, who |-> who, on |-> on, sids |-> n, psids |-> n,
     conns |-> 1, up |-> IF "sockets" \in ops THEN {i1} ELSE {}]

Leaving   == Mix({"login", "refresh", "leave"}, {cook}, {}, 3)
Forgotten == Mix({"login", "refresh", "forgot", "time", "crash"}, {cook}, {cook}, 2)
Resetting == Mix({"login", "refresh", "reset", "time"}, {boss, cook}, {cook}, 2)
Disabling == Mix({"login", "disable", "time"}, {boss, cook}, {cook}, 2)
Reviving  == Mix({"login", "reset", "disable"}, {boss, cook}, {cook}, 2)
Granting  == Mix({"login", "grant", "sockets"}, {boss, cook}, {cook}, 2)
Deleting  == Mix({"login", "password", "delete"}, {guest, boss}, {guest}, 2)
Closing   == Mix({"login", "disable", "sockets", "stop"}, {boss, cook}, {cook}, 2)
Counting  == [Mix({"login", "sockets"}, {cook}, {}, 1) EXCEPT !.conns = 3, !.up = {i1, i2}]
Platforms == Mix({"platform", "enrol"}, {}, {}, 2)
Rotating  == Mix({"platform", "time"}, {}, {}, 2)
Support   == Mix({"platform", "support", "time"}, {}, {}, 1)
Suspend   == Mix({"platform", "support", "suspend", "login", "crash"}, {cook}, {cook}, 1)
Pairings  == Mix({"devices", "crash"}, {}, {}, 2)
MCMixes == {Leaving, Forgotten, Resetting, Disabling, Reviving, Granting, Deleting, Closing, Counting, Platforms, Rotating, Support, Suspend, Pairings}
=============================================================================
