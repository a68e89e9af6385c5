---------------------------- MODULE MCDelivery ----------------------------
(***************************************************************************)
(* TLC instances of Delivery.  The dispatch profiles have two orders and   *)
(* two drivers who compete for them; the road profiles follow deliveries   *)
(* through codes, failures and redelivery.                                 *)
(***************************************************************************)
EXTENDS Delivery, TLC

CONSTANTS o1, o2

MCDeliv   == 1 .. 3
MCOrderOf == <<o1, o2, o1>>

(* The drivers serve themselves, and put orders back. *)
SelfService == {"claim", "release", "driver", "depart", "cancelled"}
(* The counter assigns and moves orders while drivers leave. *)
Counter == {"assign", "unassign", "depart", "out_for_delivery", "reopen",
            "cancelled"}
(* Several devices on the road: codes and overrides, with and without. *)
Codes   == {"claim", "depart", "deliver", "override", "proof", "delivered"}
NoProof == {"claim", "depart", "deliver", "report", "delivered"}
(* Failures, declared by a driver and the counter, treated by several. *)
Failures == {"claim", "depart", "arrived", "report", "delivered",
             "delivery_failed", "redeliver", "refund"}
Treated  == {"claim", "depart", "report", "refund", "retain", "crash"}
(* One handler at a time, a driver with several orders. *)
Calm == {"serial", "assign", "release", "depart", "arrived", "deliver",
         "report", "redeliver", "refund", "retain", "proof"}

MCProfiles == {SelfService, Counter, Codes, NoProof, Failures, Treated, Calm}

(* One administrator, and a process that may die before it marks. *)
Replay == {{"serial", "claim", "depart", "report", "refund", "crash"}}

DeliverySymmetry == Permutations(Driver) \cup Permutations(Proc)

=============================================================================
