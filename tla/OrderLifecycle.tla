--------------------------- MODULE OrderLifecycle ---------------------------
(***************************************************************************)
(* What the back end promises about ONE order, whoever drives it: the      *)
(* order moves along VALID_TRANSITIONS of orders/service.py (with the two  *)
(* exceptions the code makes: the queue that a confirmation may be routed  *)
(* to, and the moves that only the kitchen screens and the treatment of a  *)
(* failed delivery may make), and its ingredients are taken from the stock *)
(* exactly when it enters "confirmed" and given back exactly when it is    *)
(* cancelled from "confirmed".                                             *)
(*                                                                         *)
(* The detailed modules (Payments, Kitchen) are shown to implement this    *)
(* specification for every order they keep, and Delivery to take only its  *)
(* steps from the kitchen on.                                              *)
(***************************************************************************)
EXTENDS Integers

VARIABLES
    status,  \* orders.status, "none" before the row exists
    held     \* net number of times the order's recipe was taken from stock

lvars == <<status, held>>

OrderStatus ==
    {"none", "pending", "confirmed", "queued", "preparing", "ready",
     "out_for_delivery", "delivered", "cancelled", "rejected",
     "delivery_failed"}

(***************************************************************************)
(* The graph of the source.  The row does not exist before its creation,   *)
(* so "none" has no transition of its own.                                 *)
(***************************************************************************)
VALID_TRANSITIONS ==
    [s \in OrderStatus |->
       CASE s = "pending"          -> {"confirmed", "cancelled", "rejected"}
         [] s = "confirmed"        -> {"preparing", "cancelled"}
         [] s = "queued"           -> {"confirmed", "cancelled"}
         [] s = "preparing"        -> {"ready", "cancelled"}
         [] s = "ready"            -> {"out_for_delivery", "delivered"}
         [] s = "out_for_delivery" -> {"delivered", "cancelled",
                                       "delivery_failed"}
         [] OTHER                  -> {}]

Init == status = "none" /\ held = 0

(***************************************************************************)
(* A customer's order is born pending; an order paid at the counter is     *)
(* created and confirmed in one transaction.                               *)
(***************************************************************************)
Create ==
    /\ status = "none"
    /\ \/ status' \in {"pending", "queued"} /\ held' = held
       \/ status' = "confirmed" /\ held' = held + 1

Confirm ==
    /\ "confirmed" \in VALID_TRANSITIONS[status]
    /\ \/ status' = "queued" /\ held' = held
       \/ status' = "confirmed" /\ held' = held + 1

Cancel ==
    /\ "cancelled" \in VALID_TRANSITIONS[status]
    /\ status' = "cancelled"
    /\ held' = IF status = "confirmed" THEN held - 1 ELSE held

Advance ==
    /\ status' \in VALID_TRANSITIONS[status] \ {"confirmed", "cancelled"}
    /\ held' = held

(***************************************************************************)
(* Moves outside the graph: a failed delivery that an administrator sends  *)
(* out again, and a ready order that a station reopens.                    *)
(***************************************************************************)
Redeliver == status = "delivery_failed" /\ status' = "ready" /\ held' = held
Reopen    == status = "ready" /\ status' = "preparing" /\ held' = held

Next == Create \/ Confirm \/ Cancel \/ Advance \/ Redeliver \/ Reopen

Spec == Init /\ [][Next]_lvars

-----------------------------------------------------------------------------
(* The order has been in the kitchen, or has never been there. *)
Cooked   == {"confirmed", "preparing", "ready", "out_for_delivery",
             "delivered", "delivery_failed"}
Uncooked == {"none", "pending", "queued", "rejected"}

(***************************************************************************)
(* The ingredients are taken once from an order that reached the kitchen   *)
(* and are not taken from one that did not; an order cancelled after its   *)
(* preparation began keeps what it consumed.                               *)
(***************************************************************************)
HeldOnce ==
    /\ status \in OrderStatus /\ held \in {0, 1}
    /\ status \in Cooked => held = 1
    /\ status \in Uncooked => held = 0

=============================================================================
