---------------------------- MODULE MCKitchen ----------------------------
(***************************************************************************)
(* TLC instances of Kitchen: two items of the kitchen, one of the counter, *)
(* and one that no station prepares; or one item, when the queue is what   *)
(* matters.                                                                *)
(***************************************************************************)
EXTENDS Kitchen, TLC

CONSTANTS burger, fries, drink, sauce

MCItem == {burger, fries, drink, sauce}
MCStationOf == (burger :> "kitchen") @@ (fries :> "kitchen")
               @@ (drink :> "counter") @@ (sauce :> "none")

OneItem == {burger}
OneStationOf == burger :> "kitchen"

Statuses == {"preparing", "out_for_delivery", "delivered", "cancelled",
             "rejected", "delivery_failed"}

(* The order is ready when its stations are, or when anybody says so. *)
Stations == Statuses \cup {"order", "manual", "station", "redeliver",
                           "stockout"}
Screens  == Stations \cup {"item", "ready"}

PrepProfiles  == {Stations, Screens}
QueueProfiles == {{"order", "preparing", "ready", "cancelled"}}

KitchenSymmetry == Permutations(Order) \cup Permutations(Proc)

=============================================================================
