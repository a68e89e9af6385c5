---------------------------- MODULE MCRewards ----------------------------
(* TLC instances of Rewards. *)
EXTENDS Rewards, TLC

RewardsSymmetry == Permutations(Order) \cup Permutations(Key)
                   \cup Permutations(Promo) \cup Permutations(Proc)

(* One handler at a time: points, orders and codes. *)
Account  == {"serial", "admin", "redeem", "manual", "crash"}
Aging    == {"serial", "manual", "status", "expiry", "time", "crash"}
Checkout == {"serial", "customer", "checkout", "status", "time", "crash"}
Coupons  == {"serial", "customer", "manual", "promo", "redeem"}

(* Handlers that overlap. *)
Together == {"admin", "redeem", "customer", "checkout"}
Counter  == {"manual", "status", "expiry", "time"}
Same     == {"customer", "manual", "guest", "promo", "crash"}
Ending   == {"serial", "customer", "promo", "time"}

RewardsProfiles == {Account, Aging, Checkout, Coupons, Together, Counter, Same, Ending}
=============================================================================
