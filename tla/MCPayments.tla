---------------------------- MODULE MCPayments ----------------------------
(***************************************************************************)
(* TLC instances of Payments: the profiles each run explores.  Handlers    *)
(* are interchangeable.                                                    *)
(***************************************************************************)
EXTENDS Payments, TLC

(* Card and terminal sales against staff, worker and a missing ingredient. *)
Sale     == {"order", "intent", "confirm", "confirmed", "cancelled", "expiry",
             "stockout", "expired_read"}
Terminal == {"order", "intent", "terminal", "confirm", "cancelled",
             "stockout"}
Till     == {"order", "intent", "terminal", "confirm", "cancelled", "expiry"}

Link == {"order", "link", "expiry", "confirm", "crash"}

(* Card holds; with captures in Stripe's dashboard, missing stock, or *)
(* attempts that are refused before one is granted.                   *)
Hold        == {"order", "guarantee", "confirm", "cancelled", "rejected",
                "customer", "settle", "holdexpiry", "crash"}
HoldOutside == Hold \cup {"dashboard"}
HoldShort   == (Hold \ {"crash"}) \cup {"stockout"}
HoldRefused == {"order", "guarantee", "cancelled", "settle", "stockout",
                "decline"}

(* Counter sales, refunds, an unreachable Stripe; deliveries that fail. *)
Counter  == {"order", "manual", "intent", "cancelled", "confirmed",
             "preparing", "refund", "stripedown", "decline"}
Delivery == {"order", "intent", "confirmed", "preparing", "ready",
             "out_for_delivery", "delivered", "delivery_failed", "redeliver",
             "refund", "confirm"}

LiveSale == {"order", "intent", "confirm", "cancelled", "customer", "expiry",
             "stockout"}
LiveLink == {"order", "link", "confirm", "cancelled", "expiry", "stockout"}
LiveHold == {"order", "guarantee", "confirm", "cancelled", "expiry",
             "stockout", "settle", "holdexpiry", "decline"}

PayProfiles  == {Sale, Terminal, Till, Link, HoldOutside, HoldShort, HoldRefused, Counter,
                 Delivery}
LiveProfiles == {LiveSale, LiveLink, LiveHold}

(* The instance that refutes what the repository says of refunds. *)
ExpiredRead == {{"order", "intent", "expiry", "expired_read"}}

ProcSymmetry == Permutations(Proc)

=============================================================================
