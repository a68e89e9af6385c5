----------------------------- MODULE MCStock -----------------------------
(* TLC instances of Stock: orders, requests and handlers are each          *)
(* interchangeable.                                                        *)
EXTENDS Stock, TLC

StockSymmetry == Permutations(Order) \cup Permutations(Request)
                 \cup Permutations(Proc)

(* One handler at a time: everything that happens to batches and recipes,  *)
(* and every way to correct a quantity.                                    *)
Batches     == {"serial", "time", "supply", "batch", "open", "discard",
                "crash", "override", "recipe"}
Corrections == {"serial", "time", "patch", "discard", "request", "adjust"}

(* Handlers that overlap: with orders, and with the product's sale. *)
Overlap == {"supply", "discard", "request"}
Sale    == {"time", "supply", "batch", "adjust", "crash"}

StockProfiles == {Batches, Corrections, Overlap, Sale}
Deliveries    == {{"supply"}}

=============================================================================
