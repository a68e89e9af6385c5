------------------------------- MODULE Stock -------------------------------
(***************************************************************************)
(* One ingredient of stock/service.py: its quantity, its batches, the      *)
(* movements table, the adjustment requests, the recipe of the product it  *)
(* goes into and the availability override of that product; and the orders *)
(* of that product, seen from deduct_for_order and restore_for_order.      *)
(*                                                                         *)
(* No handler of this service locks the ingredient: each reads             *)
(* current_qty, computes, and writes the absolute result when it commits.  *)
(* A handler is therefore two steps, its reads and its commit.  The only   *)
(* lock is that of the order, which update_status holds around both.       *)
(*                                                                         *)
(* Abstractions.  Quantities are small naturals.  One product uses the     *)
(* ingredient and an order is one unit of it.  The three deadlines of a    *)
(* batch are one flag, lapsed, that the clock may raise at any time.       *)
(***************************************************************************)
EXTENDS Integers, FiniteSets, FiniteSetsExt

CONSTANTS
    Order, Request,   \* orders of the product, adjustment requests
    MaxBatch,         \* bound: ingredient_batches rows
    MaxQty,           \* bound: the largest quantity handlers write
    MaxLedger,        \* bound: the largest sum of movements, either sign
    Recipes,          \* quantities per unit that recipes may ask for
    Initial,          \* current_qty, all of it in batch 1
    Proc,             \* request handlers running at the same time
    Profiles          \* the sets of entry points to look at

ASSUME BatchAssumption  == MaxBatch \in Nat \ {0}
ASSUME QtyAssumption    == MaxQty \in Nat /\ MaxLedger \in Nat
ASSUME RecipeAssumption == Recipes \subseteq Nat /\ Recipes # {}
ASSUME StartAssumption  == Initial \in 1 .. MaxQty

Batch == 1 .. MaxBatch
None  == 0

VARIABLES
    qty,       \* ingredients.current_qty
    need,      \* what the recipe takes of it per order
    batch,     \* the ingredient_batches table
    ledger,    \* initial quantity plus the sum of stock_movements
    taken,     \* per order: minus the sum of its order:/cancel: movements
    applied,   \* per request: number of its request: movements
    request,   \* stock_adjustment_requests
    ostatus,   \* orders.status
    hidden,    \* the product's latest availability override is false
    job,       \* what each handler is in the middle of
    entry      \* the entry points that this behaviour opens, fixed

vars == <<qty, need, batch, ledger, taken, applied, request, ostatus, hidden,
          job, entry>>
data == <<qty, need, batch, ledger, taken, applied, request, ostatus, hidden>>

-----------------------------------------------------------------------------
BatchStatus == {"absent", "sealed", "opened", "expired", "consumed",
                "discarded"}
_USABLE_BATCH_STATUSES == {"sealed", "opened"}

BatchRow == [status : BatchStatus, quantity : 0 .. MaxQty, lapsed : BOOLEAN]
NoBatch  == [status |-> "absent", quantity |-> 0, lapsed |-> FALSE]

RequestRow == [status : {"absent", "pending", "approved", "rejected"},
               delta : -MaxQty .. MaxQty]

Op == {"idle", "deduct", "restore", "batch", "patch", "open", "discard",
       "approve", "reject", "adjust", "mark"}

(***************************************************************************)
(* A handler between its reads and its commit: the row it works on (t),    *)
(* the quantity it read and the change it will record, the batches it      *)
(* found expired, the batch status, size and deadline it will write ("" or *)
(* a size not changed: not written), and whether it will hide the product. *)
(***************************************************************************)
Job == [op : Op, t : Order \cup Request \cup Batch \cup {None},
        seen : 0 .. MaxQty, delta : -MaxQty .. MaxQty,
        marks : SUBSET Batch, doc : BatchStatus \cup {""}, n : 0 .. MaxQty,
        renew : BOOLEAN, hide : BOOLEAN]

Idle == [op |-> "idle", t |-> None, seen |-> 0, delta |-> 0, marks |-> {},
         doc |-> "", n |-> 0, renew |-> FALSE, hide |-> FALSE]

(* The reads of a handler of row t that changes the quantity by delta. *)
Reads(op, t, delta) == [Idle EXCEPT !.op = op, !.t = t, !.seen = qty,
                                    !.delta = delta]

(* A behaviour in which no two handlers overlap. *)
Serial == "serial" \in entry

Start(r, j) ==
    /\ job[r] = Idle
    /\ Serial => \A s \in Proc : job[s] = Idle
    /\ job' = [job EXCEPT ![r] = j]
    /\ UNCHANGED data

(* "Ingredient stock cannot become negative"; MaxQty bounds the model.     *)
(* Mutant: the guard is gone.                                              *)
PossibleAnyway(delta) == qty + delta <= MaxQty
Possible(delta) == qty + delta \in 0 .. MaxQty

-----------------------------------------------------------------------------
(* Expiry and usable stock *)

Expired == {b \in Batch : /\ batch[b].status \in _USABLE_BATCH_STATUSES
                          /\ batch[b].lapsed}

UsableBatches == {b \in Batch : /\ batch[b].status \in _USABLE_BATCH_STATUSES
                                /\ ~batch[b].lapsed}

(* min(current_qty, what the usable batches were delivered with): orders   *)
(* take nothing out of a batch.                                            *)
UsableQty(current) ==
    LET delivered == MapThenSumSet(LAMBDA b : batch[b].quantity, UsableBatches)
    IN IF delivered < current THEN delivered ELSE current

Unproducible(n, current) == n > 0 /\ (current < n \/ UsableQty(current) < n)

(* sync_auto_stock_availability_overrides: only ever hides.                *)
(* Mutant: it looks at the quantity before the change.                     *)
HidesLate(delta) == delta < 0 /\ Unproducible(need, qty)
Hides(delta) == delta < 0 /\ Unproducible(need, qty + delta)

(* The earliest of the primary, secondary and tertiary deadlines passes. *)
Lapse(b) ==
    /\ "time" \in entry /\ batch[b].status # "absent" /\ ~batch[b].lapsed
    /\ batch' = [batch EXCEPT ![b].lapsed = TRUE]
    /\ UNCHANGED <<qty, need, ledger, taken, applied, request, ostatus, hidden,
                   job>>

(* Reading a list of batches writes "expired" into those that are. *)
mark_expired_batches(r) ==
    /\ "time" \in entry /\ Expired # {}
    /\ Start(r, [Reads("mark", None, 0) EXCEPT !.marks = Expired])

-----------------------------------------------------------------------------
(* Orders: update_status holds the order's lock from the read on *)

(* Mutant: no lock. *)
Unlocked(o) == FALSE

Locked(o) == \E r \in Proc : job[r].op \in {"deduct", "restore"}
                             /\ job[r].t = o

(* INSUFFICIENT_STOCK, for want of stock or of stock before its deadline,  *)
(* leaves nothing behind.                                                  *)
deduct_for_order(r, o) ==
    /\ ostatus[o] = "pending" /\ ~Locked(o)
    /\ need <= qty /\ need <= UsableQty(qty)
    /\ Start(r, [Reads("deduct", o, -need) EXCEPT !.marks = Expired,
                                                  !.hide = Hides(-need)])

(* The quantities come from the recipe of today. *)
restore_for_order(r, o) ==
    /\ ostatus[o] = "confirmed" /\ ~Locked(o) /\ Possible(need)
    /\ Start(r, Reads("restore", o, need))

(* The order starts in the kitchen: nothing is given back any more. *)
Prepare(o) ==
    /\ ostatus[o] = "confirmed" /\ ~Locked(o)
    /\ ostatus' = [ostatus EXCEPT ![o] = "preparing"]
    /\ UNCHANGED <<qty, need, batch, ledger, taken, applied, request, hidden,
                   job>>

-----------------------------------------------------------------------------
(* Batches *)

NewBatch(r, b, n) ==
    /\ batch[b].status = "absent" /\ Possible(n)
    /\ \A s \in Proc : job[s].op = "batch" => job[s].t # b
    /\ Start(r, [Reads("batch", b, n) EXCEPT !.doc = "sealed", !.n = n])

supply(r, b, n)       == "supply" \in entry /\ NewBatch(r, b, n)
create_batch(r, b, n) == "batch" \in entry /\ NewBatch(r, b, n)

(* An administrator may set the size, the status and the deadline.  The    *)
(* stock follows the size and nothing else.                                *)
patch_batch(r, b, n, s, renew) ==
    /\ "patch" \in entry /\ batch[b].status # "absent"
    /\ LET delta == n - batch[b].quantity
       IN /\ Possible(delta)
          /\ Start(r, [Reads("patch", b, delta) EXCEPT
                         !.n = n, !.renew = renew,
                         !.doc = IF s = batch[b].status THEN "" ELSE s])

open_batch(r, b) ==
    /\ "open" \in entry
    /\ batch[b].status \notin {"absent", "discarded", "consumed", "opened"}
    /\ Start(r, [Reads("open", b, 0) EXCEPT !.doc = "opened"])

discard_batch(r, b) ==
    /\ "discard" \in entry
    /\ batch[b].status \notin {"absent", "discarded"}
    /\ Possible(-batch[b].quantity)
    /\ Start(r, [Reads("discard", b, -batch[b].quantity) EXCEPT
                   !.doc = "discarded"])

-----------------------------------------------------------------------------
(* Adjustments and recipes *)

create_adjustment_request(q, delta) ==
    /\ "request" \in entry /\ request[q].status = "absent"
    /\ request' = [request EXCEPT ![q] = [status |-> "pending",
                                          delta |-> delta]]
    /\ UNCHANGED <<qty, need, batch, ledger, taken, applied, ostatus, hidden,
                   job>>

approve_adjustment_request(r, q) ==
    /\ request[q].status = "pending" /\ Possible(request[q].delta)
    /\ Start(r, Reads("approve", q, request[q].delta))

reject_adjustment_request(r, q) ==
    /\ request[q].status = "pending"
    /\ Start(r, Reads("reject", q, 0))

(* inventory gives the new quantity, waste and correction the change. *)
adjust_ingredient_stock(r, delta) ==
    /\ "adjust" \in entry /\ Possible(delta)
    /\ Start(r, [Reads("adjust", None, delta) EXCEPT
                   !.marks = IF delta < 0 THEN Expired ELSE {},
                   !.hide = Hides(delta)])

replace_recipe(n) ==
    /\ "recipe" \in entry /\ n # need
    /\ need' = n
    /\ hidden' = (hidden \/ Unproducible(n, qty))
    /\ batch' = [b \in Batch |-> IF b \in Expired
                                 THEN [batch[b] EXCEPT !.status = "expired"]
                                 ELSE batch[b]]
    /\ UNCHANGED <<qty, ledger, taken, applied, request, ostatus, job>>

(* The return to sale is an explicit decision of an administrator. *)
set_product_availability_override(available) ==
    /\ "override" \in entry /\ hidden' = ~available
    /\ UNCHANGED <<qty, need, batch, ledger, taken, applied, request, ostatus,
                   job>>

-----------------------------------------------------------------------------
(* The commit of every handler *)

BatchAfter(j) ==
    [b \in Batch |->
       IF j.op \in {"batch", "patch", "open", "discard"} /\ b = j.t
       THEN [status   |-> IF j.doc = "" THEN batch[b].status ELSE j.doc,
             quantity |-> IF j.op \in {"batch", "patch"} /\ j.delta # 0
                          THEN j.n ELSE batch[b].quantity,
             lapsed   |-> batch[b].lapsed /\ ~j.renew]
       ELSE IF b \in j.marks THEN [batch[b] EXCEPT !.status = "expired"]
       ELSE batch[b]]

OrderAfter(j) == IF j.op = "deduct" THEN "confirmed" ELSE "cancelled"

RequestAfter(j) == IF j.op = "approve" THEN "approved" ELSE "rejected"

(* The stock_movements row.  Mutant: none for a change of a batch's size. *)
MovementButPatch(j) == IF j.op = "patch" THEN 0 ELSE j.delta

Movement(j) == j.delta

Commit(r) ==
    LET j == job[r]
    IN /\ j # Idle
       /\ qty' = IF j.delta = 0 THEN qty ELSE j.seen + j.delta
       /\ ledger' = ledger + Movement(j)
       /\ ledger' \in -MaxLedger .. MaxLedger
       /\ batch' = BatchAfter(j)
       /\ hidden' = (hidden \/ j.hide)
       /\ IF j.op \in {"deduct", "restore"}
          THEN /\ ostatus' = [ostatus EXCEPT ![j.t] = OrderAfter(j)]
               /\ taken' = [taken EXCEPT ![j.t] = @ - j.delta]
          ELSE UNCHANGED <<ostatus, taken>>
       /\ request' = IF j.op \in {"approve", "reject"}
                     THEN [request EXCEPT ![j.t].status = RequestAfter(j)]
                     ELSE request
       /\ applied' = IF j.op = "approve" THEN [applied EXCEPT ![j.t] = @ + 1]
                     ELSE applied
       /\ job' = [job EXCEPT ![r] = Idle]
       /\ UNCHANGED need

(* A handler dies between the two: its transaction is rolled back. *)
Die(r) == "crash" \in entry /\ job[r] # Idle
          /\ job' = [job EXCEPT ![r] = Idle] /\ UNCHANGED data

-----------------------------------------------------------------------------
Init ==
    /\ qty = Initial /\ ledger = Initial /\ need \in Recipes
    /\ batch = [b \in Batch |->
         IF b = 1 THEN [status |-> "sealed", quantity |-> Initial,
                        lapsed |-> FALSE]
         ELSE NoBatch]
    /\ taken = [o \in Order |-> 0]
    /\ applied = [q \in Request |-> 0]
    /\ request = [q \in Request |-> [status |-> "absent", delta |-> 0]]
    /\ ostatus = [o \in Order |-> "pending"]
    /\ hidden = (Initial < need)
    /\ job = [r \in Proc |-> Idle]
    /\ entry \in Profiles

Amount == 1 .. MaxQty

Handler(r) ==
    \/ mark_expired_batches(r)
    \/ \E o \in Order : deduct_for_order(r, o) \/ restore_for_order(r, o)
    \/ \E b \in Batch :
        \/ open_batch(r, b) \/ discard_batch(r, b)
        \/ \E n \in Amount :
            \/ supply(r, b, n) \/ create_batch(r, b, n)
            \/ \E s \in BatchStatus \ {"absent"}, renew \in BOOLEAN :
                 patch_batch(r, b, n, s, renew)
    \/ \E q \in Request : \/ approve_adjustment_request(r, q)
                          \/ reject_adjustment_request(r, q)
    \/ \E delta \in -MaxQty .. MaxQty : adjust_ingredient_stock(r, delta)

Step ==
    \/ \E r \in Proc : Handler(r) \/ Commit(r) \/ Die(r)
    \/ \E b \in Batch : Lapse(b)
    \/ \E o \in Order : Prepare(o)
    \/ \E q \in Request, delta \in -MaxQty .. MaxQty :
         create_adjustment_request(q, delta)
    \/ \E n \in Recipes : replace_recipe(n)
    \/ \E available \in BOOLEAN : set_product_availability_override(available)

Next == Step /\ UNCHANGED entry

Spec == Init /\ [][Next]_vars

-----------------------------------------------------------------------------
(* Properties *)

(* Every variable keeps the shape its column has. *)
TypeOK ==
    /\ qty \in Int /\ need \in Recipes /\ ledger \in Int
    /\ batch \in [Batch -> BatchRow]
    /\ taken \in [Order -> Int] /\ applied \in [Request -> Nat]
    /\ request \in [Request -> RequestRow]
    /\ ostatus \in [Order -> {"pending", "confirmed", "preparing",
                              "cancelled"}]
    /\ hidden \in BOOLEAN
    /\ job \in [Proc -> Job]
    /\ entry \in Profiles

(***************************************************************************)
(* The quantity never becomes negative, although every handler writes a    *)
(* quantity computed from one it read without a lock (deduct_for_order,    *)
(* discard_batch, patch_batch, approve_adjustment_request).                *)
(***************************************************************************)
NeverNegative == qty >= 0

(***************************************************************************)
(* The movements of an order add up to its recipe once it is confirmed and *)
(* to nothing before that and after a cancellation, as long as nobody      *)
(* edits the recipe (deduct_for_order, restore_for_order).                 *)
(***************************************************************************)
DeductedOnce ==
    "recipe" \notin entry =>
        \A o \in Order :
            taken[o] = IF ostatus[o] \in {"confirmed", "preparing"}
                       THEN need ELSE 0

(***************************************************************************)
(* "Déduction et restitution atomiques": the quantity is what the          *)
(* movements add up to, whichever handlers changed it.  Two handlers that  *)
(* overlap refute it: supply and deduct_for_order each write what they     *)
(* read plus their own change, and the later commit wins.                  *)
(***************************************************************************)
MovementsExplainQty == qty = ledger

(***************************************************************************)
(* The same for handlers that do not overlap: no sequence of deliveries,   *)
(* orders, cancellations, size corrections, discards, inventories and      *)
(* reviews moves the quantity without its movement.                        *)
(***************************************************************************)
LedgerExplainsQty == Serial => MovementsExplainQty

(***************************************************************************)
(* A product that the quantity no longer suffices for is off sale, in any  *)
(* order and overlap of confirmations, cancellations, deliveries and       *)
(* adjustments (sync_auto_stock_availability_overrides).  The handlers     *)
(* that never call it (discard_batch, patch_batch, approvals) and the      *)
(* override of an administrator are closed.                                *)
(***************************************************************************)
UnproducibleIsHidden ==
    entry \cap {"recipe", "discard", "patch", "request", "override"} = {} =>
        (qty < need => hidden)

(***************************************************************************)
(* A request is reviewed once: its change is applied when and only when it *)
(* was approved, for reviews that do not overlap                           *)
(* (approve_adjustment_request, reject_adjustment_request).                *)
(***************************************************************************)
ReviewedOnce ==
    Serial => \A q \in Request :
                applied[q] = IF request[q].status = "approved" THEN 1 ELSE 0

=============================================================================
