---------------------------- MODULE Haccp_proofs ----------------------------
(***************************************************************************)
(* What Haccp guarantees for every number of days, items, accounts, keys   *)
(* and orders, every calendar of hours and every length of the cycle.      *)
(***************************************************************************)
EXTENDS Haccp, TLAPS

(***************************************************************************)
(* No control of a day exists before its time: the openings reach at most  *)
(* the day whose opening may be made now, the closings today.              *)
(***************************************************************************)
Frontier ==
    \A d \in Days :
        /\ checks[d]["opening"].status # "none"
             => d <= now.day \/ (now.tick = "last_hour" /\ d = now.day + 1)
        /\ checks[d]["closing"].status # "none" => d <= now.day

(* An earlier session of the cycle proves item i, and still stands. *)
Earlier(i, d) ==
    \E e \in Days, f \in Kinds :
        /\ cycle_start(d) <= e /\ e < d
        /\ checks[e][f].status = "complete" /\ checks[e][f].proof[i] = "ok"

(***************************************************************************)
(* What every row satisfies, complete or not: no row is written before     *)
(* its session starts, the last result of an item is that of its proof if  *)
(* the revision has one, and what is left out as done is proven.           *)
(***************************************************************************)
RowsSound ==
    \A d \in Days, k \in Kinds :
        /\ checks[d][k].status = "none" => checks[d][k] = Absent
        /\ \A i \in Item :
             /\ checks[d][k].proof[i] # "none" => checks[d][k].last[i] = checks[d][k].proof[i]
             /\ checks[d][k].req[i] = DoneInCycle => Earlier(i, d)

(* A receipt was written on the revision of its session or on an earlier one. *)
ReceiptsBehind ==
    \A d \in Days, k \in Kinds, key \in Key :
        receipts[d][k][key].rev <= checks[d][k].rev

(***************************************************************************)
(* An order that passed the gate holds the row of the opening, which none  *)
(* of the handlers of that day does without.                               *)
(***************************************************************************)
GateHolds ==
    \A o \in Order : ord[o].st = "gated" /\ ord[o].strict =>
        /\ ord[o].day \in Days /\ <<ord[o].day, "opening">> \in ord[o].held
        /\ checks[ord[o].day]["opening"].status = "complete"
        /\ checks[ord[o].day]["closing"].status # "complete"

HaccpInv == /\ TypeOK /\ Frontier /\ RowsSound /\ ReceiptsBehind /\ GateHolds
            /\ CompleteIsProven /\ OneDayAtATime /\ AnswersStillTrue

-----------------------------------------------------------------------------
(* The operators the handlers are built from *)

(* The constants the rows are made of. *)
LEMMA Basics ==
    /\ Days \subseteq Nat /\ NoDay \notin Days
    /\ NotAsked \in 0..(MaxSnap + 2) /\ DoneInCycle \in 0..(MaxSnap + 2)
    /\ NotAsked # DoneInCycle
    /\ \A n \in 0..MaxSnap : n # NotAsked /\ n # DoneInCycle /\ n \in 0..(MaxSnap + 2)
    /\ Absent \in HaccpDailySession
    /\ NoReceipt \in Receipt
    /\ Kinds = {"opening", "closing"}
<1>1. /\ MaxSnap \in Nat /\ MaxRev \in Nat /\ MaxDay \in Nat
      /\ Days \subseteq Nat /\ NoDay \notin Days
  BY BoundsAssumption DEF Days, NoDay
<1>2. /\ NotAsked \in 0..(MaxSnap + 2) /\ DoneInCycle \in 0..(MaxSnap + 2)
      /\ NotAsked # DoneInCycle
      /\ \A n \in 0..MaxSnap : n # NotAsked /\ n # DoneInCycle /\ n \in 0..(MaxSnap + 2)
  BY <1>1 DEF NotAsked, DoneInCycle
<1>3. 0 \in 0..MaxRev
  BY <1>1
<1>4. Absent \in HaccpDailySession
  BY <1>2, <1>3 DEF Absent, HaccpDailySession
<1>5. NoReceipt \in Receipt
  BY <1>3 DEF NoReceipt, Receipt
<1> QED
  BY <1>1, <1>2, <1>4, <1>5 DEF Kinds

(* One row of a table of sessions is replaced. *)
LEMMA Replace ==
    ASSUME NEW T, NEW f \in [Days -> [Kinds -> T]], NEW d \in Days, NEW k \in Kinds, NEW v \in T
    PROVE  LET g == [f EXCEPT ![d][k] = v]
           IN  /\ g \in [Days -> [Kinds -> T]]
               /\ g[d][k] = v
               /\ \A e \in Days, h \in Kinds : e # d \/ h # k => g[e][h] = f[e][h]
OBVIOUS

(* What build asks of an item: its snapshot, nothing, or nothing because   *)
(* an earlier session of the cycle proves it.                              *)
LEMMA BuildIs ==
    ASSUME TypeOK, NEW d \in Days, NEW k \in Kinds
    PROVE  /\ build(d, k) \in [Item -> 0..(MaxSnap + 2)]
           /\ \A i \in Item : build(d, k)[i] = DoneInCycle => Earlier(i, d)
<1>1. ASSUME NEW i \in Item
      PROVE  /\ build(d, k)[i] \in 0..(MaxSnap + 2)
             /\ build(d, k)[i] = DoneInCycle => Earlier(i, d)
  <2>1. live[i].snap \in 0..MaxSnap
    BY DEF TypeOK
  <2> QED
    BY <2>1, Basics DEF build, ProvenInCycle, Earlier
<1> QED
  BY <1>1 DEF build

(* A new revision: the requirements of now, and no evidence. *)
LEMMA ReplaceIs ==
    ASSUME TypeOK, NEW d \in Days, NEW k \in Kinds,
           NEW row \in HaccpDailySession, NEW rev \in 0..MaxRev
    PROVE  LET v == [replace_requirements(row, rev, d, k) EXCEPT !.status = "in_progress"]
           IN  /\ v \in HaccpDailySession
               /\ v.status = "in_progress" /\ v.rev = rev /\ v.req = build(d, k)
               /\ \A i \in Item : v.proof[i] = "none"
               /\ v.last = row.last /\ v.counted = row.counted
<1> DEFINE v == [replace_requirements(row, rev, d, k) EXCEPT !.status = "in_progress"]
           b == build(d, k)
           w == [row EXCEPT !.rev = rev, !.req = b, !.proof = [i \in Item |-> "none"]]
<1>1. b \in [Item -> 0..(MaxSnap + 2)]
  BY BuildIs
<1>2. v = [w EXCEPT !.status = "in_progress"]
  BY DEF replace_requirements
<1> HIDE DEF b
<1>3. /\ w \in HaccpDailySession
      /\ w.rev = rev /\ w.req = b /\ w.proof = [i \in Item |-> "none"]
      /\ w.last = row.last /\ w.counted = row.counted
  BY <1>1 DEF HaccpDailySession
<1> HIDE DEF w, v
<1>4. /\ v \in HaccpDailySession /\ v.status = "in_progress"
      /\ v.rev = rev /\ v.req = b /\ v.proof = [i \in Item |-> "none"]
      /\ v.last = row.last /\ v.counted = row.counted
  BY <1>2, <1>3 DEF HaccpDailySession
<1> QED
  BY <1>4 DEF b, v

(* The day a handler works on is a day of the calendar, today or tomorrow. *)
LEMMA BusinessDays ==
    ASSUME TypeOK
    PROVE  /\ OpeningDay # NoDay =>
                /\ OpeningDay \in Days
                /\ \/ OpeningDay = now.day /\ now.tick # "last_hour"
                   \/ OpeningDay = now.day + 1 /\ now.tick = "last_hour"
           /\ ClosingDay \in Days /\ ClosingDay <= now.day
           /\ \A k \in Kinds : business_day(k) # NoDay => business_day(k) \in Days
<1>1. now.day \in Days /\ now.tick \in Ticks /\ MaxDay \in Nat
  BY BoundsAssumption DEF TypeOK
<1>2. /\ now.day < MaxDay => now.day + 1 \in Days
      /\ now.day > 1 => now.day - 1 \in Days /\ now.day - 1 <= now.day
      /\ now.day <= now.day
  BY <1>1 DEF Days
<1>3. OpeningDay # NoDay =>
                /\ OpeningDay \in Days
                /\ \/ OpeningDay = now.day /\ now.tick # "last_hour"
                   \/ OpeningDay = now.day + 1 /\ now.tick = "last_hour"
  BY <1>1, <1>2 DEF OpeningDay
<1>4. ClosingDay \in Days /\ ClosingDay <= now.day
  BY <1>1, <1>2 DEF ClosingDay
<1> QED
  BY <1>3, <1>4 DEF business_day, Kinds

(* Nothing is recorded beyond the day whose opening may be made. *)
LEMMA OpeningIsLast ==
    ASSUME TypeOK, Frontier, OpeningDay # NoDay, NEW e \in Days, NEW k \in Kinds, OpeningDay < e
    PROVE  checks[e][k].status = "none"
<1>1. now.day \in Nat /\ e \in Nat
  BY BoundsAssumption DEF TypeOK, Days
<1>2. ~(e <= now.day) /\ ~(now.tick = "last_hour" /\ e = now.day + 1)
  BY <1>1, BusinessDays
<1> QED
  BY <1>2 DEF Frontier, Kinds

(* What is complete stays so, and with it what proves a task of the cycle. *)
LEMMA EarlierKept ==
    ASSUME NEW i, NEW d,
           \A e \in Days, f \in Kinds :
              checks[e][f].status = "complete" /\ e < d => checks'[e][f] = checks[e][f],
           Earlier(i, d)
    PROVE  Earlier(i, d)'
BY DEF Earlier, cycle_start, NoDay

(* Exactly the row of session k of day d is written. *)
Writes(d, k, v) ==
    /\ checks' \in [Days -> [Kinds -> HaccpDailySession]]
    /\ checks'[d][k] = v
    /\ \A e \in Days, h \in Kinds : e # d \/ h # k => checks'[e][h] = checks[e][h]

-----------------------------------------------------------------------------
(* The handlers *)

(* strict_service.start: a session, or a new revision of one in progress. *)
LEMMA StartStep ==
    ASSUME HaccpInv, NEW u, NEW k \in Kinds, start(u, k)
    PROVE  HaccpInv'
<1> DEFINE d == business_day(k)
           row == checks[d][k]
           v == [replace_requirements(row, row.rev + 1, d, k) EXCEPT !.status = "in_progress"]
<1>1. /\ d \in Days /\ row.status \in {"none", "in_progress"}
      /\ checks' = [checks EXCEPT ![d][k] = v]
      /\ UNCHANGED <<now, hours, live, receipts, scope, strict, ord>>
      /\ row \in HaccpDailySession
  BY BusinessDays DEF start, HaccpInv, TypeOK
<1>2. row.rev + 1 \in 0..MaxRev /\ row.rev \in Nat /\ row.rev < row.rev + 1
  <2>1. row.status = "none" => row.rev = 0
    BY <1>1 DEF HaccpInv, RowsSound, Absent
  <2>2. row.rev \in 0..MaxRev /\ MaxRev \in Nat \ {0}
    BY <1>1, BoundsAssumption DEF HaccpDailySession
  <2>3. row.status = "none" \/ row.rev < MaxRev
    BY DEF start
  <2> QED
    BY <2>1, <2>2, <2>3
<1> HIDE DEF d, row
<1>3. /\ v \in HaccpDailySession
      /\ v.status = "in_progress" /\ v.rev = row.rev + 1 /\ v.req = build(d, k)
      /\ \A i \in Item : v.proof[i] = "none"
  BY <1>1, <1>2, ReplaceIs DEF HaccpInv
<1>4. Writes(d, k, v)
  BY <1>1, <1>3, Replace DEF Writes, HaccpInv, TypeOK
<1> HIDE DEF v
<1> USE DEF d, row
<1>5. /\ \A e \in Days, f \in Kinds :
            checks[e][f].status = "complete" => checks'[e][f] = checks[e][f]
      /\ \A i \in Item, e \in Days : Earlier(i, e) => Earlier(i, e)'
  <2>1. \A e \in Days, f \in Kinds :
            checks[e][f].status = "complete" => checks'[e][f] = checks[e][f]
    BY <1>1, <1>4 DEF Writes
  <2> QED
    BY <2>1, EarlierKept
<1>6. TypeOK'
  BY <1>1, <1>4 DEF Writes, HaccpInv, TypeOK
<1>7. Frontier'
  BY <1>1, <1>4, BusinessDays, Basics DEF Writes, HaccpInv, Frontier, business_day
<1>8. RowsSound'
  <2> SUFFICES ASSUME NEW e \in Days, NEW f \in Kinds
      PROVE  /\ checks'[e][f].status = "none" => checks'[e][f] = Absent
             /\ \A i \in Item :
                  /\ checks'[e][f].proof[i] # "none"
                        => checks'[e][f].last[i] = checks'[e][f].proof[i]
                  /\ checks'[e][f].req[i] = DoneInCycle => Earlier(i, e)'
    BY DEF RowsSound, Absent
  <2>1. CASE e = d /\ f = k
    BY <2>1, <1>1, <1>3, <1>4, <1>5, BuildIs DEF Writes, HaccpInv
  <2>2. CASE ~(e = d /\ f = k)
    BY <2>2, <1>4, <1>5 DEF Writes, HaccpInv, RowsSound
  <2> QED
    BY <2>1, <2>2
<1>9. ReceiptsBehind'
  BY <1>1, <1>2, <1>3, <1>4 DEF Writes, HaccpInv, ReceiptsBehind, TypeOK, Receipt
<1>10. GateHolds'
  BY <1>1, <1>3, <1>4, <1>5, Basics DEF Writes, HaccpInv, GateHolds
<1>11. CompleteIsProven'
  BY <1>1, <1>3, <1>4, <1>5, <1>8
  DEF Writes, HaccpInv, CompleteIsProven, RowsSound, Earlier, Asked
<1>12. OneDayAtATime'
  BY <1>1, <1>3, <1>4, Basics DEF Writes, HaccpInv, OneDayAtATime, Final
<1>13. AnswersStillTrue'
  BY <1>1, <1>2, <1>3, <1>4
  DEF Writes, HaccpInv, AnswersStillTrue, ReceiptsBehind, replay, TypeOK, Receipt
<1> QED
  BY <1>6, <1>7, <1>8, <1>9, <1>10, <1>11, <1>12, <1>13 DEF HaccpInv

(* A receipt on the current revision. *)
LEMMA ReceiptIs ==
    ASSUME TypeOK, NEW d \in Days, NEW k \in Kinds, NEW key \in Key, NEW rev \in 0..MaxRev,
           NEW act \in {"evidence_recorded", "session_completed", "validation_refused",
                       "closing_regularized", "day_reopened"},
           receipt(d, k, key, act, rev)
    PROVE  /\ receipts' \in [Days -> [Kinds -> [Key -> Receipt]]]
           /\ receipts'[d][k][key].act = act /\ receipts'[d][k][key].rev = rev
           /\ \A e \in Days, h \in Kinds, o \in Key :
                e # d \/ h # k \/ o # key => receipts'[e][h][o] = receipts[e][h][o]
<1> DEFINE n == [act |-> act, rev |-> rev]
<1>1. n \in Receipt /\ n.act = act /\ n.rev = rev
  BY DEF Receipt
<1>2. receipts \in [Days -> [Kinds -> [Key -> Receipt]]]
  BY DEF TypeOK
<1>3. receipts' = [receipts EXCEPT ![d][k][key] = n]
  BY DEF receipt
<1> HIDE DEF n
<1> QED
  BY <1>1, <1>2, <1>3

(***************************************************************************)
(* A request that writes its session, which is in progress, on its current *)
(* revision, and leaves a receipt: the evidence, the validation and the    *)
(* regularisation.                                                         *)
(***************************************************************************)
LEMMA WriteStep ==
    ASSUME HaccpInv, NEW d \in Days, NEW k \in Kinds, NEW key \in Key, NEW v, NEW act,
           Writes(d, k, v), checks[d][k].status = "in_progress",
           act \in {"evidence_recorded", "session_completed", "validation_refused",
                   "closing_regularized"},
           receipt(d, k, key, act, checks[d][k].rev),
           UNCHANGED <<now, hours, live, scope, strict, ord>>,
           v.status \in {"in_progress", "complete", "regularized"},
           v.rev = checks[d][k].rev, v.req = checks[d][k].req,
           \A i \in Item : v.proof[i] # "none" => v.last[i] = v.proof[i],
           act = "session_completed" => v.status = "complete",
           act = "closing_regularized" => v.status = "regularized",
           v.status = "complete" =>
              /\ \A i \in Item : /\ i \in Asked(v.req) => v.proof[i] = "ok"
                                /\ v.last[i] # "bad"
              /\ k = "opening" => /\ d = OpeningDay /\ missing_closings(d) = {}
                                  /\ ~Final(checks[d]["closing"])
              /\ k = "closing" => /\ checks[d]["opening"].status = "complete"
                                  /\ \A o \in Order : <<d, "opening">> \notin ord[o].held,
           v.status = "regularized" => k = "closing" /\ checks[d]["opening"].status = "complete"
    PROVE  HaccpInv'
<1>1. /\ receipts' \in [Days -> [Kinds -> [Key -> Receipt]]]
      /\ receipts'[d][k][key].act = act /\ receipts'[d][k][key].rev = checks[d][k].rev
      /\ \A e \in Days, h \in Kinds, o \in Key :
           e # d \/ h # k \/ o # key => receipts'[e][h][o] = receipts[e][h][o]
  <2>1. checks[d][k].rev \in 0..MaxRev
    BY DEF HaccpInv, TypeOK, HaccpDailySession
  <2> QED
    BY <2>1, ReceiptIs DEF HaccpInv
<1>2. \A e \in Days, f \in Kinds :
         checks[e][f].status = "complete" => checks'[e][f] = checks[e][f]
  BY DEF Writes
<1>3. \A i \in Item, e \in Days : Earlier(i, e) => Earlier(i, e)'
  BY <1>2, EarlierKept
<1>4. TypeOK'
  BY <1>1 DEF Writes, HaccpInv, TypeOK
<1>5. Frontier'
  BY Basics DEF Writes, HaccpInv, Frontier
<1>6. RowsSound'
  <2> SUFFICES ASSUME NEW e \in Days, NEW f \in Kinds
      PROVE  /\ checks'[e][f].status = "none" => checks'[e][f] = Absent
             /\ \A i \in Item :
                  /\ checks'[e][f].proof[i] # "none"
                        => checks'[e][f].last[i] = checks'[e][f].proof[i]
                  /\ checks'[e][f].req[i] = DoneInCycle => Earlier(i, e)'
    BY DEF RowsSound, Absent
  <2>1. CASE e = d /\ f = k
    <3>1. checks'[e][f] = v
      BY <2>1 DEF Writes
    <3>2. \A i \in Item : v.req[i] = DoneInCycle => Earlier(i, e)'
      BY <2>1, <1>3 DEF HaccpInv, RowsSound
    <3> QED
      BY <3>1, <3>2
  <2>2. CASE ~(e = d /\ f = k)
    BY <2>2, <1>3 DEF Writes, HaccpInv, RowsSound
  <2> QED
    BY <2>1, <2>2
<1>7. ReceiptsBehind'
  <2>1. checks[d][k].rev <= checks[d][k].rev
    BY DEF HaccpInv, TypeOK, HaccpDailySession
  <2> SUFFICES ASSUME NEW e \in Days, NEW f \in Kinds, NEW o \in Key
      PROVE  receipts'[e][f][o].rev <= checks'[e][f].rev
    BY DEF ReceiptsBehind
  <2>2. checks'[e][f].rev = checks[e][f].rev
    BY DEF Writes
  <2>3. receipts[e][f][o].rev <= checks[e][f].rev
    BY DEF HaccpInv, ReceiptsBehind
  <2>4. CASE e = d /\ f = k /\ o = key
    BY <2>4, <2>1, <2>2, <1>1
  <2>5. CASE ~(e = d /\ f = k /\ o = key)
    BY <2>5, <2>2, <2>3, <1>1
  <2> QED
    BY <2>4, <2>5
<1>8. GateHolds'
  <2> SUFFICES ASSUME NEW o \in Order, ord[o].st = "gated", ord[o].strict
      PROVE  /\ ord[o].day \in Days /\ <<ord[o].day, "opening">> \in ord[o].held
             /\ checks'[ord[o].day]["opening"].status = "complete"
             /\ checks'[ord[o].day]["closing"].status # "complete"
    BY DEF GateHolds
  <2>1. /\ ord[o].day \in Days /\ <<ord[o].day, "opening">> \in ord[o].held
        /\ checks[ord[o].day]["opening"].status = "complete"
        /\ checks[ord[o].day]["closing"].status # "complete"
    BY DEF HaccpInv, GateHolds
  <2>2. checks'[ord[o].day]["opening"].status = "complete"
    BY <2>1, <1>2, Basics
  <2>3. checks'[ord[o].day]["closing"].status # "complete"
    BY <2>1, Basics DEF Writes
  <2> QED
    BY <2>1, <2>2, <2>3
<1>9. CompleteIsProven'
  <2> SUFFICES ASSUME NEW e \in Days, NEW f \in Kinds, checks'[e][f].status = "complete",
                      NEW i \in Item
      PROVE  /\ i \in Asked(checks'[e][f].req) => checks'[e][f].proof[i] = "ok"
             /\ checks'[e][f].last[i] # "bad"
             /\ checks'[e][f].req[i] = DoneInCycle => Earlier(i, e)'
    BY DEF CompleteIsProven, Earlier, Asked, cycle_start
  <2>1. CASE e = d /\ f = k
    BY <2>1, <1>6 DEF Writes, RowsSound
  <2>2. CASE ~(e = d /\ f = k)
    BY <2>2, <1>6 DEF Writes, HaccpInv, RowsSound, CompleteIsProven
  <2> QED
    BY <2>1, <2>2
<1>10. OneDayAtATime'
  <2>1. ASSUME k = "closing" PROVE OneDayAtATime'
    BY <2>1, Basics DEF Writes, HaccpInv, OneDayAtATime, Final
  <2>2. ASSUME k = "opening" PROVE OneDayAtATime'
    <3>1. \A e \in Days : checks'[e]["closing"] = checks[e]["closing"]
      BY <2>2, Basics DEF Writes
    <3>2. CASE v.status # "complete"
      BY <2>2, <3>1, <3>2, Basics DEF Writes, HaccpInv, OneDayAtATime, Final
    <3>3. CASE v.status = "complete"
      <4>1. \A e \in Days : d < e => checks[e]["opening"].status = "none"
        BY <2>2, <3>3, OpeningIsLast, Basics DEF HaccpInv
      <4>2. \A e \in Days : e < d /\ checks[e]["opening"].status = "complete"
                              /\ checks[e]["opening"].counted => Final(checks[e]["closing"])
        BY <2>2, <3>3 DEF missing_closings
      <4>3. \A e \in Days : ~(e < e) /\ (e < d \/ e = d \/ d < e)
        BY Basics
      <4> QED
        BY <2>2, <3>1, <3>3, <4>1, <4>2, <4>3, Basics DEF Writes, HaccpInv, OneDayAtATime, Final
    <3> QED
      BY <3>2, <3>3
  <2> QED
    BY <2>1, <2>2, Basics
<1>11. AnswersStillTrue'
  <2> SUFFICES ASSUME NEW e \in Days, NEW f \in Kinds, NEW o \in Key
      PROVE  /\ replay(e, f, o)' = "session_completed" => checks'[e][f].status = "complete"
             /\ replay(e, f, o)' = "closing_regularized" => checks'[e][f].status = "regularized"
    BY DEF AnswersStillTrue
  <2>1. CASE e = d /\ f = k /\ o = key
    BY <2>1, <1>1 DEF Writes, replay
  <2>2. ASSUME ~(e = d /\ f = k /\ o = key) PROVE replay(e, f, o)' = replay(e, f, o)
    <3>1. receipts'[e][f][o] = receipts[e][f][o] /\ checks'[e][f].rev = checks[e][f].rev
      BY <2>2, <1>1 DEF Writes
    <3> QED
      BY <3>1 DEF replay
  <2>3. /\ replay(e, f, o) = "session_completed" => checks[e][f].status = "complete"
        /\ replay(e, f, o) = "closing_regularized" => checks[e][f].status = "regularized"
    BY DEF HaccpInv, AnswersStillTrue
  <2>4. ~(e = d /\ f = k) => checks'[e][f] = checks[e][f]
    BY DEF Writes
  <2> QED
    BY <2>1, <2>2, <2>3, <2>4
<1> QED
  BY <1>4, <1>5, <1>6, <1>7, <1>8, <1>9, <1>10, <1>11 DEF HaccpInv

(* strict_service.record: the same result goes to the proof and to the history. *)
LEMMA RecordStep ==
    ASSUME HaccpInv, NEW u, NEW d \in Days, NEW k \in Kinds, NEW key \in Key,
           NEW S \in SUBSET Item, NEW said \in [S -> {"ok", "bad"}], NEW corrected,
           record(u, d, k, key, said, corrected)
    PROVE  HaccpInv'
<1> DEFINE row == checks[d][k]
           found == [i \in DOMAIN said |-> Compliant(i, said[i])]
           upd(f) == [i \in Item |-> IF i \in DOMAIN found THEN found[i] ELSE f[i]]
           v == [row EXCEPT !.proof = upd(@), !.last = upd(@)]
<1>1. row \in HaccpDailySession /\ checks \in [Days -> [Kinds -> HaccpDailySession]]
  BY DEF HaccpInv, TypeOK
<1>2. /\ row.status = "in_progress"
      /\ receipt(d, k, key, "evidence_recorded", row.rev)
      /\ UNCHANGED <<now, hours, live, scope, strict, ord>>
      /\ checks' = [checks EXCEPT ![d][k].proof = upd(@), ![d][k].last = upd(@)]
  BY DEF record, current_write
<1>3. \A i \in S : found[i] \in {"ok", "bad"}
  BY DEF Compliant
<1>4. ASSUME NEW f \in [Item -> {"none", "ok", "bad"}]
      PROVE  /\ upd(f) \in [Item -> {"none", "ok", "bad"}]
             /\ \A i \in Item : upd(f)[i] = IF i \in S THEN found[i] ELSE f[i]
  BY <1>3
<1>5. row.proof \in [Item -> {"none", "ok", "bad"}] /\ row.last \in [Item -> {"none", "ok", "bad"}]
  BY <1>1 DEF HaccpDailySession
<1> DEFINE p == upd(row.proof)
           l == upd(row.last)
<1>6. /\ p \in [Item -> {"none", "ok", "bad"}] /\ l \in [Item -> {"none", "ok", "bad"}]
      /\ \A i \in Item : /\ p[i] = IF i \in S THEN found[i] ELSE row.proof[i]
                         /\ l[i] = IF i \in S THEN found[i] ELSE row.last[i]
  BY <1>4, <1>5
<1> DEFINE w == [row EXCEPT !.proof = p, !.last = l]
<1>7. checks' = [checks EXCEPT ![d][k] = w]
  BY <1>1, <1>2 DEF HaccpDailySession
<1> HIDE DEF p, l, found
<1>8. /\ w \in HaccpDailySession /\ w.status = row.status /\ w.rev = row.rev /\ w.req = row.req
      /\ w.proof = p /\ w.last = l
  BY <1>1, <1>6 DEF HaccpDailySession
<1> HIDE DEF w
<1>9. Writes(d, k, w)
  BY <1>1, <1>7, <1>8, Replace DEF Writes
<1>10. \A i \in Item : w.proof[i] # "none" => w.last[i] = w.proof[i]
  <2>1. \A i \in Item : row.proof[i] # "none" => row.last[i] = row.proof[i]
    BY DEF HaccpInv, RowsSound
  <2> QED
    BY <2>1, <1>6, <1>8
<1> QED
  BY <1>2, <1>8, <1>9, <1>10, WriteStep

(***************************************************************************)
(* The validation: the evidence covers what is asked today, the last       *)
(* result of what is not asked is not a failure, and a closing waits for   *)
(* the orders that hold the opening.                                       *)
(***************************************************************************)
LEMMA CompleteStep ==
    ASSUME HaccpInv, NEW u, NEW d \in Days, NEW k \in Kinds, NEW key \in Key,
           complete(u, d, k, key)
    PROVE  HaccpInv'
<1> DEFINE row == checks[d][k]
<1>1. row \in HaccpDailySession /\ checks \in [Days -> [Kinds -> HaccpDailySession]]
      /\ strict \in BOOLEAN
  BY DEF HaccpInv, TypeOK
<1>2. /\ row.status = "in_progress" /\ d = business_day(k)
      /\ ~Stale(row, build(d, k)) /\ Free(Locks(d, k))
      /\ UNCHANGED <<now, hours, live, scope, strict, ord>>
  BY DEF complete, current_write
<1>3. \A i \in Item : row.proof[i] # "none" => row.last[i] = row.proof[i]
  BY DEF HaccpInv, RowsSound
<1>4. CASE ~Validable(d, k)
  <2>1. /\ checks' = checks
        /\ receipt(d, k, key, "validation_refused", row.rev)
    BY <1>4 DEF complete
  <2>2. Writes(d, k, row)
    BY <2>1, <1>1 DEF Writes
  <2> QED
    BY <2>1, <2>2, <1>2, <1>3, WriteStep
<1>5. CASE Validable(d, k)
  <2> DEFINE v == [row EXCEPT !.status = "complete", !.counted = strict]
  <2>1. /\ checks' = [checks EXCEPT ![d][k].status = "complete", ![d][k].counted = strict]
        /\ receipt(d, k, key, "session_completed", row.rev)
    BY <1>5 DEF complete
  <2>2. checks' = [checks EXCEPT ![d][k] = v]
    BY <2>1, <1>1 DEF HaccpDailySession
  <2>3. /\ v \in HaccpDailySession /\ v.status = "complete" /\ v.rev = row.rev
        /\ v.req = row.req /\ v.proof = row.proof /\ v.last = row.last
    BY <1>1 DEF HaccpDailySession
  <2> HIDE DEF v
  <2>4. Writes(d, k, v)
    BY <1>1, <2>2, <2>3, Replace DEF Writes
  <2>5. ASSUME NEW i \in Item
        PROVE  /\ i \in Asked(row.req) => row.proof[i] = "ok"
               /\ row.last[i] # "bad"
    <3>1. i \in Asked(row.req) => row.proof[i] = "ok"
      BY <1>5 DEF Validable
    <3>2. i \notin Asked(build(d, k)) => row.last[i] # "bad"
      BY <1>5 DEF Validable
    <3>3. i \in Asked(row.req) \/ i \notin Asked(build(d, k))
      BY <1>2 DEF Stale, Asked
    <3> QED
      BY <3>1, <3>2, <3>3, <1>3
  <2>6. k = "opening" => /\ d = OpeningDay /\ missing_closings(d) = {}
                         /\ ~Final(checks[d]["closing"])
    BY <1>2, <1>5 DEF Validable, business_day
  <2>7. k = "closing" => /\ checks[d]["opening"].status = "complete"
                         /\ \A o \in Order : <<d, "opening">> \notin ord[o].held
    <3>1. k = "closing" => checks[d]["opening"].status = "complete"
      BY <1>5 DEF Validable
    <3>2. checks[d]["opening"].status = "complete" => <<d, "opening">> \in Locks(d, k)
      BY DEF Locks, Rows
    <3> QED
      BY <3>1, <3>2, <1>2 DEF Free
  <2> QED
    BY <2>1, <2>3, <2>4, <2>5, <2>6, <2>7, <1>2, <1>3, WriteStep
<1> QED
  BY <1>4, <1>5

(* strict_service.regularize: only a day that was opened is regularised. *)
LEMMA RegularizeStep ==
    ASSUME HaccpInv, NEW u, NEW d \in Days, NEW key \in Key, regularize(u, d, key)
    PROVE  HaccpInv'
<1> DEFINE row == checks[d]["closing"]
           v == [row EXCEPT !.status = "regularized", !.counted = strict]
<1>0. "closing" \in Kinds
  BY Basics
<1>1. row \in HaccpDailySession /\ checks \in [Days -> [Kinds -> HaccpDailySession]]
      /\ strict \in BOOLEAN
  BY <1>0 DEF HaccpInv, TypeOK
<1>2. /\ row.status = "in_progress" /\ checks[d]["opening"].status = "complete"
      /\ receipt(d, "closing", key, "closing_regularized", row.rev)
      /\ UNCHANGED <<now, hours, live, scope, strict, ord>>
      /\ checks' = [checks EXCEPT ![d]["closing"].status = "regularized",
                                  ![d]["closing"].counted = strict]
  BY DEF regularize, missing_closings
<1>3. \A i \in Item : row.proof[i] # "none" => row.last[i] = row.proof[i]
  BY <1>0 DEF HaccpInv, RowsSound
<1>4. checks' = [checks EXCEPT ![d]["closing"] = v]
  BY <1>0, <1>1, <1>2 DEF HaccpDailySession
<1>5. /\ v \in HaccpDailySession /\ v.status = "regularized" /\ v.rev = row.rev
      /\ v.req = row.req /\ v.proof = row.proof /\ v.last = row.last
  BY <1>1 DEF HaccpDailySession
<1> HIDE DEF v
<1>6. Writes(d, "closing", v)
  BY <1>0, <1>1, <1>4, <1>5, Replace DEF Writes
<1> QED
  BY <1>0, <1>2, <1>3, <1>5, <1>6, WriteStep

(* prepare_regularization: several closings are created at once, each empty. *)
LEMMA PrepareStep ==
    ASSUME HaccpInv, NEW u, prepare_regularization(u)
    PROVE  HaccpInv'
<1> DEFINE days == {e \in missing_closings(now.day) : checks[e]["closing"].status = "none"}
           v == [Absent EXCEPT !.status = "in_progress", !.rev = 1]
<1>1. /\ UNCHANGED <<now, hours, live, receipts, scope, strict, ord>>
      /\ checks' = [e \in Days |-> IF e \in days
                      THEN [checks[e] EXCEPT !["closing"] = v] ELSE checks[e]]
  BY DEF prepare_regularization
<1>2. /\ v \in HaccpDailySession /\ v.status = "in_progress" /\ v.rev = 1
      /\ \A i \in Item : v.req[i] = NotAsked /\ v.proof[i] = "none"
  <2>1. 1 \in 0..MaxRev
    BY BoundsAssumption
  <2> QED
    BY <2>1, Basics DEF Absent, HaccpDailySession
<1>3. /\ days \subseteq Days /\ now.day \in Nat
      /\ \A e \in days : /\ e < now.day /\ checks[e]["opening"].status = "complete"
                         /\ checks[e]["closing"].status = "none"
  BY Basics DEF missing_closings, HaccpInv, TypeOK
<1>4. checks \in [Days -> [Kinds -> HaccpDailySession]]
  BY DEF HaccpInv, TypeOK
<1> HIDE DEF days, v
<1>5. ASSUME NEW e \in Days, NEW f \in Kinds
      PROVE  /\ e \in days /\ f = "closing" => checks'[e][f] = v
             /\ e \notin days \/ f # "closing" => checks'[e][f] = checks[e][f]
  BY <1>1, <1>4
<1>6. checks' \in [Days -> [Kinds -> HaccpDailySession]]
  BY <1>1, <1>2, <1>4
<1>7. \A e \in Days, f \in Kinds :
         \/ checks'[e][f] = checks[e][f]
         \/ /\ e \in days /\ f = "closing" /\ checks'[e][f] = v
            /\ checks[e][f].status = "none" /\ checks[e][f].rev = 0
  BY <1>3, <1>5, Basics DEF HaccpInv, RowsSound, Absent
<1>8. \A i \in Item, e \in Days : Earlier(i, e) => Earlier(i, e)'
  BY <1>7, EarlierKept
<1>9. TypeOK'
  BY <1>1, <1>6 DEF HaccpInv, TypeOK
<1>10. Frontier'
  <2>1. ASSUME NEW e \in days PROVE e <= now.day
    <3>1. e \in Nat /\ now.day \in Nat /\ e < now.day
      BY <1>3, Basics
    <3> QED
      BY <3>1
  <2> QED
    BY <2>1, <1>1, <1>7, Basics DEF HaccpInv, Frontier
<1>11. RowsSound'
  <2> SUFFICES ASSUME NEW e \in Days, NEW f \in Kinds
      PROVE  /\ checks'[e][f].status = "none" => checks'[e][f] = Absent
             /\ \A i \in Item :
                  /\ checks'[e][f].proof[i] # "none"
                        => checks'[e][f].last[i] = checks'[e][f].proof[i]
                  /\ checks'[e][f].req[i] = DoneInCycle => Earlier(i, e)'
    BY DEF RowsSound, Absent
  <2>1. CASE checks'[e][f] = v
    BY <2>1, <1>2, Basics
  <2>2. CASE checks'[e][f] = checks[e][f]
    BY <2>2, <1>8 DEF HaccpInv, RowsSound
  <2> QED
    BY <2>1, <2>2, <1>7
<1>12. ReceiptsBehind'
  <2> SUFFICES ASSUME NEW e \in Days, NEW f \in Kinds, NEW o \in Key
      PROVE  receipts[e][f][o].rev <= checks'[e][f].rev
    BY <1>1 DEF ReceiptsBehind
  <2>1. receipts[e][f][o].rev <= checks[e][f].rev /\ receipts[e][f][o].rev \in Nat
    BY DEF HaccpInv, ReceiptsBehind, TypeOK, Receipt
  <2> QED
    BY <2>1, <1>2, <1>7
<1>13. GateHolds'
  BY <1>1, <1>2, <1>7, Basics DEF HaccpInv, GateHolds
<1>14. CompleteIsProven'
  <2> SUFFICES ASSUME NEW e \in Days, NEW f \in Kinds, checks'[e][f].status = "complete",
                      NEW i \in Item
      PROVE  /\ i \in Asked(checks'[e][f].req) => checks'[e][f].proof[i] = "ok"
             /\ checks'[e][f].last[i] # "bad"
             /\ checks'[e][f].req[i] = DoneInCycle => Earlier(i, e)'
    BY DEF CompleteIsProven, Earlier, Asked, cycle_start
  <2>1. checks'[e][f] = checks[e][f]
    BY <1>2, <1>7
  <2> QED
    BY <2>1, <1>11 DEF HaccpInv, RowsSound, CompleteIsProven
<1>15. OneDayAtATime'
  BY <1>2, <1>3, <1>7, Basics DEF HaccpInv, OneDayAtATime, Final
<1>16. AnswersStillTrue'
  <2> SUFFICES ASSUME NEW e \in Days, NEW f \in Kinds, NEW o \in Key
      PROVE  /\ replay(e, f, o)' = "session_completed" => checks'[e][f].status = "complete"
             /\ replay(e, f, o)' = "closing_regularized" => checks'[e][f].status = "regularized"
    BY DEF AnswersStillTrue
  <2>1. CASE checks'[e][f] = checks[e][f]
    BY <2>1, <1>1 DEF replay, HaccpInv, AnswersStillTrue
  <2>2. CASE checks'[e][f] = v /\ checks[e][f].rev = 0
    <3>1. receipts[e][f][o].rev <= checks[e][f].rev /\ receipts[e][f][o].rev \in Nat
      BY DEF HaccpInv, ReceiptsBehind, TypeOK, Receipt
    <3>2. receipts'[e][f][o].rev # checks'[e][f].rev
      BY <2>2, <3>1, <1>1, <1>2
    <3> QED
      BY <3>2 DEF replay
  <2> QED
    BY <2>1, <2>2, <1>7
<1> QED
  BY <1>9, <1>10, <1>11, <1>12, <1>13, <1>14, <1>15, <1>16 DEF HaccpInv

(***************************************************************************)
(* The reopening of a day: nothing is recorded after that day, so nothing  *)
(* rests on the evidence it sets aside; no order is between its gate and   *)
(* its commit; and every receipt of the day is behind its new revision.    *)
(***************************************************************************)
LEMMA ReopenStep ==
    ASSUME HaccpInv, NEW u, NEW d \in Days, NEW key \in Key, reopen(u, d, key)
    PROVE  HaccpInv'
<1> DEFINE w(k) == [replace_requirements(checks[d][k], checks[d][k].rev + 1, d, k)
                       EXCEPT !.status = "in_progress"]
           v(k) == [replace_requirements(checks[d][k], checks[d][k].rev + 1, d, k) EXCEPT
                       !.status = "in_progress", !.counted = FALSE]
<1>1. /\ d = OpeningDay /\ Free(Locks(d, "opening"))
      /\ \A k \in Kinds : checks[d][k].rev < MaxRev /\ checks[d][k].status = "complete"
      /\ checks' = [checks EXCEPT ![d] = [k \in Kinds |-> v(k)]]
      /\ receipt(d, "opening", key, "day_reopened", checks[d]["opening"].rev + 1)
      /\ UNCHANGED <<now, hours, live, scope, strict, ord>>
  BY Basics DEF reopen
<1>2. checks \in [Days -> [Kinds -> HaccpDailySession]]
  BY DEF HaccpInv, TypeOK
<1>3. \A k \in Kinds : /\ checks[d][k] \in HaccpDailySession
                       /\ checks[d][k].rev \in Nat /\ checks[d][k].rev + 1 \in 0..MaxRev
  <2> TAKE k \in Kinds
  <2>1. checks[d][k] \in HaccpDailySession
    BY <1>2
  <2>2. checks[d][k].rev \in 0..MaxRev /\ MaxRev \in Nat
    BY <2>1, BoundsAssumption DEF HaccpDailySession
  <2>3. checks[d][k].rev < MaxRev
    BY <1>1
  <2> QED
    BY <2>1, <2>2, <2>3
<1>4. ASSUME NEW k \in Kinds
      PROVE  /\ v(k) \in HaccpDailySession
             /\ v(k).status = "in_progress" /\ v(k).rev = checks[d][k].rev + 1
             /\ v(k).req = build(d, k) /\ \A i \in Item : v(k).proof[i] = "none"
  <2>1. /\ w(k) \in HaccpDailySession
        /\ w(k).status = "in_progress" /\ w(k).rev = checks[d][k].rev + 1
        /\ w(k).req = build(d, k) /\ \A i \in Item : w(k).proof[i] = "none"
    BY <1>3, ReplaceIs DEF HaccpInv
  <2>2. v(k) = [w(k) EXCEPT !.counted = FALSE]
    BY <1>3 DEF replace_requirements, HaccpDailySession
  <2> HIDE DEF w, v
  <2> QED
    BY <2>1, <2>2 DEF HaccpDailySession
<1> HIDE DEF v
<1>5. /\ checks' \in [Days -> [Kinds -> HaccpDailySession]]
      /\ \A k \in Kinds : checks'[d][k] = v(k)
      /\ \A e \in Days, k \in Kinds : e # d => checks'[e][k] = checks[e][k]
  BY <1>1, <1>2, <1>4
<1>6. /\ receipts' \in [Days -> [Kinds -> [Key -> Receipt]]]
      /\ receipts'[d]["opening"][key].act = "day_reopened"
      /\ receipts'[d]["opening"][key].rev = checks[d]["opening"].rev + 1
      /\ \A e \in Days, h \in Kinds, o \in Key :
           e # d \/ h # "opening" \/ o # key => receipts'[e][h][o] = receipts[e][h][o]
  BY <1>1, <1>3, ReceiptIs, Basics DEF HaccpInv
<1>7. \A i \in Item, e \in Days : e <= d /\ Earlier(i, e) => Earlier(i, e)'
  <2> TAKE i \in Item, e \in Days
  <2> HAVE e <= d /\ Earlier(i, e)
  <2>1. \A g \in Days : g < e => g # d
    BY Basics
  <2> QED
    BY <2>1, <1>5, EarlierKept
<1>8. \A e \in Days, k \in Kinds : d < e =>
         checks'[e][k] = Absent /\ checks[e][k].status = "none"
  <2>1. \A e \in Days : d < e => e # d
    BY Basics
  <2> QED
    BY <2>1, <1>1, <1>5, OpeningIsLast, Basics DEF HaccpInv, RowsSound
<1>9. TypeOK'
  BY <1>1, <1>5, <1>6 DEF HaccpInv, TypeOK
<1>10. Frontier'
  BY <1>1, <1>5, Basics DEF HaccpInv, Frontier
<1>11. RowsSound'
  <2> SUFFICES ASSUME NEW e \in Days, NEW f \in Kinds
      PROVE  /\ checks'[e][f].status = "none" => checks'[e][f] = Absent
             /\ \A i \in Item :
                  /\ checks'[e][f].proof[i] # "none"
                        => checks'[e][f].last[i] = checks'[e][f].proof[i]
                  /\ checks'[e][f].req[i] = DoneInCycle => Earlier(i, e)'
    BY DEF RowsSound, Absent
  <2>1. CASE e = d
    <3>1. d <= d
      BY Basics
    <3>2. \A i \in Item : build(d, f)[i] = DoneInCycle => Earlier(i, e)'
      BY <2>1, <3>1, <1>7, BuildIs DEF HaccpInv
    <3> QED
      BY <2>1, <3>2, <1>4, <1>5
  <2>2. CASE d < e
    <3>1. \A i \in Item : Absent.req[i] = NotAsked /\ Absent.proof[i] = "none"
      BY DEF Absent
    <3> QED
      BY <2>2, <3>1, <1>8, Basics
  <2>3. CASE e < d
    <3>1. e <= d /\ e # d
      BY <2>3, Basics
    <3> QED
      BY <3>1, <1>5, <1>7 DEF HaccpInv, RowsSound
  <2> QED
    BY <2>1, <2>2, <2>3, Basics
<1>12. ASSUME NEW k \in Kinds, NEW o \in Key
       PROVE  receipts[d][k][o].rev < checks'[d][k].rev
  <2>1. receipts[d][k][o].rev <= checks[d][k].rev /\ receipts[d][k][o].rev \in Nat
    BY DEF HaccpInv, ReceiptsBehind, TypeOK, Receipt
  <2> QED
    BY <2>1, <1>3, <1>4, <1>5
<1>13. \A e \in Days, f \in Kinds, o \in Key :
          receipts[e][f][o].rev \in Nat /\ checks'[e][f].rev \in Nat
  BY <1>5 DEF HaccpInv, TypeOK, Receipt, HaccpDailySession
<1>14. ReceiptsBehind'
  <2> SUFFICES ASSUME NEW e \in Days, NEW f \in Kinds, NEW o \in Key
      PROVE  receipts'[e][f][o].rev <= checks'[e][f].rev
    BY DEF ReceiptsBehind
  <2>1. CASE e = d /\ f = "opening" /\ o = key
    BY <2>1, <1>3, <1>4, <1>5, <1>6
  <2>2. CASE e = d /\ ~(f = "opening" /\ o = key)
    BY <2>2, <1>6, <1>12, <1>13
  <2>3. CASE e # d
    BY <2>3, <1>5, <1>6 DEF HaccpInv, ReceiptsBehind
  <2> QED
    BY <2>1, <2>2, <2>3
<1>15. GateHolds'
  <2>1. <<d, "opening">> \in Locks(d, "opening")
    BY <1>1, Basics DEF Locks, Rows
  <2>2. \A o \in Order : <<d, "opening">> \notin ord[o].held
    BY <2>1, <1>1 DEF Free
  <2>3. \A o \in Order : ord[o].st = "gated" /\ ord[o].strict => ord[o].day # d
    BY <2>2 DEF HaccpInv, GateHolds
  <2> QED
    BY <2>3, <1>1, <1>5, Basics DEF HaccpInv, GateHolds
<1>16. CompleteIsProven'
  <2> SUFFICES ASSUME NEW e \in Days, NEW f \in Kinds, checks'[e][f].status = "complete",
                      NEW i \in Item
      PROVE  /\ i \in Asked(checks'[e][f].req) => checks'[e][f].proof[i] = "ok"
             /\ checks'[e][f].last[i] # "bad"
             /\ checks'[e][f].req[i] = DoneInCycle => Earlier(i, e)'
    BY DEF CompleteIsProven, Earlier, Asked, cycle_start
  <2>1. checks'[e][f] = checks[e][f]
    BY <1>4, <1>5
  <2> QED
    BY <2>1, <1>11 DEF HaccpInv, RowsSound, CompleteIsProven
<1>17. OneDayAtATime'
  BY <1>4, <1>5, Basics DEF HaccpInv, OneDayAtATime, Final
<1>18. AnswersStillTrue'
  <2> SUFFICES ASSUME NEW e \in Days, NEW f \in Kinds, NEW o \in Key
      PROVE  /\ replay(e, f, o)' = "session_completed" => checks'[e][f].status = "complete"
             /\ replay(e, f, o)' = "closing_regularized" => checks'[e][f].status = "regularized"
    BY DEF AnswersStillTrue
  <2>1. CASE e = d /\ f = "opening" /\ o = key
    BY <2>1, <1>6 DEF replay
  <2>2. CASE e = d /\ ~(f = "opening" /\ o = key)
    <3>1. receipts'[e][f][o].rev # checks'[e][f].rev
      BY <2>2, <1>6, <1>12, <1>13
    <3> QED
      BY <3>1 DEF replay
  <2>3. CASE e # d
    <3>1. receipts'[e][f][o] = receipts[e][f][o] /\ checks'[e][f] = checks[e][f]
      BY <2>3, <1>5, <1>6
    <3>2. replay(e, f, o)' = replay(e, f, o)
      BY <3>1 DEF replay
    <3> QED
      BY <3>1, <3>2 DEF HaccpInv, AnswersStillTrue
  <2> QED
    BY <2>1, <2>2, <2>3
<1> QED
  BY <1>9, <1>10, <1>11, <1>14, <1>15, <1>16, <1>17, <1>18 DEF HaccpInv

-----------------------------------------------------------------------------
(* The steps that write no session *)

(* What speaks only of the sessions and of the receipts is kept with them. *)
LEMMA SessionsKept ==
    ASSUME HaccpInv, UNCHANGED <<checks, receipts>>, TypeOK', Frontier', GateHolds'
    PROVE  HaccpInv'
<1>1. \A i \in Item, e \in Days : Earlier(i, e)' = Earlier(i, e)
  BY DEF Earlier, cycle_start
<1>2. \A e \in Days, f \in Kinds, o \in Key : replay(e, f, o)' = replay(e, f, o)
  BY DEF replay
<1>3. RowsSound' /\ ReceiptsBehind' /\ OneDayAtATime'
  BY <1>1 DEF HaccpInv, RowsSound, ReceiptsBehind, OneDayAtATime, Final, Absent
<1>4. CompleteIsProven'
  BY DEF HaccpInv, CompleteIsProven, Asked, cycle_start
<1>5. AnswersStillTrue'
  BY <1>2 DEF HaccpInv, AnswersStillTrue
<1> QED
  BY <1>3, <1>4, <1>5 DEF HaccpInv

(* enforce_ordering: the row of the opening exists, so the order holds it. *)
LEMMA GateStep ==
    ASSUME HaccpInv, NEW o \in Order, enforce_ordering(o)
    PROVE  HaccpInv'
<1> DEFINE held == Rows({<<now.day, "opening">>, <<now.day, "closing">>} \cup ClosingsOf(now.day))
           n == [st |-> "gated", day |-> now.day, strict |-> strict,
                 held |-> IF strict THEN held ELSE {}]
<1>1. /\ ord' = [ord EXCEPT ![o] = n]
      /\ UNCHANGED <<now, hours, live, checks, receipts, scope, strict>>
      /\ strict => decision(now.day)
  BY DEF enforce_ordering
<1>2. /\ now.day \in Days /\ strict \in BOOLEAN
      /\ ord \in [Order -> [st : {"idle", "gated", "placed"}, day : Days \cup {NoDay},
                           held : SUBSET (Days \X Kinds), strict : BOOLEAN]]
  BY DEF HaccpInv, TypeOK
<1>3. held \subseteq Days \X Kinds
  BY <1>2, Basics DEF Rows, ClosingsOf
<1>4. strict => /\ <<now.day, "opening">> \in held
                /\ checks[now.day]["opening"].status = "complete"
                /\ checks[now.day]["closing"].status # "complete"
  BY <1>1, <1>2 DEF decision, Rows, Final
<1> HIDE DEF held
<1>5. /\ ord' \in [Order -> [st : {"idle", "gated", "placed"}, day : Days \cup {NoDay},
                            held : SUBSET (Days \X Kinds), strict : BOOLEAN]]
      /\ ord'[o] = n /\ \A p \in Order : p # o => ord'[p] = ord[p]
  BY <1>1, <1>2, <1>3
<1>6. TypeOK'
  BY <1>1, <1>5 DEF HaccpInv, TypeOK
<1>7. Frontier'
  BY <1>1 DEF HaccpInv, Frontier
<1>8. GateHolds'
  BY <1>1, <1>2, <1>4, <1>5 DEF HaccpInv, GateHolds
<1> QED
  BY <1>1, <1>6, <1>7, <1>8, SessionsKept

(* The order is committed, or its transaction is lost. *)
LEMMA OrderEndStep ==
    ASSUME HaccpInv, NEW o \in Order, OrderCommit(o) \/ OrderAbort(o)
    PROVE  HaccpInv'
<1>1. ord \in [Order -> [st : {"idle", "gated", "placed"}, day : Days \cup {NoDay},
                        held : SUBSET (Days \X Kinds), strict : BOOLEAN]]
  BY DEF HaccpInv, TypeOK
<1>2. UNCHANGED <<now, hours, live, checks, receipts, scope, strict>>
  BY DEF OrderCommit, OrderAbort
<1>3. /\ ord' \in [Order -> [st : {"idle", "gated", "placed"}, day : Days \cup {NoDay},
                            held : SUBSET (Days \X Kinds), strict : BOOLEAN]]
      /\ ord'[o].st # "gated" /\ \A p \in Order : p # o => ord'[p] = ord[p]
  <2> DEFINE T == [st : {"idle", "gated", "placed"}, day : Days \cup {NoDay},
                   held : SUBSET (Days \X Kinds), strict : BOOLEAN]
             n == IF OrderCommit(o) THEN [ord[o] EXCEPT !.st = "placed", !.held = {}] ELSE NoOrder
  <2>1. n \in T /\ n.st # "gated"
    BY <1>1 DEF NoOrder
  <2>2. ord' = [ord EXCEPT ![o] = n]
    BY DEF OrderCommit, OrderAbort
  <2> HIDE DEF n
  <2> QED
    BY <2>1, <2>2, <1>1
<1>4. TypeOK'
  BY <1>2, <1>3 DEF HaccpInv, TypeOK
<1>5. Frontier'
  BY <1>2 DEF HaccpInv, Frontier
<1>6. GateHolds'
  BY <1>2, <1>3 DEF HaccpInv, GateHolds
<1> QED
  BY <1>2, <1>4, <1>5, <1>6, SessionsKept

(* Time only moves the frontier of the days forward. *)
LEMMA TickStep ==
    ASSUME HaccpInv, Tick
    PROVE  HaccpInv'
<1>1. /\ now.day < MaxDay \/ now.tick # "last_hour"
      /\ now' = [day |-> IF now.tick = "last_hour" THEN now.day + 1 ELSE now.day,
                 tick |-> After[now.tick]]
      /\ UNCHANGED <<hours, live, checks, receipts, scope, strict, ord>>
  BY DEF Tick
<1>2. now.day \in 1..MaxDay /\ MaxDay \in Nat /\ now.tick \in Ticks
      /\ now.day \in Nat
  BY BoundsAssumption DEF HaccpInv, TypeOK, Days
<1>3. After[now.tick] \in Ticks
  BY <1>2 DEF After, Ticks
<1>4. now' \in [day : Days, tick : Ticks]
  BY <1>1, <1>2, <1>3 DEF Days
<1>5. /\ now.tick = "last_hour" => now'.day = now.day + 1
      /\ now.tick # "last_hour" => now'.day = now.day
  BY <1>1
<1>6. TypeOK'
  BY <1>1, <1>4 DEF HaccpInv, TypeOK
<1>7. Frontier'
  <2>1. ASSUME NEW d \in Days
        PROVE  /\ d <= now.day => d <= now'.day
               /\ now.tick = "last_hour" /\ d = now.day + 1 => d <= now'.day
    BY <1>2, <1>5, Basics
  <2> QED
    BY <2>1, <1>1 DEF HaccpInv, Frontier
<1>8. GateHolds'
  BY <1>1 DEF HaccpInv, GateHolds
<1> QED
  BY <1>1, <1>6, <1>7, <1>8, SessionsKept

(* The accounts, the configuration and the activation. *)
LEMMA SettingStep ==
    ASSUME HaccpInv,
           \/ \E a \in Admin, u \in Staff, b \in BOOLEAN : assign_staff(a, u, b)
           \/ Activate
           \/ \E i \in Item : LotExpires(i)
           \/ \E i \in Item, on \in {"off", "alone", "scoped"}, p, us \in BOOLEAN :
                ChangeItem(i, on, p, us)
    PROVE  HaccpInv'
<1> DEFINE Live == [snap : 0..MaxSnap, on : {"off", "alone", "scoped"},
                    problem : BOOLEAN, usable : BOOLEAN]
<1>1. UNCHANGED <<now, hours, checks, receipts, ord>>
  BY DEF assign_staff, Activate, LotExpires, ChangeItem
<1>2. live \in [Item -> Live] /\ scope \subseteq Staff /\ strict \in BOOLEAN /\ MaxSnap \in Nat
  BY BoundsAssumption DEF HaccpInv, TypeOK
<1>3. scope' \subseteq Staff /\ strict' \in BOOLEAN
  BY <1>2 DEF assign_staff, Activate, LotExpires, ChangeItem
<1>4. live' \in [Item -> Live]
  <2>1. CASE UNCHANGED live
    BY <2>1, <1>2
  <2>2. ASSUME NEW i \in Item, LotExpires(i) PROVE live' \in [Item -> Live]
    BY <2>2, <1>2 DEF LotExpires
  <2>3. ASSUME NEW i \in Item, NEW on \in {"off", "alone", "scoped"}, NEW p \in BOOLEAN,
               NEW us \in BOOLEAN, ChangeItem(i, on, p, us)
        PROVE live' \in [Item -> Live]
    <3>1. live[i].snap + 1 \in 0..MaxSnap
      BY <2>3, <1>2 DEF ChangeItem
    <3> QED
      BY <2>3, <3>1, <1>2 DEF ChangeItem
  <2>4. \/ UNCHANGED live
        \/ \E i \in Item : LotExpires(i)
        \/ \E i \in Item, on \in {"off", "alone", "scoped"}, p, us \in BOOLEAN :
             ChangeItem(i, on, p, us)
    BY DEF assign_staff, Activate
  <2> QED
    BY <2>1, <2>2, <2>3, <2>4
<1>5. TypeOK'
  BY <1>1, <1>3, <1>4 DEF HaccpInv, TypeOK
<1>6. Frontier' /\ GateHolds'
  BY <1>1 DEF HaccpInv, Frontier, GateHolds
<1> QED
  BY <1>1, <1>5, <1>6, SessionsKept

-----------------------------------------------------------------------------
(* The specification *)

(* The invariant holds of an establishment that is set up. *)
LEMMA HaccpInit == Init => HaccpInv
<1> SUFFICES ASSUME Init PROVE HaccpInv
  OBVIOUS
<1>1. /\ \A d \in Days, k \in Kinds : checks[d][k] = Absent
      /\ \A d \in Days, k \in Kinds, key \in Key : receipts[d][k][key] = NoReceipt
      /\ \A o \in Order : ord[o] = NoOrder
  BY DEF Init
<1>2. /\ Absent.status = "none" /\ Absent.rev = 0
      /\ \A i \in Item : Absent.req[i] = NotAsked /\ Absent.proof[i] = "none"
      /\ NoReceipt.act = "none" /\ NoReceipt.rev = 0 /\ NoOrder.st = "idle"
  BY DEF Absent, NoReceipt, NoOrder
<1>3. TypeOK
  <2>1. now \in [day : Days, tick : Ticks]
    BY BoundsAssumption DEF Init, Days, Ticks
  <2>2. ord \in [Order -> [st : {"idle", "gated", "placed"}, day : Days \cup {NoDay},
                          held : SUBSET (Days \X Kinds), strict : BOOLEAN]]
    BY DEF Init, NoOrder
  <2>3. live \in [Item -> [snap : 0..MaxSnap, on : {"off", "alone", "scoped"},
                          problem : BOOLEAN, usable : BOOLEAN]]
    BY BoundsAssumption DEF Init
  <2>4. /\ checks \in [Days -> [Kinds -> HaccpDailySession]]
        /\ receipts \in [Days -> [Kinds -> [Key -> Receipt]]]
    BY Basics DEF Init
  <2> QED
    BY <2>1, <2>2, <2>3, <2>4 DEF Init, TypeOK
<1>4. Frontier /\ RowsSound /\ CompleteIsProven /\ OneDayAtATime
  BY <1>1, <1>2, Basics DEF Frontier, RowsSound, CompleteIsProven, OneDayAtATime, Final
<1>5. ReceiptsBehind /\ GateHolds /\ AnswersStillTrue
  BY <1>1, <1>2 DEF ReceiptsBehind, GateHolds, AnswersStillTrue, replay
<1> QED
  BY <1>3, <1>4, <1>5 DEF HaccpInv

(* Every step keeps it. *)
LEMMA HaccpNext == HaccpInv /\ [Next]_vars => HaccpInv'
<1> SUFFICES ASSUME HaccpInv, [Next]_vars PROVE HaccpInv'
  OBVIOUS
<1>1. CASE UNCHANGED vars
  <2>1. TypeOK' /\ Frontier' /\ GateHolds'
    BY <1>1 DEF vars, HaccpInv, TypeOK, Frontier, GateHolds
  <2> QED
    BY <2>1, <1>1, SessionsKept DEF vars
<1>2. ASSUME NEW u \in Admin \cup Staff, Workflow(u) PROVE HaccpInv'
  <2>1. CASE prepare_regularization(u)
    BY <2>1, PrepareStep
  <2>2. CASE \E k \in Kinds : start(u, k)
    BY <2>2, StartStep
  <2>3. ASSUME NEW d \in Days, NEW key \in Key, regularize(u, d, key) PROVE HaccpInv'
    BY <2>3, RegularizeStep
  <2>4. ASSUME NEW d \in Days, NEW key \in Key, reopen(u, d, key) PROVE HaccpInv'
    BY <2>4, ReopenStep
  <2>5. ASSUME NEW d \in Days, NEW key \in Key, NEW k \in Kinds, complete(u, d, k, key)
        PROVE  HaccpInv'
    BY <2>5, CompleteStep
  <2>6. ASSUME NEW d \in Days, NEW key \in Key, NEW k \in Kinds, NEW S \in SUBSET Item \ {{}},
               NEW corrected \in BOOLEAN, NEW said \in [S -> {"ok", "bad"}],
               record(u, d, k, key, said, corrected)
        PROVE  HaccpInv'
    BY <2>6, RecordStep
  <2> QED
    BY <1>2, <2>1, <2>2, <2>3, <2>4, <2>5, <2>6 DEF Workflow
<1>3. ASSUME NEW o \in Order, enforce_ordering(o) \/ OrderCommit(o) \/ OrderAbort(o)
      PROVE  HaccpInv'
  BY <1>3, GateStep, OrderEndStep
<1> QED
  BY <1>1, <1>2, <1>3, TickStep, SettingStep DEF Next

(***************************************************************************)
(* The inductive invariant: the properties below, with the frontier of the *)
(* days, the soundness of the rows that are not complete yet, the          *)
(* revisions of the receipts and the locks of the orders at the gate.      *)
(***************************************************************************)
THEOREM HaccpInvariant == Spec => []HaccpInv
BY HaccpInit, HaccpNext, PTL DEF Spec

(***************************************************************************)
(* Every session, receipt and order of the workflow has its type, and the  *)
(* business day a handler computes is a day of the calendar.               *)
(***************************************************************************)
THEOREM HaccpTypeOK == Spec => []TypeOK
<1>1. HaccpInv => TypeOK
  BY DEF HaccpInv
<1> QED
  BY <1>1, HaccpInvariant, PTL

(***************************************************************************)
(* strict_service.complete and strict_checklist.build: a session counts as *)
(* complete only with a compliant proof, of its current revision, of all   *)
(* it asks, with no failure left uncorrected, and with what it skips       *)
(* proven by an earlier session of the cycle that still stands, whatever   *)
(* was reopened or reconfigured since.                                     *)
(***************************************************************************)
THEOREM HaccpCompleteIsProven == Spec => []CompleteIsProven
<1>1. HaccpInv => CompleteIsProven
  BY DEF HaccpInv
<1> QED
  BY <1>1, HaccpInvariant, PTL

(***************************************************************************)
(* missing_closings, evaluate and reopen: no day is open before the        *)
(* closings of the days opened earlier, and a closing stands on an opening *)
(* that stands.                                                            *)
(***************************************************************************)
THEOREM HaccpOneDayAtATime == Spec => []OneDayAtATime
<1>1. HaccpInv => OneDayAtATime
  BY DEF HaccpInv
<1> QED
  BY <1>1, HaccpInvariant, PTL

(***************************************************************************)
(* strict_service.replay: a request sent again is never told of a          *)
(* validation or a regularisation that a reopening has undone.             *)
(***************************************************************************)
THEOREM HaccpAnswersStillTrue == Spec => []AnswersStillTrue
<1>1. HaccpInv => AnswersStillTrue
  BY DEF HaccpInv
<1> QED
  BY <1>1, HaccpInvariant, PTL

(***************************************************************************)
(* order_gate.enforce_ordering: an order is committed while the opening of *)
(* its day still stands and its closing is not validated, however long     *)
(* before that it passed the gate, because it holds the rows it read.      *)
(***************************************************************************)
THEOREM HaccpOrdersWhileOpen == Spec => OrdersWhileOpen
<1>1. HaccpInv /\ [Next]_vars =>
        [\A o \in Order : ord[o].st = "gated" /\ ord'[o].st = "placed" /\ ord[o].strict =>
           /\ checks[ord[o].day]["opening"].status = "complete"
           /\ checks[ord[o].day]["closing"].status # "complete"]_vars
  BY DEF HaccpInv, GateHolds
<1> QED
  BY <1>1, HaccpInvariant, PTL DEF Spec, OrdersWhileOpen
=============================================================================
