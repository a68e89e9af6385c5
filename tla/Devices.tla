------------------------------ MODULE Devices -------------------------------
(***************************************************************************)
(* Kitchen screens and the tablets paired with them (kds/service.py).      *)
(*                                                                         *)
(* A screen offers a code of six digits for a few minutes; a tablet that   *)
(* presents it gets a session of its own.  The code is locked while it is  *)
(* exchanged; the screen is read without a lock.  Requests are those of    *)
(* job (Sessions): here the handlers of one screen, or of several.         *)
(*                                                                         *)
(* Left out: names, stations and modes of a screen, the encrypted form of  *)
(* a code (resolve_pairing_payload only reads), last_seen_at.              *)
(***************************************************************************)
EXTENDS Sessions

CONSTANTS Display,      \* bound: kds_screens
          Pairing,      \* bound: kds_pairing_codes
          Tablet        \* bound: kds_remote_sessions

ASSUME DeviceAssumption == Display \cup Pairing \cup Tablet \subseteq Nat

VARIABLES display, pairing, tablet

deviceVars == <<display, pairing, tablet>>

NoPairing == [state |-> "absent", screen |-> None]
NoTablet  == [state |-> "absent", screen |-> None, by |-> None]
DeviceSame == UNCHANGED <<acct, tok, flag, cut, tenant, inbox>>

NewCode(k)   == pairing[k].state = "absent" /\ \A o \in Pairing : o < k => pairing[o].state # "absent"
NewTablet(t) == tablet[t].state = "absent" /\ \A u \in Tablet : u < t => tablet[u].state # "absent"

Offered(d) == {k \in Pairing : pairing[k].state = "unused" /\ pairing[k].screen = d}

(* SELECT ... FOR UPDATE by pair_remote. *)
Locked(k) == \E q \in Proc : job[q].op = "pair" /\ job[q].row = k

create_screen(d) ==
    /\ display[d] = "absent" /\ display' = [display EXCEPT ![d] = "on"]
    /\ UNCHANGED <<pairing, tablet, job>> /\ DeviceSame

(* is_active and remote_enabled are set as the request says. *)
update_screen(d, st) ==
    /\ display[d] # "absent" /\ display' = [display EXCEPT ![d] = st]
    /\ UNCHANGED <<pairing, tablet, job>> /\ DeviceSame

create_pairing_code(p, d) ==
    /\ Free(p) /\ display[d] = "on"
    /\ Do(p, [Idle EXCEPT !.op = "offer", !.s = d, !.rows = Offered(d)])
    /\ UNCHANGED deviceVars /\ DeviceSame

(* The UPDATE waits for a code that is being exchanged. *)
OfferCommit(p, k) ==
    /\ job[p].op = "offer" /\ NewCode(k)
    /\ \A o \in job[p].rows : ~Locked(o)
    /\ pairing' = [o \in Pairing |->
                     IF o = k THEN [state |-> "unused", screen |-> job[p].s]
                     ELSE IF o \in job[p].rows /\ pairing[o].state = "unused"
                     THEN [pairing[o] EXCEPT !.state = "used"] ELSE pairing[o]]
    /\ Do(p, Idle) /\ UNCHANGED <<display, tablet>> /\ DeviceSame

(* Only is_active is asked of the screen, not remote_enabled. *)
pair_remote(p, k) ==
    /\ Free(p) /\ pairing[k].state = "unused" /\ ~Locked(k)
    /\ display[pairing[k].screen] # "off"
    /\ Do(p, [Idle EXCEPT !.op = "pair", !.row = k])
    /\ UNCHANGED deviceVars /\ DeviceSame

PairCommit(p, t) ==
    LET k == job[p].row
    IN  /\ job[p].op = "pair" /\ NewTablet(t)
        /\ pairing' = [pairing EXCEPT ![k].state = "used"]
        /\ tablet' = [tablet EXCEPT ![t] = [state |-> "live", by |-> k,
                                            screen |-> pairing[k].screen]]
        /\ Do(p, Idle) /\ UNCHANGED display /\ DeviceSame

(* resolve_remote_session: a tablet that is answered. *)
Answered(t) == tablet[t].state = "live" /\ display[tablet[t].screen] # "off"

(* revoke_remote_session, and the end of expires_at. *)
revoke_remote_session(t) ==
    /\ tablet[t].state = "live" /\ tablet' = [tablet EXCEPT ![t].state = "revoked"]
    /\ UNCHANGED <<display, pairing, job>> /\ DeviceSame

revoke_screen_sessions(d) ==
    /\ display[d] # "absent"
    /\ tablet' = [t \in Tablet |-> IF tablet[t].state = "live" /\ tablet[t].screen = d
                                   THEN [tablet[t] EXCEPT !.state = "revoked"] ELSE tablet[t]]
    /\ UNCHANGED <<display, pairing, job>> /\ DeviceSame

CodeExpires(k) ==
    /\ pairing[k].state = "unused" /\ ~Locked(k)
    /\ pairing' = [pairing EXCEPT ![k].state = "expired"]
    /\ UNCHANGED <<display, tablet, job>> /\ DeviceSame

DevicesInit == /\ display = [d \in Display |-> "absent"]
               /\ pairing = [k \in Pairing |-> NoPairing]
               /\ tablet = [t \in Tablet |-> NoTablet]

DevicesNext ==
    \/ \E d \in Display : \/ create_screen(d) \/ revoke_screen_sessions(d)
                          \/ \E st \in {"on", "local", "off"} : update_screen(d, st)
                          \/ \E p \in Proc : create_pairing_code(p, d)
    \/ \E k \in Pairing : \/ CodeExpires(k)
                          \/ \E p \in Proc : OfferCommit(p, k) \/ pair_remote(p, k)
    \/ \E t \in Tablet : revoke_remote_session(t) \/ \E p \in Proc : PairCommit(p, t)

(* A pairing code gives at most one tablet a session, however many present *)
(* it together and whatever new codes the screen offers meanwhile.         *)
PairedOnce == \A t, u \in Tablet : tablet[t].by # None /\ tablet[t].by = tablet[u].by => t = u
=============================================================================
