------------------------------- MODULE Access -------------------------------
(***************************************************************************)
(* Who gets in: the accounts of a tenant and their sessions (Sessions),    *)
(* their sockets (Sockets), the administrator of the platform (Platform)   *)
(* and the paired tablets (Devices), with the guards of the routes         *)
(* (Routes).  They meet in the accounts, in the tenant and in the requests *)
(* under way; a behaviour uses one of the Mixes of operations and accounts. *)
(***************************************************************************)
EXTENDS Sockets, Platform, Devices

CONSTANT Mixes     \* [ops, who, on, up, sids, ...]: see Has, Who and New

ASSUME MixAssumption == \A m \in Mixes : m.on \subseteq Account /\ m.up \subseteq Instance

vars == <<acct, tok, flag, cut, tenant, inbox, job, entry,
          sock, conns, admin, psess, imp, display, pairing, tablet>>

Init == /\ entry \in Mixes
        /\ SessionsInit /\ SocketsInit /\ PlatformInit /\ DevicesInit

Next ==
    \/ SessionsNext /\ UNCHANGED <<socketVars, platformVars, deviceVars, entry>>
    \/ /\ Has("sockets") /\ SocketsNext
       /\ UNCHANGED <<platformVars, deviceVars, entry>>
    \/ /\ Has("platform") /\ PlatformNext
       /\ UNCHANGED <<socketVars, deviceVars, entry>>
    \/ /\ Has("devices") /\ DevicesNext
       /\ UNCHANGED <<socketVars, platformVars, entry>>

(* asyncio runs the loop of every socket: a heartbeat whose 30 seconds are *)
(* over does happen.                                                       *)
Fairness == \A c \in Conn : WF_vars(Has("sockets") /\ Heartbeat(c)
                                    /\ UNCHANGED <<platformVars, deviceVars, entry>>)

Spec == Init /\ [][Next]_vars /\ Fairness

-----------------------------------------------------------------------------
(* What may be used once is used once, however many requests present it    *)
(* together: refresh tokens of an account (refresh_token) and of an        *)
(* administrator (refresh_session), recovery codes (_verify_login_mfa) and *)
(* pairing codes (pair_remote).                                            *)
OneUse == RotatedOnce /\ ExchangedOnce /\ RecoveryOnce /\ PairedOnce
=============================================================================
