------------------------------ MODULE Sockets -------------------------------
(***************************************************************************)
(* The notification sockets (notifications/ws_router.py).                  *)
(*                                                                         *)
(* A socket is authenticated once, with an access token.  The row of its   *)
(* account is then remembered (WsAuthState).  Afterwards two mechanisms    *)
(* close it: the message session_revoked, which each instance handles for  *)
(* the sockets it has registered, and the heartbeat, which reads the row   *)
(* again whenever the client has been silent for 30 seconds.  Redis counts *)
(* the sockets of an account over all the instances, under a lock that     *)
(* only one instance knows.                                                *)
(*                                                                         *)
(* Left out: the rate limit and the ban of an address (they only refuse),  *)
(* notifications themselves, sockets of the platform's administrators, and *)
(* the 24 hours after which Redis forgets the count.                       *)
(***************************************************************************)
EXTENDS Sessions

CONSTANTS Conn,     \* bound: sockets
          MAX_CONNECTIONS_PER_USER

ASSUME ConnAssumption == /\ Conn \subseteq Nat /\ MAX_CONNECTIONS_PER_USER \in Nat \ {0}
                         /\ IsFiniteSet(Instance) /\ Instance # {}

VARIABLES sock,     \* sockets: _connections and the handlers before it
          conns     \* ws:connections:<tenant>:<user>

socketVars == <<sock, conns>>

(* authed: token and row checked; counted: SCARD done, lock held; open:    *)
(* registered; closing: out of the loop, the finally block is to run.      *)
Socket == [stage : {"none", "authed", "counted", "open", "closing", "closed"},
           a : Account \cup {None}, s : Sid \cup {None}, perms : Grants,
           i : Instance, talks : BOOLEAN]
NoSocket == [stage |-> "none", a |-> None, s |-> None, perms |-> {},
             i |-> CHOOSE i \in Instance : TRUE, talks |-> FALSE]

Put(c, r) == sock' = [sock EXCEPT ![c] = r]
Stage(c, st) == Put(c, [sock[c] EXCEPT !.stage = st])

(* notifications_ws: the token is checked as get_current_user does, except *)
(* that must_change_password is not asked for.                             *)
notifications_ws(c, s, i, talks) ==
    /\ sock[c].stage = "none" /\ \A d \in Conn : d < c => sock[d].stage # "none"
    /\ c <= entry.conns /\ tok[s].state # "absent" /\ Known(s)
    /\ Put(c, [stage |-> "authed", a |-> tok[s].a, s |-> s,
               perms |-> acct[tok[s].a].perms, i |-> i, talks |-> talks])
    /\ UNCHANGED <<sessionVars, tenant, inbox, conns>>

(* _get_user_lock: one coroutine of this instance and account. *)
LockFree_Never(c) == TRUE
LockFree(c) == ~ \E d \in Conn \ {c} : /\ sock[d].stage = "counted"
                                       /\ sock[d].a = sock[c].a /\ sock[d].i = sock[c].i

Count(c) ==
    /\ sock[c].stage = "authed" /\ LockFree(c)
    /\ Stage(c, IF Cardinality(conns[sock[c].a]) >= MAX_CONNECTIONS_PER_USER
                THEN "closed" ELSE "counted")
    /\ UNCHANGED <<sessionVars, tenant, inbox, conns>>

Register(c) ==
    /\ sock[c].stage = "counted"
    /\ conns' = [conns EXCEPT ![sock[c].a] = @ \cup {c}]
    /\ Stage(c, "open")
    /\ UNCHANGED <<sessionVars, tenant, inbox>>

(* _ws_close_reason *)
Differs(c) == \/ ~acct[sock[c].a].active
              \/ acct[sock[c].a].perms # sock[c].perms
CloseReason_RedisOnly(c) == flag[sock[c].a].on \/ tok[sock[c].s].denied
CloseReason(c) == flag[sock[c].a].on \/ tok[sock[c].s].denied \/ Differs(c)

(* _ws_handler, after 30 silent seconds: revalidated, then pinged.  A      *)
(* client that does not answer the ping is dropped too.                    *)
Heartbeat(c) ==
    /\ sock[c].stage = "open" /\ ~sock[c].talks
    /\ CloseReason(c) /\ Stage(c, "closing")
    /\ UNCHANGED <<sessionVars, tenant, inbox, conns>>

(* Disconnected, or silent after a ping. *)
Disconnect(c) ==
    /\ sock[c].stage = "open" /\ Stage(c, "closing")
    /\ UNCHANGED <<sessionVars, tenant, inbox, conns>>

(* The client sends messages in time, or stops doing so. *)
Talk(c) ==
    /\ sock[c].stage = "open" /\ sock[c].talks /\ Put(c, [sock[c] EXCEPT !.talks = FALSE])
    /\ UNCHANGED <<sessionVars, tenant, inbox, conns>>

(* _redis_subscriber and _close_user_connections *)
_close_user_connections(i, a) ==
    /\ a \in inbox[i] /\ inbox' = [inbox EXCEPT ![i] = @ \ {a}]
    /\ sock' = [c \in Conn |-> IF sock[c].stage = "open" /\ sock[c].a = a /\ sock[c].i = i
                               THEN [sock[c] EXCEPT !.stage = "closing"] ELSE sock[c]]
    /\ UNCHANGED <<sessionVars, tenant, conns>>

(* The finally block. *)
Cleanup(c) ==
    /\ sock[c].stage = "closing" /\ LockFree(c)
    /\ conns' = [conns EXCEPT ![sock[c].a] = @ \ {c}]
    /\ Stage(c, "closed")
    /\ UNCHANGED <<sessionVars, tenant, inbox>>

(* An API process stops: its sockets go, their numbers stay in Redis. *)
InstanceStops(i) ==
    /\ Has("stop")
    /\ sock' = [c \in Conn |-> IF sock[c].i = i /\ sock[c].stage # "none"
                               THEN [sock[c] EXCEPT !.stage = "closed"] ELSE sock[c]]
    /\ inbox' = [inbox EXCEPT ![i] = {}]
    /\ UNCHANGED <<sessionVars, tenant, conns>>

SocketsInit == /\ sock = [c \in Conn |-> NoSocket]
               /\ conns = [a \in Account |-> {}]

SocketsNext ==
    \/ \E c \in Conn : \/ Count(c) \/ Register(c) \/ Heartbeat(c)
                       \/ Disconnect(c) \/ Talk(c) \/ Cleanup(c)
                       \/ \E s \in Sid, i \in entry.up, b \in BOOLEAN :
                            notifications_ws(c, s, i, b)
    \/ \E i \in entry.up : \/ InstanceStops(i)
                          \/ \E a \in Account : _close_user_connections(i, a)

-----------------------------------------------------------------------------
(* Properties *)

(* A socket does not outlive what its account was when it was opened: once *)
(* its client falls silent and the row differs (disabled, permissions      *)
(* changed), it is closed by the heartbeat unless the row changes back,    *)
(* whether or not the instance received session_revoked.                   *)
SocketsFollow ==
    \A c \in Conn : (sock[c].stage = "open" /\ ~sock[c].talks /\ Differs(c))
                    ~> (sock[c].stage \notin {"authed", "counted", "open"} \/ ~Differs(c))

(* The limit of sockets of an account holds up to one more for each        *)
(* further instance, because the lock between SCARD and SADD is local.     *)
ConnectionsBounded ==
    \A a \in Account :
      Cardinality({c \in Conn : sock[c].stage \in {"open", "closing"} /\ sock[c].a = a})
        <= MAX_CONNECTIONS_PER_USER + Cardinality(Instance) - 1
=============================================================================
