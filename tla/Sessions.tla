------------------------------ MODULE Sessions ------------------------------
(***************************************************************************)
(* The accounts of one tenant and their sessions: auth/service.py,         *)
(* customer/service.py and admin/users/service.py, and what                *)
(* get_current_user (core/http/deps.py) makes of an access token.          *)
(*                                                                         *)
(* A login or a refresh issues an access token and a refresh token         *)
(* together: both are row s of tok.  The access token carries the claims   *)
(* of the row that was read, and lives until it expires; the refresh token *)
(* is a row of refresh_tokens, which a refresh or a revocation ends.  In   *)
(* Redis an account may be flagged disabled for 24 hours, an access token  *)
(* may be denied, and a channel tells the instances to close its sockets.  *)
(*                                                                         *)
(* Every handler reads first and commits later: a login that read the old  *)
(* password may commit after the reset.  A revocation of all the sessions  *)
(* is one UPDATE under READ COMMITTED, which does not see the rows         *)
(* inserted after it started.                                              *)
(*                                                                         *)
(* Abstractions.  A password is its generation, and whoever logs in has    *)
(* the current one.  Second factors, e-mail and phone verification only    *)
(* add refusals; an account is known by its e-mail or its phone alike.     *)
(* A handler is short beside the life of an access token, and that is      *)
(* short beside the 24 hours of the flag.                                  *)
(***************************************************************************)
EXTENDS Integers, FiniteSets, Sequences, Routes

CONSTANTS
    Account, Kind,     \* accounts, and their roles
    Grants,            \* lists of permissions an admin may give
    Sid,               \* bound: pairs of tokens (a behaviour uses the first entry.sids)
    Proc,              \* bound: requests in progress (a new one takes the first place)
    Instance,          \* API processes, each with a Redis subscriber
    MaxPw,             \* bound: generations of a password
    None

ASSUME AccountAssumption == /\ Kind \in [Account -> {"admin", "staff", "customer"}]
                            /\ {} \in Grants /\ MaxPw \in Nat \ {0}
ASSUME SidAssumption     == Sid \subseteq Nat /\ Proc \subseteq Nat
ASSUME NobodyAssumption  == None \notin Account

VARIABLES
    acct,     \* users
    tok,      \* refresh_tokens, each with the access token issued beside it
    flag,     \* user_disabled:<tenant>:<user>, and the tokens it found
    cut,      \* history: password generation of the last reset that returned
    tenant,   \* public.tenants.is_suspended, tenant_config.is_temporarily_closed
    inbox,    \* session_revoked messages an instance has received
    job,      \* requests in progress
    entry     \* which operations this behaviour uses, who signs in (who),
              \* whom the handlers are applied to (on), which instances
              \* run (up), and how many rows there are

sessionVars == <<acct, tok, flag, cut, job>>

AccountRow == [active : BOOLEAN, perms : Grants, pw : 1 .. MaxPw,
               must : BOOLEAN, mail : BOOLEAN]
TokenRow   == [state : {"absent", "live", "revoked"}, a : Account \cup {None},
               pw : 0 .. MaxPw, must : BOOLEAN, perms : Grants,
               from : Sid \cup {None}, access : BOOLEAN, denied : BOOLEAN]
NoToken    == [state |-> "absent", a |-> None, pw |-> 0, must |-> FALSE,
               perms |-> {}, from |-> None, access |-> FALSE, denied |-> FALSE]

(* A request: what it is about to commit (op), for which account, the row  *)
(* it read, its own token, the rows its UPDATE sees, the Redis commands    *)
(* that follow, and whether the account was flagged while it ran.          *)
Idle == [op |-> "idle", a |-> None, row |-> <<>>, s |-> None, rows |-> {},
         then |-> <<>>, old |-> FALSE]

Has(f)   == f \in entry.ops
Who      == entry.who
Free(p)  == job[p] = Idle /\ \A q \in Proc : q < p => job[q] # Idle
Do(p, j) == job' = [job EXCEPT ![p] = j]
Rows(a)  == {s \in Sid : tok[s].state = "live" /\ tok[s].a = a}

-----------------------------------------------------------------------------
(* get_current_user *)

(* The claims of the token give way to the row as it is now. *)
LiveState(s) == [role |-> Kind[tok[s].a], perms |-> acct[tok[s].a].perms,
                 imp |-> FALSE]

(* An access token that get_current_user accepts.  must_change_password is *)
(* read from the claims: only two routes are left open by it.              *)
Known_NoFlag(s) == /\ tok[s].state # "absent" /\ tok[s].access /\ ~tok[s].denied
                   /\ acct[tok[s].a].active
                   /\ ~tenant.suspended
Known(s) == /\ tok[s].state # "absent" /\ tok[s].access /\ ~tok[s].denied
            /\ ~flag[tok[s].a].on
            /\ acct[tok[s].a].active
            /\ ~tenant.suspended

ChangeRoutes == {<<"auth", "change_password">>, <<"auth", "logout">>}

(* TenantMiddleware and the guard of the route. *)
Admits(s, r) == /\ Known(s)
                /\ tok[s].must => r \in ChangeRoutes
                /\ Allows(GuardOf(r), LiveState(s))

-----------------------------------------------------------------------------
(* Tokens *)

(* The next primary key. *)
New(s) == s <= entry.sids /\ tok[s].state = "absent" /\ \A t \in Sid : t < s => tok[t].state # "absent"

(* issue_tokens, from the row r that was read. *)
Issue(a, r, from) ==
    [state |-> "live", a |-> a, pw |-> r.pw, must |-> r.must,
     perms |-> r.perms, from |-> from, access |-> TRUE, denied |-> FALSE]

Issued(p, s, a) ==
    flag' = IF job[p].old THEN [flag EXCEPT ![a].before = @ \cup {s}] ELSE flag

(* authenticate, verify_phone_auth and register: an active account whose   *)
(* current password (or code) is presented.                                *)
login(p, a) ==
    /\ Free(p) /\ a \in Who /\ acct[a].active
    /\ Do(p, [Idle EXCEPT !.op = "login", !.a = a, !.row = acct[a]])
    /\ UNCHANGED <<acct, tok, flag, cut, tenant, inbox>>

LoginCommit(p, s) ==
    /\ job[p].op = "login" /\ New(s)
    /\ tok' = [tok EXCEPT ![s] = Issue(job[p].a, job[p].row, None)]
    /\ Issued(p, s, job[p].a) /\ Do(p, Idle)
    /\ UNCHANGED <<acct, cut, tenant, inbox>>

(* refresh_token *)
refresh_token(p, s) ==
    /\ Free(p) /\ tok[s].state = "live" /\ acct[tok[s].a].active
    /\ Do(p, [Idle EXCEPT !.op = "refresh", !.a = tok[s].a, !.s = s,
                          !.row = acct[tok[s].a]])
    /\ UNCHANGED <<acct, tok, flag, cut, tenant, inbox>>

(* UPDATE ... WHERE revoked_at IS NULL, rowcount = 1. *)
Claims_Read(p) == TRUE
Claims(p) == tok[job[p].s].state = "live"

RefreshCommit(p, s) ==
    /\ job[p].op = "refresh" /\ New(s) /\ Claims(p)
    /\ tok' = [tok EXCEPT ![job[p].s].state = "revoked",
                          ![s] = Issue(job[p].a, job[p].row, job[p].s)]
    /\ Issued(p, s, job[p].a) /\ Do(p, Idle)
    /\ UNCHANGED <<acct, cut, tenant, inbox>>

RefreshRefused(p) ==
    /\ job[p].op = "refresh" /\ ~Claims(p) /\ Do(p, Idle)
    /\ UNCHANGED <<acct, tok, flag, cut, tenant, inbox>>

(* revoke_session: one of the caller's own. *)
revoke_session(c, s) ==
    /\ Admits(c, <<"auth", "revoke_session">>)
    /\ tok[s].state = "live" /\ tok[s].a = tok[c].a
    /\ tok' = [tok EXCEPT ![s].state = "revoked"]
    /\ UNCHANGED <<acct, flag, cut, tenant, inbox, job>>

-----------------------------------------------------------------------------
(* Handlers that change an account and revoke its sessions *)

(* The handler has read the account; its UPDATE of refresh_tokens sees     *)
(* rows; the commands in then follow the commit.                           *)
Start(p, op, a, c, rows, then, row) ==
    /\ Free(p)
    /\ Do(p, [Idle EXCEPT !.op = op, !.a = a, !.s = c, !.rows = rows,
                          !.then = then, !.row = row])
    /\ UNCHANGED <<acct, tok, flag, cut, tenant, inbox>>

(* POST /auth/logout, DELETE /auth/sessions *)
logout(p, c) ==
    /\ Admits(c, <<"auth", "logout">>)
    /\ Start(p, "sessions", tok[c].a, c, Rows(tok[c].a), <<"publish", "deny">>, <<>>)

(* keep: the session that the client names as its own, or none. *)
revoke_all_sessions(p, c, revoke_current, keep) ==
    /\ Admits(c, <<"auth", "revoke_all_sessions">>)
    /\ IF revoke_current
       THEN Start(p, "sessions", tok[c].a, c, Rows(tok[c].a),
                  <<"publish", "deny">>, <<>>)
       ELSE Start(p, "sessions", tok[c].a, c, Rows(tok[c].a) \ keep, <<>>, <<>>)

change_password(p, c, keep) ==
    /\ Admits(c, <<"auth", "change_password">>)
    /\ Start(p, "password", tok[c].a, c, Rows(tok[c].a) \ keep, <<>>, <<>>)

forgot_password(a) ==
    /\ acct[a].active /\ acct' = [acct EXCEPT ![a].mail = TRUE]
    /\ UNCHANGED <<tok, flag, cut, tenant, inbox, job>>

reset_password(p, a) ==
    /\ acct[a].active /\ acct[a].mail
    /\ Start(p, "reset", a, None, Rows(a), <<"flag", "publish">>, <<>>)

admin_reset_password(p, c, a) ==
    /\ Admits(c, <<"users", "admin_reset_password">>)
    /\ Start(p, "admin_reset", a, c, Rows(a), <<"flag", "publish">>, <<>>)

deactivate_user(p, c, a) ==
    /\ Admits(c, <<"users", "deactivate_user">>)
    /\ Start(p, "deactivate", a, c, Rows(a), <<"flag", "publish">>, <<>>)

(* privacy_delete and anonymize_customer do the same to a customer. *)
deactivate_customer(p, c, a) ==
    /\ Kind[a] = "customer" /\ Admits(c, <<"customers", "privacy_delete">>)
    /\ Start(p, "deactivate", a, c, Rows(a), <<"flag", "publish">>, <<>>)

(* Nothing is published: the sockets of the customer are left to the       *)
(* heartbeat.                                                              *)
delete_account(p, c) ==
    /\ Admits(c, <<"customer", "delete_me">>)
    /\ Start(p, "deactivate", tok[c].a, c, Rows(tok[c].a), <<"flag">>, <<>>)

update_user_permissions(p, c, a, g) ==
    /\ Admits(c, <<"users", "update_user_permissions">>)
    /\ Kind[a] \in {"staff", "admin"}
    /\ Start(p, "permissions", a, c, Rows(a), <<"publish">>, g)

reactivate_user(p, c, a) ==
    /\ Admits(c, <<"users", "reactivate_user">>)
    /\ Start(p, "reactivate", a, c, {}, <<"clear">>, <<>>)

(* What the commit writes: the columns the handler assigned. *)
Written(j, r) ==
    CASE j.op = "sessions"    -> r
      [] j.op = "password"    -> [r EXCEPT !.pw = @ + 1, !.must = FALSE]
      [] j.op = "reset"       -> [r EXCEPT !.pw = @ + 1, !.must = FALSE, !.mail = FALSE]
      [] j.op = "admin_reset" -> [r EXCEPT !.pw = @ + 1, !.must = TRUE]
      [] j.op = "deactivate"  -> [r EXCEPT !.active = FALSE]
      [] j.op = "permissions" -> [r EXCEPT !.perms = j.row]
      [] j.op = "reactivate"  -> [r EXCEPT !.active = TRUE]

Handlers == {"sessions", "password", "reset", "admin_reset", "deactivate",
             "permissions", "reactivate"}
Resets   == {"reset", "admin_reset"}

Commit(p) ==
    LET j == job[p]
        a == j.a
        r == Written(j, acct[a])
    IN  /\ j.op \in Handlers /\ r.pw <= MaxPw
        /\ acct' = [acct EXCEPT ![a] = r]
        /\ tok' = [s \in Sid |-> IF s \in j.rows THEN [tok[s] EXCEPT !.state = "revoked"]
                                                 ELSE tok[s]]
        /\ Do(p, IF j.then = <<>> THEN Idle
                 ELSE [j EXCEPT !.op = IF j.op \in Resets THEN "redis_reset" ELSE "redis",
                                !.rows = {}, !.row = r])
        /\ UNCHANGED <<flag, cut, tenant, inbox>>

-----------------------------------------------------------------------------
(* The Redis commands after a commit (core/auth/token_revocation.py)       *)

Due(p, c) == job[p].op \in {"redis", "redis_reset"} /\ Head(job[p].then) = c

(* The handler goes on to its next command, or returns. *)
Rest(p) == Do(p, IF Len(job[p].then) = 1 THEN Idle ELSE [job[p] EXCEPT !.then = Tail(@)])
Returns(p) == Len(job[p].then) = 1
Noted(p) == cut' = IF Returns(p) /\ job[p].op = "redis_reset" /\ cut[job[p].a] < job[p].row.pw
                   THEN [cut EXCEPT ![job[p].a] = job[p].row.pw] ELSE cut

(* The flag finds the tokens issued so far and the requests under way. *)
flag_user_disabled(p) ==
    LET a == job[p].a
        before == {s \in Sid : tok[s].state # "absent" /\ tok[s].a = a}
        aged   == [q \in Proc |-> IF job[q].op \in {"login", "refresh"} /\ job[q].a = a
                                  THEN [job[q] EXCEPT !.old = TRUE] ELSE job[q]]
    IN  /\ Due(p, "flag")
        /\ flag' = [flag EXCEPT ![a] = [on |-> TRUE, before |-> @.before \cup before]]
        /\ job' = [aged EXCEPT ![p] = IF Returns(p) THEN Idle
                                      ELSE [job[p] EXCEPT !.then = Tail(@)]]
        /\ Noted(p)
        /\ UNCHANGED <<acct, tok, tenant, inbox>>

(* The subscribers that are connected receive the message. *)
publish_session_revoked(p) ==
    /\ Due(p, "publish")
    /\ \E listening \in SUBSET entry.up :
         inbox' = [i \in Instance |-> IF i \in listening THEN inbox[i] \cup {job[p].a}
                                                         ELSE inbox[i]]
    /\ Rest(p) /\ Noted(p)
    /\ UNCHANGED <<acct, tok, flag, tenant>>

revoke_jti(p) ==
    /\ Due(p, "deny") /\ tok' = [tok EXCEPT ![job[p].s].denied = TRUE]
    /\ Rest(p)
    /\ UNCHANGED <<acct, flag, cut, tenant, inbox>>

(* A reset that set the flag and has not returned promises nothing any more. *)
clear_user_disabled(p) ==
    LET a == job[p].a
        voided == [q \in Proc |-> IF job[q].op = "redis_reset" /\ job[q].a = a
                                     /\ Head(job[q].then) # "flag"
                                  THEN [job[q] EXCEPT !.op = "redis"] ELSE job[q]]
    IN  /\ Due(p, "clear")
        /\ flag' = [flag EXCEPT ![a] = [on |-> FALSE, before |-> {}]]
        /\ cut' = [cut EXCEPT ![a] = 0]
        /\ job' = [voided EXCEPT ![p] = IF Returns(p) THEN Idle
                                        ELSE [job[p] EXCEPT !.then = Tail(@)]]
        /\ UNCHANGED <<acct, tok, tenant, inbox>>

-----------------------------------------------------------------------------
(* Time and crashes *)

AccessExpires(s) ==
    /\ tok[s].access /\ tok' = [tok EXCEPT ![s].access = FALSE]
    /\ UNCHANGED <<acct, flag, cut, tenant, inbox, job>>

(* 24 hours: the access tokens the flag found live 15 minutes. *)
FlagExpires(a) ==
    /\ flag[a].on /\ \A s \in flag[a].before : ~tok[s].access
    /\ \A p \in Proc : ~job[p].old
    /\ flag' = [flag EXCEPT ![a] = [on |-> FALSE, before |-> {}]]
    /\ UNCHANGED <<acct, tok, cut, tenant, inbox, job>>

Die(p) == /\ Has("crash") /\ job[p] # Idle /\ Do(p, Idle)
          /\ UNCHANGED <<acct, tok, flag, cut, tenant, inbox>>

SessionsInit ==
    /\ acct = [a \in Account |-> [active |-> TRUE, perms |-> {}, pw |-> 1,
                                  must |-> FALSE, mail |-> FALSE]]
    /\ tok = [s \in Sid |-> NoToken]
    /\ flag = [a \in Account |-> [on |-> FALSE, before |-> {}]]
    /\ cut = [a \in Account |-> 0]
    /\ tenant = [suspended |-> FALSE, closed |-> FALSE]
    /\ inbox = [i \in Instance |-> {}]
    /\ job = [p \in Proc |-> Idle]

Sign(p) ==
    \/ \E a \in Account : login(p, a)
    \/ \E s \in Sid : LoginCommit(p, s) \/ RefreshCommit(p, s)
    \/ Has("refresh") /\ (RefreshRefused(p) \/ \E s \in Sid : refresh_token(p, s))
    \/ Die(p)

Manage(p) ==
    \/ Commit(p) \/ flag_user_disabled(p) \/ publish_session_revoked(p)
    \/ revoke_jti(p) \/ clear_user_disabled(p)
    \/ \E c \in Sid :
         \/ Has("leave") /\ \/ logout(p, c)
                              \/ \E b \in BOOLEAN, keep \in {{}} \cup {{s} : s \in Sid} :
                                   revoke_all_sessions(p, c, b, keep)
         \/ Has("password") /\ \E keep \in {{}, {c}} : change_password(p, c, keep)
         \/ Has("delete") /\ delete_account(p, c)
         \/ \E a \in entry.on :
              \/ Has("reset") /\ admin_reset_password(p, c, a)
              \/ Has("disable") /\ (deactivate_user(p, c, a) \/ reactivate_user(p, c, a))
              \/ Has("delete") /\ deactivate_customer(p, c, a)
              \/ Has("grant") /\ \E g \in Grants : update_user_permissions(p, c, a, g)
    \/ \E a \in entry.on : Has("forgot") /\ reset_password(p, a)

SessionsNext ==
    \/ \E p \in Proc : Has("login") /\ (Sign(p) \/ Manage(p))
    \/ \E c, s \in Sid : Has("leave") /\ revoke_session(c, s)
    \/ \E a \in entry.on : Has("forgot") /\ forgot_password(a)
    \/ \E s \in Sid : Has("time") /\ AccessExpires(s)
    \/ \E a \in entry.on : Has("time") /\ FlagExpires(a)

-----------------------------------------------------------------------------
(* Properties *)

(* A refresh token is exchanged at most once, however many requests        *)
(* present it together: refresh_token claims the row by an UPDATE.         *)
RotatedOnce == \A s, t \in Sid : tok[s].from # None /\ tok[s].from = tok[t].from => s = t

(* Once a reset of a password has returned, no access token that was       *)
(* issued for the old password is accepted, whichever login or refresh     *)
(* overlapped it, until an admin reactivates the account.                  *)
ResetCutsAccess == \A s \in Sid : tok[s].state # "absent" /\ Known(s)
                                  => tok[s].pw >= cut[tok[s].a]

(* auth/service.py: the flag is there to force a new login.  So a token    *)
(* issued after the reset, for the new password, is accepted.              *)
ReloginWorks ==
    \A s \in Sid :
      LET a == tok[s].a
      IN  /\ tok[s].state = "live" /\ tok[s].access /\ ~tok[s].denied
          /\ acct[a].active /\ ~tenant.suspended
          /\ tok[s].pw = acct[a].pw /\ cut[a] = acct[a].pw
          => Known(s)
=============================================================================
