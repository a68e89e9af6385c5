------------------------------ MODULE Platform ------------------------------
(***************************************************************************)
(* The administrator of the platform: super_admin/service.py and router.py,*)
(* core/auth/super_admin.py, core/auth/impersonation.py, and what an       *)
(* administrator does to a tenant (admin/superadmin/router.py,             *)
(* admin/tenants/lifecycle_router.py).                                     *)
(*                                                                         *)
(* A session is a row of super_admin_sessions, which names the one refresh *)
(* token it accepts (refresh_token_lookup, here a generation).  Its access *)
(* tokens carry auth_version.  An impersonation token is an access token   *)
(* of a tenant with a list of permissions; it depends on a row of its own, *)
(* on the session it came from and on auth_version.                        *)
(*                                                                         *)
(* Abstractions.  One administrator, always active (nothing in the         *)
(* application disables one); one tenant, that of Sessions.  A time-based  *)
(* code is always right or absent.  Denied jti are left out: logout and    *)
(* end_impersonation also revoke the row, which is asked in any case.  A   *)
(* refresh compares expires_at with a time read just before its UPDATE;    *)
(* here the comparison is made at the UPDATE.                              *)
(***************************************************************************)
EXTENDS Sessions

CONSTANTS Psid,      \* bound: sessions of the administrator
          Imp,       \* bound: impersonations
          Code,      \* recovery codes
          MaxVer,    \* bound: auth_version
          MaxGen     \* bound: refresh tokens of a session

ASSUME PlatformAssumption == Psid \cup Imp \subseteq Nat /\ MaxVer \in Nat \ {0} /\ MaxGen \in Nat \ {0}

VARIABLES admin,     \* super_admins and super_admin_recovery_codes
          psess,     \* super_admin_sessions
          imp        \* super_admin_impersonation_sessions

platformVars == <<admin, psess, imp>>

(* secret is the number of setups; enrol an enrolment token of ver.        *)
AdminRow == [ver : 1 .. MaxVer, on : BOOLEAN, secret : Nat, enrol : BOOLEAN,
             codes : [Code -> {"absent", "unused", "used", "deleted"}]]

(* vers: versions in its access tokens; by: the code of its login; swaps:  *)
(* history, the refresh tokens it exchanged.                               *)
NoPsess == [state |-> "absent", gen |-> 0, vers |-> {}, by |-> None, swaps |-> <<>>]
NoImp   == [state |-> "absent", src |-> None, ver |-> 0]

NextPsid(x) == x <= entry.psids /\ psess[x].state = "absent" /\ \A y \in Psid : y < x => psess[y].state # "absent"
NextImp(m)  == imp[m].state = "absent" /\ \A n \in Imp : n < m => imp[n].state # "absent"

PlatformSame == UNCHANGED <<acct, tok, flag, cut, inbox>>

-----------------------------------------------------------------------------
(* validate_super_admin_session: an access token (x, v). *)
PlatformKnown(x, v) == /\ v \in psess[x].vers /\ v = admin.ver
                       /\ psess[x].state = "live"

(* validate_impersonation_token, then is_suspended: its role is admin. *)
ImpValid(m) == /\ imp[m].state = "live" /\ imp[m].ver = admin.ver
               /\ psess[imp[m].src].state = "live"
ImpKnown(m) == ImpValid(m) /\ ~tenant.suspended

ImpCaller == [role |-> "admin", perms |-> IMPERSONATION_PERMISSIONS, imp |-> TRUE]
ImpAdmits(m, r) == ImpKnown(m) /\ Allows(GuardOf(r), ImpCaller)

-----------------------------------------------------------------------------
(* Login, second factor, sessions *)

(* login without a second factor: only an enrolment token. *)
LoginEnrol ==
    /\ ~admin.on /\ admin' = [admin EXCEPT !.enrol = TRUE]
    /\ UNCHANGED <<psess, imp, tenant, job>> /\ PlatformSame

(* setup_mfa: reads, then replaces the secret and the unused codes. *)
setup_mfa(p) ==
    /\ Free(p) /\ admin.enrol /\ ~admin.on
    /\ Do(p, [Idle EXCEPT !.op = "setup"])
    /\ UNCHANGED <<admin, psess, imp, tenant>> /\ PlatformSame

SetupCommit(p, fresh) ==
    /\ job[p].op = "setup" /\ Do(p, Idle)
    /\ fresh # {} /\ \A k \in fresh : admin.codes[k] = "absent"
    /\ admin' = [admin EXCEPT !.secret = @ + 1,
                   !.codes = [k \in Code |-> IF k \in fresh THEN "unused"
                                             ELSE IF @[k] = "unused" THEN "deleted"
                                             ELSE @[k]]]
    /\ UNCHANGED <<psess, imp, tenant>> /\ PlatformSame

confirm_mfa ==
    /\ admin.enrol /\ ~admin.on /\ admin.secret > 0
    /\ admin' = [admin EXCEPT !.on = TRUE]
    /\ UNCHANGED <<psess, imp, tenant, job>> /\ PlatformSame

(* _verify_login_mfa: the unused codes are locked until the commit. *)
CodesFree(p) == ~ \E q \in Proc \ {p} : job[q].op = "admin_login" /\ job[q].s \in Code

admin_login(p, k) ==
    /\ Free(p) /\ admin.on
    /\ k # None => CodesFree(p) /\ admin.codes[k] = "unused"
    /\ Do(p, [Idle EXCEPT !.op = "admin_login", !.s = k, !.row = [ver |-> admin.ver]])
    /\ UNCHANGED <<admin, psess, imp, tenant>> /\ PlatformSame

AdminLoginCommit(p, x) ==
    /\ job[p].op = "admin_login" /\ NextPsid(x)
    /\ psess' = [psess EXCEPT ![x] = [NoPsess EXCEPT !.state = "live", !.gen = 1,
                                        !.vers = {job[p].row.ver}, !.by = job[p].s]]
    /\ admin' = IF job[p].s = None THEN admin
                ELSE [admin EXCEPT !.codes[job[p].s] = "used"]
    /\ Do(p, Idle) /\ UNCHANGED <<imp, tenant>> /\ PlatformSame

(* refresh_session: the refresh token g of session x is presented. *)
refresh_session(p, x, g) ==
    /\ Free(p) /\ psess[x].state # "absent"
    /\ Do(p, [Idle EXCEPT !.op = "admin_refresh", !.s = x, !.rows = {g},
                          !.row = [ver |-> admin.ver]])
    /\ UNCHANGED <<admin, psess, imp, tenant>> /\ PlatformSame

(* UPDATE ... WHERE refresh_token_lookup = :old AND revoked_at IS NULL. *)
Presented(p) == CHOOSE g \in job[p].rows : TRUE
Matches(p) == /\ psess[job[p].s].state = "live"
              /\ psess[job[p].s].gen = Presented(p)

RefreshSessionCommit_Save(p) ==
    LET x == job[p].s
    IN  /\ job[p].op = "admin_refresh" /\ Do(p, Idle)
        /\ psess[x].gen = Presented(p) /\ psess[x].gen < MaxGen
        /\ psess' = [psess EXCEPT ![x].state = "live", ![x].gen = @ + 1,
                       ![x].vers = @ \cup {job[p].row.ver}, ![x].swaps = Append(@, Presented(p))]
        /\ UNCHANGED <<admin, imp, tenant>> /\ PlatformSame
RefreshSessionCommit(p) ==
    LET x == job[p].s
    IN  /\ job[p].op = "admin_refresh" /\ Do(p, Idle)
        /\ IF Matches(p) THEN /\ psess[x].gen < MaxGen
                              /\ psess' = [psess EXCEPT ![x].gen = @ + 1,
                                             ![x].vers = @ \cup {job[p].row.ver},
                                             ![x].swaps = Append(@, Presented(p))]
                         ELSE UNCHANGED psess
        /\ UNCHANGED <<admin, imp, tenant>> /\ PlatformSame

admin_logout(x, v) ==
    /\ PlatformKnown(x, v) /\ psess' = [psess EXCEPT ![x].state = "revoked"]
    /\ UNCHANGED <<admin, imp, tenant, job>> /\ PlatformSame

(* revoke_all_sessions: its UPDATE does not see a login in progress. *)
revoke_all_admin_sessions(x, v) ==
    /\ PlatformKnown(x, v) /\ admin.ver < MaxVer
    /\ admin' = [admin EXCEPT !.ver = @ + 1, !.enrol = FALSE]
    /\ psess' = [y \in Psid |-> IF psess[y].state = "live"
                                THEN [psess[y] EXCEPT !.state = "revoked"] ELSE psess[y]]
    /\ UNCHANGED <<imp, tenant, job>> /\ PlatformSame

(* expires_at of a session, exp of its access tokens, of an impersonation. *)
PlatformExpires ==
    /\ Has("time")
    /\ \/ \E x \in Psid : /\ psess[x].state = "live" /\ UNCHANGED <<admin, imp>>
                          /\ \/ psess' = [psess EXCEPT ![x].state = "revoked"]
                             \/ psess' = [psess EXCEPT ![x].vers = {}]
       \/ \E m \in Imp : /\ imp[m].state = "live" /\ UNCHANGED <<admin, psess>>
                         /\ imp' = [imp EXCEPT ![m].state = "ended"]
       \/ admin.enrol /\ admin' = [admin EXCEPT !.enrol = FALSE] /\ UNCHANGED <<psess, imp>>
    /\ UNCHANGED <<tenant, job>> /\ PlatformSame

-----------------------------------------------------------------------------
(* What an administrator does to a tenant *)

(* impersonate, from the claims of the access token. *)
impersonate(p, x, v) ==
    /\ Free(p) /\ PlatformKnown(x, v)
    /\ Do(p, [Idle EXCEPT !.op = "impersonate", !.s = x, !.row = [ver |-> v]])
    /\ UNCHANGED <<admin, psess, imp, tenant>> /\ PlatformSame

ImpersonateCommit(p, m) ==
    /\ job[p].op = "impersonate" /\ NextImp(m) /\ Do(p, Idle)
    /\ imp' = [imp EXCEPT ![m] = [state |-> "live", src |-> job[p].s, ver |-> job[p].row.ver]]
    /\ UNCHANGED <<admin, psess, tenant>> /\ PlatformSame

end_impersonation(m) ==
    /\ ImpAdmits(m, <<"support", "end_impersonation">>)
    /\ imp' = [imp EXCEPT ![m].state = "ended"]
    /\ UNCHANGED <<admin, psess, tenant, job>> /\ PlatformSame

(* suspend_tenant, unsuspend_tenant: public.tenants first, and the closing *)
(* of the restaurant in a transaction of its own.                          *)
suspend_tenant(p, x, v, b) ==
    /\ Free(p) /\ PlatformKnown(x, v)
    /\ tenant' = [tenant EXCEPT !.suspended = b]
    /\ Do(p, [Idle EXCEPT !.op = "close", !.old = b])
    /\ UNCHANGED <<admin, psess, imp>> /\ PlatformSame

CloseCommit(p) ==
    /\ job[p].op = "close" /\ tenant' = [tenant EXCEPT !.closed = job[p].old]
    /\ Do(p, Idle) /\ UNCHANGED <<admin, psess, imp>> /\ PlatformSame

(* reset_tenant_user_password: one UPDATE; no session is revoked. *)
reset_tenant_user_password(x, v, a) ==
    /\ PlatformKnown(x, v) /\ acct[a].active /\ acct[a].pw < MaxPw
    /\ acct' = [acct EXCEPT ![a].pw = @ + 1, ![a].must = TRUE]
    /\ UNCHANGED <<admin, psess, imp, tenant, job, tok, flag, cut, inbox>>

(* Before or after the enrolment. *)
PlatformInit ==
    /\ admin = IF Has("enrol")
               THEN [ver |-> 1, on |-> FALSE, secret |-> 0, enrol |-> FALSE,
                     codes |-> [k \in Code |-> "absent"]]
               ELSE [ver |-> 1, on |-> TRUE, secret |-> 1, enrol |-> FALSE,
                     codes |-> [k \in Code |-> "unused"]]
    /\ psess = [x \in Psid |-> NoPsess] /\ imp = [m \in Imp |-> NoImp]

PlatformNext ==
    \/ LoginEnrol \/ confirm_mfa \/ PlatformExpires
    \/ \E m \in Imp : end_impersonation(m)
    \/ \E p \in Proc : \/ setup_mfa(p) \/ RefreshSessionCommit(p) \/ CloseCommit(p)
                       \/ \E fresh \in SUBSET Code : SetupCommit(p, fresh)
                       \/ \E k \in Code \cup {None} : admin_login(p, k)
                       \/ \E m \in Imp : ImpersonateCommit(p, m)
                       \/ \E x \in Psid : \/ AdminLoginCommit(p, x)
                                          \/ \E g \in 1 .. psess[x].gen : refresh_session(p, x, g)
    \/ \E x \in Psid : \E v \in psess[x].vers :
         \/ admin_logout(x, v) \/ revoke_all_admin_sessions(x, v)
         \/ \E p \in Proc : \/ Has("support") /\ impersonate(p, x, v)
                            \/ Has("suspend") /\ \E b \in BOOLEAN : suspend_tenant(p, x, v, b)
         \/ \E a \in entry.on : Has("support") /\ reset_tenant_user_password(x, v, a)

-----------------------------------------------------------------------------
(* Properties *)

(* A refresh token of an administrator is exchanged at most once, however  *)
(* many requests present it: refresh_session compares the lookup.          *)
ExchangedOnce == \A x \in Psid : \A i, j \in DOMAIN psess[x].swaps :
                   psess[x].swaps[i] = psess[x].swaps[j] => i = j

(* A recovery code opens at most one session, even when two logins present *)
(* it together (_verify_login_mfa).                                        *)
RecoveryOnce == \A x, y \in Psid : psess[x].by # None /\ psess[x].by = psess[y].by => x = y

(* What ends an impersonation ends it for good: logout, a global           *)
(* revocation, end_impersonation or an expiry is not undone by a refresh,  *)
(* a login or another impersonation that was under way; only a suspension  *)
(* is lifted (validate_impersonation_token, refresh_session).              *)
ImpersonationOver ==
    [][\A m \in Imp : imp[m].state # "absent" /\ ~ImpValid(m) => ~ImpValid(m)']_platformVars
=============================================================================
