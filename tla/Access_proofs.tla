---------------------------- MODULE Access_proofs ----------------------------
(***************************************************************************)
(* What Access guarantees for any number of accounts, tokens, requests     *)
(* under way, instances and sockets, and any mix of operations.            *)
(***************************************************************************)
EXTENDS Access, FiniteSetTheorems, TLAPS

(***************************************************************************)
(* The requests under way.  What a request carries depends on what it is   *)
(* about to do (JobOK).                                                    *)
(***************************************************************************)
AccountOps  == {"login", "refresh", "redis", "redis_reset"} \cup Handlers
PlatformOps == {"setup", "admin_login", "admin_refresh", "impersonate", "close"}
DeviceOps   == {"offer", "pair"}

RowVal  == {<<>>} \cup AccountRow \cup Grants \cup [ver : Nat] \cup Nat
Scripts == {<<>>, <<"publish", "deny">>, <<"deny">>, <<"flag", "publish">>,
            <<"publish">>, <<"flag">>, <<"clear">>}
JobType == [op : {"idle"} \cup AccountOps \cup PlatformOps \cup DeviceOps,
            a : Account \cup {None}, row : RowVal, s : Nat \cup Code \cup {None},
            rows : SUBSET Nat, then : Scripts, old : BOOLEAN]

JobOK(j) ==
    /\ j.op \in AccountOps => j.a \in Account
    /\ j.op \in {"login", "refresh", "redis", "redis_reset"} => j.row \in AccountRow
    /\ j.op = "refresh" => j.s \in Sid
    /\ j.op = "permissions" => j.row \in Grants
    /\ j.op \in {"redis", "redis_reset"} => j.then # <<>>
    /\ j.op \in Resets => j.then = <<"flag", "publish">>
    /\ j.op = "redis_reset" => j.then \in {<<"flag", "publish">>, <<"publish">>}
    /\ j.op = "admin_login" => j.s \in Code \cup {None}
    /\ j.op \in {"admin_login", "admin_refresh"} => j.row \in [ver : Nat]
    /\ j.op = "offer" => j.s \in Display
    /\ j.op = "pair" => j.row \in Pairing

(* The accounts, their tokens, their flags and the requests of everyone. *)
SessionType ==
    /\ acct \in [Account -> AccountRow] /\ tok \in [Sid -> TokenRow]
    /\ flag \in [Account -> [on : BOOLEAN, before : SUBSET Sid]]
    /\ cut \in [Account -> 0..MaxPw]
    /\ job \in [Proc -> JobType] /\ \A p \in Proc : JobOK(job[p])
    /\ \A s \in Sid : tok[s].state # "absent" => tok[s].a \in Account
    /\ \A p \in Proc, s \in Sid : job[p].op \in Handlers /\ s \in job[p].rows
                                    => tok[s].state # "absent"
    /\ entry \in Mixes

-----------------------------------------------------------------------------
(* The operators the handlers are built from *)

(* A request that is idle asks for nothing. *)
LEMMA IdleIs == Idle \in JobType /\ JobOK(Idle) /\ Idle.op = "idle" /\ ~Idle.old
BY DEF Idle, JobType, JobOK, RowVal, Scripts, AccountOps, Handlers, Resets

(* Do changes one request. *)
LEMMA DoIs ==
    ASSUME job \in [Proc -> JobType], NEW p \in Proc, NEW j \in JobType, Do(p, j)
    PROVE  /\ job' \in [Proc -> JobType] /\ job'[p] = j
           /\ \A q \in Proc : q # p => job'[q] = job[q]
BY DEF Do

(* What is left of a script. *)
LEMMA ScriptIs ==
    ASSUME NEW t \in Scripts, t # <<>>
    PROVE  /\ Len(t) = 1 \/ (Tail(t) \in Scripts /\ Tail(t) # <<>>)
           /\ t = <<"flag", "publish">> => /\ Head(t) = "flag" /\ Len(t) # 1
                                           /\ Tail(t) = <<"publish">>
           /\ t = <<"publish">> => Head(t) = "publish" /\ Len(t) = 1
<1>1. CASE t = <<"publish", "deny">>
  BY <1>1 DEF Scripts
<1>2. CASE t = <<"flag", "publish">>
  BY <1>2 DEF Scripts
<1>3. CASE t \in {<<"deny">>, <<"publish">>, <<"flag">>, <<"clear">>}
  BY <1>3
<1> QED
  BY <1>1, <1>2, <1>3 DEF Scripts

(* Issue makes a row of refresh_tokens. *)
LEMMA IssueIs ==
    ASSUME NEW a \in Account, NEW r \in AccountRow, NEW from \in Sid \cup {None}
    PROVE  /\ Issue(a, r, from) \in TokenRow
           /\ Issue(a, r, from).state = "live" /\ Issue(a, r, from).a = a
           /\ Issue(a, r, from).pw = r.pw /\ Issue(a, r, from).from = from
BY AccountAssumption DEF Issue, TokenRow, AccountRow

(* A revoked row keeps the rest of what it was. *)
LEMMA RevokedIs ==
    ASSUME NEW t \in TokenRow
    PROVE  LET u == [t EXCEPT !.state = "revoked"]
           IN  /\ u \in TokenRow /\ u.state = "revoked" /\ u.a = t.a /\ u.pw = t.pw
               /\ u.from = t.from /\ u.access = t.access /\ u.denied = t.denied
BY DEF TokenRow

(* What a handler writes in the account. *)
LEMMA WrittenIs ==
    ASSUME NEW j \in JobType, JobOK(j), j.op \in Handlers, NEW r \in AccountRow,
           Written(j, r).pw <= MaxPw
    PROVE  /\ Written(j, r) \in AccountRow /\ r.pw <= Written(j, r).pw
<1>1. r.pw \in Nat /\ r.pw >= 1 /\ r.pw <= r.pw /\ r.pw <= r.pw + 1 /\ MaxPw \in Nat
  BY AccountAssumption DEF AccountRow
<1>2. CASE j.op \in {"password", "reset", "admin_reset"}
  <2>1. Written(j, r).pw = r.pw + 1
    BY <1>2 DEF Written, AccountRow
  <2>2. r.pw + 1 \in 1..MaxPw
    BY <2>1, <1>1
  <2> QED
    BY <1>1, <1>2, <2>1, <2>2 DEF Written, AccountRow
<1>3. CASE j.op \in {"sessions", "deactivate", "permissions", "reactivate"}
  BY <1>1, <1>3 DEF Written, AccountRow, JobOK
<1> QED
  BY <1>2, <1>3 DEF Handlers

-----------------------------------------------------------------------------
(* The steps of the accounts *)

(* A request has read what it needs, and has written nothing yet. *)
Begins(p, j) ==
    /\ Free(p) /\ Do(p, j) /\ j \in JobType /\ JobOK(j) /\ ~j.old
    /\ j.op \in {"login", "refresh"} \cup Handlers
    /\ j.op \in {"login", "refresh"} => j.row = acct[j.a]
    /\ \A s \in Sid : s \in j.rows => tok[s].state # "absent"
    /\ UNCHANGED <<acct, tok, flag, cut, tenant, inbox>>

(* A request ends without a trace: refused, or its process dies. *)
Ends(p) == Do(p, Idle) /\ UNCHANGED <<acct, tok, flag, cut, tenant, inbox>>

LEMMA StartIs ==
    ASSUME NEW p \in Proc, NEW op \in Handlers, NEW a \in Account, NEW c \in Sid \cup {None},
           NEW a0, NEW rows \in SUBSET Rows(a0), NEW then \in Scripts, NEW row \in {<<>>} \cup Grants,
           op \in Resets => then = <<"flag", "publish">>, op = "permissions" => row \in Grants,
           Start(p, op, a, c, rows, then, row)
    PROVE  \E j : Begins(p, j)
<1> DEFINE j == [Idle EXCEPT !.op = op, !.a = a, !.s = c, !.rows = rows, !.then = then, !.row = row]
<1>1. /\ j.op = op /\ j.a = a /\ j.s = c /\ j.rows = rows /\ j.then = then /\ j.row = row
      /\ j.old = FALSE
  BY DEF Idle
<1>2. /\ row \in RowVal /\ op \in AccountOps /\ rows \in SUBSET Nat
      /\ c \in Nat \cup Code \cup {None}
  BY SidAssumption DEF RowVal, AccountOps, Rows
<1>3. op \notin {"login", "refresh", "redis", "redis_reset", "admin_login", "admin_refresh",
                 "offer", "pair"}
  BY DEF Handlers
<1>4. j \in JobType
  BY <1>2 DEF JobType, Idle
<1>5. Free(p) /\ Do(p, j) /\ UNCHANGED <<acct, tok, flag, cut, tenant, inbox>>
  BY DEF Start
<1> HIDE DEF j
<1>6. Begins(p, j)
  BY <1>1, <1>3, <1>4, <1>5 DEF Begins, JobOK, Rows
<1> QED
  BY <1>6

(* A token that is accepted belongs to an account. *)
LEMMA AdmittedIs ==
    ASSUME SessionType, NEW c \in Sid, NEW r, Admits(c, r)
    PROVE  tok[c].a \in Account
BY DEF Admits, Known, SessionType

LEMMA SessionSteps ==
    ASSUME SessionType, SessionsNext
    PROVE  \/ \E p \in Proc : \E j : Begins(p, j)
           \/ \E p \in Proc : \/ Ends(p) \/ Commit(p) \/ flag_user_disabled(p)
                              \/ publish_session_revoked(p) \/ revoke_jti(p)
                              \/ clear_user_disabled(p)
                              \/ \E s \in Sid : LoginCommit(p, s) \/ RefreshCommit(p, s)
           \/ \E c, s \in Sid : revoke_session(c, s)
           \/ \E s \in Sid : AccessExpires(s)
           \/ \E a \in Account : forgot_password(a) \/ FlagExpires(a)
<1>1. entry.on \subseteq Account
  BY MixAssumption DEF SessionType
<1>2. \A a : Rows(a) \in SUBSET Rows(a) /\ {} \in SUBSET Rows(a)
  OBVIOUS
<1>3. /\ <<"publish", "deny">> \in Scripts /\ <<"flag", "publish">> \in Scripts
      /\ <<"publish">> \in Scripts /\ <<"flag">> \in Scripts /\ <<"clear">> \in Scripts
      /\ <<>> \in Scripts
  BY DEF Scripts
<1>4. /\ {"sessions", "password", "reset", "admin_reset", "deactivate", "permissions",
          "reactivate"} = Handlers
      /\ Resets = {"reset", "admin_reset"}
  BY DEF Handlers, Resets
<1>5. ASSUME NEW p \in Proc, Sign(p)
      PROVE  \/ \E j : Begins(p, j)
             \/ Ends(p) \/ \E s \in Sid : LoginCommit(p, s) \/ RefreshCommit(p, s)
  <2>1. ASSUME NEW a \in Account, login(p, a) PROVE \E j : Begins(p, j)
    <3> DEFINE j == [Idle EXCEPT !.op = "login", !.a = a, !.row = acct[a]]
    <3>1. j.op = "login" /\ j.a = a /\ j.row = acct[a] /\ j.old = FALSE /\ j \in JobType
      BY DEF Idle, JobType, AccountOps, RowVal, Scripts, SessionType
    <3>2. Free(p) /\ Do(p, j) /\ UNCHANGED <<acct, tok, flag, cut, tenant, inbox>>
      BY <2>1 DEF login
    <3>4. j.rows = {}
      BY DEF Idle
    <3> HIDE DEF j
    <3>3. Begins(p, j)
      BY <3>1, <3>2, <3>4 DEF Begins, JobOK, SessionType, Handlers, Resets
    <3> QED
      BY <3>3
  <2>2. ASSUME NEW s \in Sid, refresh_token(p, s) PROVE \E j : Begins(p, j)
    <3> DEFINE a == tok[s].a
               j == [Idle EXCEPT !.op = "refresh", !.a = a, !.s = s, !.row = acct[a]]
    <3>0. a \in Account /\ s \in Nat
      BY <2>2, SidAssumption DEF refresh_token, SessionType
    <3>1. Free(p) /\ Do(p, j) /\ UNCHANGED <<acct, tok, flag, cut, tenant, inbox>>
      BY <2>2 DEF refresh_token
    <3> HIDE DEF a
    <3>2. j.op = "refresh" /\ j.a = a /\ j.row = acct[a] /\ j.s = s /\ j.old = FALSE /\ j \in JobType
      BY <3>0 DEF Idle, JobType, AccountOps, RowVal, Scripts, SessionType
    <3>4. j.rows = {}
      BY DEF Idle
    <3> HIDE DEF j
    <3>3. Begins(p, j)
      BY <3>0, <3>1, <3>2, <3>4 DEF Begins, JobOK, SessionType, Handlers, Resets
    <3> QED
      BY <3>3
  <2>3. RefreshRefused(p) \/ Die(p) => Ends(p)
    BY DEF RefreshRefused, Die, Ends
  <2> QED
    BY <1>5, <2>1, <2>2, <2>3 DEF Sign
<1>6. ASSUME NEW p \in Proc, Manage(p)
      PROVE  \/ \E j : Begins(p, j)
             \/ Commit(p) \/ flag_user_disabled(p) \/ publish_session_revoked(p)
             \/ revoke_jti(p) \/ clear_user_disabled(p)
  <2>1. ASSUME NEW c \in Sid, logout(p, c) PROVE \E j : Begins(p, j)
    BY <2>1, <1>2, <1>3, <1>4, AdmittedIs, StartIs DEF logout
  <2>2. ASSUME NEW c \in Sid, NEW b \in BOOLEAN, NEW keep, revoke_all_sessions(p, c, b, keep)
        PROVE  \E j : Begins(p, j)
    <3>1. tok[c].a \in Account
      BY <2>2, AdmittedIs DEF revoke_all_sessions
    <3>2. Rows(tok[c].a) \ keep \in SUBSET Rows(tok[c].a)
      OBVIOUS
    <3> QED
      BY <2>2, <3>1, <3>2, <1>2, <1>3, <1>4, StartIs DEF revoke_all_sessions
  <2>3. ASSUME NEW c \in Sid, NEW keep, change_password(p, c, keep) PROVE \E j : Begins(p, j)
    <3>1. tok[c].a \in Account
      BY <2>3, AdmittedIs DEF change_password
    <3>2. Rows(tok[c].a) \ keep \in SUBSET Rows(tok[c].a)
      OBVIOUS
    <3> QED
      BY <2>3, <3>1, <3>2, <1>3, <1>4, StartIs DEF change_password
  <2>4. ASSUME NEW c \in Sid, delete_account(p, c) PROVE \E j : Begins(p, j)
    BY <2>4, <1>2, <1>3, <1>4, AdmittedIs, StartIs DEF delete_account
  <2>5. ASSUME NEW c \in Sid, NEW a \in Account,
               \/ admin_reset_password(p, c, a) \/ deactivate_user(p, c, a)
               \/ reactivate_user(p, c, a) \/ deactivate_customer(p, c, a)
               \/ \E g \in Grants : update_user_permissions(p, c, a, g)
        PROVE  \E j : Begins(p, j)
    <3>1. CASE admin_reset_password(p, c, a)
      BY <3>1, <1>2, <1>3, <1>4, StartIs DEF admin_reset_password
    <3>2. CASE deactivate_user(p, c, a)
      BY <3>2, <1>2, <1>3, <1>4, StartIs DEF deactivate_user
    <3>3. CASE reactivate_user(p, c, a)
      BY <3>3, <1>2, <1>3, <1>4, StartIs DEF reactivate_user
    <3>4. CASE deactivate_customer(p, c, a)
      BY <3>4, <1>2, <1>3, <1>4, StartIs DEF deactivate_customer
    <3>5. CASE \E g \in Grants : update_user_permissions(p, c, a, g)
      BY <3>5, <1>2, <1>3, <1>4, StartIs DEF update_user_permissions
    <3> QED
      BY <2>5, <3>1, <3>2, <3>3, <3>4, <3>5
  <2>6. ASSUME NEW a \in Account, reset_password(p, a) PROVE \E j : Begins(p, j)
    BY <2>6, <1>2, <1>3, <1>4, StartIs DEF reset_password
  <2> QED
    BY <1>1, <1>6, <2>1, <2>2, <2>3, <2>4, <2>5, <2>6 DEF Manage
<1> QED
  BY <1>1, <1>5, <1>6 DEF SessionsNext

-----------------------------------------------------------------------------
(* Types *)

LEMMA CommitIs ==
    ASSUME SessionType, NEW p \in Proc, Commit(p)
    PROVE  LET a == job[p].a
               r == Written(job[p], acct[a])
               reset == job[p].op \in Resets
           IN  /\ a \in Account /\ r \in AccountRow /\ acct[a].pw <= r.pw
               /\ acct' = [acct EXCEPT ![a] = r] /\ acct' \in [Account -> AccountRow]
               /\ tok' \in [Sid -> TokenRow]
               /\ \A s \in Sid : \/ tok'[s] = tok[s]
                                 \/ s \in job[p].rows /\ tok'[s] = [tok[s] EXCEPT !.state = "revoked"]
               /\ job' \in [Proc -> JobType] /\ JobOK(job'[p])
               /\ \A q \in Proc : q # p => job'[q] = job[q]
               /\ \/ job'[p] = Idle
                  \/ /\ job'[p].a = a /\ job'[p].row = r /\ job'[p].old = job[p].old
                     /\ job'[p].op = IF reset THEN "redis_reset" ELSE "redis"
                     /\ reset => job'[p].then = <<"flag", "publish">>
               /\ UNCHANGED <<flag, cut>>
<1> DEFINE j == job[p]
           a == j.a
           r == Written(j, acct[a])
           op == IF j.op \in Resets THEN "redis_reset" ELSE "redis"
           n == [j EXCEPT !.op = op, !.rows = {}, !.row = r]
           k == IF j.then = <<>> THEN Idle ELSE n
<1>1. /\ j.op \in Handlers /\ r.pw <= MaxPw /\ acct' = [acct EXCEPT ![a] = r]
      /\ tok' = [s \in Sid |-> IF s \in j.rows THEN [tok[s] EXCEPT !.state = "revoked"]
                                               ELSE tok[s]]
      /\ Do(p, k) /\ UNCHANGED <<flag, cut>>
  BY DEF Commit
<1>2. j \in JobType /\ JobOK(j) /\ a \in Account /\ acct[a] \in AccountRow
  BY <1>1 DEF SessionType, JobOK, AccountOps
<1> HIDE DEF j
<1>3. r \in AccountRow /\ acct[a].pw <= r.pw
  BY <1>1, <1>2, WrittenIs
<1> HIDE DEF r
<1>4. acct' \in [Account -> AccountRow]
  BY <1>1, <1>2, <1>3 DEF SessionType
<1>5. tok' \in [Sid -> TokenRow]
  <2>1. \A s \in Sid : tok[s] \in TokenRow
    BY DEF SessionType
  <2>2. \A s \in Sid : [tok[s] EXCEPT !.state = "revoked"] \in TokenRow
    BY <2>1, RevokedIs
  <2> QED
    BY <2>1, <2>2, <1>1
<1>6. /\ n \in JobType /\ n.op = op /\ n.a = a /\ n.row = r /\ n.then = j.then /\ n.old = j.old
  BY <1>2, <1>3 DEF JobType, RowVal, AccountOps
<1> HIDE DEF n
<1>7. JobOK(n) \/ j.then = <<>>
  BY <1>2, <1>3, <1>6 DEF JobOK, Resets, Handlers, AccountOps
<1>8. k \in JobType /\ JobOK(k)
  BY <1>6, <1>7, IdleIs
<1>9. j.op \in Resets => j.then = <<"flag", "publish">>
  BY <1>2 DEF JobOK
<1> HIDE DEF k
<1>10. /\ job' \in [Proc -> JobType] /\ job'[p] = k /\ \A q \in Proc : q # p => job'[q] = job[q]
  BY <1>1, <1>8, DoIs DEF SessionType
<1>11. \/ k = Idle
       \/ /\ k.a = a /\ k.row = r /\ k.old = j.old /\ k.op = op
          /\ j.op \in Resets => k.then = <<"flag", "publish">>
  BY <1>6, <1>9 DEF k
<1>12. \A s \in Sid : \/ tok'[s] = tok[s]
                      \/ s \in j.rows /\ tok'[s] = [tok[s] EXCEPT !.state = "revoked"]
  BY <1>1
<1> QED
  BY <1>1, <1>2, <1>3, <1>4, <1>5, <1>8, <1>10, <1>11, <1>12 DEF j, r

(* A command was sent: the request goes on, or returns. *)
LEMMA RestIs ==
    ASSUME SessionType, NEW p \in Proc, job[p].op \in {"redis", "redis_reset"},
           NEW k, k = IF Len(job[p].then) = 1 THEN Idle ELSE [job[p] EXCEPT !.then = Tail(@)]
    PROVE  /\ k \in JobType /\ JobOK(k)
           /\ \/ k = Idle
              \/ /\ k.op = job[p].op /\ k.a = job[p].a /\ k.row = job[p].row /\ k.old = job[p].old
                 /\ k.then = Tail(job[p].then)
<1> DEFINE j == job[p]
           t == Tail(j.then)
<1>1. j \in JobType /\ JobOK(j) /\ j.then # <<>> /\ j.then \in Scripts
  BY DEF SessionType, JobOK, JobType
<1>2. CASE Len(j.then) = 1
  BY <1>2, IdleIs
<1>3. CASE Len(j.then) # 1
  <2>1. t \in Scripts /\ t # <<>> /\ (j.then = <<"flag", "publish">> => t = <<"publish">>)
        /\ j.then # <<"publish">>
    BY <1>1, <1>3, ScriptIs
  <2>2. k = [j EXCEPT !.then = t]
    BY <1>3
  <2> HIDE DEF j, t
  <2>3. /\ k \in JobType /\ k.op = j.op /\ k.a = j.a /\ k.row = j.row /\ k.old = j.old
        /\ k.then = t /\ k.s = j.s
    BY <2>1, <2>2, <1>1 DEF JobType
  <2>4. j.op \in {"redis", "redis_reset"}
    BY DEF j
  <2>5. JobOK(k)
    BY <2>1, <2>3, <2>4, <1>1 DEF JobOK, Resets
  <2> QED
    BY <2>3, <2>5 DEF j, t
<1> QED
  BY <1>2, <1>3

(***************************************************************************)
(* How a step changes the tokens: a row is never issued again, and what it *)
(* was issued for stays; a login adds a row, a refresh revokes one first.  *)
(***************************************************************************)
Follows(t, u) ==
    /\ u.from = t.from /\ u.a = t.a /\ u.pw = t.pw
    /\ u.state = t.state \/ (t.state # "absent" /\ u.state = "revoked")
    /\ u.access => t.access

(* Rest: the others are left alone. *)
LEMMA SendIs ==
    ASSUME SessionType, NEW p \in Proc, job[p].op \in {"redis", "redis_reset"}, Rest(p)
    PROVE  /\ job' \in [Proc -> JobType] /\ \A q \in Proc : JobOK(job'[q])
           /\ \A q \in Proc : q # p => job'[q] = job[q]
           /\ \A q \in Proc : job'[q].op \in Handlers => job'[q] = job[q]
           /\ \/ job'[p] = Idle
              \/ /\ job'[p].op = job[p].op /\ job'[p].a = job[p].a /\ job'[p].row = job[p].row
                 /\ job'[p].then = Tail(job[p].then)
<1> DEFINE k == IF Len(job[p].then) = 1 THEN Idle ELSE [job[p] EXCEPT !.then = Tail(@)]
<1>1. /\ k \in JobType /\ JobOK(k)
      /\ \/ k = Idle
         \/ /\ k.op = job[p].op /\ k.a = job[p].a /\ k.row = job[p].row
            /\ k.then = Tail(job[p].then)
  BY RestIs
<1>2. Do(p, k)
  BY DEF Rest
<1> HIDE DEF k
<1>3. job' \in [Proc -> JobType] /\ job'[p] = k /\ \A q \in Proc : q # p => job'[q] = job[q]
  BY <1>1, <1>2, DoIs DEF SessionType
<1>4. job'[p].op \notin Handlers
  BY <1>1, <1>3, IdleIs DEF Handlers
<1> QED
  BY <1>1, <1>3, <1>4 DEF SessionType

(* Noted: only a reset that returns is noted. *)
LEMMA NotedIs ==
    ASSUME SessionType, NEW p \in Proc, job[p].op \in {"redis", "redis_reset"}, Noted(p)
    PROVE  /\ cut' \in [Account -> 0..MaxPw]
           /\ \/ cut' = cut
              \/ /\ Returns(p) /\ job[p].op = "redis_reset" /\ cut[job[p].a] < job[p].row.pw
                 /\ cut' = [cut EXCEPT ![job[p].a] = job[p].row.pw]
<1>1. job[p].row \in AccountRow /\ job[p].row.pw \in 0..MaxPw
  BY AccountAssumption DEF SessionType, JobOK, AccountRow
<1> QED
  BY <1>1 DEF Noted, SessionType

(* flag_user_disabled: the logins and the refreshes under way are marked. *)
LEMMA FlagIs ==
    ASSUME SessionType, NEW p \in Proc, flag_user_disabled(p)
    PROVE  LET a == job[p].a
               before == {s \in Sid : tok[s].state # "absent" /\ tok[s].a = a}
           IN  /\ job' \in [Proc -> JobType] /\ \A q \in Proc : JobOK(job'[q])
               /\ \A q \in Proc : job'[q].op \in Handlers => job'[q] = job[q]
               /\ \/ job'[p] = Idle
                  \/ /\ job'[p].op = job[p].op /\ job'[p].a = a /\ job'[p].row = job[p].row
                     /\ job'[p].then = Tail(job[p].then)
               /\ \A q \in Proc : q # p =>
                    \/ /\ job[q].op \in {"login", "refresh"} /\ job[q].a = a
                       /\ job'[q] = [job[q] EXCEPT !.old = TRUE]
                    \/ /\ ~(job[q].op \in {"login", "refresh"} /\ job[q].a = a)
                       /\ job'[q] = job[q]
               /\ a \in Account /\ job[p].op \in {"redis", "redis_reset"}
               /\ flag' = [flag EXCEPT ![a] = [on |-> TRUE, before |-> @.before \cup before]]
               /\ flag' \in [Account -> [on : BOOLEAN, before : SUBSET Sid]]
               /\ cut' \in [Account -> 0..MaxPw] /\ Noted(p) /\ UNCHANGED <<acct, tok>>
<1> DEFINE a == job[p].a
           before == {s \in Sid : tok[s].state # "absent" /\ tok[s].a = a}
           marked(q) == job[q].op \in {"login", "refresh"} /\ job[q].a = a
           aged == [q \in Proc |-> IF marked(q) THEN [job[q] EXCEPT !.old = TRUE] ELSE job[q]]
           k == IF Len(job[p].then) = 1 THEN Idle ELSE [job[p] EXCEPT !.then = Tail(@)]
<1>1. /\ job[p].op \in {"redis", "redis_reset"} /\ Noted(p) /\ UNCHANGED <<acct, tok>>
      /\ flag' = [flag EXCEPT ![a] = [on |-> TRUE, before |-> @.before \cup before]]
      /\ job' = [aged EXCEPT ![p] = k]
  BY DEF flag_user_disabled, Due, Returns
<1>2. /\ k \in JobType /\ JobOK(k)
      /\ \/ k = Idle
         \/ /\ k.op = job[p].op /\ k.a = job[p].a /\ k.row = job[p].row
            /\ k.then = Tail(job[p].then)
  BY <1>1, RestIs
<1>3. \A q \in Proc : job[q] \in JobType /\ JobOK(job[q])
  BY DEF SessionType
<1>4. \A q \in Proc : LET n == [job[q] EXCEPT !.old = TRUE]
                       IN  n \in JobType /\ n.op = job[q].op /\ n.a = job[q].a
                           /\ n.row = job[q].row /\ n.s = job[q].s /\ n.then = job[q].then
  BY <1>3 DEF JobType
<1>5. \A q \in Proc : JobOK([job[q] EXCEPT !.old = TRUE])
  BY <1>3, <1>4 DEF JobOK
<1>6. aged \in [Proc -> JobType] /\ \A q \in Proc : JobOK(aged[q])
  BY <1>3, <1>4, <1>5
<1>7. /\ flag' \in [Account -> [on : BOOLEAN, before : SUBSET Sid]]
      /\ a \in Account
  BY <1>1 DEF SessionType, JobOK, AccountOps
<1>8. \A q \in Proc : aged[q].op \in Handlers => aged[q] = job[q]
  BY <1>3, <1>4 DEF Handlers
<1>9. \A q \in Proc : \/ marked(q) /\ aged[q] = [job[q] EXCEPT !.old = TRUE]
                      \/ ~marked(q) /\ aged[q] = job[q]
  OBVIOUS
<1>10. k.op \notin Handlers
  BY <1>1, <1>2, IdleIs DEF Handlers
<1> HIDE DEF k, aged
<1>11. /\ job' \in [Proc -> JobType] /\ job'[p] = k /\ \A q \in Proc : q # p => job'[q] = aged[q]
  BY <1>1, <1>2, <1>6
<1>12. cut' \in [Account -> 0..MaxPw]
  BY <1>1, NotedIs
<1>13. \A q \in Proc : JobOK(job'[q])
  BY <1>2, <1>6, <1>11
<1>14. \A q \in Proc : job'[q].op \in Handlers => job'[q] = job[q]
  BY <1>8, <1>10, <1>11
<1> QED
  BY <1>1, <1>2, <1>7, <1>9, <1>11, <1>12, <1>13, <1>14

(* publish_session_revoked *)
LEMMA PublishIs ==
    ASSUME SessionType, NEW p \in Proc, publish_session_revoked(p)
    PROVE  /\ job' \in [Proc -> JobType] /\ \A q \in Proc : JobOK(job'[q])
           /\ \A q \in Proc : job'[q].op \in Handlers => job'[q] = job[q]
           /\ \A q \in Proc : q # p => job'[q] = job[q]
           /\ \/ job'[p] = Idle
              \/ /\ job'[p].op = job[p].op /\ job'[p].a = job[p].a /\ job'[p].row = job[p].row
                 /\ job'[p].then = Tail(job[p].then)
           /\ job[p].op \in {"redis", "redis_reset"} /\ Head(job[p].then) = "publish"
           /\ Noted(p) /\ cut' \in [Account -> 0..MaxPw] /\ UNCHANGED <<acct, tok, flag>>
<1>1. /\ job[p].op \in {"redis", "redis_reset"} /\ Head(job[p].then) = "publish"
      /\ Rest(p) /\ Noted(p) /\ UNCHANGED <<acct, tok, flag>>
  BY DEF publish_session_revoked, Due
<1> QED
  BY <1>1, SendIs, NotedIs

(* clear_user_disabled: the resets that have set the flag promise nothing. *)
LEMMA ClearIs ==
    ASSUME SessionType, NEW p \in Proc, clear_user_disabled(p)
    PROVE  LET a == job[p].a
           IN  /\ job' \in [Proc -> JobType] /\ \A q \in Proc : JobOK(job'[q])
               /\ \A q \in Proc : job'[q].op \in Handlers => job'[q] = job[q]
               /\ \A q \in Proc : job'[q].op = "redis_reset" =>
                    /\ job'[q] = job[q]
                    /\ job[q].a = a => job[q].then = <<"flag", "publish">>
               /\ \A q \in Proc : job'[q].op \notin {"redis", "idle"} => job'[q] = job[q]
               /\ a \in Account /\ flag' = [flag EXCEPT ![a] = [on |-> FALSE, before |-> {}]]
               /\ flag' \in [Account -> [on : BOOLEAN, before : SUBSET Sid]]
               /\ cut' = [cut EXCEPT ![a] = 0]
               /\ cut' \in [Account -> 0..MaxPw] /\ UNCHANGED <<acct, tok>>
<1> DEFINE a == job[p].a
           hit(q) == /\ job[q].op = "redis_reset" /\ job[q].a = a
                     /\ Head(job[q].then) # "flag"
           voided == [q \in Proc |-> IF hit(q) THEN [job[q] EXCEPT !.op = "redis"] ELSE job[q]]
           k == IF Len(job[p].then) = 1 THEN Idle ELSE [job[p] EXCEPT !.then = Tail(@)]
<1>1. /\ job[p].op \in {"redis", "redis_reset"} /\ Head(job[p].then) = "clear"
      /\ UNCHANGED <<acct, tok>>
      /\ flag' = [flag EXCEPT ![a] = [on |-> FALSE, before |-> {}]]
      /\ cut' = [cut EXCEPT ![a] = 0]
      /\ job' = [voided EXCEPT ![p] = k]
  BY DEF clear_user_disabled, Due, Returns
<1>2. /\ k \in JobType /\ JobOK(k)
      /\ k = Idle \/ k.op = job[p].op
  BY <1>1, RestIs
<1>3. \A q \in Proc : job[q] \in JobType /\ JobOK(job[q])
  BY DEF SessionType
<1>4. \A q \in Proc : LET n == [job[q] EXCEPT !.op = "redis"]
                       IN  n \in JobType /\ n.op = "redis" /\ n.a = job[q].a
                           /\ n.row = job[q].row /\ n.then = job[q].then
  BY <1>3 DEF JobType, AccountOps
<1>5. \A q \in Proc : hit(q) => JobOK([job[q] EXCEPT !.op = "redis"])
  BY <1>3, <1>4 DEF JobOK, AccountOps, Resets
<1>6. voided \in [Proc -> JobType] /\ \A q \in Proc : JobOK(voided[q])
  BY <1>3, <1>4, <1>5
<1>7. /\ flag' \in [Account -> [on : BOOLEAN, before : SUBSET Sid]] /\ a \in Account
      /\ cut' \in [Account -> 0..MaxPw]
  BY <1>1, AccountAssumption DEF SessionType, JobOK, AccountOps
<1>8. \A q \in Proc : voided[q].op # "redis" => voided[q] = job[q] /\ ~hit(q)
  BY <1>4
<1>9. job[p].op = "redis"
  <2>1. job[p].op = "redis_reset" => job[p].then \in {<<"flag", "publish">>, <<"publish">>}
    BY <1>3 DEF JobOK
  <2> QED
    BY <2>1, <1>1
<1>10. k.op \in {"redis", "idle"}
  BY <1>2, <1>9, IdleIs
<1>11. \A q \in Proc : job[q].op = "redis_reset" /\ job[q].a = a /\ ~hit(q)
                        => job[q].then = <<"flag", "publish">>
  <2>1. \A q \in Proc : job[q].op = "redis_reset" =>
            job[q].then = <<"flag", "publish">> \/ job[q].then = <<"publish">>
    BY <1>3 DEF JobOK
  <2> QED
    BY <2>1
<1> HIDE DEF k, voided
<1>12. /\ job' \in [Proc -> JobType] /\ job'[p] = k /\ \A q \in Proc : q # p => job'[q] = voided[q]
  BY <1>1, <1>2, <1>6
<1>13. \A q \in Proc : JobOK(job'[q])
  BY <1>2, <1>6, <1>12
<1>14. \A q \in Proc : job'[q].op \notin {"redis", "idle"} => job'[q] = job[q] /\ ~hit(q)
  BY <1>8, <1>10, <1>12
<1>15. \A q \in Proc : job'[q].op \in Handlers => job'[q] = job[q]
  BY <1>14 DEF Handlers
<1> QED
  BY <1>1, <1>7, <1>11, <1>12, <1>13, <1>14, <1>15

(* Issued: a token of a request under way when the flag was set is noted. *)
LEMMA IssuedIs ==
    ASSUME SessionType, NEW p \in Proc, NEW s \in Sid, NEW a \in Account, Issued(p, s, a)
    PROVE  /\ flag' \in [Account -> [on : BOOLEAN, before : SUBSET Sid]]
           /\ \A b \in Account : /\ flag'[b].on = flag[b].on
                                  /\ flag[b].before \subseteq flag'[b].before
           /\ job[p].old => s \in flag'[a].before
BY DEF Issued, SessionType

(* A login adds a row. *)
LEMMA LoginIs ==
    ASSUME SessionType, NEW p \in Proc, NEW s \in Sid, LoginCommit(p, s)
    PROVE  /\ tok' \in [Sid -> TokenRow] /\ job' \in [Proc -> JobType]
           /\ job[p].a \in Account /\ job[p].row \in AccountRow /\ tok[s].state = "absent"
           /\ tok'[s] = Issue(job[p].a, job[p].row, None)
           /\ tok'[s].a \in Account /\ tok'[s].state = "live" /\ tok'[s].from = None
           /\ \A t \in Sid : t # s => tok'[t] = tok[t] /\ Follows(tok[t], tok'[t])
           /\ job'[p] = Idle /\ \A q \in Proc : q # p => job'[q] = job[q]
           /\ flag' \in [Account -> [on : BOOLEAN, before : SUBSET Sid]]
           /\ UNCHANGED <<acct, cut>>
<1> DEFINE n == Issue(job[p].a, job[p].row, None)
<1>1. /\ job[p].op = "login" /\ New(s) /\ tok' = [tok EXCEPT ![s] = n]
      /\ Issued(p, s, job[p].a) /\ Do(p, Idle) /\ UNCHANGED <<acct, cut>>
  BY DEF LoginCommit
<1>2. job[p].a \in Account /\ job[p].row \in AccountRow
  BY <1>1 DEF SessionType, JobOK, AccountOps
<1>3. n \in TokenRow /\ n.state = "live" /\ n.a = job[p].a /\ n.from = None
  BY <1>2, IssueIs
<1> HIDE DEF n
<1>4. /\ tok' \in [Sid -> TokenRow] /\ tok'[s] = n
      /\ \A t \in Sid : t # s => tok'[t] = tok[t] /\ Follows(tok[t], tok'[t])
  BY <1>1, <1>3 DEF SessionType, Follows
<1>5. job' \in [Proc -> JobType] /\ job'[p] = Idle /\ \A q \in Proc : q # p => job'[q] = job[q]
  BY <1>1, DoIs, IdleIs DEF SessionType
<1>6. flag' \in [Account -> [on : BOOLEAN, before : SUBSET Sid]]
  BY <1>1, <1>2, IssuedIs
<1>7. tok[s].state = "absent"
  BY <1>1 DEF New
<1> QED
  BY <1>1, <1>2, <1>3, <1>4, <1>5, <1>6, <1>7 DEF n

(* A refresh revokes the row it presents, which was live, and adds one. *)
LEMMA RefreshIs ==
    ASSUME SessionType, NEW p \in Proc, NEW s \in Sid, RefreshCommit(p, s)
    PROVE  /\ tok' \in [Sid -> TokenRow] /\ job' \in [Proc -> JobType]
           /\ job[p].a \in Account /\ job[p].row \in AccountRow /\ job[p].s \in Sid
           /\ tok[s].state = "absent" /\ tok[job[p].s].state = "live"
           /\ tok'[s] = Issue(job[p].a, job[p].row, job[p].s)
           /\ tok'[s].a \in Account /\ tok'[s].state = "live" /\ tok'[s].from = job[p].s
           /\ \A t \in Sid : t # s => Follows(tok[t], tok'[t])
           /\ tok'[job[p].s].state = "revoked"
           /\ job'[p] = Idle /\ \A q \in Proc : q # p => job'[q] = job[q]
           /\ flag' \in [Account -> [on : BOOLEAN, before : SUBSET Sid]]
           /\ UNCHANGED <<acct, cut>>
<1> DEFINE x == job[p].s
           n == Issue(job[p].a, job[p].row, x)
           o == [tok[x] EXCEPT !.state = "revoked"]
<1>1. /\ job[p].op = "refresh" /\ New(s) /\ tok[x].state = "live"
      /\ tok' = [tok EXCEPT ![x].state = "revoked", ![s] = n]
      /\ Issued(p, s, job[p].a) /\ Do(p, Idle) /\ UNCHANGED <<acct, cut>>
  BY DEF RefreshCommit, Claims
<1>2. job[p].a \in Account /\ job[p].row \in AccountRow /\ x \in Sid
  BY <1>1 DEF SessionType, JobOK, AccountOps
<1>3. n \in TokenRow /\ n.state = "live" /\ n.a = job[p].a /\ n.from = x
  BY <1>2, IssueIs
<1>4. /\ o \in TokenRow /\ o.state = "revoked" /\ o.a = tok[x].a /\ o.pw = tok[x].pw
      /\ o.from = tok[x].from /\ o.access = tok[x].access
  BY <1>2, RevokedIs DEF SessionType
<1>5. tok[s].state = "absent" /\ x # s
  BY <1>1 DEF New
<1>6. tok \in [Sid -> TokenRow]
  BY DEF SessionType
<1>7. tok' = [[tok EXCEPT ![x] = o] EXCEPT ![s] = n]
  BY <1>1, <1>2, <1>5, <1>6 DEF TokenRow
<1> HIDE DEF n, o
<1>8. /\ tok' \in [Sid -> TokenRow] /\ tok'[s] = n /\ tok'[x] = o
      /\ \A t \in Sid : t # s /\ t # x => tok'[t] = tok[t]
  BY <1>2, <1>3, <1>4, <1>5, <1>6, <1>7
<1>9. \A t \in Sid : t # s => Follows(tok[t], tok'[t])
  BY <1>1, <1>4, <1>8 DEF Follows
<1>10. job' \in [Proc -> JobType] /\ job'[p] = Idle /\ \A q \in Proc : q # p => job'[q] = job[q]
  BY <1>1, DoIs, IdleIs DEF SessionType
<1>11. flag' \in [Account -> [on : BOOLEAN, before : SUBSET Sid]]
  BY <1>1, <1>2, IssuedIs
<1> QED
  BY <1>1, <1>2, <1>3, <1>4, <1>5, <1>8, <1>9, <1>10, <1>11 DEF n

LEMMA SessionsKeepType ==
    ASSUME SessionType, SessionsNext, entry' = entry
    PROVE  /\ SessionType'
           /\ \/ \A s \in Sid : Follows(tok[s], tok'[s])
              \/ \E p \in Proc, s \in Sid : LoginCommit(p, s) \/ RefreshCommit(p, s)
<1> DEFINE Kept == \A s \in Sid : Follows(tok[s], tok'[s])
<1>0. /\ acct \in [Account -> AccountRow] /\ tok \in [Sid -> TokenRow]
      /\ flag \in [Account -> [on : BOOLEAN, before : SUBSET Sid]]
      /\ cut \in [Account -> 0..MaxPw]
      /\ job \in [Proc -> JobType] /\ \A p \in Proc : JobOK(job[p])
      /\ \A s \in Sid : tok[s].state # "absent" => tok[s].a \in Account
      /\ \A p \in Proc, s \in Sid : job[p].op \in Handlers /\ s \in job[p].rows
                                      => tok[s].state # "absent"
      /\ entry' \in Mixes
      /\ MaxPw \in Nat
  BY AccountAssumption DEF SessionType
<1>1. ASSUME NEW p \in Proc, NEW j, Begins(p, j) PROVE SessionType' /\ Kept
  <2>1. /\ job' \in [Proc -> JobType] /\ job'[p] = j /\ \A q \in Proc : q # p => job'[q] = job[q]
    BY <1>0, <1>1, DoIs DEF Begins
  <2>2. \A q \in Proc : JobOK(job[q])'
    BY <2>1, <1>0, <1>1 DEF Begins, JobOK
  <2>3. \A q \in Proc, s \in Sid : job'[q].op \in Handlers /\ s \in job'[q].rows
                                    => tok'[s].state # "absent"
    BY <2>1, <1>0, <1>1 DEF Begins
  <2>4. Kept
    BY <1>1 DEF Begins, Follows
  <2> QED
    BY <2>1, <2>2, <2>3, <2>4, <1>0, <1>1 DEF Begins, SessionType
<1>2. ASSUME NEW p \in Proc, Ends(p) PROVE SessionType' /\ Kept
  <2>1. /\ job' \in [Proc -> JobType] /\ job'[p] = Idle /\ \A q \in Proc : q # p => job'[q] = job[q]
    BY <1>0, <1>2, DoIs, IdleIs DEF Ends
  <2>2. \A q \in Proc : JobOK(job[q])'
    BY <2>1, <1>0, IdleIs DEF JobOK
  <2>3. \A q \in Proc, s \in Sid : job'[q].op \in Handlers /\ s \in job'[q].rows
                                    => tok'[s].state # "absent"
    BY <2>1, <1>0, <1>2, IdleIs DEF Ends, Handlers
  <2>4. Kept
    BY <1>2 DEF Ends, Follows
  <2> QED
    BY <2>1, <2>2, <2>3, <2>4, <1>0, <1>2 DEF Ends, SessionType
<1>3. ASSUME NEW p \in Proc, Commit(p) PROVE SessionType' /\ Kept
  <2>1. /\ acct' \in [Account -> AccountRow] /\ tok' \in [Sid -> TokenRow]
        /\ job' \in [Proc -> JobType] /\ JobOK(job'[p])
        /\ \A q \in Proc : q # p => job'[q] = job[q]
        /\ job'[p].op \notin Handlers
        /\ UNCHANGED <<flag, cut>>
    BY <1>3, CommitIs, IdleIs DEF Handlers
  <2>2. ASSUME NEW s \in Sid PROVE Follows(tok[s], tok'[s])
    <3>1. \/ tok'[s] = tok[s]
          \/ s \in job[p].rows /\ tok'[s] = [tok[s] EXCEPT !.state = "revoked"]
      BY <1>3, CommitIs
    <3>2. job[p].op \in Handlers /\ tok[s] \in TokenRow
      BY <1>0, <1>3 DEF Commit
    <3> QED
      BY <3>1, <3>2, <1>0, RevokedIs DEF Follows
  <2>3. \A q \in Proc : JobOK(job[q])'
    BY <2>1, <1>0 DEF JobOK
  <2>4. /\ \A s \in Sid : tok'[s].state # "absent" => tok'[s].a \in Account
        /\ \A q \in Proc, s \in Sid : job'[q].op \in Handlers /\ s \in job'[q].rows
                                      => tok'[s].state # "absent"
    BY <2>1, <2>2, <1>0 DEF Follows
  <2> QED
    BY <2>1, <2>2, <2>3, <2>4, <1>0 DEF SessionType
<1>4. ASSUME NEW p \in Proc, flag_user_disabled(p) PROVE SessionType' /\ Kept
  <2>1. /\ job' \in [Proc -> JobType] /\ \A q \in Proc : JobOK(job'[q])
        /\ \A q \in Proc : job'[q].op \in Handlers => job'[q] = job[q]
        /\ flag' \in [Account -> [on : BOOLEAN, before : SUBSET Sid]]
        /\ cut' \in [Account -> 0..MaxPw] /\ UNCHANGED <<acct, tok>>
    BY <1>4, FlagIs
  <2> QED
    BY <2>1, <1>0 DEF SessionType, Follows
<1>5. ASSUME NEW p \in Proc, publish_session_revoked(p) PROVE SessionType' /\ Kept
  <2>1. /\ job' \in [Proc -> JobType] /\ \A q \in Proc : JobOK(job'[q])
        /\ \A q \in Proc : job'[q].op \in Handlers => job'[q] = job[q]
        /\ cut' \in [Account -> 0..MaxPw] /\ UNCHANGED <<acct, tok, flag>>
    BY <1>5, PublishIs
  <2> QED
    BY <2>1, <1>0 DEF SessionType, Follows
<1>6. ASSUME NEW p \in Proc, revoke_jti(p) PROVE SessionType' /\ Kept
  <2>1. /\ job' \in [Proc -> JobType] /\ \A q \in Proc : JobOK(job'[q])
        /\ \A q \in Proc : job'[q].op \in Handlers => job'[q] = job[q]
        /\ UNCHANGED <<acct, flag, cut>>
    <3>1. job[p].op \in {"redis", "redis_reset"}
      BY <1>6 DEF revoke_jti, Due
    <3> QED
      BY <3>1, <1>6, SendIs DEF revoke_jti
  <2>2. tok' = [tok EXCEPT ![job[p].s].denied = TRUE]
    BY <1>6 DEF revoke_jti
  <2> DEFINE n(s) == [tok[s] EXCEPT !.denied = TRUE]
  <2>5. \A s \in Sid : n(s) \in TokenRow /\ Follows(tok[s], n(s)) /\ Follows(tok[s], tok[s])
    BY <1>0 DEF TokenRow, Follows
  <2>6. \A s \in Sid : tok'[s] = IF s = job[p].s THEN n(s) ELSE tok[s]
    BY <2>2, <1>0
  <2>7. tok' = [s \in Sid |-> tok'[s]]
    BY <2>2, <1>0
  <2> HIDE DEF n
  <2>3. tok' \in [Sid -> TokenRow]
    BY <2>5, <2>6, <2>7, <1>0
  <2>4. \A s \in Sid : Follows(tok[s], tok'[s])
    BY <2>5, <2>6
  <2> QED
    BY <2>1, <2>3, <2>4, <1>0 DEF SessionType, Follows
<1>7. ASSUME NEW p \in Proc, clear_user_disabled(p) PROVE SessionType' /\ Kept
  <2>1. /\ job' \in [Proc -> JobType] /\ \A q \in Proc : JobOK(job'[q])
        /\ \A q \in Proc : job'[q].op \in Handlers => job'[q] = job[q]
        /\ flag' \in [Account -> [on : BOOLEAN, before : SUBSET Sid]]
        /\ cut' \in [Account -> 0..MaxPw] /\ UNCHANGED <<acct, tok>>
    BY <1>7, ClearIs
  <2> QED
    BY <2>1, <1>0 DEF SessionType, Follows
<1>8. ASSUME NEW p \in Proc, NEW s \in Sid, LoginCommit(p, s) \/ RefreshCommit(p, s)
      PROVE  SessionType'
  <2>1. /\ tok' \in [Sid -> TokenRow] /\ job' \in [Proc -> JobType]
        /\ tok'[s].a \in Account /\ tok'[s].state = "live"
        /\ \A t \in Sid : t # s => Follows(tok[t], tok'[t])
        /\ job'[p] = Idle /\ \A q \in Proc : q # p => job'[q] = job[q]
        /\ flag' \in [Account -> [on : BOOLEAN, before : SUBSET Sid]]
        /\ UNCHANGED <<acct, cut>>
    BY <1>8, LoginIs, RefreshIs
  <2>2. \A q \in Proc : JobOK(job'[q])
    BY <2>1, <1>0, IdleIs
  <2>3. \A q \in Proc : job'[q].op \in Handlers => job'[q] = job[q]
    BY <2>1, IdleIs DEF Handlers
  <2>4. /\ \A t \in Sid : tok'[t].state # "absent" => tok'[t].a \in Account
        /\ \A q \in Proc, t \in Sid : job'[q].op \in Handlers /\ t \in job'[q].rows
                                       => tok'[t].state # "absent"
    BY <2>1, <2>3, <1>0 DEF Follows
  <2> QED
    BY <2>1, <2>2, <2>4, <1>0 DEF SessionType
<1>9. ASSUME NEW c \in Sid, NEW s \in Sid, revoke_session(c, s) \/ AccessExpires(s)
      PROVE  SessionType' /\ Kept
  <2>1. UNCHANGED <<acct, flag, cut, job>> /\ tok[s] \in TokenRow
    BY <1>9, <1>0 DEF revoke_session, AccessExpires
  <2>2. \/ tok' = [tok EXCEPT ![s] = [tok[s] EXCEPT !.state = "revoked"]] /\ tok[s].state = "live"
        \/ tok' = [tok EXCEPT ![s] = [tok[s] EXCEPT !.access = FALSE]]
    BY <1>0, <1>9 DEF revoke_session, AccessExpires, TokenRow
  <2>3. /\ [tok[s] EXCEPT !.access = FALSE] \in TokenRow
        /\ Follows(tok[s], [tok[s] EXCEPT !.access = FALSE])
    BY <2>1 DEF TokenRow, Follows
  <2>4. /\ [tok[s] EXCEPT !.state = "revoked"] \in TokenRow
        /\ tok[s].state = "live" => Follows(tok[s], [tok[s] EXCEPT !.state = "revoked"])
    BY <2>1 DEF TokenRow, Follows
  <2>5. tok' \in [Sid -> TokenRow] /\ \A t \in Sid : t # s => tok'[t] = tok[t]
    BY <1>0, <2>2, <2>3, <2>4
  <2>6. Follows(tok[s], tok'[s])
    BY <1>0, <2>2, <2>3, <2>4
  <2>7. Kept
    BY <2>5, <2>6 DEF Follows
  <2> QED
    BY <2>1, <2>5, <2>7, <1>0 DEF SessionType, Follows
<1>10. ASSUME NEW a \in Account, forgot_password(a) \/ FlagExpires(a) PROVE SessionType' /\ Kept
  <2>1. UNCHANGED <<tok, cut, job>>
    BY <1>10 DEF forgot_password, FlagExpires
  <2>2. acct' \in [Account -> AccountRow]
    <3>1. CASE forgot_password(a)
      BY <1>0, <3>1 DEF forgot_password, AccountRow
    <3>2. CASE FlagExpires(a)
      BY <1>0, <3>2 DEF FlagExpires
    <3> QED
      BY <1>10, <3>1, <3>2
  <2>3. flag' \in [Account -> [on : BOOLEAN, before : SUBSET Sid]]
    <3>1. CASE forgot_password(a)
      BY <1>0, <3>1 DEF forgot_password
    <3>2. CASE FlagExpires(a)
      BY <1>0, <3>2 DEF FlagExpires
    <3> QED
      BY <1>10, <3>1, <3>2
  <2> QED
    BY <2>1, <2>2, <2>3, <1>0 DEF SessionType, Follows
<1> QED
  BY <1>1, <1>2, <1>3, <1>4, <1>5, <1>6, <1>7, <1>8, <1>9, <1>10, SessionSteps

-----------------------------------------------------------------------------
(* The administrator of the platform and the tablets *)

PlatformType ==
    /\ admin \in [ver : Nat, on : BOOLEAN, secret : Nat, enrol : BOOLEAN,
                  codes : [Code -> {"absent", "unused", "used", "deleted"}]]
    /\ psess \in [Psid -> [state : {"absent", "live", "revoked"}, gen : Nat, vers : SUBSET Nat,
                          by : Code \cup {None}, swaps : Seq(Nat)]]

DeviceType ==
    /\ pairing \in [Pairing -> [state : {"absent", "unused", "used", "expired"},
                               screen : Display \cup {None}]]
    /\ tablet \in [Tablet -> [state : {"absent", "live", "revoked"},
                             screen : Display \cup {None}, by : Pairing \cup {None}]]

(* The requests of a component are its own: no other starts or changes one. *)
Keeps(Ops) == \A q \in Proc : job'[q].op \in Ops => job'[q] = job[q]


LEMMA TurnsIs ==
    ASSUME SessionType, NEW p \in Proc, NEW Ops \in {PlatformOps, DeviceOps}, NEW j \in JobType,
           JobOK(j), j.op \in Ops \cup {"idle"}, Do(p, j)
    PROVE  /\ job' \in [Proc -> JobType] /\ \A q \in Proc : JobOK(job'[q])
           /\ Keeps(AccountOps) /\ Keeps((PlatformOps \cup DeviceOps) \ Ops)
           /\ job'[p] = j /\ \A q \in Proc : q # p => job'[q] = job[q]
<1>1. job' \in [Proc -> JobType] /\ job'[p] = j /\ \A q \in Proc : q # p => job'[q] = job[q]
  BY DoIs DEF SessionType
<1>2. \A q \in Proc : JobOK(job'[q])
  BY <1>1 DEF SessionType
<1>3. j.op \notin AccountOps /\ j.op \notin (PlatformOps \cup DeviceOps) \ Ops
  BY DEF AccountOps, PlatformOps, DeviceOps, Handlers
<1> QED
  BY <1>1, <1>2, <1>3 DEF Keeps

(***************************************************************************)
(* A refresh token that was exchanged is older than the one the session    *)
(* accepts.  A code is marked when its session is created, and only one    *)
(* login at a time works on a code that is not.                            *)
(***************************************************************************)
SwapsBehind ==
    \A x \in Psid : \A i \in DOMAIN psess[x].swaps : psess[x].swaps[i] < psess[x].gen
CodesMarked == \A x \in Psid : psess[x].by # None => admin.codes[psess[x].by] = "used"

(* A login that works on a code. *)
Redeems(p) == job[p].op = "admin_login" /\ job[p].s # None
CodesLocked ==
    /\ \A p \in Proc : Redeems(p) => admin.codes[job[p].s] \in {"unused", "deleted"}
    /\ \A p, q \in Proc : Redeems(p) /\ Redeems(q) => p = q

PlatformInv == /\ PlatformType /\ SwapsBehind /\ ExchangedOnce
               /\ CodesMarked /\ CodesLocked /\ RecoveryOnce

(* No token is exchanged, no code is presented or marked. *)
LEMMA QuietStep ==
    ASSUME PlatformInv, PlatformType', admin'.codes = admin.codes,
           \A x \in Psid : /\ psess'[x].by = psess[x].by /\ psess'[x].gen = psess[x].gen
                           /\ psess'[x].swaps = psess[x].swaps,
           \A q \in Proc : job'[q].op = "admin_login" => job'[q] = job[q]
    PROVE  PlatformInv'
<1>1. SwapsBehind' /\ ExchangedOnce'
  BY DEF PlatformInv, SwapsBehind, ExchangedOnce
<1>2. CodesMarked' /\ RecoveryOnce'
  BY DEF PlatformInv, CodesMarked, RecoveryOnce
<1>3. CodesLocked'
  BY DEF PlatformInv, CodesLocked, Redeems
<1> QED
  BY <1>1, <1>2, <1>3 DEF PlatformInv

(* setup_mfa: the codes of a setup replace the unused ones. *)
LEMMA SetupStep ==
    ASSUME SessionType, PlatformInv, NEW p \in Proc, NEW fresh \in SUBSET Code,
           SetupCommit(p, fresh), \A q \in Proc : job'[q].op = "admin_login" => job'[q] = job[q]
    PROVE  PlatformInv'
<1> DEFINE c == [k \in Code |-> IF k \in fresh THEN "unused"
                                ELSE IF admin.codes[k] = "unused" THEN "deleted"
                                ELSE admin.codes[k]]
<1>1. /\ admin' = [admin EXCEPT !.secret = @ + 1, !.codes = c] /\ psess' = psess
      /\ \A k \in fresh : admin.codes[k] = "absent"
  BY DEF SetupCommit
<1>2. /\ admin \in [ver : Nat, on : BOOLEAN, secret : Nat, enrol : BOOLEAN,
                   codes : [Code -> {"absent", "unused", "used", "deleted"}]]
      /\ \A k \in Code : admin.codes[k] \in {"absent", "unused", "used", "deleted"}
  BY DEF PlatformInv, PlatformType
<1>3. /\ c \in [Code -> {"absent", "unused", "used", "deleted"}]
      /\ \A k \in Code : /\ admin.codes[k] = "used" => c[k] = "used"
                         /\ admin.codes[k] \in {"unused", "deleted"} => c[k] \in {"unused", "deleted"}
  BY <1>1, <1>2
<1> HIDE DEF c
<1>4. /\ admin'.codes = c
      /\ admin' \in [ver : Nat, on : BOOLEAN, secret : Nat, enrol : BOOLEAN,
                    codes : [Code -> {"absent", "unused", "used", "deleted"}]]
  <2> DEFINE C == [Code -> {"absent", "unused", "used", "deleted"}]
  <2>1. c \in C /\ admin \in [ver : Nat, on : BOOLEAN, secret : Nat, enrol : BOOLEAN, codes : C]
    BY <1>2, <1>3
  <2> HIDE DEF C
  <2>2. admin.secret + 1 \in Nat
    BY <2>1
  <2>3. /\ admin'.codes = c
        /\ admin' \in [ver : Nat, on : BOOLEAN, secret : Nat, enrol : BOOLEAN, codes : C]
    BY <2>1, <2>2, <1>1
  <2> QED
    BY <2>3 DEF C
<1>5. PlatformType'
  BY <1>1, <1>4 DEF PlatformInv, PlatformType
<1>6. SwapsBehind' /\ ExchangedOnce' /\ RecoveryOnce'
  BY <1>1 DEF PlatformInv, SwapsBehind, ExchangedOnce, RecoveryOnce
<1>7. CodesMarked'
  <2>1. \A x \in Psid : psess[x].by # None => psess[x].by \in Code
    BY DEF PlatformInv, PlatformType
  <2> QED
    BY <2>1, <1>1, <1>3, <1>4 DEF PlatformInv, CodesMarked
<1>8. CodesLocked'
  <2>1. \A q \in Proc : Redeems(q) => job[q].s \in Code
    BY DEF SessionType, JobOK, Redeems
  <2>2. \A q \in Proc : Redeems(q)' => Redeems(q) /\ job'[q] = job[q]
    BY DEF Redeems
  <2> QED
    BY <2>1, <2>2, <1>3, <1>4 DEF PlatformInv, CodesLocked
<1> QED
  BY <1>5, <1>6, <1>7, <1>8 DEF PlatformInv

(* _verify_login_mfa: the lock of the codes. *)
LEMMA AdminLoginStep ==
    ASSUME SessionType, PlatformInv, NEW p \in Proc, NEW k \in Code \cup {None}, admin_login(p, k)
    PROVE  /\ PlatformInv'
           /\ \E j \in JobType : JobOK(j) /\ j.op = "admin_login" /\ Do(p, j)
<1> DEFINE j == [Idle EXCEPT !.op = "admin_login", !.s = k, !.row = [ver |-> admin.ver]]
<1>1. /\ k # None => CodesFree(p) /\ admin.codes[k] = "unused"
      /\ Do(p, j) /\ UNCHANGED <<admin, psess>>
  BY DEF admin_login
<1>2. admin.ver \in Nat
  BY DEF PlatformInv, PlatformType
<1>3. j \in JobType /\ j.op = "admin_login" /\ j.s = k /\ j.row = [ver |-> admin.ver]
  BY <1>2, IdleIs DEF Idle, JobType, PlatformOps, RowVal
<1> HIDE DEF j
<1>4. JobOK(j)
  BY <1>2, <1>3 DEF JobOK, AccountOps, Handlers, Resets
<1>5. job'[p] = j /\ \A q \in Proc : q # p => job'[q] = job[q]
  BY <1>1, <1>3, DoIs DEF SessionType
<1>6. \A q \in Proc : Redeems(q) => job[q].s \in Code
  BY DEF SessionType, JobOK, Redeems
<1>7. k # None => \A q \in Proc : q # p => ~Redeems(q)
  BY <1>1, <1>6 DEF CodesFree, Redeems
<1>8. PlatformType' /\ SwapsBehind' /\ ExchangedOnce' /\ RecoveryOnce' /\ CodesMarked'
  BY <1>1 DEF PlatformInv, PlatformType, SwapsBehind, ExchangedOnce, RecoveryOnce, CodesMarked
<1>9. CodesLocked'
  <2>1. \A q \in Proc : q # p => (Redeems(q)' <=> Redeems(q))
    BY <1>5 DEF Redeems
  <2>2. Redeems(p)' => k # None
    BY <1>3, <1>5 DEF Redeems
  <2>3. \A q, r \in Proc : Redeems(q)' /\ Redeems(r)' => q = r
    BY <2>1, <2>2, <1>7 DEF PlatformInv, CodesLocked
  <2>4. ASSUME NEW q \in Proc, Redeems(q)'
        PROVE  admin'.codes[job'[q].s] \in {"unused", "deleted"}
    <3>1. CASE q = p
      BY <3>1, <2>2, <2>4, <1>1, <1>3, <1>5
    <3>2. CASE q # p
      BY <3>2, <2>1, <2>4, <1>1, <1>5 DEF PlatformInv, CodesLocked
    <3> QED
      BY <3>1, <3>2
  <2> QED
    BY <2>3, <2>4 DEF CodesLocked
<1> QED
  BY <1>1, <1>3, <1>4, <1>8, <1>9 DEF PlatformInv

(* The session is created and its code marked in one transaction. *)
LEMMA AdminSessionStep ==
    ASSUME SessionType, PlatformInv, NEW p \in Proc, NEW x \in Psid, AdminLoginCommit(p, x)
    PROVE  PlatformInv'
<1> DEFINE k == job[p].s
           n == [NoPsess EXCEPT !.state = "live", !.gen = 1, !.vers = {job[p].row.ver}, !.by = k]
           T == [state : {"absent", "live", "revoked"}, gen : Nat, vers : SUBSET Nat,
                 by : Code \cup {None}, swaps : Seq(Nat)]
           A == [ver : Nat, on : BOOLEAN, secret : Nat, enrol : BOOLEAN,
                 codes : [Code -> {"absent", "unused", "used", "deleted"}]]
<1>1. /\ job[p].op = "admin_login" /\ psess[x].state = "absent"
      /\ psess' = [psess EXCEPT ![x] = n]
      /\ admin' = IF k = None THEN admin ELSE [admin EXCEPT !.codes[k] = "used"]
      /\ Do(p, Idle)
  BY DEF AdminLoginCommit, NextPsid
<1>2. k \in Code \cup {None} /\ job[p].row.ver \in Nat
  BY <1>1 DEF SessionType, JobOK
<1>3. job'[p] = Idle /\ \A q \in Proc : q # p => job'[q] = job[q]
  BY <1>1, DoIs, IdleIs DEF SessionType
<1>4. psess \in [Psid -> T] /\ admin \in A
  BY DEF PlatformInv, PlatformType
<1>5. k # None => /\ \A y \in Psid : psess[y].by # k
                  /\ \A q \in Proc : q # p => ~Redeems(q)
  BY <1>1 DEF PlatformInv, CodesMarked, CodesLocked, Redeems
<1> HIDE DEF k
<1>6. n \in T /\ n.gen = 1 /\ n.by = k /\ n.swaps = <<>>
  <2>1. NoPsess \in T /\ NoPsess.swaps = <<>>
    <3>1. <<>> \in Seq(Nat)
      OBVIOUS
    <3> QED
      BY <3>1 DEF NoPsess
  <2> QED
    BY <2>1, <1>2
<1> HIDE DEF n, T, A
<1>7. /\ psess' \in [Psid -> T] /\ psess'[x] = n
      /\ \A y \in Psid : y # x => psess'[y] = psess[y]
  BY <1>1, <1>4, <1>6
<1>8. /\ admin' \in A
      /\ k # None => admin'.codes[k] = "used"
      /\ \A c \in Code : c # k \/ k = None => admin'.codes[c] = admin.codes[c]
  BY <1>1, <1>2, <1>4 DEF A
<1>9. PlatformType'
  BY <1>7, <1>8 DEF PlatformType, T, A
<1>10. RecoveryOnce'
  <2>1. \A y, z \in Psid : psess[y].by # None /\ psess[y].by = psess[z].by => y = z
    BY DEF PlatformInv, RecoveryOnce
  <2>2. psess'[x].by = k /\ \A y \in Psid : y # x => psess'[y].by = psess[y].by
    BY <1>6, <1>7
  <2> QED
    BY <2>1, <2>2, <1>5 DEF RecoveryOnce
<1>11. CodesMarked'
  <2>1. \A y \in Psid : psess[y].by \in Code \cup {None}
    BY <1>4 DEF T
  <2> QED
    BY <2>1, <1>5, <1>6, <1>7, <1>8 DEF PlatformInv, CodesMarked
<1>12. SwapsBehind' /\ ExchangedOnce'
  <2>1. DOMAIN n.swaps = {}
    BY <1>6
  <2> QED
    BY <2>1, <1>7 DEF PlatformInv, SwapsBehind, ExchangedOnce
<1>13. CodesLocked'
  <2>1. \A q \in Proc : Redeems(q)' => q # p /\ Redeems(q) /\ job'[q] = job[q]
    BY <1>3, IdleIs DEF Redeems
  <2>2. \A q \in Proc : Redeems(q) => job[q].s \in Code
    BY DEF SessionType, JobOK, Redeems
  <2>3. \A q \in Proc : Redeems(q)' => k = None
    BY <2>1, <1>5
  <2> QED
    BY <2>1, <2>2, <2>3, <1>8 DEF PlatformInv, CodesLocked
<1> QED
  BY <1>9, <1>10, <1>11, <1>12, <1>13 DEF PlatformInv

(* A sequence of numbers below g, all different, followed by g. *)
LEMMA AppendIs ==
    ASSUME NEW w \in Seq(Nat), NEW g \in Nat,
           \A i \in DOMAIN w : w[i] < g,
           \A i, j \in DOMAIN w : w[i] = w[j] => i = j
    PROVE  LET v == Append(w, g)
           IN  /\ v \in Seq(Nat) /\ \A i \in DOMAIN v : v[i] < g + 1
               /\ \A i, j \in DOMAIN v : v[i] = v[j] => i = j
<1> DEFINE v == Append(w, g)
<1>1. /\ v \in Seq(Nat) /\ Len(w) \in Nat
      /\ DOMAIN w = 1..Len(w) /\ DOMAIN v = 1..(Len(w) + 1)
      /\ v[Len(w) + 1] = g /\ \A i \in 1..Len(w) : v[i] = w[i] /\ w[i] \in Nat
  OBVIOUS
<1> HIDE DEF v
<1>2. ASSUME NEW i \in DOMAIN v
      PROVE  i = Len(w) + 1 \/ (i \in 1..Len(w) /\ v[i] = w[i] /\ w[i] < g /\ w[i] \in Nat)
  <2>1. i = Len(w) + 1 \/ i \in 1..Len(w)
    BY <1>1
  <2> QED
    BY <2>1, <1>1
<1>3. \A i \in DOMAIN v : v[i] < g + 1
  BY <1>1, <1>2
<1>4. \A i, j \in DOMAIN v : v[i] = v[j] => i = j
  BY <1>1, <1>2
<1> QED
  BY <1>1, <1>3, <1>4 DEF v

(* refresh_session: the token presented is the one the session accepts. *)
LEMMA AdminRefreshStep ==
    ASSUME SessionType, PlatformInv, NEW p \in Proc, RefreshSessionCommit(p),
           \A q \in Proc : job'[q].op = "admin_login" => job'[q] = job[q]
    PROVE  PlatformInv'
<1> DEFINE x == job[p].s
           g == Presented(p)
           T == [state : {"absent", "live", "revoked"}, gen : Nat, vers : SUBSET Nat,
                 by : Code \cup {None}, swaps : Seq(Nat)]
<1>1. job[p].op = "admin_refresh" /\ admin' = admin /\ job[p].row.ver \in Nat
  BY DEF RefreshSessionCommit, SessionType, JobOK
<1>2. ASSUME psess' = psess PROVE PlatformInv'
  <2>1. PlatformType'
    BY <1>1, <1>2 DEF PlatformInv, PlatformType
  <2> QED
    BY <2>1, <1>1, <1>2, QuietStep
<1>3. ASSUME Matches(p), x \in Psid PROVE PlatformInv'
  <2> DEFINE v == psess[x].vers \cup {job[p].row.ver}
             w == Append(psess[x].swaps, g)
             n == [psess[x] EXCEPT !.gen = @ + 1, !.vers = v, !.swaps = w]
  <2>1. /\ psess[x].gen = g
        /\ psess' = [psess EXCEPT ![x].gen = @ + 1, ![x].vers = v, ![x].swaps = w]
    BY <1>3 DEF RefreshSessionCommit, Matches
  <2>2. psess \in [Psid -> T]
    BY DEF PlatformInv, PlatformType
  <2>3. psess[x] \in T /\ psess[x].gen \in Nat /\ psess[x].swaps \in Seq(Nat) /\ v \in SUBSET Nat
    BY <2>2, <1>1, <1>3
  <2>4. /\ \A i \in DOMAIN psess[x].swaps : psess[x].swaps[i] < g
        /\ \A i, j \in DOMAIN psess[x].swaps : psess[x].swaps[i] = psess[x].swaps[j] => i = j
    BY <1>3, <2>1 DEF PlatformInv, SwapsBehind, ExchangedOnce
  <2>5. /\ w \in Seq(Nat) /\ \A i \in DOMAIN w : w[i] < g + 1
        /\ \A i, j \in DOMAIN w : w[i] = w[j] => i = j
    BY <2>1, <2>3, <2>4, AppendIs
  <2>6. psess' = [psess EXCEPT ![x] = n]
    BY <2>1, <2>2, <1>3
  <2> HIDE DEF v, w, g, x
  <2>7. n \in T /\ n.gen = g + 1 /\ n.swaps = w /\ n.by = psess[x].by
    <3>1. psess[x].gen + 1 \in Nat
      BY <2>3
    <3> QED
      BY <3>1, <2>1, <2>3, <2>5
  <2> HIDE DEF n, T
  <2>8. /\ psess' \in [Psid -> T] /\ psess'[x] = n
        /\ \A y \in Psid : y # x => psess'[y] = psess[y]
    BY <2>2, <2>6, <2>7, <1>3
  <2>9. PlatformType'
    BY <2>8, <1>1 DEF PlatformInv, PlatformType, T
  <2>10. \A y \in Psid : psess'[y].by = psess[y].by
    BY <2>7, <2>8
  <2>11. CodesMarked' /\ RecoveryOnce'
    BY <2>10, <1>1 DEF PlatformInv, CodesMarked, RecoveryOnce
  <2>12. CodesLocked'
    BY <1>1 DEF PlatformInv, CodesLocked, Redeems
  <2>13. SwapsBehind' /\ ExchangedOnce'
    <3> SUFFICES ASSUME NEW y \in Psid
        PROVE  /\ \A i \in DOMAIN psess'[y].swaps : psess'[y].swaps[i] < psess'[y].gen
               /\ \A i, j \in DOMAIN psess'[y].swaps : psess'[y].swaps[i] = psess'[y].swaps[j] => i = j
      BY DEF SwapsBehind, ExchangedOnce
    <3>1. CASE y = x
      BY <3>1, <2>5, <2>7, <2>8
    <3>2. CASE y # x
      BY <3>2, <2>8 DEF PlatformInv, SwapsBehind, ExchangedOnce
    <3> QED
      BY <3>1, <3>2
  <2> QED
    BY <2>9, <2>11, <2>12, <2>13 DEF PlatformInv
<1>4. (Matches(p) /\ x \in Psid) \/ psess' = psess
  <2>1. \/ psess' = psess
        \/ /\ Matches(p)
           /\ psess' = [psess EXCEPT ![x].gen = @ + 1, ![x].vers = @ \cup {job[p].row.ver},
                          ![x].swaps = Append(@, g)]
    BY DEF RefreshSessionCommit
  <2>2. psess \in [Psid -> T]
    BY DEF PlatformInv, PlatformType
  <2> QED
    BY <2>1, <2>2
<1> QED
  BY <1>2, <1>3, <1>4

(* The requests of the platform that are started or ended by a step. *)
LEMMA PlatformJobs ==
    ASSUME SessionType, PlatformInv, PlatformNext
    PROVE  \/ job' = job
           \/ \E p \in Proc, j \in JobType :
                JobOK(j) /\ j.op \in PlatformOps \cup {"idle"} /\ Do(p, j)
<1> DEFINE P == \/ job' = job
                \/ \E p \in Proc, j \in JobType :
                     JobOK(j) /\ j.op \in PlatformOps \cup {"idle"} /\ Do(p, j)
<1>1. ASSUME NEW p \in Proc, Do(p, Idle) PROVE P
  BY <1>1, IdleIs
<1>2. ASSUME NEW p \in Proc, NEW j \in JobType, Do(p, j),
             j.op \in {"setup", "admin_refresh", "impersonate", "close"},
             j.op = "admin_refresh" => j.row \in [ver : Nat]
      PROVE  P
  <2>1. JobOK(j)
    BY <1>2 DEF JobOK, AccountOps, Handlers, Resets
  <2> QED
    BY <2>1, <1>2 DEF PlatformOps
<1>3. /\ admin.ver \in Nat /\ \A x \in Psid : psess[x].vers \subseteq Nat /\ psess[x].gen \in Nat
      /\ Psid \subseteq Nat
  BY PlatformAssumption DEF PlatformInv, PlatformType
<1>4. ASSUME NEW p \in Proc, setup_mfa(p) PROVE P
  <2> DEFINE j == [Idle EXCEPT !.op = "setup"]
  <2>1. j \in JobType /\ j.op = "setup"
    BY DEF Idle, JobType, PlatformOps, RowVal, Scripts
  <2>2. Do(p, j)
    BY <1>4 DEF setup_mfa
  <2> HIDE DEF j
  <2> QED
    BY <2>1, <2>2, <1>2
<1>5. ASSUME NEW p \in Proc, NEW x \in Psid, NEW g \in 1 .. psess[x].gen, refresh_session(p, x, g)
      PROVE  P
  <2> DEFINE j == [Idle EXCEPT !.op = "admin_refresh", !.s = x, !.rows = {g},
                               !.row = [ver |-> admin.ver]]
  <2>1. g \in Nat /\ x \in Nat
    BY <1>3
  <2>2. j \in JobType /\ j.op = "admin_refresh" /\ j.row \in [ver : Nat]
    BY <2>1, <1>3 DEF Idle, JobType, PlatformOps, RowVal, Scripts
  <2>3. Do(p, j)
    BY <1>5 DEF refresh_session
  <2> HIDE DEF j
  <2> QED
    BY <2>2, <2>3, <1>2
<1>6. ASSUME NEW p \in Proc, NEW x \in Psid, NEW v \in psess[x].vers, impersonate(p, x, v) PROVE P
  <2> DEFINE j == [Idle EXCEPT !.op = "impersonate", !.s = x, !.row = [ver |-> v]]
  <2>1. v \in Nat /\ x \in Nat
    BY <1>3
  <2>2. j \in JobType /\ j.op = "impersonate"
    BY <2>1 DEF Idle, JobType, PlatformOps, RowVal, Scripts
  <2>3. Do(p, j)
    BY <1>6 DEF impersonate
  <2> HIDE DEF j
  <2> QED
    BY <2>2, <2>3, <1>2
<1>7. ASSUME NEW p \in Proc, NEW x \in Psid, NEW v, NEW b \in BOOLEAN, suspend_tenant(p, x, v, b)
      PROVE  P
  <2> DEFINE j == [Idle EXCEPT !.op = "close", !.old = b]
  <2>1. j \in JobType /\ j.op = "close"
    BY DEF Idle, JobType, PlatformOps, RowVal, Scripts
  <2>2. Do(p, j)
    BY <1>7 DEF suspend_tenant
  <2> HIDE DEF j
  <2> QED
    BY <2>1, <2>2, <1>2
<1>8. ASSUME NEW p \in Proc, NEW k \in Code \cup {None}, admin_login(p, k) PROVE P
  BY <1>8, AdminLoginStep DEF PlatformOps
<1>9. ASSUME NEW p \in Proc,
             \/ RefreshSessionCommit(p) \/ CloseCommit(p)
             \/ \E fresh \in SUBSET Code : SetupCommit(p, fresh)
             \/ \E m \in Imp : ImpersonateCommit(p, m)
             \/ \E x \in Psid : AdminLoginCommit(p, x)
      PROVE P
  <2>1. Do(p, Idle)
    BY <1>9 DEF RefreshSessionCommit, CloseCommit, SetupCommit, ImpersonateCommit, AdminLoginCommit
  <2> QED
    BY <2>1, <1>1
<1>10. ASSUME \/ LoginEnrol \/ confirm_mfa \/ PlatformExpires
              \/ \E m \in Imp : end_impersonation(m)
              \/ \E x \in Psid : \E v : \/ admin_logout(x, v) \/ revoke_all_admin_sessions(x, v)
                                    \/ \E a \in entry.on : reset_tenant_user_password(x, v, a)
       PROVE P
  BY <1>10 DEF LoginEnrol, confirm_mfa, PlatformExpires, end_impersonation, admin_logout,
               revoke_all_admin_sessions, reset_tenant_user_password
<1> HIDE DEF P
<1>11. P
  BY <1>4, <1>5, <1>6, <1>7, <1>8, <1>9, <1>10 DEF PlatformNext
<1> QED
  BY <1>11 DEF P

LEMMA PlatformKeepsType ==
    ASSUME SessionType, PlatformInv, PlatformNext, entry' = entry
    PROVE  /\ SessionType' /\ Keeps(AccountOps) /\ Keeps(DeviceOps)
           /\ UNCHANGED <<tok, flag, cut>>
           /\ \A a \in Account : acct[a].pw <= acct'[a].pw
<1>1. /\ job' \in [Proc -> JobType] /\ \A q \in Proc : JobOK(job'[q])
      /\ Keeps(AccountOps) /\ Keeps(DeviceOps)
  <2>1. CASE job' = job
    BY <2>1 DEF SessionType, Keeps
  <2>2. ASSUME NEW p \in Proc, NEW j \in JobType, JobOK(j),
               j.op \in PlatformOps \cup {"idle"}, Do(p, j)
        PROVE  /\ job' \in [Proc -> JobType] /\ \A q \in Proc : JobOK(job'[q])
               /\ Keeps(AccountOps) /\ Keeps(DeviceOps)
    <3>1. DeviceOps = (PlatformOps \cup DeviceOps) \ PlatformOps
      BY DEF PlatformOps, DeviceOps
    <3> QED
      BY <2>2, <3>1, TurnsIs
  <2> QED
    BY <2>1, <2>2, PlatformJobs
<1>2. /\ UNCHANGED <<tok, flag, cut>>
      /\ \/ acct' = acct
         \/ \E a \in entry.on : /\ acct[a].pw < MaxPw
                                /\ acct' = [acct EXCEPT ![a].pw = @ + 1, ![a].must = TRUE]
  BY DEF PlatformNext, LoginEnrol, confirm_mfa, PlatformExpires, end_impersonation, setup_mfa,
         RefreshSessionCommit, CloseCommit, SetupCommit, admin_login, ImpersonateCommit,
         AdminLoginCommit, refresh_session, admin_logout, revoke_all_admin_sessions, impersonate,
         suspend_tenant, reset_tenant_user_password, PlatformSame
<1>3. /\ acct' \in [Account -> AccountRow]
      /\ \A a \in Account : acct[a].pw <= acct'[a].pw
  <2>1. acct \in [Account -> AccountRow] /\ \A a \in Account : acct[a].pw \in Nat
    BY DEF SessionType, AccountRow
  <2>2. CASE acct' = acct
    BY <2>1, <2>2
  <2>3. ASSUME NEW a \in Account, acct[a].pw < MaxPw,
               acct' = [acct EXCEPT ![a].pw = @ + 1, ![a].must = TRUE]
        PROVE  /\ acct' \in [Account -> AccountRow]
               /\ \A b \in Account : acct[b].pw <= acct'[b].pw
    <3> DEFINE r == [acct[a] EXCEPT !.pw = @ + 1, !.must = TRUE]
    <3>1. acct[a].pw + 1 \in 1..MaxPw
      BY <2>1, <2>3, AccountAssumption
    <3>2. r \in AccountRow /\ r.pw = acct[a].pw + 1
      BY <2>1, <3>1 DEF AccountRow
    <3>3. acct' = [acct EXCEPT ![a] = r]
      BY <2>1, <2>3
    <3> HIDE DEF r
    <3>4. /\ acct' \in [Account -> AccountRow] /\ acct'[a] = r
          /\ \A b \in Account : b # a => acct'[b] = acct[b]
      BY <2>1, <3>2, <3>3
    <3> QED
      BY <2>1, <3>2, <3>4
  <2>4. entry.on \subseteq Account
    BY MixAssumption DEF SessionType
  <2> QED
    BY <2>2, <2>3, <2>4, <1>2
<1>4. \A q \in Proc : job'[q].op \in Handlers => job'[q] = job[q]
  BY <1>1 DEF Keeps, AccountOps
<1> QED
  BY <1>1, <1>2, <1>3, <1>4 DEF SessionType

(* A global revocation. *)
LEMMA AdminIs ==
    ASSUME NEW C,
           NEW r \in [ver : Nat, on : BOOLEAN, secret : Nat, enrol : BOOLEAN, codes : C]
    PROVE  LET n == [r EXCEPT !.ver = @ + 1, !.enrol = FALSE]
           IN  /\ n \in [ver : Nat, on : BOOLEAN, secret : Nat, enrol : BOOLEAN, codes : C]
               /\ n.codes = r.codes
<1>1. r.ver + 1 \in Nat
  OBVIOUS
<1> QED
  BY <1>1

(* Every step of the platform. *)
LEMMA PlatformStep ==
    ASSUME SessionType, PlatformInv, PlatformNext
    PROVE  PlatformInv'
<1> DEFINE T == [state : {"absent", "live", "revoked"}, gen : Nat, vers : SUBSET Nat,
                 by : Code \cup {None}, swaps : Seq(Nat)]
           A == [ver : Nat, on : BOOLEAN, secret : Nat, enrol : BOOLEAN,
                 codes : [Code -> {"absent", "unused", "used", "deleted"}]]
           Calm == \A q \in Proc : job'[q].op = "admin_login" => job'[q] = job[q]
<1>0. psess \in [Psid -> T] /\ admin \in A
  BY DEF PlatformInv, PlatformType
<1>1. ASSUME NEW p \in Proc, Do(p, Idle) PROVE Calm
  BY <1>1, DoIs, IdleIs DEF SessionType
<1>2. ASSUME UNCHANGED <<admin, psess>>, Calm PROVE PlatformInv'
  <2>1. PlatformType'
    BY <1>2 DEF PlatformInv, PlatformType
  <2> QED
    BY <2>1, <1>2, QuietStep
<1>3. ASSUME UNCHANGED <<psess, job>>,
             admin' \in A, admin'.codes = admin.codes
      PROVE  PlatformInv'
  <2>1. PlatformType'
    BY <1>3 DEF PlatformInv, PlatformType
  <2> QED
    BY <2>1, <1>3, QuietStep
<1>4. ASSUME UNCHANGED job, admin' \in A, admin'.codes = admin.codes, psess' \in [Psid -> T],
             \A x \in Psid : /\ psess'[x].by = psess[x].by /\ psess'[x].gen = psess[x].gen
                             /\ psess'[x].swaps = psess[x].swaps
      PROVE  PlatformInv'
  <2>1. PlatformType'
    BY <1>4 DEF PlatformType
  <2> QED
    BY <2>1, <1>4, QuietStep
<1>5. ASSUME NEW x \in Psid
      PROVE  LET n == [psess[x] EXCEPT !.state = "revoked"]
                 m == [psess[x] EXCEPT !.vers = {}]
             IN  /\ n \in T /\ n.by = psess[x].by /\ n.gen = psess[x].gen /\ n.swaps = psess[x].swaps
                 /\ m \in T /\ m.by = psess[x].by /\ m.gen = psess[x].gen /\ m.swaps = psess[x].swaps
  <2> DEFINE S == Seq(Nat)
             B == Code \cup {None}
             U == [state : {"absent", "live", "revoked"}, gen : Nat, vers : SUBSET Nat,
                   by : B, swaps : S]
             n == [psess[x] EXCEPT !.state = "revoked"]
             m == [psess[x] EXCEPT !.vers = {}]
  <2>1. psess[x] \in U
    BY <1>0
  <2> HIDE DEF S, B
  <2>2. /\ n \in U /\ n.by = psess[x].by /\ n.gen = psess[x].gen /\ n.swaps = psess[x].swaps
        /\ m \in U /\ m.by = psess[x].by /\ m.gen = psess[x].gen /\ m.swaps = psess[x].swaps
    BY <2>1
  <2> QED
    BY <2>2 DEF S, B
<1>6. ASSUME LoginEnrol \/ confirm_mfa PROVE PlatformInv'
  <2>1. admin' \in A /\ admin'.codes = admin.codes
    BY <1>0, <1>6 DEF LoginEnrol, confirm_mfa
  <2> QED
    BY <2>1, <1>3, <1>6 DEF LoginEnrol, confirm_mfa
<1>7. ASSUME NEW x \in Psid, UNCHANGED <<admin, job>>,
             \/ psess' = [psess EXCEPT ![x].state = "revoked"]
             \/ psess' = [psess EXCEPT ![x].vers = {}]
      PROVE  PlatformInv'
  <2> DEFINE n == [psess[x] EXCEPT !.state = "revoked"]
             m == [psess[x] EXCEPT !.vers = {}]
  <2>1. psess' = [psess EXCEPT ![x] = n] \/ psess' = [psess EXCEPT ![x] = m]
    BY <1>0, <1>7
  <2>2. /\ n \in T /\ n.by = psess[x].by /\ n.gen = psess[x].gen /\ n.swaps = psess[x].swaps
        /\ m \in T /\ m.by = psess[x].by /\ m.gen = psess[x].gen /\ m.swaps = psess[x].swaps
    BY <1>5
  <2> HIDE DEF n, m, T
  <2>3. psess' \in [Psid -> T] /\ psess'[x] \in {n, m} /\ \A y \in Psid : y # x => psess'[y] = psess[y]
    BY <2>1, <2>2, <1>0
  <2>4. \A y \in Psid : /\ psess'[y].by = psess[y].by /\ psess'[y].gen = psess[y].gen
                        /\ psess'[y].swaps = psess[y].swaps
    BY <2>2, <2>3
  <2>5. admin' \in A /\ admin'.codes = admin.codes
    BY <1>0, <1>7
  <2> QED
    BY <2>3, <2>4, <2>5, <1>4, <1>7
<1>8. ASSUME PlatformExpires PROVE PlatformInv'
  <2>1. CASE \E x \in Psid : /\ UNCHANGED <<admin, job>>
                             /\ \/ psess' = [psess EXCEPT ![x].state = "revoked"]
                                \/ psess' = [psess EXCEPT ![x].vers = {}]
    BY <2>1, <1>7
  <2>2. CASE UNCHANGED <<admin, psess, job>>
    BY <2>2, <1>2
  <2>3. CASE admin' = [admin EXCEPT !.enrol = FALSE] /\ UNCHANGED <<psess, job>>
    <3>1. admin' \in A /\ admin'.codes = admin.codes
      BY <1>0, <2>3
    <3> QED
      BY <2>3, <3>1, <1>3
  <2> QED
    BY <1>8, <2>1, <2>2, <2>3 DEF PlatformExpires
<1>9. ASSUME NEW x \in Psid, NEW v, admin_logout(x, v) PROVE PlatformInv'
  BY <1>7, <1>9 DEF admin_logout
<1>10. ASSUME NEW x \in Psid, NEW v, revoke_all_admin_sessions(x, v) PROVE PlatformInv'
  <2>1. /\ admin' = [admin EXCEPT !.ver = @ + 1, !.enrol = FALSE] /\ UNCHANGED job
        /\ psess' = [y \in Psid |-> IF psess[y].state = "live"
                                    THEN [psess[y] EXCEPT !.state = "revoked"] ELSE psess[y]]
    BY <1>10 DEF revoke_all_admin_sessions
  <2>2. admin' \in A /\ admin'.codes = admin.codes
    BY <1>0, <2>1, AdminIs
  <2>3. \A y \in Psid : \/ psess'[y] = psess[y]
                        \/ psess'[y] = [psess[y] EXCEPT !.state = "revoked"]
    BY <2>1
  <2>4. psess' \in [Psid -> T]
    <3>1. \A y \in Psid : psess[y] \in T /\ [psess[y] EXCEPT !.state = "revoked"] \in T
      BY <1>0, <1>5
    <3> HIDE DEF T
    <3> QED
      BY <3>1, <2>1
  <2>5. \A y \in Psid : /\ psess'[y].by = psess[y].by /\ psess'[y].gen = psess[y].gen
                        /\ psess'[y].swaps = psess[y].swaps
    BY <2>3, <1>5
  <2> QED
    BY <2>1, <2>2, <2>4, <2>5, <1>4
<1>11. ASSUME NEW p \in Proc,
              CloseCommit(p) \/ \E m \in Imp : ImpersonateCommit(p, m)
       PROVE  PlatformInv'
  BY <1>1, <1>2, <1>11 DEF CloseCommit, ImpersonateCommit
<1>12. ASSUME NEW p \in Proc, NEW j, Do(p, j), j.op # "admin_login", UNCHANGED <<admin, psess>>
       PROVE  PlatformInv'
  <2>1. Calm
    BY <1>12 DEF Do, SessionType
  <2> QED
    BY <2>1, <1>2, <1>12
<1>13. ASSUME NEW p \in Proc, setup_mfa(p) PROVE PlatformInv'
  BY <1>12, <1>13 DEF setup_mfa, Idle
<1>14. ASSUME NEW p \in Proc, NEW x \in Psid, NEW g, refresh_session(p, x, g) PROVE PlatformInv'
  BY <1>12, <1>14 DEF refresh_session, Idle
<1>15. ASSUME NEW p \in Proc, NEW x \in Psid, NEW v,
              impersonate(p, x, v) \/ \E b \in BOOLEAN : suspend_tenant(p, x, v, b)
       PROVE PlatformInv'
  BY <1>12, <1>15 DEF impersonate, suspend_tenant, Idle
<1>16. ASSUME NEW p \in Proc, RefreshSessionCommit(p) PROVE PlatformInv'
  BY <1>1, <1>16, AdminRefreshStep DEF RefreshSessionCommit
<1>17. ASSUME NEW p \in Proc, NEW fresh \in SUBSET Code, SetupCommit(p, fresh) PROVE PlatformInv'
  BY <1>1, <1>17, SetupStep DEF SetupCommit
<1>18. ASSUME \/ \E m \in Imp : end_impersonation(m)
              \/ \E x \in Psid : \E v, a : reset_tenant_user_password(x, v, a)
       PROVE  PlatformInv'
  <2>1. UNCHANGED <<admin, psess, job>>
    BY <1>18 DEF end_impersonation, reset_tenant_user_password
  <2> QED
    BY <2>1, <1>2
<1> QED
  BY <1>6, <1>8, <1>9, <1>10, <1>11, <1>13, <1>14, <1>15, <1>16, <1>17, <1>18,
     AdminLoginStep, AdminSessionStep
  DEF PlatformNext

(* The steps of the accounts start no request of the platform or of a screen. *)
LEMMA SessionsKeepOthers ==
    ASSUME SessionType, SessionsNext
    PROVE  Keeps(PlatformOps) /\ Keeps(DeviceOps)
<1> DEFINE Mine == {"idle"} \cup AccountOps
           P == \A q \in Proc : job'[q].op \notin Mine => job'[q] = job[q]
<1>0. job \in [Proc -> JobType]
  BY DEF SessionType
<1>1. ASSUME NEW p \in Proc, NEW j, Begins(p, j) PROVE P
  <2>1. job'[p] = j /\ j.op \in Mine /\ \A q \in Proc : q # p => job'[q] = job[q]
    BY <1>0, <1>1, DoIs DEF Begins, AccountOps
  <2> QED
    BY <2>1
<1>2. ASSUME NEW p \in Proc, job'[p] = Idle \/ job'[p].op \in {"redis", "redis_reset"},
             \A q \in Proc : q # p => job'[q] = job[q]
      PROVE P
  BY <1>2, IdleIs DEF AccountOps
<1>3. ASSUME NEW p \in Proc, Ends(p) PROVE P
  <2>1. job'[p] = Idle /\ \A q \in Proc : q # p => job'[q] = job[q]
    BY <1>0, <1>3, DoIs, IdleIs DEF Ends
  <2> QED
    BY <1>2, <2>1
<1>4. ASSUME NEW p \in Proc, Commit(p) PROVE P
  <2>1. /\ job'[p] = Idle \/ job'[p].op \in {"redis", "redis_reset"}
        /\ \A q \in Proc : q # p => job'[q] = job[q]
    BY <1>4, CommitIs
  <2> QED
    BY <1>2, <2>1
<1>5. ASSUME NEW p \in Proc, flag_user_disabled(p) PROVE P
  <2>1. job'[p].op \in Mine
    BY <1>5, FlagIs, IdleIs DEF AccountOps
  <2>2. ASSUME NEW q \in Proc, q # p PROVE job'[q] = job[q] \/ job'[q].op \in {"login", "refresh"}
    <3>1. \/ /\ job[q].op \in {"login", "refresh"}
             /\ job'[q] = [job[q] EXCEPT !.old = TRUE]
          \/ job'[q] = job[q]
      BY <1>5, <2>2, FlagIs
    <3> QED
      BY <3>1, <1>0 DEF JobType
  <2> QED
    BY <2>1, <2>2 DEF AccountOps
<1>6. ASSUME NEW p \in Proc, publish_session_revoked(p) PROVE P
  BY <1>2, <1>6, PublishIs
<1>7. ASSUME NEW p \in Proc, revoke_jti(p) PROVE P
  <2>1. job[p].op \in {"redis", "redis_reset"} /\ Rest(p)
    BY <1>7 DEF revoke_jti, Due
  <2> QED
    BY <1>2, <2>1, SendIs
<1>8. ASSUME NEW p \in Proc, clear_user_disabled(p) PROVE P
  BY <1>8, ClearIs DEF AccountOps
<1>9. ASSUME NEW p \in Proc, NEW s \in Sid, LoginCommit(p, s) \/ RefreshCommit(p, s) PROVE P
  BY <1>2, <1>9, LoginIs, RefreshIs
<1>10. ASSUME \/ \E c, s \in Sid : revoke_session(c, s)
              \/ \E s \in Sid : AccessExpires(s)
              \/ \E a \in Account : forgot_password(a) \/ FlagExpires(a)
       PROVE P
  BY <1>10 DEF revoke_session, AccessExpires, forgot_password, FlagExpires
<1> HIDE DEF P
<1>11. P
  BY <1>1, <1>3, <1>4, <1>5, <1>6, <1>7, <1>8, <1>9, <1>10, SessionSteps
<1>12. Mine \cap (PlatformOps \cup DeviceOps) = {}
  BY DEF AccountOps, PlatformOps, DeviceOps, Handlers
<1> QED
  BY <1>11, <1>12 DEF P, Keeps

(* A step of an account leaves the administrator alone. *)
LEMMA SessionsKeepPlatform ==
    ASSUME SessionType, PlatformInv, SessionsNext, UNCHANGED platformVars
    PROVE  PlatformInv'
<1>1. UNCHANGED <<admin, psess>>
  BY DEF platformVars
<1>2. \A q \in Proc : job'[q].op = "admin_login" => job'[q] = job[q]
  BY SessionsKeepOthers DEF Keeps, PlatformOps
<1>3. PlatformType'
  BY <1>1 DEF PlatformInv, PlatformType
<1> QED
  BY <1>1, <1>2, <1>3, QuietStep

-----------------------------------------------------------------------------
(***************************************************************************)
(* The tablets.  A code is locked by the one request that exchanges it,    *)
(* and neither a new offer nor its expiry changes it meanwhile; once a     *)
(* tablet has a session by it, it is used.                                 *)
(***************************************************************************)
CodesUsed   == \A t \in Tablet : tablet[t].by # None => pairing[tablet[t].by].state = "used"
CodesHeld   == \A p \in Proc : job[p].op = "pair" => pairing[job[p].row].state = "unused"
OnePairing  == \A p, q \in Proc : job[p].op = "pair" /\ job[q].op = "pair"
                                    /\ job[p].row = job[q].row => p = q

DeviceInv == DeviceType /\ CodesUsed /\ CodesHeld /\ OnePairing /\ PairedOnce

(* No code is presented, exchanged or replaced. *)
LEMMA DevicesQuiet ==
    ASSUME DeviceInv, DeviceType',
           \A t \in Tablet : tablet'[t].by = tablet[t].by,
           \A k \in Pairing : \/ pairing'[k].state = pairing[k].state
                              \/ /\ pairing[k].state \in {"absent", "unused"}
                                 /\ ~\E q \in Proc : job'[q].op = "pair" /\ job'[q].row = k,
           SessionType,
           \A q \in Proc : job'[q].op = "pair" => job'[q] = job[q]
    PROVE  DeviceInv'
<1>1. \A t \in Tablet : tablet[t].by # None => tablet[t].by \in Pairing
  BY DEF DeviceInv, DeviceType
<1>2. \A q \in Proc : job[q].op = "pair" => job[q].row \in Pairing
  BY DEF SessionType, JobOK
<1>3. CodesUsed'
  BY <1>1 DEF DeviceInv, CodesUsed
<1>4. CodesHeld'
  BY <1>2 DEF DeviceInv, CodesHeld
<1>5. OnePairing'
  BY DEF DeviceInv, OnePairing
<1>6. PairedOnce'
  BY DEF DeviceInv, PairedOnce
<1> QED
  BY <1>3, <1>4, <1>5, <1>6 DEF DeviceInv

(* create_pairing_code and pair_remote start a request; the others change   *)
(* one row, or those of one screen.                                         *)
LEMMA DeviceStep ==
    ASSUME SessionType, DeviceInv, DevicesNext, entry' = entry
    PROVE  /\ DeviceInv' /\ SessionType' /\ Keeps(AccountOps) /\ Keeps(PlatformOps)
           /\ UNCHANGED <<acct, tok, flag, cut>>
<1> DEFINE Pr == [state : {"absent", "unused", "used", "expired"}, screen : Display \cup {None}]
           Tb == [state : {"absent", "live", "revoked"}, screen : Display \cup {None},
                  by : Pairing \cup {None}]
           P == /\ DeviceInv' /\ Keeps(AccountOps) /\ Keeps(PlatformOps)
                /\ job' \in [Proc -> JobType] /\ \A q \in Proc : JobOK(job'[q])
<1>0. /\ pairing \in [Pairing -> Pr] /\ tablet \in [Tablet -> Tb]
      /\ job \in [Proc -> JobType] /\ \A q \in Proc : JobOK(job[q])
      /\ \A q \in Proc : job[q].op = "pair" => job[q].row \in Pairing
  BY DEF DeviceInv, DeviceType, SessionType, JobOK
<1>1. ASSUME job' = job, pairing' = pairing, tablet' \in [Tablet -> Tb],
             \A t \in Tablet : tablet'[t].by = tablet[t].by
      PROVE  P
  <2>1. DeviceType'
    BY <1>0, <1>1 DEF DeviceType
  <2> QED
    BY <2>1, <1>0, <1>1, DevicesQuiet DEF Keeps
<1>2. ASSUME NEW d \in Display,
             \/ create_screen(d) \/ revoke_screen_sessions(d)
             \/ \E st \in {"on", "local", "off"} : update_screen(d, st)
      PROVE  P
  <2>1. job' = job /\ pairing' = pairing
    BY <1>2 DEF create_screen, revoke_screen_sessions, update_screen
  <2>2. \A t \in Tablet : /\ [tablet[t] EXCEPT !.state = "revoked"] \in Tb
                          /\ [tablet[t] EXCEPT !.state = "revoked"].by = tablet[t].by
    BY <1>0
  <2>3. \/ tablet' = tablet
        \/ tablet' = [t \in Tablet |-> IF tablet[t].state = "live" /\ tablet[t].screen = d
                                   THEN [tablet[t] EXCEPT !.state = "revoked"] ELSE tablet[t]]
    BY <1>2 DEF create_screen, revoke_screen_sessions, update_screen
  <2> HIDE DEF Tb
  <2>4. tablet' \in [Tablet -> Tb] /\ \A t \in Tablet : tablet'[t].by = tablet[t].by
    BY <2>2, <2>3, <1>0
  <2> QED
    BY <2>1, <2>4, <1>1
<1>3. ASSUME NEW t \in Tablet, revoke_remote_session(t) PROVE P
  <2> DEFINE n == [tablet[t] EXCEPT !.state = "revoked"]
  <2>1. job' = job /\ pairing' = pairing /\ tablet' = [tablet EXCEPT ![t] = n]
    BY <1>0, <1>3 DEF revoke_remote_session
  <2>2. n \in Tb /\ n.by = tablet[t].by
    BY <1>0
  <2> HIDE DEF n, Tb
  <2>3. tablet' \in [Tablet -> Tb] /\ \A u \in Tablet : tablet'[u].by = tablet[u].by
    BY <2>1, <2>2, <1>0
  <2> QED
    BY <2>1, <2>3, <1>1
<1>4. ASSUME NEW k \in Pairing, CodeExpires(k) PROVE P
  <2> DEFINE n == [pairing[k] EXCEPT !.state = "expired"]
  <2>1. /\ job' = job /\ tablet' = tablet /\ pairing' = [pairing EXCEPT ![k] = n]
        /\ pairing[k].state = "unused" /\ ~Locked(k)
    BY <1>0, <1>4 DEF CodeExpires
  <2>2. n \in Pr
    BY <1>0
  <2> HIDE DEF n, Pr
  <2>3. pairing' \in [Pairing -> Pr] /\ \A o \in Pairing : o # k => pairing'[o] = pairing[o]
    BY <2>1, <2>2, <1>0
  <2>4. DeviceType'
    BY <2>1, <2>3, <1>0 DEF DeviceType, Pr
  <2>5. DeviceInv'
    BY <2>1, <2>3, <2>4, DevicesQuiet DEF Locked
  <2> QED
    BY <2>1, <2>5, <1>0 DEF Keeps
<1>5. ASSUME NEW p \in Proc, NEW j \in JobType, JobOK(j), j.op \in DeviceOps \cup {"idle"}, Do(p, j)
      PROVE  /\ Keeps(AccountOps) /\ Keeps(PlatformOps)
             /\ job' \in [Proc -> JobType] /\ \A q \in Proc : JobOK(job'[q])
             /\ job'[p] = j /\ \A q \in Proc : q # p => job'[q] = job[q]
  <2>1. PlatformOps = (PlatformOps \cup DeviceOps) \ DeviceOps
    BY DEF PlatformOps, DeviceOps
  <2> QED
    BY <2>1, <1>5, TurnsIs
<1>6. ASSUME NEW p \in Proc, NEW d \in Display, create_pairing_code(p, d) PROVE P
  <2> DEFINE j == [Idle EXCEPT !.op = "offer", !.s = d, !.rows = Offered(d)]
  <2>1. Do(p, j) /\ UNCHANGED <<pairing, tablet>>
    BY <1>6 DEF create_pairing_code, deviceVars
  <2>2. Offered(d) \in SUBSET Nat /\ d \in Nat
    BY DeviceAssumption DEF Offered
  <2>3. j \in JobType /\ j.op = "offer" /\ j.s = d
    BY <2>2 DEF Idle, JobType, DeviceOps, RowVal, Scripts
  <2> HIDE DEF j
  <2>4. JobOK(j)
    BY <2>3 DEF JobOK, AccountOps, Handlers, Resets
  <2>5. /\ Keeps(AccountOps) /\ Keeps(PlatformOps)
        /\ job' \in [Proc -> JobType] /\ \A q \in Proc : JobOK(job'[q])
        /\ job'[p] = j /\ \A q \in Proc : q # p => job'[q] = job[q]
    BY <2>1, <2>3, <2>4, <1>5 DEF DeviceOps
  <2>6. DeviceType' /\ \A q \in Proc : job'[q].op = "pair" => job'[q] = job[q]
    BY <2>1, <2>3, <2>5, <1>0 DEF DeviceType
  <2>7. DeviceInv'
    BY <2>1, <2>6, DevicesQuiet
  <2> QED
    BY <2>5, <2>7
<1>7. ASSUME NEW p \in Proc, NEW k \in Pairing, OfferCommit(p, k) PROVE P
  <2>1. /\ job[p].op = "offer" /\ NewCode(k) /\ \A o \in job[p].rows : ~Locked(o)
        /\ pairing' = [o \in Pairing |->
                     IF o = k THEN [state |-> "unused", screen |-> job[p].s]
                     ELSE IF o \in job[p].rows /\ pairing[o].state = "unused"
                     THEN [pairing[o] EXCEPT !.state = "used"] ELSE pairing[o]]
        /\ Do(p, Idle) /\ tablet' = tablet
    BY <1>7 DEF OfferCommit
  <2>2. /\ Keeps(AccountOps) /\ Keeps(PlatformOps)
        /\ job' \in [Proc -> JobType] /\ \A q \in Proc : JobOK(job'[q])
        /\ job'[p] = Idle /\ \A q \in Proc : q # p => job'[q] = job[q]
    BY <2>1, <1>5, IdleIs
  <2>3. job[p].s \in Display
    BY <2>1, <1>0 DEF JobOK
  <2>4. /\ [state |-> "unused", screen |-> job[p].s] \in Pr
        /\ \A o \in Pairing : [pairing[o] EXCEPT !.state = "used"] \in Pr /\ pairing[o] \in Pr
    BY <2>3, <1>0
  <2>5. pairing' \in [Pairing -> Pr]
    <3> HIDE DEF Pr
    <3> QED
      BY <2>1, <2>4
  <2>6. DeviceType'
    BY <2>1, <2>5, <1>0 DEF DeviceType
  <2>7. \A q \in Proc : job'[q].op = "pair" => job'[q] = job[q]
    BY <2>2, IdleIs
  <2>8. pairing[k].state = "absent"
    BY <2>1 DEF NewCode
  <2>9. ~\E q \in Proc : job'[q].op = "pair" /\ job'[q].row = k
    BY <2>7, <2>8 DEF DeviceInv, CodesHeld
  <2>10. ASSUME NEW o \in Pairing
         PROVE  \/ pairing'[o].state = pairing[o].state
                \/ /\ pairing[o].state \in {"absent", "unused"}
                   /\ ~\E q \in Proc : job'[q].op = "pair" /\ job'[q].row = o
    <3>1. CASE o = k
      BY <3>1, <2>8, <2>9
    <3>2. CASE o # k /\ o \in job[p].rows /\ pairing[o].state = "unused"
      BY <3>2, <2>1, <2>7 DEF Locked
    <3>3. CASE o # k /\ ~(o \in job[p].rows /\ pairing[o].state = "unused")
      BY <3>3, <2>1
    <3> QED
      BY <3>1, <3>2, <3>3
  <2>11. DeviceInv'
    BY <2>1, <2>6, <2>7, <2>10, DevicesQuiet
  <2> QED
    BY <2>2, <2>11
<1>8. ASSUME NEW p \in Proc, NEW k \in Pairing, pair_remote(p, k) PROVE P
  <2> DEFINE j == [Idle EXCEPT !.op = "pair", !.row = k]
  <2>1. Do(p, j) /\ UNCHANGED <<pairing, tablet>> /\ pairing[k].state = "unused" /\ ~Locked(k)
    BY <1>8 DEF pair_remote, deviceVars
  <2>2. k \in Nat
    BY DeviceAssumption
  <2>3. j \in JobType /\ j.op = "pair" /\ j.row = k
    BY <2>2 DEF Idle, JobType, DeviceOps, RowVal, Scripts
  <2> HIDE DEF j
  <2>4. JobOK(j)
    BY <2>3 DEF JobOK, AccountOps, Handlers, Resets
  <2>5. /\ Keeps(AccountOps) /\ Keeps(PlatformOps)
        /\ job' \in [Proc -> JobType] /\ \A q \in Proc : JobOK(job'[q])
        /\ job'[p] = j /\ \A q \in Proc : q # p => job'[q] = job[q]
    BY <2>1, <2>3, <2>4, <1>5 DEF DeviceOps
  <2>6. DeviceType' /\ CodesUsed' /\ PairedOnce'
    BY <2>1, <1>0 DEF DeviceType, DeviceInv, CodesUsed, PairedOnce
  <2>7. CodesHeld'
    BY <2>1, <2>3, <2>5 DEF DeviceInv, CodesHeld
  <2>8. OnePairing'
    BY <2>1, <2>3, <2>5 DEF DeviceInv, OnePairing, Locked
  <2> QED
    BY <2>5, <2>6, <2>7, <2>8 DEF DeviceInv
<1>9. ASSUME NEW p \in Proc, NEW t \in Tablet, PairCommit(p, t) PROVE P
  <2> DEFINE k == job[p].row
             n == [pairing[k] EXCEPT !.state = "used"]
             m == [state |-> "live", by |-> k, screen |-> pairing[k].screen]
  <2>1. job[p].op = "pair" /\ k \in Pairing /\ NewTablet(t)
    BY <1>0, <1>9 DEF PairCommit
  <2>2. /\ pairing' = [pairing EXCEPT ![k] = n] /\ tablet' = [tablet EXCEPT ![t] = m] /\ Do(p, Idle)
    BY <2>1, <1>0, <1>9 DEF PairCommit
  <2>3. pairing[k].state = "unused"
    BY <2>1 DEF DeviceInv, CodesHeld
  <2> HIDE DEF k
  <2>4. n \in Pr /\ n.state = "used" /\ m \in Tb /\ m.by = k
    BY <2>1, <1>0
  <2> HIDE DEF n, m, Pr, Tb
  <2>5. /\ pairing' \in [Pairing -> Pr] /\ pairing'[k] = n
        /\ \A o \in Pairing : o # k => pairing'[o] = pairing[o]
        /\ tablet' \in [Tablet -> Tb] /\ tablet'[t] = m
        /\ \A u \in Tablet : u # t => tablet'[u] = tablet[u]
    BY <2>1, <2>2, <2>4, <1>0
  <2>6. /\ Keeps(AccountOps) /\ Keeps(PlatformOps)
        /\ job' \in [Proc -> JobType] /\ \A q \in Proc : JobOK(job'[q])
        /\ job'[p] = Idle /\ \A q \in Proc : q # p => job'[q] = job[q]
    BY <2>2, <1>5, IdleIs
  <2>7. DeviceType'
    BY <2>5 DEF DeviceType, Pr, Tb
  <2>8. \A u \in Tablet : tablet[u].by # None => tablet[u].by \in Pairing /\ tablet[u].by # k
    BY <2>3, <1>0 DEF DeviceInv, CodesUsed, Tb
  <2>9. CodesUsed' /\ PairedOnce'
    BY <2>4, <2>5, <2>8 DEF DeviceInv, CodesUsed, PairedOnce
  <2>10. \A q \in Proc : job'[q].op = "pair" => q # p /\ job'[q] = job[q]
    BY <2>6, IdleIs
  <2>11. OnePairing'
    BY <2>10 DEF DeviceInv, OnePairing
  <2>12. CodesHeld'
    <3>1. \A q \in Proc : job'[q].op = "pair" => job[q].row # k
      BY <2>1, <2>10 DEF DeviceInv, OnePairing, k
    <3> QED
      BY <3>1, <2>5, <2>10, <1>0 DEF DeviceInv, CodesHeld
  <2> QED
    BY <2>6, <2>7, <2>9, <2>11, <2>12 DEF DeviceInv
<1>10. UNCHANGED <<acct, tok, flag, cut>>
  BY DEF DevicesNext, create_screen, revoke_screen_sessions, update_screen, create_pairing_code,
         CodeExpires, OfferCommit, pair_remote, revoke_remote_session, PairCommit, DeviceSame
<1> HIDE DEF P
<1>11. P
  BY <1>2, <1>3, <1>4, <1>6, <1>7, <1>8, <1>9 DEF DevicesNext
<1>12. \A q \in Proc : job'[q].op \in Handlers => job'[q] = job[q]
  BY <1>11 DEF P, Keeps, AccountOps
<1> QED
  BY <1>10, <1>11, <1>12 DEF SessionType, P

-----------------------------------------------------------------------------
(***************************************************************************)
(* Refresh tokens: the row that was exchanged for another is revoked.      *)
(***************************************************************************)
Rotated == \A s \in Sid : tok[s].from # None =>
             tok[s].from \in Sid /\ tok[tok[s].from].state = "revoked"

RotationInv == Rotated /\ RotatedOnce

LEMMA RotationStep ==
    ASSUME SessionType, RotationInv, SessionsNext, entry' = entry
    PROVE  RotationInv'
<1>1. ASSUME \A s \in Sid : Follows(tok[s], tok'[s]) PROVE RotationInv'
  BY <1>1 DEF RotationInv, Rotated, RotatedOnce, Follows
<1>2. ASSUME NEW p \in Proc, NEW s \in Sid, LoginCommit(p, s) PROVE RotationInv'
  <2>1. /\ tok[s].state = "absent" /\ tok'[s].from = None
        /\ \A t \in Sid : t # s => tok'[t] = tok[t]
    BY <1>2, LoginIs
  <2> QED
    BY <2>1 DEF RotationInv, Rotated, RotatedOnce
<1>3. ASSUME NEW p \in Proc, NEW s \in Sid, RefreshCommit(p, s) PROVE RotationInv'
  <2> DEFINE x == job[p].s
  <2>1. /\ x \in Sid /\ tok[s].state = "absent" /\ tok[x].state = "live"
        /\ tok'[s].from = x /\ tok'[x].state = "revoked"
        /\ \A t \in Sid : t # s => Follows(tok[t], tok'[t])
    BY <1>3, RefreshIs
  <2>2. \A t \in Sid : tok[t].from # None => tok[t].from # x /\ tok[t].from # s
    BY <2>1 DEF RotationInv, Rotated
  <2>3. Rotated'
    BY <2>1, <2>2 DEF RotationInv, Rotated, Follows
  <2>4. RotatedOnce'
    BY <2>1, <2>2 DEF RotationInv, RotatedOnce, Follows
  <2> QED
    BY <2>3, <2>4 DEF RotationInv
<1> QED
  BY <1>1, <1>2, <1>3, SessionsKeepType

-----------------------------------------------------------------------------
(***************************************************************************)
(* Resets.  Generation n of a password is cut off when every token of an   *)
(* older one is dead or found by the flag, and every login and refresh     *)
(* that read an older one is known to the flag too: the flag outlives      *)
(* them.  A reset has cut its own generation off once it has set the flag, *)
(* and this lasts until it returns or an admin reactivates the account.    *)
(***************************************************************************)
CutOff(a, n) ==
    /\ n <= acct[a].pw
    /\ \A s \in Sid : tok[s].state # "absent" /\ tok[s].a = a /\ tok[s].access /\ tok[s].pw < n
                      => flag[a].on /\ s \in flag[a].before
    /\ \A q \in Proc : job[q].op \in {"login", "refresh"} /\ job[q].a = a /\ job[q].row.pw < n
                       => flag[a].on /\ job[q].old

CutsHold  == \A a \in Account : CutOff(a, cut[a])
ResetsRun == \A p \in Proc : job[p].op = "redis_reset" =>
               /\ job[p].row.pw <= acct[job[p].a].pw
               /\ job[p].then = <<"publish">> => CutOff(job[p].a, job[p].row.pw)
ResetInv  == CutsHold /\ ResetsRun

LEMMA Generations ==
    ASSUME SessionType
    PROVE  /\ \A a \in Account : acct[a].pw \in Nat /\ cut[a] \in Nat
           /\ \A s \in Sid : tok[s].pw \in Nat
           /\ \A q \in Proc : job[q].op \in {"login", "refresh", "redis", "redis_reset"}
                              => job[q].a \in Account /\ job[q].row.pw \in Nat
<1>1. MaxPw \in Nat
  BY AccountAssumption
<1> QED
  BY <1>1 DEF SessionType, AccountRow, TokenRow, JobOK, AccountOps

(* What is cut off stays so while the flag does. *)
LEMMA CutStays ==
    ASSUME SessionType, NEW a \in Account, NEW n \in Nat, CutOff(a, n),
           acct'[a].pw \in Nat, acct[a].pw <= acct'[a].pw,
           flag[a].on => flag'[a].on, flag[a].before \subseteq flag'[a].before,
           \A s \in Sid : \/ Follows(tok[s], tok'[s])
                          \/ tok'[s].a = a /\ tok'[s].pw < n
                             => flag'[a].on /\ s \in flag'[a].before,
           \A q \in Proc : job'[q].op \in {"login", "refresh"} /\ job'[q].a = a =>
                             \/ job'[q] = job[q]
                             \/ job'[q].row = acct[a]
                             \/ flag'[a].on /\ job'[q].old
    PROVE  CutOff(a, n)'
<1>1. acct[a].pw \in Nat
  BY Generations
<1>2. n <= acct'[a].pw
  BY <1>1 DEF CutOff
<1>3. ASSUME NEW s \in Sid, tok'[s].state # "absent", tok'[s].a = a, tok'[s].access, tok'[s].pw < n
      PROVE  flag'[a].on /\ s \in flag'[a].before
  BY <1>3 DEF CutOff, Follows
<1>4. ASSUME NEW q \in Proc, job'[q].op \in {"login", "refresh"}, job'[q].a = a, job'[q].row.pw < n
      PROVE  flag'[a].on /\ job'[q].old
  <2>1. CASE job'[q] = job[q]
    BY <1>4, <2>1 DEF CutOff
  <2>2. CASE job'[q].row = acct[a]
    BY <1>4, <2>2, <1>1 DEF CutOff
  <2> QED
    BY <1>4, <2>1, <2>2
<1> QED
  BY <1>2, <1>3, <1>4 DEF CutOff

(* A step that sets no flag, clears none and notes no reset. *)
LEMMA ResetQuiet ==
    ASSUME SessionType, ResetInv, SessionType', cut' = cut,
           \A a \in Account : /\ acct[a].pw <= acct'[a].pw
                              /\ flag[a].on => flag'[a].on
                              /\ flag[a].before \subseteq flag'[a].before,
           \A s \in Sid : Follows(tok[s], tok'[s]),
           \A q \in Proc : job'[q].op \in {"login", "refresh"} =>
                             job'[q] = job[q] \/ job'[q].row = acct[job'[q].a],
           \A q \in Proc : job'[q].op = "redis_reset" =>
                             \/ job'[q] = job[q]
                             \/ /\ job'[q].row.pw <= acct'[job'[q].a].pw
                                /\ job'[q].then # <<"publish">>
    PROVE  ResetInv'
<1>1. \A a \in Account : acct'[a].pw \in Nat /\ acct[a].pw \in Nat /\ cut[a] \in Nat
  BY Generations DEF SessionType, AccountRow
<1>2. ASSUME NEW a \in Account, NEW n \in Nat, CutOff(a, n) PROVE CutOff(a, n)'
  BY <1>1, <1>2, CutStays
<1>3. CutsHold'
  BY <1>1, <1>2 DEF ResetInv, CutsHold
<1>4. ASSUME NEW q \in Proc, job'[q].op = "redis_reset"
      PROVE  /\ job'[q].row.pw <= acct'[job'[q].a].pw
             /\ job'[q].then = <<"publish">> => CutOff(job[q].a, job[q].row.pw)'
  <2>1. CASE job'[q] = job[q]
    <3>1. job[q].a \in Account /\ job[q].row.pw \in Nat
      BY <1>4, <2>1, Generations
    <3>2. job[q].row.pw <= acct[job[q].a].pw
      BY <1>4, <2>1 DEF ResetInv, ResetsRun
    <3>3. PICK a \in Account, n \in Nat : a = job[q].a /\ n = job[q].row.pw
      BY <3>1
    <3>4. job'[q].then = <<"publish">> => CutOff(a, n)'
      BY <3>3, <1>2, <1>4, <2>1 DEF ResetInv, ResetsRun
    <3>5. job'[q].then = <<"publish">> => CutOff(job[q].a, job[q].row.pw)'
      BY <3>3, <3>4, <2>1 DEF CutOff
    <3> QED
      BY <3>1, <3>2, <3>5, <1>1, <2>1
  <2>2. CASE job'[q] # job[q]
    BY <1>4, <2>2
  <2> QED
    BY <2>1, <2>2
<1>5. ResetsRun'
  BY <1>4 DEF ResetsRun
<1> QED
  BY <1>3, <1>5 DEF ResetInv

(* ResetInv of the next state, from what it says of each generation. *)
LEMMA ResetNext ==
    ASSUME SessionType',
           \A a \in Account, n \in Nat : n = cut'[a] => CutOff(a, n)',
           \A q \in Proc : job'[q].op = "redis_reset" =>
             /\ job'[q].row.pw <= acct'[job'[q].a].pw
             /\ job'[q].then = <<"publish">> =>
                  \A a \in Account, n \in Nat :
                    a = job'[q].a /\ n = job'[q].row.pw => CutOff(a, n)'
    PROVE  ResetInv'
<1>1. \A a \in Account : cut'[a] \in Nat
  BY AccountAssumption DEF SessionType
<1>2. CutsHold'
  BY <1>1 DEF CutsHold, CutOff
<1>3. \A q \in Proc : job'[q].op = "redis_reset" => job'[q].a \in Account /\ job'[q].row.pw \in Nat
  BY AccountAssumption DEF SessionType, JobOK, AccountOps, AccountRow
<1>4. ResetsRun'
  BY <1>3 DEF ResetsRun, CutOff
<1> QED
  BY <1>2, <1>4 DEF ResetInv

(* A login or a refresh that read an older password and commits after the  *)
(* flag was set is one the flag knows.                                     *)
LEMMA ResetIssue ==
    ASSUME SessionType, ResetInv, SessionType', NEW p \in Proc, NEW s \in Sid,
           LoginCommit(p, s) \/ RefreshCommit(p, s)
    PROVE  ResetInv'
<1> DEFINE b == job[p].a
<1>1. /\ b \in Account /\ job[p].row \in AccountRow /\ tok'[s].a = b /\ tok'[s].pw = job[p].row.pw
      /\ \A t \in Sid : t # s => Follows(tok[t], tok'[t])
      /\ job'[p] = Idle /\ \A q \in Proc : q # p => job'[q] = job[q]
      /\ UNCHANGED <<acct, cut>>
      /\ job[p].op \in {"login", "refresh"} /\ Issued(p, s, b)
  <2>0. \A a \in Account, r \in AccountRow, from \in Sid \cup {None} :
          Issue(a, r, from).a = a /\ Issue(a, r, from).pw = r.pw
    BY IssueIs
  <2>1. CASE LoginCommit(p, s)
    <3>1. job[p].op = "login" /\ Issued(p, s, b)
      BY <2>1 DEF LoginCommit
    <3>2. /\ b \in Account /\ job[p].row \in AccountRow
          /\ tok'[s] = Issue(b, job[p].row, None)
          /\ \A t \in Sid : t # s => Follows(tok[t], tok'[t])
          /\ job'[p] = Idle /\ \A q \in Proc : q # p => job'[q] = job[q]
          /\ UNCHANGED <<acct, cut>>
      BY <2>1, LoginIs
    <3> QED
      BY <2>0, <3>1, <3>2
  <2>2. CASE RefreshCommit(p, s)
    <3>1. job[p].op = "refresh" /\ Issued(p, s, b)
      BY <2>2 DEF RefreshCommit
    <3>2. /\ b \in Account /\ job[p].row \in AccountRow /\ job[p].s \in Sid
          /\ tok'[s] = Issue(b, job[p].row, job[p].s)
          /\ \A t \in Sid : t # s => Follows(tok[t], tok'[t])
          /\ job'[p] = Idle /\ \A q \in Proc : q # p => job'[q] = job[q]
          /\ UNCHANGED <<acct, cut>>
      BY <2>2, RefreshIs
    <3> QED
      BY <2>0, <3>1, <3>2
  <2> QED
    BY <2>1, <2>2
<1> HIDE DEF b
<1>2. /\ \A a \in Account : /\ flag'[a].on = flag[a].on
                            /\ flag[a].before \subseteq flag'[a].before
      /\ job[p].old => s \in flag'[b].before
  BY <1>1, IssuedIs
<1>3. \A a \in Account : acct[a].pw \in Nat /\ cut[a] \in Nat
  BY Generations
<1>4. ASSUME NEW a \in Account, NEW n \in Nat, CutOff(a, n) PROVE CutOff(a, n)'
  <2>1. tok'[s].a = a /\ tok'[s].pw < n => flag'[a].on /\ s \in flag'[a].before
    BY <1>1, <1>2, <1>4 DEF CutOff, b
  <2>2. \A q \in Proc : job'[q].op \in {"login", "refresh"} => job'[q] = job[q]
    BY <1>1, IdleIs
  <2>3. \A t \in Sid : Follows(tok[t], tok'[t]) \/ t = s
    BY <1>1
  <2> QED
    BY <2>1, <2>2, <2>3, <1>1, <1>2, <1>3, <1>4, CutStays
<1>5. \A a \in Account, n \in Nat : n = cut'[a] => CutOff(a, n)'
  BY <1>1, <1>4 DEF ResetInv, CutsHold
<1>6. ASSUME NEW q \in Proc, job'[q].op = "redis_reset"
      PROVE  /\ job'[q].row.pw <= acct'[job'[q].a].pw
             /\ job'[q].then = <<"publish">> =>
                  \A a \in Account, n \in Nat :
                    a = job'[q].a /\ n = job'[q].row.pw => CutOff(a, n)'
  <2>1. job'[q] = job[q]
    BY <1>1, <1>6, IdleIs
  <2> QED
    BY <2>1, <1>1, <1>4, <1>6 DEF ResetInv, ResetsRun
<1> QED
  BY <1>5, <1>6, ResetNext

(* The flag finds what an older password still opens. *)
LEMMA ResetFlag ==
    ASSUME SessionType, ResetInv, SessionType', NEW p \in Proc, flag_user_disabled(p)
    PROVE  ResetInv'
<1>0. PICK b \in Account : b = job[p].a
  BY FlagIs
<1> DEFINE before == {s \in Sid : tok[s].state # "absent" /\ tok[s].a = b}
<1>1. /\ b = job[p].a /\ job[p].op \in {"redis", "redis_reset"}
      /\ flag' = [flag EXCEPT ![b] = [on |-> TRUE, before |-> @.before \cup before]]
      /\ Noted(p) /\ UNCHANGED <<acct, tok>>
      /\ \/ job'[p] = Idle
         \/ /\ job'[p].op = job[p].op /\ job'[p].a = b /\ job'[p].row = job[p].row
      /\ \A q \in Proc : q # p =>
           \/ /\ job[q].op \in {"login", "refresh"} /\ job[q].a = b
              /\ job'[q] = [job[q] EXCEPT !.old = TRUE]
           \/ /\ ~(job[q].op \in {"login", "refresh"} /\ job[q].a = b)
              /\ job'[q] = job[q]
  BY <1>0, FlagIs
<1>2. \A a \in Account : acct[a].pw \in Nat /\ cut[a] \in Nat
  BY Generations
<1>3. /\ flag'[b].on /\ before \subseteq flag'[b].before /\ flag[b].before \subseteq flag'[b].before
      /\ \A a \in Account : a # b => flag'[a] = flag[a]
  BY <1>1 DEF SessionType
<1>4. ASSUME NEW q \in Proc
      PROVE  /\ job'[q].op \in {"login", "refresh"} =>
                  \/ job'[q] = job[q] /\ job'[q].a # b
                  \/ job'[q].a = b /\ job'[q].old
             /\ q # p /\ job'[q].op = "redis_reset" => job'[q] = job[q]
  <2>1. CASE q = p
    BY <2>1, <1>1, IdleIs
  <2>2. CASE q # p /\ job'[q] = [job[q] EXCEPT !.old = TRUE]
             /\ job[q].op \in {"login", "refresh"} /\ job[q].a = b
    <3>1. job[q] \in JobType
      BY DEF SessionType
    <3>2. job'[q].op = job[q].op /\ job'[q].a = job[q].a /\ job'[q].old
      BY <2>2, <3>1 DEF JobType
    <3> QED
      BY <2>2, <3>2
  <2>3. CASE q # p /\ job'[q] = job[q] /\ ~(job[q].op \in {"login", "refresh"} /\ job[q].a = b)
    BY <2>3
  <2> QED
    BY <2>1, <2>2, <2>3, <1>1
<1>5. ASSUME NEW n \in Nat, n <= acct[b].pw PROVE CutOff(b, n)'
  BY <1>1, <1>3, <1>4, <1>5 DEF CutOff
<1>6. ASSUME NEW a \in Account, NEW n \in Nat, CutOff(a, n) PROVE CutOff(a, n)'
  <2>1. CASE a = b
    BY <2>1, <1>5, <1>6 DEF CutOff
  <2>2. CASE a # b
    BY <2>2, <1>1, <1>2, <1>3, <1>4, <1>6, CutStays DEF Follows
  <2> QED
    BY <2>1, <2>2
<1>7. job[p].op = "redis_reset" => job[p].row.pw \in Nat /\ job[p].row.pw <= acct[b].pw
  BY <1>0, Generations DEF ResetInv, ResetsRun
<1>8. \A a \in Account, n \in Nat : n = cut'[a] => CutOff(a, n)'
  <2>1. \/ cut' = cut
        \/ job[p].op = "redis_reset" /\ cut' = [cut EXCEPT ![b] = job[p].row.pw]
    BY <1>1, NotedIs
  <2>2. CASE cut' = cut
    BY <2>2, <1>6 DEF ResetInv, CutsHold
  <2>3. CASE job[p].op = "redis_reset" /\ cut' = [cut EXCEPT ![b] = job[p].row.pw]
    <3>1. cut'[b] = job[p].row.pw /\ \A a \in Account : a # b => cut'[a] = cut[a]
      BY <2>3, <1>1 DEF SessionType
    <3> QED
      BY <3>1, <2>3, <1>5, <1>6, <1>7 DEF ResetInv, CutsHold
  <2> QED
    BY <2>1, <2>2, <2>3
<1>9. ASSUME NEW q \in Proc, job'[q].op = "redis_reset"
      PROVE  /\ job'[q].row.pw <= acct'[job'[q].a].pw
             /\ job'[q].then = <<"publish">> =>
                  \A a \in Account, n \in Nat :
                    a = job'[q].a /\ n = job'[q].row.pw => CutOff(a, n)'
  <2>1. CASE q = p
    <3>1. job[p].op = "redis_reset" /\ job'[p].a = b /\ job'[p].row = job[p].row
      BY <2>1, <1>1, <1>9, IdleIs
    <3> QED
      BY <3>1, <2>1, <1>1, <1>5, <1>7
  <2>2. CASE q # p
    BY <2>2, <1>1, <1>4, <1>6, <1>9 DEF ResetInv, ResetsRun
  <2> QED
    BY <2>1, <2>2
<1> QED
  BY <1>8, <1>9, ResetNext

(* A reset that returns after the message was published had set the flag. *)
LEMMA ResetPublish ==
    ASSUME SessionType, ResetInv, SessionType', NEW p \in Proc, publish_session_revoked(p)
    PROVE  ResetInv'
<1> DEFINE b == job[p].a
<1>1. /\ job[p].op \in {"redis", "redis_reset"} /\ Head(job[p].then) = "publish"
      /\ Noted(p) /\ UNCHANGED <<acct, tok, flag>>
      /\ \A q \in Proc : JobOK(job'[q])
      /\ \A q \in Proc : q # p => job'[q] = job[q]
      /\ \/ job'[p] = Idle
         \/ job'[p].op = job[p].op /\ job'[p].then = Tail(job[p].then)
  BY PublishIs
<1>2. job[p].op = "redis_reset" => job[p].then = <<"publish">>
  <2>1. job[p].op = "redis_reset" => job[p].then \in {<<"flag", "publish">>, <<"publish">>}
    BY DEF SessionType, JobOK
  <2> QED
    BY <2>1, <1>1
<1>3. job'[p].op # "redis_reset" /\ job'[p].op \notin {"login", "refresh"}
  <2>1. CASE job'[p] = Idle
    BY <2>1, IdleIs
  <2>2. CASE job'[p].op = job[p].op /\ job'[p].then = Tail(job[p].then)
    <3>1. job'[p].op = "redis_reset" => job'[p].then # <<>>
      BY <1>1 DEF JobOK
    <3>2. Tail(<<"publish">>) = <<>>
      OBVIOUS
    <3> QED
      BY <2>2, <3>1, <3>2, <1>1, <1>2
  <2> QED
    BY <2>1, <2>2, <1>1
<1>4. \A a \in Account : acct[a].pw \in Nat /\ cut[a] \in Nat
  BY Generations
<1>5. ASSUME NEW a \in Account, NEW n \in Nat, CutOff(a, n) PROVE CutOff(a, n)'
  BY <1>1, <1>3, <1>4, <1>5, CutStays DEF Follows
<1>6. \A a \in Account, n \in Nat : n = cut'[a] => CutOff(a, n)'
  <2>1. \/ cut' = cut
        \/ job[p].op = "redis_reset" /\ cut' = [cut EXCEPT ![b] = job[p].row.pw]
    BY <1>1, NotedIs
  <2>2. CASE cut' = cut
    BY <2>2, <1>5 DEF ResetInv, CutsHold
  <2>3. CASE job[p].op = "redis_reset" /\ cut' = [cut EXCEPT ![b] = job[p].row.pw]
    <3>1. b \in Account /\ job[p].row.pw \in Nat
      BY <2>3, Generations
    <3>2. cut'[b] = job[p].row.pw /\ \A a \in Account : a # b => cut'[a] = cut[a]
      BY <2>3, <3>1 DEF SessionType
    <3>3. CutOff(b, job[p].row.pw)
      BY <2>3, <1>2 DEF ResetInv, ResetsRun
    <3>4. \A a \in Account : CutOff(a, cut[a])
      BY DEF ResetInv, CutsHold
    <3> QED
      BY <3>1, <3>2, <3>3, <3>4, <1>4, <1>5
  <2> QED
    BY <2>1, <2>2, <2>3
<1>7. ASSUME NEW q \in Proc, job'[q].op = "redis_reset"
      PROVE  /\ job'[q].row.pw <= acct'[job'[q].a].pw
             /\ job'[q].then = <<"publish">> =>
                  \A a \in Account, n \in Nat :
                    a = job'[q].a /\ n = job'[q].row.pw => CutOff(a, n)'
  <2>1. job'[q] = job[q]
    BY <1>1, <1>3, <1>7
  <2> QED
    BY <2>1, <1>1, <1>5, <1>7 DEF ResetInv, ResetsRun
<1> QED
  BY <1>6, <1>7, ResetNext

(* A reactivation takes back what was promised of the account, and the     *)
(* flag goes by itself only when nothing is left for it to stop.           *)
LEMMA ResetClear ==
    ASSUME SessionType, ResetInv, SessionType',
           \/ \E p \in Proc : clear_user_disabled(p)
           \/ \E a \in Account : FlagExpires(a)
    PROVE  ResetInv'
<1>0. \A a \in Account : acct[a].pw \in Nat /\ cut[a] \in Nat
  BY Generations
<1>1. ASSUME NEW p \in Proc, clear_user_disabled(p) PROVE ResetInv'
  <2>0. PICK b \in Account : b = job[p].a
    BY <1>1, ClearIs
  <2>1. /\ \A q \in Proc : job'[q].op = "redis_reset" =>
             job'[q] = job[q] /\ (job[q].a = b => job[q].then = <<"flag", "publish">>)
        /\ \A q \in Proc : job'[q].op \in {"login", "refresh"} => job'[q] = job[q]
        /\ flag' = [flag EXCEPT ![b] = [on |-> FALSE, before |-> {}]]
        /\ cut' = [cut EXCEPT ![b] = 0] /\ UNCHANGED <<acct, tok>>
    BY <2>0, <1>1, ClearIs
  <2>2. /\ cut'[b] = 0 /\ \A a \in Account : a # b => cut'[a] = cut[a] /\ flag'[a] = flag[a]
    BY <2>1 DEF SessionType
  <2>3. CutOff(b, 0)'
    <3>1. \A s \in Sid : tok'[s].pw \in Nat
      BY AccountAssumption DEF SessionType, TokenRow
    <3>2. \A q \in Proc : job'[q].op \in {"login", "refresh"} => job'[q].row.pw \in Nat
      BY <2>1, Generations
    <3> QED
      BY <3>1, <3>2, <2>1, <1>0 DEF CutOff
  <2>4. ASSUME NEW a \in Account, NEW n \in Nat, a # b, CutOff(a, n) PROVE CutOff(a, n)'
    BY <2>1, <2>2, <2>4, <1>0, CutStays DEF Follows
  <2>5. \A a \in Account, n \in Nat : n = cut'[a] => CutOff(a, n)'
    BY <2>2, <2>3, <2>4 DEF ResetInv, CutsHold
  <2>6. ASSUME NEW q \in Proc, job'[q].op = "redis_reset"
        PROVE  /\ job'[q].row.pw <= acct'[job'[q].a].pw
               /\ job'[q].then = <<"publish">> =>
                    \A a \in Account, n \in Nat :
                      a = job'[q].a /\ n = job'[q].row.pw => CutOff(a, n)'
    <3>1. job'[q] = job[q] /\ (job'[q].then = <<"publish">> => job[q].a # b)
      BY <2>1, <2>6
    <3> QED
      BY <3>1, <2>1, <2>4, <2>6 DEF ResetInv, ResetsRun
  <2> QED
    BY <2>5, <2>6, ResetNext
<1>2. ASSUME NEW b \in Account, FlagExpires(b) PROVE ResetInv'
  <2>1. /\ flag[b].on /\ \A s \in flag[b].before : ~tok[s].access
        /\ \A q \in Proc : ~job[q].old
        /\ flag' = [flag EXCEPT ![b] = [on |-> FALSE, before |-> {}]]
        /\ UNCHANGED <<acct, tok, cut, job>>
    BY <1>2 DEF FlagExpires
  <2>2. \A a \in Account : a # b => flag'[a] = flag[a]
    BY <2>1 DEF SessionType
  <2>3. ASSUME NEW a \in Account, NEW n \in Nat, CutOff(a, n) PROVE CutOff(a, n)'
    BY <2>1, <2>2, <2>3 DEF CutOff
  <2>4. \A a \in Account, n \in Nat : n = cut'[a] => CutOff(a, n)'
    BY <2>1, <2>3 DEF ResetInv, CutsHold
  <2>5. ASSUME NEW q \in Proc, job'[q].op = "redis_reset"
        PROVE  /\ job'[q].row.pw <= acct'[job'[q].a].pw
               /\ job'[q].then = <<"publish">> =>
                    \A a \in Account, n \in Nat :
                      a = job'[q].a /\ n = job'[q].row.pw => CutOff(a, n)'
    BY <2>1, <2>3, <2>5 DEF ResetInv, ResetsRun
  <2> QED
    BY <2>4, <2>5, ResetNext
<1> QED
  BY <1>1, <1>2

(* Every step of the accounts. *)
LEMMA ResetStep ==
    ASSUME SessionType, ResetInv, SessionsNext, SessionType', entry' = entry
    PROVE  ResetInv'
<1>0. /\ job \in [Proc -> JobType] /\ \A q \in Proc : JobOK(job[q])
      /\ \A a \in Account : acct[a].pw \in Nat /\ acct[a].pw <= acct[a].pw
  BY Generations DEF SessionType
<1>1. CASE \E p \in Proc, s \in Sid : LoginCommit(p, s) \/ RefreshCommit(p, s)
  BY <1>1, ResetIssue
<1>2. CASE \/ \E p \in Proc : flag_user_disabled(p) \/ publish_session_revoked(p)
           \/ \E p \in Proc : clear_user_disabled(p)
           \/ \E a \in Account : FlagExpires(a)
  BY <1>2, ResetFlag, ResetPublish, ResetClear
<1>3. ASSUME \A s \in Sid : Follows(tok[s], tok'[s]), UNCHANGED <<cut, flag>>,
             \A a \in Account : acct[a].pw <= acct'[a].pw,
             NEW p \in Proc, \A q \in Proc : q # p => job'[q] = job[q],
             job'[p].op \in {"login", "refresh"} => job'[p].row = acct[job'[p].a],
             job'[p].op = "redis_reset" => /\ job'[p].row.pw <= acct'[job'[p].a].pw
                                           /\ job'[p].then # <<"publish">>
      PROVE  ResetInv'
  <2>1. \A q \in Proc : job'[q].op \in {"login", "refresh"} =>
                          job'[q] = job[q] \/ job'[q].row = acct[job'[q].a]
    BY <1>3
  <2>2. \A q \in Proc : job'[q].op = "redis_reset" =>
                             \/ job'[q] = job[q]
                             \/ /\ job'[q].row.pw <= acct'[job'[q].a].pw
                                /\ job'[q].then # <<"publish">>
    BY <1>3
  <2> QED
    BY <2>1, <2>2, <1>3, ResetQuiet
<1>4. ASSUME NEW p \in Proc, NEW j, Begins(p, j) PROVE ResetInv'
  <2>1. /\ job'[p] = j /\ \A q \in Proc : q # p => job'[q] = job[q]
        /\ j.op # "redis_reset" /\ (j.op \in {"login", "refresh"} => j.row = acct[j.a])
        /\ UNCHANGED <<acct, tok, flag, cut>>
    BY <1>0, <1>4, DoIs DEF Begins, Handlers
  <2> QED
    BY <2>1, <1>0, <1>3 DEF Follows
<1>5. ASSUME NEW p \in Proc, Ends(p) PROVE ResetInv'
  <2>1. /\ job'[p] = Idle /\ \A q \in Proc : q # p => job'[q] = job[q]
        /\ UNCHANGED <<acct, tok, flag, cut>>
    BY <1>0, <1>5, DoIs, IdleIs DEF Ends
  <2> QED
    BY <2>1, <1>0, <1>3, IdleIs DEF Follows
<1>6. ASSUME NEW p \in Proc, Commit(p), \A s \in Sid : Follows(tok[s], tok'[s]) PROVE ResetInv'
  <2> DEFINE a == job[p].a
             r == Written(job[p], acct[a])
  <2>1. /\ a \in Account /\ r \in AccountRow /\ acct[a].pw <= r.pw
        /\ acct' = [acct EXCEPT ![a] = r]
        /\ \A q \in Proc : q # p => job'[q] = job[q]
        /\ \/ job'[p] = Idle
           \/ /\ job'[p].a = a /\ job'[p].row = r
              /\ job'[p].op = IF job[p].op \in Resets THEN "redis_reset" ELSE "redis"
              /\ job[p].op \in Resets => job'[p].then = <<"flag", "publish">>
        /\ UNCHANGED <<flag, cut>>
    BY <1>6, CommitIs
  <2> HIDE DEF r
  <2>2. /\ acct'[a] = r /\ \A b \in Account : b # a => acct'[b] = acct[b]
        /\ r.pw <= r.pw
    BY <2>1, AccountAssumption DEF SessionType, AccountRow
  <2>3. \A b \in Account : acct[b].pw <= acct'[b].pw
    BY <2>1, <2>2, <1>0
  <2>4. <<"flag", "publish">> # <<"publish">>
    OBVIOUS
  <2>5. job'[p].op = "redis_reset" => /\ job'[p].row.pw <= acct'[job'[p].a].pw
                                      /\ job'[p].then # <<"publish">>
    BY <2>1, <2>2, <2>4, IdleIs
  <2>6. job'[p].op \notin {"login", "refresh"}
    BY <2>1, IdleIs
  <2> QED
    BY <2>1, <2>3, <2>5, <2>6, <1>3, <1>6
<1>7. ASSUME NEW p \in Proc, revoke_jti(p), \A s \in Sid : Follows(tok[s], tok'[s]) PROVE ResetInv'
  <2>1. /\ job[p].op \in {"redis", "redis_reset"} /\ Head(job[p].then) = "deny" /\ Rest(p)
        /\ UNCHANGED <<acct, flag, cut>>
    BY <1>7 DEF revoke_jti, Due
  <2>2. job[p].op = "redis"
    <3>1. job[p].op = "redis_reset" => job[p].then \in {<<"flag", "publish">>, <<"publish">>}
      BY <1>0 DEF JobOK
    <3> QED
      BY <3>1, <2>1
  <2>3. job'[p].op \in {"redis", "idle"} /\ \A q \in Proc : q # p => job'[q] = job[q]
    BY <2>1, <2>2, SendIs, IdleIs
  <2> QED
    BY <2>1, <2>3, <1>0, <1>3, <1>7
<1>8. ASSUME \/ \E c, s \in Sid : revoke_session(c, s)
             \/ \E s \in Sid : AccessExpires(s)
             \/ \E a \in Account : forgot_password(a),
             \A s \in Sid : Follows(tok[s], tok'[s])
      PROVE  ResetInv'
  <2>1. UNCHANGED <<flag, cut, job>>
    BY <1>8 DEF revoke_session, AccessExpires, forgot_password
  <2>2. acct' = acct \/ \E a \in Account : acct' = [acct EXCEPT ![a].mail = TRUE]
    BY <1>8 DEF revoke_session, AccessExpires, forgot_password
  <2>3. \A a \in Account : acct'[a].pw = acct[a].pw
    BY <2>2 DEF SessionType, AccountRow
  <2> QED
    BY <2>1, <2>3, <1>0, <1>8, ResetQuiet
<1> QED
  BY <1>1, <1>2, <1>4, <1>5, <1>6, <1>7, <1>8, SessionSteps, SessionsKeepType

(* The platform and the screens touch neither tokens nor flags. *)
LEMMA ResetElsewhere ==
    ASSUME SessionType, ResetInv, SessionType', Keeps(AccountOps), UNCHANGED <<tok, flag, cut>>,
           \A a \in Account : acct[a].pw <= acct'[a].pw
    PROVE  ResetInv'
<1>1. \A q \in Proc : job'[q].op \in {"login", "refresh", "redis_reset"} => job'[q] = job[q]
  BY DEF Keeps, AccountOps
<1> QED
  BY <1>1, ResetQuiet DEF Follows

LEMMA ResetIs ==
    ASSUME SessionType, ResetInv
    PROVE  ResetCutsAccess
<1> SUFFICES ASSUME NEW s \in Sid, tok[s].state # "absent", Known(s)
             PROVE  tok[s].pw >= cut[tok[s].a]
  BY DEF ResetCutsAccess
<1>1. tok[s].a \in Account /\ tok[s].access /\ ~flag[tok[s].a].on
  BY DEF SessionType, Known
<1>2. tok[s].pw \in Nat /\ cut[tok[s].a] \in Nat
  BY <1>1, Generations
<1> QED
  BY <1>1, <1>2 DEF ResetInv, CutsHold, CutOff

-----------------------------------------------------------------------------
(***************************************************************************)
(* Sockets.  Of the sockets of an account between SCARD and SADD, no two   *)
(* are on the same instance; those and the members of the Redis set are    *)
(* never more than the limit and one for each further instance.            *)
(***************************************************************************)
Counted(a) == {c \in Conn : sock[c].stage = "counted" /\ sock[c].a = a}

SocketType == /\ sock \in [Conn -> Socket] /\ conns \in [Account -> SUBSET Conn]
              /\ \A c \in Conn : sock[c].stage # "none" => sock[c].a \in Account
OpenListed == \A c \in Conn : sock[c].stage \in {"open", "closing"} => c \in conns[sock[c].a]
OneCount   == \A c, d \in Conn :
                sock[c].stage = "counted" /\ sock[d].stage = "counted"
                /\ sock[c].a = sock[d].a /\ sock[c].i = sock[d].i => c = d
Within(S)  == /\ IsFiniteSet(S)
              /\ Cardinality(S) <= MAX_CONNECTIONS_PER_USER + Cardinality(Instance) - 1
ListWithin == \A a \in Account : Within(conns[a] \cup Counted(a))

SocketInv == SocketType /\ OpenListed /\ OneCount /\ ListWithin

LEMMA WithinSubset ==
    ASSUME NEW S, NEW T \in SUBSET S, Within(S)
    PROVE  Within(T)
<1>1. /\ IsFiniteSet(S) /\ IsFiniteSet(T) /\ Cardinality(T) <= Cardinality(S)
      /\ Cardinality(S) \in Nat /\ Cardinality(T) \in Nat /\ Cardinality(Instance) \in Nat
      /\ MAX_CONNECTIONS_PER_USER \in Nat
  BY FS_Subset, FS_CardinalityType, ConnAssumption DEF Within
<1> QED
  BY <1>1 DEF Within

(* The lock of the account lets one socket of each instance count. *)
LEMMA WithinCounted ==
    ASSUME NEW S, IsFiniteSet(S), Cardinality(S) < MAX_CONNECTIONS_PER_USER,
           NEW T, NEW at \in [T -> Instance], \A c, d \in T : at[c] = at[d] => c = d
    PROVE  Within(S \cup T)
<1>1. at \in Injection(T, Instance)
  BY DEF Injection, IsInjective
<1>2. IsFiniteSet(T) /\ Cardinality(T) <= Cardinality(Instance)
  BY <1>1, FS_Injection, ConnAssumption
<1>3. /\ IsFiniteSet(S \cup T)
      /\ Cardinality(S \cup T) = Cardinality(S) + Cardinality(T) - Cardinality(S \cap T)
  BY <1>2, FS_Union
<1>4. IsFiniteSet(S \cap T)
  BY FS_Subset, S \cap T \in SUBSET S
<1>5. /\ Cardinality(S) \in Nat /\ Cardinality(T) \in Nat /\ Cardinality(S \cap T) \in Nat
      /\ Cardinality(Instance) \in Nat /\ Cardinality(S \cup T) \in Nat
      /\ MAX_CONNECTIONS_PER_USER \in Nat
  BY <1>2, <1>3, <1>4, FS_CardinalityType, ConnAssumption
<1> QED
  BY <1>2, <1>3, <1>5 DEF Within

(* One socket goes from one stage to another. *)
LEMMA StageIs ==
    ASSUME SocketInv, NEW c \in Conn, sock[c].stage # "none",
           NEW st \in {"authed", "counted", "open", "closing", "closed"}, Stage(c, st)
    PROVE  /\ sock' \in [Conn -> Socket]
           /\ sock'[c].stage = st /\ sock'[c].a = sock[c].a /\ sock'[c].i = sock[c].i
           /\ \A d \in Conn : d # c => sock'[d] = sock[d]
           /\ \A d \in Conn : sock'[d].stage # "none" => sock'[d].a \in Account
           /\ sock[c].a \in Account
<1> DEFINE n == [sock[c] EXCEPT !.stage = st]
<1>1. sock \in [Conn -> Socket] /\ sock' = [sock EXCEPT ![c] = n]
  BY DEF SocketInv, SocketType, Stage, Put
<1>2. n \in Socket /\ n.stage = st /\ n.a = sock[c].a /\ n.i = sock[c].i
  BY <1>1 DEF Socket
<1> HIDE DEF n
<1>3. /\ sock' \in [Conn -> Socket] /\ sock'[c] = n
      /\ \A d \in Conn : d # c => sock'[d] = sock[d]
  BY <1>1, <1>2
<1> QED
  BY <1>2, <1>3 DEF SocketInv, SocketType

(* A step that lets no socket count and adds none to the set. *)
LEMMA SocketsQuiet ==
    ASSUME SocketInv, SocketType',
           \A a \in Account : (conns[a] \cup Counted(a))' \subseteq conns[a] \cup Counted(a),
           \A c \in Conn : sock'[c].stage = "counted" => sock'[c] = sock[c],
           OpenListed'
    PROVE  SocketInv'
<1>1. OneCount'
  <2> SUFFICES ASSUME NEW c \in Conn, NEW d \in Conn, sock'[c].stage = "counted",
                      sock'[d].stage = "counted", sock'[c].a = sock'[d].a, sock'[c].i = sock'[d].i
               PROVE  c = d
    BY DEF OneCount
  <2>1. sock'[c] = sock[c] /\ sock'[d] = sock[d]
    OBVIOUS
  <2> QED
    BY <2>1 DEF SocketInv, OneCount
<1>2. ListWithin'
  <2>1. \A a \in Account : Within(conns[a] \cup Counted(a))
    BY DEF SocketInv, ListWithin
  <2>2. ASSUME NEW a \in Account, NEW S, S = (conns[a] \cup Counted(a))' PROVE Within(S)
    <3>1. S \in SUBSET (conns[a] \cup Counted(a))
      BY <2>2
    <3> QED
      BY <2>1, <3>1, WithinSubset
  <2>3. ASSUME NEW a \in Account PROVE Within(conns[a] \cup Counted(a))'
    <3>1. Within((conns[a] \cup Counted(a))')
      BY <2>2
    <3> QED
      BY <3>1 DEF Within
  <2> QED
    BY <2>3 DEF ListWithin
<1> QED
  BY <1>1, <1>2 DEF SocketInv

(* Every step of the sockets. *)
LEMMA SocketStep ==
    ASSUME SessionType, SocketInv, SocketsNext
    PROVE  SocketInv'
<1>0. /\ sock \in [Conn -> Socket] /\ conns \in [Account -> SUBSET Conn]
      /\ \A c \in Conn : sock[c].stage # "none" => sock[c].a \in Account
      /\ \A c \in Conn : sock[c].stage \in {"open", "closing"} => c \in conns[sock[c].a]
  BY DEF SocketInv, SocketType, OpenListed
<1>1. ASSUME NEW c \in Conn, sock[c].stage # "none", NEW st \in {"closing", "closed"}, Stage(c, st),
             \/ conns' = conns /\ (st = "closing" => sock[c].stage = "open")
             \/ st = "closed" /\ conns' = [conns EXCEPT ![sock[c].a] = @ \ {c}]
      PROVE  SocketInv'
  <2>1. /\ sock' \in [Conn -> Socket]
        /\ sock'[c].stage = st /\ sock'[c].a = sock[c].a
        /\ \A d \in Conn : d # c => sock'[d] = sock[d]
        /\ \A d \in Conn : sock'[d].stage # "none" => sock'[d].a \in Account
    BY <1>1, StageIs
  <2>2. /\ conns' \in [Account -> SUBSET Conn]
        /\ \A a \in Account : conns'[a] \subseteq conns[a] /\ \A d \in conns[a] : d # c => d \in conns'[a]
        /\ st = "closing" => conns' = conns /\ sock[c].stage = "open"
    BY <1>0, <1>1
  <2>3. SocketType'
    BY <2>1, <2>2 DEF SocketType
  <2>4. \A a \in Account : (conns[a] \cup Counted(a))' \subseteq conns[a] \cup Counted(a)
    BY <2>1, <2>2 DEF Counted
  <2>5. OpenListed'
    BY <2>1, <2>2, <1>0 DEF OpenListed
  <2>6. \A d \in Conn : sock'[d].stage = "counted" => sock'[d] = sock[d]
    BY <2>1
  <2> QED
    BY <2>3, <2>4, <2>5, <2>6, SocketsQuiet
<1>2. ASSUME NEW c \in Conn, Heartbeat(c) \/ Disconnect(c) PROVE SocketInv'
  BY <1>1, <1>2 DEF Heartbeat, Disconnect
<1>3. ASSUME NEW c \in Conn, Cleanup(c) PROVE SocketInv'
  BY <1>1, <1>3 DEF Cleanup
<1>4. ASSUME NEW c \in Conn, Count(c) PROVE SocketInv'
  <2> DEFINE b == sock[c].a
  <2>1. /\ sock[c].stage = "authed" /\ LockFree(c) /\ conns' = conns
        /\ Stage(c, IF Cardinality(conns[b]) >= MAX_CONNECTIONS_PER_USER THEN "closed" ELSE "counted")
    BY <1>4 DEF Count
  <2>2. CASE Cardinality(conns[b]) >= MAX_CONNECTIONS_PER_USER
    BY <2>1, <2>2, <1>1
  <2>3. CASE ~(Cardinality(conns[b]) >= MAX_CONNECTIONS_PER_USER)
    <3>1. /\ sock' \in [Conn -> Socket]
          /\ sock'[c].stage = "counted" /\ sock'[c].a = b /\ sock'[c].i = sock[c].i
          /\ \A d \in Conn : d # c => sock'[d] = sock[d]
          /\ \A d \in Conn : sock'[d].stage # "none" => sock'[d].a \in Account
          /\ b \in Account
      BY <2>1, <2>3, StageIs
    <3>2. SocketType'
      BY <3>1, <2>1, <1>0 DEF SocketType
    <3>3. OpenListed'
      BY <3>1, <2>1, <1>0 DEF OpenListed
    <3>4. OneCount'
      <4> SUFFICES ASSUME NEW d \in Conn, NEW e \in Conn, sock'[d].stage = "counted",
                          sock'[e].stage = "counted", sock'[d].a = sock'[e].a,
                          sock'[d].i = sock'[e].i
                   PROVE  d = e
        BY DEF OneCount
      <4>1. CASE d # c /\ e # c
        BY <4>1, <3>1 DEF SocketInv, OneCount
      <4>2. CASE d = c \/ e = c
        BY <4>2, <3>1, <2>1 DEF LockFree
      <4> QED
        BY <4>1, <4>2
    <3>5. ASSUME NEW a \in Account, a # b PROVE Within(conns[a] \cup Counted(a))'
      <4>1. Counted(a)' = Counted(a)
        BY <3>1, <2>1, <3>5 DEF Counted
      <4> QED
        BY <4>1, <2>1 DEF SocketInv, ListWithin, Within
    <3>6. ASSUME NEW S, NEW T, S = conns[b], T = {d \in Conn : sock'[d].stage = "counted" /\ sock'[d].a = b}
          PROVE  Within(S \cup T)
      <4>1. Within(conns[b] \cup Counted(b))
        BY <3>1 DEF SocketInv, ListWithin
      <4>2. S \in SUBSET (conns[b] \cup Counted(b))
        BY <3>6
      <4>3. IsFiniteSet(S)
        BY <4>1, <4>2, WithinSubset DEF Within
      <4>4. Cardinality(S) < MAX_CONNECTIONS_PER_USER
        BY <4>3, <3>6, <2>3, FS_CardinalityType, ConnAssumption
      <4> DEFINE at == [d \in T |-> sock'[d].i]
      <4>5. \A d \in T : sock'[d].i \in Instance
        BY <3>1, <3>6 DEF Socket
      <4>6. at \in [T -> Instance]
        BY <4>5
      <4>7. \A d, e \in T : at[d] = at[e] => d = e
        BY <3>4, <3>6 DEF OneCount
      <4> HIDE DEF at
      <4> QED
        BY <4>3, <4>4, <4>6, <4>7, WithinCounted
    <3>7. ListWithin'
      <4> SUFFICES ASSUME NEW a \in Account PROVE Within(conns[a] \cup Counted(a))'
        BY DEF ListWithin
      <4>1. CASE a # b
        BY <4>1, <3>5
      <4>2. CASE a = b
        <5>1. Within(conns[b] \cup {d \in Conn : sock'[d].stage = "counted" /\ sock'[d].a = b})
          BY <3>6
        <5> HIDE DEF b
        <5>2. (conns[a] \cup Counted(a))'
               = conns[b] \cup {d \in Conn : sock'[d].stage = "counted" /\ sock'[d].a = b}
          BY <4>2, <2>1 DEF Counted
        <5> QED
          BY <5>1, <5>2 DEF Within
      <4> QED
        BY <4>1, <4>2
    <3> QED
      BY <3>2, <3>3, <3>4, <3>7 DEF SocketInv
  <2> QED
    BY <2>2, <2>3
<1>5. ASSUME NEW c \in Conn, Register(c) PROVE SocketInv'
  <2> DEFINE b == sock[c].a
  <2>1. /\ sock[c].stage = "counted" /\ conns' = [conns EXCEPT ![b] = @ \cup {c}]
        /\ Stage(c, "open")
    BY <1>5 DEF Register
  <2>2. /\ sock' \in [Conn -> Socket] /\ b \in Account
        /\ sock'[c].stage = "open" /\ sock'[c].a = b
        /\ \A d \in Conn : d # c => sock'[d] = sock[d]
        /\ \A d \in Conn : sock'[d].stage # "none" => sock'[d].a \in Account
    BY <2>1, StageIs
  <2>3. /\ conns' \in [Account -> SUBSET Conn] /\ conns'[b] = conns[b] \cup {c}
        /\ \A a \in Account : a # b => conns'[a] = conns[a]
    BY <1>0, <2>1, <2>2
  <2>4. SocketType'
    BY <2>2, <2>3 DEF SocketType
  <2>5. c \in Counted(b)
    BY <2>1 DEF Counted
  <2>6. \A a \in Account : (conns[a] \cup Counted(a))' \subseteq conns[a] \cup Counted(a)
    <3> SUFFICES ASSUME NEW a \in Account, NEW d \in (conns[a] \cup Counted(a))'
                 PROVE  d \in conns[a] \cup Counted(a)
      OBVIOUS
    <3>1. CASE d = c
      BY <3>1, <2>1, <2>2, <2>3, <2>5 DEF Counted
    <3>2. CASE d # c
      BY <3>2, <2>2, <2>3 DEF Counted
    <3> QED
      BY <3>1, <3>2
  <2>7. OpenListed'
    BY <2>2, <2>3, <1>0 DEF OpenListed
  <2>8. \A d \in Conn : sock'[d].stage = "counted" => sock'[d] = sock[d]
    BY <2>2
  <2> QED
    BY <2>4, <2>6, <2>7, <2>8, SocketsQuiet
<1>6. ASSUME NEW c \in Conn, NEW n \in Socket, sock' = [sock EXCEPT ![c] = n], conns' = conns,
             n.stage # "counted", n.a \in Account,
             n.stage \in {"open", "closing"} => sock[c].stage = n.stage /\ sock[c].a = n.a
      PROVE  SocketInv'
  <2>1. /\ sock' \in [Conn -> Socket] /\ sock'[c] = n
        /\ \A d \in Conn : d # c => sock'[d] = sock[d]
    BY <1>0, <1>6
  <2>2. SocketType'
    BY <2>1, <1>0, <1>6 DEF SocketType
  <2>3. OpenListed'
    BY <2>1, <1>0, <1>6 DEF OpenListed
  <2>4. \A a \in Account : (conns[a] \cup Counted(a))' \subseteq conns[a] \cup Counted(a)
    BY <2>1, <1>6 DEF Counted
  <2>5. \A d \in Conn : sock'[d].stage = "counted" => sock'[d] = sock[d]
    BY <2>1, <1>6
  <2> QED
    BY <2>2, <2>3, <2>4, <2>5, SocketsQuiet
<1>7. ASSUME NEW c \in Conn, Talk(c) PROVE SocketInv'
  <2> DEFINE n == [sock[c] EXCEPT !.talks = FALSE]
  <2>1. sock[c].stage = "open" /\ sock' = [sock EXCEPT ![c] = n] /\ conns' = conns
    BY <1>7 DEF Talk, Put
  <2>2. n \in Socket /\ n.stage = sock[c].stage /\ n.a = sock[c].a
    BY <1>0 DEF Socket
  <2> HIDE DEF n
  <2> QED
    BY <2>1, <2>2, <1>0, <1>6
<1>8. ASSUME NEW c \in Conn, NEW s \in Sid, NEW i \in entry.up, NEW b \in BOOLEAN,
             notifications_ws(c, s, i, b)
      PROVE  SocketInv'
  <2> DEFINE n == [stage |-> "authed", a |-> tok[s].a, s |-> s,
                   perms |-> acct[tok[s].a].perms, i |-> i, talks |-> b]
  <2>1. tok[s].state # "absent" /\ sock' = [sock EXCEPT ![c] = n] /\ conns' = conns
    BY <1>8 DEF notifications_ws, Put
  <2>2. i \in Instance
    BY MixAssumption DEF SessionType
  <2>3. tok[s].a \in Account /\ acct[tok[s].a].perms \in Grants
    BY <2>1 DEF SessionType, AccountRow
  <2>4. n \in Socket /\ n.stage = "authed" /\ n.a \in Account
    BY <2>2, <2>3 DEF Socket
  <2> HIDE DEF n
  <2> QED
    BY <2>1, <2>4, <1>6
<1>9. ASSUME NEW st \in {"closing", "closed"}, conns' = conns, NEW D \in SUBSET Conn,
             sock' = [c \in Conn |-> IF c \in D THEN [sock[c] EXCEPT !.stage = st] ELSE sock[c]],
             st = "closing" => \A c \in D : sock[c].stage = "open",
             \A c \in D : sock[c].stage # "none"
      PROVE  SocketInv'
  <2> DEFINE m(c) == [sock[c] EXCEPT !.stage = st]
  <2>1. \A c \in Conn : m(c) \in Socket /\ m(c).stage = st /\ m(c).a = sock[c].a
    BY <1>0 DEF Socket
  <2>2. sock' = [c \in Conn |-> IF c \in D THEN m(c) ELSE sock[c]]
    BY <1>9
  <2> HIDE DEF m
  <2>3. /\ sock' \in [Conn -> Socket]
        /\ \A c \in Conn : \/ c \in D /\ sock'[c].stage = st /\ sock'[c].a = sock[c].a
                           \/ c \notin D /\ sock'[c] = sock[c]
    BY <2>1, <2>2, <1>0
  <2>4. SocketType'
    BY <2>3, <1>0, <1>9 DEF SocketType
  <2>5. OpenListed'
    BY <2>3, <1>0, <1>9 DEF OpenListed
  <2>6. \A c \in Conn : sock'[c].stage = "counted" => sock'[c] = sock[c]
    BY <2>3
  <2>7. \A a \in Account : (conns[a] \cup Counted(a))' \subseteq conns[a] \cup Counted(a)
    BY <2>6, <1>9 DEF Counted
  <2> QED
    BY <2>4, <2>5, <2>6, <2>7, SocketsQuiet
<1>10. ASSUME NEW i, NEW a, _close_user_connections(i, a) PROVE SocketInv'
  <2> DEFINE D == {c \in Conn : sock[c].stage = "open" /\ sock[c].a = a /\ sock[c].i = i}
  <2>1. /\ sock' = [c \in Conn |-> IF c \in D THEN [sock[c] EXCEPT !.stage = "closing"] ELSE sock[c]]
        /\ conns' = conns
    BY <1>10 DEF _close_user_connections
  <2>2. D \in SUBSET Conn /\ \A c \in D : sock[c].stage = "open"
    OBVIOUS
  <2> HIDE DEF D
  <2> QED
    BY <2>1, <2>2, <1>9
<1>11. ASSUME NEW i, InstanceStops(i) PROVE SocketInv'
  <2> DEFINE D == {c \in Conn : sock[c].i = i /\ sock[c].stage # "none"}
  <2>1. /\ sock' = [c \in Conn |-> IF c \in D THEN [sock[c] EXCEPT !.stage = "closed"] ELSE sock[c]]
        /\ conns' = conns
    BY <1>11 DEF InstanceStops
  <2>2. D \in SUBSET Conn /\ \A c \in D : sock[c].stage # "none"
    OBVIOUS
  <2> HIDE DEF D
  <2> QED
    BY <2>1, <2>2, <1>9
<1> QED
  BY <1>2, <1>3, <1>4, <1>5, <1>7, <1>8, <1>10, <1>11 DEF SocketsNext

LEMMA SocketsBounded ==
    ASSUME SocketInv
    PROVE  ConnectionsBounded
<1> SUFFICES ASSUME NEW a \in Account,
                    NEW S, S = {c \in Conn : sock[c].stage \in {"open", "closing"} /\ sock[c].a = a}
             PROVE  Within(S)
  BY DEF ConnectionsBounded, Within
<1>1. S \in SUBSET (conns[a] \cup Counted(a))
  BY DEF SocketInv, OpenListed
<1> QED
  BY <1>1, WithinSubset DEF SocketInv, ListWithin

-----------------------------------------------------------------------------
(* The theorems *)

(***************************************************************************)
(* The inductive invariant: what every part relies on.                     *)
(***************************************************************************)
AccessInv == /\ SessionType /\ RotationInv /\ ResetInv
             /\ PlatformInv /\ DeviceInv /\ SocketInv

LEMMA AccessInit ==
    ASSUME Init
    PROVE  AccessInv
<1>1. SessionType
  <2>1. acct \in [Account -> AccountRow] /\ entry \in Mixes
    BY AccountAssumption DEF Init, SessionsInit, AccountRow
  <2>2. tok \in [Sid -> TokenRow] /\ \A s \in Sid : tok[s].state = "absent"
    <3>1. NoToken \in TokenRow /\ NoToken.state = "absent"
      BY AccountAssumption DEF NoToken, TokenRow
    <3> QED
      BY <3>1 DEF Init, SessionsInit
  <2>3. flag \in [Account -> [on : BOOLEAN, before : SUBSET Sid]] /\ cut \in [Account -> 0..MaxPw]
    BY AccountAssumption DEF Init, SessionsInit
  <2>4. job \in [Proc -> JobType] /\ \A q \in Proc : job[q] = Idle
    BY IdleIs DEF Init, SessionsInit
  <2> QED
    BY <2>1, <2>2, <2>3, <2>4, IdleIs DEF SessionType, Handlers
<1>2. RotationInv
  BY DEF Init, SessionsInit, NoToken, RotationInv, Rotated, RotatedOnce
<1>3. ResetInv
  <2>1. \A s \in Sid : tok[s].state = "absent"
    BY DEF Init, SessionsInit, NoToken
  <2>2. \A q \in Proc : job[q].op = "idle"
    BY IdleIs DEF Init, SessionsInit
  <2>3. \A a \in Account : cut[a] = 0 /\ acct[a].pw = 1
    BY DEF Init, SessionsInit
  <2> QED
    BY <2>1, <2>2, <2>3 DEF ResetInv, CutsHold, CutOff, ResetsRun
<1>4. PlatformInv
  <2>1. \A q \in Proc : job[q].op = "idle"
    BY IdleIs DEF Init, SessionsInit
  <2>2. PlatformType
    <3>1. <<>> \in Seq(Nat)
      OBVIOUS
    <3>2. /\ [k \in Code |-> "absent"] \in [Code -> {"absent", "unused", "used", "deleted"}]
          /\ [k \in Code |-> "unused"] \in [Code -> {"absent", "unused", "used", "deleted"}]
      OBVIOUS
    <3>3. admin \in [ver : Nat, on : BOOLEAN, secret : Nat, enrol : BOOLEAN,
                     codes : [Code -> {"absent", "unused", "used", "deleted"}]]
      <4>1. CASE Has("enrol")
        BY <3>2, <4>1 DEF Init, PlatformInit
      <4>2. CASE ~Has("enrol")
        BY <3>2, <4>2 DEF Init, PlatformInit
      <4> QED
        BY <4>1, <4>2
    <3>4. NoPsess \in [state : {"absent", "live", "revoked"}, gen : Nat, vers : SUBSET Nat,
                       by : Code \cup {None}, swaps : Seq(Nat)]
      BY <3>1 DEF NoPsess
    <3> QED
      BY <3>3, <3>4 DEF Init, PlatformInit, PlatformType
  <2>3. \A x \in Psid : psess[x].by = None /\ psess[x].swaps = <<>>
    BY DEF Init, PlatformInit, NoPsess
  <2> QED
    BY <2>1, <2>2, <2>3 DEF PlatformInv, SwapsBehind, ExchangedOnce, CodesMarked, CodesLocked,
                            Redeems, RecoveryOnce
<1>5. DeviceInv
  <2>1. \A q \in Proc : job[q].op = "idle"
    BY IdleIs DEF Init, SessionsInit
  <2>2. DeviceType /\ \A t \in Tablet : tablet[t].by = None
    BY DEF Init, DevicesInit, DeviceType, NoPairing, NoTablet
  <2> QED
    BY <2>1, <2>2 DEF DeviceInv, CodesUsed, CodesHeld, OnePairing, PairedOnce
<1>6. SocketInv
  <2>1. NoSocket \in Socket /\ NoSocket.stage = "none"
    <3> DEFINE i0 == CHOOSE i \in Instance : TRUE
    <3>1. i0 \in Instance
      BY ConnAssumption
    <3> HIDE DEF i0
    <3>2. NoSocket = [stage |-> "none", a |-> None, s |-> None, perms |-> {}, i |-> i0, talks |-> FALSE]
      BY DEF NoSocket, i0
    <3> QED
      BY <3>1, <3>2, AccountAssumption DEF Socket
  <2>2. /\ sock \in [Conn -> Socket] /\ \A c \in Conn : sock[c].stage = "none"
        /\ conns \in [Account -> SUBSET Conn] /\ \A a \in Account : conns[a] = {}
    BY <2>1 DEF Init, SocketsInit
  <2>3. ASSUME NEW a \in Account PROVE Within(conns[a] \cup Counted(a))
    <3>1. conns[a] \cup Counted(a) = {}
      BY <2>2 DEF Counted
    <3>2. /\ Cardinality(Instance) \in Nat /\ MAX_CONNECTIONS_PER_USER \in Nat
          /\ MAX_CONNECTIONS_PER_USER >= 1
      BY FS_CardinalityType, ConnAssumption
    <3>3. 0 <= MAX_CONNECTIONS_PER_USER + Cardinality(Instance) - 1
      BY <3>2
    <3>4. IsFiniteSet({}) /\ Cardinality({}) = 0
      BY FS_EmptySet
    <3> QED
      BY <3>1, <3>3, <3>4 DEF Within
  <2> QED
    BY <2>2, <2>3 DEF SocketInv, SocketType, OpenListed, OneCount, ListWithin
<1> QED
  BY <1>1, <1>2, <1>3, <1>4, <1>5, <1>6 DEF AccessInv

LEMMA AccessStep ==
    ASSUME AccessInv, [Next]_vars
    PROVE  AccessInv'
<1> USE DEF AccessInv
<1>0. entry' = entry
  BY DEF Next, vars
<1>1. ASSUME SessionsNext, UNCHANGED <<socketVars, platformVars, deviceVars>> PROVE AccessInv'
  <2>1. SessionType' /\ RotationInv' /\ PlatformInv'
    BY <1>0, <1>1, SessionsKeepType, RotationStep, SessionsKeepPlatform
  <2>2. ResetInv'
    BY <2>1, <1>0, <1>1, ResetStep
  <2>3. DeviceInv'
    <3>1. UNCHANGED <<pairing, tablet>> /\ DeviceType'
      BY <1>1 DEF deviceVars, DeviceInv, DeviceType
    <3>2. \A q \in Proc : job'[q].op = "pair" => job'[q] = job[q]
      BY <1>1, SessionsKeepOthers DEF Keeps, DeviceOps
    <3> QED
      BY <3>1, <3>2, DevicesQuiet
  <2>4. SocketInv'
    BY <1>1 DEF socketVars, SocketInv, SocketType, OpenListed, OneCount, ListWithin, Counted
  <2> QED
    BY <2>1, <2>2, <2>3, <2>4
<1>2. ASSUME UNCHANGED <<sessionVars, platformVars, deviceVars>>
      PROVE  SessionType' /\ RotationInv' /\ ResetInv' /\ PlatformInv' /\ DeviceInv'
  <2>1. UNCHANGED <<acct, tok, flag, cut, job, admin, psess, pairing, tablet>>
    BY <1>2 DEF sessionVars, platformVars, deviceVars
  <2>2. SessionType'
    BY <2>1, <1>0 DEF SessionType
  <2>3. RotationInv'
    BY <2>1 DEF RotationInv, Rotated, RotatedOnce
  <2>4. ResetInv'
    BY <2>1 DEF ResetInv, CutsHold, CutOff, ResetsRun
  <2>5. PlatformInv'
    BY <2>1 DEF PlatformInv, PlatformType, SwapsBehind, ExchangedOnce, CodesMarked, CodesLocked,
                Redeems, RecoveryOnce
  <2>6. DeviceInv'
    BY <2>1 DEF DeviceInv, DeviceType, CodesUsed, CodesHeld, OnePairing, PairedOnce
  <2> QED
    BY <2>2, <2>3, <2>4, <2>5, <2>6
<1>3. ASSUME SocketsNext, UNCHANGED <<platformVars, deviceVars>> PROVE AccessInv'
  <2>1. UNCHANGED sessionVars
    BY <1>3 DEF SocketsNext, Count, Register, Heartbeat, Disconnect, Talk, Cleanup,
                notifications_ws, InstanceStops, _close_user_connections
  <2> QED
    BY <2>1, <1>2, <1>3, SocketStep
<1>4. ASSUME PlatformNext, UNCHANGED <<socketVars, deviceVars>> PROVE AccessInv'
  <2>1. /\ SessionType' /\ Keeps(AccountOps) /\ Keeps(DeviceOps) /\ UNCHANGED <<tok, flag, cut>>
        /\ \A a \in Account : acct[a].pw <= acct'[a].pw
    BY <1>0, <1>4, PlatformKeepsType
  <2>2. RotationInv'
    BY <2>1 DEF RotationInv, Rotated, RotatedOnce
  <2>3. ResetInv'
    BY <2>1, ResetElsewhere
  <2>4. PlatformInv'
    BY <1>4, PlatformStep
  <2>5. DeviceInv'
    <3>1. UNCHANGED <<pairing, tablet>> /\ DeviceType'
      BY <1>4 DEF deviceVars, DeviceInv, DeviceType
    <3>2. \A q \in Proc : job'[q].op = "pair" => job'[q] = job[q]
      BY <2>1 DEF Keeps, DeviceOps
    <3> QED
      BY <3>1, <3>2, DevicesQuiet
  <2>6. SocketInv'
    BY <1>4 DEF socketVars, SocketInv, SocketType, OpenListed, OneCount, ListWithin, Counted
  <2> QED
    BY <2>1, <2>2, <2>3, <2>4, <2>5, <2>6
<1>5. ASSUME DevicesNext, UNCHANGED <<socketVars, platformVars>> PROVE AccessInv'
  <2>1. /\ DeviceInv' /\ SessionType' /\ Keeps(AccountOps) /\ Keeps(PlatformOps)
        /\ UNCHANGED <<acct, tok, flag, cut>>
    BY <1>0, <1>5, DeviceStep
  <2>2. RotationInv'
    BY <2>1 DEF RotationInv, Rotated, RotatedOnce
  <2>3. ResetInv'
    <3>1. \A a \in Account : acct[a].pw <= acct'[a].pw
      BY <2>1, Generations
    <3> QED
      BY <2>1, <3>1, ResetElsewhere
  <2>4. PlatformInv'
    <3>1. UNCHANGED <<admin, psess>> /\ PlatformType'
      BY <1>5 DEF platformVars, PlatformInv, PlatformType
    <3>2. \A q \in Proc : job'[q].op = "admin_login" => job'[q] = job[q]
      BY <2>1 DEF Keeps, PlatformOps
    <3> QED
      BY <3>1, <3>2, QuietStep
  <2>5. SocketInv'
    BY <1>5 DEF socketVars, SocketInv, SocketType, OpenListed, OneCount, ListWithin, Counted
  <2> QED
    BY <2>1, <2>2, <2>3, <2>4, <2>5
<1>6. ASSUME UNCHANGED vars PROVE AccessInv'
  <2>1. UNCHANGED <<sessionVars, platformVars, deviceVars, socketVars>>
    BY <1>6 DEF vars, sessionVars, platformVars, deviceVars, socketVars
  <2>2. SocketInv'
    BY <2>1 DEF socketVars, SocketInv, SocketType, OpenListed, OneCount, ListWithin, Counted
  <2> QED
    BY <2>1, <2>2, <1>2
<1> QED
  BY <1>1, <1>3, <1>4, <1>5, <1>6 DEF Next

(* The invariant of the composition: what sessions, sockets, platform and  *)
(* screens keep true whatever the others do (SessionType, RotationInv,     *)
(* ResetInv, PlatformInv, DeviceInv, SocketInv).                           *)
THEOREM AccessInvariant == Spec => []AccessInv
<1>1. Init => AccessInv
  BY AccessInit
<1>2. AccessInv /\ [Next]_vars => AccessInv'
  BY AccessStep
<1> QED
  BY <1>1, <1>2, PTL DEF Spec

(* What may be used once is used once: refresh tokens of accounts          *)
(* (refresh_token) and of administrators (refresh_session), recovery codes *)
(* (_verify_login_mfa) and pairing codes (pair_remote), for any number of  *)
(* requests that present them together.                                    *)
THEOREM AccessOneUse == Spec => []OneUse
<1>1. AccessInv => OneUse
  BY DEF AccessInv, RotationInv, PlatformInv, DeviceInv, OneUse
<1> QED
  BY <1>1, AccessInvariant, PTL

(* Once reset_password or admin_reset_password has returned, no access     *)
(* token issued for an older password is accepted, whatever logins and     *)
(* refreshes overlapped it, until an admin reactivates the account.        *)
THEOREM AccessResetCuts == Spec => []ResetCutsAccess
<1>1. AccessInv => ResetCutsAccess
  BY ResetIs DEF AccessInv
<1> QED
  BY <1>1, AccessInvariant, PTL

(* The sockets of an account exceed MAX_CONNECTIONS_PER_USER by at most    *)
(* one for each instance after the first, although _get_user_lock is known *)
(* to one instance only.                                                   *)
THEOREM AccessConnectionsBounded == Spec => []ConnectionsBounded
<1>1. AccessInv => ConnectionsBounded
  BY SocketsBounded DEF AccessInv
<1> QED
  BY <1>1, AccessInvariant, PTL

-----------------------------------------------------------------------------
(***************************************************************************)
(* Support.  A version, a session or an impersonation that is over does    *)
(* not come back, and an impersonation is never created for a session or a *)
(* version that does not exist yet.                                        *)
(***************************************************************************)
SupportType == imp \in [Imp -> [state : {"absent", "live", "ended"},
                                src : Psid \cup {None}, ver : Nat]]

(* x is a session that was opened, and v a version it may have seen. *)
Opened(x, v) == x \in Psid /\ psess[x].state # "absent" /\ v \in Nat /\ v <= admin.ver

Sourced == \A m \in Imp : imp[m].state # "absent" => Opened(imp[m].src, imp[m].ver)
Asking  == \A p \in Proc : job[p].op = "impersonate" => Opened(job[p].s, job[p].row.ver)
SupportInv == SupportType /\ Sourced /\ Asking

(* What a step of the platform does to sessions, to requests and to        *)
(* impersonations.                                                         *)
Forward == /\ admin.ver <= admin'.ver
           /\ \A x \in Psid : psess[x].state # "absent" =>
                /\ psess'[x].state # "absent"
                /\ psess'[x].state = "live" => psess[x].state = "live"
Created(m) == /\ imp[m].state = "absent"
              /\ \E p \in Proc : /\ job[p].op = "impersonate"
                                 /\ imp'[m] = [state |-> "live", src |-> job[p].s,
                                               ver |-> job[p].row.ver]
ImpsForward ==
    /\ imp' = [m \in Imp |-> imp'[m]]
    /\ \A m \in Imp : \/ imp'[m] = imp[m]
                      \/ imp[m].state # "absent" /\ imp'[m] = [imp[m] EXCEPT !.state = "ended"]
                      \/ Created(m)
AskedNow == \A p \in Proc : job'[p].op = "impersonate" =>
    \/ job'[p] = job[p]
    \/ Opened(job'[p].s, job'[p].row.ver)

(* Revoking a row of super_admin_sessions. *)
LEMMA RevokedSession ==
    ASSUME NEW B, NEW S,
           NEW r \in [state : {"absent", "live", "revoked"}, gen : Nat, vers : SUBSET Nat,
                      by : B, swaps : S]
    PROVE  [r EXCEPT !.state = "revoked"].state = "revoked"
OBVIOUS

(* auth_version only grows, and no session that was revoked is live again. *)
LEMMA ForwardIs ==
    ASSUME PlatformInv, PlatformNext
    PROVE  Forward
<1> DEFINE T == [state : {"absent", "live", "revoked"}, gen : Nat, vers : SUBSET Nat,
                 by : Code \cup {None}, swaps : Seq(Nat)]
           A == [ver : Nat, on : BOOLEAN, secret : Nat, enrol : BOOLEAN,
                 codes : [Code -> {"absent", "unused", "used", "deleted"}]]
<1>0. psess \in [Psid -> T] /\ admin \in A /\ admin.ver \in Nat
  BY DEF PlatformInv, PlatformType
<1>r. \A x \in Psid : [psess[x] EXCEPT !.state = "revoked"].state = "revoked"
  BY <1>0, RevokedSession
<1>1. ASSUME admin'.ver = admin.ver, psess' = psess PROVE Forward
  BY <1>0, <1>1 DEF Forward
<1>2. ASSUME NEW x \in Psid, NEW n, psess' = [psess EXCEPT ![x] = n], admin'.ver = admin.ver,
             n.state # "absent", psess[x].state \in {"absent", n.state} \/ n.state = "revoked"
      PROVE  Forward
  <2>1. psess'[x] = n /\ \A y \in Psid : y # x => psess'[y] = psess[y]
    BY <1>0, <1>2
  <2> QED
    BY <2>1, <1>0, <1>2 DEF Forward
<1>3. ASSUME LoginEnrol \/ confirm_mfa \/ \E p \in Proc, fresh \in SUBSET Code : SetupCommit(p, fresh)
      PROVE  Forward
  <2>1. admin'.ver = admin.ver /\ psess' = psess
    BY <1>0, <1>3 DEF LoginEnrol, confirm_mfa, SetupCommit
  <2> QED
    BY <2>1, <1>1
<1>4. ASSUME UNCHANGED <<admin, psess>> PROVE Forward
  BY <1>1, <1>4
<1>5. ASSUME NEW x \in Psid, NEW v, admin_logout(x, v) PROVE Forward
  <2>1. psess' = [psess EXCEPT ![x] = [psess[x] EXCEPT !.state = "revoked"]] /\ admin' = admin
    BY <1>0, <1>5 DEF admin_logout
  <2> QED
    BY <2>1, <1>2, <1>r
<1>6. ASSUME NEW x \in Psid, NEW v, revoke_all_admin_sessions(x, v) PROVE Forward
  <2>1. admin'.ver = admin.ver + 1
    BY <1>0, <1>6 DEF revoke_all_admin_sessions
  <2>2. \A y \in Psid : \/ psess'[y] = psess[y]
                        \/ psess'[y] = [psess[y] EXCEPT !.state = "revoked"]
    BY <1>6 DEF revoke_all_admin_sessions
  <2>3. \A y \in Psid : psess'[y].state \in {psess[y].state, "revoked"}
    BY <2>2, <1>r
  <2> QED
    BY <2>1, <2>3, <1>0 DEF Forward
<1>7. ASSUME PlatformExpires PROVE Forward
  <2>1. ASSUME NEW x \in Psid, psess' = [psess EXCEPT ![x].state = "revoked"], admin' = admin
        PROVE  Forward
    <3>1. psess' = [psess EXCEPT ![x] = [psess[x] EXCEPT !.state = "revoked"]]
      BY <1>0, <2>1
    <3> QED
      BY <3>1, <2>1, <1>2, <1>r
  <2>2. ASSUME NEW x \in Psid, psess[x].state = "live", psess' = [psess EXCEPT ![x].vers = {}],
               admin' = admin
        PROVE  Forward
    <3> DEFINE n == [psess[x] EXCEPT !.vers = {}]
    <3>1. psess' = [psess EXCEPT ![x] = n] /\ n.state = "live"
      BY <1>0, <2>2
    <3> HIDE DEF n
    <3> QED
      BY <3>1, <2>2, <1>2
  <2>3. CASE admin' = [admin EXCEPT !.enrol = FALSE] /\ UNCHANGED psess
    BY <2>3, <1>0, <1>1
  <2> QED
    BY <1>7, <1>4, <2>1, <2>2, <2>3 DEF PlatformExpires
<1>8. ASSUME NEW p \in Proc, NEW x \in Psid, AdminLoginCommit(p, x) PROVE Forward
  <2> DEFINE n == [NoPsess EXCEPT !.state = "live", !.gen = 1, !.vers = {job[p].row.ver},
                                  !.by = job[p].s]
  <2>1. psess' = [psess EXCEPT ![x] = n] /\ psess[x].state = "absent"
    BY <1>8 DEF AdminLoginCommit, NextPsid
  <2>2. n.state = "live"
    BY DEF NoPsess
  <2>3. admin'.ver = admin.ver
    BY <1>0, <1>8 DEF AdminLoginCommit
  <2> HIDE DEF n
  <2> QED
    BY <2>1, <2>2, <2>3, <1>2
<1>9. ASSUME NEW p \in Proc, RefreshSessionCommit(p) PROVE Forward
  <2> DEFINE x == job[p].s
             n == [psess[x] EXCEPT !.gen = @ + 1, !.vers = @ \cup {job[p].row.ver},
                                   !.swaps = Append(@, Presented(p))]
  <2>1. admin' = admin
    BY <1>9 DEF RefreshSessionCommit
  <2>2. CASE psess' = psess
    BY <2>1, <2>2, <1>4
  <2>3. CASE psess' # psess
    <3>1. /\ psess' = [psess EXCEPT ![x].gen = @ + 1, ![x].vers = @ \cup {job[p].row.ver},
                                    ![x].swaps = Append(@, Presented(p))]
      BY <1>9, <2>3 DEF RefreshSessionCommit
    <3>2. x \in Psid
      BY <2>3, <3>1, <1>0
    <3>3. \A y \in Psid : psess'[y].state = psess[y].state
      BY <3>1, <3>2, <1>0
    <3> QED
      BY <3>3, <2>1, <1>0 DEF Forward
  <2> QED
    BY <2>2, <2>3
<1>10. ASSUME NEW p \in Proc,
              \/ setup_mfa(p) \/ CloseCommit(p) \/ \E m \in Imp : ImpersonateCommit(p, m)
              \/ \E k : admin_login(p, k)
              \/ \E x, v : \/ refresh_session(p, x, v) \/ impersonate(p, x, v)
                           \/ \E b : suspend_tenant(p, x, v, b)
       PROVE  Forward
  <2>1. UNCHANGED <<admin, psess>>
    BY <1>10 DEF setup_mfa, CloseCommit, ImpersonateCommit, admin_login, refresh_session,
                 impersonate, suspend_tenant
  <2> QED
    BY <2>1, <1>4
<1>11. ASSUME \/ \E m \in Imp : end_impersonation(m)
              \/ \E x, v, a : reset_tenant_user_password(x, v, a)
       PROVE  Forward
  BY <1>4, <1>11 DEF end_impersonation, reset_tenant_user_password
<1> HIDE DEF T, A
<1> QED
  BY <1>3, <1>5, <1>6, <1>7, <1>8, <1>9, <1>10, <1>11 DEF PlatformNext

(* An impersonation is created, or ends. *)
LEMMA ImpsForwardIs ==
    ASSUME SupportType, PlatformNext
    PROVE  ImpsForward
<1>1. ASSUME UNCHANGED imp PROVE ImpsForward
  BY <1>1 DEF ImpsForward, SupportType
<1>2. ASSUME NEW m \in Imp, imp[m].state = "live", imp' = [imp EXCEPT ![m].state = "ended"]
      PROVE  ImpsForward
  <2>1. /\ imp'[m] = [imp[m] EXCEPT !.state = "ended"]
        /\ \A n \in Imp : n # m => imp'[n] = imp[n]
    BY <1>2 DEF SupportType
  <2> QED
    BY <2>1, <1>2 DEF ImpsForward, SupportType
<1>3. ASSUME PlatformExpires PROVE ImpsForward
  BY <1>1, <1>2, <1>3 DEF PlatformExpires
<1>4. ASSUME NEW m \in Imp, end_impersonation(m) PROVE ImpsForward
  BY <1>2, <1>4 DEF end_impersonation, ImpAdmits, ImpKnown, ImpValid
<1>5. ASSUME NEW p \in Proc, NEW m \in Imp, ImpersonateCommit(p, m) PROVE ImpsForward
  <2>1. /\ job[p].op = "impersonate" /\ imp[m].state = "absent"
        /\ imp' = [imp EXCEPT ![m] = [state |-> "live", src |-> job[p].s, ver |-> job[p].row.ver]]
    BY <1>5 DEF ImpersonateCommit, NextImp
  <2>2. /\ imp'[m] = [state |-> "live", src |-> job[p].s, ver |-> job[p].row.ver]
        /\ \A n \in Imp : n # m => imp'[n] = imp[n]
    BY <2>1 DEF SupportType
  <2> QED
    BY <2>1, <2>2 DEF ImpsForward, Created, SupportType
<1> QED
  BY <1>1, <1>3, <1>4, <1>5
  DEF PlatformNext, LoginEnrol, confirm_mfa, setup_mfa, RefreshSessionCommit, CloseCommit,
      SetupCommit, admin_login, AdminLoginCommit, refresh_session, admin_logout,
      revoke_all_admin_sessions, impersonate, suspend_tenant, reset_tenant_user_password

(* A request for an impersonation starts from a live session and the       *)
(* version of now (get_current_user asked validate_super_admin_session).   *)
LEMMA AskedIs ==
    ASSUME SessionType, PlatformInv, PlatformNext
    PROVE  AskedNow
<1>0. job \in [Proc -> JobType] /\ admin.ver \in Nat
  BY DEF SessionType, PlatformInv, PlatformType
<1>1. ASSUME NEW p \in Proc, NEW j, Do(p, j),
             j.op = "impersonate" => Opened(j.s, j.row.ver)
      PROVE  AskedNow
  <2>1. job'[p] = j /\ \A q \in Proc : q # p => job'[q] = job[q]
    BY <1>0, <1>1 DEF Do
  <2> QED
    BY <2>1, <1>1 DEF AskedNow
<1>2. ASSUME UNCHANGED job PROVE AskedNow
  BY <1>2 DEF AskedNow
<1>3. ASSUME NEW p \in Proc, NEW x \in Psid, NEW v, impersonate(p, x, v) PROVE AskedNow
  <2> DEFINE j == [Idle EXCEPT !.op = "impersonate", !.s = x, !.row = [ver |-> v]]
  <2>1. Do(p, j) /\ psess[x].state = "live" /\ v = admin.ver
    BY <1>3 DEF impersonate, PlatformKnown
  <2>2. j.s = x /\ j.row.ver = v
    BY DEF Idle
  <2>3. Opened(j.s, j.row.ver)
    BY <2>1, <2>2, <1>0 DEF Opened
  <2> HIDE DEF j
  <2> QED
    BY <2>1, <2>3, <1>1
<1>4. ASSUME NEW p \in Proc, NEW j, Do(p, j), j.op # "impersonate" PROVE AskedNow
  BY <1>1, <1>4
<1>5. ASSUME NEW p \in Proc,
             \/ setup_mfa(p) \/ \E k : admin_login(p, k) \/ \E x, g : refresh_session(p, x, g)
             \/ \E x, v, b : suspend_tenant(p, x, v, b)
      PROVE  AskedNow
  BY <1>4, <1>5 DEF setup_mfa, admin_login, refresh_session, suspend_tenant, Idle
<1>6. ASSUME NEW p \in Proc,
             \/ RefreshSessionCommit(p) \/ CloseCommit(p)
             \/ \E fresh \in SUBSET Code : SetupCommit(p, fresh)
             \/ \E m \in Imp : ImpersonateCommit(p, m)
             \/ \E x \in Psid : AdminLoginCommit(p, x)
      PROVE AskedNow
  <2>1. Do(p, Idle)
    BY <1>6 DEF RefreshSessionCommit, CloseCommit, SetupCommit, ImpersonateCommit, AdminLoginCommit
  <2> QED
    BY <2>1, <1>4, IdleIs
<1>7. ASSUME \/ LoginEnrol \/ confirm_mfa \/ PlatformExpires
             \/ \E m \in Imp : end_impersonation(m)
             \/ \E x, v : \/ admin_logout(x, v) \/ revoke_all_admin_sessions(x, v)
                          \/ \E a : reset_tenant_user_password(x, v, a)
      PROVE AskedNow
  BY <1>2, <1>7 DEF LoginEnrol, confirm_mfa, PlatformExpires, end_impersonation, admin_logout,
                    revoke_all_admin_sessions, reset_tenant_user_password
<1> QED
  BY <1>3, <1>5, <1>6, <1>7 DEF PlatformNext

(* Where nothing of this moves. *)
LEMMA SupportElsewhere ==
    ASSUME PlatformInv, SupportType, UNCHANGED platformVars, Keeps(PlatformOps)
    PROVE  Forward /\ ImpsForward /\ AskedNow
<1>1. admin.ver \in Nat
  BY DEF PlatformInv, PlatformType
<1> QED
  BY <1>1 DEF Forward, ImpsForward, AskedNow, platformVars, Keeps, PlatformOps, SupportType

(* Every step of the system. *)
LEMMA SupportSteps ==
    ASSUME AccessInv, SupportType, [Next]_vars
    PROVE  Forward /\ ImpsForward /\ AskedNow
<1> USE DEF AccessInv
<1>0. entry' = entry
  BY DEF Next, vars
<1>1. ASSUME SessionsNext, UNCHANGED platformVars PROVE Forward /\ ImpsForward /\ AskedNow
  BY <1>1, SessionsKeepOthers, SupportElsewhere
<1>2. ASSUME UNCHANGED job, UNCHANGED platformVars PROVE Forward /\ ImpsForward /\ AskedNow
  BY <1>2, SupportElsewhere DEF Keeps
<1>3. ASSUME SocketsNext, UNCHANGED platformVars PROVE Forward /\ ImpsForward /\ AskedNow
  <2>1. UNCHANGED job
    BY <1>3 DEF SocketsNext, Count, Register, Heartbeat, Disconnect, Talk, Cleanup,
                notifications_ws, InstanceStops, _close_user_connections, sessionVars
  <2> QED
    BY <2>1, <1>2, <1>3
<1>4. ASSUME PlatformNext PROVE Forward /\ ImpsForward /\ AskedNow
  BY <1>4, ForwardIs, ImpsForwardIs, AskedIs
<1>5. ASSUME DevicesNext, UNCHANGED platformVars PROVE Forward /\ ImpsForward /\ AskedNow
  BY <1>0, <1>5, DeviceStep, SupportElsewhere
<1>6. ASSUME UNCHANGED vars PROVE Forward /\ ImpsForward /\ AskedNow
  BY <1>2, <1>6 DEF vars, platformVars
<1> QED
  BY <1>1, <1>3, <1>4, <1>5, <1>6 DEF Next

LEMMA SupportStep ==
    ASSUME AccessInv, AccessInv', SupportInv, [Next]_vars
    PROVE  SupportInv'
<1>1. Forward /\ ImpsForward /\ AskedNow
  BY SupportSteps DEF SupportInv
<1>2. admin.ver \in Nat /\ admin'.ver \in Nat
  BY DEF AccessInv, PlatformInv, PlatformType
<1>3. \A x, v : Opened(x, v) =>
        x \in Psid /\ psess'[x].state # "absent" /\ v \in Nat /\ v <= admin'.ver
  BY <1>1, <1>2 DEF Opened, Forward
<1>4. ASSUME NEW m \in Imp
      PROVE  /\ imp'[m] \in [state : {"absent", "live", "ended"}, src : Psid \cup {None}, ver : Nat]
             /\ imp'[m].state # "absent" => Opened(imp[m].src, imp[m].ver)'
  <2>1. /\ imp[m] \in [state : {"absent", "live", "ended"}, src : Psid \cup {None}, ver : Nat]
        /\ imp[m].state # "absent" => Opened(imp[m].src, imp[m].ver)
    BY DEF SupportInv, SupportType, Sourced
  <2>2. CASE imp'[m] = imp[m]
    BY <2>1, <2>2, <1>3 DEF Opened
  <2>3. CASE imp[m].state # "absent" /\ imp'[m] = [imp[m] EXCEPT !.state = "ended"]
    <3>1. /\ imp'[m] \in [state : {"absent", "live", "ended"}, src : Psid \cup {None}, ver : Nat]
          /\ imp'[m].src = imp[m].src /\ imp'[m].ver = imp[m].ver
      BY <2>1, <2>3
    <3> QED
      BY <2>1, <2>3, <3>1, <1>3 DEF Opened
  <2>4. CASE Created(m)
    <3>1. PICK p \in Proc : /\ job[p].op = "impersonate"
                            /\ imp'[m] = [state |-> "live", src |-> job[p].s, ver |-> job[p].row.ver]
      BY <2>4 DEF Created
    <3>2. Opened(job[p].s, job[p].row.ver)
      BY <3>1 DEF SupportInv, Asking
    <3>3. job[p].s \in Psid /\ job[p].row.ver \in Nat
      BY <3>2 DEF Opened
    <3> QED
      BY <3>1, <3>2, <3>3, <1>3 DEF Opened
  <2> QED
    BY <1>1, <2>2, <2>3, <2>4 DEF ImpsForward
<1>5. SupportType' /\ Sourced'
  BY <1>1, <1>4 DEF SupportType, Sourced, ImpsForward
<1>6. Asking'
  <2>1. ASSUME NEW p \in Proc, job'[p].op = "impersonate"
        PROVE  Opened(job'[p].s, job'[p].row.ver)
    BY <2>1, <1>1 DEF AskedNow, SupportInv, Asking
  <2> QED
    BY <2>1, <1>3 DEF Asking, Opened
<1> QED
  BY <1>5, <1>6 DEF SupportInv

(* The accounts' and the platform's invariants hold at the start with no   *)
(* impersonation and no request.                                           *)
LEMMA SupportInit ==
    ASSUME Init
    PROVE  SupportInv
<1>1. \A q \in Proc : job[q].op = "idle"
  BY IdleIs DEF Init, SessionsInit
<1>2. imp = [m \in Imp |-> NoImp]
  BY DEF Init, PlatformInit
<1> QED
  BY <1>1, <1>2 DEF SupportInv, SupportType, Sourced, Asking, NoImp

(* What ends an impersonation ends it for good, whatever refreshes, logins *)
(* and impersonations of the administrator were under way (logout,         *)
(* revoke_all_sessions, end_impersonation, refresh_session).               *)
THEOREM AccessImpersonationOver == Spec => ImpersonationOver
<1>1. Init => AccessInv /\ SupportInv
  BY AccessInit, SupportInit
<1>2. AccessInv /\ SupportInv /\ [Next]_vars => AccessInv' /\ SupportInv'
  BY AccessStep, SupportStep
<1>3. ASSUME AccessInv, SupportInv, [Next]_vars, NEW m \in Imp, imp[m].state # "absent", ~ImpValid(m)
      PROVE  ~ImpValid(m)'
  <2>1. Forward /\ ImpsForward
    BY <1>3, SupportSteps DEF SupportInv
  <2>2. Opened(imp[m].src, imp[m].ver) /\ admin.ver \in Nat
    BY <1>3 DEF SupportInv, Sourced, AccessInv, PlatformInv, PlatformType
  <2>3. admin'.ver \in Nat
    BY <1>3, AccessStep DEF AccessInv, PlatformInv, PlatformType
  <2>4. \/ imp'[m].state = "ended"
        \/ /\ imp'[m] = imp[m]
    <3>1. imp[m] \in [state : {"absent", "live", "ended"}, src : Psid \cup {None}, ver : Nat]
      BY <1>3 DEF SupportInv, SupportType
    <3> QED
      BY <3>1, <2>1, <1>3 DEF ImpsForward, Created
  <2>5. CASE imp'[m].state = "ended"
    BY <2>5 DEF ImpValid
  <2>6. CASE imp'[m] = imp[m]
    <3>1. imp[m].ver # admin.ver => imp[m].ver # admin'.ver
      BY <2>1, <2>2, <2>3 DEF Forward, Opened
    <3>2. psess[imp[m].src].state # "live" => psess'[imp[m].src].state # "live"
      BY <2>1, <2>2 DEF Forward, Opened
    <3> QED
      BY <2>6, <3>1, <3>2, <1>3 DEF ImpValid
  <2> QED
    BY <2>4, <2>5, <2>6
<1>4. AccessInv /\ SupportInv /\ [Next]_vars =>
        [\A m \in Imp : imp[m].state # "absent" /\ ~ImpValid(m) => ~ImpValid(m)']_platformVars
  BY <1>3
<1> QED
  BY <1>1, <1>2, <1>4, PTL DEF Spec, ImpersonationOver
=============================================================================
