------------------------------ MODULE Tenants ------------------------------
(***************************************************************************)
(* The schemas of the tenants through the life of the program: `alembic    *)
(* upgrade' and `alembic downgrade' (alembic/env.py) take every schema     *)
(* from one revision to the next, provision_tenant                         *)
(* (core/tenancy/provisioning.py) creates a schema from the models of the  *)
(* code that is running, and a deployment changes that code.               *)
(*                                                                         *)
(* The code of a release is named by the revisions it was released with.   *)
(* The models of the present release are in the repository: TenantModels.  *)
(* Those of an earlier one are not; they are taken to have been what the   *)
(* revisions of that release lead to.  Tenants are followed from revision  *)
(* 0004 on: 0003 and part of 0004 change public only.                      *)
(*                                                                         *)
(* Every command is one transaction: one that fails changes nothing.       *)
(***************************************************************************)
EXTENDS Models, Naturals, FiniteSets

CONSTANTS
    Tenant,
    Lag,       \* bound: revisions between the code and the database
    InStep     \* TRUE: no tenant is created while a deployment is under way

ASSUME LagAssumption == Lag \in Nat /\ InStep \in BOOLEAN

VARIABLES
    applied,   \* alembic_version, and all that it descends from
    code,      \* the revisions that the running code was released with
    schema,    \* per tenant: the objects of its schema, {} when it has none
    public,    \* the objects of public
    menus      \* tenants that have sold a menu

vars == <<applied, code, schema, public, menus>>

Ids     == {r.id : r \in Revisions}
Present == {t \in Tenant : schema[t] # {}}

(* The tables that revision 0002 describes and provisioning of that time   *)
(* put into a tenant, with the columns of 0003 and 0004.                   *)
Baseline ==
         (R0002.public \ Tables({"product_stock"}))
    \cup Cols("refresh_tokens", {"token_lookup"})
    \cup Cols("users", {"email_verification_expires_at",
                        "email_verification_token", "email_verified_at"})

Of(s)       == {r \in Revisions : r.id \in s}
Migrated(s) == (Baseline \cup UNION {r.add : r \in Of(s)})
                   \ UNION {r.drop : r \in Of(s)}
Released(s) == IF s = Ids THEN TenantModels ELSE Migrated(s)

-----------------------------------------------------------------------------
Ready(r) == r.id \notin applied /\ r.parents \subseteq applied
Fits(r)  == /\ \A t \in Present : schema[t] \cap r.strict = {}
            /\ public \cap r.publicStrict = {}

Close(a, c) == Cardinality(a \ c) <= Lag /\ Cardinality(c \ a) <= Lag

(* run_migrations_online, for the next revision. *)
upgrade(r) ==
    /\ Ready(r) /\ Fits(r)
    /\ applied' = applied \cup {r.id} /\ Close(applied', code)
    /\ schema' = [t \in Tenant |->
                    IF t \in Present THEN (schema[t] \cup r.add) \ r.drop
                                     ELSE {}]
    /\ public' = public \cup r.public
    /\ UNCHANGED <<code, menus>>

(* haccp_p1 raises, 0081 when there is a row that it could not keep. *)
Refuses(r) == r.forward \/ (r.id = "0081" /\ menus # {})

downgrade(r) ==
    /\ r.id \in applied /\ ~Refuses(r)
    /\ \A c \in Of(applied) : r.id \notin c.parents
    /\ applied' = applied \ {r.id} /\ Close(applied', code)
    /\ schema' = [t \in Tenant |->
                    IF t \in Present THEN (schema[t] \ r.undo) \cup r.drop
                                     ELSE {}]
    /\ public' = public \ r.public
    /\ UNCHANGED <<code, menus>>

(* startCommand: `alembic upgrade head', and then the code. *)
start ==
    /\ code # applied /\ code' = applied
    /\ UNCHANGED <<applied, schema, public, menus>>

(* TENANT_EXISTS, create_tenant_schema_on and create_all, in one           *)
(* transaction: register and create_tenant.                                *)
provision_tenant(t) ==
    /\ t \notin Present /\ "0004" \in code
    /\ InStep => code = applied
    /\ schema' = [schema EXCEPT ![t] = Released(code)]
    /\ UNCHANGED <<applied, code, public, menus>>

(* A menu is ordered: order_items.item_type is not "product" any more. *)
order_menu(t) ==
    /\ t \in Present \ menus /\ "0081" \in code
    /\ <<"order_items", "item_type">> \in schema[t]
    /\ menus' = menus \cup {t}
    /\ UNCHANGED <<applied, code, schema, public>>

Init == /\ applied = {} /\ code = {} /\ public = {} /\ menus = {}
        /\ schema = [t \in Tenant |-> {}]

Next == \/ \E r \in Revisions : upgrade(r) \/ downgrade(r)
        \/ start
        \/ \E t \in Tenant : provision_tenant(t) \/ order_menu(t)

Spec == Init /\ [][Next]_vars

-----------------------------------------------------------------------------
(* A tenant has the structure of the revision the database is at, whenever *)
(* it was created, whichever of the two branches after 0078 came first and *)
(* however often revisions were taken back; at the last revision that is   *)
(* the structure provision_tenant creates, and public holds the tables of  *)
(* the platform.                                                           *)
SchemaFollowsRevision ==
    /\ \A t \in Present : schema[t] = Released(applied)
    /\ applied = Ids => PublicModels \subseteq public

(* No tenant stands in the way of a revision: one schema that has already  *)
(* what the revision creates rolls the migration of all of them back.      *)
NeverBlocked == \A r \in Revisions : Ready(r) => Fits(r)

=============================================================================
