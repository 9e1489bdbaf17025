--------------------------- MODULE Organizations ---------------------------
(***************************************************************************)
(* Provisioning of organizations: the row in public.organizations, the     *)
(* schema of the tenant and its first user (register in api/auth.py,       *)
(* create_organization, delete_organization and approve_waitlist in        *)
(* api/admin.py, services/tenant.py), the shared schema of personal users, *)
(* and the setup of the platform owner.                                    *)
(*                                                                         *)
(* A request commits several times; between two commits others run, and    *)
(* the backend may stop.  Migrations block the event loop, but not before  *)
(* the schema has been committed.  A request that is refused at its first  *)
(* checks changes nothing and has no step.                                 *)
(***************************************************************************)
EXTENDS Naturals, FiniteSets

CONSTANTS
  Requests,    \* requests that may be under way at the same time
  Keys,        \* organization keys; the schema of k is tenant_k
  BadKeys,     \* keys whose schema name validate_schema_name refuses
  Domains,     \* domains of email addresses
  KeyOf,       \* key made from a domain: get_org_key_from_email
  Individual,  \* the key "individual": its schema is also the shared one
  None,
  MaxOrgs      \* bound: organization rows ever inserted

ASSUME OrganizationsAssumption ==
  /\ BadKeys \subseteq Keys
  /\ Individual \in Keys \ BadKeys
  /\ None \notin Keys \cup Domains
  /\ KeyOf \in [Domains -> Keys]
  /\ MaxOrgs \in Nat

VARIABLES
  org,        \* org[k]: id and domain of the row with org_key k, or None
  schema,     \* schema[k]: "none", "empty" (created) or "migrated"
  users,      \* users[k]: domains whose address has an account in tenant_k
  ready,      \* _individual_schema_ready of this process
  platform,   \* rows in public.platform_users
  req,        \* req[q]: a request that has passed its checks, or None
  inserted,   \* organization rows inserted so far
  cut,        \* history: keys whose provisioning was cut short or overtaken
              \* by a deletion
  spoilt,     \* history: the shared schema was left without migrations, or
              \* dropped while the flag was set or about to be
  crossed     \* history: two setups of the platform owner overlapped

vars == <<org, schema, users, ready, platform, req, inserted, cut, spoilt, crossed>>

Request == [op : {"org", "ensure", "setup", "delete"}, key : Keys \cup {None},
            domain : Domains \cup {None}, id : 0..MaxOrgs,
            at : {"checked", "found", "inserted", "created", "migrated", "failed"}]

Organization == [id : 1..MaxOrgs, domain : Domains]

ASSUME RecordsAssumption == None \notin Request /\ None \notin Organization

\* Types, and the unique constraints: a key has one row by the shape of org,
\* a domain has one as well.
TypeOK ==
  /\ org \in [Keys -> Organization \cup {None}]
  /\ \A j, k \in Keys :
       org[j] # None /\ org[k] # None /\ org[j].domain = org[k].domain => j = k
  /\ schema \in [Keys -> {"none", "empty", "migrated"}]
  /\ users \in [Keys -> SUBSET Domains]
  /\ ready \in BOOLEAN
  /\ platform \in Nat
  /\ req \in [Requests -> Request \cup {None}]
  /\ inserted \in 0..MaxOrgs
  /\ cut \subseteq Keys
  /\ spoilt \in BOOLEAN
  /\ crossed \in BOOLEAN

Init ==
  /\ org = [k \in Keys |-> None]
  /\ schema = [k \in Keys |-> "none"]
  /\ users = [k \in Keys |-> {}]
  /\ ready = FALSE
  /\ platform = 0
  /\ req = [q \in Requests |-> None]
  /\ inserted = 0
  /\ cut = {}
  /\ spoilt = FALSE
  /\ crossed = FALSE

\* A request as its checks leave it.
Asked(op, key, domain) ==
  [op |-> op, key |-> key, domain |-> domain, id |-> 0, at |-> "checked"]

\* Request q, idle so far, has passed its checks and goes on as r.
Admit(q, r) ==
  /\ req[q] = None
  /\ req' = [req EXCEPT ![q] = r]
  /\ UNCHANGED <<org, schema, users, ready, platform, inserted, cut, spoilt>>

At(q, op, at) == req[q] # None /\ req[q].op = op /\ req[q].at = at

Goto(q, at) == req' = [req EXCEPT ![q].at = at]

Finish(q) == req' = [req EXCEPT ![q] = None]

\* Request q has committed the row of an organization k and is not done.
Provisions(q, k) ==
  req[q] # None /\ req[q].op = "org" /\ req[q].key = k /\ req[q].at # "checked"

\* Request q has created the shared schema, or found it created, and has not
\* migrated it.
OnSharedSchema(q) ==
  req[q] # None /\ req[q].key = Individual /\ req[q].at \in {"created", "failed"}

\* Request q will set the flag unless the migrations fail.
WillBeReady(q) ==
  req[q] # None /\ req[q].op = "ensure" /\ req[q].at \in {"found", "created", "migrated"}

\* What request q leaves half done when it stops where it is.
HalfDone(q) == {k \in Keys : Provisions(q, k)}

LeavesEmpty(q) == OnSharedSchema(q) /\ schema[Individual] = "empty"

-----------------------------------------------------------------------------
(***************************************************************************)
(* Checks of the endpoints.                                                *)
(***************************************************************************)

\* The key is derived from the address and must be new.  The key "individual"
\* is that of a personal address: no organization is made for it.
register(q) ==
  \E d \in Domains :
    /\ KeyOf[d] # Individual
    /\ org[KeyOf[d]] = None
    /\ Admit(q, Asked("org", KeyOf[d], d))
    /\ UNCHANGED crossed

\* The platform owner chooses key and domain; both must be new.
create_organization(q) ==
  \E k \in Keys \ BadKeys, d \in Domains :
    /\ org[k] = None
    /\ \A j \in Keys : org[j] # None => org[j].domain # d
    /\ Admit(q, Asked("org", k, d))
    /\ UNCHANGED crossed

\* The key is made from the name on the waitlist, which may be too long for a
\* schema.  When the key or the domain is taken the key gets a random suffix;
\* two such rows raise.
approve_waitlist(q) ==
  \E name \in Keys, d \in Domains :
    LET taken == {j \in Keys : org[j] # None /\ (j = name \/ org[j].domain = d)}
        suffixed == {j \in Keys \ {name, Individual} : name \in BadKeys => j \in BadKeys}
    IN
    /\ Cardinality(taken) <= 1
    /\ \E k \in (IF taken = {} THEN {name} ELSE suffixed) : Admit(q, Asked("org", k, d))
    /\ UNCHANGED crossed

-----------------------------------------------------------------------------
(***************************************************************************)
(* Provisioning, one commit after another.                                 *)
(***************************************************************************)

\* Mutant of InsertOrganization: org_key is a unique column, domain is not.
InsertUnchecked(q) ==
  LET r == req[q] IN
  /\ At(q, "org", "checked")
  /\ inserted < MaxOrgs
  /\ IF org[r.key] = None
     THEN /\ inserted' = inserted + 1
          /\ org' = [org EXCEPT ![r.key] = [id |-> inserted + 1, domain |-> r.domain]]
          /\ req' = [req EXCEPT ![q].id = inserted + 1, ![q].at = "inserted"]
     ELSE Finish(q) /\ UNCHANGED <<org, inserted>>
  /\ UNCHANGED <<schema, users, ready, platform, cut, spoilt, crossed>>

\* The row is committed; a key or a domain that has been taken meanwhile
\* violates a unique constraint and the request fails.
InsertOrganization(q) ==
  LET r == req[q]
      unique == org[r.key] = None /\ \A j \in Keys : org[j] # None => org[j].domain # r.domain
  IN
  /\ At(q, "org", "checked")
  /\ inserted < MaxOrgs
  /\ IF unique
     THEN /\ inserted' = inserted + 1
          /\ org' = [org EXCEPT ![r.key] = [id |-> inserted + 1, domain |-> r.domain]]
          /\ req' = [req EXCEPT ![q].id = inserted + 1, ![q].at = "inserted"]
     ELSE Finish(q) /\ UNCHANGED <<org, inserted>>
  /\ UNCHANGED <<schema, users, ready, platform, cut, spoilt, crossed>>

\* CREATE SCHEMA IF NOT EXISTS is committed.  When the name is refused, or
\* the statement fails, the handler of the request raises as well: its own
\* check refuses the name, or the aborted transaction refuses its DROP.  The
\* row stays.
create_tenant_schema(q) ==
  LET k == req[q].key IN
  /\ At(q, "org", "inserted") \/ At(q, "ensure", "checked")
  /\ \/ /\ k \notin BadKeys
        /\ schema' = [schema EXCEPT ![k] = IF @ = "none" THEN "empty" ELSE @]
        /\ Goto(q, "created")
        /\ UNCHANGED cut
     \/ /\ cut' = cut \cup HalfDone(q)
        /\ Finish(q)
        /\ UNCHANGED schema
  /\ UNCHANGED <<org, users, ready, platform, inserted, spoilt, crossed>>

\* The migrations of an existing schema succeed or fail.
run_tenant_migrations(q) ==
  LET k == req[q].key IN
  /\ req[q] # None /\ req[q].at = "created"
  /\ \/ /\ schema[k] # "none"
        /\ schema' = [schema EXCEPT ![k] = "migrated"]
        /\ Goto(q, "migrated")
     \/ UNCHANGED schema /\ Goto(q, "failed")
  /\ UNCHANGED <<org, users, ready, platform, inserted, cut, spoilt, crossed>>

\* DROP SCHEMA CASCADE, by name.  The shared schema is then missing under a
\* flag that is set, or that a request on its way will set.
DropSchema(k) ==
  /\ schema' = [schema EXCEPT ![k] = "none"]
  /\ users' = [users EXCEPT ![k] = {}]
  /\ spoilt' = IF k = Individual THEN ready \/ \E q \in Requests : WillBeReady(q) ELSE spoilt

\* DELETE of a row by its id; without such a row nothing happens.
DeleteRow(k, id) ==
  org' = IF org[k] # None /\ org[k].id = id THEN [org EXCEPT ![k] = None] ELSE org

\* Mutant of UndoOrganization: the schema is left for the next attempt.
UndoKeepsSchema(q) ==
  /\ At(q, "org", "failed")
  /\ DeleteRow(req[q].key, req[q].id)
  /\ Finish(q)
  /\ UNCHANGED <<schema, users, ready, platform, inserted, cut, spoilt, crossed>>

\* The handler, after migrations that failed: schema and row are deleted in
\* one transaction.
UndoOrganization(q) ==
  /\ At(q, "org", "failed")
  /\ DropSchema(req[q].key)
  /\ DeleteRow(req[q].key, req[q].id)
  /\ Finish(q)
  /\ UNCHANGED <<ready, platform, inserted, cut, crossed>>

\* Team and owner are inserted into the schema.  An address that is there
\* already, or a missing table, ends the request; nothing is undone.
AddOwner(q) ==
  LET r == req[q] IN
  /\ At(q, "org", "migrated")
  /\ IF schema[r.key] = "migrated" /\ r.domain \notin users[r.key]
     THEN users' = [users EXCEPT ![r.key] = @ \cup {r.domain}] /\ UNCHANGED cut
     ELSE cut' = cut \cup {r.key} /\ UNCHANGED users
  /\ Finish(q)
  /\ UNCHANGED <<org, schema, ready, platform, inserted, spoilt, crossed>>

\* The row is read; a name that is refused raises.  Later its schema is
\* dropped by name and the row deleted by id, in one transaction.  That
\* overtakes requests that are provisioning the key, and when the row has been
\* replaced since, it is the schema of the newer organization that is dropped.
delete_organization(q) ==
  \/ \E k \in Keys \ BadKeys :
       /\ org[k] # None
       /\ Admit(q, [Asked("delete", k, None) EXCEPT !.id = org[k].id])
       /\ UNCHANGED crossed
  \/ LET k == req[q].key
         overtakes == \/ org[k] # None /\ org[k].id # req[q].id
                      \/ \E p \in Requests : Provisions(p, k)
     IN
     /\ At(q, "delete", "checked")
     /\ DropSchema(k)
     /\ DeleteRow(k, req[q].id)
     /\ cut' = IF overtakes THEN cut \cup {k} ELSE cut \ {k}
     /\ Finish(q)
     /\ UNCHANGED <<ready, platform, inserted, crossed>>

-----------------------------------------------------------------------------
(***************************************************************************)
(* The shared schema, the platform owner, faults.                          *)
(***************************************************************************)

\* Mutant of ensure_individual_schema_exists: the flag is set by every call.
EnsureSetsFlag(q) ==
  /\ ~ready
  /\ req[q] = None
  /\ ready' = TRUE
  /\ req' = [req EXCEPT ![q] = Asked("ensure", Individual, None)]
  /\ UNCHANGED <<org, schema, users, platform, inserted, cut, spoilt, crossed>>

\* The schema is looked up.  One that does not exist is created, one that does
\* is taken for ready.
ensure_individual_schema_exists(q) ==
  LET r == Asked("ensure", Individual, None) IN
  /\ ~ready
  /\ Admit(q, IF schema[Individual] = "none" THEN r ELSE [r EXCEPT !.at = "found"])
  /\ UNCHANGED crossed

\* The call that found the schema, or migrated it, sets the flag; a failure is
\* raised and the schema stays as it is.
EnsureReturns(q) ==
  /\ \/ /\ At(q, "ensure", "found") \/ At(q, "ensure", "migrated")
        /\ ready' = TRUE
        /\ UNCHANGED spoilt
     \/ /\ At(q, "ensure", "failed")
        /\ spoilt' = (spoilt \/ LeavesEmpty(q))
        /\ UNCHANGED ready
  /\ Finish(q)
  /\ UNCHANGED <<org, schema, users, platform, inserted, cut, crossed>>

\* Mutant of setup_platform_owner: the check is left to the configured secret.
SetupUnchecked(q) ==
  \/ /\ Admit(q, Asked("setup", None, None))
     /\ crossed' = (crossed \/ \E p \in Requests : At(p, "setup", "checked"))
  \/ /\ At(q, "setup", "checked")
     /\ platform' = platform + 1
     /\ Finish(q)
     /\ UNCHANGED <<org, schema, users, ready, inserted, cut, spoilt, crossed>>

\* setup_platform_owner: no owner is found, later one is inserted.
setup_platform_owner(q) ==
  \/ /\ platform = 0
     /\ Admit(q, Asked("setup", None, None))
     /\ crossed' = (crossed \/ \E p \in Requests : At(p, "setup", "checked"))
  \/ /\ At(q, "setup", "checked")
     /\ platform' = platform + 1
     /\ Finish(q)
     /\ UNCHANGED <<org, schema, users, ready, inserted, cut, spoilt, crossed>>

\* A statement outside the try block fails, also one of the handler: nothing
\* is undone.
RequestFails(q) ==
  /\ req[q] # None
  /\ cut' = cut \cup HalfDone(q)
  /\ spoilt' = (spoilt \/ LeavesEmpty(q))
  /\ Finish(q)
  /\ UNCHANGED <<org, schema, users, ready, platform, inserted, crossed>>

\* The process stops; the next one begins with the flag unset.
BackendRestart ==
  /\ ready' = FALSE
  /\ cut' = cut \cup UNION {HalfDone(q) : q \in Requests}
  /\ spoilt' = (schema[Individual] = "empty")
  /\ req' = [q \in Requests |-> None]
  /\ UNCHANGED <<org, schema, users, platform, inserted, crossed>>

Step(q) ==
  \/ register(q) \/ create_organization(q) \/ approve_waitlist(q)
  \/ InsertOrganization(q) \/ create_tenant_schema(q) \/ run_tenant_migrations(q)
  \/ UndoOrganization(q) \/ AddOwner(q) \/ delete_organization(q)
  \/ ensure_individual_schema_exists(q) \/ EnsureReturns(q)
  \/ setup_platform_owner(q) \/ RequestFails(q)

Next ==
  \/ \E q \in Requests : Step(q)
  \/ BackendRestart

Spec == Init /\ [][Next]_vars

-----------------------------------------------------------------------------
(***************************************************************************)
(* Properties.                                                             *)
(***************************************************************************)

\* When nobody is provisioning it, a key has an organization row exactly
\* when its schema is migrated, and then exactly one account, its owner's:
\* failed migrations are undone, requests that race for a key or a domain do
\* not mix, deletions of one row may overlap, and a deletion repairs what an
\* earlier failure has left.  Excepted are keys on which the code gives up half
\* way (a failed CREATE SCHEMA, a refused name, a stopped process) or a deletion
\* overtook another request, and the key of the shared schema, which has a
\* schema without an organization.
ProvisionedTogether ==
  \A k \in Keys \ (cut \cup {Individual}) :
    (\A q \in Requests : ~Provisions(q, k)) =>
      /\ org[k] # None <=> schema[k] = "migrated"
      /\ org[k] = None => schema[k] = "none"
      /\ Cardinality(users[k]) = IF org[k] = None THEN 0 ELSE 1

\* The flag that spares migrations says the truth when nobody is about to
\* migrate the shared schema, whether users or an organization of the key
\* "individual" work on it, unless its migrations failed or were cut short, or
\* the organization was deleted or undone under the flag.
IndividualReady ==
  ready /\ ~spoilt /\ (\A q \in Requests : ~OnSharedSchema(q))
    => schema[Individual] = "migrated"

\* There is one platform owner, unless two setups overlapped.
OnePlatformOwner == platform > 1 => crossed
=============================================================================
