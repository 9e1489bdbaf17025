------------------------ MODULE OrganizationsProofs ------------------------
(***************************************************************************)
(* Proofs about Organizations, for any number of requests, keys and        *)
(* domains.                                                                *)
(*                                                                         *)
(* What the properties say of a key at rest is not inductive: between two  *)
(* commits the row, the schema and the owner of a key do not agree.        *)
(* Provisioned says how far they disagree, by the request that is at work: *)
(* its id is that of the row, ids are never used twice, so there is one    *)
(* such request, and its progress tells what the schema holds.  For the    *)
(* shared schema, which several requests may create, migrate and drop at   *)
(* the same time, it is enough that an empty schema has a request that     *)
(* knows of it, and that the flag, and the requests that will set it, have *)
(* a schema.                                                               *)
(***************************************************************************)
EXTENDS Organizations, FiniteSetTheorems, TLAPS

\* What the kind of a request says of its other attributes.
Shaped(r) ==
  /\ r.op = "org" =>
       /\ r.key \in Keys /\ r.domain \in Domains
       /\ r.id <= inserted
       /\ r.id = 0 <=> r.at = "checked"
       /\ r.at # "found"
  /\ r.op = "ensure" => r.key = Individual /\ r.id = 0 /\ r.at # "inserted"
  /\ r.op = "setup" => r.key = None /\ r.id = 0 /\ r.at = "checked"
  /\ r.op = "delete" => r.key \in Keys /\ r.at = "checked"

RequestShape == \A q \in Requests : req[q] # None => Shaped(req[q])

\* Two requests never have committed the same row.
IdsDiffer ==
  \A p, q \in Requests :
    /\ req[p] # None /\ req[p].op = "org"
    /\ req[q] # None /\ req[q].op = "org"
    /\ req[p].id = req[q].id /\ req[p].id # 0
    => p = q

\* The schema and the accounts of k are as far as request q is.
InStep(q, k) ==
  /\ org[k] # None /\ org[k].id = req[q].id /\ org[k].domain = req[q].domain
  /\ users[k] = {}
  /\ req[q].at = "inserted" => schema[k] = "none"
  /\ req[q].at = "created" => schema[k] = "empty"
  /\ req[q].at = "migrated" => schema[k] = "migrated"

\* Row, schema and owner of k agree.
AtRest(k) ==
  /\ org[k] = None => schema[k] = "none" /\ users[k] = {}
  /\ org[k] # None => schema[k] = "migrated" /\ users[k] = {org[k].domain}

\* A key is as far as the request that provisions it, or at rest.
Settled(k) ==
  /\ \A q \in Requests : Provisions(q, k) => InStep(q, k)
  /\ (\A q \in Requests : ~Provisions(q, k)) => AtRest(k)

Provisioned == \A k \in Keys \ (cut \cup {Individual}) : Settled(k)

\* An empty shared schema is one that a request will migrate or complain of;
\* the flag, and the progress of the requests that will set it, tell no more
\* than is so.
SharedSchema ==
  ~spoilt =>
    /\ schema[Individual] = "empty" => \E q \in Requests : OnSharedSchema(q)
    /\ ready => schema[Individual] # "none"
    /\ \A q \in Requests : WillBeReady(q) =>
         /\ schema[Individual] # "none"
         /\ req[q].at = "migrated" => schema[Individual] = "migrated"

\* Request q has found no platform owner and will insert one.
SettingUp(q) == At(q, "setup", "checked")

\* Setups that have not overlapped: at most one, begun without an owner.
SerialSetups ==
  ~crossed =>
    /\ platform <= 1
    /\ \A q \in Requests : SettingUp(q) => platform = 0
    /\ \A p, q \in Requests : SettingUp(p) /\ SettingUp(q) => p = q

OrganizationsInv ==
  /\ TypeOK
  /\ RequestShape
  /\ IdsDiffer
  /\ Provisioned
  /\ SharedSchema
  /\ SerialSetups

-----------------------------------------------------------------------------
\* The invariant holds initially: there is nothing yet.
LEMMA OrganizationsInitially == Init => OrganizationsInv
<1> SUFFICES ASSUME Init PROVE OrganizationsInv
  OBVIOUS
<1> USE OrganizationsAssumption DEF OrganizationsAssumption, Init
<1>1. TypeOK
  <2>1. ready \in BOOLEAN /\ spoilt \in BOOLEAN /\ crossed \in BOOLEAN
    BY Zenon
  <2>2. /\ org \in [Keys -> Organization \cup {None}]
        /\ schema \in [Keys -> {"none", "empty", "migrated"}]
        /\ users \in [Keys -> SUBSET Domains]
        /\ req \in [Requests -> Request \cup {None}]
    OBVIOUS
  <2>3. platform \in Nat /\ inserted \in 0..MaxOrgs /\ cut \subseteq Keys
    OBVIOUS
  <2> QED
    BY <2>1, <2>2, <2>3 DEF TypeOK
<1>2. RequestShape /\ IdsDiffer
  BY DEF RequestShape, IdsDiffer
<1>3. Provisioned
  BY DEF Provisioned, Settled, Provisions, AtRest
<1>4. SharedSchema /\ SerialSetups
  BY DEF SharedSchema, WillBeReady, SerialSetups, SettingUp, At
<1> QED
  BY <1>1, <1>2, <1>3, <1>4 DEF OrganizationsInv

\* A request that ends leaves the other requests as they are.
LEMMA FinishKeeps ==
  ASSUME OrganizationsInv, NEW q \in Requests, Finish(q),
         UNCHANGED <<inserted, platform, crossed>>
  PROVE  /\ req' \in [Requests -> Request \cup {None}]
         /\ req'[q] = None
         /\ \A p \in Requests : p # q => req'[p] = req[p]
         /\ RequestShape' /\ IdsDiffer' /\ SerialSetups'
<1>1. \A p \in Requests : req'[p] = IF p = q THEN None ELSE req[p]
  BY DEF Finish, OrganizationsInv, TypeOK
<1>2. req' \in [Requests -> Request \cup {None}]
  BY DEF Finish, OrganizationsInv, TypeOK
<1>3. RequestShape' /\ IdsDiffer'
  BY <1>1 DEF OrganizationsInv, RequestShape, Shaped, IdsDiffer
<1>4. SerialSetups'
  BY <1>1 DEF OrganizationsInv, SerialSetups, SettingUp, At
<1> QED
  BY <1>1, <1>2, <1>3, <1>4

\* A request that goes on keeps its kind, its key and its id.
LEMMA GotoKeeps ==
  ASSUME OrganizationsInv, NEW q \in Requests, req[q] # None,
         NEW a \in {"created", "migrated", "failed"}, Goto(q, a),
         req[q].op \in {"org", "ensure"}, req[q].op = "org" => req[q].at # "checked",
         UNCHANGED <<inserted, platform, crossed>>
  PROVE  \E n \in Request :
           /\ n.op = req[q].op /\ n.key = req[q].key /\ n.id = req[q].id
           /\ n.domain = req[q].domain /\ n.at = a
           /\ req' \in [Requests -> Request \cup {None}]
           /\ req'[q] = n
           /\ \A p \in Requests : p # q => req'[p] = req[p]
           /\ RequestShape' /\ IdsDiffer' /\ SerialSetups'
<1>1. PICK n : n = [req[q] EXCEPT !.at = a]
  OBVIOUS
<1>2. req[q] \in Request
  BY DEF OrganizationsInv, TypeOK
<1>3. /\ n \in Request
      /\ n.op = req[q].op /\ n.key = req[q].key /\ n.id = req[q].id
      /\ n.domain = req[q].domain /\ n.at = a
  BY <1>1, <1>2 DEF Request
<1>4. req' = [req EXCEPT ![q] = n]
  BY <1>1 DEF Goto, OrganizationsInv, TypeOK
<1>5. /\ req' \in [Requests -> Request \cup {None}]
      /\ \A p \in Requests : req'[p] = IF p = q THEN n ELSE req[p]
  BY <1>3, <1>4 DEF OrganizationsInv, TypeOK
<1>6. RequestShape'
  BY <1>3, <1>5 DEF OrganizationsInv, RequestShape, Shaped
<1>7. IdsDiffer'
  BY <1>3, <1>5 DEF OrganizationsInv, IdsDiffer
<1>8. SerialSetups'
  BY <1>3, <1>5 DEF OrganizationsInv, SerialSetups, SettingUp, At
<1> QED
  BY <1>3, <1>5, <1>6, <1>7, <1>8

\* A key that is not cut has one request at most that provisions it.
LEMMA OneProvisions ==
  ASSUME OrganizationsInv, NEW k \in Keys \ (cut \cup {Individual}),
         NEW p \in Requests, NEW q \in Requests, Provisions(p, k), Provisions(q, k)
  PROVE  p = q
<1>1. InStep(p, k) /\ InStep(q, k)
  BY DEF OrganizationsInv, Provisioned, Settled
<1>2. req[p].id # 0
  BY DEF OrganizationsInv, RequestShape, Shaped, Provisions
<1> QED
  BY <1>1, <1>2 DEF OrganizationsInv, IdsDiffer, InStep, Provisions

\* A key stays settled in a step of a request that does not provision it.
LEMMA OthersStaySettled ==
  ASSUME NEW j \in Keys, Settled(j), NEW q \in Requests,
         ~Provisions(q, j), ~Provisions(q, j)',
         \A p \in Requests : p # q => req'[p] = req[p],
         org'[j] = org[j], schema'[j] = schema[j], users'[j] = users[j]
  PROVE  Settled(j)'
<1>1. \A p \in Requests : Provisions(p, j)' <=> Provisions(p, j)
  BY DEF Provisions
<1>2. \A p \in Requests : Provisions(p, j) => req'[p] = req[p]
  OBVIOUS
<1> QED
  BY <1>1, <1>2 DEF Settled, InStep, AtRest

\* The step of the request that provisions a key settles it.
LEMMA OwnKeySettled ==
  ASSUME OrganizationsInv, NEW k \in Keys \ (cut \cup {Individual}), NEW q \in Requests,
         Provisions(q, k), \A p \in Requests : p # q => req'[p] = req[p],
         Provisions(q, k)' => InStep(q, k)',
         ~Provisions(q, k)' => AtRest(k)'
  PROVE  Settled(k)'
<1>1. \A p \in Requests : Provisions(p, k)' => p = q
  BY OneProvisions DEF Provisions
<1> QED
  BY <1>1 DEF Settled

\* What a request does elsewhere leaves the shared schema as well as it was.
LEMMA SharedSchemaKept ==
  ASSUME SharedSchema, NEW q \in Requests,
         \A p \in Requests : p # q => req'[p] = req[p],
         schema'[Individual] = schema[Individual], ready' = ready,
         spoilt => spoilt', ~WillBeReady(q)',
         LeavesEmpty(q) => OnSharedSchema(q)' \/ spoilt'
  PROVE  SharedSchema'
<1> SUFFICES ASSUME ~spoilt'
             PROVE  /\ schema[Individual] = "empty" => \E p \in Requests : OnSharedSchema(p)'
                    /\ ready => schema[Individual] # "none"
                    /\ \A p \in Requests : WillBeReady(p)' =>
                         /\ schema[Individual] # "none"
                         /\ req'[p].at = "migrated" => schema[Individual] = "migrated"
  BY DEF SharedSchema
<1>1. schema[Individual] = "empty" => \E p \in Requests : OnSharedSchema(p)'
  <2> SUFFICES ASSUME schema[Individual] = "empty"
               PROVE  \E p \in Requests : OnSharedSchema(p)'
    OBVIOUS
  <2>1. PICK p \in Requests : OnSharedSchema(p)
    BY DEF SharedSchema
  <2>2. OnSharedSchema(p)'
    BY <2>1 DEF OnSharedSchema, LeavesEmpty
  <2> QED
    BY <2>2
<1>2. \A p \in Requests : WillBeReady(p)' => WillBeReady(p) /\ req'[p] = req[p]
  BY DEF WillBeReady
<1> QED
  BY <1>1, <1>2 DEF SharedSchema

\* Admissions keep the other requests, and what the new one needs to be true
\* of it.
LEMMA AdmissionKeeps ==
  ASSUME OrganizationsInv, NEW q \in Requests, NEW r \in Request, Admit(q, r),
         Shaped(r), r.op = "org" => r.id = 0, crossed' \in BOOLEAN
  PROVE  /\ TypeOK'
         /\ req'[q] = r
         /\ \A p \in Requests : p # q => req'[p] = req[p]
         /\ RequestShape' /\ IdsDiffer' /\ Provisioned'
<1> USE DEF OrganizationsInv
<1>1. /\ req' = [req EXCEPT ![q] = r] /\ req[q] = None
      /\ UNCHANGED <<org, schema, users, ready, platform, inserted, cut, spoilt>>
  BY DEF Admit
<1>2. \A p \in Requests : req'[p] = IF p = q THEN r ELSE req[p]
  BY <1>1 DEF TypeOK
<1>3. TypeOK'
  BY <1>1 DEF TypeOK
<1>4. RequestShape' /\ IdsDiffer'
  BY <1>1, <1>2 DEF RequestShape, IdsDiffer, Shaped
<1>5. \A k \in Keys : ~Provisions(q, k) /\ ~Provisions(q, k)'
  BY <1>1, <1>2 DEF Provisions, Shaped
<1>6. Provisioned'
  BY <1>1, <1>2, <1>5, OthersStaySettled DEF Provisioned
<1> QED
  BY <1>2, <1>3, <1>4, <1>6

\* A request that only passed its checks has touched nothing.
LEMMA AdmissionPreserves ==
  ASSUME OrganizationsInv, NEW q \in Requests, NEW r \in Request, Admit(q, r),
         Shaped(r), r.op \in {"org", "delete"}, r.op = "org" => r.id = 0,
         UNCHANGED crossed
  PROVE  OrganizationsInv'
<1>1. crossed' \in BOOLEAN
  BY DEF OrganizationsInv, TypeOK
<1>2. /\ TypeOK'
      /\ req'[q] = r
      /\ \A p \in Requests : p # q => req'[p] = req[p]
      /\ RequestShape' /\ IdsDiffer' /\ Provisioned'
  BY <1>1, AdmissionKeeps
<1>3. /\ req[q] = None /\ UNCHANGED <<schema, ready, platform, spoilt>>
  BY DEF Admit
<1>4. SharedSchema'
  BY <1>2, <1>3, SharedSchemaKept
     DEF OrganizationsInv, WillBeReady, LeavesEmpty, OnSharedSchema
<1>5. SerialSetups'
  BY <1>2, <1>3 DEF OrganizationsInv, SerialSetups, SettingUp, At
<1> QED
  BY <1>2, <1>4, <1>5 DEF OrganizationsInv

\* A request for an organization begins with its key and domain.
LEMMA AskedForOrganization ==
  ASSUME OrganizationsInv, NEW q \in Requests, NEW k \in Keys, NEW d \in Domains,
         Admit(q, Asked("org", k, d)), UNCHANGED crossed
  PROVE  OrganizationsInv'
<1> USE OrganizationsAssumption DEF OrganizationsAssumption
<1>1. PICK r : r = Asked("org", k, d)
  OBVIOUS
<1>2. /\ r \in Request /\ r.op = "org" /\ r.key = k /\ r.domain = d
      /\ r.id = 0 /\ r.at = "checked"
  BY <1>1 DEF Asked, Request
<1>3. Shaped(r)
  BY <1>2 DEF Shaped, OrganizationsInv, TypeOK
<1> QED
  BY <1>1, <1>2, <1>3, AdmissionPreserves

\* A new row has a new id and a new domain, and its key was at rest without a
\* row.
LEMMA InsertionPreserves ==
  ASSUME OrganizationsInv, NEW q \in Requests, InsertOrganization(q)
  PROVE  OrganizationsInv'
<1> USE OrganizationsAssumption DEF OrganizationsAssumption, OrganizationsInv
<1>0. PICK r : r = req[q]
  OBVIOUS
<1>1. /\ r # None /\ r \in Request /\ r.op = "org" /\ r.at = "checked"
      /\ r.key \in Keys /\ r.domain \in Domains /\ r.id = 0
      /\ UNCHANGED <<schema, users, ready, platform, cut, spoilt, crossed>>
  BY <1>0 DEF InsertOrganization, At, RequestShape, Shaped, TypeOK, Request
<1>2. CASE Finish(q) /\ UNCHANGED <<org, inserted>>
  <2>1. /\ req' \in [Requests -> Request \cup {None}]
        /\ req'[q] = None
        /\ \A p \in Requests : p # q => req'[p] = req[p]
        /\ RequestShape' /\ IdsDiffer' /\ SerialSetups'
    BY <1>1, <1>2, FinishKeeps
  <2>2. TypeOK'
    BY <1>1, <1>2, <2>1 DEF TypeOK
  <2>3. \A j \in Keys : ~Provisions(q, j) /\ ~Provisions(q, j)'
    BY <1>0, <1>1, <2>1 DEF Provisions
  <2>4. Provisioned'
    BY <1>1, <1>2, <2>1, <2>3, OthersStaySettled DEF Provisioned
  <2>5. SharedSchema'
    BY <1>0, <1>1, <2>1, SharedSchemaKept DEF WillBeReady, LeavesEmpty, OnSharedSchema
  <2> QED
    BY <2>1, <2>2, <2>4, <2>5
<1>3. CASE /\ org[r.key] = None
           /\ \A j \in Keys : org[j] # None => org[j].domain # r.domain
           /\ inserted' = inserted + 1
           /\ org' = [org EXCEPT ![r.key] = [id |-> inserted + 1, domain |-> r.domain]]
           /\ req' = [req EXCEPT ![q].id = inserted + 1, ![q].at = "inserted"]
  <2>1. PICK n : n = [r EXCEPT !.id = inserted + 1, !.at = "inserted"]
    OBVIOUS
  <2>2. inserted \in Nat /\ inserted + 1 \in 1..MaxOrgs
    BY DEF InsertOrganization, TypeOK
  <2>3. /\ n \in Request /\ n # None /\ n.op = "org" /\ n.key = r.key
        /\ n.domain = r.domain /\ n.id = inserted + 1 /\ n.at = "inserted"
    <3>1. /\ n.op = r.op /\ n.key = r.key /\ n.domain = r.domain
          /\ n.id = inserted + 1 /\ n.at = "inserted"
      BY <1>1, <2>1 DEF Request
    <3>2. n = [op |-> r.op, key |-> r.key, domain |-> r.domain,
               id |-> inserted + 1, at |-> "inserted"]
      BY <1>1, <2>1 DEF Request
    <3>3. n \in Request
      BY <1>1, <2>2, <3>2 DEF Request
    <3> QED
      BY <1>1, <3>1, <3>3, RecordsAssumption
  <2>4. req' = [req EXCEPT ![q] = n]
    BY <1>0, <1>3, <2>1 DEF TypeOK
  <2>5. /\ req' \in [Requests -> Request \cup {None}]
        /\ req'[q] = n
        /\ \A p \in Requests : p # q => req'[p] = req[p]
    BY <2>3, <2>4 DEF TypeOK
  <2>6. PICK o : o = [id |-> inserted + 1, domain |-> r.domain]
    OBVIOUS
  <2>7. /\ o \in Organization /\ o # None
        /\ o.id = inserted + 1 /\ o.domain = r.domain
    BY <1>1, <2>2, <2>6, RecordsAssumption DEF Organization
  <2>8. /\ org' \in [Keys -> Organization \cup {None}]
        /\ \A k \in Keys : org'[k] = IF k = r.key THEN o ELSE org[k]
    BY <1>3, <2>6, <2>7 DEF TypeOK
  <2>9. TypeOK'
    <3>1. \A j, k \in Keys :
            org'[j] # None /\ org'[k] # None /\ org'[j].domain = org'[k].domain => j = k
      BY <1>3, <2>7, <2>8 DEF TypeOK
    <3> QED
      BY <1>1, <1>3, <2>2, <2>5, <2>8, <3>1 DEF TypeOK
  <2>10. RequestShape'
    <3> SUFFICES ASSUME NEW p \in Requests, req'[p] # None
                 PROVE  Shaped(req[p])'
      BY DEF RequestShape
    <3>1. CASE p = q
      <4>1. n.id <= inserted' /\ n.id # 0
        BY <1>3, <2>2, <2>3
      <4> QED
        BY <1>1, <2>3, <2>5, <3>1, <4>1 DEF Shaped
    <3>2. CASE p # q
      <4>1. Shaped(req[p]) /\ req[p] \in Request /\ req'[p] = req[p]
        BY <2>5, <3>2 DEF RequestShape, TypeOK
      <4>2. req[p].id <= inserted => req[p].id <= inserted'
        BY <1>3, <2>2, <4>1 DEF Request
      <4> QED
        BY <4>1, <4>2 DEF Shaped
    <3> QED
      BY <3>1, <3>2
  <2>11. IdsDiffer'
    <3> SUFFICES ASSUME NEW p1 \in Requests, NEW p2 \in Requests,
                        req'[p1] # None, req'[p1].op = "org",
                        req'[p2] # None, req'[p2].op = "org",
                        req'[p1].id = req'[p2].id, req'[p1].id # 0
                 PROVE  p1 = p2
      BY DEF IdsDiffer
    <3>1. \A p \in Requests : req[p] # None /\ req[p].op = "org" => req[p].id # inserted + 1
      BY <2>2 DEF RequestShape, Shaped, TypeOK, Request
    <3> QED
      BY <2>3, <2>5, <3>1 DEF IdsDiffer
  <2>12. Provisioned'
    <3> SUFFICES ASSUME NEW k \in Keys \ (cut \cup {Individual})
                 PROVE  Settled(k)'
      BY <1>1 DEF Provisioned
    <3>0. Settled(k) /\ ~Provisions(q, k)
      BY <1>0, <1>1 DEF Provisioned, Provisions
    <3>1. CASE k = r.key
      <4>1. \A p \in Requests : ~Provisions(p, k)
        BY <1>3, <3>0, <3>1 DEF Settled, InStep
      <4>2. schema[k] = "none" /\ users[k] = {}
        BY <1>3, <3>0, <3>1, <4>1 DEF Settled, AtRest
      <4>3. \A p \in Requests : Provisions(p, k)' <=> p = q
        BY <2>3, <2>5, <3>1, <4>1 DEF Provisions
      <4>4. InStep(q, k)'
        BY <1>1, <2>3, <2>5, <2>7, <2>8, <3>1, <4>2 DEF InStep
      <4> QED
        BY <4>3, <4>4 DEF Settled
    <3>2. CASE k # r.key
      <4>1. ~Provisions(q, k)' /\ org'[k] = org[k]
        BY <2>3, <2>5, <2>8, <3>2 DEF Provisions
      <4> QED
        BY <1>1, <2>5, <3>0, <4>1, OthersStaySettled
    <3> QED
      BY <3>1, <3>2
  <2>13. SharedSchema'
    BY <1>0, <1>1, <2>3, <2>5, SharedSchemaKept DEF WillBeReady, LeavesEmpty, OnSharedSchema
  <2>14. SerialSetups'
    BY <1>1, <2>3, <2>5 DEF SerialSetups, SettingUp, At
  <2> QED
    BY <2>9, <2>10, <2>11, <2>12, <2>13, <2>14
<1> QED
  BY <1>0, <1>2, <1>3 DEF InsertOrganization

\* CREATE SCHEMA makes an empty schema for the one request that is at work, or
\* for the shared schema one that this request knows of; a failure leaves the
\* row behind.
LEMMA CreationPreserves ==
  ASSUME OrganizationsInv, NEW q \in Requests, create_tenant_schema(q)
  PROVE  OrganizationsInv'
<1> USE OrganizationsAssumption DEF OrganizationsAssumption, OrganizationsInv
<1>0. PICK k : k = req[q].key
  OBVIOUS
<1>1. /\ req[q] # None /\ k \in Keys
      /\ UNCHANGED <<org, users, ready, platform, inserted, spoilt, crossed>>
      /\ \/ req[q].op = "org" /\ req[q].at = "inserted"
         \/ req[q].op = "ensure" /\ req[q].at = "checked" /\ k = Individual
  BY <1>0 DEF create_tenant_schema, At, RequestShape, Shaped
<1>2. \A j \in Keys : j # Individual /\ j # k => ~Provisions(q, j)
  BY <1>0 DEF Provisions
<1>3. CASE cut' = cut \cup HalfDone(q) /\ Finish(q) /\ UNCHANGED schema
  <2>1. /\ req' \in [Requests -> Request \cup {None}]
        /\ req'[q] = None
        /\ \A p \in Requests : p # q => req'[p] = req[p]
        /\ RequestShape' /\ IdsDiffer' /\ SerialSetups'
    BY <1>1, <1>3, FinishKeeps
  <2>2. TypeOK'
    BY <1>1, <1>3, <2>1 DEF TypeOK, HalfDone
  <2>3. Provisioned'
    BY <1>1, <1>3, <2>1, OthersStaySettled DEF Provisioned, HalfDone, Provisions
  <2>4. SharedSchema'
    BY <1>1, <1>3, <2>1, SharedSchemaKept DEF WillBeReady, LeavesEmpty, OnSharedSchema
  <2> QED
    BY <2>1, <2>2, <2>3, <2>4
<1>4. CASE /\ schema' = [schema EXCEPT ![k] = IF @ = "none" THEN "empty" ELSE @]
           /\ Goto(q, "created") /\ UNCHANGED cut
  <2>1. PICK n \in Request :
          /\ n.op = req[q].op /\ n.key = k /\ n.id = req[q].id
          /\ n.domain = req[q].domain /\ n.at = "created"
          /\ req' \in [Requests -> Request \cup {None}]
          /\ req'[q] = n
          /\ \A p \in Requests : p # q => req'[p] = req[p]
          /\ RequestShape' /\ IdsDiffer' /\ SerialSetups'
    BY <1>0, <1>1, <1>4, GotoKeeps
  <2>2. n # None
    BY RecordsAssumption
  <2>3. \A j \in Keys :
          schema'[j] = IF j = k /\ schema[j] = "none" THEN "empty" ELSE schema[j]
    BY <1>1, <1>4 DEF TypeOK
  <2>4. schema' \in [Keys -> {"none", "empty", "migrated"}]
    BY <1>1, <1>4 DEF TypeOK
  <2>5. TypeOK'
    BY <1>1, <1>4, <2>1, <2>4 DEF TypeOK
  <2>6. Provisioned'
    <3> SUFFICES ASSUME NEW j \in Keys \ (cut \cup {Individual})
                 PROVE  Settled(j)'
      BY <1>4 DEF Provisioned
    <3>1. CASE j = k
      <4>1. Provisions(q, j) /\ req[q].at = "inserted" /\ InStep(q, j)
        BY <1>0, <1>1, <3>1 DEF Provisions, Provisioned, Settled
      <4>2. Provisions(q, j)' /\ InStep(q, j)'
        BY <1>1, <2>1, <2>2, <2>3, <3>1, <4>1 DEF Provisions, InStep
      <4> QED
        BY <2>1, <4>1, <4>2, OwnKeySettled
    <3>2. CASE j # k
      <4>1. ~Provisions(q, j) /\ ~Provisions(q, j)' /\ schema'[j] = schema[j]
        BY <1>2, <2>1, <2>3, <3>2 DEF Provisions
      <4> QED
        BY <1>1, <2>1, <4>1, OthersStaySettled DEF Provisioned
    <3> QED
      BY <3>1, <3>2
  <2>7. SharedSchema'
    <3>1. CASE k = Individual
      <4>1. OnSharedSchema(q)' /\ schema'[Individual] # "none"
        BY <2>1, <2>2, <2>3, <3>1 DEF OnSharedSchema
      <4>2. \A p \in Requests : p # q /\ WillBeReady(p)' => WillBeReady(p) /\ req'[p] = req[p]
        BY <2>1 DEF WillBeReady
      <4>3. schema[Individual] = "migrated" => schema'[Individual] = "migrated"
        BY <2>3
      <4> QED
        BY <1>1, <2>1, <4>1, <4>2, <4>3 DEF SharedSchema
    <3>2. CASE k # Individual
      <4>1. schema'[Individual] = schema[Individual] /\ ~WillBeReady(q)' /\ ~LeavesEmpty(q)
        BY <1>0, <1>1, <2>1, <2>3, <3>2 DEF WillBeReady, LeavesEmpty, OnSharedSchema
      <4> QED
        BY <1>1, <2>1, <4>1, SharedSchemaKept
    <3> QED
      BY <3>1, <3>2
  <2> QED
    BY <2>1, <2>5, <2>6, <2>7
<1> QED
  BY <1>0, <1>3, <1>4 DEF create_tenant_schema

\* Migrations complete the schema of the request that runs them.
LEMMA MigrationPreserves ==
  ASSUME OrganizationsInv, NEW q \in Requests, run_tenant_migrations(q)
  PROVE  OrganizationsInv'
<1> USE OrganizationsAssumption DEF OrganizationsAssumption, OrganizationsInv
<1>0. PICK k : k = req[q].key
  OBVIOUS
<1>1. /\ req[q] # None /\ k \in Keys /\ req[q].at = "created"
      /\ UNCHANGED <<org, users, ready, platform, inserted, cut, spoilt, crossed>>
      /\ \/ req[q].op = "org"
         \/ req[q].op = "ensure" /\ k = Individual
  BY <1>0 DEF run_tenant_migrations, RequestShape, Shaped, TypeOK, Request
<1>2. PICK a \in {"migrated", "failed"} :
        /\ Goto(q, a)
        /\ \/ /\ a = "migrated" /\ schema[k] # "none"
              /\ schema' = [schema EXCEPT ![k] = "migrated"]
           \/ a = "failed" /\ UNCHANGED schema
  BY <1>0 DEF run_tenant_migrations
<1>3. PICK n \in Request :
        /\ n.op = req[q].op /\ n.key = k /\ n.id = req[q].id
        /\ n.domain = req[q].domain /\ n.at = a
        /\ req' \in [Requests -> Request \cup {None}]
        /\ req'[q] = n
        /\ \A p \in Requests : p # q => req'[p] = req[p]
        /\ RequestShape' /\ IdsDiffer' /\ SerialSetups'
  BY <1>0, <1>1, <1>2, GotoKeeps
<1>4. n # None
  BY RecordsAssumption
<1>5. /\ schema' \in [Keys -> {"none", "empty", "migrated"}]
      /\ \A j \in Keys : schema'[j] = IF j = k /\ a = "migrated" THEN "migrated" ELSE schema[j]
  BY <1>1, <1>2 DEF TypeOK
<1>6. TypeOK'
  BY <1>1, <1>3, <1>5 DEF TypeOK
<1>7. Provisioned'
  <2> SUFFICES ASSUME NEW j \in Keys \ (cut \cup {Individual})
               PROVE  Settled(j)'
    BY <1>1 DEF Provisioned
  <2>1. CASE j = k
    <3>1. Provisions(q, j) /\ InStep(q, j)
      BY <1>0, <1>1, <2>1 DEF Provisions, Provisioned, Settled
    <3>2. Provisions(q, j)' /\ InStep(q, j)'
      BY <1>1, <1>2, <1>3, <1>4, <1>5, <2>1, <3>1 DEF Provisions, InStep
    <3> QED
      BY <1>3, <3>1, <3>2, OwnKeySettled
  <2>2. CASE j # k
    <3>1. ~Provisions(q, j) /\ ~Provisions(q, j)' /\ schema'[j] = schema[j]
      BY <1>0, <1>3, <1>5, <2>2 DEF Provisions
    <3> QED
      BY <1>1, <1>3, <3>1, OthersStaySettled DEF Provisioned
  <2> QED
    BY <2>1, <2>2
<1>8. SharedSchema'
  <2>1. CASE k # Individual
    <3>1. schema'[Individual] = schema[Individual] /\ ~WillBeReady(q)' /\ ~LeavesEmpty(q)
      BY <1>0, <1>1, <1>3, <1>5, <2>1 DEF WillBeReady, LeavesEmpty, OnSharedSchema
    <3> QED
      BY <1>1, <1>3, <3>1, SharedSchemaKept
  <2>2. CASE k = Individual /\ a = "failed"
    <3>1. schema'[Individual] = schema[Individual] /\ ~WillBeReady(q)' /\ OnSharedSchema(q)'
      BY <1>3, <1>4, <1>5, <2>2 DEF WillBeReady, OnSharedSchema
    <3> QED
      BY <1>1, <1>3, <3>1, SharedSchemaKept
  <2>3. CASE k = Individual /\ a = "migrated"
    BY <1>1, <1>5, <2>3 DEF SharedSchema
  <2> QED
    BY <2>1, <2>2, <2>3
<1> QED
  BY <1>3, <1>6, <1>7, <1>8

\* Dropping a schema and deleting a row keep the types, and dropping the shared
\* schema is recorded when the flag is set or will be.
LEMMA DropKeeps ==
  ASSUME OrganizationsInv, NEW q \in Requests, NEW k \in Keys, NEW i \in Nat,
         DropSchema(k), DeleteRow(k, i),
         req' \in [Requests -> Request \cup {None}], req'[q] = None,
         \A p \in Requests : p # q => req'[p] = req[p],
         cut' \subseteq Keys, k = Individual \/ ~LeavesEmpty(q),
         UNCHANGED <<ready, platform, inserted, crossed>>
  PROVE  /\ TypeOK' /\ SharedSchema'
         /\ schema'[k] = "none" /\ users'[k] = {}
         /\ org'[k] = IF org[k] # None /\ org[k].id = i THEN None ELSE org[k]
         /\ \A j \in Keys \ {k} : /\ schema'[j] = schema[j] /\ users'[j] = users[j]
                                  /\ org'[j] = org[j]
<1> USE OrganizationsAssumption DEF OrganizationsAssumption, OrganizationsInv
<1>1. /\ schema' \in [Keys -> {"none", "empty", "migrated"}]
      /\ users' \in [Keys -> SUBSET Domains]
      /\ org' \in [Keys -> Organization \cup {None}]
  BY DEF DropSchema, DeleteRow, TypeOK
<1>2. /\ schema'[k] = "none" /\ users'[k] = {}
      /\ org'[k] = IF org[k] # None /\ org[k].id = i THEN None ELSE org[k]
      /\ \A j \in Keys \ {k} : /\ schema'[j] = schema[j] /\ users'[j] = users[j]
                               /\ org'[j] = org[j]
  BY DEF DropSchema, DeleteRow, TypeOK
<1>3. spoilt' \in BOOLEAN
  <2>1. CASE k = Individual
    <3>1. spoilt' = (ready \/ \E p \in Requests : WillBeReady(p))
      BY <2>1 DEF DropSchema
    <3> QED
      BY <3>1, Zenon
  <2>2. CASE k # Individual
    BY <2>2 DEF DropSchema, TypeOK
  <2> QED
    BY <2>1, <2>2
<1>4. TypeOK'
  <2>1. \A j \in Keys : org'[j] # None => org'[j] = org[j]
    BY <1>2
  <2>2. \A j, l \in Keys :
          org'[j] # None /\ org'[l] # None /\ org'[j].domain = org'[l].domain => j = l
    BY <2>1 DEF TypeOK
  <2> QED
    BY <1>1, <1>3, <2>2 DEF TypeOK
<1>5. SharedSchema'
  <2>1. CASE k = Individual
    <3> SUFFICES ASSUME ~spoilt'
                 PROVE  ~ready' /\ \A p \in Requests : ~WillBeReady(p)'
      BY <1>2, <2>1 DEF SharedSchema
    <3> QED
      BY <2>1 DEF DropSchema, WillBeReady
  <2>2. CASE k # Individual
    <3>1. spoilt' = spoilt /\ schema'[Individual] = schema[Individual]
      BY <1>2, <2>2 DEF DropSchema
    <3> QED
      BY <2>2, <3>1, SharedSchemaKept DEF WillBeReady
  <2> QED
    BY <2>1, <2>2
<1> QED
  BY <1>2, <1>4, <1>5

\* The handler of a failure removes what its request has made; nobody else
\* was at work on the key.
LEMMA UndoPreserves ==
  ASSUME OrganizationsInv, NEW q \in Requests, UndoOrganization(q)
  PROVE  OrganizationsInv'
<1> USE OrganizationsAssumption DEF OrganizationsAssumption, OrganizationsInv
<1>0. PICK k, i : k = req[q].key /\ i = req[q].id
  OBVIOUS
<1>1. /\ req[q] # None /\ k \in Keys /\ i \in Nat
      /\ req[q].op = "org" /\ req[q].at = "failed"
      /\ DropSchema(k) /\ DeleteRow(k, i) /\ Finish(q)
      /\ UNCHANGED <<ready, platform, inserted, cut, crossed>>
  <2>1. req[q] # None /\ req[q] \in Request
    BY DEF UndoOrganization, At, TypeOK
  <2>2. i \in Nat
    BY <1>0, <2>1 DEF Request
  <2> QED
    BY <1>0, <2>1, <2>2 DEF UndoOrganization, At, RequestShape, Shaped
<1>2. /\ req' \in [Requests -> Request \cup {None}]
      /\ req'[q] = None
      /\ \A p \in Requests : p # q => req'[p] = req[p]
      /\ RequestShape' /\ IdsDiffer' /\ SerialSetups'
  BY <1>1, FinishKeeps
<1>3. k = Individual \/ ~LeavesEmpty(q)
  BY <1>0 DEF LeavesEmpty, OnSharedSchema
<1>4. /\ TypeOK' /\ SharedSchema'
      /\ schema'[k] = "none" /\ users'[k] = {}
      /\ org'[k] = IF org[k] # None /\ org[k].id = i THEN None ELSE org[k]
      /\ \A j \in Keys \ {k} : /\ schema'[j] = schema[j] /\ users'[j] = users[j]
                               /\ org'[j] = org[j]
  <2>1. cut' \subseteq Keys
    BY <1>1 DEF TypeOK
  <2> QED
    BY <1>1, <1>2, <1>3, <2>1, DropKeeps
<1>5. Provisioned'
  <2> SUFFICES ASSUME NEW j \in Keys \ (cut \cup {Individual})
               PROVE  Settled(j)'
    BY <1>1 DEF Provisioned
  <2>1. CASE j = k
    <3>1. Provisions(q, j) /\ InStep(q, j)
      BY <1>0, <1>1, <2>1 DEF Provisions, Provisioned, Settled
    <3>2. ~Provisions(q, j)' /\ AtRest(j)'
      BY <1>0, <1>2, <1>4, <2>1, <3>1 DEF Provisions, InStep, AtRest
    <3> QED
      BY <1>2, <3>1, <3>2, OwnKeySettled
  <2>2. CASE j # k
    <3>1. ~Provisions(q, j) /\ ~Provisions(q, j)'
      BY <1>0, <1>2, <2>2 DEF Provisions
    <3> QED
      BY <1>2, <1>4, <2>2, <3>1, OthersStaySettled DEF Provisioned
  <2> QED
    BY <2>1, <2>2
<1> QED
  BY <1>2, <1>4, <1>5

\* The owner is the first account of a schema that is migrated.
LEMMA AddOwnerPreserves ==
  ASSUME OrganizationsInv, NEW q \in Requests, AddOwner(q)
  PROVE  OrganizationsInv'
<1> USE OrganizationsAssumption DEF OrganizationsAssumption, OrganizationsInv
<1>0. PICK k, d : k = req[q].key /\ d = req[q].domain
  OBVIOUS
<1>1. /\ req[q] # None /\ k \in Keys /\ d \in Domains
      /\ req[q].op = "org" /\ req[q].at = "migrated"
      /\ Finish(q)
      /\ UNCHANGED <<org, schema, ready, platform, inserted, spoilt, crossed>>
      /\ \/ users' = [users EXCEPT ![k] = @ \cup {d}] /\ UNCHANGED cut
         \/ cut' = cut \cup {k} /\ UNCHANGED users
  BY <1>0 DEF AddOwner, At, RequestShape, Shaped
<1>2. /\ req' \in [Requests -> Request \cup {None}]
      /\ req'[q] = None
      /\ \A p \in Requests : p # q => req'[p] = req[p]
      /\ RequestShape' /\ IdsDiffer' /\ SerialSetups'
  BY <1>1, FinishKeeps
<1>3. TypeOK'
  <2>1. users' \in [Keys -> SUBSET Domains] /\ cut' \subseteq Keys
    BY <1>1 DEF TypeOK
  <2> QED
    BY <1>1, <1>2, <2>1 DEF TypeOK
<1>4. Provisioned'
  <2> SUFFICES ASSUME NEW j \in Keys \ (cut' \cup {Individual})
               PROVE  Settled(j)'
    BY DEF Provisioned
  <2>0. j \in Keys \ (cut \cup {Individual}) /\ ~Provisions(q, j)'
    BY <1>1, <1>2 DEF Provisions
  <2>1. CASE j = k
    <3>1. Provisions(q, j) /\ InStep(q, j)
      BY <1>0, <1>1, <2>0, <2>1 DEF Provisions, Provisioned, Settled
    <3>2. users'[j] = {d} /\ org'[j] = org[j] /\ schema'[j] = schema[j]
      BY <1>1, <2>0, <2>1, <3>1 DEF InStep, TypeOK
    <3>3. AtRest(j)'
      BY <1>0, <1>1, <3>1, <3>2 DEF InStep, AtRest
    <3> QED
      BY <1>2, <2>0, <3>1, <3>3, OwnKeySettled
  <2>2. CASE j # k
    <3>1. ~Provisions(q, j) /\ users'[j] = users[j]
      BY <1>0, <1>1, <2>0, <2>2 DEF Provisions, TypeOK
    <3> QED
      BY <1>1, <1>2, <2>0, <3>1, OthersStaySettled DEF Provisioned
  <2> QED
    BY <2>1, <2>2
<1>5. SharedSchema'
  BY <1>1, <1>2, SharedSchemaKept DEF WillBeReady, LeavesEmpty, OnSharedSchema
<1> QED
  BY <1>2, <1>3, <1>4, <1>5

\* A deletion repairs a key that nobody is at work on and that has no newer
\* row; any other is counted as cut short.
LEMMA DeletionPreserves ==
  ASSUME OrganizationsInv, NEW q \in Requests, delete_organization(q)
  PROVE  OrganizationsInv'
<1> USE OrganizationsAssumption DEF OrganizationsAssumption, OrganizationsInv
<1>1. ASSUME NEW k \in Keys, org[k] # None, UNCHANGED crossed,
             Admit(q, [Asked("delete", k, None) EXCEPT !.id = org[k].id])
      PROVE  OrganizationsInv'
  <2>1. PICK r : r = [Asked("delete", k, None) EXCEPT !.id = org[k].id]
    OBVIOUS
  <2>2. org[k].id \in 0..MaxOrgs
    BY <1>1 DEF TypeOK, Organization
  <2>3. r \in Request /\ r.op = "delete" /\ r.key = k /\ r.at = "checked"
    <3>1. r = [op |-> "delete", key |-> k, domain |-> None, id |-> org[k].id,
               at |-> "checked"]
      BY <2>1 DEF Asked
    <3> QED
      BY <2>2, <3>1 DEF Request
  <2>4. Shaped(r)
    BY <2>3 DEF Shaped
  <2> QED
    BY <1>1, <2>1, <2>3, <2>4, AdmissionPreserves
<1>2. CASE /\ At(q, "delete", "checked")
           /\ DropSchema(req[q].key) /\ DeleteRow(req[q].key, req[q].id) /\ Finish(q)
           /\ cut' = IF \/ org[req[q].key] # None /\ org[req[q].key].id # req[q].id
                        \/ \E p \in Requests : Provisions(p, req[q].key)
                     THEN cut \cup {req[q].key} ELSE cut \ {req[q].key}
           /\ UNCHANGED <<ready, platform, inserted, crossed>>
  <2>0. PICK k, i : k = req[q].key /\ i = req[q].id
    OBVIOUS
  <2>1. req[q] # None /\ k \in Keys /\ i \in Nat /\ cut' \subseteq Keys
    <3>1. req[q] # None /\ req[q] \in Request
      BY <1>2 DEF At, TypeOK
    <3>2. i \in Nat
      BY <2>0, <3>1 DEF Request
    <3>3. k \in Keys
      BY <1>2, <2>0 DEF At, RequestShape, Shaped
    <3> QED
      BY <1>2, <2>0, <3>1, <3>2, <3>3 DEF TypeOK
  <2>2. /\ req' \in [Requests -> Request \cup {None}]
        /\ req'[q] = None
        /\ \A p \in Requests : p # q => req'[p] = req[p]
        /\ RequestShape' /\ IdsDiffer' /\ SerialSetups'
    BY <1>2, FinishKeeps
  <2>3. ~LeavesEmpty(q)
    BY <1>2 DEF At, LeavesEmpty, OnSharedSchema
  <2>4. /\ TypeOK' /\ SharedSchema'
        /\ schema'[k] = "none" /\ users'[k] = {}
        /\ org'[k] = IF org[k] # None /\ org[k].id = i THEN None ELSE org[k]
        /\ \A j \in Keys \ {k} : /\ schema'[j] = schema[j] /\ users'[j] = users[j]
                                 /\ org'[j] = org[j]
    BY <1>2, <2>0, <2>1, <2>2, <2>3, DropKeeps
  <2>5. Provisioned'
    <3> SUFFICES ASSUME NEW j \in Keys \ (cut' \cup {Individual})
                 PROVE  Settled(j)'
      BY DEF Provisioned
    <3>0. ~Provisions(q, j) /\ ~Provisions(q, j)'
      BY <1>2, <2>2 DEF At, Provisions
    <3>1. CASE j = k
      <4>1. /\ org[k] = None \/ org[k].id = i
            /\ \A p \in Requests : ~Provisions(p, k)
        BY <1>2, <2>0, <3>1
      <4>2. AtRest(j)'
        BY <2>4, <3>1, <4>1 DEF AtRest
      <4>3. \A p \in Requests : ~Provisions(p, j)'
        BY <2>2, <3>0, <3>1, <4>1 DEF Provisions
      <4> QED
        BY <4>2, <4>3 DEF Settled
    <3>2. CASE j # k
      <4>1. j \in Keys \ (cut \cup {Individual})
        BY <1>2, <2>0, <3>2
      <4> QED
        BY <2>2, <2>4, <3>0, <3>2, <4>1, OthersStaySettled DEF Provisioned
    <3> QED
      BY <3>1, <3>2
  <2> QED
    BY <2>2, <2>4, <2>5
<1> QED
  BY <1>1, <1>2 DEF delete_organization

\* A call that finds the shared schema, or does not, has touched nothing yet.
LEMMA EnsurePreserves ==
  ASSUME OrganizationsInv, NEW q \in Requests, ensure_individual_schema_exists(q)
  PROVE  OrganizationsInv'
<1> USE OrganizationsAssumption DEF OrganizationsAssumption, OrganizationsInv
<1>1. PICK r : r = IF schema[Individual] = "none" THEN Asked("ensure", Individual, None)
                   ELSE [Asked("ensure", Individual, None) EXCEPT !.at = "found"]
  OBVIOUS
<1>2. /\ r \in Request /\ r.op = "ensure" /\ r.key = Individual /\ r.id = 0
      /\ r.at \in {"checked", "found"}
      /\ r.at = "found" => schema[Individual] # "none"
  <2>1. PICK a \in {"checked", "found"} :
          /\ r = [op |-> "ensure", key |-> Individual, domain |-> None, id |-> 0, at |-> a]
          /\ a = "found" => schema[Individual] # "none"
    BY <1>1 DEF Asked
  <2> QED
    BY <2>1 DEF Request
<1>3. /\ Admit(q, r)
      /\ UNCHANGED <<org, schema, ready, platform, spoilt, crossed>>
  BY <1>1 DEF ensure_individual_schema_exists, Admit
<1>4. Shaped(r) /\ crossed' \in BOOLEAN
  BY <1>2, <1>3 DEF Shaped, TypeOK
<1>5. /\ TypeOK'
      /\ req'[q] = r
      /\ \A p \in Requests : p # q => req'[p] = req[p]
      /\ RequestShape' /\ IdsDiffer' /\ Provisioned'
  BY <1>2, <1>3, <1>4, AdmissionKeeps
<1>6. SharedSchema'
  <2>1. \A p \in Requests : p # q =>
          (OnSharedSchema(p)' <=> OnSharedSchema(p)) /\ (WillBeReady(p)' <=> WillBeReady(p))
    BY <1>5 DEF OnSharedSchema, WillBeReady
  <2>2. req[q] = None
    BY <1>3 DEF Admit
  <2> QED
    BY <1>2, <1>3, <1>5, <2>1, <2>2 DEF SharedSchema, OnSharedSchema, WillBeReady
<1>7. SerialSetups'
  BY <1>2, <1>3, <1>5 DEF SerialSetups, SettingUp, At
<1> QED
  BY <1>5, <1>6, <1>7

\* A call returns only when there is a schema that somebody migrates or has
\* migrated, and complains when it leaves an empty one behind.
LEMMA ReturnPreserves ==
  ASSUME OrganizationsInv, NEW q \in Requests, EnsureReturns(q)
  PROVE  OrganizationsInv'
<1> USE OrganizationsAssumption DEF OrganizationsAssumption, OrganizationsInv
<1>1. /\ req[q] # None /\ req[q].op = "ensure" /\ Finish(q)
      /\ UNCHANGED <<org, schema, users, platform, inserted, cut, crossed>>
      /\ \/ req[q].at \in {"found", "migrated"} /\ ready' = TRUE /\ UNCHANGED spoilt
         \/ req[q].at = "failed" /\ UNCHANGED ready /\ spoilt' = (spoilt \/ LeavesEmpty(q))
  BY DEF EnsureReturns, At
<1>2. /\ req' \in [Requests -> Request \cup {None}]
      /\ req'[q] = None
      /\ \A p \in Requests : p # q => req'[p] = req[p]
      /\ RequestShape' /\ IdsDiffer' /\ SerialSetups'
  BY <1>1, FinishKeeps
<1>3. TypeOK'
  <2>1. spoilt' \in BOOLEAN
    <3>1. spoilt' = spoilt \/ spoilt' = (spoilt \/ LeavesEmpty(q))
      BY <1>1
    <3>2. spoilt \in BOOLEAN
      BY DEF TypeOK
    <3> QED
      BY <3>1, <3>2, Zenon
  <2>2. ready' \in BOOLEAN
    BY <1>1 DEF TypeOK
  <2> QED
    BY <1>1, <1>2, <2>1, <2>2 DEF TypeOK
<1>4. \A j \in Keys : ~Provisions(q, j) /\ ~Provisions(q, j)'
  BY <1>1, <1>2 DEF Provisions
<1>5. Provisioned'
  BY <1>1, <1>2, <1>4, OthersStaySettled DEF Provisioned
<1>6. SharedSchema'
  <2>1. CASE req[q].at \in {"found", "migrated"} /\ ready' = TRUE /\ UNCHANGED spoilt
    <3>1. ~spoilt => schema[Individual] # "none"
      BY <1>1, <2>1 DEF SharedSchema, WillBeReady
    <3>2. \A p \in Requests : WillBeReady(p)' => WillBeReady(p) /\ req'[p] = req[p]
      BY <1>2 DEF WillBeReady
    <3>3. \A p \in Requests : OnSharedSchema(p) => OnSharedSchema(p)'
      BY <1>2, <2>1 DEF OnSharedSchema
    <3> QED
      BY <1>1, <2>1, <3>1, <3>2, <3>3 DEF SharedSchema
  <2>2. CASE /\ req[q].at = "failed" /\ UNCHANGED ready
             /\ spoilt' = (spoilt \/ LeavesEmpty(q))
    <3>1. (spoilt => spoilt') /\ (LeavesEmpty(q) => spoilt') /\ ~WillBeReady(q)'
      BY <1>2, <2>2 DEF WillBeReady
    <3> QED
      BY <1>1, <1>2, <2>2, <3>1, SharedSchemaKept
  <2> QED
    BY <1>1, <2>1, <2>2
<1> QED
  BY <1>2, <1>3, <1>5, <1>6

\* A setup begins without an owner, and without another setup unless that is
\* recorded; its insert is then the first.
LEMMA SetupPreserves ==
  ASSUME OrganizationsInv, NEW q \in Requests, setup_platform_owner(q)
  PROVE  OrganizationsInv'
<1> USE OrganizationsAssumption DEF OrganizationsAssumption, OrganizationsInv
<1>1. CASE /\ platform = 0 /\ Admit(q, Asked("setup", None, None))
           /\ crossed' = (crossed \/ \E p \in Requests : At(p, "setup", "checked"))
  <2>1. PICK r : r = Asked("setup", None, None)
    OBVIOUS
  <2>2. /\ r \in Request /\ r.op = "setup" /\ r.key = None /\ r.id = 0
        /\ r.at = "checked"
    BY <2>1 DEF Asked, Request
  <2>3. Shaped(r)
    BY <2>2 DEF Shaped
  <2>4. crossed' \in BOOLEAN
    BY <1>1, Zenon
  <2>5. /\ TypeOK'
        /\ req'[q] = r
        /\ \A p \in Requests : p # q => req'[p] = req[p]
        /\ RequestShape' /\ IdsDiffer' /\ Provisioned'
    BY <1>1, <2>1, <2>2, <2>3, <2>4, AdmissionKeeps
  <2>6. req[q] = None /\ UNCHANGED <<schema, ready, platform, spoilt>>
    BY <1>1 DEF Admit
  <2>7. SharedSchema'
    BY <2>2, <2>5, <2>6, SharedSchemaKept DEF WillBeReady, LeavesEmpty, OnSharedSchema
  <2>8. SerialSetups'
    <3> SUFFICES ASSUME ~crossed'
                 PROVE  /\ platform <= 1 /\ platform = 0
                        /\ \A p, o \in Requests : SettingUp(p)' /\ SettingUp(o)' => p = o
      BY <2>6 DEF SerialSetups
    <3>1. \A p \in Requests : ~SettingUp(p)
      BY <1>1 DEF SettingUp
    <3>2. \A p \in Requests : SettingUp(p)' => p = q
      BY <2>5, <3>1 DEF SettingUp, At
    <3> QED
      BY <1>1, <3>2
  <2> QED
    BY <2>5, <2>7, <2>8
<1>2. CASE /\ At(q, "setup", "checked") /\ platform' = platform + 1 /\ Finish(q)
           /\ UNCHANGED <<org, schema, users, ready, inserted, cut, spoilt, crossed>>
  <2>1. \A p \in Requests : req'[p] = IF p = q THEN None ELSE req[p]
    BY <1>2 DEF Finish, TypeOK
  <2>2. TypeOK'
    <3>1. req' \in [Requests -> Request \cup {None}] /\ platform' \in Nat
      BY <1>2 DEF TypeOK, Finish
    <3> QED
      BY <1>2, <3>1 DEF TypeOK
  <2>3. RequestShape' /\ IdsDiffer'
    BY <1>2, <2>1 DEF RequestShape, Shaped, IdsDiffer
  <2>4. \A j \in Keys : ~Provisions(q, j) /\ ~Provisions(q, j)'
    BY <1>2, <2>1 DEF Provisions, At
  <2>5. Provisioned'
    BY <1>2, <2>1, <2>4, OthersStaySettled DEF Provisioned
  <2>6. SharedSchema'
    BY <1>2, <2>1, SharedSchemaKept DEF WillBeReady, LeavesEmpty, OnSharedSchema, At
  <2>7. SerialSetups'
    <3> SUFFICES ASSUME ~crossed
                 PROVE  /\ platform' <= 1
                        /\ \A p \in Requests : ~SettingUp(p)'
      BY <1>2 DEF SerialSetups
    <3>1. SettingUp(q) /\ platform = 0
      BY <1>2 DEF SerialSetups, SettingUp
    <3>2. \A p \in Requests : SettingUp(p)' => p # q /\ SettingUp(p)
      BY <2>1 DEF SettingUp, At
    <3> QED
      BY <1>2, <3>1, <3>2 DEF SerialSetups
  <2> QED
    BY <2>2, <2>3, <2>5, <2>6, <2>7
<1> QED
  BY <1>1, <1>2 DEF setup_platform_owner

\* A request that stops where it is leaves a key half done, which is then cut,
\* or the shared schema empty, which is then spoilt.
LEMMA FailurePreserves ==
  ASSUME OrganizationsInv, NEW q \in Requests, RequestFails(q)
  PROVE  OrganizationsInv'
<1> USE OrganizationsAssumption DEF OrganizationsAssumption, OrganizationsInv
<1>1. /\ Finish(q) /\ cut' = cut \cup HalfDone(q)
      /\ spoilt' = (spoilt \/ LeavesEmpty(q))
      /\ UNCHANGED <<org, schema, users, ready, platform, inserted, crossed>>
  BY DEF RequestFails
<1>2. /\ req' \in [Requests -> Request \cup {None}]
      /\ req'[q] = None
      /\ \A p \in Requests : p # q => req'[p] = req[p]
      /\ RequestShape' /\ IdsDiffer' /\ SerialSetups'
  BY <1>1, FinishKeeps
<1>3. TypeOK'
  <2>1. spoilt' \in BOOLEAN
    BY <1>1, Zenon
  <2> QED
    BY <1>1, <1>2, <2>1 DEF TypeOK, HalfDone
<1>4. Provisioned'
  BY <1>1, <1>2, OthersStaySettled DEF Provisioned, HalfDone, Provisions
<1>5. SharedSchema'
  <2>1. (spoilt => spoilt') /\ (LeavesEmpty(q) => spoilt') /\ ~WillBeReady(q)'
    BY <1>1, <1>2 DEF WillBeReady
  <2> QED
    BY <1>1, <1>2, <2>1, SharedSchemaKept
<1> QED
  BY <1>2, <1>3, <1>4, <1>5

\* When the backend stops, so do all requests.
LEMMA RestartPreserves ==
  ASSUME OrganizationsInv, BackendRestart
  PROVE  OrganizationsInv'
<1> USE OrganizationsAssumption DEF OrganizationsAssumption, OrganizationsInv
<1>1. /\ ready' = FALSE /\ \A q \in Requests : req'[q] = None
      /\ cut' = cut \cup UNION {HalfDone(q) : q \in Requests}
      /\ spoilt' = (schema[Individual] = "empty")
      /\ UNCHANGED <<org, schema, users, platform, inserted, crossed>>
  BY DEF BackendRestart
<1>2. TypeOK'
  <2>1. spoilt' \in BOOLEAN
    BY <1>1, Zenon
  <2>2. cut' \subseteq Keys
    BY <1>1 DEF TypeOK, HalfDone
  <2>3. req' \in [Requests -> Request \cup {None}]
    BY DEF BackendRestart
  <2> QED
    BY <1>1, <2>1, <2>2, <2>3 DEF TypeOK
<1>3. RequestShape' /\ IdsDiffer' /\ SerialSetups'
  BY <1>1 DEF RequestShape, IdsDiffer, SerialSetups, SettingUp, At
<1>4. \A j \in Keys, q \in Requests : Provisions(q, j) => j \in cut'
  BY <1>1 DEF HalfDone
<1>5. \A j \in Keys, q \in Requests : ~Provisions(q, j)'
  BY <1>1 DEF Provisions
<1>6. Provisioned'
  BY <1>1, <1>4, <1>5 DEF Provisioned, Settled, AtRest
<1>7. SharedSchema'
  BY <1>1 DEF SharedSchema, WillBeReady
<1> QED
  BY <1>2, <1>3, <1>6, <1>7

-----------------------------------------------------------------------------
\* Every step of a request and every restart preserves the invariant.
LEMMA OrganizationsInductive == OrganizationsInv /\ [Next]_vars => OrganizationsInv'
<1> SUFFICES ASSUME OrganizationsInv, [Next]_vars PROVE OrganizationsInv'
  OBVIOUS
<1>1. ASSUME NEW q \in Requests, register(q) PROVE OrganizationsInv'
  <2>1. PICK d \in Domains : Admit(q, Asked("org", KeyOf[d], d)) /\ UNCHANGED crossed
    BY <1>1 DEF register
  <2>2. KeyOf[d] \in Keys
    BY OrganizationsAssumption DEF OrganizationsAssumption
  <2> QED
    BY <2>1, <2>2, AskedForOrganization
<1>2. ASSUME NEW q \in Requests, create_organization(q) PROVE OrganizationsInv'
  BY <1>2, AskedForOrganization DEF create_organization
<1>3. ASSUME NEW q \in Requests, approve_waitlist(q) PROVE OrganizationsInv'
  <2>1. \E k \in Keys, d \in Domains : Admit(q, Asked("org", k, d)) /\ UNCHANGED crossed
    BY <1>3 DEF approve_waitlist
  <2> QED
    BY <2>1, AskedForOrganization
<1>4. CASE UNCHANGED vars
  <2> USE <1>4 DEF vars, OrganizationsInv
  <2>1. TypeOK' /\ RequestShape' /\ IdsDiffer'
    BY DEF TypeOK, RequestShape, Shaped, IdsDiffer
  <2>2. Provisioned'
    BY DEF Provisioned, Settled, Provisions, InStep, AtRest
  <2>3. SharedSchema' /\ SerialSetups'
    BY DEF SharedSchema, OnSharedSchema, WillBeReady, SerialSetups, SettingUp, At
  <2> QED
    BY <2>1, <2>2, <2>3
<1> QED
  BY <1>1, <1>2, <1>3, <1>4, InsertionPreserves, CreationPreserves,
     MigrationPreserves, UndoPreserves, AddOwnerPreserves, DeletionPreserves,
     EnsurePreserves, ReturnPreserves, SetupPreserves, FailurePreserves,
     RestartPreserves DEF Next, Step

\* OrganizationsInv is an invariant of the specification.
THEOREM OrganizationsInvariant == Spec => []OrganizationsInv
BY OrganizationsInitially, OrganizationsInductive, PTL DEF Spec

\* Rows, schemas, accounts and requests stay well typed, and neither a key nor
\* a domain ever has two rows (InsertOrganization checks again what the
\* endpoints have checked).
THEOREM OrganizationsTypeCorrect == Spec => []TypeOK
<1>1. OrganizationsInv => TypeOK
  BY DEF OrganizationsInv
<1> QED
  BY <1>1, OrganizationsInvariant, PTL

\* At rest an organization has its row, its schema and one account, or none of
\* them, whatever requests raced for its key or its domain, for any number of
\* keys, domains and requests (register, create_organization, approve_waitlist,
\* delete_organization), unless its provisioning was given up half way or
\* overtaken by a deletion that no later deletion has repaired.
THEOREM OrganizationsProvisioned == Spec => []ProvisionedTogether
<1>1. OrganizationsInv => ProvisionedTogether
  <2> SUFFICES ASSUME OrganizationsInv, NEW k \in Keys \ (cut \cup {Individual}),
                      \A q \in Requests : ~Provisions(q, k)
               PROVE  /\ org[k] # None <=> schema[k] = "migrated"
                      /\ org[k] = None => schema[k] = "none"
                      /\ Cardinality(users[k]) = IF org[k] = None THEN 0 ELSE 1
    BY DEF ProvisionedTogether
  <2>1. AtRest(k)
    BY DEF OrganizationsInv, Provisioned, Settled
  <2>2. Cardinality(users[k]) = IF org[k] = None THEN 0 ELSE 1
    BY <2>1, FS_EmptySet, FS_Singleton DEF AtRest
  <2> QED
    BY <2>1, <2>2 DEF AtRest
<1> QED
  BY <1>1, OrganizationsInvariant, PTL

\* The flag _individual_schema_ready is true only of a schema that is migrated
\* or about to be, also when organizations have the key of the shared schema,
\* unless that schema was left empty, or dropped while the flag was set or
\* about to be.
THEOREM SharedSchemaReady == Spec => []IndividualReady
<1>1. OrganizationsInv => IndividualReady
  <2> SUFFICES ASSUME OrganizationsInv, ready, ~spoilt,
                      \A q \in Requests : ~OnSharedSchema(q)
               PROVE  schema[Individual] = "migrated"
    BY DEF IndividualReady
  <2>1. schema[Individual] \in {"none", "empty", "migrated"}
    BY OrganizationsAssumption DEF OrganizationsAssumption, OrganizationsInv, TypeOK
  <2> QED
    BY <2>1 DEF OrganizationsInv, SharedSchema
<1> QED
  BY <1>1, OrganizationsInvariant, PTL

\* setup_platform_owner makes one owner, for any number of attempts that do
\* not overlap.
THEOREM PlatformHasOneOwner == Spec => []OnePlatformOwner
<1>1. OrganizationsInv => OnePlatformOwner
  BY DEF OrganizationsInv, SerialSetups, OnePlatformOwner, TypeOK
<1> QED
  BY <1>1, OrganizationsInvariant, PTL
=============================================================================
