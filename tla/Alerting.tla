------------------------------ MODULE Alerting ------------------------------
(***************************************************************************)
(* Alert rules, alert records and AI diagnoses: the background task        *)
(* check_alerts of Backend/app/services/alert_service.py, the tasks        *)
(* run_diagnosis that it starts (diagnosis_service.py) and the endpoints   *)
(* of Backend/app/api/alerts.py that change the same rows.                 *)
(*                                                                         *)
(* One action is one database statement or commit, with the assignments    *)
(* up to the next await.  The loop works on rows it read earlier in its    *)
(* pass (expire_on_commit is off, nothing is read again), and so does a    *)
(* request between its db.get and its commit; SQLAlchemy writes only the   *)
(* columns that differ from what was read, and raises if the row of an     *)
(* update is gone.  Deleting a rule deletes its records and their          *)
(* diagnoses in the same transaction.                                      *)
(*                                                                         *)
(* A reading stands for the telemetry columns of a server and a threshold  *)
(* for the configuration of a rule: the rule is breached when the reading  *)
(* is at least the threshold.  Two metrics also look at the clock, so that *)
(* a rule may be found breached although it was not when the row was read. *)
(***************************************************************************)
EXTENDS Naturals, FiniteSets

CONSTANTS
  Tenants,         \* tenant schemas
  Servers,
  Rules,           \* ids of alert rules
  Records,         \* ids of alert records, used once
  Requests,        \* requests that acknowledge or resolve a record
  None,            \* no rule, no record, no request
  TenantOf,        \* the tenant of each server
  ServerOf,        \* the server of each rule
  TimedRules,      \* rules on server_offline and ssl_expiry
  BrokenTenants,   \* tenants in whose schema statements may fail in every pass
  MaxReading,      \* bound of readings and thresholds
  MaxOutages       \* bound of restarts and of failures outside BrokenTenants

ASSUME AlertingAssumption ==
  /\ None \notin Rules /\ None \notin Records
  /\ TenantOf \in [Servers -> Tenants]
  /\ ServerOf \in [Rules -> Servers]
  /\ TimedRules \subseteq Rules
  /\ BrokenTenants \subseteq Tenants
  /\ MaxReading \in Nat /\ MaxOutages \in Nat

VARIABLES
  reading,      \* telemetry of each server, as in its row
  rule,         \* row of each rule
  threshold,    \* threshold column of each rule
  ruleOf,       \* rule_id of each record; None if the id is unused
  status,       \* status column of each record; "none" if there is no row
  diag,         \* row of each record's diagnosis
  task,         \* where the run_diagnosis task of each record is
  request,      \* what each request read, or None
  pc,           \* where check_alerts is
  tenant,       \* schema it is working on
  tenantsLeft,  \* rest of the loop over schemas
  serversLeft,  \* rest of the loop over the servers of a schema
  snapshot,     \* readings as the loop read them
  rulesLeft,    \* rest of the loop over the rules of a server
  breaching,    \* those of rulesLeft that the loop finds breached
  current,      \* rule being checked
  found,        \* record being resolved, or record just created
  outages,      \* restarts and failures outside BrokenTenants so far
  reopened,     \* history: rules with a resolved record that was acknowledged
  cut           \* history: records whose diagnosis was cut short by a fault

rows == <<rule, threshold, ruleOf, status>>
loopVars == <<pc, tenant, tenantsLeft, serversLeft, snapshot, rulesLeft,
              breaching, current, found>>
history == <<reopened, cut>>
vars == <<reading, rows, diag, task, request, loopVars, outages, history>>

-----------------------------------------------------------------------------
Readings == 0 .. MaxReading

\* AlertRecord.status; "none" while there is no row.
Open == {"active", "acknowledged"}
Stored == {"active", "acknowledged", "resolved"}

RuleExists(r) == rule[r] \in {"enabled", "disabled"}

\* Mutant: acknowledged records are not selected.
ActiveOnly(r) == {d \in Records : ruleOf[d] = r /\ status[d] = "active"}

\* The records that check_alerts selects for a rule.
ActiveRecords(r) == {d \in Records : ruleOf[d] = r /\ status[d] \in Open}

RequestRecord ==
  [op : {"acknowledged", "resolved"}, record : Records, saw : Stored]

TypeOK ==
  /\ reading \in [Servers -> Readings]
  /\ rule \in [Rules -> {"absent", "enabled", "disabled", "deleted"}]
  /\ threshold \in [Rules -> Readings]
  /\ ruleOf \in [Records -> Rules \cup {None}]
  /\ status \in [Records -> Stored \cup {"none"}]
  /\ diag \in [Records -> {"none", "loading", "done", "failed"}]
  /\ task \in [Records -> {"none", "created", "working", "telling"}]
  /\ request \in [Requests -> RequestRecord \cup {None}]
  /\ pc \in {"sleep", "scan", "create", "refresh", "broadcast", "resolve"}
  /\ tenant \in Tenants \cup {None}
  /\ tenantsLeft \subseteq Tenants
  /\ serversLeft \subseteq Servers
  /\ snapshot \in [Servers -> Readings]
  /\ rulesLeft \subseteq Rules
  /\ breaching \subseteq Rules
  /\ current \in Rules \cup {None}
  /\ found \in Records \cup {None}
  /\ outages \in 0 .. MaxOutages
  /\ reopened \subseteq Rules
  /\ cut \subseteq Records

Unread == [s \in Servers |-> 0]

Init ==
  /\ reading = Unread
  /\ rule = [r \in Rules |-> "absent"]
  /\ threshold = [r \in Rules |-> 0]
  /\ ruleOf = [d \in Records |-> None]
  /\ status = [d \in Records |-> "none"]
  /\ diag = [d \in Records |-> "none"]
  /\ task = [d \in Records |-> "none"]
  /\ request = [q \in Requests |-> None]
  /\ pc = "sleep" /\ tenant = None
  /\ tenantsLeft = {} /\ serversLeft = {} /\ rulesLeft = {} /\ breaching = {}
  /\ snapshot = Unread
  /\ current = None /\ found = None
  /\ outages = 0
  /\ reopened = {} /\ cut = {}

-----------------------------------------------------------------------------
(* Telemetry and the endpoints for rules.                                  *)

\* _handle_telemetry and _handle_scan overwrite the columns of a server.
Telemetry(s) ==
  /\ \E v \in Readings : reading' = [reading EXCEPT ![s] = v]
  /\ UNCHANGED <<rows, diag, task, request, loopVars, outages, history>>

\* A server with rules has a row: deleting it would set the not-null
\* server_id of its rules to NULL and fails.
CreateAlertRule(r) ==
  /\ rule[r] = "absent"
  /\ rule' = [rule EXCEPT ![r] = "enabled"]
  /\ \E v \in Readings : threshold' = [threshold EXCEPT ![r] = v]
  /\ UNCHANGED <<reading, ruleOf, status, diag, task, request, loopVars,
                 outages, history>>

UpdateAlertRule(r) ==
  /\ RuleExists(r)
  /\ \E e \in {"enabled", "disabled"} : rule' = [rule EXCEPT ![r] = e]
  /\ \E v \in Readings : threshold' = [threshold EXCEPT ![r] = v]
  /\ UNCHANGED <<reading, ruleOf, status, diag, task, request, loopVars,
                 outages, history>>

\* The delete cascades to the records of the rule and to their diagnoses.
DeleteAlertRule(r) ==
  /\ RuleExists(r)
  /\ rule' = [rule EXCEPT ![r] = "deleted"]
  /\ status' = [d \in Records |-> IF ruleOf[d] = r THEN "none" ELSE status[d]]
  /\ diag' = [d \in Records |-> IF ruleOf[d] = r THEN "none" ELSE diag[d]]
  /\ UNCHANGED <<reading, threshold, ruleOf, task, request, loopVars, outages,
                 history>>

-----------------------------------------------------------------------------
(* acknowledge_alert and resolve_alert: read the row, then commit.         *)

Get(q) ==
  /\ request[q] = None
  /\ \E d \in Records, op \in {"acknowledged", "resolved"} :
       /\ status[d] \in Stored
       /\ request' = [request EXCEPT
                        ![q] = [op |-> op, record |-> d, saw |-> status[d]]]
  /\ UNCHANGED <<reading, rows, diag, task, loopVars, outages, history>>

\* The status is written unless the row already had it when it was read.
Written(q) ==
  IF request[q].saw = request[q].op \/ status[request[q].record] = "none"
    THEN status[request[q].record] ELSE request[q].op

Reopens(q) ==
  /\ status[request[q].record] = "resolved"
  /\ Written(q) = "acknowledged"

Commit(q) ==
  /\ request[q] # None
  /\ status' = [status EXCEPT ![request[q].record] = Written(q)]
  /\ reopened' = IF Reopens(q) THEN reopened \cup {ruleOf[request[q].record]}
                 ELSE reopened
  /\ request' = [request EXCEPT ![q] = None]
  /\ UNCHANGED <<reading, rule, threshold, ruleOf, diag, task, loopVars,
                 outages, cut>>

-----------------------------------------------------------------------------
(* check_alerts: schemas, servers of a schema, rules of a server.          *)

ListSchemas ==
  /\ pc = "sleep"
  /\ pc' = "scan"
  /\ tenantsLeft' = Tenants
  /\ UNCHANGED <<reading, rows, diag, task, request, tenant, serversLeft, snapshot,
                 rulesLeft, breaching, current, found, outages, history>>

\* The listing fails: no schemas this time.
ListSchemasFails ==
  /\ pc = "sleep"
  /\ outages < MaxOutages
  /\ outages' = outages + 1
  /\ UNCHANGED <<reading, rows, diag, task, request, loopVars, history>>

\* A session for the next schema; the servers that have an enabled rule.
SelectServers(t) ==
  /\ pc = "scan" /\ serversLeft = {} /\ rulesLeft = {}
  /\ t \in tenantsLeft
  /\ tenant' = t
  /\ tenantsLeft' = tenantsLeft \ {t}
  /\ serversLeft' = {s \in Servers : /\ TenantOf[s] = t
                                     /\ \E r \in Rules : /\ ServerOf[r] = s
                                                         /\ rule[r] = "enabled"}
  /\ snapshot' = [s \in Servers |->
                    IF s \in serversLeft' THEN reading[s] ELSE 0]
  /\ UNCHANGED <<reading, rows, diag, task, request, pc, rulesLeft, breaching,
                 current, found, outages, history>>

\* The enabled rules of the next server, evaluated against the row read above.
SelectRules(s) ==
  /\ pc = "scan" /\ rulesLeft = {}
  /\ s \in serversLeft
  /\ serversLeft' = serversLeft \ {s}
  /\ rulesLeft' = {r \in Rules : ServerOf[r] = s /\ rule[r] = "enabled"}
  /\ breaching' = {r \in rulesLeft' : snapshot[s] >= threshold[r]}
  /\ snapshot' = [snapshot EXCEPT ![s] = 0]
  /\ UNCHANGED <<reading, rows, diag, task, request, pc, tenant, tenantsLeft,
                 current, found, outages, history>>

\* Bound: once all ids of records are used, the loop passes over new breaches.
IdsLeft == \E d \in Records : ruleOf[d] = None

MayBeBreached(r) == r \in breaching \cup TimedRules

\* evaluate_rule, and the first open record of the rule in no given order.
CheckRule(r) ==
  /\ pc = "scan"
  /\ r \in rulesLeft
  /\ rulesLeft' = rulesLeft \ {r}
  /\ breaching' = breaching \ {r}
  /\ \/ /\ MayBeBreached(r) /\ ActiveRecords(r) = {} /\ IdsLeft
        /\ pc' = "create" /\ current' = r
        /\ UNCHANGED found
     \/ /\ r \notin breaching
        /\ \E d \in ActiveRecords(r) : found' = d
        /\ pc' = "resolve"
        /\ UNCHANGED current
     \/ /\ IF ActiveRecords(r) = {} THEN r \notin breaching \/ ~IdsLeft
                                   ELSE MayBeBreached(r)
        /\ UNCHANGED <<pc, current, found>>
  /\ UNCHANGED <<reading, rows, diag, task, request, tenant, tenantsLeft,
                 serversLeft, snapshot, outages, history>>

\* Every schema is done: asyncio.sleep(60).
Sleep ==
  /\ pc = "scan"
  /\ tenantsLeft = {} /\ serversLeft = {} /\ rulesLeft = {}
  /\ pc' = "sleep" /\ tenant' = None
  /\ UNCHANGED <<reading, rows, diag, task, request, tenantsLeft, serversLeft,
                 snapshot, rulesLeft, breaching, current, found, outages,
                 history>>

\* Back in the loop over the rules.
Continue ==
  /\ pc' = "scan"
  /\ current' = None /\ found' = None
  /\ UNCHANGED <<tenant, tenantsLeft, serversLeft, snapshot, rulesLeft,
                 breaching>>

\* Mutant: the exception ends the whole pass.
AbandonPass ==
  /\ pc' = "scan"
  /\ tenantsLeft' = {} /\ serversLeft' = {} /\ rulesLeft' = {} /\ breaching' = {}
  /\ snapshot' = Unread
  /\ current' = None /\ found' = None
  /\ UNCHANGED tenant

\* An exception: the rest of this schema is left, the next one is tried.
AbandonTenant ==
  /\ pc' = "scan"
  /\ serversLeft' = {} /\ rulesLeft' = {} /\ breaching' = {}
  /\ snapshot' = Unread
  /\ current' = None /\ found' = None
  /\ UNCHANGED <<tenant, tenantsLeft>>

\* The insert of a new record and its commit; it is refused if the rule has
\* been deleted since it was read.
CreateRecord ==
  /\ pc = "create"
  /\ \/ /\ RuleExists(current)
        /\ \E d \in Records :
             /\ ruleOf[d] = None
             /\ ruleOf' = [ruleOf EXCEPT ![d] = current]
             /\ status' = [status EXCEPT ![d] = "active"]
             /\ found' = d
        /\ pc' = "refresh"
        /\ UNCHANGED <<tenant, tenantsLeft, serversLeft, snapshot, rulesLeft,
                       breaching, current>>
     \/ /\ ~RuleExists(current)
        /\ AbandonTenant
        /\ UNCHANGED <<ruleOf, status>>
  /\ UNCHANGED <<reading, rule, threshold, diag, task, request, outages,
                 history>>

\* db.refresh, which raises if the record is gone, then create_task.
Refresh ==
  /\ pc = "refresh"
  /\ \/ /\ status[found] # "none"
        /\ task' = [task EXCEPT ![found] = "created"]
        /\ pc' = "broadcast"
        /\ UNCHANGED <<tenant, tenantsLeft, serversLeft, snapshot, rulesLeft,
                       breaching, current, found>>
     \/ /\ status[found] = "none"
        /\ AbandonTenant
        /\ UNCHANGED task
  /\ UNCHANGED <<reading, rows, diag, request, outages, history>>

\* forward_to_watchers returns, or raises because its set has changed.
Broadcast ==
  /\ pc = "broadcast"
  /\ Continue \/ AbandonTenant
  /\ UNCHANGED <<reading, rows, diag, task, request, outages, history>>

\* The update of the record found open; it raises if the record is gone.
ResolveRecord ==
  /\ pc = "resolve"
  /\ \/ /\ status[found] # "none"
        /\ status' = [status EXCEPT ![found] = "resolved"]
        /\ Continue
     \/ /\ status[found] = "none"
        /\ AbandonTenant
        /\ UNCHANGED status
  /\ UNCHANGED <<reading, rule, threshold, ruleOf, diag, task, request, outages,
                 history>>

\* A statement raises: again and again in a broken schema, now and then in
\* another.
StatementFails ==
  /\ pc \in {"scan", "create", "resolve"} /\ tenant # None
  /\ \/ tenant \in BrokenTenants /\ UNCHANGED outages
     \/ outages < MaxOutages /\ outages' = outages + 1
  /\ AbandonTenant
  /\ UNCHANGED <<reading, rows, diag, task, request, history>>

\* db.refresh raises although the record is there: nobody starts a diagnosis.
RefreshFails ==
  /\ pc = "refresh"
  /\ cut' = cut \cup {found}
  /\ AbandonTenant
  /\ UNCHANGED <<reading, rows, diag, task, request, outages, reopened>>

-----------------------------------------------------------------------------
(* run_diagnosis.                                                          *)

\* The insert of the diagnosis, outside the try: it raises if the alert
\* record is gone.
InsertDiagnosis(d) ==
  /\ task[d] = "created"
  /\ \/ /\ status[d] # "none"
        /\ diag' = [diag EXCEPT ![d] = "loading"]
        /\ task' = [task EXCEPT ![d] = "working"]
     \/ /\ status[d] = "none"
        /\ task' = [task EXCEPT ![d] = "none"]
        /\ UNCHANGED diag
  /\ UNCHANGED <<reading, rows, request, loopVars, outages, history>>

\* The commit of a completed or failed diagnosis and then its broadcast; if
\* the row is gone the commit raises, and so does the one in the handler.
Complete(d, result) ==
  \/ /\ diag[d] # "none"
     /\ diag' = [diag EXCEPT ![d] = result]
     /\ task' = [task EXCEPT ![d] = IF result = "done" THEN "telling" ELSE "none"]
  \/ /\ diag[d] = "none"
     /\ task' = [task EXCEPT ![d] = "none"]
     /\ UNCHANGED diag

\* Logs, services and audit log are collected and the model answers.
Diagnose(d) ==
  /\ task[d] = "working"
  /\ Complete(d, "done")
  /\ UNCHANGED <<reading, rows, request, loopVars, outages, history>>

\* Mutant: the handler logs the failure and does not record it.
FailureUnrecorded(d) ==
  /\ task[d] = "working"
  /\ task' = [task EXCEPT ![d] = "none"]
  /\ UNCHANGED <<reading, rows, diag, request, loopVars, outages, history>>

\* A row is missing, no key is set, the request fails or its answer cannot be
\* parsed: the handler records the failure.  How its own broadcast ends does
\* not matter, the task ends with it.
DiagnosisFails(d) ==
  /\ task[d] = "working"
  /\ Complete(d, "failed")
  /\ UNCHANGED <<reading, rows, request, loopVars, outages, history>>

\* The broadcast of the result returns, or raises within the try, and the
\* handler then records a failure.
Tell(d) ==
  /\ task[d] = "telling"
  /\ \/ /\ task' = [task EXCEPT ![d] = "none"]
        /\ UNCHANGED diag
     \/ Complete(d, "failed")
  /\ UNCHANGED <<reading, rows, request, loopVars, outages, history>>

\* A statement raises; after it the session cannot commit, so the handler
\* cannot record the failure either.
DiagnosisBreaks(d) ==
  /\ task[d] \in {"created", "working"}
  /\ task' = [task EXCEPT ![d] = "none"]
  /\ cut' = cut \cup {d}
  /\ UNCHANGED <<reading, rows, diag, request, loopVars, outages, reopened>>

-----------------------------------------------------------------------------
\* The process stops; the new one starts check_alerts and knows of no task.
BackendRestart ==
  /\ outages < MaxOutages
  /\ outages' = outages + 1
  /\ cut' = cut \cup {d \in Records : \/ task[d] \in {"created", "working"}
                                      \/ pc = "refresh" /\ found = d}
  /\ task' = [d \in Records |-> "none"]
  /\ request' = [q \in Requests |-> None]
  /\ pc' = "sleep" /\ tenant' = None
  /\ tenantsLeft' = {} /\ serversLeft' = {} /\ rulesLeft' = {}
  /\ breaching' = {}
  /\ snapshot' = Unread
  /\ current' = None /\ found' = None
  /\ UNCHANGED <<reading, rows, diag, reopened>>

LoopStep ==
  \/ ListSchemas
  \/ \E t \in Tenants : SelectServers(t)
  \/ \E s \in Servers : SelectRules(s)
  \/ \E r \in Rules : CheckRule(r)
  \/ CreateRecord \/ Refresh \/ Broadcast \/ ResolveRecord \/ Sleep
  \/ StatementFails \/ RefreshFails

DiagnosisStep(d) ==
  \/ InsertDiagnosis(d) \/ Diagnose(d) \/ DiagnosisFails(d) \/ Tell(d)
  \/ DiagnosisBreaks(d)

Next ==
  \/ LoopStep
  \/ \E d \in Records : DiagnosisStep(d)
  \/ \E q \in Requests : Get(q) \/ Commit(q)
  \/ \E s \in Servers : Telemetry(s)
  \/ \E r \in Rules : CreateAlertRule(r) \/ UpdateAlertRule(r) \/ DeleteAlertRule(r)
  \/ ListSchemasFails \/ BackendRestart

Spec == Init /\ [][Next]_vars

\* The event loop resumes the alert task and the diagnoses: every statement,
\* command, HTTP request and sleep has a timeout or an answer.
Fairness ==
  /\ WF_vars(LoopStep)
  /\ \A d \in Records : WF_vars(DiagnosisStep(d))

FairSpec == Spec /\ Fairness

-----------------------------------------------------------------------------
(* Properties.                                                             *)

\* A rule has at most one open record, although the check for one and the
\* insert of another are two statements with requests, deletions and restarts
\* in between (alert_service.py:108-126), unless somebody acknowledged a
\* resolved record of it, which reopens it (alerts.py:198).
OneOpenRecord ==
  \A d, e \in Records :
    /\ status[d] \in Open /\ status[e] \in Open
    /\ ruleOf[d] = ruleOf[e] /\ ruleOf[d] \notin reopened
    => d = e

\* Every alert is attended to: its diagnosis has ended, or a task is working on
\* it, or check_alerts is about to start one (diagnosis_service.py:25-31 and
\* 162-168), unless a fault cut that short.
AlertIsAttended ==
  \A d \in Records : status[d] # "none" =>
    \/ diag[d] \in {"done", "failed"}
    \/ diag[d] = "loading" /\ task[d] = "working"
    \/ diag[d] = "none" /\ task[d] = "created"
    \/ diag[d] = "none" /\ pc = "refresh" /\ found = d
    \/ d \in cut

\* No diagnosis of a record stays in the state "loading", the spinner of the
\* dashboard: it ends, well or not, is deleted, or was cut short by a fault.
DiagnosisEnds ==
  \A d \in Records :
    status[d] # "none" ~> \/ diag[d] \in {"done", "failed"}
                          \/ status[d] = "none"
                          \/ d \in cut

\* The rule is enabled with threshold h, and its server's reading reaches it.
Breached(r, h) ==
  rule[r] = "enabled" /\ threshold[r] = h /\ reading[ServerOf[r]] >= h

HealthyRules == {r \in Rules : TenantOf[ServerOf[r]] \notin BrokenTenants}

\* A breach that lasts is reported, although the loop works on rows read
\* earlier, other rules make it abandon the schema, and the schemas of other
\* tenants fail in every pass: "One broken tenant must not stop checks for the
\* rest" (alert_service.py:86).  The threshold must last too: the loop may read
\* the server before and the rule after a change of both.  Ids of records are
\* bounded.
BreachIsReported ==
  \A r \in HealthyRules, h \in Readings :
    Breached(r, h) ~> \/ \E d \in Records : ruleOf[d] = r /\ status[d] \in Open
                      \/ ~Breached(r, h)
                      \/ ~IdsLeft

\* When a rule is no longer breached its open records are resolved in the end
\* (alert_service.py:153-158), acknowledged ones too, unless resolved ones are
\* acknowledged again and again.
ClearedIsResolved ==
  \A r \in HealthyRules \ TimedRules :
    \/ []<>(rule[r] # "enabled" \/ \E h \in Readings : Breached(r, h))
    \/ []<><<\E q \in Requests : /\ Commit(q)
                                /\ Reopens(q) /\ ruleOf[request[q].record] = r>>_vars
    \/ <>[](\A d \in Records : ruleOf[d] = r => status[d] \notin Open)
=============================================================================
