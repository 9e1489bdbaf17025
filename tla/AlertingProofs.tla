--------------------------- MODULE AlertingProofs ---------------------------
(***************************************************************************)
(* Safety of Alerting for every number of tenants, servers, rules,         *)
(* records, requests and outages.                                          *)
(***************************************************************************)
EXTENDS Alerting, TLAPS

\* What the position of check_alerts says of the rule and the record in hand.
LoopInv ==
  /\ pc = "create" => current \in Rules
  /\ pc \in {"refresh", "resolve"} => found \in Records
  /\ pc = "refresh" => diag[found] = "none" /\ task[found] = "none"

\* An id that is not used has neither row, diagnosis nor task.
UnusedInv ==
  \A d \in Records : ruleOf[d] = None =>
    status[d] = "none" /\ diag[d] = "none" /\ task[d] = "none"

\* What the position of a run_diagnosis task says of its row.
TaskInv ==
  \A d \in Records : status[d] # "none" =>
    /\ task[d] = "working" => diag[d] = "loading"
    /\ task[d] = "telling" => diag[d] = "done"

\* Between the check and the insert no record of the rule opens, except by an
\* acknowledgement of a resolved one.
CreateInv ==
  pc = "create" /\ current \notin reopened =>
    \A d \in Records : ~(ruleOf[d] = current /\ status[d] \in Open)

AlertingInv ==
  /\ TypeOK
  /\ LoopInv /\ UnusedInv /\ TaskInv /\ CreateInv
  /\ OneOpenRecord /\ AlertIsAttended

-----------------------------------------------------------------------------
(* Initially.                                                              *)

LEMMA InitInv == Init => AlertingInv
BY AlertingAssumption
   DEF Init, AlertingInv, TypeOK, LoopInv, UnusedInv, TaskInv, CreateInv,
       OneOpenRecord, AlertIsAttended, Unread, Readings, Open, Stored

-----------------------------------------------------------------------------
(* Types.  The actions are grouped by the variables they change.           *)

\* The endpoints for rules keep types.
LEMMA RuleStepsType ==
  ASSUME TypeOK, NEW r \in Rules,
         CreateAlertRule(r) \/ UpdateAlertRule(r) \/ DeleteAlertRule(r)
  PROVE  TypeOK'
BY DEF TypeOK, CreateAlertRule, UpdateAlertRule, DeleteAlertRule,
       rows, loopVars, history

\* So do requests; the rule of a record that is reopened exists.
LEMMA RequestStepsType ==
  ASSUME TypeOK, UnusedInv, NEW q \in Requests, Get(q) \/ Commit(q)
  PROVE  TypeOK'
<1>1. CASE Get(q)
  BY <1>1 DEF TypeOK, Get, RequestRecord, rows, loopVars, history
<1>2. CASE Commit(q)
  <2>1. PICK x \in RequestRecord : request[q] = x
    BY <1>2 DEF Commit, TypeOK
  <2>2. /\ x.record \in Records /\ x.op \in {"acknowledged", "resolved"}
        /\ Written(q) \in Stored \cup {"none"}
    BY <2>1 DEF RequestRecord, Written, TypeOK, Stored
  <2>3. Reopens(q) => ruleOf[x.record] \in Rules
    BY <2>1, <2>2 DEF Reopens, UnusedInv, TypeOK
  <2> QED
    BY <1>2, <2>1, <2>2, <2>3 DEF Commit, TypeOK, loopVars
<1> QED
  BY <1>1, <1>2

\* So does the alert loop.
LEMMA LoopStepsType ==
  ASSUME TypeOK, LoopInv, LoopStep
  PROVE  TypeOK'
<1> USE DEF TypeOK
<1>1. CASE ListSchemas
  BY <1>1 DEF ListSchemas, rows, history
<1>2. ASSUME NEW t \in Tenants, SelectServers(t) PROVE TypeOK'
  BY <1>2, AlertingAssumption DEF SelectServers, rows, history, Readings
<1>3. ASSUME NEW s \in Servers, SelectRules(s) PROVE TypeOK'
  BY <1>3, AlertingAssumption DEF SelectRules, rows, history, Readings
<1>4. ASSUME NEW r \in Rules, CheckRule(r) PROVE TypeOK'
  BY <1>4 DEF CheckRule, ActiveRecords, rows, history
<1>5. CASE CreateRecord
  BY <1>5, AlertingAssumption
     DEF CreateRecord, LoopInv, AbandonTenant, Unread, Readings, Stored, history
<1>6. CASE Refresh
  BY <1>6, AlertingAssumption
     DEF Refresh, LoopInv, AbandonTenant, Unread, Readings, rows, history
<1>7. CASE Broadcast
  BY <1>7, AlertingAssumption
     DEF Broadcast, Continue, AbandonTenant, Unread, Readings, rows, history
<1>8. CASE ResolveRecord
  BY <1>8, AlertingAssumption
     DEF ResolveRecord, LoopInv, Continue, AbandonTenant, Unread, Readings,
         Stored, history
<1>9. CASE Sleep
  BY <1>9 DEF Sleep, rows, history
<1>10. CASE StatementFails
  BY <1>10, AlertingAssumption
     DEF StatementFails, AbandonTenant, Unread, Readings, rows, history
<1>11. CASE RefreshFails
  BY <1>11, AlertingAssumption
     DEF RefreshFails, LoopInv, AbandonTenant, Unread, Readings, rows
<1> QED
  BY <1>1, <1>2, <1>3, <1>4, <1>5, <1>6, <1>7, <1>8, <1>9, <1>10, <1>11
     DEF LoopStep

\* So do diagnoses, failures and restarts.
LEMMA DiagnosisStepsType ==
  ASSUME TypeOK, NEW d \in Records, DiagnosisStep(d)
  PROVE  TypeOK'
BY DEF TypeOK, DiagnosisStep, InsertDiagnosis, Diagnose, DiagnosisFails, Tell,
       DiagnosisBreaks, Complete, rows, loopVars, history

LEMMA OutageStepsType ==
  ASSUME TypeOK, ListSchemasFails \/ BackendRestart
  PROVE  TypeOK'
BY AlertingAssumption
   DEF TypeOK, ListSchemasFails, BackendRestart, Unread, Readings, rows,
       loopVars, history

-----------------------------------------------------------------------------
(* The other parts of the invariant.                                       *)

USE DEF Open, Stored

\* New and changed rules touch no record; a deleted rule takes its
\* records along, which opens none.
LEMMA RuleStepsInv ==
  ASSUME AlertingInv, NEW r \in Rules,
         CreateAlertRule(r) \/ UpdateAlertRule(r) \/ DeleteAlertRule(r)
  PROVE  AlertingInv'
<1>1. TypeOK'
  BY RuleStepsType DEF AlertingInv
<1>2. CASE CreateAlertRule(r) \/ UpdateAlertRule(r)
  <2>1. UNCHANGED <<ruleOf, status, diag, task, loopVars, history>>
    BY <1>2 DEF CreateAlertRule, UpdateAlertRule, rows
  <2> QED
    BY <1>1, <2>1
       DEF AlertingInv, LoopInv, UnusedInv, TaskInv, CreateInv, OneOpenRecord,
           AlertIsAttended, loopVars, history
<1>3. CASE DeleteAlertRule(r)
  <2>1. \A d \in Records :
          \/ status'[d] = status[d] /\ diag'[d] = diag[d]
          \/ status'[d] = "none" /\ diag'[d] = "none"
    BY <1>3 DEF DeleteAlertRule
  <2>2. UNCHANGED <<ruleOf, task, loopVars, history>>
    BY <1>3 DEF DeleteAlertRule
  <2>3. LoopInv' /\ UnusedInv' /\ TaskInv' /\ CreateInv'
    BY <2>1, <2>2
       DEF AlertingInv, LoopInv, UnusedInv, TaskInv, CreateInv, loopVars,
           history
  <2>4. OneOpenRecord' /\ AlertIsAttended'
    BY <2>1, <2>2
       DEF AlertingInv, OneOpenRecord, AlertIsAttended, loopVars, history
  <2> QED
    BY <1>1, <2>3, <2>4 DEF AlertingInv
<1> QED
  BY <1>2, <1>3

\* A request opens a record only by reopening it.
LEMMA RequestStepsInv ==
  ASSUME AlertingInv, NEW q \in Requests, Get(q) \/ Commit(q)
  PROVE  AlertingInv'
<1>1. TypeOK'
  BY RequestStepsType DEF AlertingInv
<1>2. CASE Get(q)
  <2>1. UNCHANGED <<ruleOf, status, diag, task, loopVars, history>>
    BY <1>2 DEF Get, rows
  <2> QED
    BY <1>1, <2>1
       DEF AlertingInv, LoopInv, UnusedInv, TaskInv, CreateInv, OneOpenRecord,
           AlertIsAttended, loopVars, history
<1>3. CASE Commit(q)
  <2>1. PICK x \in RequestRecord : request[q] = x
    BY <1>3 DEF Commit, AlertingInv, TypeOK
  <2>2. x.record \in Records
    BY DEF RequestRecord
  <2>3. UNCHANGED <<ruleOf, diag, task, loopVars, cut>>
    BY <1>3 DEF Commit
  <2>4. \A d \in Records : (status'[d] = "none") <=> (status[d] = "none")
    BY <1>3, <2>1, <2>2
       DEF Commit, Written, RequestRecord, AlertingInv, TypeOK
  <2>5. reopened \subseteq reopened'
    BY <1>3 DEF Commit
  <2>6. \A d \in Records :
          status'[d] \in Open => status[d] \in Open \/ ruleOf[d] \in reopened'
    BY <1>3, <2>1, <2>2
       DEF Commit, Written, Reopens, RequestRecord, AlertingInv, TypeOK
  <2>7. LoopInv' /\ UnusedInv' /\ TaskInv' /\ AlertIsAttended'
    BY <2>3, <2>4
       DEF AlertingInv, LoopInv, UnusedInv, TaskInv, AlertIsAttended, loopVars
  <2>8. CreateInv' /\ OneOpenRecord'
    BY <2>3, <2>5, <2>6 DEF AlertingInv, CreateInv, OneOpenRecord, loopVars
  <2> QED
    BY <1>1, <2>7, <2>8 DEF AlertingInv
<1> QED
  BY <1>2, <1>3

\* The loop inserts a record only where it found none open, and leaves no
\* record without a task unless a fault is on record.
LEMMA LoopStepsInv ==
  ASSUME AlertingInv, LoopStep
  PROVE  AlertingInv'
<1>1. TypeOK'
  BY LoopStepsType DEF AlertingInv
<1> USE DEF AlertingInv
<1>2. ASSUME UNCHANGED <<ruleOf, status, diag, task, history>>,
             pc # "refresh", pc' \in {"scan", "sleep"}
      PROVE  AlertingInv'
  BY <1>1, <1>2
     DEF LoopInv, UnusedInv, TaskInv, CreateInv, OneOpenRecord,
         AlertIsAttended, history
<1>3. CASE ListSchemas \/ Sleep
  BY <1>2, <1>3 DEF ListSchemas, Sleep, rows
<1>4. ASSUME NEW t \in Tenants, SelectServers(t) PROVE AlertingInv'
  BY <1>2, <1>4 DEF SelectServers, rows
<1>5. ASSUME NEW s \in Servers, SelectRules(s) PROVE AlertingInv'
  BY <1>2, <1>5 DEF SelectRules, rows
<1>6. ASSUME NEW r \in Rules, CheckRule(r) PROVE AlertingInv'
  <2>1. UNCHANGED <<ruleOf, status, diag, task, history>> /\ pc = "scan"
    BY <1>6 DEF CheckRule, rows
  <2>2. \/ pc' = "create" /\ current' = r /\ ActiveRecords(r) = {}
        \/ pc' = "resolve" /\ found' \in Records
        \/ pc' = "scan"
    BY <1>6 DEF CheckRule, ActiveRecords
  <2> QED
    BY <1>1, <2>1, <2>2
       DEF LoopInv, UnusedInv, TaskInv, CreateInv, OneOpenRecord,
           AlertIsAttended, ActiveRecords, history
<1>7. CASE CreateRecord
  <2>1. CASE ~RuleExists(current)
    BY <1>2, <1>7, <2>1 DEF CreateRecord, AbandonTenant
  <2>2. CASE RuleExists(current)
    <3>1. PICK e \in Records :
            /\ ruleOf[e] = None
            /\ ruleOf' = [ruleOf EXCEPT ![e] = current]
            /\ status' = [status EXCEPT ![e] = "active"]
            /\ found' = e
      BY <1>7, <2>2 DEF CreateRecord
    <3>2. /\ pc = "create" /\ pc' = "refresh" /\ current \in Rules
          /\ UNCHANGED <<diag, task, history>>
      BY <1>7, <2>2 DEF CreateRecord, LoopInv
    <3>3. \A d \in Records : d # e => ruleOf'[d] = ruleOf[d] /\ status'[d] = status[d]
      BY <3>1 DEF TypeOK
    <3>4. /\ ruleOf'[e] = current /\ status'[e] = "active"
          /\ diag[e] = "none" /\ task[e] = "none"
      BY <3>1 DEF TypeOK, UnusedInv
    <3>5. LoopInv' /\ UnusedInv' /\ TaskInv' /\ CreateInv' /\ AlertIsAttended'
      BY <3>1, <3>2, <3>3, <3>4, AlertingAssumption
         DEF LoopInv, UnusedInv, TaskInv, CreateInv, AlertIsAttended, history
    <3>6. OneOpenRecord'
      BY <3>2, <3>3, <3>4 DEF OneOpenRecord, CreateInv, history
    <3> QED
      BY <1>1, <3>5, <3>6
  <2> QED
    BY <2>1, <2>2
<1>8. CASE Refresh
  <2>1. /\ pc = "refresh" /\ found \in Records
        /\ UNCHANGED <<ruleOf, status, diag, history>>
    BY <1>8 DEF Refresh, LoopInv, rows
  <2>2. CASE status[found] # "none"
    <3>1. /\ task' = [task EXCEPT ![found] = "created"]
          /\ pc' = "broadcast"
      BY <1>8, <2>2 DEF Refresh
    <3>2. ruleOf[found] # None /\ diag[found] = "none"
      BY <2>1, <2>2 DEF UnusedInv, LoopInv
    <3> QED
      BY <1>1, <2>1, <3>1, <3>2
         DEF TypeOK, LoopInv, UnusedInv, TaskInv, CreateInv, OneOpenRecord,
             AlertIsAttended, history
  <2>3. CASE status[found] = "none"
    <3>1. pc' = "scan" /\ task' = task
      BY <1>8, <2>3 DEF Refresh, AbandonTenant
    <3> QED
      BY <1>1, <2>1, <2>3, <3>1
         DEF LoopInv, UnusedInv, TaskInv, CreateInv, OneOpenRecord,
             AlertIsAttended, history
  <2> QED
    BY <2>2, <2>3
<1>9. CASE Broadcast \/ StatementFails
  BY <1>2, <1>9
     DEF Broadcast, StatementFails, Continue, AbandonTenant, rows
<1>10. CASE ResolveRecord
  <2>1. /\ pc = "resolve" /\ pc' = "scan" /\ found \in Records
        /\ UNCHANGED <<ruleOf, diag, task, history>>
    BY <1>10 DEF ResolveRecord, LoopInv, Continue, AbandonTenant
  <2>2. \A d \in Records :
          \/ status'[d] = status[d]
          \/ status'[d] = "resolved" /\ status[d] # "none"
    BY <1>10, <2>1 DEF ResolveRecord, TypeOK
  <2> QED
    BY <1>1, <2>1, <2>2
       DEF LoopInv, UnusedInv, TaskInv, CreateInv, OneOpenRecord,
           AlertIsAttended, history
<1>11. CASE RefreshFails
  BY <1>1, <1>11
     DEF RefreshFails, AbandonTenant, LoopInv, UnusedInv, TaskInv, CreateInv,
         OneOpenRecord, AlertIsAttended, rows
<1> QED
  BY <1>3, <1>4, <1>5, <1>6, <1>7, <1>8, <1>9, <1>10, <1>11 DEF LoopStep

\* A diagnosis task ends only with its row completed, gone or cut short.
LEMMA DiagnosisStepsInv ==
  ASSUME AlertingInv, NEW d \in Records, DiagnosisStep(d)
  PROVE  AlertingInv'
<1>1. TypeOK'
  BY DiagnosisStepsType DEF AlertingInv
<1>2. UNCHANGED <<ruleOf, status, loopVars, reopened>> /\ cut \subseteq cut'
  BY DEF DiagnosisStep, InsertDiagnosis, Diagnose, DiagnosisFails, Tell,
         DiagnosisBreaks, rows, history
<1>3. \A e \in Records : e # d => diag'[e] = diag[e] /\ task'[e] = task[e]
  BY DEF AlertingInv, TypeOK, DiagnosisStep, InsertDiagnosis, Diagnose,
         DiagnosisFails, Tell, DiagnosisBreaks, Complete
<1>4. task[d] # "none" /\ ruleOf[d] # None
  BY DEF AlertingInv, UnusedInv, DiagnosisStep, InsertDiagnosis, Diagnose,
         DiagnosisFails, Tell, DiagnosisBreaks
<1>5. status[d] # "none" =>
        \/ diag'[d] = "loading" /\ task'[d] = "working"
        \/ diag'[d] = "done" /\ task'[d] \in {"telling", "none"}
        \/ diag'[d] = "failed" /\ task'[d] = "none"
        \/ d \in cut' /\ task'[d] = "none"
  BY DEF AlertingInv, TypeOK, TaskInv, DiagnosisStep, InsertDiagnosis, Diagnose,
         DiagnosisFails, Tell, DiagnosisBreaks, Complete
<1>6. LoopInv' /\ UnusedInv' /\ TaskInv'
  BY <1>2, <1>3, <1>4, <1>5
     DEF AlertingInv, LoopInv, UnusedInv, TaskInv, loopVars
<1>7. AlertIsAttended'
  BY <1>2, <1>3, <1>5 DEF AlertingInv, AlertIsAttended, loopVars
<1>8. CreateInv' /\ OneOpenRecord'
  BY <1>2 DEF AlertingInv, CreateInv, OneOpenRecord, loopVars
<1> QED
  BY <1>1, <1>6, <1>7, <1>8 DEF AlertingInv

\* A restart is on record for every diagnosis it interrupts.
LEMMA OutageStepsInv ==
  ASSUME AlertingInv, ListSchemasFails \/ BackendRestart
  PROVE  AlertingInv'
<1>1. TypeOK'
  BY OutageStepsType DEF AlertingInv
<1>2. CASE ListSchemasFails
  BY <1>1, <1>2
     DEF ListSchemasFails, AlertingInv, LoopInv, UnusedInv, TaskInv, CreateInv,
         OneOpenRecord, AlertIsAttended, rows, loopVars, history
<1>3. CASE BackendRestart
  BY <1>1, <1>3
     DEF BackendRestart, AlertingInv, TypeOK, LoopInv, UnusedInv, TaskInv,
         CreateInv, OneOpenRecord, AlertIsAttended, rows
<1> QED
  BY <1>2, <1>3

-----------------------------------------------------------------------------
(* The theorems.                                                           *)

\* The invariant that the three theorems below are parts of.
THEOREM AlertingInvariant == Spec => []AlertingInv
<1>1. AlertingInv /\ [Next]_vars => AlertingInv'
  <2> SUFFICES ASSUME AlertingInv, [Next]_vars PROVE AlertingInv'
    OBVIOUS
  <2>1. CASE LoopStep
    BY <2>1, LoopStepsInv
  <2>2. ASSUME NEW d \in Records, DiagnosisStep(d) PROVE AlertingInv'
    BY <2>2, DiagnosisStepsInv
  <2>3. ASSUME NEW q \in Requests, Get(q) \/ Commit(q) PROVE AlertingInv'
    BY <2>3, RequestStepsInv
  <2>4. ASSUME NEW s \in Servers, Telemetry(s) PROVE AlertingInv'
    <3>1. UNCHANGED <<ruleOf, status, diag, task, loopVars, history>>
      BY <2>4 DEF Telemetry, rows
    <3>2. TypeOK'
      BY <2>4 DEF AlertingInv, TypeOK, Telemetry, rows, loopVars, history
    <3> QED
      BY <3>1, <3>2
         DEF AlertingInv, LoopInv, UnusedInv, TaskInv, CreateInv,
             OneOpenRecord, AlertIsAttended, loopVars, history
  <2>5. ASSUME NEW r \in Rules,
               CreateAlertRule(r) \/ UpdateAlertRule(r) \/ DeleteAlertRule(r)
        PROVE  AlertingInv'
    BY <2>5, RuleStepsInv
  <2>6. CASE ListSchemasFails \/ BackendRestart
    BY <2>6, OutageStepsInv
  <2>7. CASE UNCHANGED vars
    BY <2>7
       DEF vars, rows, loopVars, history, AlertingInv, TypeOK, LoopInv,
           UnusedInv, TaskInv, CreateInv, OneOpenRecord, AlertIsAttended
  <2> QED
    BY <2>1, <2>2, <2>3, <2>4, <2>5, <2>6, <2>7 DEF Next
<1> QED
  BY InitInv, <1>1, PTL DEF Spec

\* The state of the alert loop, its rows and its tasks stays well typed.
THEOREM AlertingTypeCorrect == Spec => []TypeOK
<1>1. AlertingInv => TypeOK
  BY DEF AlertingInv
<1> QED
  BY AlertingInvariant, <1>1, PTL

\* check_alerts never opens a second record for a rule (alert_service.py:113);
\* only an acknowledgement of a resolved record does.
THEOREM AtMostOneOpenRecord == Spec => []OneOpenRecord
<1>1. AlertingInv => OneOpenRecord
  BY DEF AlertingInv
<1> QED
  BY AlertingInvariant, <1>1, PTL

\* run_diagnosis forgets no alert: whatever raises, the row of the diagnosis is
\* completed (diagnosis_service.py:162-168) or a fault is to blame.
THEOREM AlertsAreAttended == Spec => []AlertIsAttended
<1>1. AlertingInv => AlertIsAttended
  BY DEF AlertingInv
<1> QED
  BY AlertingInvariant, <1>1, PTL
=============================================================================
