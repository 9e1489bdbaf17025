--------------------------- MODULE CommandBridge ---------------------------
(***************************************************************************)
(* Commands from callers to agents: send_command_to_agent, resolve_command *)
(* and execute_on_server of Backend/app/services/command_bridge.py, the    *)
(* "command" message of Backend/app/ws/client_handler.py and the REST      *)
(* endpoints that call them, the _listen loop of the agent, and the        *)
(* registry of AgentRegistry they all depend on.                           *)
(*                                                                         *)
(* A call is one run of send_command_to_agent and the future it creates.   *)
(* A caller is a browser's websocket handler (WsCalls), a REST request or  *)
(* the diagnosis of an alert.                                              *)
(* What a command does and what its response says are abstracted: a        *)
(* response is identified by the call whose command was carried out, which *)
(* is what the properties tell apart.  The order in which an agent takes   *)
(* commands off one connection is left open.                               *)
(***************************************************************************)
EXTENDS AgentRegistry

CONSTANTS
  Calls,     \* calls made while the model runs
  WsCalls,   \* those made by browsers over /ws/client,
  LogCalls,  \* and those made by GET /api/logs through execute_on_server; the
             \* rest are the SQL explorer's and run_diagnosis's
  CmdIds,    \* values of the "id" of a command
  FreshIds   \* does every browser choose ids no other call has used?  The
             \* backend's own ids are uuids, and always fresh.

ASSUME CallsAssumption ==
  None \notin Calls /\ WsCalls \subseteq Calls /\ LogCalls \subseteq Calls \ WsCalls
ASSUME CmdIdsAssumption == None \notin CmdIds
ASSUME FreshIdsAssumption == FreshIds \in BOOLEAN

VARIABLES
  phase,     \* where each caller is
  to,        \* server the call is for
  cid,       \* id the call goes by
  ws,        \* the websocket send_command_to_agent looked up
  net,       \* where the command, then its response, is on that websocket
  at,        \* server whose agent the command was delivered to
  executed,  \* calls whose command an agent has carried out
  pending_commands,  \* cmd_id -> future (the call that created it)
  answer,    \* result of the future: the call whose response it holds
  outcome,   \* what the caller was told
  audited    \* calls recorded in audit_logs

bridgeVars == <<phase, to, cid, ws, net, at, executed, pending_commands,
                answer, outcome, audited>>
vars == <<registryVars, bridgeVars>>

Phases ==
  {"idle",
   "loaded",     \* past authorization; about to call send_command_to_agent
   "sending",    \* in await ws.send_text
   "waiting",    \* in wait_for, the future not done
   "answered",   \* the future has a result, the caller has not resumed
   "cancelled",  \* the timer has fired, the caller has not resumed
   "auditing",   \* result sent to the browser, audit record not committed
   "done"}

Outcomes == {"none", "refused", "not_connected", "send_failed", "timeout",
             "crashed", "answered"}

(***************************************************************************)
(* The type of the state of the bridge.                                    *)
(***************************************************************************)
BridgeTypeOK ==
  /\ phase \in [Calls -> Phases]
  /\ to \in [Calls -> Servers \cup {None}]
  /\ cid \in [Calls -> CmdIds \cup {None}]
  /\ ws \in [Calls -> Conns \cup {None}]
  /\ net \in [Calls -> {"none", "down", "up", "gone"}]
  /\ at \in [Calls -> Servers \cup {None}]
  /\ executed \in SUBSET Calls
  /\ pending_commands \in [CmdIds -> Calls \cup {None}]
  /\ answer \in [Calls -> Calls \cup {None}]
  /\ outcome \in [Calls -> Outcomes]
  /\ audited \in SUBSET Calls

BridgeInit ==
  /\ Init
  /\ phase = [k \in Calls |-> "idle"]
  /\ to = [k \in Calls |-> None]
  /\ cid = [k \in Calls |-> None]
  /\ ws = [k \in Calls |-> None]
  /\ net = [k \in Calls |-> "none"]
  /\ at = [k \in Calls |-> None]
  /\ executed = {}
  /\ pending_commands = [i \in CmdIds |-> None]
  /\ answer = [k \in Calls |-> None]
  /\ outcome = [k \in Calls |-> "none"]
  /\ audited = {}

-----------------------------------------------------------------------------
(***************************************************************************)
(* The caller.                                                             *)
(***************************************************************************)

MoveTo(k, from, next) ==
  /\ phase[k] = from
  /\ phase' = [phase EXCEPT ![k] = next]

Finish(k, from, result) ==
  /\ MoveTo(k, from, "done")
  /\ outcome' = [outcome EXCEPT ![k] = result]

\* _authorize: a browser may have been authorized for the server on this
\* connection before the row was deleted.
Authorized(s) == row[s] # "absent"

\* fetch_logs reads the row, and execute_on_server its is_online.
Online(s) == row[s] = "present" /\ is_online[s]

\* A request for server s passes the checks made before dispatch.  The SQL
\* explorer and run_diagnosis leave it to send_command_to_agent to find out
\* whether there is such a server.
Admit(k, s) ==
  /\ MoveTo(k, "idle", "loaded")
  /\ k \in WsCalls => Authorized(s)
  /\ k \in LogCalls => Online(s)
  /\ to' = [to EXCEPT ![k] = s]
  /\ UNCHANGED <<registryVars, cid, ws, net, at, executed, pending_commands,
                 answer, outcome, audited>>

\* ... or it does not: not authorized, no such server, a module that is
\* disabled for the user, or marked offline.
Reject(k, s) ==
  /\ Finish(k, "idle", "refused")
  /\ k \in WsCalls \cup LogCalls
  /\ to' = [to EXCEPT ![k] = s]
  /\ UNCHANGED <<registryVars, cid, ws, net, at, executed, pending_commands,
                 answer, audited>>

\* The id of a call: a uuid, or whatever the browser sent.
MayUse(k, i) == FreshIds \/ k \notin WsCalls => \A j \in Calls : cid[j] # i

\* Mutant of Dispatch: any connected agent will do.
DispatchAnywhere(k, i) ==
  /\ MoveTo(k, "loaded", "sending")
  /\ MayUse(k, i)
  /\ \E s \in Servers :
       /\ agent_by_server_id[s] # None
       /\ ws' = [ws EXCEPT ![k] = agent_by_server_id[s]]
  /\ cid' = [cid EXCEPT ![k] = i]
  /\ pending_commands' = [pending_commands EXCEPT ![i] = k]
  /\ UNCHANGED <<registryVars, to, net, at, executed, answer, outcome, audited>>

\* send_command_to_agent up to its first await: the lookup, the future.
Dispatch(k, i) ==
  /\ MoveTo(k, "loaded", "sending")
  /\ agent_by_server_id[to[k]] # None
  /\ MayUse(k, i)
  /\ ws' = [ws EXCEPT ![k] = agent_by_server_id[to[k]]]
  /\ cid' = [cid EXCEPT ![k] = i]
  /\ pending_commands' = [pending_commands EXCEPT ![i] = k]
  /\ UNCHANGED <<registryVars, to, net, at, executed, answer, outcome, audited>>

\* raise ConnectionError
NotConnected(k) ==
  /\ Finish(k, "loaded", "not_connected")
  /\ agent_by_server_id[to[k]] = None
  /\ UNCHANGED <<registryVars, to, cid, ws, net, at, executed,
                 pending_commands, answer, audited>>

\* The agent at the other end of a websocket, if the link still stands.
AgentAt(c) == {s \in Servers : link[s] = c}

\* await ws.send_text returns.  The command is on its way to the agent, or
\* lost in the buffers of a connection that is no more.  The caller goes on
\* to wait_for, which does not wait if the future is done already.
SendText(k) ==
  /\ MoveTo(k, "sending", IF answer[k] = None THEN "waiting" ELSE "answered")
  /\ \/ /\ AgentAt(ws[k]) = {}
        /\ net' = [net EXCEPT ![k] = "gone"]
        /\ UNCHANGED at
     \/ \E s \in AgentAt(ws[k]) :
          /\ net' = [net EXCEPT ![k] = "down"]
          /\ at' = [at EXCEPT ![k] = s]
  /\ UNCHANGED <<registryVars, to, cid, ws, executed, pending_commands, answer,
                 outcome, audited>>

\* await ws.send_text raises, outside the try: the future stays in
\* pending_commands.
SendFails(k) ==
  /\ Finish(k, "sending", "send_failed")
  /\ AgentAt(ws[k]) = {}
  /\ UNCHANGED <<registryVars, to, cid, ws, net, at, executed,
                 pending_commands, answer, audited>>

\* Mutant of TimerFires: the future is awaited without a timeout.
TimerNeverSet(k) ==
  /\ MoveTo(k, "answered", "cancelled")
  /\ UNCHANGED <<registryVars, to, cid, ws, net, at, executed,
                 pending_commands, answer, outcome, audited>>

\* The timer of wait_for fires: it cancels the future, or, when that has its
\* result but the caller has not resumed yet, the caller itself.
TimerFires(k) ==
  /\ \/ MoveTo(k, "waiting", "cancelled")
     \/ MoveTo(k, "answered", "cancelled")
  /\ UNCHANGED <<registryVars, to, cid, ws, net, at, executed,
                 pending_commands, answer, outcome, audited>>

\* Mutant of TimeoutRaised: the future is not dropped.
TimeoutKeepsFuture(k) ==
  /\ Finish(k, "cancelled", "timeout")
  /\ UNCHANGED <<registryVars, to, cid, ws, net, at, executed,
                 pending_commands, answer, audited>>

\* Mutant of TimeoutRaised: the exception is swallowed, and None returned as
\* if it were the agent's response.
TimeoutSwallowed(k) ==
  /\ Finish(k, "cancelled", "answered")
  /\ pending_commands' = [pending_commands EXCEPT ![cid[k]] = None]
  /\ UNCHANGED <<registryVars, to, cid, ws, net, at, executed, answer, audited>>

\* Mutant of TimeoutRaised: a command is recorded even if nobody knows what
\* became of it.
TimeoutRecorded(k) ==
  /\ Finish(k, "cancelled", "timeout")
  /\ pending_commands' = [pending_commands EXCEPT ![cid[k]] = None]
  /\ audited' = audited \cup {k}
  /\ UNCHANGED <<registryVars, to, cid, ws, net, at, executed, answer>>

\* except asyncio.TimeoutError: whatever future the id has is dropped.
TimeoutRaised(k) ==
  /\ Finish(k, "cancelled", "timeout")
  /\ pending_commands' = [pending_commands EXCEPT ![cid[k]] = None]
  /\ UNCHANGED <<registryVars, to, cid, ws, net, at, executed, answer, audited>>

\* wait_for returns.  REST responds; a browser is sent the result, and the
\* audit record follows.
ReturnResult(k) ==
  /\ MoveTo(k, "answered", IF k \in WsCalls THEN "auditing" ELSE "done")
  /\ outcome' = [outcome EXCEPT ![k] = "answered"]
  /\ UNCHANGED <<registryVars, to, cid, ws, net, at, executed,
                 pending_commands, answer, audited>>

\* The browser has gone: send_json raises, as does the error reply, and the
\* handler ends without an audit record.
BrowserGone(k) ==
  /\ k \in WsCalls
  /\ Finish(k, "answered", "answered")
  /\ UNCHANGED <<registryVars, to, cid, ws, net, at, executed,
                 pending_commands, answer, audited>>

\* record_audit and commit ...
WriteAudit(k) ==
  /\ MoveTo(k, "auditing", "done")
  /\ audited' = audited \cup {k}
  /\ UNCHANGED <<registryVars, to, cid, ws, net, at, executed,
                 pending_commands, answer, outcome>>

\* ... or the database fails, and the browser is sent an error as well.
AuditFails(k) ==
  /\ MoveTo(k, "auditing", "done")
  /\ UNCHANGED <<registryVars, to, cid, ws, net, at, executed,
                 pending_commands, answer, outcome, audited>>

-----------------------------------------------------------------------------
(***************************************************************************)
(* The agent and the connection.                                           *)
(***************************************************************************)

\* _listen takes a command, carries it out and sends the response.  Commands
\* it had received before the link failed are still carried out; their
\* responses go nowhere.
AgentExecute(k) ==
  /\ net[k] = "down"
  /\ executed' = executed \cup {k}
  /\ net' = [net EXCEPT ![k] = IF AgentAt(ws[k]) = {} THEN "gone" ELSE "up"]
  /\ UNCHANGED <<registryVars, phase, to, cid, ws, at, pending_commands, answer,
                 outcome, audited>>

\* A command or a response is lost with its connection.
Lose(k) ==
  /\ net[k] \in {"down", "up"}
  /\ AgentAt(ws[k]) = {}
  /\ net' = [net EXCEPT ![k] = "gone"]
  /\ UNCHANGED <<registryVars, phase, to, cid, ws, at, executed,
                 pending_commands, answer, outcome, audited>>

FutureDone(f) ==
  answer[f] # None \/ phase[f] = "cancelled" \/ outcome[f] = "timeout"

\* The handler of the agent's connection receives the response of k, and
\* calls resolve_command: the future of its id is popped and, unless it is
\* done, gets the response.
ResolveCommand(k) ==
  LET f == pending_commands[cid[k]] IN
  /\ net[k] = "up"
  /\ handler[ws[k]] = "loop"
  /\ net' = [net EXCEPT ![k] = "gone"]
  /\ pending_commands' = [pending_commands EXCEPT ![cid[k]] = None]
  /\ IF f # None /\ ~FutureDone(f)
       THEN /\ answer' = [answer EXCEPT ![f] = k]
            /\ phase' = [phase EXCEPT ![f] =
                           IF @ = "waiting" THEN "answered" ELSE @]
       ELSE UNCHANGED <<answer, phase>>
  /\ UNCHANGED <<registryVars, to, cid, ws, at, executed, outcome, audited>>

-----------------------------------------------------------------------------
(***************************************************************************)
(* Steps of the registry.                                                  *)
(***************************************************************************)

\* A websocket object in use by a call is not the object of a new connection.
InUse(c) ==
  \E k \in Calls :
    ws[k] = c /\ (phase[k] = "sending" \/ net[k] \in {"down", "up"})

AcceptFresh(c, s) == Accept(c, s) /\ ~InUse(c) /\ UNCHANGED bridgeVars

\* The backend stops: callers and futures are gone.
BridgeRestart ==
  /\ BackendRestart
  /\ pending_commands' = [i \in CmdIds |-> None]
  /\ phase' = [k \in Calls |-> IF phase[k] = "idle" THEN "idle" ELSE "done"]
  /\ outcome' = [k \in Calls |->
                   IF phase[k] # "idle" /\ outcome[k] = "none"
                     THEN "crashed" ELSE outcome[k]]
  /\ UNCHANGED <<to, cid, ws, net, at, executed, answer, audited>>

CallerStep(k) ==
  \/ \E i \in CmdIds : Dispatch(k, i)
  \/ NotConnected(k)
  \/ SendText(k) \/ SendFails(k)
  \/ TimerFires(k) \/ TimeoutRaised(k)
  \/ ReturnResult(k) \/ BrowserGone(k) \/ WriteAudit(k) \/ AuditFails(k)

BridgeNext ==
  \/ RegistryStep /\ UNCHANGED bridgeVars
  \/ \E c \in Conns, s \in Servers : AcceptFresh(c, s)
  \/ BridgeRestart
  \/ \E k \in Calls, s \in Servers : Admit(k, s) \/ Reject(k, s)
  \/ \E k \in Calls :
       CallerStep(k) \/ AgentExecute(k) \/ Lose(k) \/ ResolveCommand(k)

Spec == BridgeInit /\ [][BridgeNext]_vars

\* The event loop resumes every ready caller, and timers fire.
CallerFairness == \A k \in Calls : WF_vars(CallerStep(k))

FairSpec == Spec /\ CallerFairness

-----------------------------------------------------------------------------
(***************************************************************************)
(* Properties.                                                             *)
(***************************************************************************)

\* A command reaches the agent of the server its caller named and was
\* authorized for, although the websocket was looked up before an await and
\* connections come and go meanwhile.
DeliveredToNamedServer ==
  \A k \in Calls : at[k] # None => at[k] = to[k]

\* A future in pending_commands has no result yet and belongs to a caller that
\* is still there to take it, except when its send raised: that entry is never
\* removed by its own call.
PendingHasCaller ==
  \A i \in CmdIds :
    LET k == pending_commands[i] IN
      k # None =>
        /\ cid[k] = i /\ answer[k] = None
        /\ phase[k] \in {"sending", "waiting", "cancelled"}
             \/ outcome[k] = "send_failed"

\* A caller that waits for its future can still be answered: nobody else has
\* taken its entry out of pending_commands or replaced it.
WaiterIsPending ==
  \A k \in Calls :
    phase[k] = "waiting" => pending_commands[cid[k]] = k

\* The result a caller gets is the response to its own command, which an
\* agent has carried out.
AnsweredByOwnCommand ==
  \A k \in Calls : answer[k] # None => answer[k] = k /\ k \in executed

\* An audit record tells of a command that an agent carried out and whose
\* result reached the backend.
AuditIsTrue ==
  \A k \in audited : k \in executed /\ outcome[k] = "answered"

\* No caller waits for ever, whatever becomes of the agent.
CallsEnd ==
  \A k \in Calls : phase[k] = "loaded" ~> phase[k] = "done"

-----------------------------------------------------------------------------
(***************************************************************************)
(* The bridge implements RpcService.                                       *)
(***************************************************************************)
StatusOf(k) ==
  IF outcome[k] = "none" THEN "open"
  ELSE IF outcome[k] = "answered" THEN "answered" ELSE "failed"

Rpc == INSTANCE RpcService WITH
         status <- [k \in Calls |-> StatusOf(k)],
         sent <- {k \in Calls : cid[k] # None},
         ran <- executed

\* Callers and agents see the promises of RpcService kept.
ImplementsRpc == Rpc!RpcSpec
=============================================================================
