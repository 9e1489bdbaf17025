--------------------------- MODULE AgentRegistry ---------------------------
(***************************************************************************)
(* The agent side of the backend: the websocket handler agent_websocket    *)
(* of Backend/app/ws/agent_handler.py, the three in-memory maps it keeps,  *)
(* and the is_online column of the servers table it maintains.             *)
(*                                                                         *)
(* A handler runs on one event loop.  It gives up the loop at every await, *)
(* so one action is the code between two awaits whose effects another      *)
(* handler can see: a database statement that commits, or a synchronous    *)
(* run of assignments to the maps.                                         *)
(*                                                                         *)
(* An agent_token belongs to exactly one server (Server.agent_token is     *)
(* unique), so a token is modelled by its server, and the maps keyed by    *)
(* token and the maps keyed by server_id are all functions on Servers.     *)
(* A connection that presents no token is closed before any state is read  *)
(* or written and is not modelled; one with an unknown token is a          *)
(* connection for a server whose row is "absent" or "deleted".             *)
(***************************************************************************)
EXTENDS FiniteSets

CONSTANTS
  Servers,    \* ids of servers (and their agent tokens)
  Conns,      \* websocket objects; one is used again once its handler is gone
  None        \* Python's None: no entry, no connection

ASSUME NoneAssumption == None \notin Conns /\ None \notin Servers

VARIABLES
  handler,             \* where the handler of each connection is
  srv,                 \* server whose token the connection presented
  link,                \* the connection each agent is using, seen by the agent
  connected_agents,    \* token -> websocket
  agent_by_server_id,  \* server_id -> websocket
  server_token_map,    \* server_id -> token
  row,                 \* the row of the server and of its AgentTokenMapping
  is_online,           \* Server.is_online
  stale,               \* history: online servers whose handler ended without
                       \* its final update (crash, or the update failed)
  overlapped           \* history: servers whose agent connected again before
                       \* the handlers of its earlier connections had ended

registryMaps == <<connected_agents, agent_by_server_id, server_token_map>>
dbVars == <<row, is_online, stale>>
registryVars == <<handler, srv, link, overlapped, registryMaps, dbVars>>

HandlerStates ==
  {"none",      \* no handler: the websocket object does not exist
   "accepted",  \* about to look the token up in agent_token_mappings
   "mapped",    \* about to look the server up in the tenant schema
   "selected",  \* about to commit is_online = True
   "online",    \* committed, not yet in the maps
   "loop",      \* in the maps, receiving messages
   "popped"}    \* out of the maps, about to commit is_online = False

Registered == {"online", "loop", "popped"}

(***************************************************************************)
(* The type of the state: the maps hold a websocket or token per server,   *)
(* or nothing.                                                             *)
(***************************************************************************)
TypeOK ==
  /\ handler \in [Conns -> HandlerStates]
  /\ srv \in [Conns -> Servers \cup {None}]
  /\ link \in [Servers -> Conns \cup {None}]
  /\ connected_agents \in [Servers -> Conns \cup {None}]
  /\ agent_by_server_id \in [Servers -> Conns \cup {None}]
  /\ server_token_map \in [Servers -> Servers \cup {None}]
  /\ row \in [Servers -> {"absent", "present", "deleted"}]
  /\ is_online \in [Servers -> BOOLEAN]
  /\ stale \in SUBSET Servers
  /\ overlapped \in SUBSET Servers

Init ==
  /\ handler = [c \in Conns |-> "none"]
  /\ srv = [c \in Conns |-> None]
  /\ link = [s \in Servers |-> None]
  /\ connected_agents = [s \in Servers |-> None]
  /\ agent_by_server_id = [s \in Servers |-> None]
  /\ server_token_map = [s \in Servers |-> None]
  /\ row = [s \in Servers |-> "absent"]
  /\ is_online = [s \in Servers |-> FALSE]
  /\ stale = {}
  /\ overlapped = {}

-----------------------------------------------------------------------------
(***************************************************************************)
(* REST: servers are created and deleted.  The row and its token mapping   *)
(* are written in one transaction, so they are one value here.             *)
(***************************************************************************)

\* create_server: the new row has the column's default, is_online = False.
CreateServer(s) ==
  /\ row[s] = "absent"
  /\ row' = [row EXCEPT ![s] = "present"]
  /\ is_online' = [is_online EXCEPT ![s] = FALSE]
  /\ UNCHANGED <<handler, srv, link, overlapped, registryMaps, stale>>

\* delete_server commits.  The agent.uninstall it may have sent just before
\* stops the agent, which AgentLosesLink allows at any time; neither the maps
\* nor a running handler are touched.
DeleteServer(s) ==
  /\ row[s] = "present"
  /\ row' = [row EXCEPT ![s] = "deleted"]
  /\ UNCHANGED <<handler, srv, link, overlapped, registryMaps, is_online, stale>>

-----------------------------------------------------------------------------
(***************************************************************************)
(* The agent's end of the connection.                                      *)
(***************************************************************************)

\* The agent of s connects and its websocket is accepted.  The backend may
\* still be serving an earlier connection, which it has not yet seen fail.
Accept(c, s) ==
  /\ handler[c] = "none"
  /\ link[s] = None
  /\ handler' = [handler EXCEPT ![c] = "accepted"]
  /\ srv' = [srv EXCEPT ![c] = s]
  /\ link' = [link EXCEPT ![s] = c]
  /\ overlapped' = IF \E d \in Conns : srv[d] = s
                     THEN overlapped \cup {s} ELSE overlapped \ {s}
  /\ UNCHANGED <<registryMaps, dbVars>>

\* The agent stops, or sees its connection fail (a close, a ping timeout).
AgentLosesLink(s) ==
  /\ link[s] # None
  /\ link' = [link EXCEPT ![s] = None]
  /\ UNCHANGED <<handler, srv, overlapped, registryMaps, dbVars>>

-----------------------------------------------------------------------------
(***************************************************************************)
(* The handler.                                                            *)
(***************************************************************************)

Goto(c, from, to) ==
  /\ handler[c] = from
  /\ handler' = [handler EXCEPT ![c] = to]

\* The handler of c returns and the server closes the websocket.
EndHandler(c) ==
  /\ handler' = [handler EXCEPT ![c] = "none"]
  /\ srv' = [srv EXCEPT ![c] = None]
  /\ link' = [s \in Servers |-> IF link[s] = c THEN None ELSE link[s]]
  /\ UNCHANGED overlapped

\* "Resolve tenant schema via global agent token mapping"
LookupMapping(c) ==
  /\ Goto(c, "accepted", "mapped")
  /\ row[srv[c]] = "present"
  /\ UNCHANGED <<srv, link, overlapped, registryMaps, dbVars>>

\* "Verify server": the select of the tenant's row.
SelectServer(c) ==
  /\ Goto(c, "mapped", "selected")
  /\ row[srv[c]] = "present"
  /\ UNCHANGED <<srv, link, overlapped, registryMaps, dbVars>>

\* Either lookup finds nothing: close(4003) and return.
Refuse(c) ==
  /\ handler[c] \in {"accepted", "mapped"}
  /\ row[srv[c]] # "present"
  /\ EndHandler(c)
  /\ UNCHANGED <<registryMaps, dbVars>>

\* Mutant of CommitOnline: the session is closed without the commit.
CommitOnlineLost(c) ==
  /\ Goto(c, "selected", "online")
  /\ UNCHANGED <<srv, link, overlapped, registryMaps, dbVars>>

\* "Mark online": the update and its commit.  The row may have been deleted
\* since it was selected; the update then changes nothing, and goes on.
CommitOnline(c) ==
  /\ Goto(c, "selected", "online")
  /\ IF row[srv[c]] = "present"
       THEN /\ is_online' = [is_online EXCEPT ![srv[c]] = TRUE]
            /\ stale' = stale \ {srv[c]}
       ELSE UNCHANGED <<is_online, stale>>
  /\ UNCHANGED <<srv, link, overlapped, registryMaps, row>>

\* A lookup or the update raises: nothing was registered, nothing is undone.
HandshakeFails(c) ==
  /\ handler[c] \in {"accepted", "mapped", "selected"}
  /\ EndHandler(c)
  /\ UNCHANGED <<registryMaps, dbVars>>

\* Mutant of Register: the map from token to websocket is not written.
RegisterByIdOnly(c) ==
  /\ Goto(c, "online", "loop")
  /\ connected_agents' = connected_agents
  /\ agent_by_server_id' = [agent_by_server_id EXCEPT ![srv[c]] = c]
  /\ server_token_map' = [server_token_map EXCEPT ![srv[c]] = srv[c]]
  /\ UNCHANGED <<srv, link, overlapped, dbVars>>

\* "Register in connected dicts", three assignments without an await between.
Register(c) ==
  /\ Goto(c, "online", "loop")
  /\ connected_agents' = [connected_agents EXCEPT ![srv[c]] = c]
  /\ agent_by_server_id' = [agent_by_server_id EXCEPT ![srv[c]] = c]
  /\ server_token_map' = [server_token_map EXCEPT ![srv[c]] = srv[c]]
  /\ UNCHANGED <<srv, link, overlapped, dbVars>>

\* Mutant of Pop: the map from server to websocket is not cleaned up.
PopKeepsSocket(c) ==
  /\ Goto(c, "loop", "popped")
  /\ connected_agents' = [connected_agents EXCEPT ![srv[c]] = None]
  /\ server_token_map' = [server_token_map EXCEPT ![srv[c]] = None]
  /\ UNCHANGED <<agent_by_server_id, srv, link, overlapped, dbVars>>

\* "Clean up" in the finally clause: the pops are by key, whatever websocket
\* the entry holds.
Pop(c) ==
  /\ Goto(c, "loop", "popped")
  /\ connected_agents' = [connected_agents EXCEPT ![srv[c]] = None]
  /\ agent_by_server_id' = [agent_by_server_id EXCEPT ![srv[c]] = None]
  /\ server_token_map' = [server_token_map EXCEPT ![srv[c]] = None]
  /\ UNCHANGED <<srv, link, overlapped, dbVars>>

\* except WebSocketDisconnect: receive_text finds the connection gone.
Disconnected(c) == Pop(c) /\ link[srv[c]] # c

\* except Exception: a message handler raised while the agent is connected.
HandlerError(c) == Pop(c) /\ link[srv[c]] = c

\* Mutant of MarkOffline: the session is closed without the commit.
MarkOfflineLost(c) ==
  /\ handler[c] = "popped"
  /\ EndHandler(c)
  /\ UNCHANGED <<registryMaps, dbVars>>

\* "Mark offline": the update by id and its commit; then the handler is over.
MarkOffline(c) ==
  /\ handler[c] = "popped"
  /\ IF row[srv[c]] = "present"
       THEN /\ is_online' = [is_online EXCEPT ![srv[c]] = FALSE]
            /\ stale' = stale \ {srv[c]}
       ELSE UNCHANGED <<is_online, stale>>
  /\ EndHandler(c)
  /\ UNCHANGED <<registryMaps, row>>

\* The update raises inside the finally clause: the flag stays as it is.
MarkOfflineFails(c) ==
  /\ handler[c] = "popped"
  /\ stale' = stale \cup {srv[c]}
  /\ EndHandler(c)
  /\ UNCHANGED <<registryMaps, row, is_online>>

\* The backend process dies: handlers and maps are lost, the table is not.
BackendRestart ==
  /\ handler' = [c \in Conns |-> "none"]
  /\ srv' = [c \in Conns |-> None]
  /\ link' = [s \in Servers |-> None]
  /\ connected_agents' = [s \in Servers |-> None]
  /\ agent_by_server_id' = [s \in Servers |-> None]
  /\ server_token_map' = [s \in Servers |-> None]
  /\ stale' = stale \cup {s \in Servers : is_online[s]}
  /\ overlapped' = {}
  /\ UNCHANGED <<row, is_online>>

-----------------------------------------------------------------------------
HandlerStep(c) ==
  \/ LookupMapping(c) \/ SelectServer(c) \/ Refuse(c)
  \/ CommitOnline(c) \/ Register(c)
  \/ Disconnected(c)
  \/ MarkOffline(c) \/ MarkOfflineFails(c)

\* Everything but the two steps that other components take part in.
RegistryStep ==
  \/ \E s \in Servers : CreateServer(s) \/ DeleteServer(s) \/ AgentLosesLink(s)
  \/ \E c \in Conns : HandlerStep(c) \/ HandshakeFails(c) \/ HandlerError(c)

RegistryNext ==
  \/ RegistryStep
  \/ \E c \in Conns, s \in Servers : Accept(c, s)
  \/ BackendRestart

RegistrySpec == Init /\ [][RegistryNext]_registryVars

\* The event loop runs every ready handler.  Agents, users, faults and
\* restarts are not fair.
RegistryFairness == \A c \in Conns : WF_registryVars(HandlerStep(c))

FairRegistrySpec == RegistrySpec /\ RegistryFairness

-----------------------------------------------------------------------------
(***************************************************************************)
(* Properties.                                                             *)
(***************************************************************************)

\* The three maps always describe the same set of connected servers, with
\* the same websocket, whatever handlers overlap.
MapsAgree ==
  \A s \in Servers :
    /\ connected_agents[s] = agent_by_server_id[s]
    /\ server_token_map[s] = IF agent_by_server_id[s] = None THEN None ELSE s

\* A websocket found in agent_by_server_id is one whose handler is receiving
\* messages of that very server: a command is never routed to the agent of
\* another server, nor to a handler that is past its cleanup.
RoutesToServingHandler ==
  \A s \in Servers :
    LET c == agent_by_server_id[s] IN
      c # None => handler[c] = "loop" /\ srv[c] = s

\* A server shown online has a handler that has committed so and that will
\* still mark it offline, unless a crash or a failed update cut one short.
OnlineHasHandler ==
  \A s \in Servers :
    row[s] = "present" /\ is_online[s] /\ s \notin stale =>
      \E c \in Conns : srv[c] = s /\ handler[c] \in Registered

\* An agent whose handler is receiving its messages is registered under its
\* own connection, so it can be sent commands, unless its connections overlap.
ConnectedAgentRegistered ==
  \A s \in Servers \ overlapped :
    link[s] # None /\ handler[link[s]] = "loop" =>
      connected_agents[s] = link[s]

\* While the handler is receiving messages of an agent, the server's row says
\* online, unless its connections overlap.
ConnectedServerOnline ==
  \A s \in Servers \ overlapped :
    link[s] # None /\ handler[link[s]] = "loop" /\ row[s] = "present" =>
      is_online[s]

\* A connection the agent has given up does not stay registered.
DeadLinkUnregistered ==
  \A s \in Servers, c \in Conns :
    agent_by_server_id[s] = c /\ link[s] # c ~> agent_by_server_id[s] # c

\* A server whose agent stays away is eventually shown offline, unless a
\* crash or a failed update cut its handler short.
OfflineEventually ==
  \A s \in Servers :
    link[s] = None /\ row[s] = "present" ~>
      ~is_online[s] \/ link[s] # None \/ s \in stale \/ row[s] # "present"
=============================================================================
