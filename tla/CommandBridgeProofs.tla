------------------------ MODULE CommandBridgeProofs ------------------------
(***************************************************************************)
(* Proofs about AgentRegistry and CommandBridge, for any number of         *)
(* servers, connections and calls.                                         *)
(*                                                                         *)
(* The properties of the registry are not inductive: that a registered     *)
(* websocket is served needs to know that its handler is the one that will *)
(* pop the entry, and that a connected agent is registered and online      *)
(* needs to know that no second handler for the same server can exist.     *)
(* RegistryInv adds those facts.                                           *)
(*                                                                         *)
(* The registry inside the bridge behaves as AgentRegistry says, so its    *)
(* invariant can be used.  BridgeInv then ties the phases of a call to     *)
(* where its command is, to the agent behind the websocket it holds across *)
(* the await of send_text, and, if ids are fresh, to its future.           *)
(***************************************************************************)
EXTENDS CommandBridge, TLAPS

(***************************************************************************)
(* AgentRegistry.                                                          *)
(***************************************************************************)


\* A connection has a server exactly while it has a handler.
HandlerHasServer ==
  \A c \in Conns : handler[c] = "none" <=> srv[c] = None

\* The connection an agent uses is one that presented its token.
LinkPresentsToken ==
  \A s \in Servers : link[s] # None => srv[link[s]] = s

\* Past the lookups the row exists, or has existed.
SelectedRowExists ==
  \A c \in Conns :
    handler[c] \in {"mapped", "selected"} \cup Registered =>
      row[srv[c]] # "absent"

\* Without overlap: one handler per server, and what it has done shows.
SerialHandlers ==
  \A c \in Conns :
    srv[c] # None /\ srv[c] \notin overlapped =>
      /\ \A d \in Conns : srv[d] = srv[c] => d = c
      /\ handler[c] = "loop" => agent_by_server_id[srv[c]] = c
      /\ handler[c] \in {"online", "loop"} /\ row[srv[c]] = "present" =>
           is_online[srv[c]]

RegistryInv ==
  /\ TypeOK
  /\ HandlerHasServer
  /\ LinkPresentsToken
  /\ SelectedRowExists
  /\ MapsAgree
  /\ RoutesToServingHandler
  /\ OnlineHasHandler
  /\ SerialHandlers

-----------------------------------------------------------------------------
\* The invariant holds initially: no handler, empty maps, no rows.
LEMMA RegistryInit == Init => RegistryInv
<1> SUFFICES ASSUME Init PROVE RegistryInv
  OBVIOUS
<1> USE NoneAssumption DEF Init
<1>1. TypeOK
  BY DEF TypeOK, HandlerStates
<1>2. HandlerHasServer /\ LinkPresentsToken /\ SelectedRowExists
  BY DEF HandlerHasServer, LinkPresentsToken, SelectedRowExists, Registered
<1>3. MapsAgree /\ RoutesToServingHandler /\ OnlineHasHandler
  BY DEF MapsAgree, RoutesToServingHandler, OnlineHasHandler
<1>4. SerialHandlers
  BY DEF SerialHandlers
<1> QED
  BY <1>1, <1>2, <1>3, <1>4 DEF RegistryInv

\* Every step of the backend, its agents and its users preserves it.
LEMMA RegistryInductive == RegistryInv /\ [RegistryNext]_registryVars => RegistryInv'
<1> SUFFICES ASSUME RegistryInv, [RegistryNext]_registryVars
             PROVE  RegistryInv'
  OBVIOUS
<1> USE NoneAssumption
<1>1. ASSUME NEW s \in Servers, CreateServer(s)
      PROVE  RegistryInv'
  <2> USE <1>1 DEF CreateServer, registryMaps, dbVars, Registered
  <2>1. TypeOK'
    BY DEF RegistryInv, TypeOK, HandlerStates, HandlerHasServer
  <2>2. HandlerHasServer'
    BY DEF RegistryInv, HandlerHasServer, TypeOK
  <2>3. LinkPresentsToken'
    BY DEF RegistryInv, LinkPresentsToken, TypeOK, HandlerHasServer
  <2>4. SelectedRowExists'
    BY DEF RegistryInv, SelectedRowExists, TypeOK, HandlerHasServer
  <2>5. MapsAgree'
    BY DEF RegistryInv, MapsAgree, TypeOK
  <2>6. RoutesToServingHandler'
    BY DEF RegistryInv, RoutesToServingHandler, TypeOK, HandlerHasServer
  <2>7. OnlineHasHandler'
    BY DEF RegistryInv, OnlineHasHandler, TypeOK, HandlerHasServer
  <2>8. SerialHandlers'
    BY DEF RegistryInv, SerialHandlers, TypeOK, HandlerHasServer,
             SelectedRowExists
  <2> QED BY <2>1, <2>2, <2>3, <2>4, <2>5, <2>6, <2>7, <2>8 DEF RegistryInv
<1>2. ASSUME NEW s \in Servers, DeleteServer(s)
      PROVE  RegistryInv'
  <2> USE <1>2 DEF DeleteServer, registryMaps, dbVars, Registered
  <2>1. TypeOK'
    BY DEF RegistryInv, TypeOK, HandlerStates, HandlerHasServer
  <2>2. HandlerHasServer'
    BY DEF RegistryInv, HandlerHasServer, TypeOK
  <2>3. LinkPresentsToken'
    BY DEF RegistryInv, LinkPresentsToken, TypeOK, HandlerHasServer
  <2>4. SelectedRowExists'
    BY DEF RegistryInv, SelectedRowExists, TypeOK, HandlerHasServer
  <2>5. MapsAgree'
    BY DEF RegistryInv, MapsAgree, TypeOK
  <2>6. RoutesToServingHandler'
    BY DEF RegistryInv, RoutesToServingHandler, TypeOK, HandlerHasServer
  <2>7. OnlineHasHandler'
    BY DEF RegistryInv, OnlineHasHandler, TypeOK, HandlerHasServer
  <2>8. SerialHandlers'
    BY DEF RegistryInv, SerialHandlers, TypeOK, HandlerHasServer,
             SelectedRowExists
  <2> QED BY <2>1, <2>2, <2>3, <2>4, <2>5, <2>6, <2>7, <2>8 DEF RegistryInv
<1>3. ASSUME NEW s \in Servers, AgentLosesLink(s)
      PROVE  RegistryInv'
  <2> USE <1>3 DEF AgentLosesLink, registryMaps, dbVars, Registered
  <2>1. TypeOK'
    BY DEF RegistryInv, TypeOK, HandlerStates, HandlerHasServer
  <2>2. HandlerHasServer'
    BY DEF RegistryInv, HandlerHasServer, TypeOK
  <2>3. LinkPresentsToken'
    BY DEF RegistryInv, LinkPresentsToken, TypeOK, HandlerHasServer
  <2>4. SelectedRowExists'
    BY DEF RegistryInv, SelectedRowExists, TypeOK, HandlerHasServer
  <2>5. MapsAgree'
    BY DEF RegistryInv, MapsAgree, TypeOK
  <2>6. RoutesToServingHandler'
    BY DEF RegistryInv, RoutesToServingHandler, TypeOK, HandlerHasServer
  <2>7. OnlineHasHandler'
    BY DEF RegistryInv, OnlineHasHandler, TypeOK, HandlerHasServer
  <2>8. SerialHandlers'
    BY DEF RegistryInv, SerialHandlers, TypeOK, HandlerHasServer,
             SelectedRowExists
  <2> QED BY <2>1, <2>2, <2>3, <2>4, <2>5, <2>6, <2>7, <2>8 DEF RegistryInv
<1>4. ASSUME NEW c \in Conns, NEW s \in Servers, Accept(c, s)
      PROVE  RegistryInv'
  <2> USE <1>4 DEF Accept, registryMaps, dbVars, Registered
  <2>1. TypeOK'
    BY DEF RegistryInv, TypeOK, HandlerStates, HandlerHasServer
  <2>2. HandlerHasServer'
    BY DEF RegistryInv, HandlerHasServer, TypeOK
  <2>3. LinkPresentsToken'
    BY DEF RegistryInv, LinkPresentsToken, TypeOK, HandlerHasServer
  <2>4. SelectedRowExists'
    BY DEF RegistryInv, SelectedRowExists, TypeOK, HandlerHasServer
  <2>5. MapsAgree'
    BY DEF RegistryInv, MapsAgree, TypeOK
  <2>6. RoutesToServingHandler'
    BY DEF RegistryInv, RoutesToServingHandler, TypeOK, HandlerHasServer
  <2>7. OnlineHasHandler'
    BY DEF RegistryInv, OnlineHasHandler, TypeOK, HandlerHasServer
  <2>8. SerialHandlers'
    BY DEF RegistryInv, SerialHandlers, TypeOK, HandlerHasServer,
             SelectedRowExists
  <2> QED BY <2>1, <2>2, <2>3, <2>4, <2>5, <2>6, <2>7, <2>8 DEF RegistryInv
<1>5. ASSUME NEW c \in Conns, LookupMapping(c)
      PROVE  RegistryInv'
  <2> USE <1>5 DEF LookupMapping, Goto, registryMaps, dbVars, Registered
  <2>1. TypeOK'
    BY DEF RegistryInv, TypeOK, HandlerStates, HandlerHasServer
  <2>2. HandlerHasServer'
    BY DEF RegistryInv, HandlerHasServer, TypeOK
  <2>3. LinkPresentsToken'
    BY DEF RegistryInv, LinkPresentsToken, TypeOK, HandlerHasServer
  <2>4. SelectedRowExists'
    BY DEF RegistryInv, SelectedRowExists, TypeOK, HandlerHasServer
  <2>5. MapsAgree'
    BY DEF RegistryInv, MapsAgree, TypeOK
  <2>6. RoutesToServingHandler'
    BY DEF RegistryInv, RoutesToServingHandler, TypeOK, HandlerHasServer
  <2>7. OnlineHasHandler'
    BY DEF RegistryInv, OnlineHasHandler, TypeOK, HandlerHasServer
  <2>8. SerialHandlers'
    BY DEF RegistryInv, SerialHandlers, TypeOK, HandlerHasServer,
             SelectedRowExists
  <2> QED BY <2>1, <2>2, <2>3, <2>4, <2>5, <2>6, <2>7, <2>8 DEF RegistryInv
<1>6. ASSUME NEW c \in Conns, SelectServer(c)
      PROVE  RegistryInv'
  <2> USE <1>6 DEF SelectServer, Goto, registryMaps, dbVars, Registered
  <2>1. TypeOK'
    BY DEF RegistryInv, TypeOK, HandlerStates, HandlerHasServer
  <2>2. HandlerHasServer'
    BY DEF RegistryInv, HandlerHasServer, TypeOK
  <2>3. LinkPresentsToken'
    BY DEF RegistryInv, LinkPresentsToken, TypeOK, HandlerHasServer
  <2>4. SelectedRowExists'
    BY DEF RegistryInv, SelectedRowExists, TypeOK, HandlerHasServer
  <2>5. MapsAgree'
    BY DEF RegistryInv, MapsAgree, TypeOK
  <2>6. RoutesToServingHandler'
    BY DEF RegistryInv, RoutesToServingHandler, TypeOK, HandlerHasServer
  <2>7. OnlineHasHandler'
    BY DEF RegistryInv, OnlineHasHandler, TypeOK, HandlerHasServer
  <2>8. SerialHandlers'
    BY DEF RegistryInv, SerialHandlers, TypeOK, HandlerHasServer,
             SelectedRowExists
  <2> QED BY <2>1, <2>2, <2>3, <2>4, <2>5, <2>6, <2>7, <2>8 DEF RegistryInv
<1>7. ASSUME NEW c \in Conns, Refuse(c)
      PROVE  RegistryInv'
  <2> USE <1>7 DEF Refuse, EndHandler, registryMaps, dbVars, Registered
  <2>1. TypeOK'
    BY DEF RegistryInv, TypeOK, HandlerStates, HandlerHasServer
  <2>2. HandlerHasServer'
    BY DEF RegistryInv, HandlerHasServer, TypeOK
  <2>3. LinkPresentsToken'
    BY DEF RegistryInv, LinkPresentsToken, TypeOK, HandlerHasServer
  <2>4. SelectedRowExists'
    BY DEF RegistryInv, SelectedRowExists, TypeOK, HandlerHasServer
  <2>5. MapsAgree'
    BY DEF RegistryInv, MapsAgree, TypeOK
  <2>6. RoutesToServingHandler'
    BY DEF RegistryInv, RoutesToServingHandler, TypeOK, HandlerHasServer
  <2>7. OnlineHasHandler'
    BY DEF RegistryInv, OnlineHasHandler, TypeOK, HandlerHasServer
  <2>8. SerialHandlers'
    BY DEF RegistryInv, SerialHandlers, TypeOK, HandlerHasServer,
             SelectedRowExists
  <2> QED BY <2>1, <2>2, <2>3, <2>4, <2>5, <2>6, <2>7, <2>8 DEF RegistryInv
<1>8. ASSUME NEW c \in Conns, CommitOnline(c)
      PROVE  RegistryInv'
  <2> USE <1>8 DEF CommitOnline, Goto, registryMaps, dbVars, Registered
  <2>1. TypeOK'
    BY DEF RegistryInv, TypeOK, HandlerStates, HandlerHasServer
  <2>2. HandlerHasServer'
    BY DEF RegistryInv, HandlerHasServer, TypeOK
  <2>3. LinkPresentsToken'
    BY DEF RegistryInv, LinkPresentsToken, TypeOK, HandlerHasServer
  <2>4. SelectedRowExists'
    BY DEF RegistryInv, SelectedRowExists, TypeOK, HandlerHasServer
  <2>5. MapsAgree'
    BY DEF RegistryInv, MapsAgree, TypeOK
  <2>6. RoutesToServingHandler'
    BY DEF RegistryInv, RoutesToServingHandler, TypeOK, HandlerHasServer
  <2>7. OnlineHasHandler'
    BY DEF RegistryInv, OnlineHasHandler, TypeOK, HandlerHasServer
  <2>8. SerialHandlers'
    BY DEF RegistryInv, SerialHandlers, TypeOK, HandlerHasServer,
             SelectedRowExists
  <2> QED BY <2>1, <2>2, <2>3, <2>4, <2>5, <2>6, <2>7, <2>8 DEF RegistryInv
<1>9. ASSUME NEW c \in Conns, Register(c)
      PROVE  RegistryInv'
  <2> USE <1>9 DEF Register, Goto, registryMaps, dbVars, Registered
  <2>1. TypeOK'
    BY DEF RegistryInv, TypeOK, HandlerStates, HandlerHasServer
  <2>2. HandlerHasServer'
    BY DEF RegistryInv, HandlerHasServer, TypeOK
  <2>3. LinkPresentsToken'
    BY DEF RegistryInv, LinkPresentsToken, TypeOK, HandlerHasServer
  <2>4. SelectedRowExists'
    BY DEF RegistryInv, SelectedRowExists, TypeOK, HandlerHasServer
  <2>5. MapsAgree'
    BY DEF RegistryInv, MapsAgree, TypeOK
  <2>6. RoutesToServingHandler'
    BY DEF RegistryInv, RoutesToServingHandler, TypeOK, HandlerHasServer
  <2>7. OnlineHasHandler'
    BY DEF RegistryInv, OnlineHasHandler, TypeOK, HandlerHasServer
  <2>8. SerialHandlers'
    BY DEF RegistryInv, SerialHandlers, TypeOK, HandlerHasServer,
             SelectedRowExists
  <2> QED BY <2>1, <2>2, <2>3, <2>4, <2>5, <2>6, <2>7, <2>8 DEF RegistryInv
<1>10. ASSUME NEW c \in Conns, Disconnected(c)
      PROVE  RegistryInv'
  <2> USE <1>10 DEF Disconnected, Pop, Goto, registryMaps, dbVars, Registered
  <2>1. TypeOK'
    BY DEF RegistryInv, TypeOK, HandlerStates, HandlerHasServer
  <2>2. HandlerHasServer'
    BY DEF RegistryInv, HandlerHasServer, TypeOK
  <2>3. LinkPresentsToken'
    BY DEF RegistryInv, LinkPresentsToken, TypeOK, HandlerHasServer
  <2>4. SelectedRowExists'
    BY DEF RegistryInv, SelectedRowExists, TypeOK, HandlerHasServer
  <2>5. MapsAgree'
    BY DEF RegistryInv, MapsAgree, TypeOK
  <2>6. RoutesToServingHandler'
    BY DEF RegistryInv, RoutesToServingHandler, TypeOK, HandlerHasServer
  <2>7. OnlineHasHandler'
    BY DEF RegistryInv, OnlineHasHandler, TypeOK, HandlerHasServer
  <2>8. SerialHandlers'
    BY DEF RegistryInv, SerialHandlers, TypeOK, HandlerHasServer,
             SelectedRowExists
  <2> QED BY <2>1, <2>2, <2>3, <2>4, <2>5, <2>6, <2>7, <2>8 DEF RegistryInv
<1>11. ASSUME NEW c \in Conns, HandlerError(c)
      PROVE  RegistryInv'
  <2> USE <1>11 DEF HandlerError, Pop, Goto, registryMaps, dbVars, Registered
  <2>1. TypeOK'
    BY DEF RegistryInv, TypeOK, HandlerStates, HandlerHasServer
  <2>2. HandlerHasServer'
    BY DEF RegistryInv, HandlerHasServer, TypeOK
  <2>3. LinkPresentsToken'
    BY DEF RegistryInv, LinkPresentsToken, TypeOK, HandlerHasServer
  <2>4. SelectedRowExists'
    BY DEF RegistryInv, SelectedRowExists, TypeOK, HandlerHasServer
  <2>5. MapsAgree'
    BY DEF RegistryInv, MapsAgree, TypeOK
  <2>6. RoutesToServingHandler'
    BY DEF RegistryInv, RoutesToServingHandler, TypeOK, HandlerHasServer
  <2>7. OnlineHasHandler'
    BY DEF RegistryInv, OnlineHasHandler, TypeOK, HandlerHasServer
  <2>8. SerialHandlers'
    BY DEF RegistryInv, SerialHandlers, TypeOK, HandlerHasServer,
             SelectedRowExists
  <2> QED BY <2>1, <2>2, <2>3, <2>4, <2>5, <2>6, <2>7, <2>8 DEF RegistryInv
<1>12. ASSUME NEW c \in Conns, MarkOffline(c)
      PROVE  RegistryInv'
  <2> USE <1>12 DEF MarkOffline, EndHandler, registryMaps, dbVars, Registered
  <2>1. TypeOK'
    BY DEF RegistryInv, TypeOK, HandlerStates, HandlerHasServer
  <2>2. HandlerHasServer'
    BY DEF RegistryInv, HandlerHasServer, TypeOK
  <2>3. LinkPresentsToken'
    BY DEF RegistryInv, LinkPresentsToken, TypeOK, HandlerHasServer
  <2>4. SelectedRowExists'
    BY DEF RegistryInv, SelectedRowExists, TypeOK, HandlerHasServer
  <2>5. MapsAgree'
    BY DEF RegistryInv, MapsAgree, TypeOK
  <2>6. RoutesToServingHandler'
    BY DEF RegistryInv, RoutesToServingHandler, TypeOK, HandlerHasServer
  <2>7. OnlineHasHandler'
    BY DEF RegistryInv, OnlineHasHandler, TypeOK, HandlerHasServer
  <2>8. SerialHandlers'
    BY DEF RegistryInv, SerialHandlers, TypeOK, HandlerHasServer,
             SelectedRowExists
  <2> QED BY <2>1, <2>2, <2>3, <2>4, <2>5, <2>6, <2>7, <2>8 DEF RegistryInv
<1>13. ASSUME NEW c \in Conns, MarkOfflineFails(c)
      PROVE  RegistryInv'
  <2> USE <1>13 DEF MarkOfflineFails, EndHandler, registryMaps, dbVars, Registered
  <2>1. TypeOK'
    BY DEF RegistryInv, TypeOK, HandlerStates, HandlerHasServer
  <2>2. HandlerHasServer'
    BY DEF RegistryInv, HandlerHasServer, TypeOK
  <2>3. LinkPresentsToken'
    BY DEF RegistryInv, LinkPresentsToken, TypeOK, HandlerHasServer
  <2>4. SelectedRowExists'
    BY DEF RegistryInv, SelectedRowExists, TypeOK, HandlerHasServer
  <2>5. MapsAgree'
    BY DEF RegistryInv, MapsAgree, TypeOK
  <2>6. RoutesToServingHandler'
    BY DEF RegistryInv, RoutesToServingHandler, TypeOK, HandlerHasServer
  <2>7. OnlineHasHandler'
    BY DEF RegistryInv, OnlineHasHandler, TypeOK, HandlerHasServer
  <2>8. SerialHandlers'
    BY DEF RegistryInv, SerialHandlers, TypeOK, HandlerHasServer,
             SelectedRowExists
  <2> QED BY <2>1, <2>2, <2>3, <2>4, <2>5, <2>6, <2>7, <2>8 DEF RegistryInv
<1>14. ASSUME NEW c \in Conns, HandshakeFails(c)
      PROVE  RegistryInv'
  <2> USE <1>14 DEF HandshakeFails, EndHandler, registryMaps, dbVars, Registered
  <2>1. TypeOK'
    BY DEF RegistryInv, TypeOK, HandlerStates, HandlerHasServer
  <2>2. HandlerHasServer'
    BY DEF RegistryInv, HandlerHasServer, TypeOK
  <2>3. LinkPresentsToken'
    BY DEF RegistryInv, LinkPresentsToken, TypeOK, HandlerHasServer
  <2>4. SelectedRowExists'
    BY DEF RegistryInv, SelectedRowExists, TypeOK, HandlerHasServer
  <2>5. MapsAgree'
    BY DEF RegistryInv, MapsAgree, TypeOK
  <2>6. RoutesToServingHandler'
    BY DEF RegistryInv, RoutesToServingHandler, TypeOK, HandlerHasServer
  <2>7. OnlineHasHandler'
    BY DEF RegistryInv, OnlineHasHandler, TypeOK, HandlerHasServer
  <2>8. SerialHandlers'
    BY DEF RegistryInv, SerialHandlers, TypeOK, HandlerHasServer,
             SelectedRowExists
  <2> QED BY <2>1, <2>2, <2>3, <2>4, <2>5, <2>6, <2>7, <2>8 DEF RegistryInv
<1>15. ASSUME BackendRestart
      PROVE  RegistryInv'
  <2> USE <1>15 DEF BackendRestart, registryMaps, dbVars, Registered
  <2>1. TypeOK'
    BY DEF RegistryInv, TypeOK, HandlerStates, HandlerHasServer
  <2>2. HandlerHasServer'
    BY DEF RegistryInv, HandlerHasServer, TypeOK
  <2>3. LinkPresentsToken'
    BY DEF RegistryInv, LinkPresentsToken, TypeOK, HandlerHasServer
  <2>4. SelectedRowExists'
    BY DEF RegistryInv, SelectedRowExists, TypeOK, HandlerHasServer
  <2>5. MapsAgree'
    BY DEF RegistryInv, MapsAgree, TypeOK
  <2>6. RoutesToServingHandler'
    BY DEF RegistryInv, RoutesToServingHandler, TypeOK, HandlerHasServer
  <2>7. OnlineHasHandler'
    BY DEF RegistryInv, OnlineHasHandler, TypeOK, HandlerHasServer
  <2>8. SerialHandlers'
    BY DEF RegistryInv, SerialHandlers, TypeOK, HandlerHasServer,
             SelectedRowExists
  <2> QED BY <2>1, <2>2, <2>3, <2>4, <2>5, <2>6, <2>7, <2>8 DEF RegistryInv
<1>16. CASE UNCHANGED registryVars
  BY <1>16 DEF registryVars, registryMaps, dbVars, RegistryInv, TypeOK,
       HandlerHasServer, LinkPresentsToken, SelectedRowExists, MapsAgree,
       RoutesToServingHandler, OnlineHasHandler, SerialHandlers
<1> QED
  BY <1>1, <1>2, <1>3, <1>4, <1>5, <1>6, <1>7, <1>8, <1>9, <1>10, <1>11,
     <1>12, <1>13, <1>14, <1>15, <1>16 DEF RegistryNext, RegistryStep,
     HandlerStep

-----------------------------------------------------------------------------
\* RegistryInv is an invariant of the specification.
THEOREM RegistryInvariant == RegistrySpec => []RegistryInv
BY RegistryInit, RegistryInductive, PTL DEF RegistrySpec

\* Type correctness: the handlers, the maps and the rows stay in their types.
THEOREM RegistryTypeCorrect == RegistrySpec => []TypeOK
<1>1. RegistryInv => TypeOK
  BY DEF RegistryInv
<1> QED
  BY <1>1, RegistryInvariant, PTL

\* The maps of agent_handler.py stay consistent with each other, for any
\* number of agents, connections and overlaps.
THEOREM RegistryMapsAgree == RegistrySpec => []MapsAgree
<1>1. RegistryInv => MapsAgree
  BY DEF RegistryInv
<1> QED
  BY <1>1, RegistryInvariant, PTL

\* Whatever agent_by_server_id returns is a live handler of that server, for
\* any number of agents, connections and overlaps.
THEOREM RegistryRoutesSafely == RegistrySpec => []RoutesToServingHandler
<1>1. RegistryInv => RoutesToServingHandler
  BY DEF RegistryInv
<1> QED
  BY <1>1, RegistryInvariant, PTL

\* An online row is accounted for by a handler or by a recorded fault.
THEOREM RegistryOnlineHasHandler == RegistrySpec => []OnlineHasHandler
<1>1. RegistryInv => OnlineHasHandler
  BY DEF RegistryInv
<1> QED
  BY <1>1, RegistryInvariant, PTL

\* An agent whose connections do not overlap is registered while it is
\* connected: commands can be sent to it.
THEOREM SerialAgentsRegistered == RegistrySpec => []ConnectedAgentRegistered
<1>1. RegistryInv => ConnectedAgentRegistered
  BY NoneAssumption DEF RegistryInv, TypeOK, LinkPresentsToken, MapsAgree,
       SerialHandlers, ConnectedAgentRegistered
<1> QED
  BY <1>1, RegistryInvariant, PTL

\* The row of a connected agent whose connections do not overlap says online.
THEOREM SerialServersOnline == RegistrySpec => []ConnectedServerOnline
<1>1. RegistryInv => ConnectedServerOnline
  BY NoneAssumption DEF RegistryInv, TypeOK, LinkPresentsToken,
       SerialHandlers, ConnectedServerOnline
<1> QED
  BY <1>1, RegistryInvariant, PTL

-----------------------------------------------------------------------------
(***************************************************************************)
(* CommandBridge.                                                          *)
(***************************************************************************)

\* What the phase of a call says of its other attributes.
CallShape ==
  \A k \in Calls :
    /\ phase[k] # "idle" => to[k] \in Servers
    /\ phase[k] \in {"idle", "loaded"} => cid[k] = None
    /\ phase[k] \in {"sending", "waiting", "answered", "cancelled", "auditing"}
         => cid[k] # None
    /\ net[k] # "none" \/ at[k] # None \/ answer[k] # None => cid[k] # None
    /\ cid[k] # None => ws[k] \in Conns
    /\ phase[k] = "sending" => net[k] = "none"
    /\ net[k] \in {"none", "down"} => k \notin executed
    /\ net[k] = "up" => k \in executed
    /\ outcome[k] = "none" <=> phase[k] \notin {"auditing", "done"}
    /\ phase[k] = "auditing" => outcome[k] = "answered"
    /\ k \in audited => outcome[k] = "answered"

\* The websocket held across send_text is that of no other server's agent.
HeldSocketIsRight ==
  \A k \in Calls, s \in Servers :
    phase[k] = "sending" /\ link[s] = ws[k] => s = to[k]

\* With fresh ids an id, its future and its response belong to one call.
FreshFutures ==
  FreshIds =>
    /\ \A j, k \in Calls : cid[j] = cid[k] /\ cid[j] # None => j = k
    /\ \A k \in Calls :
         /\ phase[k] \in {"sending", "waiting"} =>
              answer[k] = None /\ pending_commands[cid[k]] = k
         /\ answer[k] # None => answer[k] = k /\ k \in executed
         /\ phase[k] = "answered" \/ outcome[k] = "answered" =>
              answer[k] # None

BridgeInv ==
  /\ BridgeTypeOK
  /\ CallShape
  /\ HeldSocketIsRight
  /\ DeliveredToNamedServer
  /\ PendingHasCaller
  /\ FreshFutures

-----------------------------------------------------------------------------
\* The registry's part of every step of the bridge is a step of AgentRegistry.
LEMMA BridgeRefinesRegistry == Spec => RegistrySpec
<1>1. BridgeInit => Init
  BY DEF BridgeInit
<1>2. [BridgeNext]_vars => [RegistryNext]_registryVars
  <2> SUFFICES ASSUME [BridgeNext]_vars PROVE [RegistryNext]_registryVars
    OBVIOUS
  <2>1. CASE RegistryStep /\ UNCHANGED bridgeVars
    BY <2>1 DEF RegistryNext
  <2>2. ASSUME NEW c \in Conns, NEW s \in Servers, AcceptFresh(c, s)
        PROVE  RegistryNext
    BY <2>2 DEF AcceptFresh, RegistryNext
  <2>3. CASE BridgeRestart
    BY <2>3 DEF BridgeRestart, RegistryNext
  <2>4. ASSUME NEW k \in Calls, NEW s \in Servers, Admit(k, s) \/ Reject(k, s)
        PROVE  UNCHANGED registryVars
    BY <2>4 DEF Admit, Reject, registryVars
  <2>5. ASSUME NEW k \in Calls,
               CallerStep(k) \/ AgentExecute(k) \/ Lose(k) \/ ResolveCommand(k)
        PROVE  UNCHANGED registryVars
    BY <2>5 DEF CallerStep, Dispatch, NotConnected, SendText, SendFails,
         TimerFires, TimeoutRaised, ReturnResult, BrowserGone, WriteAudit,
         AuditFails, AgentExecute, Lose, ResolveCommand, registryVars
  <2>6. CASE UNCHANGED vars
    BY <2>6 DEF vars
  <2> QED
    BY <2>1, <2>2, <2>3, <2>4, <2>5, <2>6 DEF BridgeNext
<1> QED
  BY <1>1, <1>2, PTL DEF Spec, RegistrySpec

\* The invariant holds initially: no call has been made.
LEMMA BridgeInitially == BridgeInit => BridgeInv
<1> SUFFICES ASSUME BridgeInit PROVE BridgeInv
  OBVIOUS
<1> USE NoneAssumption, CallsAssumption, CmdIdsAssumption DEF BridgeInit
<1>1. BridgeTypeOK
  BY DEF BridgeTypeOK, Phases, Outcomes
<1>2. CallShape /\ HeldSocketIsRight /\ DeliveredToNamedServer
  BY DEF CallShape, HeldSocketIsRight, DeliveredToNamedServer
<1>3. PendingHasCaller /\ FreshFutures
  BY DEF PendingHasCaller, FreshFutures
<1> QED
  BY <1>1, <1>2, <1>3 DEF BridgeInv

\* A step of the registry alone gives no agent a websocket, so the one a
\* caller holds does not become another server's.
LEMMA RegistryKeepsLinks ==
  ASSUME TypeOK, RegistryStep, NEW s \in Servers
  PROVE  link'[s] = link[s] \/ link'[s] = None
BY DEF RegistryStep, HandlerStep, TypeOK, CreateServer, DeleteServer,
     AgentLosesLink, LookupMapping, SelectServer, Refuse, CommitOnline,
     HandshakeFails, Register, Pop, Disconnected, HandlerError, MarkOffline,
     MarkOfflineFails, EndHandler

\* Every step of the bridge preserves it, given the registry's invariant.
LEMMA BridgeInductive ==
  RegistryInv /\ BridgeInv /\ [BridgeNext]_vars => BridgeInv'
<1> SUFFICES ASSUME RegistryInv, BridgeInv, [BridgeNext]_vars
             PROVE  BridgeInv'
  OBVIOUS
<1> USE NoneAssumption, CallsAssumption, CmdIdsAssumption, FreshIdsAssumption
<1>1. ASSUME NEW k \in Calls, NEW s \in Servers, Admit(k, s)
      PROVE  BridgeInv'
  <2> USE <1>1 DEF Admit, MoveTo, registryVars
  <2>1. BridgeTypeOK'
    BY DEF BridgeInv, BridgeTypeOK, Phases, Outcomes, CallShape
  <2>2. CallShape'
    BY DEF BridgeInv, BridgeTypeOK, CallShape, PendingHasCaller
  <2>3. HeldSocketIsRight'
    BY DEF BridgeInv, BridgeTypeOK, CallShape, HeldSocketIsRight
  <2>4. DeliveredToNamedServer'
    BY DEF BridgeInv, BridgeTypeOK, CallShape, HeldSocketIsRight,
             DeliveredToNamedServer
  <2>5. PendingHasCaller'
    BY DEF BridgeInv, BridgeTypeOK, CallShape, PendingHasCaller
  <2>6. FreshFutures'
    BY DEF BridgeInv, BridgeTypeOK, CallShape, PendingHasCaller, FreshFutures
  <2> QED BY <2>1, <2>2, <2>3, <2>4, <2>5, <2>6 DEF BridgeInv
<1>2. ASSUME NEW k \in Calls, NEW s \in Servers, Reject(k, s)
      PROVE  BridgeInv'
  <2> USE <1>2 DEF Reject, Finish, MoveTo, registryVars
  <2>1. BridgeTypeOK'
    BY DEF BridgeInv, BridgeTypeOK, Phases, Outcomes, CallShape
  <2>2. CallShape'
    BY DEF BridgeInv, BridgeTypeOK, CallShape, PendingHasCaller
  <2>3. HeldSocketIsRight'
    BY DEF BridgeInv, BridgeTypeOK, CallShape, HeldSocketIsRight
  <2>4. DeliveredToNamedServer'
    BY DEF BridgeInv, BridgeTypeOK, CallShape, HeldSocketIsRight,
             DeliveredToNamedServer
  <2>5. PendingHasCaller'
    BY DEF BridgeInv, BridgeTypeOK, CallShape, PendingHasCaller
  <2>6. FreshFutures'
    BY DEF BridgeInv, BridgeTypeOK, CallShape, PendingHasCaller, FreshFutures
  <2> QED BY <2>1, <2>2, <2>3, <2>4, <2>5, <2>6 DEF BridgeInv
<1>3. ASSUME NEW k \in Calls, NEW i \in CmdIds, Dispatch(k, i)
      PROVE  BridgeInv'
  <2> USE <1>3 DEF Dispatch, MoveTo, MayUse, registryVars,
        RegistryInv, TypeOK
  <2>1. BridgeTypeOK'
    BY DEF BridgeInv, BridgeTypeOK, Phases, Outcomes, CallShape
  <2>2. CallShape'
    BY DEF BridgeInv, BridgeTypeOK, CallShape, PendingHasCaller
  <2>3. HeldSocketIsRight'
    BY DEF BridgeInv, BridgeTypeOK, CallShape, HeldSocketIsRight,
             RoutesToServingHandler, LinkPresentsToken
  <2>4. DeliveredToNamedServer'
    BY DEF BridgeInv, BridgeTypeOK, CallShape, HeldSocketIsRight,
             DeliveredToNamedServer
  <2>5. PendingHasCaller'
    BY DEF BridgeInv, BridgeTypeOK, CallShape, PendingHasCaller
  <2>6. FreshFutures'
    BY DEF BridgeInv, BridgeTypeOK, CallShape, PendingHasCaller, FreshFutures
  <2> QED BY <2>1, <2>2, <2>3, <2>4, <2>5, <2>6 DEF BridgeInv
<1>4. ASSUME NEW k \in Calls, NotConnected(k)
      PROVE  BridgeInv'
  <2> USE <1>4 DEF NotConnected, Finish, MoveTo, registryVars
  <2>1. BridgeTypeOK'
    BY DEF BridgeInv, BridgeTypeOK, Phases, Outcomes, CallShape
  <2>2. CallShape'
    BY DEF BridgeInv, BridgeTypeOK, CallShape, PendingHasCaller
  <2>3. HeldSocketIsRight'
    BY DEF BridgeInv, BridgeTypeOK, CallShape, HeldSocketIsRight
  <2>4. DeliveredToNamedServer'
    BY DEF BridgeInv, BridgeTypeOK, CallShape, HeldSocketIsRight,
             DeliveredToNamedServer
  <2>5. PendingHasCaller'
    BY DEF BridgeInv, BridgeTypeOK, CallShape, PendingHasCaller
  <2>6. FreshFutures'
    BY DEF BridgeInv, BridgeTypeOK, CallShape, PendingHasCaller, FreshFutures
  <2> QED BY <2>1, <2>2, <2>3, <2>4, <2>5, <2>6 DEF BridgeInv
<1>5. ASSUME NEW k \in Calls, SendText(k)
      PROVE  BridgeInv'
  <2> USE <1>5 DEF SendText, MoveTo, AgentAt, registryVars
  <2>1. BridgeTypeOK'
    BY DEF BridgeInv, BridgeTypeOK, Phases, Outcomes, CallShape
  <2>2. CallShape'
    BY DEF BridgeInv, BridgeTypeOK, CallShape, PendingHasCaller
  <2>3. HeldSocketIsRight'
    BY DEF BridgeInv, BridgeTypeOK, CallShape, HeldSocketIsRight
  <2>4. DeliveredToNamedServer'
    BY DEF BridgeInv, BridgeTypeOK, CallShape, HeldSocketIsRight,
             DeliveredToNamedServer
  <2>5. PendingHasCaller'
    BY DEF BridgeInv, BridgeTypeOK, CallShape, PendingHasCaller
  <2>6. FreshFutures'
    BY DEF BridgeInv, BridgeTypeOK, CallShape, PendingHasCaller, FreshFutures
  <2> QED BY <2>1, <2>2, <2>3, <2>4, <2>5, <2>6 DEF BridgeInv
<1>6. ASSUME NEW k \in Calls, SendFails(k)
      PROVE  BridgeInv'
  <2> USE <1>6 DEF SendFails, Finish, MoveTo, registryVars
  <2>1. BridgeTypeOK'
    BY DEF BridgeInv, BridgeTypeOK, Phases, Outcomes, CallShape
  <2>2. CallShape'
    BY DEF BridgeInv, BridgeTypeOK, CallShape, PendingHasCaller
  <2>3. HeldSocketIsRight'
    BY DEF BridgeInv, BridgeTypeOK, CallShape, HeldSocketIsRight
  <2>4. DeliveredToNamedServer'
    BY DEF BridgeInv, BridgeTypeOK, CallShape, HeldSocketIsRight,
             DeliveredToNamedServer
  <2>5. PendingHasCaller'
    BY DEF BridgeInv, BridgeTypeOK, CallShape, PendingHasCaller
  <2>6. FreshFutures'
    BY DEF BridgeInv, BridgeTypeOK, CallShape, PendingHasCaller, FreshFutures
  <2> QED BY <2>1, <2>2, <2>3, <2>4, <2>5, <2>6 DEF BridgeInv
<1>7. ASSUME NEW k \in Calls, TimerFires(k)
      PROVE  BridgeInv'
  <2> USE <1>7 DEF TimerFires, MoveTo, registryVars
  <2>1. BridgeTypeOK'
    BY DEF BridgeInv, BridgeTypeOK, Phases, Outcomes, CallShape
  <2>2. CallShape'
    BY DEF BridgeInv, BridgeTypeOK, CallShape, PendingHasCaller
  <2>3. HeldSocketIsRight'
    BY DEF BridgeInv, BridgeTypeOK, CallShape, HeldSocketIsRight
  <2>4. DeliveredToNamedServer'
    BY DEF BridgeInv, BridgeTypeOK, CallShape, HeldSocketIsRight,
             DeliveredToNamedServer
  <2>5. PendingHasCaller'
    BY DEF BridgeInv, BridgeTypeOK, CallShape, PendingHasCaller
  <2>6. FreshFutures'
    BY DEF BridgeInv, BridgeTypeOK, CallShape, PendingHasCaller, FreshFutures
  <2> QED BY <2>1, <2>2, <2>3, <2>4, <2>5, <2>6 DEF BridgeInv
<1>8. ASSUME NEW k \in Calls, TimeoutRaised(k)
      PROVE  BridgeInv'
  <2> USE <1>8 DEF TimeoutRaised, Finish, MoveTo, registryVars
  <2>1. BridgeTypeOK'
    BY DEF BridgeInv, BridgeTypeOK, Phases, Outcomes, CallShape
  <2>2. CallShape'
    BY DEF BridgeInv, BridgeTypeOK, CallShape, PendingHasCaller
  <2>3. HeldSocketIsRight'
    BY DEF BridgeInv, BridgeTypeOK, CallShape, HeldSocketIsRight
  <2>4. DeliveredToNamedServer'
    BY DEF BridgeInv, BridgeTypeOK, CallShape, HeldSocketIsRight,
             DeliveredToNamedServer
  <2>5. PendingHasCaller'
    BY DEF BridgeInv, BridgeTypeOK, CallShape, PendingHasCaller
  <2>6. FreshFutures'
    BY DEF BridgeInv, BridgeTypeOK, CallShape, PendingHasCaller, FreshFutures
  <2> QED BY <2>1, <2>2, <2>3, <2>4, <2>5, <2>6 DEF BridgeInv
<1>9. ASSUME NEW k \in Calls, ReturnResult(k)
      PROVE  BridgeInv'
  <2> USE <1>9 DEF ReturnResult, MoveTo, registryVars
  <2>1. BridgeTypeOK'
    BY DEF BridgeInv, BridgeTypeOK, Phases, Outcomes, CallShape
  <2>2. CallShape'
    BY DEF BridgeInv, BridgeTypeOK, CallShape, PendingHasCaller
  <2>3. HeldSocketIsRight'
    BY DEF BridgeInv, BridgeTypeOK, CallShape, HeldSocketIsRight
  <2>4. DeliveredToNamedServer'
    BY DEF BridgeInv, BridgeTypeOK, CallShape, HeldSocketIsRight,
             DeliveredToNamedServer
  <2>5. PendingHasCaller'
    BY DEF BridgeInv, BridgeTypeOK, CallShape, PendingHasCaller
  <2>6. FreshFutures'
    BY DEF BridgeInv, BridgeTypeOK, CallShape, PendingHasCaller, FreshFutures
  <2> QED BY <2>1, <2>2, <2>3, <2>4, <2>5, <2>6 DEF BridgeInv
<1>10. ASSUME NEW k \in Calls, BrowserGone(k)
      PROVE  BridgeInv'
  <2> USE <1>10 DEF BrowserGone, Finish, MoveTo, registryVars
  <2>1. BridgeTypeOK'
    BY DEF BridgeInv, BridgeTypeOK, Phases, Outcomes, CallShape
  <2>2. CallShape'
    BY DEF BridgeInv, BridgeTypeOK, CallShape, PendingHasCaller
  <2>3. HeldSocketIsRight'
    BY DEF BridgeInv, BridgeTypeOK, CallShape, HeldSocketIsRight
  <2>4. DeliveredToNamedServer'
    BY DEF BridgeInv, BridgeTypeOK, CallShape, HeldSocketIsRight,
             DeliveredToNamedServer
  <2>5. PendingHasCaller'
    BY DEF BridgeInv, BridgeTypeOK, CallShape, PendingHasCaller
  <2>6. FreshFutures'
    BY DEF BridgeInv, BridgeTypeOK, CallShape, PendingHasCaller, FreshFutures
  <2> QED BY <2>1, <2>2, <2>3, <2>4, <2>5, <2>6 DEF BridgeInv
<1>11. ASSUME NEW k \in Calls, WriteAudit(k)
      PROVE  BridgeInv'
  <2> USE <1>11 DEF WriteAudit, MoveTo, registryVars
  <2>1. BridgeTypeOK'
    BY DEF BridgeInv, BridgeTypeOK, Phases, Outcomes, CallShape
  <2>2. CallShape'
    BY DEF BridgeInv, BridgeTypeOK, CallShape, PendingHasCaller
  <2>3. HeldSocketIsRight'
    BY DEF BridgeInv, BridgeTypeOK, CallShape, HeldSocketIsRight
  <2>4. DeliveredToNamedServer'
    BY DEF BridgeInv, BridgeTypeOK, CallShape, HeldSocketIsRight,
             DeliveredToNamedServer
  <2>5. PendingHasCaller'
    BY DEF BridgeInv, BridgeTypeOK, CallShape, PendingHasCaller
  <2>6. FreshFutures'
    BY DEF BridgeInv, BridgeTypeOK, CallShape, PendingHasCaller, FreshFutures
  <2> QED BY <2>1, <2>2, <2>3, <2>4, <2>5, <2>6 DEF BridgeInv
<1>12. ASSUME NEW k \in Calls, AuditFails(k)
      PROVE  BridgeInv'
  <2> USE <1>12 DEF AuditFails, MoveTo, registryVars
  <2>1. BridgeTypeOK'
    BY DEF BridgeInv, BridgeTypeOK, Phases, Outcomes, CallShape
  <2>2. CallShape'
    BY DEF BridgeInv, BridgeTypeOK, CallShape, PendingHasCaller
  <2>3. HeldSocketIsRight'
    BY DEF BridgeInv, BridgeTypeOK, CallShape, HeldSocketIsRight
  <2>4. DeliveredToNamedServer'
    BY DEF BridgeInv, BridgeTypeOK, CallShape, HeldSocketIsRight,
             DeliveredToNamedServer
  <2>5. PendingHasCaller'
    BY DEF BridgeInv, BridgeTypeOK, CallShape, PendingHasCaller
  <2>6. FreshFutures'
    BY DEF BridgeInv, BridgeTypeOK, CallShape, PendingHasCaller, FreshFutures
  <2> QED BY <2>1, <2>2, <2>3, <2>4, <2>5, <2>6 DEF BridgeInv
<1>13. ASSUME NEW k \in Calls, AgentExecute(k)
      PROVE  BridgeInv'
  <2> USE <1>13 DEF AgentExecute, registryVars
  <2>1. BridgeTypeOK'
    BY DEF BridgeInv, BridgeTypeOK, Phases, Outcomes, CallShape
  <2>2. CallShape'
    BY DEF BridgeInv, BridgeTypeOK, CallShape, PendingHasCaller
  <2>3. HeldSocketIsRight'
    BY DEF BridgeInv, BridgeTypeOK, CallShape, HeldSocketIsRight
  <2>4. DeliveredToNamedServer'
    BY DEF BridgeInv, BridgeTypeOK, CallShape, HeldSocketIsRight,
             DeliveredToNamedServer
  <2>5. PendingHasCaller'
    BY DEF BridgeInv, BridgeTypeOK, CallShape, PendingHasCaller
  <2>6. FreshFutures'
    BY DEF BridgeInv, BridgeTypeOK, CallShape, PendingHasCaller, FreshFutures
  <2> QED BY <2>1, <2>2, <2>3, <2>4, <2>5, <2>6 DEF BridgeInv
<1>14. ASSUME NEW k \in Calls, Lose(k)
      PROVE  BridgeInv'
  <2> USE <1>14 DEF Lose, registryVars
  <2>1. BridgeTypeOK'
    BY DEF BridgeInv, BridgeTypeOK, Phases, Outcomes, CallShape
  <2>2. CallShape'
    BY DEF BridgeInv, BridgeTypeOK, CallShape, PendingHasCaller
  <2>3. HeldSocketIsRight'
    BY DEF BridgeInv, BridgeTypeOK, CallShape, HeldSocketIsRight
  <2>4. DeliveredToNamedServer'
    BY DEF BridgeInv, BridgeTypeOK, CallShape, HeldSocketIsRight,
             DeliveredToNamedServer
  <2>5. PendingHasCaller'
    BY DEF BridgeInv, BridgeTypeOK, CallShape, PendingHasCaller
  <2>6. FreshFutures'
    BY DEF BridgeInv, BridgeTypeOK, CallShape, PendingHasCaller, FreshFutures
  <2> QED BY <2>1, <2>2, <2>3, <2>4, <2>5, <2>6 DEF BridgeInv
<1>15. ASSUME NEW k \in Calls, ResolveCommand(k)
      PROVE  BridgeInv'
  <2> USE <1>15 DEF ResolveCommand, FutureDone, registryVars
  <2>1. BridgeTypeOK'
    BY DEF BridgeInv, BridgeTypeOK, Phases, Outcomes, CallShape
  <2>2. CallShape'
    BY DEF BridgeInv, BridgeTypeOK, CallShape, PendingHasCaller
  <2>3. HeldSocketIsRight'
    BY DEF BridgeInv, BridgeTypeOK, CallShape, HeldSocketIsRight
  <2>4. DeliveredToNamedServer'
    BY DEF BridgeInv, BridgeTypeOK, CallShape, HeldSocketIsRight,
             DeliveredToNamedServer
  <2>5. PendingHasCaller'
    BY DEF BridgeInv, BridgeTypeOK, CallShape, PendingHasCaller
  <2>6. FreshFutures'
    BY DEF BridgeInv, BridgeTypeOK, CallShape, PendingHasCaller, FreshFutures
  <2> QED BY <2>1, <2>2, <2>3, <2>4, <2>5, <2>6 DEF BridgeInv
<1>16. ASSUME NEW c \in Conns, NEW s \in Servers, AcceptFresh(c, s)
      PROVE  BridgeInv'
  <2> USE <1>16 DEF AcceptFresh, Accept, InUse, bridgeVars, registryVars
  <2>1. BridgeTypeOK'
    BY DEF BridgeInv, BridgeTypeOK, Phases, Outcomes, CallShape
  <2>2. CallShape'
    BY DEF BridgeInv, BridgeTypeOK, CallShape, PendingHasCaller
  <2>3. HeldSocketIsRight'
    BY DEF BridgeInv, BridgeTypeOK, CallShape, HeldSocketIsRight
  <2>4. DeliveredToNamedServer'
    BY DEF BridgeInv, BridgeTypeOK, CallShape, HeldSocketIsRight,
             DeliveredToNamedServer
  <2>5. PendingHasCaller'
    BY DEF BridgeInv, BridgeTypeOK, CallShape, PendingHasCaller
  <2>6. FreshFutures'
    BY DEF BridgeInv, BridgeTypeOK, CallShape, PendingHasCaller, FreshFutures
  <2> QED BY <2>1, <2>2, <2>3, <2>4, <2>5, <2>6 DEF BridgeInv
<1>17. ASSUME BridgeRestart
      PROVE  BridgeInv'
  <2> USE <1>17 DEF BridgeRestart, BackendRestart, registryVars
  <2>1. BridgeTypeOK'
    BY DEF BridgeInv, BridgeTypeOK, Phases, Outcomes, CallShape
  <2>2. CallShape'
    BY DEF BridgeInv, BridgeTypeOK, CallShape, PendingHasCaller
  <2>3. HeldSocketIsRight'
    BY DEF BridgeInv, BridgeTypeOK, CallShape, HeldSocketIsRight
  <2>4. DeliveredToNamedServer'
    BY DEF BridgeInv, BridgeTypeOK, CallShape, HeldSocketIsRight,
             DeliveredToNamedServer
  <2>5. PendingHasCaller'
    BY DEF BridgeInv, BridgeTypeOK, CallShape, PendingHasCaller
  <2>6. FreshFutures'
    BY DEF BridgeInv, BridgeTypeOK, CallShape, PendingHasCaller, FreshFutures
  <2> QED BY <2>1, <2>2, <2>3, <2>4, <2>5, <2>6 DEF BridgeInv
<1>18. CASE RegistryStep /\ UNCHANGED bridgeVars
  <2>1. \A s \in Servers : link'[s] = link[s] \/ link'[s] = None
    BY <1>18, RegistryKeepsLinks DEF RegistryInv
  <2>2. HeldSocketIsRight'
    BY <1>18, <2>1 DEF BridgeInv, BridgeTypeOK, CallShape, HeldSocketIsRight,
         bridgeVars
  <2>3. BridgeTypeOK' /\ CallShape' /\ DeliveredToNamedServer'
    BY <1>18 DEF BridgeInv, BridgeTypeOK, CallShape, DeliveredToNamedServer,
         bridgeVars
  <2>4. PendingHasCaller' /\ FreshFutures'
    BY <1>18 DEF BridgeInv, PendingHasCaller, FreshFutures, bridgeVars
  <2> QED
    BY <2>2, <2>3, <2>4 DEF BridgeInv
<1>19. CASE UNCHANGED vars
  BY <1>19 DEF vars, registryVars, bridgeVars, BridgeInv, BridgeTypeOK,
       CallShape, HeldSocketIsRight, DeliveredToNamedServer, PendingHasCaller,
       FreshFutures
<1> QED
  BY <1>1, <1>2, <1>3, <1>4, <1>5, <1>6, <1>7, <1>8, <1>9, <1>10, <1>11,
     <1>12, <1>13, <1>14, <1>15, <1>16, <1>17, <1>18, <1>19
     DEF BridgeNext, CallerStep

-----------------------------------------------------------------------------
\* BridgeInv is an invariant of the bridge, with the registry's.
THEOREM BridgeInvariant == Spec => [](RegistryInv /\ BridgeInv)
<1>1. Spec => []RegistryInv
  BY BridgeRefinesRegistry, RegistryInvariant, PTL
<1>2. Spec => []BridgeInv
  BY <1>1, BridgeInitially, BridgeInductive, PTL DEF Spec
<1> QED
  BY <1>1, <1>2, PTL

\* Type correctness of the calls, the futures and the messages.
THEOREM BridgeTypeCorrect == Spec => []BridgeTypeOK
<1>1. BridgeInv => BridgeTypeOK
  BY DEF BridgeInv
<1> QED
  BY <1>1, BridgeInvariant, PTL

\* A command only reaches the server it is for, for any number of servers,
\* reconnects and restarts, overlapping connections included.
THEOREM CommandsReachNamedServer == Spec => []DeliveredToNamedServer
<1>1. BridgeInv => DeliveredToNamedServer
  BY DEF BridgeInv
<1> QED
  BY <1>1, BridgeInvariant, PTL

\* Every entry of pending_commands is accounted for, whatever ids the
\* browsers choose.
THEOREM PendingAccounted == Spec => []PendingHasCaller
<1>1. BridgeInv => PendingHasCaller
  BY DEF BridgeInv
<1> QED
  BY <1>1, BridgeInvariant, PTL

\* With fresh ids, a waiting caller can always be answered.
THEOREM WaitersCanBeAnswered ==
  ASSUME FreshIds
  PROVE  Spec => []WaiterIsPending
<1>1. BridgeInv => WaiterIsPending
  BY DEF BridgeInv, FreshFutures, WaiterIsPending
<1> QED
  BY <1>1, BridgeInvariant, PTL

\* With fresh ids, no caller gets the response to another's command, however
\* timeouts, late responses and reconnects interleave.
THEOREM AnswersAreOwn ==
  ASSUME FreshIds
  PROVE  Spec => []AnsweredByOwnCommand
<1>1. BridgeInv => AnsweredByOwnCommand
  BY DEF BridgeInv, FreshFutures, AnsweredByOwnCommand
<1> QED
  BY <1>1, BridgeInvariant, PTL

\* With fresh ids, what the audit log says was done was done.
THEOREM AuditIsSound ==
  ASSUME FreshIds
  PROVE  Spec => []AuditIsTrue
<1>1. BridgeInv => AuditIsTrue
  BY CallsAssumption
     DEF BridgeInv, BridgeTypeOK, CallShape, FreshFutures, AuditIsTrue
<1> QED
  BY <1>1, BridgeInvariant, PTL

-----------------------------------------------------------------------------
\* Every step of the bridge is a step of RpcService, or leaves what callers
\* see unchanged.
LEMMA BridgeStepSimulates ==
  ASSUME FreshIds, BridgeInv, [BridgeNext]_vars
  PROVE  [Rpc!RpcNext]_(Rpc!rpcVars)
<1> USE NoneAssumption, CallsAssumption, CmdIdsAssumption
<1>1. ASSUME NEW k \in Calls, NEW s \in Servers, Admit(k, s)
      PROVE  UNCHANGED Rpc!rpcVars
  BY <1>1 DEF Admit, Rpc!rpcVars, StatusOf
<1>2. ASSUME NEW k \in Calls, SendText(k)
      PROVE  UNCHANGED Rpc!rpcVars
  BY <1>2 DEF SendText, Rpc!rpcVars, StatusOf
<1>3. ASSUME NEW k \in Calls, TimerFires(k)
      PROVE  UNCHANGED Rpc!rpcVars
  BY <1>3 DEF TimerFires, Rpc!rpcVars, StatusOf
<1>4. ASSUME NEW k \in Calls, WriteAudit(k)
      PROVE  UNCHANGED Rpc!rpcVars
  BY <1>4 DEF WriteAudit, Rpc!rpcVars, StatusOf
<1>5. ASSUME NEW k \in Calls, AuditFails(k)
      PROVE  UNCHANGED Rpc!rpcVars
  BY <1>5 DEF AuditFails, Rpc!rpcVars, StatusOf
<1>6. ASSUME NEW k \in Calls, Lose(k)
      PROVE  UNCHANGED Rpc!rpcVars
  BY <1>6 DEF Lose, Rpc!rpcVars, StatusOf
<1>7. ASSUME NEW k \in Calls, ResolveCommand(k)
      PROVE  UNCHANGED Rpc!rpcVars
  BY <1>7 DEF ResolveCommand, Rpc!rpcVars, StatusOf
<1>8. ASSUME NEW c \in Conns, NEW s \in Servers, AcceptFresh(c, s)
      PROVE  UNCHANGED Rpc!rpcVars
  BY <1>8 DEF AcceptFresh, bridgeVars, Rpc!rpcVars, StatusOf
<1>9. ASSUME NEW k \in Calls, NEW s \in Servers, Reject(k, s)
      PROVE  Rpc!Fail({k})
  BY <1>9
     DEF Reject, Finish, MoveTo, Rpc!Fail, StatusOf, BridgeInv, BridgeTypeOK, CallShape
<1>10. ASSUME NEW k \in Calls, NotConnected(k)
      PROVE  Rpc!Fail({k})
  BY <1>10
     DEF NotConnected, Finish, MoveTo, Rpc!Fail, StatusOf, BridgeInv, BridgeTypeOK, CallShape
<1>11. ASSUME NEW k \in Calls, SendFails(k)
      PROVE  Rpc!Fail({k})
  BY <1>11
     DEF SendFails, Finish, MoveTo, Rpc!Fail, StatusOf, BridgeInv, BridgeTypeOK, CallShape
<1>12. ASSUME NEW k \in Calls, TimeoutRaised(k)
      PROVE  Rpc!Fail({k})
  BY <1>12
     DEF TimeoutRaised, Finish, MoveTo, Rpc!Fail, StatusOf, BridgeInv, BridgeTypeOK, CallShape
<1>13. ASSUME NEW k \in Calls, NEW i \in CmdIds, Dispatch(k, i)
      PROVE  Rpc!Send(k)
  BY <1>13 DEF Dispatch, MoveTo, Rpc!Send, StatusOf, BridgeInv, BridgeTypeOK,
       CallShape
<1>14. ASSUME NEW k \in Calls, AgentExecute(k)
      PROVE  Rpc!Run(k)
  BY <1>14 DEF AgentExecute, Rpc!Run, StatusOf, BridgeInv, BridgeTypeOK,
       CallShape
<1>15. ASSUME NEW k \in Calls, ReturnResult(k) \/ BrowserGone(k)
      PROVE  Rpc!Answer(k)
  <2>1. /\ phase[k] = "answered"
        /\ outcome' = [outcome EXCEPT ![k] = "answered"]
        /\ UNCHANGED <<cid, executed>>
    BY <1>15 DEF ReturnResult, BrowserGone, Finish, MoveTo
  <2>2. outcome[k] = "none" /\ k \in executed
    BY <2>1 DEF BridgeInv, BridgeTypeOK, CallShape, FreshFutures
  <2> QED
    BY <2>1, <2>2 DEF Rpc!Answer, StatusOf, BridgeInv, BridgeTypeOK
<1>16. ASSUME BridgeRestart
      PROVE  Rpc!Fail({k \in Calls : phase[k] # "idle" /\ outcome[k] = "none"})
  BY <1>16 DEF BridgeRestart, Rpc!Fail, StatusOf, BridgeInv, BridgeTypeOK
<1>17. CASE RegistryStep /\ UNCHANGED bridgeVars
  BY <1>17 DEF bridgeVars, Rpc!rpcVars, StatusOf
<1>18. CASE UNCHANGED vars
  BY <1>18 DEF vars, bridgeVars, Rpc!rpcVars, StatusOf
<1>19. ASSUME NEW k \in Calls, Rpc!Fail({k})
      PROVE  Rpc!RpcNext
  BY <1>19 DEF Rpc!RpcNext
<1>20. ASSUME BridgeRestart
      PROVE  Rpc!RpcNext
  BY <1>16, <1>20 DEF Rpc!RpcNext
<1>21. ASSUME NEW k \in Calls, Rpc!Send(k) \/ Rpc!Run(k) \/ Rpc!Answer(k)
      PROVE  Rpc!RpcNext
  BY <1>21 DEF Rpc!RpcNext
<1> QED
  BY <1>1, <1>2, <1>3, <1>4, <1>5, <1>6, <1>7, <1>8, <1>9, <1>10, <1>11,
     <1>12, <1>13, <1>14, <1>15, <1>17, <1>18, <1>19, <1>20, <1>21
     DEF BridgeNext, CallerStep

\* With fresh ids, the bridge implements RpcService: a call ends once, and is
\* answered only with the result of its own command, which ran at most once.
THEOREM BridgeImplementsRpc ==
  ASSUME FreshIds
  PROVE  Spec => ImplementsRpc
<1>1. BridgeInit => Rpc!RpcInit
  BY NoneAssumption DEF BridgeInit, Rpc!RpcInit, StatusOf
<1>2. BridgeInv /\ [BridgeNext]_vars => [Rpc!RpcNext]_(Rpc!rpcVars)
  BY BridgeStepSimulates
<1> QED
  BY <1>1, <1>2, BridgeInvariant, PTL DEF Spec, ImplementsRpc, Rpc!RpcSpec
=============================================================================
