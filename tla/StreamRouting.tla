--------------------------- MODULE StreamRouting ---------------------------
(***************************************************************************)
(* Where the output of terminals and log streams goes: stream_subscribers  *)
(* and client_streams of Backend/app/ws/client_handler.py, kept by         *)
(* terminal_open, terminal_close, the logs.stream command, forward_to_     *)
(* stream and the cleanup of client_websocket.                             *)
(*                                                                         *)
(* The handler of a browser takes one message at a time and waits for the  *)
(* agent's reply before the next.  Stream ids are chosen by browsers; an   *)
(* agent treats opening an id it knows as success, so a browser that comes *)
(* back on a new websocket may open its terminal again under the old id.   *)
(***************************************************************************)
CONSTANTS
  Clients,   \* websocket objects of browsers; used again after cleanup
  Streams,   \* ids of terminals and log streams
  None

ASSUME NoneAssumption == None \notin Clients /\ None \notin Streams

VARIABLES
  handler,             \* "none", "ready" for a message, "opening" a stream,
                       \* "closing": leaving the loop with an exception
  alive,               \* clients whose websocket still takes messages
  opening,             \* stream the handler is waiting for
  stream_subscribers,  \* stream id -> websocket
  client_streams,      \* websocket -> stream ids
  forwarding,          \* websocket that output of the stream is being sent to
  originator,          \* history: last websocket to open the stream, unless
                       \* that failed or the stream was closed
  users                \* history: websockets that have opened or closed it

vars == <<handler, alive, opening, stream_subscribers, client_streams,
          forwarding, originator, users>>

(***************************************************************************)
(* The type of the state.                                                  *)
(***************************************************************************)
TypeOK ==
  /\ handler \in [Clients -> {"none", "ready", "opening", "closing"}]
  /\ alive \in SUBSET Clients
  /\ opening \in [Clients -> Streams \cup {None}]
  /\ stream_subscribers \in [Streams -> Clients \cup {None}]
  /\ client_streams \in [Clients -> SUBSET Streams]
  /\ forwarding \in [Streams -> Clients \cup {None}]
  /\ originator \in [Streams -> Clients \cup {None}]
  /\ users \in [Streams -> SUBSET Clients]

Init ==
  /\ handler = [w \in Clients |-> "none"]
  /\ alive = {}
  /\ opening = [w \in Clients |-> None]
  /\ stream_subscribers = [i \in Streams |-> None]
  /\ client_streams = [w \in Clients |-> {}]
  /\ forwarding = [i \in Streams |-> None]
  /\ originator = [i \in Streams |-> None]
  /\ users = [i \in Streams |-> {}]

-----------------------------------------------------------------------------
\* A browser connects and is authenticated.  No task holds a reference to the
\* websocket object of an earlier connection.
Connect(w) ==
  /\ handler[w] = "none"
  /\ \A i \in Streams : forwarding[i] # w
  /\ handler' = [handler EXCEPT ![w] = "ready"]
  /\ alive' = alive \cup {w}
  /\ client_streams' = [client_streams EXCEPT ![w] = {}]
  /\ UNCHANGED <<opening, stream_subscribers, forwarding, originator, users>>

\* The browser goes away; its handler has not noticed yet.
BrowserLost(w) ==
  /\ w \in alive
  /\ alive' = alive \ {w}
  /\ UNCHANGED <<handler, opening, stream_subscribers, client_streams,
                 forwarding, originator, users>>

\* _subscribe_stream
Subscribe(w, i) ==
  /\ stream_subscribers' = [stream_subscribers EXCEPT ![i] = w]
  /\ client_streams' = [client_streams EXCEPT ![w] = @ \cup {i}]

\* _unsubscribe_stream: whoever the subscriber is.
Unsubscribe(i) ==
  LET w == stream_subscribers[i] IN
  /\ stream_subscribers' = [stream_subscribers EXCEPT ![i] = None]
  /\ client_streams' = IF w = None THEN client_streams
                       ELSE [client_streams EXCEPT ![w] = @ \ {i}]

\* terminal_open, or the command logs.stream, past its authorization: the
\* originator is subscribed before the command is sent to the agent.
OpenStream(w, i) ==
  /\ handler[w] = "ready"
  /\ Subscribe(w, i)
  /\ handler' = [handler EXCEPT ![w] = "opening"]
  /\ opening' = [opening EXCEPT ![w] = i]
  /\ users' = [users EXCEPT ![i] = @ \cup {w}]
  /\ originator' = [originator EXCEPT ![i] = w]
  /\ UNCHANGED <<alive, forwarding>>

\* The handler goes on with the next message if the browser, which is told how
\* the open went, is still there.
Opened(w) ==
  /\ handler[w] = "opening"
  /\ handler' = [handler EXCEPT ![w] = IF w \in alive THEN "ready" ELSE "closing"]
  /\ opening' = [opening EXCEPT ![w] = None]

\* Mutant of OpenSucceeds: the subscription is dropped in a finally clause, not
\* in the except clauses.
OpenSucceedsUnsubscribes(w) ==
  /\ Opened(w)
  /\ w \in alive
  /\ Unsubscribe(opening[w])
  /\ UNCHANGED <<alive, forwarding, originator, users>>

\* The agent's reply is sent to the browser and the audit record committed.
OpenSucceeds(w) ==
  /\ Opened(w)
  /\ w \in alive
  /\ UNCHANGED <<alive, stream_subscribers, client_streams, forwarding,
                 originator, users>>

\* The agent is not connected, the command timed out, the reply could not be
\* sent or the audit record not written: the browser is sent an error.
OpenFails(w) ==
  /\ Opened(w)
  /\ Unsubscribe(opening[w])
  /\ originator' = [originator EXCEPT ![opening[w]] = IF @ = w THEN None ELSE @]
  /\ UNCHANGED <<alive, forwarding, users>>

\* terminal_close: unsubscribed first, whether or not the caller may close it.
CloseStream(w, i) ==
  /\ handler[w] = "ready"
  /\ Unsubscribe(i)
  /\ originator' = [originator EXCEPT ![i] = None]
  /\ users' = [users EXCEPT ![i] = @ \cup {w}]
  /\ UNCHANGED <<handler, alive, opening, forwarding>>

\* forward_to_stream: the subscriber is looked up and the send awaited.
\* (Without a subscriber nothing changes.)  The output of a stream comes from
\* the handler of one agent, one message after the other.
ForwardTo(i) ==
  /\ forwarding[i] = None
  /\ stream_subscribers[i] # None
  /\ forwarding' = [forwarding EXCEPT ![i] = stream_subscribers[i]]
  /\ UNCHANGED <<handler, alive, opening, stream_subscribers, client_streams,
                 originator, users>>

\* The send is over.  If it raised, the subscription is popped by id, whoever
\* the subscriber is by now.
Forwarded(i) ==
  /\ forwarding[i] # None
  /\ forwarding' = [forwarding EXCEPT ![i] = None]
  /\ stream_subscribers' = IF forwarding[i] \in alive THEN stream_subscribers
                           ELSE [stream_subscribers EXCEPT ![i] = None]
  /\ UNCHANGED <<handler, alive, opening, client_streams, originator, users>>

\* Mutant of Cleanup: the client's index is dropped, its subscriptions are not.
CleanupKeepsSubscriptions(w) ==
  /\ handler[w] \in {"ready", "closing"}
  /\ handler' = [handler EXCEPT ![w] = "none"]
  /\ alive' = alive \ {w}
  /\ client_streams' = [client_streams EXCEPT ![w] = {}]
  /\ originator' = [i \in Streams |-> IF originator[i] = w THEN None ELSE originator[i]]
  /\ UNCHANGED <<opening, stream_subscribers, forwarding, users>>

\* The finally clause: the subscriptions of every stream this websocket ever
\* subscribed to are popped, by id.
Cleanup(w) ==
  /\ handler[w] \in {"ready", "closing"}
  /\ handler' = [handler EXCEPT ![w] = "none"]
  /\ alive' = alive \ {w}
  /\ stream_subscribers' = [i \in Streams |->
                              IF i \in client_streams[w] THEN None
                              ELSE stream_subscribers[i]]
  /\ client_streams' = [client_streams EXCEPT ![w] = {}]
  /\ originator' = [i \in Streams |-> IF originator[i] = w THEN None ELSE originator[i]]
  /\ UNCHANGED <<opening, forwarding, users>>

-----------------------------------------------------------------------------
HandlerStep(w) ==
  OpenSucceeds(w) \/ OpenFails(w) \/ (w \notin alive /\ Cleanup(w))

Next ==
  \/ \E w \in Clients :
       Connect(w) \/ BrowserLost(w) \/ OpenSucceeds(w) \/ OpenFails(w) \/ Cleanup(w)
  \/ \E w \in Clients, i \in Streams : OpenStream(w, i) \/ CloseStream(w, i)
  \/ \E i \in Streams : ForwardTo(i) \/ Forwarded(i)

Spec == Init /\ [][Next]_vars

\* An open ends within the timeout of its command, and a handler notices that
\* its browser has gone.
Fairness == \A w \in Clients : WF_vars(HandlerStep(w))

FairSpec == Spec /\ Fairness

-----------------------------------------------------------------------------
(***************************************************************************)
(* Properties.                                                             *)
(***************************************************************************)

\* The subscriber of a stream is a client whose handler runs and that will
\* unsubscribe it when it ends, even if ids are shared.
SubscriberIsIndexed ==
  \A i \in Streams :
    LET w == stream_subscribers[i] IN
      w # None => handler[w] # "none" /\ i \in client_streams[w]

\* From the moment a browser asks for a stream, and until that fails or is
\* closed, it is the stream's subscriber as long as it is connected, whatever
\* other browsers do, provided that none of them uses the same id.
OriginatorIsSubscribed ==
  \A i \in Streams :
    originator[i] \in alive /\ users[i] = {originator[i]} =>
      stream_subscribers[i] = originator[i]

\* The subscriptions of a browser that has gone go too.
LostSubscriberForgotten ==
  \A w \in Clients, i \in Streams :
    stream_subscribers[i] = w /\ w \notin alive ~> stream_subscribers[i] # w
=============================================================================
