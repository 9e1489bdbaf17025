-------------------------- MODULE WatcherBroadcast --------------------------
(***************************************************************************)
(* Browsers watching servers and tickets, and the broadcasts to them:      *)
(* the watch / unwatch / subscribe_ticket / unsubscribe_ticket messages    *)
(* and the cleanup of client_websocket, forward_to_watchers and            *)
(* forward_to_ticket_watchers, all in Backend/app/ws/client_handler.py.    *)
(*                                                                         *)
(* Servers and tickets are watched by the same code over two pairs of      *)
(* maps; a topic is either.  A broadcast is one call of forward_to_...,    *)
(* made by the handler of an agent's telemetry, scan or log output, by the *)
(* alert task, by a diagnosis or by a ticket endpoint.  It iterates over   *)
(* the live Python set of a topic and awaits a send for every member, so   *)
(* everything else runs in between.  Python raises RuntimeError at the     *)
(* next member when the size of the set is not what it was at the start.   *)
(***************************************************************************)
EXTENDS FiniteSets, Naturals

CONSTANTS
  Topics,      \* server ids and ticket ids
  Clients,     \* websocket objects of browsers; used again once forgotten
  Broadcasts,  \* tasks that broadcast, each one broadcast at a time
  None

ASSUME TopicsAssumption == None \notin Topics /\ None \notin Clients
ASSUME ClientsAssumption == IsFiniteSet(Clients)

VARIABLES
  open,            \* clients whose handler is running
  alive,           \* clients whose websocket still takes messages
  watchers,        \* server_watchers / ticket_watchers: topic -> set
  keys,            \* topics that have a set, maybe empty, in that map
  client_watches,  \* client_watches / client_ticket_watches: client -> topics
  task,            \* "idle", "sending" (awaiting a send), "done", "raised"
  topic,           \* what the task is broadcasting to
  current,         \* client it is sending to
  left,            \* members of the set the iterator has not come to yet
  size,            \* size of the set when the iteration began
  detached,        \* the set was deleted from the map since (it is empty)
  grown,           \* a client was added to the set since
  disconnected,    \* clients whose send raised
  audience,        \* history: clients that were watching at the start, ...
  got              \* ... and those that were sent the message

clientVars == <<open, alive, client_watches>>
mapVars == <<watchers, keys>>
iterator == <<topic, current, left, size, disconnected>>
vars == <<clientVars, mapVars, task, iterator, detached, grown, audience, got>>

(***************************************************************************)
(* The type of the state.                                                  *)
(***************************************************************************)
TypeOK ==
  /\ open \in SUBSET Clients
  /\ alive \in SUBSET Clients
  /\ watchers \in [Topics -> SUBSET Clients]
  /\ keys \in SUBSET Topics
  /\ client_watches \in [Clients -> SUBSET Topics]
  /\ task \in [Broadcasts -> {"idle", "sending", "done", "raised"}]
  /\ topic \in [Broadcasts -> Topics \cup {None}]
  /\ current \in [Broadcasts -> Clients \cup {None}]
  /\ left \in [Broadcasts -> SUBSET Clients]
  /\ size \in [Broadcasts -> Nat]
  /\ detached \in [Broadcasts -> BOOLEAN]
  /\ grown \in [Broadcasts -> BOOLEAN]
  /\ disconnected \in [Broadcasts -> SUBSET Clients]
  /\ audience \in [Broadcasts -> SUBSET Clients]
  /\ got \in [Broadcasts -> SUBSET Clients]

Init ==
  /\ open = {} /\ alive = {}
  /\ watchers = [t \in Topics |-> {}]
  /\ keys = {}
  /\ client_watches = [w \in Clients |-> {}]
  /\ task = [b \in Broadcasts |-> "idle"]
  /\ topic = [b \in Broadcasts |-> None]
  /\ current = [b \in Broadcasts |-> None]
  /\ left = [b \in Broadcasts |-> {}]
  /\ size = [b \in Broadcasts |-> 0]
  /\ detached = [b \in Broadcasts |-> FALSE]
  /\ grown = [b \in Broadcasts |-> FALSE]
  /\ disconnected = [b \in Broadcasts |-> {}]
  /\ audience = [b \in Broadcasts |-> {}]
  /\ got = [b \in Broadcasts |-> {}]

-----------------------------------------------------------------------------
(***************************************************************************)
(* Browsers.                                                               *)
(***************************************************************************)

\* No task holds a reference to the websocket object.
Forgotten(w) ==
  \A b \in Broadcasts :
    w \notin left[b] \cup disconnected[b] \cup audience[b] \cup {current[b]}

\* A browser connects and is authenticated.
Connect(w) ==
  /\ w \notin open /\ Forgotten(w)
  /\ open' = open \cup {w}
  /\ alive' = alive \cup {w}
  /\ client_watches' = [client_watches EXCEPT ![w] = {}]
  /\ UNCHANGED <<mapVars, task, iterator, detached, grown, audience, got>>

\* "watch", "subscribe_ticket".  A broadcast that iterates over the set of
\* the map, not over one since deleted, has it grow under its feet.
Watch(w, t) ==
  /\ w \in open
  /\ watchers' = [watchers EXCEPT ![t] = @ \cup {w}]
  /\ keys' = keys \cup {t}
  /\ client_watches' = [client_watches EXCEPT ![w] = @ \cup {t}]
  /\ grown' = [b \in Broadcasts |->
                 grown[b] \/ /\ topic[b] = t /\ ~detached[b]
                             /\ w \notin watchers[t]]
  /\ UNCHANGED <<open, alive, task, iterator, detached, audience, got>>

\* "unwatch", "unsubscribe_ticket": the set stays in the map, even if empty.
\* The client is no longer owed what is being broadcast.
Unwatch(w, t) ==
  /\ w \in open /\ t \in keys
  /\ watchers' = [watchers EXCEPT ![t] = @ \ {w}]
  /\ client_watches' = [client_watches EXCEPT ![w] = @ \ {t}]
  /\ audience' = [b \in Broadcasts |->
                    IF topic[b] = t THEN audience[b] \ {w} ELSE audience[b]]
  /\ UNCHANGED <<open, alive, keys, task, iterator, detached, grown, got>>

\* The browser goes away; its handler has not noticed yet.
BrowserLost(w) ==
  /\ w \in alive
  /\ alive' = alive \ {w}
  /\ audience' = [b \in Broadcasts |-> audience[b] \ {w}]
  /\ UNCHANGED <<open, client_watches, mapVars, task, iterator, detached,
                 grown, got>>

\* Mutant of Cleanup: the client's index is popped before it is gone through,
\* so nothing is found to clean up.
CleanupFindsNothing(w) ==
  /\ w \in open
  /\ open' = open \ {w}
  /\ alive' = alive \ {w}
  /\ client_watches' = [client_watches EXCEPT ![w] = {}]
  /\ audience' = [b \in Broadcasts |-> audience[b] \ {w}]
  /\ UNCHANGED <<mapVars, task, iterator, detached, grown, got>>

\* The finally clause.  A set left empty is deleted from the map: a broadcast
\* in progress keeps the old one, a later watch makes a new one.
Cleanup(w) ==
  LET watched == client_watches[w] \cap keys
      deleted == {t \in watched : watchers[t] \subseteq {w}} IN
  /\ w \in open
  /\ open' = open \ {w}
  /\ alive' = alive \ {w}
  /\ watchers' = [t \in Topics |->
                    IF t \in watched THEN watchers[t] \ {w} ELSE watchers[t]]
  /\ keys' = keys \ deleted
  /\ client_watches' = [client_watches EXCEPT ![w] = {}]
  /\ detached' = [b \in Broadcasts |-> detached[b] \/ topic[b] \in deleted]
  /\ audience' = [b \in Broadcasts |-> audience[b] \ {w}]
  /\ UNCHANGED <<task, iterator, grown, got>>

-----------------------------------------------------------------------------
(***************************************************************************)
(* forward_to_watchers, forward_to_ticket_watchers.                        *)
(***************************************************************************)

\* The set the task iterates over, as it is now.
IteratedSet(b) == IF detached[b] THEN {} ELSE watchers[topic[b]]

\* The iteration begins and the first send is awaited.  Without watchers
\* there is nothing to do.
Begin(b, t) ==
  /\ task[b] = "idle"
  /\ \E w \in watchers[t] :
       /\ current' = [current EXCEPT ![b] = w]
       /\ left' = [left EXCEPT ![b] = watchers[t] \ {w}]
  /\ task' = [task EXCEPT ![b] = "sending"]
  /\ topic' = [topic EXCEPT ![b] = t]
  /\ size' = [size EXCEPT ![b] = Cardinality(watchers[t])]
  /\ audience' = [audience EXCEPT ![b] = watchers[t] \cap alive]
  /\ UNCHANGED <<clientVars, mapVars, detached, grown, disconnected, got>>

\* What the await of send_json brought: the message is sent, or it raised.
Received(b) == got[b] \cup ({current[b]} \cap alive)
Failed(b) == disconnected[b] \cup ({current[b]} \ alive)

SizeUnchanged(b) == Cardinality(IteratedSet(b)) = size[b]

\* Mutant of SendNext: members are drawn again and again.
SendNextAgain(b) ==
  /\ task[b] = "sending"
  /\ SizeUnchanged(b)
  /\ \E w \in IteratedSet(b) :
       /\ current' = [current EXCEPT ![b] = w]
       /\ left' = [left EXCEPT ![b] = @ \ {w}]
  /\ got' = [got EXCEPT ![b] = Received(b)]
  /\ disconnected' = [disconnected EXCEPT ![b] = Failed(b)]
  /\ UNCHANGED <<clientVars, mapVars, task, topic, size, detached, grown,
                 audience>>

\* The iterator goes on to another member.  A member added since, in the
\* place of one removed, may or may not come up.
SendNext(b) ==
  /\ task[b] = "sending"
  /\ SizeUnchanged(b)
  /\ \E w \in IteratedSet(b) \ (Received(b) \cup Failed(b)) :
       /\ current' = [current EXCEPT ![b] = w]
       /\ left' = [left EXCEPT ![b] = @ \ {w}]
  /\ got' = [got EXCEPT ![b] = Received(b)]
  /\ disconnected' = [disconnected EXCEPT ![b] = Failed(b)]
  /\ UNCHANGED <<clientVars, mapVars, task, topic, size, detached, grown,
                 audience>>

\* The iterator is dropped and the function is left.
Leave(b, how) ==
  /\ task[b] = "sending"
  /\ task' = [task EXCEPT ![b] = how]
  /\ got' = [got EXCEPT ![b] = Received(b)]
  /\ current' = [current EXCEPT ![b] = None]
  /\ left' = [left EXCEPT ![b] = {}]
  /\ size' = [size EXCEPT ![b] = 0]
  /\ disconnected' = [disconnected EXCEPT ![b] = {}]
  /\ UNCHANGED <<clientVars, keys, topic, detached, grown, audience>>

\* Mutant of Complete: the loop ends at the first client whose send raises.
CompleteAtFailure(b) ==
  /\ Leave(b, "done")
  /\ SizeUnchanged(b)
  /\ left[b] \cap IteratedSet(b) = {} \/ grown[b] \/ current[b] \notin alive
  /\ watchers' = IF detached[b] THEN watchers
                 ELSE [watchers EXCEPT ![topic[b]] = @ \ Failed(b)]

\* The iterator is exhausted; clients whose send raised are discarded.  An
\* addition may have made Python lay the set out anew, in which case the
\* iterator may miss members it had not come to.
Complete(b) ==
  /\ Leave(b, "done")
  /\ SizeUnchanged(b)
  /\ left[b] \cap IteratedSet(b) = {} \/ grown[b]
  /\ watchers' = IF detached[b] THEN watchers
                 ELSE [watchers EXCEPT ![topic[b]] = @ \ Failed(b)]

\* RuntimeError: Set changed size during iteration.  The other members get
\* nothing, nobody is discarded, and the task that broadcasts gets the
\* exception.
IterationRaises(b) ==
  /\ Leave(b, "raised")
  /\ ~SizeUnchanged(b)
  /\ UNCHANGED watchers

\* The task goes on, and may broadcast again.
Return(b) ==
  /\ task[b] \in {"done", "raised"}
  /\ task' = [task EXCEPT ![b] = "idle"]
  /\ topic' = [topic EXCEPT ![b] = None]
  /\ detached' = [detached EXCEPT ![b] = FALSE]
  /\ grown' = [grown EXCEPT ![b] = FALSE]
  /\ audience' = [audience EXCEPT ![b] = {}]
  /\ got' = [got EXCEPT ![b] = {}]
  /\ UNCHANGED <<clientVars, mapVars, current, left, size, disconnected>>

-----------------------------------------------------------------------------
ClientStep(w) ==
  \/ Connect(w) \/ BrowserLost(w) \/ Cleanup(w)
  \/ \E t \in Topics : Watch(w, t) \/ Unwatch(w, t)

BroadcastStep(b) ==
  SendNext(b) \/ Complete(b) \/ IterationRaises(b) \/ Return(b)

Next ==
  \/ \E w \in Clients : ClientStep(w)
  \/ \E b \in Broadcasts, t \in Topics : Begin(b, t)
  \/ \E b \in Broadcasts : BroadcastStep(b)

Spec == Init /\ [][Next]_vars

\* Every awaited send returns or raises, and a handler notices that its
\* browser has gone.  Nothing makes browsers come or tasks broadcast.
Fairness ==
  /\ \A b \in Broadcasts : WF_vars(BroadcastStep(b))
  /\ \A w \in Clients : WF_vars(w \notin alive /\ Cleanup(w))

FairSpec == Spec /\ Fairness

-----------------------------------------------------------------------------
(***************************************************************************)
(* Properties.                                                             *)
(***************************************************************************)

\* A watcher is a client whose handler runs and knows it, so that cleanup
\* takes it out again: no set ever keeps a websocket whose handler is over.
WatcherIsIndexed ==
  \A t \in Topics : \A w \in watchers[t] :
    w \in open /\ t \in client_watches[w]

\* A broadcast that completes, and during which nobody began to watch, has
\* reached every client that was watching when it began, has not left since
\* and is still connected.
CompletedReachesAudience ==
  \A b \in Broadcasts :
    task[b] = "done" /\ ~grown[b] => audience[b] \subseteq got[b]

\* A broadcast ends, although watchers come and go while it runs.
BroadcastEnds ==
  \A b \in Broadcasts : task[b] = "sending" ~> task[b] # "sending"

\* A lost browser is eventually watching nothing.
LostBrowserForgotten ==
  \A w \in Clients, t \in Topics :
    w \notin alive /\ w \in watchers[t] ~> w \notin watchers[t]
=============================================================================
