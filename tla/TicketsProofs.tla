--------------------------- MODULE TicketsProofs ---------------------------
(***************************************************************************)
(* Proofs about WatcherBroadcast, for any number of browsers, topics and   *)
(* broadcasts in progress, and about Tickets, which is composed with it,   *)
(* for any number of tickets, contents and requests.                       *)
(*                                                                         *)
(* Broadcasts.  A client in the audience of a broadcast is always          *)
(* accounted for: sent the message, being sent it, or still ahead of the   *)
(* iterator in the set it iterates over.  The last needs that nobody but   *)
(* the client takes it out of that set, in particular not another          *)
(* broadcast that discards the clients it could not reach, and that a set  *)
(* is not deleted from the map under it.                                   *)
(*                                                                         *)
(* Tickets.  At most one request at a time has flushed a change of a       *)
(* ticket, so while it tells the watchers nobody else does, and a watcher  *)
(* is in one of three places: it got the message and was last told the new *)
(* content; it is still owed the message and was last told the committed   *)
(* one; or it came later and was told nothing.  A broadcast that completes *)
(* undisturbed leaves nobody in the second place, and the commit turns the *)
(* first one into the committed content.                                   *)
(***************************************************************************)
EXTENDS Tickets, FiniteSetTheorems, TLAPS

\* A topic with watchers has a set in the map, so cleanup will find it.
SetsHaveKeys == \A t \in Topics : watchers[t] # {} => t \in keys

\* What the state of a task says of its iterator.
TaskShape ==
  \A b \in Broadcasts :
    /\ task[b] = "idle" <=> topic[b] = None
    /\ task[b] = "sending" <=> current[b] # None
    /\ task[b] = "idle" =>
         ~detached[b] /\ ~grown[b] /\ audience[b] = {} /\ got[b] = {}
    /\ task[b] # "sending" => left[b] = {} /\ disconnected[b] = {}

\* The audience is connected; clients that could not be reached are not.
AudienceConnected ==
  /\ alive \subseteq open
  /\ \A b \in Broadcasts :
       audience[b] \subseteq alive /\ disconnected[b] \cap alive = {}

\* Until it is sent the message, a client of the audience is in the set and
\* ahead of the iterator.
AudienceAhead ==
  \A b \in Broadcasts :
    task[b] = "sending" =>
      /\ audience[b] \subseteq IteratedSet(b)
      /\ audience[b] \subseteq got[b] \cup {current[b]} \cup left[b]

WatcherInv ==
  /\ TypeOK
  /\ WatcherIsIndexed
  /\ SetsHaveKeys
  /\ TaskShape
  /\ AudienceConnected
  /\ AudienceAhead
  /\ CompletedReachesAudience

-----------------------------------------------------------------------------
\* Sets of clients are finite, so their size is a number.
LEMMA SetSizes == \A S \in SUBSET Clients : Cardinality(S) \in Nat
BY ClientsAssumption, FS_Subset, FS_CardinalityType

\* The invariant holds initially: nobody is connected.
LEMMA WatcherInit == Init => WatcherInv
<1> SUFFICES ASSUME Init PROVE WatcherInv
  OBVIOUS
<1> QED
  BY TopicsAssumption DEF Init, WatcherInv, TypeOK, WatcherIsIndexed,
       SetsHaveKeys, TaskShape, AudienceConnected, AudienceAhead,
       CompletedReachesAudience

\* Every step of a browser, its handler or a broadcast preserves it.
LEMMA WatcherInductive == WatcherInv /\ [Next]_vars => WatcherInv'
<1> SUFFICES ASSUME WatcherInv, [Next]_vars PROVE WatcherInv'
  OBVIOUS
<1> USE TopicsAssumption
<1>1. ASSUME NEW w \in Clients, Connect(w)
      PROVE  WatcherInv'
  <2> USE <1>1 DEF Connect, Forgotten, clientVars, mapVars, iterator
  <2>1. TypeOK'
    BY DEF WatcherInv, TypeOK
  <2>2. WatcherIsIndexed' /\ SetsHaveKeys'
    BY DEF WatcherInv, TypeOK, WatcherIsIndexed, SetsHaveKeys
  <2>3. TaskShape'
    BY DEF WatcherInv, TypeOK, TaskShape
  <2>4. AudienceConnected'
    BY DEF WatcherInv, TypeOK, TaskShape, AudienceConnected
  <2>5. AudienceAhead'
    BY DEF WatcherInv, TypeOK, WatcherIsIndexed, SetsHaveKeys, TaskShape,
           AudienceConnected, AudienceAhead, IteratedSet
  <2>6. CompletedReachesAudience'
    BY DEF WatcherInv, TypeOK, TaskShape, AudienceConnected, AudienceAhead,
           IteratedSet, CompletedReachesAudience
  <2> QED BY <2>1, <2>2, <2>3, <2>4, <2>5, <2>6 DEF WatcherInv
<1>2. ASSUME NEW w \in Clients, NEW t \in Topics, Watch(w, t)
      PROVE  WatcherInv'
  <2> USE <1>2 DEF Watch, clientVars, mapVars, iterator
  <2>1. TypeOK'
    BY DEF WatcherInv, TypeOK
  <2>2. WatcherIsIndexed' /\ SetsHaveKeys'
    BY DEF WatcherInv, TypeOK, WatcherIsIndexed, SetsHaveKeys
  <2>3. TaskShape'
    BY DEF WatcherInv, TypeOK, TaskShape
  <2>4. AudienceConnected'
    BY DEF WatcherInv, TypeOK, TaskShape, AudienceConnected
  <2>5. AudienceAhead'
    BY DEF WatcherInv, TypeOK, WatcherIsIndexed, SetsHaveKeys, TaskShape,
           AudienceConnected, AudienceAhead, IteratedSet
  <2>6. CompletedReachesAudience'
    BY DEF WatcherInv, TypeOK, TaskShape, AudienceConnected, AudienceAhead,
           IteratedSet, CompletedReachesAudience
  <2> QED BY <2>1, <2>2, <2>3, <2>4, <2>5, <2>6 DEF WatcherInv
<1>3. ASSUME NEW w \in Clients, NEW t \in Topics, Unwatch(w, t)
      PROVE  WatcherInv'
  <2> USE <1>3 DEF Unwatch, clientVars, mapVars, iterator
  <2>1. TypeOK'
    BY DEF WatcherInv, TypeOK
  <2>2. WatcherIsIndexed' /\ SetsHaveKeys'
    BY DEF WatcherInv, TypeOK, WatcherIsIndexed, SetsHaveKeys
  <2>3. TaskShape'
    BY DEF WatcherInv, TypeOK, TaskShape
  <2>4. AudienceConnected'
    BY DEF WatcherInv, TypeOK, TaskShape, AudienceConnected
  <2>5. AudienceAhead'
    BY DEF WatcherInv, TypeOK, WatcherIsIndexed, SetsHaveKeys, TaskShape,
           AudienceConnected, AudienceAhead, IteratedSet
  <2>6. CompletedReachesAudience'
    BY DEF WatcherInv, TypeOK, TaskShape, AudienceConnected, AudienceAhead,
           IteratedSet, CompletedReachesAudience
  <2> QED BY <2>1, <2>2, <2>3, <2>4, <2>5, <2>6 DEF WatcherInv
<1>4. ASSUME NEW w \in Clients, BrowserLost(w)
      PROVE  WatcherInv'
  <2> USE <1>4 DEF BrowserLost, clientVars, mapVars, iterator
  <2>1. TypeOK'
    BY DEF WatcherInv, TypeOK
  <2>2. WatcherIsIndexed' /\ SetsHaveKeys'
    BY DEF WatcherInv, TypeOK, WatcherIsIndexed, SetsHaveKeys
  <2>3. TaskShape'
    BY DEF WatcherInv, TypeOK, TaskShape
  <2>4. AudienceConnected'
    BY DEF WatcherInv, TypeOK, TaskShape, AudienceConnected
  <2>5. AudienceAhead'
    BY DEF WatcherInv, TypeOK, WatcherIsIndexed, SetsHaveKeys, TaskShape,
           AudienceConnected, AudienceAhead, IteratedSet
  <2>6. CompletedReachesAudience'
    BY DEF WatcherInv, TypeOK, TaskShape, AudienceConnected, AudienceAhead,
           IteratedSet, CompletedReachesAudience
  <2> QED BY <2>1, <2>2, <2>3, <2>4, <2>5, <2>6 DEF WatcherInv
<1>5. ASSUME NEW w \in Clients, Cleanup(w)
      PROVE  WatcherInv'
  <2> USE <1>5 DEF Cleanup, clientVars, mapVars, iterator
  <2>1. TypeOK'
    BY DEF WatcherInv, TypeOK
  <2>2. WatcherIsIndexed' /\ SetsHaveKeys'
    BY DEF WatcherInv, TypeOK, WatcherIsIndexed, SetsHaveKeys
  <2>3. TaskShape'
    BY DEF WatcherInv, TypeOK, TaskShape
  <2>4. AudienceConnected'
    BY DEF WatcherInv, TypeOK, TaskShape, AudienceConnected
  <2>5. AudienceAhead'
    BY DEF WatcherInv, TypeOK, WatcherIsIndexed, SetsHaveKeys, TaskShape,
           AudienceConnected, AudienceAhead, IteratedSet
  <2>6. CompletedReachesAudience'
    BY DEF WatcherInv, TypeOK, TaskShape, AudienceConnected, AudienceAhead,
           IteratedSet, CompletedReachesAudience
  <2> QED BY <2>1, <2>2, <2>3, <2>4, <2>5, <2>6 DEF WatcherInv
<1>6. ASSUME NEW b \in Broadcasts, NEW t \in Topics, Begin(b, t)
      PROVE  WatcherInv'
  <2> USE <1>6 DEF Begin, clientVars, mapVars, iterator
  <2>1. TypeOK'
    BY SetSizes DEF WatcherInv, TypeOK
  <2>2. WatcherIsIndexed' /\ SetsHaveKeys'
    BY DEF WatcherInv, TypeOK, WatcherIsIndexed, SetsHaveKeys
  <2>3. TaskShape'
    BY DEF WatcherInv, TypeOK, TaskShape
  <2>4. AudienceConnected'
    BY DEF WatcherInv, TypeOK, TaskShape, AudienceConnected
  <2>5. AudienceAhead'
    BY DEF WatcherInv, TypeOK, WatcherIsIndexed, SetsHaveKeys, TaskShape,
           AudienceConnected, AudienceAhead, IteratedSet
  <2>6. CompletedReachesAudience'
    BY DEF WatcherInv, TypeOK, TaskShape, AudienceConnected, AudienceAhead,
           IteratedSet, CompletedReachesAudience
  <2> QED BY <2>1, <2>2, <2>3, <2>4, <2>5, <2>6 DEF WatcherInv
<1>7. ASSUME NEW b \in Broadcasts, SendNext(b)
      PROVE  WatcherInv'
  <2> USE <1>7 DEF SendNext, Received, Failed, clientVars, mapVars, iterator
  <2> PICK w \in IteratedSet(b) : /\ current' = [current EXCEPT ![b] = w]
                                   /\ left' = [left EXCEPT ![b] = @ \ {w}]
    OBVIOUS
  <2>0. w \in Clients /\ current[b] \in Clients
    BY DEF WatcherInv, TypeOK, TaskShape, IteratedSet
  <2>1. TypeOK'
    BY <2>0 DEF WatcherInv, TypeOK
  <2>2. WatcherIsIndexed' /\ SetsHaveKeys'
    BY DEF WatcherInv, TypeOK, WatcherIsIndexed, SetsHaveKeys
  <2>3. TaskShape'
    BY <2>0 DEF WatcherInv, TypeOK, TaskShape
  <2>4. AudienceConnected'
    BY DEF WatcherInv, TypeOK, TaskShape, AudienceConnected
  <2>5. AudienceAhead'
    BY DEF WatcherInv, TypeOK, WatcherIsIndexed, SetsHaveKeys, TaskShape,
           AudienceConnected, AudienceAhead, IteratedSet
  <2>6. CompletedReachesAudience'
    BY DEF WatcherInv, TypeOK, TaskShape, AudienceConnected, AudienceAhead,
           IteratedSet, CompletedReachesAudience
  <2> QED BY <2>1, <2>2, <2>3, <2>4, <2>5, <2>6 DEF WatcherInv
<1>8. ASSUME NEW b \in Broadcasts, Complete(b)
      PROVE  WatcherInv'
  <2> USE <1>8 DEF Complete, Leave, Received, Failed, clientVars, mapVars, iterator
  <2>1. TypeOK'
    BY DEF WatcherInv, TypeOK
  <2>2. WatcherIsIndexed' /\ SetsHaveKeys'
    BY DEF WatcherInv, TypeOK, WatcherIsIndexed, SetsHaveKeys
  <2>3. TaskShape'
    BY DEF WatcherInv, TypeOK, TaskShape
  <2>4. AudienceConnected'
    BY DEF WatcherInv, TypeOK, TaskShape, AudienceConnected
  <2>5. AudienceAhead'
    BY DEF WatcherInv, TypeOK, WatcherIsIndexed, SetsHaveKeys, TaskShape,
           AudienceConnected, AudienceAhead, IteratedSet
  <2>6. CompletedReachesAudience'
    BY DEF WatcherInv, TypeOK, TaskShape, AudienceConnected, AudienceAhead,
           IteratedSet, CompletedReachesAudience
  <2> QED BY <2>1, <2>2, <2>3, <2>4, <2>5, <2>6 DEF WatcherInv
<1>9. ASSUME NEW b \in Broadcasts, IterationRaises(b)
      PROVE  WatcherInv'
  <2> USE <1>9 DEF IterationRaises, Leave, Received, clientVars, mapVars, iterator
  <2>1. TypeOK'
    BY DEF WatcherInv, TypeOK
  <2>2. WatcherIsIndexed' /\ SetsHaveKeys'
    BY DEF WatcherInv, TypeOK, WatcherIsIndexed, SetsHaveKeys
  <2>3. TaskShape'
    BY DEF WatcherInv, TypeOK, TaskShape
  <2>4. AudienceConnected'
    BY DEF WatcherInv, TypeOK, TaskShape, AudienceConnected
  <2>5. AudienceAhead'
    BY DEF WatcherInv, TypeOK, WatcherIsIndexed, SetsHaveKeys, TaskShape,
           AudienceConnected, AudienceAhead, IteratedSet
  <2>6. CompletedReachesAudience'
    BY DEF WatcherInv, TypeOK, TaskShape, AudienceConnected, AudienceAhead,
           IteratedSet, CompletedReachesAudience
  <2> QED BY <2>1, <2>2, <2>3, <2>4, <2>5, <2>6 DEF WatcherInv
<1>10. ASSUME NEW b \in Broadcasts, Return(b)
      PROVE  WatcherInv'
  <2> USE <1>10 DEF Return, clientVars, mapVars, iterator
  <2>1. TypeOK'
    BY DEF WatcherInv, TypeOK
  <2>2. WatcherIsIndexed' /\ SetsHaveKeys'
    BY DEF WatcherInv, TypeOK, WatcherIsIndexed, SetsHaveKeys
  <2>3. TaskShape'
    BY DEF WatcherInv, TypeOK, TaskShape
  <2>4. AudienceConnected'
    BY DEF WatcherInv, TypeOK, TaskShape, AudienceConnected
  <2>5. AudienceAhead'
    BY DEF WatcherInv, TypeOK, WatcherIsIndexed, SetsHaveKeys, TaskShape,
           AudienceConnected, AudienceAhead, IteratedSet
  <2>6. CompletedReachesAudience'
    BY DEF WatcherInv, TypeOK, TaskShape, AudienceConnected, AudienceAhead,
           IteratedSet, CompletedReachesAudience
  <2> QED BY <2>1, <2>2, <2>3, <2>4, <2>5, <2>6 DEF WatcherInv
<1>11. CASE UNCHANGED vars
  BY <1>11 DEF vars, clientVars, mapVars, iterator, WatcherInv, TypeOK,
       WatcherIsIndexed, SetsHaveKeys, TaskShape, AudienceConnected,
       AudienceAhead, IteratedSet, CompletedReachesAudience
<1> QED
  BY <1>1, <1>2, <1>3, <1>4, <1>5, <1>6, <1>7, <1>8, <1>9, <1>10, <1>11
     DEF Next, ClientStep, BroadcastStep

\* WatcherInv is an invariant of the specification.
THEOREM WatcherInvariant == Spec => []WatcherInv
BY WatcherInit, WatcherInductive, PTL DEF Spec

\* The maps, the iterators and the tasks stay well typed.
THEOREM WatchersTypeCorrect == Spec => []TypeOK
<1>1. WatcherInv => TypeOK
  BY DEF WatcherInv
<1> QED
  BY <1>1, WatcherInvariant, PTL

\* No set of watchers keeps a client whose handler is over, for any number of
\* browsers and topics.
THEOREM WatchersAreIndexed == Spec => []WatcherIsIndexed
<1>1. WatcherInv => WatcherIsIndexed
  BY DEF WatcherInv
<1> QED
  BY <1>1, WatcherInvariant, PTL

\* A broadcast that completes undisturbed has reached its audience, for any
\* number of browsers, topics and concurrent broadcasts.
THEOREM CompletedBroadcastsReachAll == Spec => []CompletedReachesAudience
<1>1. WatcherInv => CompletedReachesAudience
  BY DEF WatcherInv
<1> QED
  BY <1>1, WatcherInvariant, PTL

-----------------------------------------------------------------------------
(***************************************************************************)
(* Tickets.                                                                *)
(***************************************************************************)

\* Request b has sent its changes of ticket t and not committed them.
Telling(b, t) == req[b] # None /\ req[b].ticket = t /\ req[b].flushed

\* Request b is telling the watchers of t what the ticket is going to be.
Updating(b, t) == Telling(b, t) /\ req[b].kind = "update"

\* The lock of the row: one request tells of a ticket at a time.
OneTeller ==
  \A t \in Topics : \A b, c \in Broadcasts :
    Telling(b, t) /\ Telling(c, t) => b = c

\* A broadcast is about the ticket of its request, which exists; a message
\* leaves the ticket as it was read.
RequestShape ==
  \A b \in Broadcasts :
    /\ task[b] # "idle" => Telling(b, topic[b])
    /\ req[b] # None =>
         /\ row[req[b].ticket] # None
         /\ req[b].kind = "message" => req[b].new = req[b].old

\* Nobody is told of a ticket that does not exist.
NothingToldBefore ==
  \A t \in Topics : row[t] = None => \A w \in Clients : told[t][w] = None

\* A watcher that no request has told anything yet knows what is committed.
UntoldKnowsCommitted ==
  \A t \in Topics, w \in Clients :
    (/\ w \in watchers[t] \cap alive
     /\ w \notin misled[t]
     /\ \A b \in Broadcasts : Updating(b, t) => w \notin got[b])
    => told[t][w] \in {None, row[t]}

\* A watcher that was sent the update knows the new content; one that was
\* neither sent it nor is owed it has come since, and was told nothing.
UpdateIsKnown ==
  \A t \in Topics, w \in Clients, b \in Broadcasts :
    w \in watchers[t] \cap alive /\ Updating(b, t) =>
      /\ w \in got[b] => told[t][w] \in {None, req[b].new}
      /\ w \notin got[b] \cup audience[b] => told[t][w] = None

TicketsInv ==
  /\ WatcherInv
  /\ TicketsTypeOK
  /\ OneTeller
  /\ RequestShape
  /\ NothingToldBefore
  /\ UntoldKnowsCommitted
  /\ UpdateIsKnown

-----------------------------------------------------------------------------
\* A step of a browser changes nothing of the broadcasts but who is owed the
\* message, and of the watchers of a ticket only the browser itself, which is
\* owed nothing any more when it stops watching or is lost.
LEMMA BrowserFrame ==
  ASSUME WatcherInv, NEW w \in Clients, ClientStep(w)
  PROVE  /\ task' = task /\ topic' = topic /\ got' = got
         /\ \A v \in Clients : v # w =>
              /\ \A t \in Topics : v \in watchers'[t] <=> v \in watchers[t]
              /\ v \in alive' <=> v \in alive
              /\ \A b \in Broadcasts : v \in audience'[b] <=> v \in audience[b]
         /\ w \in alive' \ alive => \A t \in Topics : w \notin watchers'[t]
         /\ \A b \in Broadcasts, t \in Topics :
              topic[b] = t /\ w \in audience[b] \ audience'[b] =>
                w \notin watchers'[t] \cap alive'
<1> USE DEF WatcherInv, TypeOK, clientVars, mapVars, iterator
<1>1. CASE Connect(w)
  BY <1>1 DEF Connect, WatcherIsIndexed
<1>2. CASE BrowserLost(w)
  BY <1>2 DEF BrowserLost
<1>3. CASE Cleanup(w)
  BY <1>3 DEF Cleanup
<1>4. CASE \E t \in Topics : Watch(w, t)
  BY <1>4 DEF Watch
<1>5. CASE \E t \in Topics : Unwatch(w, t)
  BY <1>5 DEF Unwatch
<1> QED
  BY <1>1, <1>2, <1>3, <1>4, <1>5 DEF ClientStep

\* A step of a broadcast adds the client it was sending to, if it is there,
\* to those that got the message, and adds no watcher.
LEMMA ForwardFrame ==
  ASSUME WatcherInv, NEW b \in Broadcasts,
         SendNext(b) \/ Complete(b) \/ IterationRaises(b)
  PROVE  /\ task[b] = "sending" /\ task'[b] # "idle"
         /\ current[b] \in Clients
         /\ \A c \in Broadcasts :
              /\ task'[c] = "idle" <=> task[c] = "idle"
              /\ got'[c] = IF c = b THEN got[b] \cup ({current[b]} \cap alive) ELSE got[c]
         /\ topic' = topic /\ audience' = audience /\ alive' = alive
         /\ \A t \in Topics : watchers'[t] \subseteq watchers[t]
<1> USE DEF WatcherInv, TypeOK, clientVars, mapVars, iterator, Received
<1>1. task[b] = "sending" /\ current[b] \in Clients
  BY DEF SendNext, Complete, IterationRaises, Leave, TaskShape
<1>2. CASE SendNext(b)
  BY <1>1, <1>2 DEF SendNext
<1>3. CASE Complete(b)
  BY <1>1, <1>3 DEF Complete, Leave
<1>4. CASE IterationRaises(b)
  BY <1>1, <1>4 DEF IterationRaises, Leave
<1> QED
  BY <1>1, <1>2, <1>3, <1>4

\* The tickets see no step of the watchers and the broadcasts but those of
\* WatcherBroadcast.
LEMMA TicketsStepsAreWatcherSteps ==
  TicketsInv /\ [TicketsNext]_<<vars, ticketVars>> => [Next]_vars
<1> SUFFICES ASSUME TicketsInv, TicketsNext PROVE [Next]_vars
  OBVIOUS
<1>1. ASSUME NEW w \in Clients, BrowserStep(w) PROVE Next
  BY <1>1 DEF BrowserStep, Next
<1>2. ASSUME NEW t \in Topics, create_ticket(t) PROVE UNCHANGED vars
  BY <1>2 DEF create_ticket
<1>3. ASSUME NEW b \in Broadcasts, NEW t \in Topics, NEW k, NEW v, Read(b, t, k, v)
      PROVE  UNCHANGED vars
  BY <1>3 DEF Read
<1>4. ASSUME NEW b \in Broadcasts, Flush(b) PROVE [Next]_vars
  <2>1. req[b].ticket \in Topics
    BY <1>4 DEF Flush, TicketsInv, TicketsTypeOK, Request
  <2> QED
    BY <1>4, <2>1 DEF Flush, Next
<1>5. ASSUME NEW b \in Broadcasts, Forward(b) PROVE Next
  BY <1>5 DEF Forward, Next, BroadcastStep
<1>6. ASSUME NEW b \in Broadcasts, Over(b) PROVE [Next]_vars
  BY <1>6 DEF Over, Next, BroadcastStep
<1> QED
  BY <1>1, <1>2, <1>3, <1>4, <1>5, <1>6
     DEF TicketsNext, update_ticket, update_individual_ticket,
         create_ticket_message, add_individual_ticket_message,
         RequestStep, Commit, Rollback

\* The invariant holds initially: there is no ticket.
LEMMA TicketsInitially == TicketsInit => TicketsInv
<1> SUFFICES ASSUME TicketsInit PROVE TicketsInv
  OBVIOUS
<1>1. WatcherInv
  BY WatcherInit DEF TicketsInit
<1> QED
  BY <1>1 DEF TicketsInit, Init, TicketsInv, WatcherInv, TicketsTypeOK, OneTeller,
       RequestShape, NothingToldBefore, UntoldKnowsCommitted, UpdateIsKnown,
       Telling, Updating

\* A browser that comes, goes, watches or stops watching preserves it.
LEMMA BrowserPreserves ==
  ASSUME TicketsInv, WatcherInv', NEW w \in Clients, BrowserStep(w)
  PROVE  TicketsInv'
<1> USE DEF Telling, Updating
<1>1. WatcherInv /\ TypeOK /\ TypeOK' /\ ClientStep(w)
  BY DEF TicketsInv, WatcherInv, BrowserStep
<1>2. /\ task' = task /\ topic' = topic /\ got' = got
      /\ \A v \in Clients : v # w =>
           /\ \A t \in Topics : v \in watchers'[t] <=> v \in watchers[t]
           /\ v \in alive' <=> v \in alive
           /\ \A b \in Broadcasts : v \in audience'[b] <=> v \in audience[b]
      /\ w \in alive' \ alive => \A t \in Topics : w \notin watchers'[t]
      /\ \A b \in Broadcasts, t \in Topics :
           topic[b] = t /\ w \in audience[b] \ audience'[b] =>
             w \notin watchers'[t] \cap alive'
  BY <1>1, BrowserFrame
<1>3. row' = row /\ req' = req
  BY DEF BrowserStep
<1>4. \A t \in Topics, v \in Clients :
        /\ told'[t][v] = IF v = w /\ w \in watchers'[t] \ watchers[t]
                         THEN None ELSE told[t][v]
        /\ v \in misled'[t] <=>
             v \in misled[t] /\ ~(v = w /\ w \in watchers'[t] \ watchers[t])
  BY DEF BrowserStep, TicketsInv, TicketsTypeOK
<1>5. TicketsTypeOK'
  BY <1>1, <1>2, <1>3 DEF TicketsInv, TicketsTypeOK, BrowserStep
<1>6. OneTeller' /\ RequestShape'
  BY <1>2, <1>3 DEF TicketsInv, OneTeller, RequestShape
<1>7. NothingToldBefore'
  BY <1>3, <1>4 DEF TicketsInv, NothingToldBefore
<1>8. UntoldKnowsCommitted'
  BY <1>2, <1>3, <1>4 DEF TicketsInv, UntoldKnowsCommitted
<1>9. UpdateIsKnown'
  <2> SUFFICES ASSUME NEW t \in Topics, NEW v \in Clients, NEW b \in Broadcasts,
                      v \in watchers'[t] \cap alive', Updating(b, t)
               PROVE  /\ v \in got[b] => told'[t][v] \in {None, req[b].new}
                      /\ v \notin got[b] \cup audience'[b] => told'[t][v] = None
    BY <1>2, <1>3 DEF UpdateIsKnown
  <2>1. topic[b] # t => audience[b] = {}
    BY DEF TicketsInv, RequestShape, WatcherInv, TaskShape
  <2>2. CASE v = w /\ w \in watchers'[t] \ watchers[t]
    BY <2>2, <1>4
  <2>3. CASE ~(v = w /\ w \in watchers'[t] \ watchers[t])
    <3>1. v \in watchers[t] \cap alive
      BY <2>3, <1>2
    <3>2. told'[t][v] = told[t][v]
      BY <2>3, <1>4
    <3>3. v \notin audience'[b] => v \notin audience[b]
      BY <2>1, <1>2
    <3> QED
      BY <3>1, <3>2, <3>3 DEF TicketsInv, UpdateIsKnown
  <2> QED
    BY <2>2, <2>3
<1> QED
  BY <1>5, <1>6, <1>7, <1>8, <1>9 DEF TicketsInv

\* A ticket that is inserted has not been told of.
LEMMA CreatePreserves ==
  ASSUME TicketsInv, WatcherInv', NEW t \in Topics, create_ticket(t)
  PROVE  TicketsInv'
<1> USE DEF Telling, Updating
<1>1. /\ row[t] = None /\ req' = req /\ told' = told /\ misled' = misled
      /\ task' = task /\ topic' = topic /\ got' = got /\ audience' = audience
      /\ watchers' = watchers /\ alive' = alive
  BY DEF create_ticket, vars, clientVars, mapVars, iterator
<1>2. PICK v \in Values : row' = [row EXCEPT ![t] = v]
  BY DEF create_ticket
<1>3. \A s \in Topics : row'[s] = IF s = t THEN v ELSE row[s]
  BY <1>2 DEF TicketsInv, TicketsTypeOK
<1>4. TicketsTypeOK'
  BY <1>1, <1>2 DEF TicketsInv, TicketsTypeOK, WatcherInv
<1>5. OneTeller'
  BY <1>1 DEF TicketsInv, OneTeller
<1>6. RequestShape'
  BY <1>1, <1>3, ValuesAssumption DEF TicketsInv, TicketsTypeOK, RequestShape, Request
<1>7. NothingToldBefore'
  BY <1>1, <1>3, ValuesAssumption DEF TicketsInv, NothingToldBefore
<1>8. UntoldKnowsCommitted' /\ UpdateIsKnown'
  BY <1>1, <1>3 DEF TicketsInv, NothingToldBefore, UntoldKnowsCommitted, UpdateIsKnown
<1> QED
  BY <1>4, <1>5, <1>6, <1>7, <1>8 DEF TicketsInv

\* A request that has only read its ticket tells nothing yet.
LEMMA ReadPreserves ==
  ASSUME TicketsInv, WatcherInv', NEW b \in Broadcasts, NEW t \in Topics,
         NEW kind \in {"update", "message"}, NEW new \in Values \cup {None},
         row[t] # None => new \in Values,
         kind = "message" => new = row[t],
         Read(b, t, kind, new)
  PROVE  TicketsInv'
<1> USE DEF Telling, Updating
<1>1. /\ req[b] = None /\ row[t] # None
      /\ row' = row /\ told' = told /\ misled' = misled
      /\ task' = task /\ topic' = topic /\ got' = got /\ audience' = audience
      /\ watchers' = watchers /\ alive' = alive
  BY DEF Read, vars, clientVars, mapVars, iterator
<1>2. PICK r : r = [ticket |-> t, kind |-> kind, old |-> row[t], new |-> new,
                    flushed |-> FALSE]
  OBVIOUS
<1>3. /\ r \in Request /\ r # None
      /\ r.ticket = t /\ r.kind = kind /\ r.old = row[t] /\ r.new = new
      /\ ~r.flushed
  <2>1. row[t] \in Values /\ new \in Values
    BY <1>1 DEF TicketsInv, TicketsTypeOK
  <2>2. r \in Request
    BY <1>2, <2>1 DEF Request
  <2>3. r # None
    BY <2>2, RecordsAssumption DEF RecordsAssumption
  <2> QED
    BY <1>2, <2>2, <2>3
<1>4. \A c \in Broadcasts : req'[c] = IF c = b THEN r ELSE req[c]
  BY <1>2 DEF Read, TicketsInv, TicketsTypeOK
<1>5. task[b] = "idle"
  BY <1>1 DEF TicketsInv, TicketsTypeOK
<1>6. TicketsTypeOK'
  <2>1. req' \in [Broadcasts -> Request \cup {None}]
    BY <1>2, <1>3 DEF Read, TicketsInv, TicketsTypeOK
  <2> QED
    BY <1>1, <1>4, <1>5, <2>1 DEF TicketsInv, TicketsTypeOK, WatcherInv
<1>7. OneTeller'
  BY <1>3, <1>4 DEF TicketsInv, OneTeller
<1>8. RequestShape'
  BY <1>1, <1>3, <1>4, <1>5 DEF TicketsInv, RequestShape
<1>9. NothingToldBefore'
  BY <1>1 DEF TicketsInv, NothingToldBefore
<1>10. UntoldKnowsCommitted'
  BY <1>1, <1>3, <1>4 DEF TicketsInv, UntoldKnowsCommitted
<1>11. UpdateIsKnown'
  BY <1>1, <1>3, <1>4 DEF TicketsInv, UpdateIsKnown
<1> QED
  BY <1>6, <1>7, <1>8, <1>9, <1>10, <1>11 DEF TicketsInv

\* The flush waits for the lock of the row, so the request is the only one
\* to tell of the ticket, and everyone watching it is owed the message.
LEMMA FlushPreserves ==
  ASSUME TicketsInv, WatcherInv', NEW b \in Broadcasts, Flush(b)
  PROVE  TicketsInv'
<1> USE DEF Telling, Updating
<1>1. PICK r \in Request : r = req[b]
  BY DEF Flush, TicketsInv, TicketsTypeOK
<1>2. PICK n : n = [r EXCEPT !.flushed = TRUE]
  OBVIOUS
<1>3. /\ n \in Request /\ n # None /\ n.flushed
      /\ n.ticket = r.ticket /\ n.kind = r.kind /\ n.old = r.old /\ n.new = r.new
  <2>1. n \in Request
    BY <1>2 DEF Request
  <2>2. n # None
    BY <2>1, RecordsAssumption DEF RecordsAssumption
  <2> QED
    BY <1>2, <2>1, <2>2 DEF Request
<1>4. PICK t \in Topics : t = r.ticket
  BY DEF Request
<1>5. \A c \in Broadcasts : req'[c] = IF c = b THEN n ELSE req[c]
  BY <1>1, <1>2 DEF Flush, TicketsInv, TicketsTypeOK
<1>6. /\ req[b] # None /\ ~r.flushed
      /\ \A c \in Broadcasts : ~Telling(c, t)
      /\ row' = row /\ told' = told /\ misled' = misled
  BY <1>1, <1>4 DEF Flush
<1>7. task[b] = "idle" /\ got[b] = {}
  BY <1>1, <1>6 DEF TicketsInv, TicketsTypeOK, WatcherInv, TaskShape
<1>8. /\ watchers' = watchers /\ alive' = alive /\ got' = got
      /\ \A c \in Broadcasts :
           c # b => task'[c] = task[c] /\ topic'[c] = topic[c] /\ audience'[c] = audience[c]
      /\ task'[b] # "idle" => topic'[b] = t
      /\ watchers[t] \cap alive \subseteq audience'[b]
  <2>1. CASE watchers[t] = {}
    BY <1>1, <1>4, <1>7, <2>1 DEF Flush, vars, clientVars, mapVars, iterator
  <2>2. CASE watchers[t] # {}
    <3>1. Begin(b, t)
      BY <1>1, <1>4, <2>2 DEF Flush
    <3> QED
      BY <3>1 DEF Begin, clientVars, mapVars, TicketsInv, WatcherInv, TypeOK
  <2> QED
    BY <2>1, <2>2
<1>9. TicketsTypeOK'
  <2>1. req' \in [Broadcasts -> Request \cup {None}]
    BY <1>1, <1>2, <1>3 DEF Flush, TicketsInv, TicketsTypeOK
  <2> QED
    BY <1>3, <1>5, <1>6, <1>8, <2>1 DEF TicketsInv, TicketsTypeOK, WatcherInv
<1>10. OneTeller'
  BY <1>3, <1>4, <1>5, <1>6 DEF TicketsInv, OneTeller
<1>11. RequestShape'
  BY <1>1, <1>3, <1>4, <1>5, <1>6, <1>8 DEF TicketsInv, RequestShape
<1>12. NothingToldBefore'
  BY <1>6 DEF TicketsInv, NothingToldBefore
<1>13. UntoldKnowsCommitted'
  BY <1>1, <1>3, <1>5, <1>6, <1>8 DEF TicketsInv, UntoldKnowsCommitted
<1>14. UpdateIsKnown'
  BY <1>3, <1>4, <1>5, <1>6, <1>7, <1>8 DEF TicketsInv, UpdateIsKnown
<1> QED
  BY <1>9, <1>10, <1>11, <1>12, <1>13, <1>14 DEF TicketsInv

\* A browser that is sent the update is among those that got it.
LEMMA ForwardPreserves ==
  ASSUME TicketsInv, WatcherInv', NEW b \in Broadcasts, Forward(b)
  PROVE  TicketsInv'
<1> USE DEF Telling, Updating
<1>1. /\ task[b] = "sending" /\ task'[b] # "idle"
      /\ current[b] \in Clients
      /\ \A c \in Broadcasts :
           /\ task'[c] = "idle" <=> task[c] = "idle"
           /\ got'[c] = IF c = b THEN got[b] \cup ({current[b]} \cap alive) ELSE got[c]
      /\ topic' = topic /\ audience' = audience /\ alive' = alive
      /\ \A t \in Topics : watchers'[t] \subseteq watchers[t]
  BY ForwardFrame DEF Forward, TicketsInv
<1>2. row' = row /\ req' = req /\ misled' = misled
  BY DEF Forward
<1>3. PICK r \in Request : r = req[b]
  BY <1>1 DEF TicketsInv, TicketsTypeOK
<1>4. req[b] # None /\ r.flushed
  BY <1>1, <1>3 DEF TicketsInv, TicketsTypeOK
<1>5. PICK t \in Topics : t = r.ticket
  BY DEF Request
<1>6. Telling(b, t) /\ r.new \in Values /\ row[t] # None
  BY <1>3, <1>4, <1>5 DEF Request, TicketsInv, RequestShape
<1>7. \A s \in Topics, v \in Clients :
        told'[s][v] = IF s = t /\ v = current[b] /\ r.kind = "update" /\ v \in alive
                      THEN r.new ELSE told[s][v]
  BY <1>1, <1>3, <1>5 DEF Forward, TicketsInv, TicketsTypeOK
<1>8. TicketsTypeOK'
  <2>1. told' \in [Topics -> [Clients -> Values \cup {None}]]
    BY <1>1, <1>3, <1>5, <1>6 DEF Forward, TicketsInv, TicketsTypeOK
  <2> QED
    BY <1>1, <1>2, <2>1 DEF TicketsInv, TicketsTypeOK, WatcherInv
<1>9. OneTeller' /\ RequestShape'
  BY <1>1, <1>2 DEF TicketsInv, OneTeller, RequestShape
<1>10. NothingToldBefore'
  BY <1>2, <1>6, <1>7 DEF TicketsInv, NothingToldBefore
<1>11. UntoldKnowsCommitted'
  BY <1>1, <1>2, <1>3, <1>6, <1>7 DEF TicketsInv, UntoldKnowsCommitted
<1>12. UpdateIsKnown'
  BY <1>1, <1>2, <1>3, <1>5, <1>6, <1>7 DEF TicketsInv, OneTeller, UpdateIsKnown
<1> QED
  BY <1>8, <1>9, <1>10, <1>11, <1>12 DEF TicketsInv

\* The end of a request leaves the watchers, the other requests and their
\* broadcasts alone.
LEMMA OverFrame ==
  ASSUME TicketsInv, NEW b \in Broadcasts, Over(b)
  PROVE  /\ req[b] \in Request /\ req[b] # None
         /\ req' \in [Broadcasts -> Request \cup {None}]
         /\ task'[b] = "idle"
         /\ \A c \in Broadcasts :
              /\ req'[c] = IF c = b THEN None ELSE req[c]
              /\ c # b => /\ task'[c] = task[c] /\ topic'[c] = topic[c]
                          /\ got'[c] = got[c] /\ audience'[c] = audience[c]
         /\ told' = told /\ watchers' = watchers /\ alive' = alive
<1> USE DEF TicketsInv, TicketsTypeOK, WatcherInv, TypeOK
<1>1. /\ req[b] \in Request /\ req[b] # None /\ told' = told
      /\ req' \in [Broadcasts -> Request \cup {None}]
      /\ \A c \in Broadcasts : req'[c] = IF c = b THEN None ELSE req[c]
  BY DEF Over
<1>2. CASE task[b] = "idle"
  BY <1>1, <1>2 DEF Over, vars, clientVars, mapVars, iterator
<1>3. CASE task[b] # "idle"
  BY <1>1, <1>3 DEF Over, Return, clientVars, mapVars
<1> QED
  BY <1>2, <1>3

\* A commit makes what the watchers were told the content of the ticket; a
\* watcher that was not told, of a broadcast whose set did not grow, was
\* not owed the message and knows nothing.
LEMMA CommitPreserves ==
  ASSUME TicketsInv, WatcherInv', NEW b \in Broadcasts, Commit(b)
  PROVE  TicketsInv'
<1> USE DEF Telling, Updating
<1>1. /\ req[b] \in Request /\ req[b] # None
      /\ req' \in [Broadcasts -> Request \cup {None}]
      /\ task'[b] = "idle"
      /\ \A c \in Broadcasts :
           /\ req'[c] = IF c = b THEN None ELSE req[c]
           /\ c # b => /\ task'[c] = task[c] /\ topic'[c] = topic[c]
                       /\ got'[c] = got[c] /\ audience'[c] = audience[c]
      /\ told' = told /\ watchers' = watchers /\ alive' = alive
  BY OverFrame DEF Commit
<1>2. PICK r \in Request : r = req[b]
  BY <1>1
<1>3. PICK t \in Topics : t = r.ticket
  BY DEF Request
<1>4. /\ r.flushed /\ task[b] \in {"idle", "done"}
      /\ r.kind \in {"update", "message"} /\ r.new \in Values
      /\ r.kind = "message" => r.new = r.old
  BY <1>1, <1>2 DEF Commit, Request, TicketsInv, RequestShape
<1>5. Telling(b, t)
  BY <1>1, <1>2, <1>3, <1>4
<1>6. \A s \in Topics : row'[s] = IF s = t /\ r.new # r.old THEN r.new ELSE row[s]
  BY <1>2, <1>3 DEF Commit, TicketsInv, TicketsTypeOK
<1>7. \A s \in Topics : s # t \/ r.kind = "message" => misled'[s] = misled[s]
  BY <1>2, <1>3 DEF Commit, TicketsInv, TicketsTypeOK
<1>8. r.kind = "update" =>
        /\ row[t] # r.old => got[b] \subseteq misled'[t]
        /\ grown[b] => watchers[t] \ got[b] \subseteq misled'[t]
  BY <1>2, <1>3 DEF Commit, TicketsInv, TicketsTypeOK
<1>9. ~grown[b] => audience[b] \subseteq got[b]
  BY <1>4 DEF TicketsInv, WatcherInv, TaskShape, CompletedReachesAudience
<1>10. TicketsTypeOK'
  <2>1. row' \in [Topics -> Values \cup {None}]
    BY <1>2, <1>3, <1>4 DEF Commit, TicketsInv, TicketsTypeOK
  <2>2. misled' \in [Topics -> SUBSET Clients]
    BY <1>2, <1>3 DEF Commit, TicketsInv, TicketsTypeOK, WatcherInv, TypeOK
  <2> QED
    BY <1>1, <2>1, <2>2 DEF TicketsInv, TicketsTypeOK, WatcherInv
<1>11. OneTeller'
  BY <1>1 DEF TicketsInv, OneTeller
<1>12. RequestShape'
  BY <1>1, <1>4, <1>6, ValuesAssumption DEF TicketsInv, TicketsTypeOK, RequestShape, Request
<1>13. NothingToldBefore'
  BY <1>1, <1>4, <1>6, ValuesAssumption DEF TicketsInv, NothingToldBefore
<1>14. UntoldKnowsCommitted'
  <2> SUFFICES ASSUME NEW s \in Topics, NEW v \in Clients,
                      v \in watchers[s] \cap alive, v \notin misled'[s],
                      \A c \in Broadcasts : c # b /\ Updating(c, s) => v \notin got[c]
               PROVE  told[s][v] \in {None, row'[s]}
    BY <1>1 DEF UntoldKnowsCommitted
  <2>1. CASE s # t \/ r.kind = "message"
    <3>1. ~Updating(b, s) /\ v \notin misled[s] /\ row'[s] = row[s]
      BY <2>1, <1>2, <1>3, <1>4, <1>6, <1>7
    <3> QED
      BY <3>1 DEF TicketsInv, UntoldKnowsCommitted
  <2>2. CASE s = t /\ r.kind = "update" /\ v \in got[b]
    <3>1. row'[s] = r.new
      BY <2>2, <1>6, <1>8
    <3>2. told[s][v] \in {None, r.new}
      BY <2>2, <1>2, <1>5 DEF TicketsInv, UpdateIsKnown
    <3> QED
      BY <3>1, <3>2
  <2>3. CASE s = t /\ r.kind = "update" /\ v \notin got[b]
    <3>1. v \notin got[b] \cup audience[b]
      BY <2>3, <1>8, <1>9 DEF TicketsInv, WatcherInv, TypeOK
    <3> QED
      BY <2>3, <3>1, <1>2, <1>5 DEF TicketsInv, UpdateIsKnown
  <2> QED
    BY <2>1, <2>2, <2>3, <1>4
<1>15. UpdateIsKnown'
  BY <1>1 DEF TicketsInv, UpdateIsKnown
<1> QED
  BY <1>10, <1>11, <1>12, <1>13, <1>14, <1>15 DEF TicketsInv

\* A rollback leaves the ticket alone; those that were told are misled.
LEMMA RollbackPreserves ==
  ASSUME TicketsInv, WatcherInv', NEW b \in Broadcasts, Rollback(b)
  PROVE  TicketsInv'
<1> USE DEF Telling, Updating
<1>1. /\ req[b] \in Request /\ req[b] # None
      /\ req' \in [Broadcasts -> Request \cup {None}]
      /\ task'[b] = "idle"
      /\ \A c \in Broadcasts :
           /\ req'[c] = IF c = b THEN None ELSE req[c]
           /\ c # b => /\ task'[c] = task[c] /\ topic'[c] = topic[c]
                       /\ got'[c] = got[c] /\ audience'[c] = audience[c]
      /\ told' = told /\ watchers' = watchers /\ alive' = alive
  BY OverFrame DEF Rollback
<1>2. PICK r \in Request : r = req[b]
  BY <1>1
<1>3. PICK t \in Topics : t = r.ticket
  BY DEF Request
<1>4. row' = row /\ r.kind \in {"update", "message"}
  BY DEF Rollback, Request
<1>5. /\ \A s \in Topics : misled[s] \subseteq misled'[s]
      /\ r.kind = "update" => got[b] \subseteq misled'[t]
  BY <1>2, <1>3 DEF Rollback, TicketsInv, TicketsTypeOK
<1>6. TicketsTypeOK'
  <2>1. misled' \in [Topics -> SUBSET Clients]
    BY <1>2, <1>3 DEF Rollback, TicketsInv, TicketsTypeOK, WatcherInv, TypeOK
  <2> QED
    BY <1>1, <1>4, <2>1 DEF TicketsInv, TicketsTypeOK, WatcherInv
<1>7. OneTeller'
  BY <1>1 DEF TicketsInv, OneTeller
<1>8. RequestShape'
  BY <1>1, <1>4 DEF TicketsInv, RequestShape
<1>9. NothingToldBefore'
  BY <1>1, <1>4 DEF TicketsInv, NothingToldBefore
<1>10. UntoldKnowsCommitted'
  BY <1>1, <1>2, <1>3, <1>4, <1>5 DEF TicketsInv, UntoldKnowsCommitted
<1>11. UpdateIsKnown'
  BY <1>1 DEF TicketsInv, UpdateIsKnown
<1> QED
  BY <1>6, <1>7, <1>8, <1>9, <1>10, <1>11 DEF TicketsInv

\* Every step of a browser or a request preserves the invariant.
LEMMA TicketsInductive ==
  TicketsInv /\ [TicketsNext]_<<vars, ticketVars>> => TicketsInv'
<1> SUFFICES ASSUME TicketsInv, [TicketsNext]_<<vars, ticketVars>>
             PROVE  TicketsInv'
  OBVIOUS
<1>1. WatcherInv'
  BY TicketsStepsAreWatcherSteps, WatcherInductive DEF TicketsInv
<1>2. ASSUME NEW w \in Clients, BrowserStep(w) PROVE TicketsInv'
  BY <1>1, <1>2, BrowserPreserves
<1>3. ASSUME NEW t \in Topics, create_ticket(t) PROVE TicketsInv'
  BY <1>1, <1>3, CreatePreserves
<1>4. ASSUME NEW b \in Broadcasts, NEW t \in Topics,
             update_ticket(b, t) \/ update_individual_ticket(b, t)
      PROVE  TicketsInv'
  BY <1>1, <1>4, ReadPreserves DEF update_ticket, update_individual_ticket
<1>5. ASSUME NEW b \in Broadcasts, NEW t \in Topics,
             create_ticket_message(b, t) \/ add_individual_ticket_message(b, t)
      PROVE  TicketsInv'
  <2>1. row[t] \in Values \cup {None} /\ Read(b, t, "message", row[t])
    BY <1>5 DEF TicketsInv, TicketsTypeOK, create_ticket_message,
         add_individual_ticket_message
  <2> QED
    BY <1>1, <2>1, ReadPreserves
<1>6. ASSUME NEW b \in Broadcasts, RequestStep(b) PROVE TicketsInv'
  BY <1>1, <1>6, FlushPreserves, ForwardPreserves, CommitPreserves, RollbackPreserves
     DEF RequestStep
<1>7. CASE UNCHANGED <<vars, ticketVars>>
  BY <1>1, <1>7 DEF ticketVars, vars, clientVars, mapVars, iterator, TicketsInv,
       WatcherInv, TicketsTypeOK, OneTeller, RequestShape, NothingToldBefore,
       UntoldKnowsCommitted, UpdateIsKnown, Telling, Updating
<1> QED
  BY <1>2, <1>3, <1>4, <1>5, <1>6, <1>7 DEF TicketsNext

\* TicketsInv is an invariant of requests and broadcasts together.
THEOREM TicketsInvariant == TicketsSpec => []TicketsInv
BY TicketsInitially, TicketsInductive, PTL DEF TicketsSpec

\* Tickets, requests and what browsers were told stay well typed, and only a
\* request that has flushed its changes broadcasts.
THEOREM TicketsTypeCorrect == TicketsSpec => []TicketsTypeOK
<1>1. TicketsInv => TicketsTypeOK
  BY DEF TicketsInv
<1> QED
  BY <1>1, TicketsInvariant, PTL

\* While no request is telling of a ticket, its connected watchers were last
\* told what is committed, unless one of the three named reasons misled them:
\* for any number of browsers, tickets, contents and overlapping requests,
\* although every request tells before it commits.
THEOREM WatchersKnowWhatIsCommitted == TicketsSpec => []ShownIsCommitted
<1>1. TicketsInv => ShownIsCommitted
  BY DEF TicketsInv, TicketsTypeOK, WatcherInv, TypeOK, UntoldKnowsCommitted,
       Updating, Telling, ShownIsCommitted
<1> QED
  BY <1>1, TicketsInvariant, PTL

\* Tickets implements WatcherBroadcast: its requests broadcast no otherwise
\* than any task does, so that what is proved of the broadcasts of any task
\* holds for theirs.
THEOREM TicketsImplementBroadcasts == TicketsSpec => Spec
<1>1. TicketsInit => Init
  BY DEF TicketsInit
<1> QED
  BY <1>1, TicketsStepsAreWatcherSteps, TicketsInvariant, PTL DEF TicketsSpec, Spec
=============================================================================
