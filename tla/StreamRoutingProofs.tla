------------------------ MODULE StreamRoutingProofs ------------------------
(***************************************************************************)
(* Proofs about StreamRouting, for any number of browsers and streams.     *)
(*                                                                         *)
(* Subscriptions are popped by id, by whoever has to do with the id.  That *)
(* this leaves the originator alone rests on a fact about ids:             *)
(* everything that will pop an id is a user of it (TracesAreUsers).        *)
(***************************************************************************)
EXTENDS StreamRouting, TLAPS

\* What the handler's state says of the client's other attributes.
HandlerShape ==
  \A w \in Clients :
    /\ handler[w] = "opening" <=> opening[w] # None
    /\ handler[w] = "none" => client_streams[w] = {} /\ w \notin alive

\* All traces of an id lead to websockets that use it: the streams of a
\* client, the one it is opening, a message under way, the originator.
TracesAreUsers ==
  /\ \A w \in Clients : \A i \in client_streams[w] : w \in users[i]
  /\ \A w \in Clients : opening[w] # None => w \in users[opening[w]]
  /\ \A i \in Streams :
       /\ forwarding[i] # None => forwarding[i] \in users[i]
       /\ originator[i] # None =>
            originator[i] \in users[i] /\ handler[originator[i]] # "none"

StreamInv ==
  /\ TypeOK
  /\ HandlerShape
  /\ SubscriberIsIndexed
  /\ TracesAreUsers
  /\ OriginatorIsSubscribed

-----------------------------------------------------------------------------
\* The invariant holds initially: no browser is connected.
LEMMA StreamInit == Init => StreamInv
<1> SUFFICES ASSUME Init PROVE StreamInv
  OBVIOUS
<1> QED
  BY NoneAssumption DEF Init, StreamInv, TypeOK, HandlerShape,
       SubscriberIsIndexed, TracesAreUsers, OriginatorIsSubscribed

\* Every step of a browser or of its handler preserves it.
LEMMA StreamInductive == StreamInv /\ [Next]_vars => StreamInv'
<1> SUFFICES ASSUME StreamInv, [Next]_vars PROVE StreamInv'
  OBVIOUS
<1> USE NoneAssumption
<1>1. ASSUME NEW w \in Clients, Connect(w)
      PROVE  StreamInv'
  <2> USE <1>1 DEF Connect
  <2>1. TypeOK'
    BY DEF StreamInv, TypeOK, HandlerShape
  <2>2. HandlerShape'
    BY DEF StreamInv, TypeOK, HandlerShape
  <2>3. SubscriberIsIndexed'
    BY DEF StreamInv, TypeOK, HandlerShape, SubscriberIsIndexed
  <2>4. TracesAreUsers'
    BY DEF StreamInv, TypeOK, HandlerShape, TracesAreUsers
  <2>5. OriginatorIsSubscribed'
    BY DEF StreamInv, TypeOK, HandlerShape, SubscriberIsIndexed,
           TracesAreUsers, OriginatorIsSubscribed
  <2> QED BY <2>1, <2>2, <2>3, <2>4, <2>5 DEF StreamInv
<1>2. ASSUME NEW w \in Clients, BrowserLost(w)
      PROVE  StreamInv'
  <2> USE <1>2 DEF BrowserLost
  <2>1. TypeOK'
    BY DEF StreamInv, TypeOK, HandlerShape
  <2>2. HandlerShape'
    BY DEF StreamInv, TypeOK, HandlerShape
  <2>3. SubscriberIsIndexed'
    BY DEF StreamInv, TypeOK, HandlerShape, SubscriberIsIndexed
  <2>4. TracesAreUsers'
    BY DEF StreamInv, TypeOK, HandlerShape, TracesAreUsers
  <2>5. OriginatorIsSubscribed'
    BY DEF StreamInv, TypeOK, HandlerShape, SubscriberIsIndexed,
           TracesAreUsers, OriginatorIsSubscribed
  <2> QED BY <2>1, <2>2, <2>3, <2>4, <2>5 DEF StreamInv
<1>3. ASSUME NEW w \in Clients, NEW i \in Streams, OpenStream(w, i)
      PROVE  StreamInv'
  <2> USE <1>3 DEF OpenStream, Subscribe
  <2>1. TypeOK'
    BY DEF StreamInv, TypeOK, HandlerShape
  <2>2. HandlerShape'
    BY DEF StreamInv, TypeOK, HandlerShape
  <2>3. SubscriberIsIndexed'
    BY DEF StreamInv, TypeOK, HandlerShape, SubscriberIsIndexed
  <2>4. TracesAreUsers'
    BY DEF StreamInv, TypeOK, HandlerShape, TracesAreUsers
  <2>5. OriginatorIsSubscribed'
    BY DEF StreamInv, TypeOK, HandlerShape, SubscriberIsIndexed,
           TracesAreUsers, OriginatorIsSubscribed
  <2> QED BY <2>1, <2>2, <2>3, <2>4, <2>5 DEF StreamInv
<1>4. ASSUME NEW w \in Clients, OpenSucceeds(w)
      PROVE  StreamInv'
  <2> USE <1>4 DEF OpenSucceeds, Opened
  <2>1. TypeOK'
    BY DEF StreamInv, TypeOK, HandlerShape
  <2>2. HandlerShape'
    BY DEF StreamInv, TypeOK, HandlerShape
  <2>3. SubscriberIsIndexed'
    BY DEF StreamInv, TypeOK, HandlerShape, SubscriberIsIndexed
  <2>4. TracesAreUsers'
    BY DEF StreamInv, TypeOK, HandlerShape, TracesAreUsers
  <2>5. OriginatorIsSubscribed'
    BY DEF StreamInv, TypeOK, HandlerShape, SubscriberIsIndexed,
           TracesAreUsers, OriginatorIsSubscribed
  <2> QED BY <2>1, <2>2, <2>3, <2>4, <2>5 DEF StreamInv
<1>5. ASSUME NEW w \in Clients, OpenFails(w)
      PROVE  StreamInv'
  <2> USE <1>5 DEF OpenFails, Opened, Unsubscribe
  <2>1. TypeOK'
    BY DEF StreamInv, TypeOK, HandlerShape
  <2>2. HandlerShape'
    BY DEF StreamInv, TypeOK, HandlerShape
  <2>3. SubscriberIsIndexed'
    BY DEF StreamInv, TypeOK, HandlerShape, SubscriberIsIndexed
  <2>4. TracesAreUsers'
    BY DEF StreamInv, TypeOK, HandlerShape, TracesAreUsers
  <2>5. OriginatorIsSubscribed'
    BY DEF StreamInv, TypeOK, HandlerShape, SubscriberIsIndexed,
           TracesAreUsers, OriginatorIsSubscribed
  <2> QED BY <2>1, <2>2, <2>3, <2>4, <2>5 DEF StreamInv
<1>6. ASSUME NEW w \in Clients, NEW i \in Streams, CloseStream(w, i)
      PROVE  StreamInv'
  <2> USE <1>6 DEF CloseStream, Unsubscribe
  <2>1. TypeOK'
    BY DEF StreamInv, TypeOK, HandlerShape
  <2>2. HandlerShape'
    BY DEF StreamInv, TypeOK, HandlerShape
  <2>3. SubscriberIsIndexed'
    BY DEF StreamInv, TypeOK, HandlerShape, SubscriberIsIndexed
  <2>4. TracesAreUsers'
    BY DEF StreamInv, TypeOK, HandlerShape, TracesAreUsers
  <2>5. OriginatorIsSubscribed'
    BY DEF StreamInv, TypeOK, HandlerShape, SubscriberIsIndexed,
           TracesAreUsers, OriginatorIsSubscribed
  <2> QED BY <2>1, <2>2, <2>3, <2>4, <2>5 DEF StreamInv
<1>7. ASSUME NEW i \in Streams, ForwardTo(i)
      PROVE  StreamInv'
  <2> USE <1>7 DEF ForwardTo
  <2>1. TypeOK'
    BY DEF StreamInv, TypeOK, HandlerShape
  <2>2. HandlerShape'
    BY DEF StreamInv, TypeOK, HandlerShape
  <2>3. SubscriberIsIndexed'
    BY DEF StreamInv, TypeOK, HandlerShape, SubscriberIsIndexed
  <2>4. TracesAreUsers'
    BY DEF StreamInv, TypeOK, SubscriberIsIndexed, TracesAreUsers
  <2>5. OriginatorIsSubscribed'
    BY DEF StreamInv, TypeOK, HandlerShape, SubscriberIsIndexed,
           TracesAreUsers, OriginatorIsSubscribed
  <2> QED BY <2>1, <2>2, <2>3, <2>4, <2>5 DEF StreamInv
<1>8. ASSUME NEW i \in Streams, Forwarded(i)
      PROVE  StreamInv'
  <2> USE <1>8 DEF Forwarded
  <2>1. TypeOK'
    BY DEF StreamInv, TypeOK, HandlerShape
  <2>2. HandlerShape'
    BY DEF StreamInv, TypeOK, HandlerShape
  <2>3. SubscriberIsIndexed'
    BY DEF StreamInv, TypeOK, HandlerShape, SubscriberIsIndexed
  <2>4. TracesAreUsers'
    BY DEF StreamInv, TypeOK, HandlerShape, TracesAreUsers
  <2>5. OriginatorIsSubscribed'
    BY DEF StreamInv, TypeOK, HandlerShape, SubscriberIsIndexed,
           TracesAreUsers, OriginatorIsSubscribed
  <2> QED BY <2>1, <2>2, <2>3, <2>4, <2>5 DEF StreamInv
<1>9. ASSUME NEW w \in Clients, Cleanup(w)
      PROVE  StreamInv'
  <2> USE <1>9 DEF Cleanup
  <2>1. TypeOK'
    BY DEF StreamInv, TypeOK, HandlerShape
  <2>2. HandlerShape'
    BY DEF StreamInv, TypeOK, HandlerShape
  <2>3. SubscriberIsIndexed'
    BY DEF StreamInv, TypeOK, HandlerShape, SubscriberIsIndexed
  <2>4. TracesAreUsers'
    BY DEF StreamInv, TypeOK, HandlerShape, TracesAreUsers
  <2>5. OriginatorIsSubscribed'
    BY DEF StreamInv, TypeOK, HandlerShape, SubscriberIsIndexed,
           TracesAreUsers, OriginatorIsSubscribed
  <2> QED BY <2>1, <2>2, <2>3, <2>4, <2>5 DEF StreamInv
<1>10. CASE UNCHANGED vars
  BY <1>10 DEF vars, StreamInv, TypeOK, HandlerShape, SubscriberIsIndexed,
       TracesAreUsers, OriginatorIsSubscribed
<1> QED
  BY <1>1, <1>2, <1>3, <1>4, <1>5, <1>6, <1>7, <1>8, <1>9, <1>10
     DEF Next

\* StreamInv is an invariant of the specification.
THEOREM StreamInvariant == Spec => []StreamInv
BY StreamInit, StreamInductive, PTL DEF Spec

\* The maps and the handlers' states stay well typed: key and value are never
\* confused, however opens, closes, sends and cleanups interleave.
THEOREM StreamsTypeCorrect == Spec => []TypeOK
<1>1. StreamInv => TypeOK
  BY DEF StreamInv
<1> QED
  BY <1>1, StreamInvariant, PTL

\* No subscription outlives the handler that would remove it, for any number
\* of browsers and streams, ids shared or not.
THEOREM SubscribersAreIndexed == Spec => []SubscriberIsIndexed
<1>1. StreamInv => SubscriberIsIndexed
  BY DEF StreamInv
<1> QED
  BY <1>1, StreamInvariant, PTL

\* The originator of an open stream whose id no other websocket uses stays
\* subscribed to it, whatever other browsers do.
THEOREM OriginatorsStaySubscribed == Spec => []OriginatorIsSubscribed
<1>1. StreamInv => OriginatorIsSubscribed
  BY DEF StreamInv
<1> QED
  BY <1>1, StreamInvariant, PTL
=============================================================================
