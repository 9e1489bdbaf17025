------------------------ MODULE AgentSessionsProofs ------------------------
(***************************************************************************)
(* Proofs about AgentSessions, for any number of terminals, log streams,   *)
(* ids and threads: however connections come and go, what the agent runs   *)
(* can be closed and stopped.                                              *)
(***************************************************************************)
EXTENDS AgentSessions, TLAPS

\* An entry of terminal_sessions is a session of that id.
SessionsNamed ==
  \A i \in TermIds : terminal_sessions[i] # None =>
    term[terminal_sessions[i]] \in Term /\ term[terminal_sessions[i]].id = i

\* An entry of active_streams is a task of that id whose process was started.
StreamsNamed ==
  \A i \in StreamIds : active_streams[i] # None =>
    /\ strm[active_streams[i]] \in Strm
    /\ strm[active_streams[i]].id = i
    /\ strm[active_streams[i]].at # "boot"

\* An id that was not opened while in use has one task.
OneTask ==
  \A j, k \in Streams :
    strm[j] # None /\ strm[k] # None /\ strm[j].id = strm[k].id /\ strm[k].id \notin reused
      => j = k

TerminalInv == SessionsNamed /\ ShellCanBeClosed

StreamInv == StreamsNamed /\ OneTask /\ StreamCanBeStopped /\ StopIsEffective

SessionsInv == TypeOK /\ TerminalInv /\ StreamInv

-----------------------------------------------------------------------------
(***************************************************************************)
(* Types.                                                                  *)
(***************************************************************************)

\* The two ways to leave a handler keep the connection's state typed: the
\* listener is off exactly when there is no connection.
LEMMA ReplyTypes ==
  ASSUME TypeOK, Handling, Reply
  PROVE  /\ link' \in {"down", "up", "lost", "ended"}
         /\ listen' \in {"off", "idle", "returned", "close"}
         /\ link' = "down" <=> listen' = "off"
BY DEF TypeOK, Handling, Reply, Disconnected, connection

\* What becomes of a session is a session or nothing.
LEMMA SetTermTypes ==
  ASSUME TypeOK, NEW t \in Terms, NEW s \in Term, SetTerm(t, s)
  PROVE  term' \in [Terms -> Term \cup {None}]
BY DEF TypeOK, SetTerm, Kept

\* The read loop ends in a session that is closed.
LEMMA BreakTypes ==
  ASSUME NEW s \in Term
  PROVE  Break(s) \in Term /\ Break(s).id = s.id /\ Break(s).closed
BY DEF Term, Break

\* Steps of a read loop put another session in the place of theirs, of the
\* same id, and closed if that was.
LEMMA ReadLoopSets ==
  ASSUME TypeOK, NEW t \in Terms, ReadLoop(t)
  PROVE  /\ term[t] \in Term /\ term[t] # None
         /\ \E s \in Term : /\ s.id = term[t].id
                            /\ ~s.closed => ~term[t].closed
                            /\ SetTerm(t, s) \/ term' = [term EXCEPT ![t] = s]
         /\ UNCHANGED <<connection, terminal_sessions, streams, history>>
<1>1. term[t] # None
  BY DEF ReadLoop, ReadStarts, ReadData, ReadEnd, SendOutput, Reap, ShellExits, In
<1>2. term[t] \in Term
  BY <1>1 DEF TypeOK
<1>3. Break(term[t]) \in Term /\ Break(term[t]).id = term[t].id /\ Break(term[t]).closed
  BY <1>2, BreakTypes
<1>4. \A l \in {"queued", "reading", "sending", "reaping", "done"} :
        LET s == [term[t] EXCEPT !.loop = l] IN
        s \in Term /\ s.id = term[t].id /\ s.closed = term[t].closed
  BY <1>2 DEF Term
<1>5. LET s == [term[t] EXCEPT !.shell = "exited"] IN
        s \in Term /\ s.id = term[t].id /\ s.closed = term[t].closed
  BY <1>2 DEF Term
<1>6. CASE ReadStarts(t)
  BY <1>1, <1>2, <1>3, <1>4, <1>6 DEF ReadStarts
<1>7. CASE ReadData(t)
  BY <1>1, <1>2, <1>4, <1>7 DEF ReadData
<1>8. CASE ReadEnd(t)
  BY <1>1, <1>2, <1>3, <1>8 DEF ReadEnd
<1>9. CASE SendOutput(t)
  BY <1>1, <1>2, <1>3, <1>4, <1>9 DEF SendOutput
<1>10. CASE Reap(t)
  BY <1>1, <1>2, <1>4, <1>10 DEF Reap
<1>11. CASE ShellExits(t)
  BY <1>1, <1>2, <1>5, <1>11 DEF ShellExits
<1> QED
  BY <1>6, <1>7, <1>8, <1>9, <1>10, <1>11 DEF ReadLoop

\* Every step of a read loop keeps the types.
LEMMA ReadLoopTypes ==
  ASSUME TypeOK, NEW t \in Terms, ReadLoop(t)
  PROVE  TypeOK'
<1>1. term' \in [Terms -> Term \cup {None}]
  BY ReadLoopSets, SetTermTypes DEF TypeOK
<1>2. UNCHANGED <<connection, terminal_sessions, streams, history>>
  BY ReadLoopSets
<1> QED
  BY <1>1, <1>2 DEF TypeOK, connection, streams, history

\* Every step of a stream task keeps the types.
LEMMA StreamTaskTypes ==
  ASSUME TypeOK, NEW k \in Streams, StreamTask(k)
  PROVE  TypeOK'
<1>1. strm[k] \in Strm
  BY DEF TypeOK, StreamTask, StreamBoots, StreamLine, StreamEnds, ProcExits, StreamAt
<1>2. /\ [strm[k] EXCEPT !.at = "run"] \in Strm
      /\ [strm[k] EXCEPT !.at = "wait"] \in Strm
      /\ [strm[k] EXCEPT !.proc = "exited"] \in Strm
      /\ strm[k].id \in StreamIds
  BY <1>1 DEF Strm
<1>3. /\ strm' \in [Streams -> Strm \cup {None}]
      /\ active_streams' \in [StreamIds -> Streams \cup {None}]
  <2>1. CASE EndStream(k)
    BY <1>2, <2>1 DEF TypeOK, EndStream
  <2>2. CASE StreamBoots(k) /\ ~EndStream(k)
    BY <1>2, <2>2 DEF TypeOK, StreamBoots
  <2>3. CASE StreamLine(k) /\ ~EndStream(k)
    BY <1>2, <2>3 DEF TypeOK, StreamLine
  <2>4. CASE ProcExits(k)
    BY <1>2, <2>4 DEF TypeOK, ProcExits
  <2> QED
    BY <2>1, <2>2, <2>3, <2>4 DEF StreamTask, StreamEnds
<1>4. UNCHANGED <<connection, terminals, history>>
  BY DEF StreamTask, StreamBoots, StreamLine, StreamEnds, ProcExits
<1> QED
  BY <1>3, <1>4 DEF TypeOK, connection, terminals, history

\* The commands keep the types.
LEMMA CommandTypes ==
  ASSUME TypeOK, TerminalInv, StreamInv,
         \/ \E i \in TermIds : terminal_open(i) \/ terminal_close(i)
         \/ \E i \in StreamIds : logs_stream(i) \/ logs_stop_stream(i)
  PROVE  TypeOK'
<1>1. ASSUME NEW i \in TermIds, terminal_open(i) PROVE TypeOK'
  <2>1. /\ link' \in {"down", "up", "lost", "ended"}
        /\ listen' \in {"off", "idle", "returned", "close"}
        /\ link' = "down" <=> listen' = "off"
    BY <1>1, ReplyTypes DEF terminal_open
  <2>2. [id |-> i, shell |-> "alive", closed |-> FALSE, loop |-> "queued"] \in Term
    BY DEF Term
  <2>3. term' \in [Terms -> Term \cup {None}]
    BY <1>1, <2>2 DEF terminal_open, TypeOK, terminals
  <2>4. terminal_sessions' \in [TermIds -> Terms \cup {None}]
    BY <1>1 DEF terminal_open, TypeOK, terminals
  <2> QED
    BY <1>1, <2>1, <2>3, <2>4 DEF TypeOK, terminal_open, streams, history
<1>2. ASSUME NEW i \in TermIds, terminal_close(i) PROVE TypeOK'
  <2> DEFINE t == terminal_sessions[i]
  <2>1. CASE t = None
    BY <1>2, <2>1, ReplyTypes DEF terminal_close, TypeOK, terminals, streams, history
  <2>2. CASE t # None
    <3>1. t \in Terms /\ term[t] \in Term
      BY <2>2 DEF TypeOK, TerminalInv, SessionsNamed
    <3>2. [term[t] EXCEPT !.closed = TRUE] \in Term
      BY <3>1 DEF Term
    <3>3. term' \in [Terms -> Term \cup {None}]
      BY <1>2, <2>2, <3>1, <3>2 DEF terminal_close, TypeOK, Kept
    <3>4. terminal_sessions' \in [TermIds -> Terms \cup {None}]
      BY <1>2, <2>2 DEF terminal_close, TypeOK
    <3>5. /\ link' \in {"down", "up", "lost", "ended"}
          /\ listen' \in {"off", "idle", "returned", "close"}
          /\ link' = "down" <=> listen' = "off"
      <4>1. CASE term[t].closed
        BY <1>2, <2>2, <4>1, ReplyTypes DEF terminal_close
      <4>2. CASE ~term[t].closed
        BY <1>2, <2>2, <4>2 DEF terminal_close, Handling, TypeOK
      <4> QED
        BY <4>1, <4>2
    <3> QED
      BY <1>2, <3>3, <3>4, <3>5 DEF TypeOK, terminal_close, streams, history
  <2> QED
    BY <2>1, <2>2
<1>3. ASSUME NEW i \in StreamIds, logs_stream(i) PROVE TypeOK'
  <2>1. /\ link' \in {"down", "up", "lost", "ended"}
        /\ listen' \in {"off", "idle", "returned", "close"}
        /\ link' = "down" <=> listen' = "off"
    BY <1>3, ReplyTypes DEF logs_stream
  <2>2. [id |-> i, proc |-> "alive", at |-> "boot"] \in Strm
    BY DEF Strm
  <2>3. CASE SendRaises
    BY <1>3, <2>1, <2>3 DEF logs_stream, TypeOK, streams, history, terminals
  <2>4. CASE ~SendRaises
    BY <1>3, <2>1, <2>2, <2>4 DEF logs_stream, TypeOK, terminals
  <2> QED
    BY <2>3, <2>4
<1>4. ASSUME NEW i \in StreamIds, logs_stop_stream(i) PROVE TypeOK'
  <2>1. /\ link' \in {"down", "up", "lost", "ended"}
        /\ listen' \in {"off", "idle", "returned", "close"}
        /\ link' = "down" <=> listen' = "off"
    BY <1>4, ReplyTypes DEF logs_stop_stream
  <2>2. strm' \in [Streams -> Strm \cup {None}]
        /\ active_streams' \in [StreamIds -> Streams \cup {None}]
    <3>1. CASE active_streams[i] = None
      BY <1>4, <3>1 DEF logs_stop_stream, StopStream, TypeOK, streams
    <3>2. CASE active_streams[i] # None
      <4>1. active_streams[i] \in Streams /\ strm[active_streams[i]] \in Strm
        BY <3>2 DEF TypeOK, StreamInv, StreamsNamed
      <4>2. [strm[active_streams[i]] EXCEPT !.proc = "exited"] \in Strm
        BY <4>1 DEF Strm
      <4> QED
        BY <1>4, <3>2, <4>1, <4>2 DEF logs_stop_stream, StopStream, TypeOK
    <3> QED
      BY <3>1, <3>2
  <2> QED
    BY <1>4, <2>1, <2>2 DEF logs_stop_stream, TypeOK, terminals
<1> QED
  BY <1>1, <1>2, <1>3, <1>4

\* The steps of the connection, and a restart, keep the types.
LEMMA ConnectionTypes ==
  ASSUME TypeOK, Connect \/ LinkLost \/ ListenEnds \/ CloseReturns \/ AgentRestart
  PROVE  TypeOK'
<1>1. CASE Connect
  BY <1>1 DEF Connect, TypeOK, terminals, streams, history
<1>2. CASE LinkLost
  BY <1>2 DEF LinkLost, TypeOK, terminals, streams, history
<1>3. CASE ListenEnds
  BY <1>3 DEF ListenEnds, Disconnected, TypeOK, terminals, streams, history
<1>4. CASE CloseReturns
  BY <1>4 DEF CloseReturns, Disconnected, TypeOK, terminals, streams, history
<1>5. CASE AgentRestart
  BY <1>5 DEF AgentRestart, TypeOK
<1> QED
  BY <1>1, <1>2, <1>3, <1>4, <1>5

-----------------------------------------------------------------------------
(***************************************************************************)
(* Terminals.                                                              *)
(***************************************************************************)

\* A session changes in place: it keeps its id, and is not opened again.
LEMMA TermChanges ==
  ASSUME TypeOK, TerminalInv, NEW t \in Terms, ReadLoop(t)
  PROVE  TerminalInv'
<1>1. term[t] \in Term /\ term[t] # None /\ terminal_sessions' = terminal_sessions
  BY ReadLoopSets DEF terminals
<1>2. PICK s \in Term : /\ s.id = term[t].id
                        /\ ~s.closed => ~term[t].closed
                        /\ SetTerm(t, s) \/ term' = [term EXCEPT ![t] = s]
  BY ReadLoopSets
<1>3. \A u \in Terms \ {t} : term'[u] = term[u]
  BY <1>2 DEF SetTerm, TypeOK
<1>4. term'[t] \in {s, None} /\ (t \in Registered => term'[t] = s)
  BY <1>2 DEF SetTerm, Kept, TypeOK
<1>5. SessionsNamed'
  <2> SUFFICES ASSUME NEW i \in TermIds, terminal_sessions[i] # None
               PROVE  /\ term'[terminal_sessions[i]] \in Term
                      /\ term'[terminal_sessions[i]].id = i
    BY <1>1 DEF SessionsNamed
  <2>1. terminal_sessions[i] \in Terms /\ terminal_sessions[i] \in Registered
    BY DEF TypeOK, Registered
  <2> QED
    BY <1>2, <1>3, <1>4, <2>1 DEF TerminalInv, SessionsNamed
<1>6. ShellCanBeClosed'
  <2> SUFFICES ASSUME NEW u \in Terms, term'[u] # None, ~term'[u].closed
               PROVE  terminal_sessions[term'[u].id] = u
    BY <1>1 DEF ShellCanBeClosed
  <2> QED
    BY <1>1, <1>2, <1>3, <1>4 DEF TerminalInv, ShellCanBeClosed
<1> QED
  BY <1>5, <1>6 DEF TerminalInv

\* Opening, closing and reopening a terminal.
LEMMA TerminalCommands ==
  ASSUME TypeOK, TerminalInv, NEW i \in TermIds, terminal_open(i) \/ terminal_close(i)
  PROVE  TerminalInv'
<1>1. CASE UNCHANGED terminals
  BY <1>1 DEF terminals, TerminalInv, SessionsNamed, ShellCanBeClosed
<1>2. ASSUME terminal_open(i), ~UNCHANGED terminals PROVE TerminalInv'
  <2> DEFINE s == [id |-> i, shell |-> "alive", closed |-> FALSE, loop |-> "queued"]
  <2>1. terminal_sessions[i] = None
    BY <1>2 DEF terminal_open
  <2>2. PICK t \in Terms :
          /\ term[t] = None
          /\ term' = [term EXCEPT ![t] = s]
          /\ terminal_sessions' = [terminal_sessions EXCEPT ![i] = t]
    BY <1>2 DEF terminal_open
  <2>3. s \in Term /\ s.id = i /\ term'[t] = s /\ terminal_sessions'[i] = t
    BY <2>2 DEF Term, TypeOK
  <2>4. /\ \A u \in Terms \ {t} : term'[u] = term[u]
        /\ \A j \in TermIds \ {i} : terminal_sessions'[j] = terminal_sessions[j]
    BY <2>2 DEF TypeOK
  <2>5. SessionsNamed'
    <3> SUFFICES ASSUME NEW j \in TermIds, terminal_sessions'[j] # None
                 PROVE  /\ term'[terminal_sessions'[j]] \in Term
                        /\ term'[terminal_sessions'[j]].id = j
      BY DEF SessionsNamed
    <3>1. CASE terminal_sessions'[j] = t /\ j # i
      BY <2>2, <2>4, <3>1, RecordsAssumption DEF TerminalInv, SessionsNamed
    <3>2. CASE j = i
      BY <2>3, <3>2
    <3>3. CASE terminal_sessions'[j] # t /\ j # i
      BY <2>4, <3>3 DEF TypeOK, TerminalInv, SessionsNamed
    <3> QED
      BY <3>1, <3>2, <3>3
  <2>6. ShellCanBeClosed'
    <3> SUFFICES ASSUME NEW u \in Terms, term'[u] # None, ~term'[u].closed
                 PROVE  terminal_sessions'[term'[u].id] = u
      BY DEF ShellCanBeClosed
    <3>1. CASE u = t
      BY <2>3, <3>1
    <3>2. CASE u # t
      <4>1. term'[u] = term[u] /\ term[u] \in Term /\ term[u].id \in TermIds
        BY <2>4, <3>2 DEF TypeOK, Term
      <4>2. terminal_sessions[term[u].id] = u /\ u # None
        BY <4>1, AgentSessionsAssumption DEF AgentSessionsAssumption, TerminalInv, ShellCanBeClosed
      <4> QED
        BY <2>1, <2>4, <4>1, <4>2
    <3> QED
      BY <3>1, <3>2
  <2> QED
    BY <2>5, <2>6 DEF TerminalInv
<1>3. ASSUME terminal_close(i), ~UNCHANGED terminals PROVE TerminalInv'
  <2> DEFINE t == terminal_sessions[i]
             s == [term[t] EXCEPT !.closed = TRUE]
  <2>1. t # None /\ t \in Terms /\ term[t] \in Term /\ term[t].id = i
    BY <1>3 DEF terminal_close, TypeOK, TerminalInv, SessionsNamed
  <2>2. s.closed /\ term'[t] \in {s, None}
    BY <1>3, <2>1 DEF terminal_close, TypeOK, Kept, Term
  <2>3. /\ \A u \in Terms \ {t} : term'[u] = term[u]
        /\ \A j \in TermIds : terminal_sessions'[j] = IF j = i THEN None ELSE terminal_sessions[j]
    BY <1>3, <2>1 DEF terminal_close, TypeOK
  <2>4. SessionsNamed'
    BY <2>1, <2>3 DEF TypeOK, TerminalInv, SessionsNamed
  <2>5. ShellCanBeClosed'
    <3> SUFFICES ASSUME NEW u \in Terms, term'[u] # None, ~term'[u].closed
                 PROVE  terminal_sessions'[term'[u].id] = u
      BY DEF ShellCanBeClosed
    <3>1. u # t /\ term'[u] = term[u] /\ term[u].id \in TermIds
      BY <2>2, <2>3 DEF TypeOK, Term
    <3> QED
      BY <2>3, <3>1 DEF TerminalInv, ShellCanBeClosed
  <2> QED
    BY <2>4, <2>5 DEF TerminalInv
<1> QED
  BY <1>1, <1>2, <1>3

-----------------------------------------------------------------------------
(***************************************************************************)
(* Log streams.                                                            *)
(***************************************************************************)

\* A task ends and removes the entry of its id: if the id has one task, that
\* is its own.
LEMMA EndKeepsStreams ==
  ASSUME TypeOK, StreamInv, NEW k \in Streams, strm[k] # None, EndStream(k), UNCHANGED history
  PROVE  StreamInv'
<1> DEFINE i == strm[k].id
<1>1. strm[k] \in Strm /\ i \in StreamIds
  BY DEF TypeOK, Strm
<1>2. /\ \A j \in Streams : strm'[j] = IF j = k THEN None ELSE strm[j]
      /\ \A n \in StreamIds : active_streams'[n] = IF n = i THEN None ELSE active_streams[n]
      /\ reused' = reused /\ stopped' = stopped /\ missed' = missed
  BY <1>1 DEF EndStream, TypeOK, history
<1>3. StreamsNamed'
  BY <1>1, <1>2 DEF StreamInv, StreamsNamed, TypeOK
<1>4. OneTask'
  BY <1>2 DEF StreamInv, OneTask
<1>5. StreamCanBeStopped'
  <2> SUFFICES ASSUME NEW j \in Streams, strm'[j] # None, strm'[j].at # "boot",
                      strm'[j].proc = "alive", strm'[j].id \notin reused
               PROVE  active_streams'[strm'[j].id] = j
    BY <1>2 DEF StreamCanBeStopped
  <2>1. j # k /\ strm'[j] = strm[j] /\ strm[j].id \in StreamIds
    BY <1>2 DEF TypeOK, Strm
  <2>2. strm[j].id # i
    BY <2>1 DEF StreamInv, OneTask
  <2> QED
    BY <1>2, <2>1, <2>2 DEF StreamInv, StreamCanBeStopped
<1>6. StopIsEffective'
  BY <1>2 DEF StreamInv, StopIsEffective, StreamsOf, TypeOK
<1> QED
  BY <1>3, <1>4, <1>5, <1>6 DEF StreamInv

\* The steps of a stream task.
LEMMA TaskKeepsStreams ==
  ASSUME TypeOK, StreamInv, NEW k \in Streams, StreamTask(k)
  PROVE  StreamInv'
<1>1. strm[k] # None /\ UNCHANGED history
  BY DEF StreamTask, StreamBoots, StreamLine, StreamEnds, ProcExits, StreamAt
<1>2. strm[k] \in Strm /\ strm[k].id \in StreamIds
  BY <1>1 DEF TypeOK, Strm
<1>3. CASE EndStream(k)
  BY <1>1, <1>3, EndKeepsStreams
<1>4. ASSUME NEW s \in Strm, s.id = strm[k].id, s.proc = "alive" => strm[k].proc = "alive",
             s.at # "boot",
             strm' = [strm EXCEPT ![k] = s],
             \/ /\ active_streams' = active_streams
                /\ strm[k].at # "boot"
             \/ active_streams' = [active_streams EXCEPT ![strm[k].id] = k]
      PROVE  StreamInv'
  <2>1. /\ \A j \in Streams : strm'[j] = IF j = k THEN s ELSE strm[j]
        /\ reused' = reused /\ stopped' = stopped /\ missed' = missed
    BY <1>1, <1>4 DEF TypeOK, history
  <2>2. \A n \in StreamIds : active_streams'[n] \in {active_streams[n], k}
    BY <1>4 DEF TypeOK
  <2>3. \A n \in StreamIds : active_streams'[n] = k /\ active_streams[n] # k => n = strm[k].id
    BY <1>4 DEF TypeOK
  <2>4. StreamsNamed'
    <3> SUFFICES ASSUME NEW n \in StreamIds, active_streams'[n] # None
                 PROVE  /\ strm'[active_streams'[n]] \in Strm
                        /\ strm'[active_streams'[n]].id = n
                        /\ strm'[active_streams'[n]].at # "boot"
      BY DEF StreamsNamed
    <3>1. CASE active_streams'[n] = k
      BY <1>1, <1>4, <2>1, <2>3, <3>1 DEF StreamInv, StreamsNamed, TypeOK
    <3>2. CASE active_streams'[n] # k
      BY <2>1, <2>2, <3>2 DEF StreamInv, StreamsNamed, TypeOK
    <3> QED
      BY <3>1, <3>2
  <2>5. OneTask'
    BY <1>1, <1>4, <2>1 DEF StreamInv, OneTask
  <2>6. StreamCanBeStopped'
    <3> SUFFICES ASSUME NEW j \in Streams, strm'[j] # None, strm'[j].at # "boot",
                        strm'[j].proc = "alive", strm'[j].id \notin reused
                 PROVE  active_streams'[strm'[j].id] = j
      BY <2>1 DEF StreamCanBeStopped
    <3>1. CASE j = k
      BY <1>1, <1>2, <1>4, <2>1, <3>1 DEF StreamInv, StreamCanBeStopped, TypeOK
    <3>2. CASE j # k
      <4>1. strm'[j] = strm[j] /\ strm[j].id \in StreamIds /\ strm[j].id # strm[k].id
        BY <1>1, <2>1, <3>2 DEF StreamInv, OneTask, TypeOK, Strm
      <4>2. active_streams[strm[j].id] = j
        BY <4>1 DEF StreamInv, StreamCanBeStopped
      <4> QED
        BY <2>2, <2>3, <3>2, <4>1, <4>2
    <3> QED
      BY <3>1, <3>2
  <2>7. StopIsEffective'
    <3> SUFFICES ASSUME NEW n \in stopped \ (missed \cup reused), NEW j \in Streams,
                        strm'[j] # None, strm'[j].id = n
                 PROVE  strm'[j].proc = "exited"
      BY <2>1 DEF StopIsEffective, StreamsOf
    <3>1. strm[j] # None /\ strm[j].id = n
      BY <1>1, <1>4, <2>1
    <3>2. strm[j].proc = "exited"
      BY <3>1 DEF StreamInv, StopIsEffective, StreamsOf
    <3> QED
      BY <1>4, <2>1, <3>2 DEF Strm
  <2> QED
    BY <2>4, <2>5, <2>6, <2>7 DEF StreamInv
<1>5. /\ [strm[k] EXCEPT !.at = "run"] \in Strm
      /\ [strm[k] EXCEPT !.at = "run"].id = strm[k].id
      /\ [strm[k] EXCEPT !.at = "run"].proc = strm[k].proc
      /\ [strm[k] EXCEPT !.at = "run"].at = "run"
      /\ [strm[k] EXCEPT !.at = "wait"] \in Strm
      /\ [strm[k] EXCEPT !.at = "wait"].id = strm[k].id
      /\ [strm[k] EXCEPT !.at = "wait"].proc = strm[k].proc
      /\ [strm[k] EXCEPT !.at = "wait"].at = "wait"
      /\ [strm[k] EXCEPT !.proc = "exited"] \in Strm
      /\ [strm[k] EXCEPT !.proc = "exited"].id = strm[k].id
      /\ [strm[k] EXCEPT !.proc = "exited"].proc = "exited"
      /\ [strm[k] EXCEPT !.proc = "exited"].at = strm[k].at
  BY <1>2 DEF Strm
<1>6. CASE StreamBoots(k) /\ ~EndStream(k)
  BY <1>4, <1>5, <1>6 DEF StreamBoots
<1>7. CASE StreamLine(k) /\ ~EndStream(k)
  BY <1>4, <1>5, <1>7 DEF StreamLine, StreamAt
<1>8. CASE ProcExits(k)
  BY <1>4, <1>5, <1>8 DEF ProcExits
<1> QED
  BY <1>3, <1>6, <1>7, <1>8 DEF StreamTask, StreamEnds

\* Opening a stream adds a task that is not registered yet.
LEMMA OpenKeepsStreams ==
  ASSUME TypeOK, StreamInv, NEW i \in StreamIds, logs_stream(i)
  PROVE  StreamInv'
<1>1. CASE SendRaises
  BY <1>1 DEF logs_stream, streams, history, StreamInv, StreamsNamed, OneTask,
              StreamCanBeStopped, StopIsEffective, StreamsOf
<1>2. CASE ~SendRaises
  <2> DEFINE s == [id |-> i, proc |-> "alive", at |-> "boot"]
  <2>1. PICK k \in Streams : strm[k] = None /\ strm' = [strm EXCEPT ![k] = s]
    BY <1>2 DEF logs_stream
  <2>2. /\ active_streams' = active_streams
        /\ reused' = IF StreamsOf(i) = {} THEN reused \ {i} ELSE reused \cup {i}
        /\ stopped' = stopped \ {i}
        /\ missed' = missed \ {i}
    BY <1>2 DEF logs_stream
  <2>3. \A j \in Streams : strm'[j] = IF j = k THEN s ELSE strm[j]
    BY <2>1 DEF TypeOK
  <2>4. \A j \in Streams : strm[j] # None /\ strm[j].id \notin reused' => strm[j].id \notin reused
    BY <2>2 DEF StreamsOf
  <2>5. \A j \in Streams : strm[j] # None /\ strm[j].id = i => i \in reused'
    BY <2>2 DEF StreamsOf
  <2>6. StreamsNamed'
    BY <2>1, <2>2, <2>3, RecordsAssumption DEF StreamInv, StreamsNamed, TypeOK
  <2>7. OneTask'
    BY <2>1, <2>3, <2>4, <2>5 DEF StreamInv, OneTask
  <2>8. StreamCanBeStopped'
    BY <2>2, <2>3, <2>4 DEF StreamInv, StreamCanBeStopped
  <2>9. StopIsEffective'
    <3> SUFFICES ASSUME NEW n \in stopped' \ (missed' \cup reused'), NEW j \in Streams,
                        strm'[j] # None, strm'[j].id = n
                 PROVE  strm'[j].proc = "exited"
      BY DEF StopIsEffective, StreamsOf
    <3>1. n # i /\ n \in stopped \ (missed \cup reused) /\ j # k
      BY <2>2, <2>3
    <3> QED
      BY <2>3, <3>1 DEF StreamInv, StopIsEffective, StreamsOf
  <2> QED
    BY <2>6, <2>7, <2>8, <2>9 DEF StreamInv
<1> QED
  BY <1>1, <1>2

\* Stopping a stream kills the process that is registered for its id; a task
\* that is not registered is still starting, or the id was used twice.
LEMMA StopKeepsStreams ==
  ASSUME TypeOK, StreamInv, NEW i \in StreamIds, logs_stop_stream(i)
  PROVE  StreamInv'
<1> DEFINE k == active_streams[i]
<1>1. /\ reused' = reused
      /\ stopped' = stopped \cup {i}
      /\ missed' = IF \E j \in StreamsOf(i) : strm[j].at = "boot" THEN missed \cup {i} ELSE missed
  BY DEF logs_stop_stream
<1>2. /\ \A n \in StreamIds : active_streams'[n] = IF n = i THEN None ELSE active_streams[n]
      /\ \A j \in Streams : j # k => strm'[j] = strm[j]
  BY DEF logs_stop_stream, StopStream, streams, TypeOK
<1>3. k # None => /\ k \in Streams /\ strm[k] \in Strm /\ strm[k] # None /\ strm[k].id = i
                  /\ strm'[k] \in Strm /\ strm'[k].id = i /\ strm'[k].at = strm[k].at
                  /\ strm'[k].proc = "exited"
  <2> SUFFICES ASSUME k # None
               PROVE  /\ k \in Streams /\ strm[k] \in Strm /\ strm[k] # None /\ strm[k].id = i
                      /\ strm'[k] \in Strm /\ strm'[k].id = i /\ strm'[k].at = strm[k].at
                      /\ strm'[k].proc = "exited"
    OBVIOUS
  <2>1. k \in Streams /\ strm[k] \in Strm /\ strm[k] # None /\ strm[k].id = i
    BY RecordsAssumption DEF TypeOK, StreamInv, StreamsNamed
  <2>2. strm'[k] = [strm[k] EXCEPT !.proc = "exited"]
    BY <2>1 DEF logs_stop_stream, StopStream, TypeOK
  <2> QED
    BY <2>1, <2>2 DEF Strm
<1>4. \A j \in Streams : strm'[j] # None => /\ strm[j] # None /\ strm'[j].id = strm[j].id
                                            /\ strm'[j].at = strm[j].at
                                            /\ strm'[j].proc \in {strm[j].proc, "exited"}
  <2> TAKE j \in Streams
  <2>1. CASE j = k
    BY <1>3, <2>1, AgentSessionsAssumption DEF AgentSessionsAssumption
  <2>2. CASE j # k
    BY <1>2, <2>2
  <2> QED
    BY <2>1, <2>2
<1>5. StreamsNamed'
  <2> SUFFICES ASSUME NEW n \in StreamIds, active_streams'[n] # None
               PROVE  /\ strm'[active_streams'[n]] \in Strm
                      /\ strm'[active_streams'[n]].id = n
                      /\ strm'[active_streams'[n]].at # "boot"
    BY DEF StreamsNamed
  <2>1. n # i /\ active_streams'[n] = active_streams[n] /\ active_streams[n] \in Streams
    BY <1>2 DEF TypeOK
  <2>2. strm[active_streams[n]] \in Strm /\ strm[active_streams[n]].id = n
        /\ strm[active_streams[n]].at # "boot"
    BY <2>1 DEF StreamInv, StreamsNamed
  <2>3. active_streams[n] # k
    BY <1>3, <2>1, <2>2
  <2> QED
    BY <1>2, <2>1, <2>2, <2>3
<1>6. OneTask'
  BY <1>1, <1>4 DEF StreamInv, OneTask
<1>7. ASSUME NEW j \in Streams, strm'[j] # None, strm'[j].at # "boot", strm'[j].proc = "alive",
             strm'[j].id \notin reused
      PROVE  strm'[j].id # i /\ active_streams'[strm'[j].id] = j
  <2>1. j # k
    BY <1>3, <1>7, AgentSessionsAssumption DEF AgentSessionsAssumption
  <2>2. strm'[j] = strm[j] /\ strm[j].id \in StreamIds
    BY <1>2, <1>7, <2>1 DEF TypeOK, Strm
  <2>3. active_streams[strm[j].id] = j
    BY <1>7, <2>2 DEF StreamInv, StreamCanBeStopped
  <2> QED
    BY <1>2, <2>1, <2>2, <2>3
<1>8. StreamCanBeStopped'
  BY <1>1, <1>7 DEF StreamCanBeStopped
<1>9. StopIsEffective'
  <2> SUFFICES ASSUME NEW n \in stopped' \ (missed' \cup reused'), NEW j \in Streams,
                      strm'[j] # None, strm'[j].id = n
               PROVE  strm'[j].proc = "exited"
    BY DEF StopIsEffective, StreamsOf
  <2>1. CASE n = i
    <3>1. strm[j].at # "boot" /\ strm'[j].at # "boot" /\ n \notin reused
      BY <1>1, <1>4, <2>1 DEF StreamsOf
    <3>2. strm'[j].proc # "alive"
      BY <1>7, <2>1, <3>1
    <3>3. strm'[j] \in Strm
      BY <1>2, <1>3, AgentSessionsAssumption DEF AgentSessionsAssumption, TypeOK
    <3> QED
      BY <3>2, <3>3 DEF Strm
  <2>2. CASE n # i
    <3>1. n \in stopped \ (missed \cup reused)
      BY <1>1, <2>2
    <3>2. strm[j] # None /\ strm[j].id = n
      BY <1>4
    <3>3. strm[j].proc = "exited"
      BY <3>1, <3>2 DEF StreamInv, StopIsEffective, StreamsOf
    <3> QED
      BY <1>4, <3>3
  <2> QED
    BY <2>1, <2>2
<1> QED
  BY <1>5, <1>6, <1>8, <1>9 DEF StreamInv

-----------------------------------------------------------------------------
(***************************************************************************)
(* Theorems.                                                               *)
(***************************************************************************)

\* An agent that has just been started runs nothing.
LEMMA InitInv == Init => SessionsInv
BY DEF Init, SessionsInv, TypeOK, TerminalInv, SessionsNamed, ShellCanBeClosed, StreamInv,
       StreamsNamed, OneTask, StreamCanBeStopped, StopIsEffective

\* Every step keeps the invariant.
LEMMA NextInv == SessionsInv /\ [Next]_vars => SessionsInv'
<1> SUFFICES ASSUME SessionsInv, [Next]_vars PROVE SessionsInv'
  OBVIOUS
<1>0. TypeOK /\ TerminalInv /\ StreamInv
  BY DEF SessionsInv
<1>1. ASSUME UNCHANGED terminals PROVE TerminalInv'
  BY <1>0, <1>1 DEF terminals, TerminalInv, SessionsNamed, ShellCanBeClosed
<1>2. ASSUME UNCHANGED <<streams, history>> PROVE StreamInv'
  BY <1>0, <1>2 DEF streams, history, StreamInv, StreamsNamed, OneTask, StreamCanBeStopped,
                    StopIsEffective, StreamsOf
<1>3. CASE Connect \/ LinkLost \/ ListenEnds \/ CloseReturns
  BY <1>0, <1>1, <1>2, <1>3, ConnectionTypes
     DEF SessionsInv, Connect, LinkLost, ListenEnds, CloseReturns
<1>4. CASE AgentRestart
  <2>1. TypeOK'
    BY <1>0, <1>4, ConnectionTypes
  <2> QED
    BY <1>4, <2>1 DEF AgentRestart, SessionsInv, TerminalInv, SessionsNamed, ShellCanBeClosed,
       StreamInv, StreamsNamed, OneTask, StreamCanBeStopped, StopIsEffective
<1>5. ASSUME NEW i \in TermIds, terminal_open(i) \/ terminal_close(i) PROVE SessionsInv'
  <2>1. TypeOK'
    BY <1>0, <1>5, CommandTypes
  <2>2. TerminalInv'
    BY <1>0, <1>5, TerminalCommands
  <2>3. StreamInv'
    BY <1>2, <1>5 DEF terminal_open, terminal_close
  <2> QED
    BY <2>1, <2>2, <2>3 DEF SessionsInv
<1>6. ASSUME NEW i \in StreamIds, logs_stream(i) \/ logs_stop_stream(i) PROVE SessionsInv'
  <2>1. TypeOK'
    BY <1>0, <1>6, CommandTypes
  <2>2. TerminalInv'
    BY <1>1, <1>6 DEF logs_stream, logs_stop_stream
  <2>3. StreamInv'
    BY <1>0, <1>6, OpenKeepsStreams, StopKeepsStreams
  <2> QED
    BY <2>1, <2>2, <2>3 DEF SessionsInv
<1>7. ASSUME NEW t \in Terms, ReadLoop(t) PROVE SessionsInv'
  <2>1. UNCHANGED <<streams, history>>
    BY <1>0, <1>7, ReadLoopSets
  <2> QED
    BY <1>0, <1>2, <1>7, <2>1, ReadLoopTypes, TermChanges DEF SessionsInv
<1>8. ASSUME NEW k \in Streams, StreamTask(k) PROVE SessionsInv'
  <2>1. UNCHANGED terminals
    BY <1>8 DEF StreamTask, StreamBoots, StreamLine, StreamEnds, ProcExits
  <2> QED
    BY <1>0, <1>1, <1>8, <2>1, StreamTaskTypes, TaskKeepsStreams DEF SessionsInv
<1>9. CASE UNCHANGED vars
  <2>1. TypeOK'
    BY <1>0, <1>9 DEF vars, TypeOK
  <2> QED
    BY <1>1, <1>2, <1>9, <2>1 DEF vars, terminals, streams, history, SessionsInv
<1> QED
  BY <1>3, <1>4, <1>5, <1>6, <1>7, <1>8, <1>9 DEF Next

\* The invariant holds always.
LEMMA SessionsInvariant == Spec => []SessionsInv
BY InitInv, NextInv, PTL DEF Spec

\* The agent's connection, terminals and stream tasks are well typed.
THEOREM SessionsTypeCorrect == Spec => []TypeOK
<1>1. SessionsInv => TypeOK
  BY DEF SessionsInv
<1> QED
  BY <1>1, SessionsInvariant, PTL

\* A terminal that is served can be closed by terminal.close under its id,
\* whatever connections came and went.
THEOREM ShellsCanBeClosed == Spec => []ShellCanBeClosed
<1>1. SessionsInv => ShellCanBeClosed
  BY DEF SessionsInv, TerminalInv
<1> QED
  BY <1>1, SessionsInvariant, PTL

\* logs.stop_stream finds the stream that runs under its id, unless the id
\* was opened again while in use.
THEOREM StreamsCanBeStopped == Spec => []StreamCanBeStopped
<1>1. SessionsInv => StreamCanBeStopped
  BY DEF SessionsInv, StreamInv
<1> QED
  BY <1>1, SessionsInvariant, PTL

\* After logs.stop_stream no process of the stream runs on, unless it was
\* still being started or the id was used twice.
THEOREM StopsAreEffective == Spec => []StopIsEffective
<1>1. SessionsInv => StopIsEffective
  BY DEF SessionsInv, StreamInv
<1> QED
  BY <1>1, SessionsInvariant, PTL
=============================================================================
