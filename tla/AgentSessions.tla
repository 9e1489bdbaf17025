--------------------------- MODULE AgentSessions ---------------------------
(***************************************************************************)
(* The agent: its connection to the portal, the terminals and the log      *)
(* streams it runs (connection.py, handlers/terminal.py, handlers/logs.py).*)
(*                                                                         *)
(* Terminals and streams live as long as the process: they survive the     *)
(* connection that opened them and send over whatever connection there is. *)
(* Reads of a terminal block a thread of the event loop's executor.  Input *)
(* and resizing change no state of the agent; commands of the other        *)
(* handlers are answered and forgotten.                                    *)
(***************************************************************************)
EXTENDS Naturals, FiniteSets

CONSTANTS
  TermIds,     \* session ids, chosen by browsers
  StreamIds,   \* stream ids: the ids of the commands that open them
  Terms,       \* bound: terminal sessions at any one time
  Streams,     \* bound: stream tasks at any one time
  Threads,     \* threads of the executor
  None

ASSUME AgentSessionsAssumption ==
  /\ None \notin TermIds \cup StreamIds \cup Terms \cup Streams
  /\ Threads \in Nat \ {0}

VARIABLES
  link,        \* "down", "up", or not noticed yet: "lost", "ended" (normally)
  listen,      \* _listen: "off", "idle", "returned" or awaiting a "close"
  term,        \* term[t]: a TerminalSession whose read loop runs, or None
  terminal_sessions,
  strm,        \* strm[k]: a task of _stream_logs, or None
  active_streams,
  reused,      \* history: stream ids opened again while in use
  stopped,     \* history: stream ids stopped and not opened since
  missed       \* history: such ids whose stream was not registered yet

vars == <<link, listen, term, terminal_sessions, strm, active_streams,
          reused, stopped, missed>>

connection == <<link, listen>>
terminals == <<term, terminal_sessions>>
streams == <<strm, active_streams>>
history == <<reused, stopped, missed>>

\* The read loop of a session waits for a thread, reads, sends, waits for
\* its process, or is done (the object is kept by terminal_sessions).
Term == [id : TermIds, shell : {"alive", "exited"}, closed : BOOLEAN,
         loop : {"queued", "reading", "sending", "reaping", "done"}]

\* A stream task starts its process, reads lines, or waits for the process.
Strm == [id : StreamIds, proc : {"alive", "exited"}, at : {"boot", "run", "wait"}]

ASSUME RecordsAssumption == None \notin Term /\ None \notin Strm

TypeOK ==
  /\ link \in {"down", "up", "lost", "ended"}
  /\ listen \in {"off", "idle", "returned", "close"}
  /\ link = "down" <=> listen = "off"
  /\ term \in [Terms -> Term \cup {None}]
  /\ terminal_sessions \in [TermIds -> Terms \cup {None}]
  /\ strm \in [Streams -> Strm \cup {None}]
  /\ active_streams \in [StreamIds -> Streams \cup {None}]
  /\ reused \subseteq StreamIds
  /\ missed \subseteq stopped
  /\ stopped \subseteq StreamIds

Init ==
  /\ link = "down"
  /\ listen = "off"
  /\ term = [t \in Terms |-> None]
  /\ terminal_sessions = [i \in TermIds |-> None]
  /\ strm = [k \in Streams |-> None]
  /\ active_streams = [i \in StreamIds |-> None]
  /\ reused = {} /\ stopped = {} /\ missed = {}

-----------------------------------------------------------------------------
(***************************************************************************)
(* The connection.                                                         *)
(***************************************************************************)

\* self.connected: set when a connection is made, cleared when its loss has
\* reached connect().
connected == link # "down"

\* send() raises on a websocket that is closed; without one it does nothing.
SendRaises == connected /\ link # "up"

Connect ==
  /\ link = "down"
  /\ link' = "up"
  /\ listen' = "idle"
  /\ UNCHANGED <<terminals, streams, history>>

\* The connection breaks, or the portal closes it with 1000 or 1001.
LinkLost ==
  /\ link = "up"
  /\ link' \in {"lost", "ended"}
  /\ UNCHANGED <<listen, terminals, streams, history>>

\* Mutant of Disconnected: _listen goes on with the next connection.
DisconnectedListening == link' = "down" /\ UNCHANGED listen

\* connect() catches the exception that left _listen: connected is cleared,
\* and after a pause it tries again.
Disconnected == link' = "down" /\ listen' = "off"

\* Mutant of ListenEnds: a loss ends the iteration like a normal close.
ListenReturns ==
  /\ listen = "idle"
  /\ link \in {"lost", "ended"}
  /\ listen' = "returned"
  /\ UNCHANGED <<link, terminals, streams, history>>

\* The next receive: after a loss it raises ConnectionClosed, which ends
\* gather; after a normal close the iteration ends, and gather waits on.
ListenEnds ==
  /\ listen = "idle"
  /\ \/ link = "lost" /\ Disconnected
     \/ link = "ended" /\ listen' = "returned" /\ UNCHANGED link
  /\ UNCHANGED <<terminals, streams, history>>

\* The response of a command.  When it raises, so does the error response,
\* and that exception leaves _listen.
Reply == IF SendRaises THEN Disconnected ELSE UNCHANGED connection

\* Messages received before the connection was closed are still handled.
Handling == listen = "idle"

-----------------------------------------------------------------------------
(***************************************************************************)
(* Terminals.                                                              *)
(***************************************************************************)

\* The session, or None when its read loop is done and nothing refers to it.
Kept(t, s, registered) == IF s.loop = "done" /\ t \notin registered THEN None ELSE s

Registered == {terminal_sessions[i] : i \in TermIds} \ {None}

SetTerm(t, s) == term' = [term EXCEPT ![t] = Kept(t, s, Registered)]

\* Mutant of terminal_open: an id that is open already is replaced.
OpenReplaces(i) ==
  /\ Handling
  /\ \E t \in Terms :
       /\ term[t] = None
       /\ term' = [term EXCEPT ![t] =
            [id |-> i, shell |-> "alive", closed |-> FALSE, loop |-> "queued"]]
       /\ terminal_sessions' = [terminal_sessions EXCEPT ![i] = t]
  /\ Reply
  /\ UNCHANGED <<streams, history>>

\* The session of the id is reused, dead or alive; otherwise one is started,
\* which may fail.
terminal_open(i) ==
  /\ Handling
  /\ \/ UNCHANGED terminals
     \/ /\ terminal_sessions[i] = None
        /\ \E t \in Terms :
             /\ term[t] = None
             /\ term' = [term EXCEPT ![t] =
                  [id |-> i, shell |-> "alive", closed |-> FALSE, loop |-> "queued"]]
             /\ terminal_sessions' = [terminal_sessions EXCEPT ![i] = t]
  /\ Reply
  /\ UNCHANGED <<streams, history>>

\* The session is forgotten and, if its read loop has not done so, closed;
\* then the listener waits for a thread to reap the shell.
terminal_close(i) ==
  LET t == terminal_sessions[i] IN
  /\ Handling
  /\ IF t = None
     THEN Reply /\ UNCHANGED terminals
     ELSE /\ terminal_sessions' = [terminal_sessions EXCEPT ![i] = None]
          /\ term' = [term EXCEPT ![t] =
               Kept(t, [term[t] EXCEPT !.closed = TRUE], Registered \ {t})]
          /\ IF term[t].closed
             THEN Reply
             ELSE listen' = "close" /\ UNCHANGED link
  /\ UNCHANGED <<streams, history>>

Reading == {t \in Terms : term[t] # None /\ term[t].loop = "reading"}

\* Every thread of the executor is in a read.
Exhausted == Cardinality(Reading) >= Threads

\* _cleanup in the listener goes on, and terminal.close is answered.
CloseReturns ==
  /\ listen = "close"
  /\ ~Exhausted
  /\ IF SendRaises THEN Disconnected ELSE listen' = "idle" /\ UNCHANGED link
  /\ UNCHANGED <<terminals, streams, history>>

In(t, loop) == term[t] # None /\ term[t].loop = loop

\* The read loop ends in _cleanup, which returns if the session is closed.
Break(s) ==
  IF s.closed THEN [s EXCEPT !.loop = "done"]
  ELSE [s EXCEPT !.closed = TRUE, !.loop = "reaping"]

\* A thread takes up the read; without a descriptor it returns nothing.
ReadStarts(t) ==
  /\ In(t, "queued") /\ ~Exhausted
  /\ SetTerm(t, IF term[t].closed THEN Break(term[t]) ELSE [term[t] EXCEPT !.loop = "reading"])
  /\ UNCHANGED <<connection, terminal_sessions, streams, history>>

\* The shell prints something (closing the descriptor does not end a read).
ReadData(t) ==
  /\ In(t, "reading") /\ term[t].shell = "alive"
  /\ SetTerm(t, [term[t] EXCEPT !.loop = "sending"])
  /\ UNCHANGED <<connection, terminal_sessions, streams, history>>

\* The other end of the terminal is closed.
ReadEnd(t) ==
  /\ In(t, "reading") /\ term[t].shell = "exited"
  /\ SetTerm(t, Break(term[t]))
  /\ UNCHANGED <<connection, terminal_sessions, streams, history>>

\* The output is sent, or dropped without a connection; an error ends the
\* session.
SendOutput(t) ==
  /\ In(t, "sending")
  /\ SetTerm(t, IF SendRaises \/ term[t].closed THEN Break(term[t])
                ELSE [term[t] EXCEPT !.loop = "queued"])
  /\ UNCHANGED <<connection, terminal_sessions, streams, history>>

\* The shell is waited for, once, and terminal_closed is sent.
Reap(t) ==
  /\ In(t, "reaping") /\ ~Exhausted
  /\ SetTerm(t, [term[t] EXCEPT !.loop = "done"])
  /\ UNCHANGED <<connection, terminal_sessions, streams, history>>

\* The user leaves the shell, or a signal ends it; an interactive shell may
\* ignore SIGTERM.
ShellExits(t) ==
  /\ term[t] # None /\ term[t].shell = "alive" /\ term[t].loop # "done"
  /\ term' = [term EXCEPT ![t].shell = "exited"]
  /\ UNCHANGED <<connection, terminal_sessions, streams, history>>

-----------------------------------------------------------------------------
(***************************************************************************)
(* Log streams.                                                            *)
(***************************************************************************)

StreamsOf(i) == {k \in Streams : strm[k] # None /\ strm[k].id = i}

\* logs.stream is answered before the task is created.
logs_stream(i) ==
  /\ Handling
  /\ Reply
  /\ IF SendRaises
     THEN UNCHANGED <<streams, history>>
     ELSE /\ \E k \in Streams :
               /\ strm[k] = None
               /\ strm' = [strm EXCEPT ![k] = [id |-> i, proc |-> "alive", at |-> "boot"]]
          /\ reused' = IF StreamsOf(i) = {} THEN reused \ {i} ELSE reused \cup {i}
          /\ stopped' = stopped \ {i}
          /\ missed' = missed \ {i}
          /\ UNCHANGED active_streams
  /\ UNCHANGED terminals

\* Mutant of StopStream: the entry is removed, the process is not killed.
StopWithoutKill(i) ==
  /\ active_streams' = [active_streams EXCEPT ![i] = None]
  /\ UNCHANGED strm

\* The process of the entry is killed and the entry removed.
StopStream(i) ==
  LET k == active_streams[i] IN
  IF k = None THEN UNCHANGED streams
  ELSE /\ active_streams' = [active_streams EXCEPT ![i] = None]
       /\ strm' = [strm EXCEPT ![k].proc = "exited"]

logs_stop_stream(i) ==
  /\ Handling
  /\ Reply
  /\ StopStream(i)
  /\ stopped' = stopped \cup {i}
  /\ missed' = IF \E k \in StreamsOf(i) : strm[k].at = "boot" THEN missed \cup {i} ELSE missed
  /\ UNCHANGED <<reused, terminals>>

\* The finally clause: the entry of the id is removed, whosever it is, and
\* the process killed.
EndStream(k) ==
  /\ strm' = [strm EXCEPT ![k] = None]
  /\ active_streams' = [active_streams EXCEPT ![strm[k].id] = None]

StreamAt(k, at) == strm[k] # None /\ strm[k].at = at

\* The process is started and registered, or the first message raises.
StreamBoots(k) ==
  /\ StreamAt(k, "boot")
  /\ IF SendRaises
     THEN EndStream(k)
     ELSE /\ strm' = [strm EXCEPT ![k].at = "run"]
          /\ active_streams' = [active_streams EXCEPT ![strm[k].id] = k]
  /\ UNCHANGED <<connection, terminals, history>>

\* Mutant of StreamLine: the entry is removed before the process is waited for.
LineForgets(k) ==
  /\ StreamAt(k, "run") /\ strm[k].proc = "alive"
  /\ \/ SendRaises /\ EndStream(k)
     \/ /\ ~connected
        /\ strm' = [strm EXCEPT ![k].at = "wait"]
        /\ active_streams' = [active_streams EXCEPT ![strm[k].id] = None]
  /\ UNCHANGED <<connection, terminals, history>>

\* A line: without a connection the loop is left, and the process waited for.
StreamLine(k) ==
  /\ StreamAt(k, "run") /\ strm[k].proc = "alive"
  /\ \/ SendRaises /\ EndStream(k)
     \/ ~connected /\ strm' = [strm EXCEPT ![k].at = "wait"] /\ UNCHANGED active_streams
  /\ UNCHANGED <<connection, terminals, history>>

\* Mutant of StreamEnds: a task without a connection waits for the next.
StreamEndsRunning(k) ==
  /\ StreamAt(k, "run") /\ strm[k].proc = "exited"
  /\ EndStream(k)
  /\ UNCHANGED <<connection, terminals, history>>

\* The end of the output, or of the process.
StreamEnds(k) ==
  /\ strm[k] # None /\ strm[k].at # "boot" /\ strm[k].proc = "exited"
  /\ EndStream(k)
  /\ UNCHANGED <<connection, terminals, history>>

ProcExits(k) ==
  /\ strm[k] # None /\ strm[k].at # "boot" /\ strm[k].proc = "alive"
  /\ strm' = [strm EXCEPT ![k].proc = "exited"]
  /\ UNCHANGED <<connection, terminals, active_streams, history>>

-----------------------------------------------------------------------------
\* The process stops, and with it its shells and streams; it is started again.
AgentRestart ==
  /\ link' = "down"
  /\ listen' = "off"
  /\ term' = [t \in Terms |-> None]
  /\ terminal_sessions' = [i \in TermIds |-> None]
  /\ strm' = [k \in Streams |-> None]
  /\ active_streams' = [i \in StreamIds |-> None]
  /\ reused' = {} /\ stopped' = {} /\ missed' = {}

ReadLoop(t) ==
  \/ ReadStarts(t) \/ ReadData(t) \/ ReadEnd(t) \/ SendOutput(t) \/ Reap(t) \/ ShellExits(t)

StreamTask(k) == StreamBoots(k) \/ StreamLine(k) \/ StreamEnds(k) \/ ProcExits(k)

Next ==
  \/ Connect \/ LinkLost \/ ListenEnds \/ CloseReturns \/ AgentRestart
  \/ \E i \in TermIds : terminal_open(i) \/ terminal_close(i)
  \/ \E i \in StreamIds : logs_stream(i) \/ logs_stop_stream(i)
  \/ \E t \in Terms : ReadLoop(t)
  \/ \E k \in Streams : StreamTask(k)

Spec == Init /\ [][Next]_vars

\* The event loop runs what is ready, threads come free, the portal can be
\* reached.  Shells and log processes may run, print or stay silent as they
\* like, and browsers need not ask for anything.
Fairness ==
  /\ WF_vars(Connect) /\ WF_vars(ListenEnds) /\ WF_vars(CloseReturns)
  /\ \A t \in Terms : WF_vars(ReadStarts(t) \/ ReadEnd(t) \/ SendOutput(t) \/ Reap(t))
  /\ \A k \in Streams : WF_vars(StreamBoots(k) \/ StreamEnds(k))

FairSpec == Spec /\ Fairness

-----------------------------------------------------------------------------
(***************************************************************************)
(* Properties.                                                             *)
(***************************************************************************)

\* A terminal whose shell is served is the one that terminal_sessions has
\* for its id, so that it can be closed, whatever connections came and went.
ShellCanBeClosed ==
  \A t \in Terms : term[t] # None /\ ~term[t].closed => terminal_sessions[term[t].id] = t

\* A stream that runs is the one a stop for its id finds, unless the id was
\* opened again while it was in use: the finally clause of one task removes
\* the entry of the id.
StreamCanBeStopped ==
  \A k \in Streams :
    strm[k] # None /\ strm[k].at # "boot" /\ strm[k].proc = "alive" /\ strm[k].id \notin reused
      => active_streams[strm[k].id] = k

\* After logs.stop_stream has been answered no process of that stream runs
\* on, unless it was still being started, or the id was used twice.
StopIsEffective ==
  \A i \in stopped \ (missed \cup reused) :
    \A k \in StreamsOf(i) : strm[k].proc = "exited"

\* A broken connection is noticed and made again, unless every thread of the
\* executor is blocked in a read: terminal.close then waits for a thread
\* inside the listener.  (After a normal close it is not made again.)
AgentReturns == link = "lost" ~> (link = "up" \/ Exhausted)

\* A stream whose process is killed or ends leaves nothing behind.
StoppedStreamEnds ==
  \A k \in Streams : (strm[k] # None /\ strm[k].proc = "exited") ~> (strm[k] = None)
=============================================================================
