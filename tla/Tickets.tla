------------------------------ MODULE Tickets ------------------------------
(***************************************************************************)
(* Requests that change tickets (api/tickets.py and the endpoints of the   *)
(* platform owner in api/admin.py), composed with WatcherBroadcast.        *)
(*                                                                         *)
(* A request reads the ticket, writes its changes to the database (flush), *)
(* tells the watchers, and commits last.  From the flush to the end of the *)
(* request the row is locked: updated_at always changes.  SQLAlchemy       *)
(* writes only what differs from the row it has read.  Every broadcast is  *)
(* made by the request of the same name.                                   *)
(***************************************************************************)
EXTENDS WatcherBroadcast

CONSTANT Values   \* contents of a ticket: status, priority, assignee

ASSUME ValuesAssumption == None \notin Values

VARIABLES
  row,      \* row[t]: committed content of the ticket, None before it exists
  req,      \* req[b]: the request that has read its ticket, or None
  told,     \* told[t][w]: content that browser w was last told, while it watches
  misled    \* history: misled[t], browsers that were told what is not so, or
            \* left out, for a reason named below

ticketVars == <<row, req, told, misled>>

Request == [ticket : Topics, kind : {"update", "message"}, old : Values, new : Values,
            flushed : BOOLEAN]

ASSUME RecordsAssumption == None \notin Request

TicketsTypeOK ==
  /\ TypeOK
  /\ row \in [Topics -> Values \cup {None}]
  /\ req \in [Broadcasts -> Request \cup {None}]
  /\ told \in [Topics -> [Clients -> Values \cup {None}]]
  /\ misled \in [Topics -> SUBSET Clients]
  /\ \A b \in Broadcasts : task[b] # "idle" => req[b] # None /\ req[b].flushed

TicketsInit ==
  /\ Init
  /\ row = [t \in Topics |-> None]
  /\ req = [b \in Broadcasts |-> None]
  /\ told = [t \in Topics |-> [w \in Clients |-> None]]
  /\ misled = [t \in Topics |-> {}]

-----------------------------------------------------------------------------
\* A browser that begins to watch a ticket has been told nothing yet.
BrowserStep(w) ==
  /\ ClientStep(w)
  /\ told' = [t \in Topics |->
       IF w \in watchers'[t] \ watchers[t] THEN [told[t] EXCEPT ![w] = None] ELSE told[t]]
  /\ misled' = [t \in Topics |->
       IF w \in watchers'[t] \ watchers[t] THEN misled[t] \ {w} ELSE misled[t]]
  /\ UNCHANGED <<row, req>>

\* A ticket is inserted; nobody is told.
create_ticket(t) ==
  /\ row[t] = None
  /\ \E v \in Values : row' = [row EXCEPT ![t] = v]
  /\ UNCHANGED <<vars, req, told, misled>>

\* The ticket is read, and the changes decided.
Read(b, t, kind, new) ==
  /\ req[b] = None /\ row[t] # None
  /\ req' = [req EXCEPT ![b] =
       [ticket |-> t, kind |-> kind, old |-> row[t], new |-> new, flushed |-> FALSE]]
  /\ UNCHANGED <<vars, row, told, misled>>

update_ticket(b, t) == \E v \in Values : Read(b, t, "update", v)

\* The platform owner updates a ticket of the shared schema.
update_individual_ticket(b, t) == \E v \in Values : Read(b, t, "update", v)

\* A message touches nothing of the ticket but updated_at.
create_ticket_message(b, t) == Read(b, t, "message", row[t])

\* The platform owner answers a ticket of the shared schema.
add_individual_ticket_message(b, t) == Read(b, t, "message", row[t])

\* Mutant of Flush: the broadcast begins before the changes are sent.
FlushForgets(b) ==
  LET t == req[b].ticket IN
  /\ req[b] # None /\ ~req[b].flushed
  /\ req' = req
  /\ IF watchers[t] = {} THEN UNCHANGED vars ELSE Begin(b, t)
  /\ UNCHANGED <<row, told, misled>>

\* The changes are sent to the database, which waits for the lock of the
\* row, and the broadcast begins.
Flush(b) ==
  LET t == req[b].ticket IN
  /\ req[b] # None /\ ~req[b].flushed
  /\ \A c \in Broadcasts : req[c] # None /\ req[c].ticket = t => ~req[c].flushed
  /\ req' = [req EXCEPT ![b].flushed = TRUE]
  /\ IF watchers[t] = {} THEN UNCHANGED vars ELSE Begin(b, t)
  /\ UNCHANGED <<row, told, misled>>

\* A step of the broadcast; the awaited send reached a browser that is there.
Forward(b) ==
  /\ SendNext(b) \/ Complete(b) \/ IterationRaises(b)
  /\ told' = IF req[b].kind = "update" /\ current[b] \in alive
             THEN [told EXCEPT ![req[b].ticket][current[b]] = req[b].new] ELSE told
  /\ UNCHANGED <<row, req, misled>>

\* The broadcast is over, or there was none to make.
Over(b) ==
  /\ req[b] # None
  /\ req' = [req EXCEPT ![b] = None]
  /\ IF task[b] = "idle" THEN UNCHANGED vars ELSE Return(b)
  /\ UNCHANGED told

\* Mutant of Commit: an exception of the broadcast is ignored.
CommitAlways(b) ==
  LET r == req[b] IN
  /\ Over(b)
  /\ r.flushed
  /\ row' = IF r.new # r.old THEN [row EXCEPT ![r.ticket] = r.new] ELSE row
  /\ misled' = [misled EXCEPT ![r.ticket] =
       IF r.kind = "message" THEN @ ELSE @ \ got[b]]

\* Browsers are misled by a request that had read a row changed since: what
\* it did not change it tells as it was.  Browsers are left out by a
\* broadcast whose set grew.
Commit(b) ==
  LET r == req[b]
      overtaken == row[r.ticket] # r.old
  IN
  /\ Over(b)
  /\ r.flushed
  /\ task[b] \in {"idle", "done"}
  /\ row' = IF r.new # r.old THEN [row EXCEPT ![r.ticket] = r.new] ELSE row
  /\ misled' = [misled EXCEPT ![r.ticket] =
       IF r.kind = "message" THEN @
       ELSE (IF overtaken THEN @ \cup got[b] ELSE @ \ got[b])
              \cup (IF grown[b] THEN watchers[r.ticket] \ got[b] ELSE {})]

\* The broadcast raised, or a statement failed: what browsers were told is
\* not committed.
Rollback(b) ==
  LET r == req[b] IN
  /\ Over(b)
  /\ UNCHANGED row
  /\ misled' = [misled EXCEPT ![r.ticket] = IF r.kind = "message" THEN @ ELSE @ \cup got[b]]

RequestStep(b) == Flush(b) \/ Forward(b) \/ Commit(b) \/ Rollback(b)

TicketsNext ==
  \/ \E w \in Clients : BrowserStep(w)
  \/ \E t \in Topics : create_ticket(t)
  \/ \E b \in Broadcasts, t \in Topics :
       \/ update_ticket(b, t) \/ update_individual_ticket(b, t)
       \/ create_ticket_message(b, t) \/ add_individual_ticket_message(b, t)
  \/ \E b \in Broadcasts : RequestStep(b)

TicketsSpec == TicketsInit /\ [][TicketsNext]_<<vars, ticketVars>>

-----------------------------------------------------------------------------
\* When no request is telling, a connected watcher that was told something of
\* a ticket was told what is committed: requests that overlap tell in the
\* order in which they commit, although they tell first, because the flush
\* holds the row.  The exceptions are browsers told of an update that was
\* rolled back, told by a request that had read an older row, or left out.
ShownIsCommitted ==
  \A t \in Topics :
    (\A b \in Broadcasts : req[b] # None /\ req[b].ticket = t => ~req[b].flushed)
      => \A w \in (watchers[t] \cap alive) \ misled[t] : told[t][w] \in {None, row[t]}
=============================================================================
