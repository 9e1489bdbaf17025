---------------------------- MODULE RpcService ----------------------------
(***************************************************************************)
(* What send_command_to_agent promises its callers, with no connections,   *)
(* futures or identifiers in sight: a call either fails or is answered,    *)
(* once and for all; the agent carries out a command at most once, and     *)
(* only if it was sent; and a call is answered only with the result of     *)
(* carrying out that very command.  A call that failed may still have been *)
(* carried out, or be carried out later.                                   *)
(***************************************************************************)
CONSTANT Calls

VARIABLES
  status,    \* of each call, as its caller sees it
  sent,      \* calls whose command was handed to the transport
  ran        \* calls whose command an agent has carried out

rpcVars == <<status, sent, ran>>

RpcInit ==
  /\ status = [k \in Calls |-> "open"]
  /\ sent = {}
  /\ ran = {}

Send(k) ==
  /\ status[k] = "open" /\ k \notin sent
  /\ sent' = sent \cup {k}
  /\ UNCHANGED <<status, ran>>

Run(k) ==
  /\ k \in sent /\ k \notin ran
  /\ ran' = ran \cup {k}
  /\ UNCHANGED <<status, sent>>

Answer(k) ==
  /\ status[k] = "open" /\ k \in ran
  /\ status' = [status EXCEPT ![k] = "answered"]
  /\ UNCHANGED <<sent, ran>>

\* Several calls fail in one step when the backend stops.
Fail(K) ==
  /\ \A k \in K : status[k] = "open"
  /\ status' = [k \in Calls |-> IF k \in K THEN "failed" ELSE status[k]]
  /\ UNCHANGED <<sent, ran>>

RpcNext ==
  \/ \E k \in Calls : Send(k) \/ Run(k) \/ Answer(k)
  \/ \E K \in SUBSET Calls : Fail(K)

RpcSpec == RpcInit /\ [][RpcNext]_rpcVars
=============================================================================
