----------------------------- MODULE MCTickets -----------------------------
(* Instance of Tickets for TLC. *)
EXTENDS Tickets, TLC

TicketsSymmetry ==
  Permutations(Clients) \cup Permutations(Broadcasts) \cup Permutations(Values)
=============================================================================
