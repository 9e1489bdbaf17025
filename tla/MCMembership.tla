---------------------------- MODULE MCMembership ----------------------------
(* Instance of Membership for TLC. *)
EXTENDS Membership, TLC

MembershipSymmetry == 
  Permutations(Requests) \cup Permutations(Emails)
    \cup Permutations(Teams) \cup Permutations(Invites)
=============================================================================
