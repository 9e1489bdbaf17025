----------------------------- MODULE MCAlerting -----------------------------
(* Instances of Alerting for TLC: one tenant has a server with all the rules, *)
(* the others have none.                                                      *)
EXTENDS Alerting, TLC

CONSTANT t1   \* the tenant that has the server

MCTenantOf == [s \in Servers |-> t1]
MCServerOf == [r \in Rules |-> CHOOSE s \in Servers : TRUE]

\* Ids of records are interchangeable.
RecordSymmetry == Permutations(Records)
=============================================================================
