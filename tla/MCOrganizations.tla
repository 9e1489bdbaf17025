-------------------------- MODULE MCOrganizations --------------------------
(* Instance of Organizations for TLC: acme.com and acme.org have the same  *)
(* key, my-co.com has one that is no schema name.                          *)
EXTENDS Organizations, TLC

CONSTANTS acme, myco, acme_com, acme_org, myco_com

MCKeyOf == acme_com :> acme @@ acme_org :> acme @@ myco_com :> myco

OrganizationsSymmetry == Permutations(Requests)
=============================================================================
