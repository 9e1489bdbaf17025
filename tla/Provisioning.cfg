\* Two requests at a time, two domains with one key, a key that is refused and
\* the key of the shared schema.
CONSTANTS
  acme = acme
  myco = myco
  acme_com = acme_com
  acme_org = acme_org
  myco_com = myco_com
  Requests = {q1, q2}
  Keys = {acme, myco, Individual}
  BadKeys = {myco}
  Domains = {acme_com, acme_org, myco_com}
  KeyOf <- MCKeyOf
  Individual = Individual
  None = None
  MaxOrgs = 2
SPECIFICATION Spec
SYMMETRY OrganizationsSymmetry
INVARIANTS TypeOK ProvisionedTogether IndividualReady OnePlatformOwner
