\* A tenant with a server and its rule, beside a tenant whose schema is broken.
CONSTANTS
  t1 = t1
  Tenants = {t1, t2}
  Servers = {s1}
  Rules = {r1}
  Records = {d1, d2}
  Requests = {q1}
  None = None
  TenantOf <- MCTenantOf
  ServerOf <- MCServerOf
  TimedRules = {r1}
  BrokenTenants = {t2}
  MaxReading = 1
  MaxOutages = 1
SPECIFICATION Spec
SYMMETRY RecordSymmetry
INVARIANTS OneOpenRecord AlertIsAttended
