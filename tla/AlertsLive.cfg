\* One record; the alert task and the diagnoses are fair.
CONSTANTS
  t1 = t1
  Tenants = {t1, t2}
  Servers = {s1}
  Rules = {r1}
  Records = {d1}
  Requests = {q1}
  None = None
  TenantOf <- MCTenantOf
  ServerOf <- MCServerOf
  TimedRules = {}
  BrokenTenants = {t2}
  MaxReading = 1
  MaxOutages = 1
SPECIFICATION FairSpec
PROPERTIES DiagnosisEnds BreachIsReported ClearedIsResolved
