\* One account, two requests at a time, any number one after another.
CONSTANTS
  Requests = {q1, q2}
  Secrets = {x, y}
  None = None
  MaxHashes = 2
  MaxCodes = 2
  MaxTokens = 2
SPECIFICATION Spec
SYMMETRY CredentialsSymmetry
INVARIANTS TypeOK TwoFactorUsable CodeDiesWithUse OneResetLink
