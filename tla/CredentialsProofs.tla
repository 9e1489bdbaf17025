------------------------- MODULE CredentialsProofs -------------------------
(***************************************************************************)
(* Proofs about Credentials, for any number of overlapping requests,       *)
(* secrets, codes, hashes and reset tokens.                                *)
(*                                                                         *)
(* The invariant says of every request under way which columns it will     *)
(* write together, since the columns it leaves alone are merged with those *)
(* of other requests.                                                      *)
(***************************************************************************)
EXTENDS Credentials, FiniteSetTheorems, TLAPS

\* No secret was sent to verify_2fa twice.
SentOnce == \A s \in Secrets : sent[s] < 2

\* The second factor has a method exactly when it is enabled.
Sound(v) == v.two_factor_enabled <=> v.two_factor_method # None

\* A secret in a row was sent by a browser.
SecretSent(v) == v.two_factor_secret # None => sent[v.two_factor_secret] > 0

\* A request writes two_factor_enabled and two_factor_method together.
PairWritten(r) ==
  /\ Sound(r.old)
  /\ Sound(r.new)
  /\ r.new.two_factor_enabled = r.old.two_factor_enabled
       => r.new.two_factor_method = r.old.two_factor_method

\* Who writes the method TOTP writes a secret, who removes the secret writes
\* another method.
SecretWritten(r) ==
  /\ SecretSent(r.old)
  /\ SecretSent(r.new)
  /\ r.new.two_factor_method # r.old.two_factor_method /\ r.new.two_factor_method = "totp"
       => /\ r.new.two_factor_secret # None
          /\ SentOnce => r.new.two_factor_secret # r.old.two_factor_secret
  /\ r.new.two_factor_secret # r.old.two_factor_secret /\ r.new.two_factor_secret = None
       => /\ r.new.two_factor_method # r.old.two_factor_method
          /\ r.new.two_factor_method # "totp"

\* The code that a request will store, if it does, and whether it does.
NewOtp(r) == r.new.two_factor_otp_secret
Stores(r) == NewOtp(r) # r.old.two_factor_otp_secret /\ NewOtp(r) # None

\* A code that is accepted is removed by the same request; a code that is to
\* be stored has never been seen.
CodeWritten(r) ==
  /\ r.code # None => r.old.two_factor_otp_secret = r.code /\ NewOtp(r) = None
  /\ r.code # None => r.code <= made.codes
  /\ Stores(r) => /\ NewOtp(r) <= made.codes
                  /\ NewOtp(r) # row.two_factor_otp_secret
                  /\ NewOtp(r) \notin used

\* No two requests store the same code, or one stores what the other accepts.
CodesApart ==
  \A p, q \in Requests :
    p # q /\ req[p] # None /\ req[q] # None /\ Stores(req[p])
      => /\ NewOtp(req[p]) # req[q].code
         /\ Stores(req[q]) => NewOtp(req[p]) # NewOtp(req[q])

PairInv ==
  /\ Sound(row)
  /\ \A q \in Requests : req[q] # None => PairWritten(req[q])

SecretInv ==
  /\ SecretSent(row)
  /\ row.two_factor_method = "totp" /\ SentOnce => row.two_factor_secret # None
  /\ \A q \in Requests : req[q] # None => SecretWritten(req[q])

CodeInv ==
  /\ row.two_factor_otp_secret # None => row.two_factor_otp_secret <= made.codes
  /\ \A c \in used : c <= made.codes
  /\ CodeDiesWithUse
  /\ \A q \in Requests : req[q] # None => CodeWritten(req[q])
  /\ CodesApart

\* Request q is about to add a reset token.
Adds(q) == req[q] # None /\ req[q].add # None

\* There is one token, unless the latest was made by a request that overlapped
\* another; a request that overlapped none deletes every token there is.
LinkInv ==
  /\ doubled \/ \A x, y \in tokens : x = y
  /\ \A q \in Requests : Adds(q) /\ q \notin crossed => tokens \subseteq req[q].drop
  /\ \A p, q \in Requests : p # q /\ Adds(p) /\ Adds(q) => q \in crossed

WriteInv == PairInv /\ SecretInv /\ CodeInv

CredentialsInv == TypeOK /\ WriteInv /\ LinkInv

-----------------------------------------------------------------------------
\* Columns and records are what the type invariant says they are: what
\* Change makes of a row is a request, and its columns can be read off.
LEMMA ChangeType ==
  ASSUME row \in Row, NEW new \in Row
  PROVE  /\ Change(new) \in Pending
         /\ Change(new).old = row /\ Change(new).new = new
         /\ Change(new).code = None
BY DEF Change, Pending

\* An update of the changed columns makes a row of two rows.
LEMMA MergeType ==
  ASSUME row \in Row, NEW old \in Row, NEW new \in Row
  PROVE  /\ Merge(row, old, new) \in Row
         /\ \A c \in {"password_hash", "two_factor_enabled", "two_factor_method",
                      "two_factor_secret", "two_factor_otp_secret"} :
              Merge(row, old, new)[c] = IF new[c] # old[c] THEN new[c] ELSE row[c]
BY DEF Merge, Row

-----------------------------------------------------------------------------
(***************************************************************************)
(* Types.                                                                  *)
(***************************************************************************)

\* The credentials of an account and the requests on it are well typed at
\* first.
LEMMA InitTypes == Init => TypeOK
<1> SUFFICES ASSUME Init PROVE TypeOK
  OBVIOUS
<1> USE CredentialsAssumption DEF CredentialsAssumption, Init
<1>1. row \in Row
  BY DEF Row
<1>2. made \in [hashes : 1..MaxHashes, codes : 0..MaxCodes, tokens : 0..MaxTokens]
  OBVIOUS
<1>3. sent \in [Secrets -> 0..2]
  OBVIOUS
<1>4. req \in [Requests -> Pending \cup {None}]
  OBVIOUS
<1> QED
  BY <1>1, <1>2, <1>3, <1>4 DEF TypeOK

\* A step that stores a fresh code keeps the types.
LEMMA NewCodeTypes ==
  ASSUME TypeOK, NEW q \in Requests, NEW hands \in BOOLEAN, NewCode(q, hands)
  PROVE  TypeOK'
<1> DEFINE new == [row EXCEPT !.two_factor_otp_secret = made.codes + 1]
           r == [Change(new) EXCEPT !.hands = hands]
<1>1. made.codes + 1 \in Codes
  BY CredentialsAssumption DEF CredentialsAssumption, TypeOK, NewCode, Codes
<1>2. new \in Row
  BY <1>1 DEF TypeOK, Row
<1>3. r \in Pending
  BY <1>2, ChangeType DEF TypeOK, Pending
<1>4. req' \in [Requests -> Pending \cup {None}]
  BY <1>3 DEF TypeOK, NewCode
<1>5. made' \in [hashes : 1..MaxHashes, codes : 0..MaxCodes, tokens : 0..MaxTokens]
  BY CredentialsAssumption DEF CredentialsAssumption, TypeOK, NewCode
<1> QED
  BY <1>4, <1>5 DEF TypeOK, NewCode

\* A step that accepts the stored code keeps the types.
LEMMA AcceptCodeTypes ==
  ASSUME TypeOK, NEW q \in Requests, NEW new \in Row, AcceptCode(q, new)
  PROVE  TypeOK'
<1> DEFINE r == [Change(new) EXCEPT !.code = row.two_factor_otp_secret]
<1>1. r \in Pending
  BY ChangeType DEF TypeOK, Pending, Row
<1>2. req' \in [Requests -> Pending \cup {None}]
  BY <1>1 DEF TypeOK, AcceptCode
<1> QED
  BY <1>2 DEF TypeOK, AcceptCode

\* A commit keeps the types: merging two rows gives a row.
LEMMA CommitTypes ==
  ASSUME TypeOK, NEW q \in Requests, Commit(q)
  PROVE  TypeOK'
<1> DEFINE r == req[q]
<1>1. r \in Pending
  BY DEF TypeOK, Commit
<1>2. r.old \in Row /\ r.new \in Row
  BY <1>1 DEF Pending
<1>3. row' \in Row
  BY <1>2, MergeType DEF TypeOK, Commit
<1>4. tokens' \subseteq Tokens /\ expired' \subseteq tokens'
  BY <1>1 DEF TypeOK, Commit, Pending
<1>5. used' \subseteq Codes
  BY <1>1 DEF TypeOK, Commit, Pending
<1>6. req' \in [Requests -> Pending \cup {None}]
  BY DEF TypeOK, Commit
<1>7. late' \in BOOLEAN /\ mfa' \in BOOLEAN /\ doubled' \in BOOLEAN
  <2>1. late' \in BOOLEAN
    BY Zenon DEF Commit
  <2>2. mfa' \in BOOLEAN
    BY Zenon DEF Commit
  <2>3. doubled' \in BOOLEAN
    BY Zenon DEF Commit
  <2> QED
    BY <2>1, <2>2, <2>3
<1>8. crossed' \subseteq Requests
  BY DEF TypeOK, Commit
<1> QED
  BY <1>3, <1>4, <1>5, <1>6, <1>7, <1>8 DEF TypeOK, Commit

\* The second factor's endpoints make rows of rows.
LEMMA RowTypes ==
  ASSUME row \in Row
  PROVE  /\ [row EXCEPT !.two_factor_otp_secret = None] \in Row
         /\ \A h \in 1..MaxHashes : [row EXCEPT !.password_hash = h] \in Row
         /\ \A m \in {"totp", "email"}, s \in Secrets \cup {None} :
              [row EXCEPT !.two_factor_enabled = TRUE, !.two_factor_method = m,
                          !.two_factor_secret = s, !.two_factor_otp_secret = None] \in Row
         /\ [row EXCEPT !.two_factor_enabled = FALSE, !.two_factor_method = None,
                        !.two_factor_secret = None, !.two_factor_otp_secret = None] \in Row
BY DEF Row

\* Every step of a request keeps the types.
LEMMA StepTypes ==
  ASSUME TypeOK, NEW q \in Requests, Step(q)
  PROVE  TypeOK'
<1> USE DEF CanBegin
<1>0. row \in Row
  BY DEF TypeOK
<1>1. CASE login(q)
  <2>1. CASE row.two_factor_method = "email"
    BY <1>1, <2>1, NewCodeTypes DEF login
  <2>2. CASE row.two_factor_method # "email"
    BY <1>1, <2>2 DEF login, TypeOK
  <2> QED
    BY <2>1, <2>2
<1>2. CASE login_2fa(q)
  BY <1>0, <1>2, AcceptCodeTypes, RowTypes DEF login_2fa
<1>3. CASE forgot_password(q)
  <2> DEFINE r == [Change(row) EXCEPT !.drop = tokens, !.add = made.tokens + 1]
  <2>1. made.tokens + 1 \in Tokens
    BY <1>3, CredentialsAssumption DEF CredentialsAssumption, TypeOK, Tokens, forgot_password
  <2>2. r \in Pending
    <3>1. Change(row) \in Pending /\ tokens \in SUBSET Tokens
      BY <1>0, ChangeType DEF TypeOK
    <3> QED
      BY <2>1, <3>1 DEF Pending
  <2>3. crossed' \subseteq Requests
    BY <1>3 DEF forgot_password, TypeOK
  <2>4. made' \in [hashes : 1..MaxHashes, codes : 0..MaxCodes, tokens : 0..MaxTokens]
    BY <1>3, CredentialsAssumption DEF CredentialsAssumption, TypeOK, forgot_password
  <2>5. req' \in [Requests -> Pending \cup {None}]
    BY <1>3, <2>2 DEF forgot_password, TypeOK
  <2> QED
    BY <1>3, <2>3, <2>4, <2>5 DEF TypeOK, forgot_password
<1>4. CASE reset_password(q)
  <2>1. PICK t \in tokens : reset_password(q)!2!(t)
    BY <1>4 DEF reset_password
  <2>2. t \in Tokens
    BY DEF TypeOK
  <2>3. CASE here /\ t \notin expired
    <3> DEFINE new == [row EXCEPT !.password_hash = made.hashes + 1]
               r == [Change(new) EXCEPT !.drop = {t}]
    <3>1. made.hashes + 1 \in 1..MaxHashes
      BY <2>1, <2>3, CredentialsAssumption DEF CredentialsAssumption, TypeOK
    <3>2. new \in Row
      BY <1>0, <3>1, RowTypes
    <3>3. r \in Pending
      BY <1>0, <2>2, <3>2, ChangeType DEF Pending
    <3>4. req' \in [Requests -> Pending \cup {None}]
      BY <2>1, <2>3, <3>3 DEF TypeOK
    <3>5. made' \in [hashes : 1..MaxHashes, codes : 0..MaxCodes, tokens : 0..MaxTokens]
      BY <2>1, <2>3, CredentialsAssumption DEF CredentialsAssumption, TypeOK
    <3> QED
      BY <1>4, <3>4, <3>5 DEF TypeOK, reset_password
  <2>4. CASE ~(here /\ t \notin expired)
    <3> DEFINE r == [Change(row) EXCEPT !.drop = {t}]
    <3>1. r \in Pending
      BY <1>0, <2>2, ChangeType DEF Pending
    <3>2. req' \in [Requests -> Pending \cup {None}]
      BY <2>1, <2>4, <3>1 DEF TypeOK
    <3> QED
      BY <1>4, <2>1, <2>4, <3>2 DEF TypeOK, reset_password
  <2> QED
    BY <2>3, <2>4
<1>5. CASE change_password(q)
  <2>1. made.hashes + 1 \in 1..MaxHashes
    BY <1>5, CredentialsAssumption DEF CredentialsAssumption, TypeOK, change_password
  <2>2. Change([row EXCEPT !.password_hash = made.hashes + 1]) \in Pending
    BY <1>0, <2>1, RowTypes, ChangeType
  <2>3. made' \in [hashes : 1..MaxHashes, codes : 0..MaxCodes, tokens : 0..MaxTokens]
    BY <1>5, CredentialsAssumption DEF CredentialsAssumption, TypeOK, change_password
  <2> QED
    BY <1>5, <2>2, <2>3 DEF TypeOK, change_password
<1>6. CASE setup_2fa(q)
  BY <1>6, NewCodeTypes DEF setup_2fa
<1>7. CASE verify_2fa(q)
  <2> DEFINE enabled(m, s) ==
        [row EXCEPT !.two_factor_enabled = TRUE, !.two_factor_method = m,
                    !.two_factor_secret = s, !.two_factor_otp_secret = None]
  <2>1. CASE \E s \in Secrets :
               /\ req' = [req EXCEPT ![q] = Change(enabled("totp", s))]
               /\ sent' = [sent EXCEPT ![s] = IF @ = 0 THEN 1 ELSE 2]
               /\ UNCHANGED <<row, here, tokens, late, expired, mfa, made, used, crossed, doubled>>
    <3>1. PICK s \in Secrets :
               /\ req' = [req EXCEPT ![q] = Change(enabled("totp", s))]
               /\ sent' = [sent EXCEPT ![s] = IF @ = 0 THEN 1 ELSE 2]
               /\ UNCHANGED <<row, here, tokens, late, expired, mfa, made, used, crossed, doubled>>
      BY <2>1
    <3>2. Change(enabled("totp", s)) \in Pending
      BY <1>0, RowTypes, ChangeType
    <3>3. req' \in [Requests -> Pending \cup {None}]
      BY <3>1, <3>2 DEF TypeOK
    <3>4. sent' \in [Secrets -> 0..2]
      BY <3>1 DEF TypeOK
    <3> QED
      BY <3>1, <3>3, <3>4 DEF TypeOK
  <2>2. CASE AcceptCode(q, enabled("email", None))
    BY <1>0, <2>2, AcceptCodeTypes, RowTypes
  <2>3. CASE /\ req' = [req EXCEPT ![q] = Change([row EXCEPT !.two_factor_otp_secret = None])]
             /\ UNCHANGED <<row, here, tokens, late, expired, mfa, made, sent, used, crossed, doubled>>
    <3>1. Change([row EXCEPT !.two_factor_otp_secret = None]) \in Pending
      BY <1>0, RowTypes, ChangeType
    <3> QED
      BY <2>3, <3>1 DEF TypeOK
  <2> QED
    BY <1>7, <2>1, <2>2, <2>3 DEF verify_2fa
<1>8. CASE disable_2fa(q)
  <2> DEFINE disabled ==
        [row EXCEPT !.two_factor_enabled = FALSE, !.two_factor_method = None,
                    !.two_factor_secret = None, !.two_factor_otp_secret = None]
  <2>1. CASE NewCode(q, FALSE)
    BY <2>1, NewCodeTypes
  <2>2. CASE AcceptCode(q, disabled)
    BY <1>0, <2>2, AcceptCodeTypes, RowTypes
  <2>3. CASE /\ req' = [req EXCEPT ![q] = Change(disabled)]
             /\ UNCHANGED <<row, here, tokens, late, expired, mfa, made, sent, used, crossed, doubled>>
    <3>1. Change(disabled) \in Pending
      BY <1>0, RowTypes, ChangeType
    <3> QED
      BY <2>3, <3>1 DEF TypeOK
  <2> QED
    BY <1>8, <2>1, <2>2, <2>3 DEF disable_2fa
<1>9. CASE Commit(q)
  BY <1>9, CommitTypes
<1>10. CASE Rollback(q)
  BY <1>10 DEF TypeOK, Rollback
<1> QED
  BY <1>1, <1>2, <1>3, <1>4, <1>5, <1>6, <1>7, <1>8, <1>9, <1>10 DEF Step

\* Every step keeps the types.
LEMMA NextTypes == TypeOK /\ [Next]_vars => TypeOK'
<1> SUFFICES ASSUME TypeOK, [Next]_vars PROVE TypeOK'
  OBVIOUS
<1>1. ASSUME NEW q \in Requests, Step(q) PROVE TypeOK'
  BY <1>1, StepTypes
<1>2. CASE delete_user
  BY <1>2 DEF delete_user, TypeOK
<1>3. CASE Expire
  <2>1. late' \in BOOLEAN /\ mfa' \in BOOLEAN
    <3>1. CASE late' = (row.two_factor_otp_secret # None) /\ UNCHANGED <<expired, mfa>>
      <4>1. late' \in BOOLEAN
        BY <3>1, Zenon
      <4> QED
        BY <3>1, <4>1 DEF TypeOK
    <3>2. CASE late' = late
      BY <1>3, <3>2 DEF Expire, TypeOK
    <3> QED
      BY <1>3, <3>1, <3>2 DEF Expire
  <2>2. expired' \subseteq tokens
    BY <1>3 DEF Expire, TypeOK
  <2> QED
    BY <1>3, <2>1, <2>2 DEF Expire, TypeOK
<1>4. CASE UNCHANGED vars
  BY <1>4 DEF vars, TypeOK
<1> QED
  BY <1>1, <1>2, <1>3, <1>4 DEF Next

-----------------------------------------------------------------------------
(***************************************************************************)
(* Admission: what an endpoint that has read the row is about to write.    *)
(***************************************************************************)

\* What a request does with the code: nothing or removing it, storing a
\* fresh one, or accepting it.
Keeps(r) == r.code = None /\ ~Stores(r)
StoresFresh(r) ==
  /\ r.code = None
  /\ NewOtp(r) = made.codes + 1
  /\ made'.codes = made.codes + 1
Accepts(r) ==
  /\ row.two_factor_otp_secret # None
  /\ r.code = row.two_factor_otp_secret
  /\ NewOtp(r) = None

\* A request joins those under way; the row and the accepted codes stay.
Admits(q, r) ==
  /\ req[q] = None
  /\ req' = [req EXCEPT ![q] = r]
  /\ r \in Pending
  /\ r.old = row
  /\ UNCHANGED <<row, used>>
  /\ made'.codes >= made.codes
  /\ \A s \in Secrets : sent'[s] >= sent[s]

\* A request that writes enabled and method together joins.
LEMMA AdmitPair ==
  ASSUME TypeOK, PairInv, NEW q \in Requests, NEW r, Admits(q, r), PairWritten(r)
  PROVE  PairInv'
BY DEF TypeOK, PairInv, Admits, PairWritten, Sound

\* A request that handles the secret as it should joins.
LEMMA AdmitSecret ==
  ASSUME TypeOK, TypeOK', SecretInv, NEW q \in Requests, NEW r, Admits(q, r), SecretWritten(r)'
  PROVE  SecretInv'
<1>1. SentOnce' => SentOnce
  BY DEF SentOnce, Admits, TypeOK
<1>2. ASSUME NEW v \in Row, SecretSent(v) PROVE SecretSent(v)'
  BY <1>2 DEF SecretSent, Admits, TypeOK, Row
<1>3. SecretSent(row)'
  BY <1>2 DEF SecretInv, Admits, TypeOK, SecretSent
<1>4. (row.two_factor_method = "totp" /\ SentOnce => row.two_factor_secret # None)'
  BY <1>1 DEF SecretInv, Admits
<1>5. ASSUME NEW p \in Requests, req'[p] # None PROVE SecretWritten(req[p])'
  <2>1. CASE p = q
    <3>1. req'[p] = r
      BY <2>1 DEF Admits, TypeOK
    <3> QED
      BY <3>1 DEF SecretWritten, SecretSent
  <2>2. CASE p # q
    <3>1. req'[p] = req[p] /\ req[p] \in Pending
      BY <1>5, <2>2 DEF Admits, TypeOK
    <3>2. SecretWritten(req[p])
      BY <1>5, <3>1 DEF SecretInv
    <3>3. req[p].old \in Row /\ req[p].new \in Row
      BY <3>1 DEF Pending
    <3>4. PICK old \in Row, new \in Row : old = req[p].old /\ new = req[p].new
      BY <3>3
    <3>5. SecretSent(old)' /\ SecretSent(new)'
      BY <1>2, <3>2, <3>4 DEF SecretWritten, SecretSent
    <3>6. req'[p].old = old /\ req'[p].new = new
      BY <3>1, <3>4
    <3> QED
      BY <1>1, <3>2, <3>4, <3>5, <3>6 DEF SecretWritten, SecretSent
  <2> QED
    BY <2>1, <2>2
<1> QED
  BY <1>3, <1>4, <1>5 DEF SecretInv

\* A request that handles the code as it should joins.
LEMMA AdmitCode ==
  ASSUME TypeOK, TypeOK', CodeInv, NEW q \in Requests, NEW r, Admits(q, r),
         Keeps(r) \/ StoresFresh(r) \/ Accepts(r)
  PROVE  CodeInv'
<1> USE CredentialsAssumption DEF CredentialsAssumption
<1>1. made.codes \in Nat /\ made'.codes \in Nat /\ made.codes <= made'.codes
  BY DEF TypeOK, Admits
<1>2. \A c \in Codes : c \in Nat /\ c # None
  BY DEF Codes
<1>3. /\ row.two_factor_otp_secret \in Codes \cup {None}
      /\ r.code \in Codes \cup {None}
      /\ NewOtp(r) \in Codes \cup {None}
  BY DEF TypeOK, Admits, Pending, Row, NewOtp
<1>4. \A p \in Requests : req[p] # None =>
        /\ req[p].code \in Codes \cup {None}
        /\ NewOtp(req[p]) \in Codes \cup {None}
        /\ CodeWritten(req[p])
  BY DEF TypeOK, Pending, Row, NewOtp, CodeInv
<1>5. \A p \in Requests : req'[p] = IF p = q THEN r ELSE req[p]
  BY DEF Admits, TypeOK
<1>6. row' = row /\ used' = used /\ r.old = row /\ req[q] = None
  BY DEF Admits
<1>7. \A c \in used : c \in Codes /\ c <= made.codes
  BY DEF TypeOK, CodeInv
<1>8. /\ row.two_factor_otp_secret # None => row.two_factor_otp_secret <= made.codes
      /\ row.two_factor_otp_secret \notin used
  BY DEF CodeInv, CodeDiesWithUse
<1>9. ASSUME NEW p \in Requests, p # q, req[p] # None
      PROVE  /\ Stores(req[p]) => NewOtp(req[p]) # r.code
             /\ Stores(r) => /\ NewOtp(r) # req[p].code
                             /\ Stores(req[p]) => NewOtp(r) # NewOtp(req[p])
  <2>1. CASE Keeps(r)
    BY <2>1 DEF Keeps, Stores
  <2>2. CASE StoresFresh(r)
    BY <1>1, <1>2, <1>4, <1>9, <2>2 DEF StoresFresh, Stores, CodeWritten
  <2>3. CASE Accepts(r)
    BY <1>4, <1>9, <2>3 DEF Accepts, Stores, CodeWritten
  <2> QED
    BY <2>1, <2>2, <2>3
<1>10. /\ r.code # None => /\ r.old.two_factor_otp_secret = r.code /\ NewOtp(r) = None
                           /\ r.code <= made'.codes
       /\ Stores(r) => /\ NewOtp(r) <= made'.codes
                       /\ NewOtp(r) # row.two_factor_otp_secret
                       /\ NewOtp(r) \notin used
  <2>1. CASE Keeps(r)
    BY <2>1 DEF Keeps
  <2>2. CASE StoresFresh(r)
    BY <1>1, <1>2, <1>3, <1>7, <1>8, <2>2 DEF StoresFresh
  <2>3. CASE Accepts(r)
    BY <1>1, <1>2, <1>3, <1>6, <1>8, <2>3 DEF Accepts, Stores
  <2> QED
    BY <2>1, <2>2, <2>3
<1>11. ASSUME NEW p \in Requests, req'[p] # None PROVE CodeWritten(req[p])'
  <2>1. CASE p = q
    <3>1. req'[p] = r
      BY <1>5, <2>1
    <3> QED
      BY <1>6, <1>10, <3>1 DEF CodeWritten, Stores, NewOtp
  <2>2. CASE p # q
    <3>1. req'[p] = req[p]
      BY <1>5, <2>2
    <3> QED
      BY <1>1, <1>2, <1>4, <1>6, <1>11, <3>1 DEF CodeWritten, Stores, NewOtp
  <2> QED
    BY <2>1, <2>2
<1>12. CodesApart'
  <2> SUFFICES ASSUME NEW p \in Requests, NEW o \in Requests,
                      p # o, req'[p] # None, req'[o] # None, Stores(req'[p])
               PROVE  /\ NewOtp(req'[p]) # req'[o].code
                      /\ Stores(req'[o]) => NewOtp(req'[p]) # NewOtp(req'[o])
    BY DEF CodesApart, Stores, NewOtp
  <2>1. CASE p = q
    BY <1>5, <1>9, <2>1
  <2>2. CASE o = q
    BY <1>5, <1>9, <2>2
  <2>3. CASE p # q /\ o # q
    BY <1>5, <2>3 DEF CodeInv, CodesApart
  <2> QED
    BY <2>1, <2>2, <2>3
<1>13. (row.two_factor_otp_secret # None => row.two_factor_otp_secret <= made.codes)'
  BY <1>1, <1>2, <1>3, <1>6, <1>8
<1>14. (\A c \in used : c <= made.codes)'
  BY <1>1, <1>2, <1>6, <1>7
<1> QED
  BY <1>6, <1>8, <1>11, <1>12, <1>13, <1>14 DEF CodeInv, CodeDiesWithUse

\* The row new, made of the current row, does not enable TOTP: it changes
\* enabled and method together, and brings no new secret.
Plain(new) ==
  /\ Sound(new)
  /\ new.two_factor_enabled = row.two_factor_enabled
       => new.two_factor_method = row.two_factor_method
  /\ new.two_factor_method # row.two_factor_method => new.two_factor_method # "totp"
  /\ new.two_factor_secret \in {None, row.two_factor_secret}
  /\ new.two_factor_secret # row.two_factor_secret
       => new.two_factor_method # row.two_factor_method

\* A request that does not enable TOTP joins.
LEMMA AdmitPlain ==
  ASSUME TypeOK, TypeOK', WriteInv, NEW q \in Requests, NEW r, Admits(q, r), Plain(r.new),
         Keeps(r) \/ StoresFresh(r) \/ Accepts(r)
  PROVE  WriteInv'
<1>1. r.old = row /\ row \in Row
  BY DEF Admits, TypeOK
<1>2. PairWritten(r)
  BY <1>1 DEF WriteInv, PairInv, PairWritten, Plain
<1>3. row.two_factor_secret # None => sent'[row.two_factor_secret] > 0
  <2>1. SecretSent(row)
    BY DEF WriteInv, SecretInv
  <2> QED
    BY <1>1, <2>1 DEF SecretSent, Admits, TypeOK, Row
<1>4. SecretWritten(r)'
  BY <1>1, <1>3 DEF SecretWritten, SecretSent, Plain
<1> QED
  BY <1>2, <1>4, AdmitPair, AdmitSecret, AdmitCode DEF WriteInv

\* Sending a fresh code, at a login or for a setup or removal.
LEMMA NewCodeInv ==
  ASSUME TypeOK, TypeOK', WriteInv, NEW q \in Requests, CanBegin(q),
         NEW hands \in BOOLEAN, NewCode(q, hands)
  PROVE  WriteInv'
<1> DEFINE new == [row EXCEPT !.two_factor_otp_secret = made.codes + 1]
<1>1. PICK r : r = [Change(new) EXCEPT !.hands = hands]
  OBVIOUS
<1>2. made.codes + 1 \in Codes /\ made'.codes = made.codes + 1 /\ made.codes \in Nat
  BY CredentialsAssumption DEF CredentialsAssumption, TypeOK, NewCode, Codes
<1>3. new \in Row /\ row \in Row
  BY <1>2 DEF TypeOK, Row
<1>4. Change(new) \in Pending /\ Change(new).old = row /\ Change(new).new = new
      /\ Change(new).code = None
  BY <1>3, ChangeType
<1>5. r \in Pending /\ r.old = row /\ r.new = new /\ r.code = None
  BY <1>1, <1>4 DEF Pending
<1>6. Admits(q, r)
  BY <1>1, <1>2, <1>5 DEF Admits, NewCode, CanBegin, TypeOK
<1>7. StoresFresh(r)
  BY <1>2, <1>3, <1>5 DEF StoresFresh, NewOtp, Row
<1>8. Plain(r.new)
  BY <1>3, <1>5 DEF Plain, Sound, WriteInv, PairInv, Row
<1> QED
  BY <1>6, <1>7, <1>8, AdmitPlain

\* Accepting the stored code.
LEMMA AcceptCodeInv ==
  ASSUME TypeOK, TypeOK', WriteInv, NEW q \in Requests, CanBegin(q),
         NEW new \in Row, new.two_factor_otp_secret = None, Plain(new), AcceptCode(q, new)
  PROVE  WriteInv'
<1>1. PICK r : r = [Change(new) EXCEPT !.code = row.two_factor_otp_secret]
  OBVIOUS
<1>2. row \in Row
  BY DEF TypeOK
<1>3. Change(new) \in Pending /\ Change(new).old = row /\ Change(new).new = new
  BY <1>2, ChangeType
<1>4. r \in Pending /\ r.old = row /\ r.new = new /\ r.code = row.two_factor_otp_secret
  BY <1>1, <1>2, <1>3 DEF Pending, Row
<1>5. Admits(q, r)
  BY <1>1, <1>4 DEF Admits, AcceptCode, CanBegin, TypeOK
<1>6. Accepts(r)
  BY <1>4 DEF Accepts, NewOtp, AcceptCode
<1> QED
  BY <1>4, <1>5, <1>6, AdmitPlain

\* A request that neither accepts nor stores a code, and may remove it.
LEMMA ChangeInv ==
  ASSUME TypeOK, TypeOK', WriteInv, NEW q \in Requests, req[q] = None,
         NEW new \in Row, new.two_factor_otp_secret \in {None, row.two_factor_otp_secret},
         Plain(new), NEW r \in Pending, r.old = row, r.new = new, r.code = None,
         req' = [req EXCEPT ![q] = r], UNCHANGED <<row, used, sent>>,
         made'.codes = made.codes
  PROVE  WriteInv'
<1>1. Admits(q, r)
  BY DEF Admits, TypeOK
<1>2. Keeps(r)
  BY DEF Keeps, Stores, NewOtp
<1> QED
  BY <1>1, <1>2, AdmitPlain

\* The rows that the endpoints make, other than enabling TOTP, are plain.
LEMMA PlainRows ==
  ASSUME row \in Row, Sound(row)
  PROVE  /\ Plain(row)
         /\ Plain([row EXCEPT !.two_factor_otp_secret = None])
         /\ \A h \in 1..MaxHashes : Plain([row EXCEPT !.password_hash = h])
         /\ ~row.two_factor_enabled =>
              Plain([row EXCEPT !.two_factor_enabled = TRUE, !.two_factor_method = "email",
                                !.two_factor_secret = None, !.two_factor_otp_secret = None])
         /\ row.two_factor_enabled =>
              Plain([row EXCEPT !.two_factor_enabled = FALSE, !.two_factor_method = None,
                                !.two_factor_secret = None, !.two_factor_otp_secret = None])
BY CredentialsAssumption DEF CredentialsAssumption, Plain, Sound, Row

\* Enabling TOTP with a secret that the browser sends back.
LEMMA EnableTotpInv ==
  ASSUME TypeOK, TypeOK', WriteInv, NEW q \in Requests, CanBegin(q), ~row.two_factor_enabled,
         NEW s \in Secrets,
         req' = [req EXCEPT ![q] = Change(
           [row EXCEPT !.two_factor_enabled = TRUE, !.two_factor_method = "totp",
                       !.two_factor_secret = s, !.two_factor_otp_secret = None])],
         sent' = [sent EXCEPT ![s] = IF @ = 0 THEN 1 ELSE 2],
         UNCHANGED <<row, made, used>>
  PROVE  WriteInv'
<1> DEFINE new == [row EXCEPT !.two_factor_enabled = TRUE, !.two_factor_method = "totp",
                              !.two_factor_secret = s, !.two_factor_otp_secret = None]
<1>1. PICK r : r = Change(new)
  OBVIOUS
<1>2. row \in Row /\ new \in Row
  BY RowTypes DEF TypeOK
<1>3. r \in Pending /\ r.old = row /\ r.new = new /\ r.code = None
  BY <1>1, <1>2, ChangeType
<1>4. Sound(row) /\ SecretSent(row)
  BY DEF WriteInv, PairInv, SecretInv
<1>5. \A x \in Secrets : sent'[x] >= sent[x] /\ sent[x] \in 0..2 /\ sent'[x] \in 0..2
  BY DEF TypeOK
<1>6. Admits(q, r)
  BY <1>1, <1>3, <1>5 DEF Admits, CanBegin, TypeOK
<1>7. PairWritten(r)
  BY <1>2, <1>3, <1>4, CredentialsAssumption
     DEF CredentialsAssumption, PairWritten, Sound, Row
<1>8. SecretWritten(r)'
  <2>1. sent'[s] > 0
    BY DEF TypeOK
  <2>2. SentOnce' => row.two_factor_secret # s
    <3> SUFFICES ASSUME row.two_factor_secret = s, SentOnce' PROVE FALSE
      OBVIOUS
    <3>1. sent[s] > 0
      BY <1>4, CredentialsAssumption DEF CredentialsAssumption, SecretSent
    <3>2. sent'[s] = 2
      BY <3>1 DEF TypeOK
    <3> QED
      BY <3>2 DEF SentOnce
  <2>3. row.two_factor_secret # None => sent'[row.two_factor_secret] > 0
    BY <1>2, <1>4, <1>5 DEF SecretSent, Row
  <2>4. new.two_factor_secret = s /\ s # None /\ new.two_factor_method = "totp"
    BY <1>2, CredentialsAssumption DEF CredentialsAssumption, Row
  <2> QED
    BY <1>3, <2>1, <2>2, <2>3, <2>4 DEF SecretWritten, SecretSent
<1>9. Keeps(r)
  BY <1>2, <1>3 DEF Keeps, Stores, NewOtp, Row
<1> QED
  BY <1>6, <1>7, <1>8, <1>9, AdmitPair, AdmitSecret, AdmitCode DEF WriteInv

-----------------------------------------------------------------------------
(***************************************************************************)
(* The commit: the columns a request has changed, over the current row.    *)
(***************************************************************************)

\* A commit keeps the invariant.
LEMMA CommitInv ==
  ASSUME TypeOK, TypeOK', WriteInv, NEW q \in Requests, Commit(q)
  PROVE  WriteInv'
<1> DEFINE r == req[q]
<1>1. r # None /\ r \in Pending /\ r.old \in Row /\ r.new \in Row /\ row \in Row
  BY DEF TypeOK, Commit, Pending
<1>2. PairWritten(r) /\ SecretWritten(r) /\ CodeWritten(r)
  BY <1>1 DEF WriteInv, PairInv, SecretInv, CodeInv
<1>3. \A c \in {"password_hash", "two_factor_enabled", "two_factor_method",
                "two_factor_secret", "two_factor_otp_secret"} :
        row'[c] = IF r.new[c] # r.old[c] THEN r.new[c] ELSE row[c]
  <2>1. CASE r.new # r.old
    BY <1>1, <2>1, MergeType DEF Commit
  <2>2. CASE r.new = r.old
    BY <2>2 DEF Commit
  <2> QED
    BY <2>1, <2>2
<1>4. /\ row'.two_factor_enabled = IF r.new.two_factor_enabled # r.old.two_factor_enabled
                                   THEN r.new.two_factor_enabled ELSE row.two_factor_enabled
      /\ row'.two_factor_method = IF r.new.two_factor_method # r.old.two_factor_method
                                  THEN r.new.two_factor_method ELSE row.two_factor_method
      /\ row'.two_factor_secret = IF r.new.two_factor_secret # r.old.two_factor_secret
                                  THEN r.new.two_factor_secret ELSE row.two_factor_secret
      /\ row'.two_factor_otp_secret = IF r.new.two_factor_otp_secret # r.old.two_factor_otp_secret
                                      THEN r.new.two_factor_otp_secret
                                      ELSE row.two_factor_otp_secret
  BY <1>1, <1>3 DEF Row
<1>5. sent' = sent /\ made' = made /\ \A p \in Requests : req'[p] = IF p = q THEN None ELSE req[p]
  BY DEF Commit, TypeOK
<1>6. SentOnce' <=> SentOnce
  BY <1>5 DEF SentOnce
<1>7. PairInv'
  <2>1. Sound(row) /\ row.two_factor_enabled \in BOOLEAN
    BY <1>1 DEF WriteInv, PairInv, Row
  <2>2. Sound(row)'
    BY <1>1, <1>2, <1>4, <2>1 DEF PairWritten, Sound, Row
  <2>3. ASSUME NEW p \in Requests, req'[p] # None PROVE PairWritten(req[p])'
    BY <1>5, <2>3 DEF WriteInv, PairInv, PairWritten, Sound
  <2> QED
    BY <2>2, <2>3 DEF PairInv
<1>8. SecretInv'
  <2>1. SecretSent(row)'
    BY <1>1, <1>2, <1>4, <1>5 DEF WriteInv, SecretInv, SecretWritten, SecretSent
  <2>2. (row.two_factor_method = "totp" /\ SentOnce => row.two_factor_secret # None)'
    BY <1>2, <1>4, <1>6 DEF WriteInv, SecretInv, SecretWritten
  <2>3. ASSUME NEW p \in Requests, req'[p] # None PROVE SecretWritten(req[p])'
    <3>1. req'[p] = req[p] /\ SecretWritten(req[p])
      BY <1>5, <2>3 DEF WriteInv, SecretInv
    <3> QED
      BY <1>5, <1>6, <3>1 DEF SecretWritten, SecretSent
  <2> QED
    BY <2>1, <2>2, <2>3 DEF SecretInv
<1>9. CodeInv'
  <2>1. used' = IF r.code = None THEN used ELSE used \cup {r.code}
    BY DEF Commit
  <2>2. row.two_factor_otp_secret \notin used /\ NewOtp(r) = r.new.two_factor_otp_secret
    BY DEF WriteInv, CodeInv, CodeDiesWithUse, NewOtp
  <2>3. None \notin used
    <3>1. \A c \in Codes : c \in Nat
      BY CredentialsAssumption DEF CredentialsAssumption, Codes
    <3> QED
      BY <3>1, CredentialsAssumption DEF CredentialsAssumption, TypeOK
  <2>4. row'.two_factor_otp_secret \notin used'
    BY <1>2, <1>4, <2>1, <2>2, <2>3 DEF CodeWritten, Stores
  <2>5. row'.two_factor_otp_secret # None => row'.two_factor_otp_secret <= made'.codes
    BY <1>2, <1>4, <1>5, <2>2 DEF WriteInv, CodeInv, CodeWritten, Stores
  <2>6. \A c \in used' : c <= made'.codes
    BY <1>2, <1>5, <2>1 DEF WriteInv, CodeInv, CodeWritten
  <2>7. ASSUME NEW p \in Requests, req'[p] # None PROVE CodeWritten(req[p])'
    <3>1. p # q /\ req'[p] = req[p] /\ req[p] # None /\ CodeWritten(req[p])
      BY <1>5, <2>7 DEF WriteInv, CodeInv
    <3>2. Stores(req[p]) => /\ NewOtp(req[p]) # row'.two_factor_otp_secret
                            /\ NewOtp(req[p]) \notin used'
      <4>1. Stores(req[p]) => /\ NewOtp(req[p]) # r.code
                              /\ Stores(r) => NewOtp(req[p]) # NewOtp(r)
        BY <1>1, <3>1 DEF WriteInv, CodeInv, CodesApart
      <4>2. Stores(req[p]) => NewOtp(req[p]) # None
        BY DEF Stores
      <4> QED
        BY <1>4, <2>1, <2>2, <3>1, <4>1, <4>2 DEF CodeWritten, Stores
    <3> QED
      BY <1>5, <3>1, <3>2 DEF CodeWritten, Stores, NewOtp
  <2>8. CodesApart'
    BY <1>5 DEF WriteInv, CodeInv, CodesApart, Stores, NewOtp
  <2> QED
    BY <2>4, <2>5, <2>6, <2>7, <2>8 DEF CodeInv, CodeDiesWithUse
<1> QED
  BY <1>7, <1>8, <1>9 DEF WriteInv

-----------------------------------------------------------------------------
\* Steps that leave the row, the requests and the counters alone.
LEMMA UntouchedInv ==
  ASSUME WriteInv, UNCHANGED <<row, req, made, sent, used>>
  PROVE  WriteInv'
BY DEF WriteInv, PairInv, PairWritten, Sound, SecretInv, SecretWritten, SecretSent, SentOnce,
       CodeInv, CodeDiesWithUse, CodeWritten, CodesApart, Stores, NewOtp

\* Every step of a request keeps the invariant.
LEMMA StepInv ==
  ASSUME TypeOK, TypeOK', WriteInv, NEW q \in Requests, Step(q)
  PROVE  WriteInv'
<1>0. row \in Row /\ Sound(row)
  BY DEF TypeOK, WriteInv, PairInv
<1>1. CASE login(q)
  <2>1. CASE row.two_factor_method = "email"
    BY <1>1, <2>1, NewCodeInv DEF login
  <2>2. CASE row.two_factor_method # "email"
    BY <1>1, <2>2, UntouchedInv DEF login
  <2> QED
    BY <2>1, <2>2
<1>2. CASE login_2fa(q)
  <2> DEFINE new == [row EXCEPT !.two_factor_otp_secret = None]
  <2>1. new \in Row /\ new.two_factor_otp_secret = None /\ Plain(new)
    BY <1>0, RowTypes, PlainRows DEF Row
  <2> QED
    BY <1>2, <2>1, AcceptCodeInv DEF login_2fa
<1>3. CASE forgot_password(q)
  <2>1. PICK r : r = [Change(row) EXCEPT !.drop = tokens, !.add = made.tokens + 1]
    OBVIOUS
  <2>2. Change(row) \in Pending /\ Change(row).old = row /\ Change(row).new = row
        /\ Change(row).code = None
    BY <1>0, ChangeType
  <2>3. tokens \in SUBSET Tokens /\ made.tokens + 1 \in Tokens
    BY <1>3, CredentialsAssumption DEF CredentialsAssumption, TypeOK, Tokens, forgot_password
  <2>4. r \in Pending /\ r.old = row /\ r.new = row /\ r.code = None
    BY <2>1, <2>2, <2>3 DEF Pending
  <2>5. req[q] = None /\ req' = [req EXCEPT ![q] = r] /\ UNCHANGED <<row, used, sent>>
        /\ made'.codes = made.codes
    BY <1>3, <2>1 DEF forgot_password, CanBegin, TypeOK
  <2> QED
    BY <1>0, <2>4, <2>5, PlainRows, ChangeInv
<1>4. CASE reset_password(q)
  <2>1. PICK t \in tokens : reset_password(q)!2!(t)
    BY <1>4 DEF reset_password
  <2>2. t \in Tokens
    BY DEF TypeOK
  <2>3. req[q] = None /\ UNCHANGED <<row, used, sent>>
    BY <1>4 DEF reset_password
  <2>4. CASE here /\ t \notin expired
    <3> DEFINE new == [row EXCEPT !.password_hash = made.hashes + 1]
    <3>1. PICK r : r = [Change(new) EXCEPT !.drop = {t}]
      OBVIOUS
    <3>2. made.hashes + 1 \in 1..MaxHashes
      BY <2>1, <2>4, CredentialsAssumption DEF CredentialsAssumption, TypeOK
    <3>3. new \in Row /\ Plain(new) /\ new.two_factor_otp_secret = row.two_factor_otp_secret
      BY <1>0, <3>2, RowTypes, PlainRows DEF Row
    <3>4. Change(new) \in Pending /\ Change(new).old = row /\ Change(new).new = new
          /\ Change(new).code = None
      BY <1>0, <3>3, ChangeType
    <3>5. r \in Pending /\ r.old = row /\ r.new = new /\ r.code = None
      BY <2>2, <3>1, <3>4 DEF Pending
    <3>6. req' = [req EXCEPT ![q] = r] /\ made'.codes = made.codes
      BY <2>1, <2>4, <3>1 DEF TypeOK
    <3> QED
      BY <2>3, <3>3, <3>5, <3>6, ChangeInv
  <2>5. CASE ~(here /\ t \notin expired)
    <3>1. PICK r : r = [Change(row) EXCEPT !.drop = {t}]
      OBVIOUS
    <3>2. Change(row) \in Pending /\ Change(row).old = row /\ Change(row).new = row
          /\ Change(row).code = None
      BY <1>0, ChangeType
    <3>3. r \in Pending /\ r.old = row /\ r.new = row /\ r.code = None
      BY <2>2, <3>1, <3>2 DEF Pending
    <3>4. req' = [req EXCEPT ![q] = r] /\ made'.codes = made.codes
      BY <2>1, <2>5, <3>1
    <3> QED
      BY <1>0, <2>3, <3>3, <3>4, PlainRows, ChangeInv
  <2> QED
    BY <2>4, <2>5
<1>5. CASE change_password(q)
  <2> DEFINE new == [row EXCEPT !.password_hash = made.hashes + 1]
  <2>1. made.hashes + 1 \in 1..MaxHashes
    BY <1>5, CredentialsAssumption DEF CredentialsAssumption, TypeOK, change_password
  <2>2. new \in Row /\ Plain(new) /\ new.two_factor_otp_secret = row.two_factor_otp_secret
    BY <1>0, <2>1, RowTypes, PlainRows DEF Row
  <2>3. Change(new) \in Pending /\ Change(new).old = row /\ Change(new).new = new
        /\ Change(new).code = None
    BY <1>0, <2>2, ChangeType
  <2>4. req[q] = None /\ req' = [req EXCEPT ![q] = Change(new)] /\ UNCHANGED <<row, used, sent>>
        /\ made'.codes = made.codes
    BY <1>5 DEF change_password, CanBegin, TypeOK
  <2> QED
    BY <2>2, <2>3, <2>4, ChangeInv
<1>6. CASE setup_2fa(q)
  BY <1>6, NewCodeInv DEF setup_2fa
<1>7. CASE verify_2fa(q)
  <2> DEFINE enabled(m, s) ==
        [row EXCEPT !.two_factor_enabled = TRUE, !.two_factor_method = m,
                    !.two_factor_secret = s, !.two_factor_otp_secret = None]
             cleared == [row EXCEPT !.two_factor_otp_secret = None]
  <2>0. CanBegin(q) /\ ~row.two_factor_enabled
    BY <1>7 DEF verify_2fa
  <2>1. CASE \E s \in Secrets :
               /\ req' = [req EXCEPT ![q] = Change(enabled("totp", s))]
               /\ sent' = [sent EXCEPT ![s] = IF @ = 0 THEN 1 ELSE 2]
               /\ UNCHANGED <<row, made, used>>
    BY <2>0, <2>1, EnableTotpInv
  <2>2. CASE AcceptCode(q, enabled("email", None))
    <3>1. enabled("email", None) \in Row /\ Plain(enabled("email", None))
          /\ enabled("email", None).two_factor_otp_secret = None
      BY <1>0, <2>0, RowTypes, PlainRows DEF Row
    <3> QED
      BY <2>0, <2>2, <3>1, AcceptCodeInv
  <2>3. CASE /\ req' = [req EXCEPT ![q] = Change(cleared)]
             /\ UNCHANGED <<row, used, sent, made>>
    <3>1. cleared \in Row /\ Plain(cleared) /\ cleared.two_factor_otp_secret = None
      BY <1>0, RowTypes, PlainRows DEF Row
    <3>2. Change(cleared) \in Pending /\ Change(cleared).old = row
          /\ Change(cleared).new = cleared /\ Change(cleared).code = None
      BY <1>0, <3>1, ChangeType
    <3> QED
      BY <2>0, <2>3, <3>1, <3>2, ChangeInv DEF CanBegin
  <2> QED
    BY <1>7, <2>1, <2>2, <2>3 DEF verify_2fa
<1>8. CASE disable_2fa(q)
  <2> DEFINE disabled ==
        [row EXCEPT !.two_factor_enabled = FALSE, !.two_factor_method = None,
                    !.two_factor_secret = None, !.two_factor_otp_secret = None]
  <2>0. CanBegin(q) /\ row.two_factor_enabled
    BY <1>8 DEF disable_2fa
  <2>1. disabled \in Row /\ Plain(disabled) /\ disabled.two_factor_otp_secret = None
    BY <1>0, <2>0, RowTypes, PlainRows DEF Row
  <2>2. CASE NewCode(q, FALSE)
    BY <2>0, <2>2, NewCodeInv
  <2>3. CASE AcceptCode(q, disabled)
    BY <2>0, <2>1, <2>3, AcceptCodeInv
  <2>4. CASE /\ req' = [req EXCEPT ![q] = Change(disabled)]
             /\ UNCHANGED <<row, used, sent, made>>
    <3>1. Change(disabled) \in Pending /\ Change(disabled).old = row
          /\ Change(disabled).new = disabled /\ Change(disabled).code = None
      BY <1>0, <2>1, ChangeType
    <3> QED
      BY <2>0, <2>1, <2>4, <3>1, ChangeInv DEF CanBegin
  <2> QED
    BY <1>8, <2>2, <2>3, <2>4 DEF disable_2fa
<1>9. CASE Commit(q)
  BY <1>9, CommitInv
<1>10. CASE Rollback(q)
  <2>1. \A p \in Requests : req'[p] # None => req'[p] = req[p]
    BY <1>10 DEF Rollback, TypeOK
  <2> QED
    BY <1>10, <2>1 DEF Rollback, WriteInv, PairInv, PairWritten, Sound, SecretInv, SecretWritten,
       SecretSent, SentOnce, CodeInv, CodeDiesWithUse, CodeWritten, CodesApart, Stores, NewOtp
<1> QED
  BY <1>1, <1>2, <1>3, <1>4, <1>5, <1>6, <1>7, <1>8, <1>9, <1>10 DEF Step

-----------------------------------------------------------------------------
(***************************************************************************)
(* Reset links.                                                            *)
(***************************************************************************)

\* A request that adds no token joins.
LEMMA NoLinkAdded ==
  ASSUME TypeOK, LinkInv, NEW q \in Requests, NEW r, r.add = None,
         req' = [req EXCEPT ![q] = r], UNCHANGED <<tokens, crossed, doubled>>
  PROVE  LinkInv'
<1>1. \A p \in Requests : Adds(p)' => p # q /\ Adds(p) /\ req'[p] = req[p]
  BY DEF Adds, TypeOK
<1> QED
  BY <1>1 DEF LinkInv

\* Requests that change something else add no token.
LEMMA ChangeAddsNone == ASSUME NEW new PROVE Change(new).add = None
BY DEF Change

\* Every step of a request keeps the invariant of the links.
LEMMA StepLinks ==
  ASSUME TypeOK, LinkInv, NEW q \in Requests, Step(q)
  PROVE  LinkInv'
<1>1. ASSUME NewCode(q, TRUE) \/ NewCode(q, FALSE) PROVE LinkInv'
  <2>1. PICK hands \in BOOLEAN : NewCode(q, hands)
    BY <1>1
  <2> DEFINE r == [Change([row EXCEPT !.two_factor_otp_secret = made.codes + 1]) EXCEPT
                     !.hands = hands]
  <2>2. r.add = None
    BY DEF Change
  <2> QED
    BY <2>1, <2>2, NoLinkAdded DEF NewCode
<1>2. ASSUME NEW new, AcceptCode(q, new) PROVE LinkInv'
  <2> DEFINE r == [Change(new) EXCEPT !.code = row.two_factor_otp_secret]
  <2>1. r.add = None
    BY DEF Change
  <2> QED
    BY <1>2, <2>1, NoLinkAdded DEF AcceptCode
<1>3. ASSUME NEW new, req' = [req EXCEPT ![q] = Change(new)], UNCHANGED <<tokens, crossed, doubled>>
      PROVE  LinkInv'
  BY <1>3, ChangeAddsNone, NoLinkAdded
<1>4. CASE login(q)
  <2>1. CASE row.two_factor_method = "email"
    BY <1>1, <1>4, <2>1 DEF login
  <2>2. CASE row.two_factor_method # "email"
    BY <1>4, <2>2 DEF login, LinkInv, Adds
  <2> QED
    BY <2>1, <2>2
<1>5. CASE login_2fa(q)
  BY <1>2, <1>5 DEF login_2fa
<1>6. CASE forgot_password(q)
  <2> DEFINE r == [Change(row) EXCEPT !.drop = tokens, !.add = made.tokens + 1]
             others == {p \in Requests : req[p] # None /\ req[p].add # None}
  <2>1. r.drop = tokens
    BY DEF Change
  <2>2. req[q] = None /\ \A p \in Requests : req'[p] = IF p = q THEN r ELSE req[p]
    BY <1>6 DEF forgot_password, CanBegin, TypeOK
  <2>3. tokens' = tokens /\ doubled' = doubled
    BY <1>6 DEF forgot_password
  <2>4. crossed' = IF others = {} THEN crossed ELSE crossed \cup others \cup {q}
    BY <1>6 DEF forgot_password
  <2>5. \A p \in Requests : p # q => (Adds(p)' <=> Adds(p)) /\ (Adds(p) => p \in others)
    BY <2>2 DEF Adds
  <2>6. ASSUME NEW p \in Requests, Adds(p)', p \notin crossed'
        PROVE  tokens' \subseteq req'[p].drop
    BY <2>1, <2>2, <2>3, <2>4, <2>5, <2>6 DEF LinkInv
  <2>7. ASSUME NEW p \in Requests, NEW o \in Requests, p # o, Adds(p)', Adds(o)'
        PROVE  o \in crossed'
    BY <2>4, <2>5, <2>7 DEF LinkInv
  <2> QED
    BY <2>3, <2>6, <2>7 DEF LinkInv
<1>7. CASE reset_password(q)
  <2>1. PICK t \in tokens : reset_password(q)!2!(t)
    BY <1>7 DEF reset_password
  <2>2. UNCHANGED <<tokens, crossed, doubled>>
    BY <1>7 DEF reset_password
  <2>3. CASE here /\ t \notin expired
    <3> DEFINE r == [Change([row EXCEPT !.password_hash = made.hashes + 1]) EXCEPT !.drop = {t}]
    <3>1. r.add = None
      BY DEF Change
    <3> QED
      BY <2>1, <2>2, <2>3, <3>1, NoLinkAdded
  <2>4. CASE ~(here /\ t \notin expired)
    <3> DEFINE r == [Change(row) EXCEPT !.drop = {t}]
    <3>1. r.add = None
      BY DEF Change
    <3> QED
      BY <2>1, <2>2, <2>4, <3>1, NoLinkAdded
  <2> QED
    BY <2>3, <2>4
<1>8. CASE change_password(q)
  BY <1>3, <1>8 DEF change_password
<1>9. CASE setup_2fa(q)
  BY <1>1, <1>9 DEF setup_2fa
<1>10. CASE verify_2fa(q)
  BY <1>2, <1>3, <1>10 DEF verify_2fa
<1>11. CASE disable_2fa(q)
  BY <1>1, <1>2, <1>3, <1>11 DEF disable_2fa
<1>12. CASE Commit(q)
  <2> DEFINE r == req[q]
  <2>1. /\ r # None
        /\ tokens' = (tokens \ r.drop) \cup (IF r.add = None THEN {} ELSE {r.add})
        /\ doubled' = ((r.add = None /\ doubled) \/ (r.add # None /\ q \in crossed))
        /\ crossed' = crossed \ {q}
    BY <1>12 DEF Commit
  <2>2. \A p \in Requests : Adds(p)' => p # q /\ Adds(p) /\ req'[p] = req[p]
    BY <1>12 DEF Commit, Adds, TypeOK
  <2>3. doubled' \/ \A x, y \in tokens' : x = y
    <3>1. CASE r.add = None
      BY <2>1, <3>1 DEF LinkInv
    <3>2. CASE r.add # None /\ q \in crossed
      BY <2>1, <3>2
    <3>3. CASE r.add # None /\ q \notin crossed
      BY <2>1, <3>3 DEF LinkInv, Adds
    <3> QED
      BY <3>1, <3>2, <3>3
  <2>4. ASSUME NEW p \in Requests, Adds(p)', p \notin crossed'
        PROVE  tokens' \subseteq req'[p].drop
    <3>1. p # q /\ Adds(p) /\ req'[p] = req[p] /\ p \notin crossed
      BY <2>1, <2>2, <2>4
    <3>2. r.add = None
      BY <2>1, <3>1 DEF LinkInv, Adds
    <3> QED
      BY <2>1, <3>1, <3>2 DEF LinkInv
  <2>5. ASSUME NEW p \in Requests, NEW o \in Requests, p # o, Adds(p)', Adds(o)'
        PROVE  o \in crossed'
    BY <2>1, <2>2, <2>5 DEF LinkInv
  <2> QED
    BY <2>3, <2>4, <2>5 DEF LinkInv
<1>13. CASE Rollback(q)
  <2>1. \A p \in Requests : Adds(p)' => p # q /\ Adds(p) /\ req'[p] = req[p]
    BY <1>13 DEF Rollback, Adds, TypeOK
  <2> QED
    BY <1>13, <2>1 DEF Rollback, LinkInv
<1> QED
  BY <1>4, <1>5, <1>6, <1>7, <1>8, <1>9, <1>10, <1>11, <1>12, <1>13 DEF Step

-----------------------------------------------------------------------------
(***************************************************************************)
(* Theorems.                                                               *)
(***************************************************************************)

\* A new account satisfies the invariant.
LEMMA InitInv == Init => CredentialsInv
<1> SUFFICES ASSUME Init PROVE CredentialsInv
  OBVIOUS
<1>1. TypeOK
  BY InitTypes
<1>2. \A q \in Requests : req[q] = None
  BY DEF Init
<1>3. Sound(row) /\ row.two_factor_method = None /\ row.two_factor_secret = None
      /\ row.two_factor_otp_secret = None /\ used = {}
  BY DEF Init, Sound
<1>4. PairInv
  BY <1>2, <1>3 DEF PairInv
<1>5. SecretInv
  BY <1>2, <1>3, CredentialsAssumption DEF CredentialsAssumption, SecretInv, SecretSent
<1>6. CodeInv
  BY <1>2, <1>3 DEF CodeInv, CodeDiesWithUse, CodesApart
<1>7. LinkInv
  BY <1>2 DEF Init, LinkInv, Adds
<1> QED
  BY <1>1, <1>4, <1>5, <1>6, <1>7 DEF CredentialsInv, WriteInv

\* Every step keeps the invariant.
LEMMA NextInv == CredentialsInv /\ [Next]_vars => CredentialsInv'
<1> SUFFICES ASSUME CredentialsInv, [Next]_vars PROVE CredentialsInv'
  OBVIOUS
<1>1. TypeOK'
  BY NextTypes DEF CredentialsInv
<1>2. ASSUME NEW q \in Requests, Step(q) PROVE WriteInv' /\ LinkInv'
  BY <1>1, <1>2, StepInv, StepLinks DEF CredentialsInv
<1>3. CASE UNCHANGED <<row, req, made, sent, used, tokens, crossed, doubled>>
  <2>1. WriteInv'
    BY <1>3, UntouchedInv DEF CredentialsInv
  <2>2. LinkInv'
    BY <1>3 DEF CredentialsInv, LinkInv, Adds
  <2> QED
    BY <1>1, <2>1, <2>2 DEF CredentialsInv
<1> QED
  BY <1>1, <1>2, <1>3 DEF CredentialsInv, Next, delete_user, Expire, vars

\* The invariant holds always.
LEMMA CredentialsInvariant == Spec => []CredentialsInv
BY InitInv, NextInv, PTL DEF Spec

\* The columns of an account, the requests on it and its tokens are well
\* typed, whatever login, reset and second factor requests overlap.
THEOREM CredentialsTypeCorrect == Spec => []TypeOK
<1>1. CredentialsInv => TypeOK
  BY DEF CredentialsInv
<1> QED
  BY <1>1, CredentialsInvariant, PTL

\* An account whose second factor is enabled has one that login_2fa and
\* disable_2fa can check, however verify_2fa and disable_2fa overlap, unless
\* a browser sent the same TOTP secret twice.
THEOREM SecondFactorStaysUsable == Spec => []TwoFactorUsable
<1>1. CredentialsInv => TwoFactorUsable
  BY DEF CredentialsInv, WriteInv, PairInv, SecretInv, Sound, SentOnce, TwoFactorUsable
<1> QED
  BY <1>1, CredentialsInvariant, PTL

\* A one-time code that login_2fa, verify_2fa or disable_2fa has accepted is
\* never the stored code again.
THEOREM UsedCodesAreGone == Spec => []CodeDiesWithUse
<1>1. CredentialsInv => CodeDiesWithUse
  BY DEF CredentialsInv, WriteInv, CodeInv
<1> QED
  BY <1>1, CredentialsInvariant, PTL

\* An account has one reset link at most, unless the latest one was made by
\* a forgot_password that overlapped another.
THEOREM ResetLinksReplaced == Spec => []OneResetLink
<1>1. ASSUME CredentialsInv PROVE OneResetLink
  <2> SUFFICES ASSUME ~doubled PROVE ~(Cardinality(tokens) > 1)
    BY DEF OneResetLink
  <2>1. \A x, y \in tokens : x = y
    BY <1>1 DEF CredentialsInv, LinkInv
  <2>2. CASE tokens = {}
    <3>1. Cardinality(tokens) = 0
      BY <2>2, FS_EmptySet
    <3> QED
      BY <3>1
  <2>3. CASE tokens # {}
    <3>1. PICK x : tokens = {x}
      BY <2>1, <2>3
    <3>2. Cardinality(tokens) = 1
      BY <3>1, FS_Singleton
    <3> QED
      BY <3>2
  <2> QED
    BY <2>2, <2>3
<1> QED
  BY <1>1, CredentialsInvariant, PTL
=============================================================================
