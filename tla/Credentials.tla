---------------------------- MODULE Credentials ----------------------------
(***************************************************************************)
(* The credentials of one account: password, second factor, one-time       *)
(* codes and password reset links (api/auth.py, api/users.py).             *)
(*                                                                         *)
(* Every request reads the account's row, decides on what it has read, and *)
(* commits later.  SQLAlchemy writes only the columns whose value the      *)
(* request has changed, and PostgreSQL runs at READ COMMITTED, so requests *)
(* that overlap are merged column by column.  A request that changes       *)
(* nothing (a wrong code, a refused request, a login without second        *)
(* factor) has no step.                                                    *)
(***************************************************************************)
EXTENDS Naturals, FiniteSets

CONSTANTS
  Requests,    \* requests that may be under way at the same time
  Secrets,     \* TOTP secrets, chosen by setup_2fa and sent back by browsers
  None,
  MaxHashes,   \* bound: password hashes made
  MaxCodes,    \* bound: one-time codes made
  MaxTokens    \* bound: reset tokens made

ASSUME CredentialsAssumption ==
  /\ None \notin Secrets
  /\ None \notin Nat
  /\ None \notin {"totp", "email"}
  /\ MaxHashes \in Nat \ {0}
  /\ MaxCodes \in Nat
  /\ MaxTokens \in Nat

VARIABLES
  row,       \* the columns of the account in the table users
  here,      \* the row exists
  req,       \* per request: what it has read and will commit, or None
  tokens,    \* the account's rows in password_reset_tokens
  late,      \* two_factor_otp_expires_at has passed
  expired,   \* reset tokens that are past their time
  mfa,       \* a browser holds an unexpired token of an mfa handshake
  made,      \* hashes, codes and tokens made so far: values never repeat
  sent,      \* history: how often a TOTP secret was sent to verify_2fa
  used,      \* history: codes whose acceptance was committed
  crossed,   \* history: requests for a link that overlapped another one
  doubled    \* history: the latest link was made by such a request

vars == <<row, here, req, tokens, late, expired, mfa, made, sent, used, crossed, doubled>>

Codes == 1..MaxCodes
Tokens == 1..MaxTokens

Row == [password_hash : 1..MaxHashes,
        two_factor_enabled : BOOLEAN,
        two_factor_method : {"totp", "email", None},
        two_factor_secret : Secrets \cup {None},
        two_factor_otp_secret : Codes \cup {None}]

\* A request between its reads and its commit: the row it has read, the row
\* as it has changed it, the code it has accepted, the reset tokens it
\* deletes and the one it adds, the handshake it answers with.
Pending == [old : Row, new : Row, code : Codes \cup {None},
            drop : SUBSET Tokens, add : Tokens \cup {None}, hands : BOOLEAN]

TypeOK ==
  /\ row \in Row
  /\ here \in BOOLEAN
  /\ req \in [Requests -> Pending \cup {None}]
  /\ tokens \subseteq Tokens
  /\ late \in BOOLEAN
  /\ expired \subseteq tokens
  /\ mfa \in BOOLEAN
  /\ made \in [hashes : 1..MaxHashes, codes : 0..MaxCodes, tokens : 0..MaxTokens]
  /\ sent \in [Secrets -> 0..2]
  /\ used \subseteq Codes
  /\ crossed \subseteq Requests
  /\ doubled \in BOOLEAN

Init ==
  /\ row = [password_hash |-> 1, two_factor_enabled |-> FALSE,
            two_factor_method |-> None, two_factor_secret |-> None,
            two_factor_otp_secret |-> None]
  /\ here = TRUE
  /\ req = [q \in Requests |-> None]
  /\ tokens = {}
  /\ late = FALSE
  /\ expired = {}
  /\ mfa = FALSE
  /\ made = [hashes |-> 1, codes |-> 0, tokens |-> 0]
  /\ sent = [s \in Secrets |-> 0]
  /\ used = {}
  /\ crossed = {}
  /\ doubled = FALSE

-----------------------------------------------------------------------------
(***************************************************************************)
(* The unit of work.                                                       *)
(***************************************************************************)

\* Mutant of Merge: the whole row that was read is written back.
MergeWholeRow(current, old, new) == new

\* What an UPDATE of the changed columns makes of the current row.
Merge(current, old, new) ==
  [c \in DOMAIN current |-> IF new[c] # old[c] THEN new[c] ELSE current[c]]

\* A request has read the row and will commit the row new.
Change(new) ==
  [old |-> row, new |-> new, code |-> None, drop |-> {}, add |-> None, hands |-> FALSE]

\* get_current_user, or the select of the account by its email or id.
CanBegin(q) == here /\ req[q] = None

\* Mutant of NewCode: the counter is stored before it is incremented.
NewCodeEarly(q, hands) ==
  /\ made.codes < MaxCodes
  /\ made' = [made EXCEPT !.codes = @ + 1]
  /\ req' = [req EXCEPT ![q] =
       [Change([row EXCEPT !.two_factor_otp_secret = made.codes]) EXCEPT
          !.hands = hands]]
  /\ UNCHANGED <<row, here, tokens, late, expired, mfa, sent, used, crossed, doubled>>

\* A fresh code, hashed into the column that all purposes share.
NewCode(q, hands) ==
  /\ made.codes < MaxCodes
  /\ made' = [made EXCEPT !.codes = @ + 1]
  /\ req' = [req EXCEPT ![q] =
       [Change([row EXCEPT !.two_factor_otp_secret = made.codes + 1]) EXCEPT
          !.hands = hands]]
  /\ UNCHANGED <<row, here, tokens, late, expired, mfa, sent, used, crossed, doubled>>

\* The code in the column, not expired, is accepted: the row becomes new.
AcceptCode(q, new) ==
  /\ row.two_factor_otp_secret # None /\ ~late
  /\ req' = [req EXCEPT ![q] =
       [Change(new) EXCEPT !.code = row.two_factor_otp_secret]]
  /\ UNCHANGED <<row, here, tokens, late, expired, mfa, made, sent, used, crossed, doubled>>

\* A request commits: an UPDATE that finds no row raises, a DELETE that
\* finds none only warns.
Commit(q) ==
  LET r == req[q]
      updates == r.new # r.old
  IN
  /\ r # None
  /\ ~updates \/ here
  /\ row' = IF updates THEN Merge(row, r.old, r.new) ELSE row
  /\ tokens' = (tokens \ r.drop) \cup (IF r.add = None THEN {} ELSE {r.add})
  /\ mfa' = (mfa \/ r.hands)
  /\ used' = IF r.code = None THEN used ELSE used \cup {r.code}
  /\ doubled' = ((r.add = None /\ doubled) \/ (r.add # None /\ q \in crossed))
  /\ crossed' = crossed \ {q}
  /\ req' = [req EXCEPT ![q] = None]
  /\ late' = (late /\ row'.two_factor_otp_secret = row.two_factor_otp_secret)
  /\ expired' = expired \cap tokens'
  /\ UNCHANGED <<here, made, sent>>

\* The request fails before or in its commit, and get_db rolls it back.
Rollback(q) ==
  /\ req[q] # None
  /\ req' = [req EXCEPT ![q] = None]
  /\ crossed' = crossed \ {q}
  /\ UNCHANGED <<row, here, tokens, late, expired, mfa, made, sent, used, doubled>>

-----------------------------------------------------------------------------
(***************************************************************************)
(* Endpoints: from the request to the point where it commits.              *)
(***************************************************************************)

\* The password is right and a second factor is set: by email, a code is
\* stored and sent; in both cases the answer carries a handshake token.
login(q) ==
  /\ CanBegin(q)
  /\ row.two_factor_enabled
  /\ IF row.two_factor_method = "email"
     THEN NewCode(q, TRUE)
     ELSE /\ mfa' = TRUE
          /\ UNCHANGED <<row, here, req, tokens, late, expired, made, sent, used, crossed, doubled>>

\* The second step of a login by email; a TOTP code changes no column.
login_2fa(q) ==
  /\ CanBegin(q)
  /\ mfa
  /\ row.two_factor_enabled
  /\ row.two_factor_method = "email"
  /\ AcceptCode(q, [row EXCEPT !.two_factor_otp_secret = None])

\* Mutant of forgot_password: only expired tokens are deleted.
ForgotDropsExpired(q) ==
  LET others == {p \in Requests : req[p] # None /\ req[p].add # None} IN
  /\ CanBegin(q)
  /\ made.tokens < MaxTokens
  /\ made' = [made EXCEPT !.tokens = @ + 1]
  /\ req' = [req EXCEPT ![q] =
       [Change(row) EXCEPT !.drop = expired, !.add = made.tokens + 1]]
  /\ crossed' = IF others = {} THEN crossed ELSE crossed \cup others \cup {q}
  /\ UNCHANGED <<row, here, tokens, late, expired, mfa, sent, used, doubled>>

\* Existing tokens are selected and deleted, a new one is added.
forgot_password(q) ==
  LET others == {p \in Requests : req[p] # None /\ req[p].add # None} IN
  /\ CanBegin(q)
  /\ made.tokens < MaxTokens
  /\ made' = [made EXCEPT !.tokens = @ + 1]
  /\ req' = [req EXCEPT ![q] =
       [Change(row) EXCEPT !.drop = tokens, !.add = made.tokens + 1]]
  /\ crossed' = IF others = {} THEN crossed ELSE crossed \cup others \cup {q}
  /\ UNCHANGED <<row, here, tokens, late, expired, mfa, sent, used, doubled>>

\* The new hash and the deletion of the token are committed together; the
\* token of an expired link, or of a deleted account, is only deleted.
reset_password(q) ==
  /\ req[q] = None
  /\ \E t \in tokens :
       \/ /\ here /\ t \notin expired
          /\ made.hashes < MaxHashes
          /\ made' = [made EXCEPT !.hashes = @ + 1]
          /\ req' = [req EXCEPT ![q] =
               [Change([row EXCEPT !.password_hash = made.hashes + 1]) EXCEPT
                  !.drop = {t}]]
       \/ /\ ~here \/ t \in expired
          /\ req' = [req EXCEPT ![q] = [Change(row) EXCEPT !.drop = {t}]]
          /\ UNCHANGED made
  /\ UNCHANGED <<row, here, tokens, late, expired, mfa, sent, used, crossed, doubled>>

change_password(q) ==
  /\ CanBegin(q)
  /\ made.hashes < MaxHashes
  /\ made' = [made EXCEPT !.hashes = @ + 1]
  /\ req' = [req EXCEPT ![q] = Change([row EXCEPT !.password_hash = made.hashes + 1])]
  /\ UNCHANGED <<row, here, tokens, late, expired, mfa, sent, used, crossed, doubled>>

\* By email; for TOTP a secret is shown to the user and nothing is stored.
setup_2fa(q) ==
  /\ CanBegin(q)
  /\ ~row.two_factor_enabled
  /\ NewCode(q, FALSE)

\* Mutant of verify_2fa: the secret is stored by setup, not by verification.
VerifyKeepsSecret(q) ==
  /\ CanBegin(q)
  /\ ~row.two_factor_enabled
  /\ req' = [req EXCEPT ![q] =
       Change([row EXCEPT !.two_factor_enabled = TRUE, !.two_factor_method = "totp",
                          !.two_factor_otp_secret = None])]
  /\ UNCHANGED <<row, here, tokens, late, expired, mfa, made, sent, used, crossed, doubled>>

\* The second factor is enabled with the secret the browser sends back, or
\* with the code that was emailed; an expired code is cleared.
verify_2fa(q) ==
  LET enabled(method, secret) ==
        [row EXCEPT !.two_factor_enabled = TRUE, !.two_factor_method = method,
                    !.two_factor_secret = secret, !.two_factor_otp_secret = None]
  IN
  /\ CanBegin(q)
  /\ ~row.two_factor_enabled
  /\ \/ /\ \E s \in Secrets :
             /\ req' = [req EXCEPT ![q] = Change(enabled("totp", s))]
             /\ sent' = [sent EXCEPT ![s] = IF @ = 0 THEN 1 ELSE 2]
        /\ UNCHANGED <<row, here, tokens, late, expired, mfa, made, used, crossed, doubled>>
     \/ AcceptCode(q, enabled("email", None))
     \/ /\ row.two_factor_otp_secret # None /\ late
        /\ req' = [req EXCEPT ![q] =
             Change([row EXCEPT !.two_factor_otp_secret = None])]
        /\ UNCHANGED <<row, here, tokens, late, expired, mfa, made, sent, used, crossed, doubled>>

\* A code is sent by email, or the second factor is proved and removed.
disable_2fa(q) ==
  LET disabled ==
        [row EXCEPT !.two_factor_enabled = FALSE, !.two_factor_method = None,
                    !.two_factor_secret = None, !.two_factor_otp_secret = None]
  IN
  /\ CanBegin(q)
  /\ row.two_factor_enabled
  /\ \/ /\ row.two_factor_method = "email"
        /\ \/ NewCode(q, FALSE)
           \/ AcceptCode(q, disabled)
     \/ /\ row.two_factor_method = "totp"
        /\ row.two_factor_secret # None
        /\ req' = [req EXCEPT ![q] = Change(disabled)]
        /\ UNCHANGED <<row, here, tokens, late, expired, mfa, made, sent, used, crossed, doubled>>

\* Another member of the team deletes the account.
delete_user ==
  /\ here
  /\ here' = FALSE
  /\ UNCHANGED <<row, req, tokens, late, expired, mfa, made, sent, used, crossed, doubled>>

\* Time passes: a code, a reset token or the handshake reaches its expiry.
Expire ==
  /\ \/ late' = (row.two_factor_otp_secret # None) /\ UNCHANGED <<expired, mfa>>
     \/ (\E t \in tokens : expired' = expired \cup {t}) /\ UNCHANGED <<late, mfa>>
     \/ mfa' = FALSE /\ UNCHANGED <<late, expired>>
  /\ UNCHANGED <<row, here, req, tokens, made, sent, used, crossed, doubled>>

Step(q) ==
  \/ login(q) \/ login_2fa(q)
  \/ forgot_password(q) \/ reset_password(q) \/ change_password(q)
  \/ setup_2fa(q) \/ verify_2fa(q) \/ disable_2fa(q)
  \/ Commit(q) \/ Rollback(q)

Next == (\E q \in Requests : Step(q)) \/ delete_user \/ Expire

Spec == Init /\ [][Next]_vars

-----------------------------------------------------------------------------
(***************************************************************************)
(* Properties.                                                             *)
(***************************************************************************)

\* However requests overlap, an account whose second factor is enabled has
\* one that can be checked: a method, and a secret if the method is TOTP
\* (login_2fa and disable_2fa would refuse every code otherwise).  The
\* secret is there unless a browser sent the same secret twice: verify_2fa
\* writes no column that already holds the value, so the second request can
\* enable TOTP while a request that clears the secret is under way.
TwoFactorUsable ==
  /\ row.two_factor_enabled <=> row.two_factor_method # None
  /\ (row.two_factor_method = "totp" /\ \A s \in Secrets : sent[s] < 2)
       => row.two_factor_secret # None

\* A code that has let somebody in, enabled or disabled the second factor is
\* never the stored code again, although its column is written by login,
\* setup, verify and disable on the strength of rows read earlier.
CodeDiesWithUse == row.two_factor_otp_secret \notin used

\* forgot_password leaves one reset link, unless two such requests for the
\* account overlapped.
OneResetLink == Cardinality(tokens) > 1 => doubled
=============================================================================
