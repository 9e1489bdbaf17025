------------------------- MODULE MembershipProofs -------------------------
(***************************************************************************)
(* Proofs about Membership, for any number of requests, addresses, teams   *)
(* and invitations.                                                        *)
(*                                                                         *)
(* A unit of work was decided on rows that others may have changed since.  *)
(* The invariant says what is still so of them when it is committed: the   *)
(* accounts it deletes are still there, its invitations are gone or those  *)
(* it read, the team of an account or an invitation that it adds is gone   *)
(* or still has members, the manager who asked for a deletion is still     *)
(* there.  From that follow the two facts the properties need: a team that *)
(* has had members keeps a manager, so an empty team is one whose owner    *)
(* has never come, and all invitations to it are the owner's.              *)
(***************************************************************************)
EXTENDS Membership, FiniteSetTheorems, TLAPS

\* The kinds of units of work there are.
Shaped(w) ==
  /\ w.account # None =>
       /\ w.invitation = None /\ w.dropTeam = None /\ w.dropAccounts = {}
       /\ w.account.team = NewTeam => w.account.role = "owner" /\ w.dropInvites = {}
  /\ w.invitation # None =>
       w.account = None /\ w.dropTeam = None /\ w.dropAccounts = {} /\ w.dropInvites = {}
  /\ w.op = "invite" <=> w.invitation # None /\ w.invitation.team = NewTeam
  /\ w.op = "invite" => w.invitation.role = "owner"
  /\ w.op = "delete" => w.account = None /\ w.invitation = None
  /\ w.dropTeam = None =>
       /\ w.op # "delete" => w.dropAccounts = {}
       /\ w.account = None => w.dropInvites = {}

\* What a unit of work deletes is what it has read, or gone.
ReadRows(w) ==
  /\ \A e \in w.dropAccounts :
       user[e] # None /\ (w.dropTeam # None => user[e].team = w.dropTeam)
  /\ \A i \in w.dropInvites :
       invite[i] # None =>
         /\ w.dropTeam # None => invite[i].team = w.dropTeam
         /\ w.account # None => invite[i].team = w.account.team

\* A team that nobody deletes two members of at the same time.
Calm == team \ crossed

\* Whom a unit of work adds to a team that is there is its owner, or joins
\* others.
JoinsOthers(w) ==
  /\ w.account # None /\ w.account.team \in Calm =>
       w.account.role = "owner" \/ Members(w.account.team) # {}
  /\ w.invitation # None /\ w.invitation.team \in Calm =>
       Members(w.invitation.team) # {}

WorkInv == \A q \in Busy : Shaped(req[q]) /\ ReadRows(req[q]) /\ JoinsOthers(req[q])

\* Invitations to a team without members are for its owner.
EmptyTeamsAwaitOwner ==
  \A t \in Calm : Members(t) = {} => \A i \in InvitedTo(t) : invite[i].role = "owner"

\* In a calm team one deletion is under way, and it spares a manager.
DeletionsSpare ==
  \A t \in Calm : \A q \in Deleting(t) :
    /\ \E a \in Members(t) \ req[q].dropAccounts : user[a].role \in Managers
    /\ \A p \in Deleting(t) : p = q

\* Invitations of e to teams of their own.
Platform(e) == {i \in Invited(e) : Members(invite[i].team) = {} /\ invite[i].team \notin crossed}

\* The platform owner has invited e once, or is about to for the first time.
InvitedOnce ==
  \A e \in Emails \ doubled :
    /\ \A i, j \in Platform(e) : i = j
    /\ \A p, q \in Busy : Inviting(p, e) /\ Inviting(q, e) => p = q
    /\ (\E p \in Busy : Inviting(p, e)) => Platform(e) = {}

MembershipInv ==
  /\ TypeOK
  /\ WorkInv
  /\ TeamIsLed
  /\ EmptyTeamsAwaitOwner
  /\ DeletionsSpare
  /\ InvitedOnce

-----------------------------------------------------------------------------
\* The invariant holds initially: there is nobody.
LEMMA MembershipInitially == Init => MembershipInv
<1> SUFFICES ASSUME Init PROVE MembershipInv
  OBVIOUS
<1> USE MembershipAssumption DEF MembershipAssumption, Init
<1>1. TypeOK
  BY DEF TypeOK
<1>2. WorkInv
  BY DEF WorkInv, Busy
<1>3. TeamIsLed /\ EmptyTeamsAwaitOwner /\ DeletionsSpare
  BY DEF TeamIsLed, EmptyTeamsAwaitOwner, DeletionsSpare, Calm
<1>4. InvitedOnce
  BY DEF InvitedOnce, Platform, Invited, Busy
<1> QED
  BY <1>1, <1>2, <1>3, <1>4 DEF MembershipInv

\* The work of a request that has only read is one more unit of work.
LEMMA BeginKeeps ==
  ASSUME MembershipInv, NEW q \in Requests, NEW w \in Work, Begin(q, w),
         Shaped(w), ReadRows(w), JoinsOthers(w),
         crossed \subseteq crossed', crossed' \subseteq team, doubled' \subseteq Emails
  PROVE  /\ \A p \in Requests : req'[p] = IF p = q THEN w ELSE req[p]
         /\ Busy' = Busy \cup {q} /\ q \notin Busy
         /\ UNCHANGED <<user, team, invite, wait>>
         /\ TypeOK' /\ WorkInv' /\ TeamIsLed' /\ EmptyTeamsAwaitOwner'
<1> USE MembershipAssumption DEF MembershipAssumption, MembershipInv
<1>1. /\ req' = [req EXCEPT ![q] = w] /\ req[q] = None
      /\ UNCHANGED <<user, team, invite, wait>>
  BY DEF Begin
<1>2. \A p \in Requests : req'[p] = IF p = q THEN w ELSE req[p]
  BY <1>1 DEF TypeOK
<1>3. Busy' = Busy \cup {q} /\ q \notin Busy
  BY <1>1, <1>2, RecordsAssumption DEF Busy
<1>4. TypeOK'
  BY <1>1 DEF TypeOK
<1>5. WorkInv'
  <2> SUFFICES ASSUME NEW p \in Busy'
               PROVE  Shaped(req'[p]) /\ ReadRows(req[p])' /\ JoinsOthers(req[p])'
    BY DEF WorkInv, Shaped
  <2>1. PICK r : r = req'[p]
    OBVIOUS
  <2>2. Shaped(r) /\ ReadRows(r) /\ JoinsOthers(r)
    BY <1>2, <1>3, <2>1 DEF WorkInv, Busy
  <2>3. ReadRows(r)' /\ JoinsOthers(r)'
    BY <1>1, <2>2 DEF ReadRows, JoinsOthers, Calm, Members
  <2> QED
    BY <2>1, <2>2, <2>3 DEF ReadRows, JoinsOthers
<1>6. TeamIsLed'
  BY <1>1 DEF TeamIsLed, Members, InvitedTo
<1>7. EmptyTeamsAwaitOwner'
  BY <1>1 DEF EmptyTeamsAwaitOwner, Calm, Members, InvitedTo
<1> QED
  BY <1>1, <1>2, <1>3, <1>4, <1>5, <1>6, <1>7

\* Work that neither deletes single accounts nor invites owners.
LEMMA OtherPreserves ==
  ASSUME MembershipInv, NEW q \in Requests, NEW w \in Work, BeginOther(q, w),
         w.op = "other", Shaped(w), ReadRows(w), JoinsOthers(w)
  PROVE  MembershipInv'
<1> USE DEF MembershipInv
<1>1. UNCHANGED <<crossed, doubled>> /\ Begin(q, w)
  BY DEF BeginOther
<1>2. /\ \A p \in Requests : req'[p] = IF p = q THEN w ELSE req[p]
      /\ Busy' = Busy \cup {q} /\ q \notin Busy
      /\ UNCHANGED <<user, team, invite, wait>>
      /\ TypeOK' /\ WorkInv' /\ TeamIsLed' /\ EmptyTeamsAwaitOwner'
  BY <1>1, BeginKeeps DEF TypeOK
<1>3. \A t \in Teams : Members(t)' = Members(t) /\ Deleting(t)' = Deleting(t)
  BY <1>2 DEF Members, Deleting, Busy
<1>4. DeletionsSpare'
  BY <1>1, <1>2, <1>3 DEF DeletionsSpare, Calm, TypeOK, Deleting, Busy
<1>5. \A e \in Emails, p \in Busy' : Inviting(p, e)' => p # q /\ p \in Busy /\ Inviting(p, e)
  BY <1>2 DEF Inviting, Busy
<1>6. \A e \in Emails : Platform(e)' = Platform(e)
  BY <1>1, <1>2 DEF Platform, Invited, Members
<1>7. InvitedOnce'
  BY <1>1, <1>5, <1>6 DEF InvitedOnce
<1> QED
  BY <1>2, <1>4, <1>7

\* Work that adds an account with a team of its own.
LEMMA NewAccountPreserves ==
  ASSUME MembershipInv, NEW q \in Requests, NEW e \in Emails, NEW w \in Work, BeginOther(q, w),
         w.op = "other", w.account = OwnerOf(e, NewTeam), w.invitation = None,
         w.dropAccounts = {}, w.dropInvites = {}, w.dropTeam = None
  PROVE  MembershipInv'
<1> USE MembershipAssumption DEF MembershipAssumption
<1>1. /\ w.account.team = NewTeam /\ w.account.role = "owner" /\ w.account \in Insert
      /\ NewTeam \notin team
  BY DEF OwnerOf, MembershipInv, TypeOK, Insert
<1>2. Shaped(w)
  BY <1>1, RecordsAssumption DEF Shaped
<1>3. ReadRows(w)
  BY DEF ReadRows
<1>4. JoinsOthers(w)
  BY <1>1 DEF JoinsOthers, Calm
<1> QED
  BY <1>2, <1>3, <1>4, OtherPreserves

\* A new account of its own team.
LEMMA RegisterPreserves ==
  ASSUME MembershipInv, NEW q \in Requests, register(q)
  PROVE  MembershipInv'
<1> USE MembershipAssumption DEF MembershipAssumption
<1>1. PICK e \in Emails : BeginOther(q, [Nothing EXCEPT !.account = OwnerOf(e, NewTeam)])
  BY DEF register
<1>2. PICK w : w = [Nothing EXCEPT !.account = OwnerOf(e, NewTeam)]
  OBVIOUS
<1>3. w \in Work
  BY <1>2 DEF Nothing, Work, OwnerOf, Insert
<1>4. /\ w.op = "other" /\ w.account = OwnerOf(e, NewTeam) /\ w.invitation = None
      /\ w.dropAccounts = {} /\ w.dropInvites = {} /\ w.dropTeam = None
  BY <1>2 DEF Nothing
<1> QED
  BY <1>1, <1>2, <1>3, <1>4, NewAccountPreserves

\* An invitation to a team without members is the owner's.
LEMMA AcceptPreserves ==
  ASSUME MembershipInv, NEW q \in Requests, accept_invite(q)
  PROVE  MembershipInv'
<1> USE MembershipAssumption DEF MembershipAssumption
<1>1. PICK i \in Invites : accept_invite(q)!(i)
  BY DEF accept_invite
<1>2. PICK v : v = invite[i]
  OBVIOUS
<1>3. v # None /\ v \in Invite /\ v.email \in Emails /\ v.team \in Teams /\ v.role \in Roles
  BY <1>1, <1>2 DEF MembershipInv, TypeOK, Invite
<1>4. PICK a, x : /\ a = [email |-> v.email, team |-> v.team, role |-> v.role]
                  /\ x = IF v.email \in wait THEN v.email ELSE None
  OBVIOUS
<1>5. PICK w : w = [Nothing EXCEPT !.account = a, !.dropInvites = {i}, !.dropWait = x]
  OBVIOUS
<1>6. BeginOther(q, w)
  BY <1>1, <1>2, <1>4, <1>5
<1>7. /\ w.op = "other" /\ w.invitation = None /\ w.dropAccounts = {} /\ w.dropInvites = {i}
      /\ w.dropTeam = None /\ w.extend = None /\ w.dropWait = x /\ w.account = a
      /\ a.team = v.team /\ a.role = v.role
  <2>1. a.team = v.team /\ a.role = v.role
    BY <1>4
  <2> QED
    BY <1>5, <2>1 DEF Nothing
<1>8. w \in Work /\ a \in Insert
  <2>1. a \in Insert /\ x \in Emails \cup {None}
    BY <1>3, <1>4 DEF Insert
  <2> QED
    BY <1>5, <2>1 DEF Nothing, Work
<1>9. v.team \in Calm => v.role = "owner" \/ Members(v.team) # {}
  BY <1>1, <1>2, <1>3 DEF MembershipInv, EmptyTeamsAwaitOwner, InvitedTo
<1>10. Shaped(w)
  BY <1>3, <1>7, <1>8, RecordsAssumption DEF Shaped
<1>11. ReadRows(w) /\ JoinsOthers(w)
  BY <1>2, <1>7, <1>9 DEF ReadRows, JoinsOthers
<1> QED
  BY <1>6, <1>7, <1>8, <1>10, <1>11, OtherPreserves

\* Who invites is a member.
LEMMA InvitePreserves ==
  ASSUME MembershipInv, NEW q \in Requests, invite_user(q)
  PROVE  MembershipInv'
<1> USE MembershipAssumption DEF MembershipAssumption
<1>1. PICK a, e \in Emails, role \in Roles : invite_user(q)!(a, e, role)
  BY DEF invite_user
<1>2. PICK t : t = user[a].team
  OBVIOUS
<1>3. t \in Teams /\ a \in Members(t)
  BY <1>1, <1>2 DEF MembershipInv, TypeOK, Account, Members
<1>4. PICK v : v = [email |-> e, team |-> t, role |-> role]
  OBVIOUS
<1>5. PICK w : w = [Nothing EXCEPT !.invitation = v]
  OBVIOUS
<1>6. BeginOther(q, w)
  BY <1>1, <1>2, <1>4, <1>5
<1>7. /\ w.op = "other" /\ w.invitation = v /\ w.dropAccounts = {} /\ w.dropInvites = {}
      /\ w.dropTeam = None /\ w.extend = None /\ w.dropWait = None /\ w.account = None
      /\ v.team = t
  BY <1>4, <1>5 DEF Nothing
<1>8. w \in Work
  <2>1. v \in Insert
    BY <1>3, <1>4 DEF Insert
  <2> QED
    BY <1>5, <2>1 DEF Nothing, Work
<1>9. Shaped(w)
  BY <1>3, <1>7 DEF Shaped
<1>10. ReadRows(w) /\ JoinsOthers(w)
  BY <1>3, <1>7 DEF ReadRows, JoinsOthers
<1> QED
  BY <1>6, <1>7, <1>8, <1>9, <1>10, OtherPreserves

\* The owner who creates an account is a member.
LEMMA CreateUserPreserves ==
  ASSUME MembershipInv, NEW q \in Requests, create_user_direct(q)
  PROVE  MembershipInv'
<1> USE MembershipAssumption DEF MembershipAssumption
<1>1. PICK a, e \in Emails, role \in Roles : create_user_direct(q)!(a, e, role)
  BY DEF create_user_direct
<1>2. PICK t : t = user[a].team
  OBVIOUS
<1>3. t \in Teams /\ a \in Members(t)
  BY <1>1, <1>2 DEF MembershipInv, TypeOK, Account, Members
<1>4. PICK v : v = [email |-> e, team |-> t, role |-> role]
  OBVIOUS
<1>5. PICK w : w = [Nothing EXCEPT !.account = v]
  OBVIOUS
<1>6. BeginOther(q, w)
  BY <1>1, <1>2, <1>4, <1>5
<1>7. /\ w.op = "other" /\ w.invitation = None /\ w.dropAccounts = {} /\ w.dropInvites = {}
      /\ w.dropTeam = None /\ w.extend = None /\ w.dropWait = None /\ w.account = v
      /\ v.team = t
  BY <1>4, <1>5 DEF Nothing
<1>8. w \in Work
  <2>1. v \in Insert
    BY <1>3, <1>4 DEF Insert
  <2> QED
    BY <1>5, <2>1 DEF Nothing, Work
<1>9. Shaped(w)
  BY <1>3, <1>7 DEF Shaped
<1>10. ReadRows(w) /\ JoinsOthers(w)
  BY <1>3, <1>7 DEF ReadRows, JoinsOthers
<1> QED
  BY <1>6, <1>7, <1>8, <1>9, <1>10, OtherPreserves

\* The cascade reads the members and the invitations of the team.
LEMMA DeleteTeamPreserves ==
  ASSUME MembershipInv, NEW q \in Requests, delete_individual_user(q)
  PROVE  MembershipInv'
<1> USE MembershipAssumption DEF MembershipAssumption
<1>1. PICK e \in Emails : delete_individual_user(q)!(e)
  BY DEF delete_individual_user
<1>2. PICK t, A, I : t = user[e].team /\ A = Members(t) /\ I = InvitedTo(t)
  OBVIOUS
<1>3. t \in Teams /\ A \subseteq Emails /\ I \subseteq Invites
  BY <1>1, <1>2 DEF MembershipInv, TypeOK, Account, Members, InvitedTo
<1>4. PICK w : w = [Nothing EXCEPT !.dropTeam = t, !.dropAccounts = A, !.dropInvites = I]
  OBVIOUS
<1>5. BeginOther(q, w)
  BY <1>1, <1>2, <1>4
<1>6. /\ w.op = "other" /\ w.invitation = None /\ w.dropAccounts = A /\ w.dropInvites = I
      /\ w.dropTeam = t /\ w.extend = None /\ w.dropWait = None /\ w.account = None
  BY <1>4 DEF Nothing
<1>7. w \in Work
  BY <1>3, <1>4 DEF Nothing, Work
<1>8. Shaped(w) /\ JoinsOthers(w)
  BY <1>3, <1>6 DEF Shaped, JoinsOthers
<1>9. ReadRows(w)
  BY <1>2, <1>3, <1>6 DEF ReadRows, Members, InvitedTo
<1> QED
  BY <1>5, <1>6, <1>7, <1>8, <1>9, OtherPreserves

\* A manager deletes another account: the manager stays, unless another
\* deletion in the team is under way, and then the team is counted as crossed.
LEMMA DeleteUserPreserves ==
  ASSUME MembershipInv, NEW q \in Requests, delete_user(q)
  PROVE  MembershipInv'
<1> USE MembershipAssumption DEF MembershipAssumption, MembershipInv
<1>1. PICK a, e \in Emails : delete_user(q)!(a, e)
  BY DEF delete_user
<1>2. PICK t : t = user[a].team
  OBVIOUS
<1>3. t \in team /\ a \in Members(t) /\ e \in Members(t) /\ user[a].role \in Managers /\ e # a
  BY <1>1, <1>2 DEF TypeOK, Members
<1>4. PICK w : w = [Nothing EXCEPT !.op = "delete", !.dropAccounts = {e}]
  OBVIOUS
<1>5. /\ Begin(q, w) /\ UNCHANGED doubled
      /\ crossed' = IF Deleting(t) = {} THEN crossed ELSE crossed \cup {t}
  BY <1>1, <1>2, <1>4
<1>6. /\ w.op = "delete" /\ w.invitation = None /\ w.dropAccounts = {e} /\ w.dropInvites = {}
      /\ w.dropTeam = None /\ w.extend = None /\ w.dropWait = None /\ w.account = None
  BY <1>4 DEF Nothing
<1>7. w \in Work
  BY <1>4 DEF Nothing, Work
<1>8. Shaped(w) /\ JoinsOthers(w)
  BY <1>6 DEF Shaped, JoinsOthers
<1>9. ReadRows(w)
  BY <1>1, <1>6 DEF ReadRows
<1>10. /\ \A p \in Requests : req'[p] = IF p = q THEN w ELSE req[p]
       /\ Busy' = Busy \cup {q} /\ q \notin Busy
       /\ UNCHANGED <<user, team, invite, wait>>
       /\ TypeOK' /\ WorkInv' /\ TeamIsLed' /\ EmptyTeamsAwaitOwner'
  BY <1>3, <1>5, <1>7, <1>8, <1>9, BeginKeeps DEF TypeOK
<1>11. \A s \in Teams : Members(s)' = Members(s)
  BY <1>10 DEF Members
<1>12. \A s \in Teams : s # t => Deleting(s)' = Deleting(s)
  BY <1>3, <1>6, <1>10, <1>11 DEF Deleting, Busy, Members
<1>13. Deleting(t)' = Deleting(t) \cup {q}
  BY <1>3, <1>6, <1>7, <1>10, <1>11, RecordsAssumption DEF Deleting, Busy, TypeOK
<1>14. DeletionsSpare'
  <2> SUFFICES ASSUME NEW s \in Calm', NEW p \in Deleting(s)'
               PROVE  /\ \E b \in Members(s) \ req'[p].dropAccounts : user[b].role \in Managers
                      /\ \A o \in Deleting(s)' : o = p
    BY <1>10, <1>11 DEF DeletionsSpare, Calm, TypeOK
  <2>1. s \in Teams /\ s \in Calm
    BY <1>5, <1>10 DEF Calm, TypeOK
  <2>2. CASE s # t
    <3>1. p \in Deleting(s) /\ p # q /\ req'[p] = req[p]
      BY <1>10, <1>12, <2>1, <2>2 DEF Deleting, Busy
    <3> QED
      BY <1>12, <2>1, <2>2, <3>1 DEF DeletionsSpare
  <2>3. CASE s = t
    <3>1. Deleting(t) = {}
      BY <1>5, <2>3 DEF Calm
    <3> QED
      BY <1>3, <1>6, <1>10, <1>13, <2>3, <3>1
  <2> QED
    BY <2>2, <2>3
<1>15. \A d \in Emails, p \in Busy' : Inviting(p, d)' => p # q /\ p \in Busy /\ Inviting(p, d)
  BY <1>6, <1>10 DEF Inviting, Busy
<1>16. \A d \in Emails : Platform(d)' \subseteq Platform(d)
  BY <1>5, <1>10 DEF Platform, Invited, Members
<1>17. InvitedOnce'
  BY <1>5, <1>15, <1>16 DEF InvitedOnce
<1> QED
  BY <1>10, <1>14, <1>17

\* The platform owner invites an address that has no invitation.
LEMMA InviteOwnerPreserves ==
  ASSUME MembershipInv, NEW q \in Requests, NEW e \in Emails, InviteOwner(q, e)
  PROVE  MembershipInv'
<1> USE MembershipAssumption DEF MembershipAssumption, MembershipInv
<1>1. PICK v : v = OwnerOf(e, NewTeam)
  OBVIOUS
<1>2. v \in Insert /\ v.email = e /\ v.team = NewTeam /\ v.role = "owner"
  BY <1>1 DEF OwnerOf, Insert
<1>3. PICK w : w = [Nothing EXCEPT !.op = "invite", !.invitation = v]
  OBVIOUS
<1>4. /\ Invited(e) = {} /\ Begin(q, w) /\ UNCHANGED crossed
      /\ doubled' = IF \E p \in Busy : Inviting(p, e) THEN doubled \cup {e} ELSE doubled
  BY <1>1, <1>3 DEF InviteOwner
<1>5. /\ w.op = "invite" /\ w.invitation = v /\ w.dropAccounts = {} /\ w.dropInvites = {}
      /\ w.dropTeam = None /\ w.extend = None /\ w.dropWait = None /\ w.account = None
  BY <1>3 DEF Nothing
<1>6. w \in Work
  BY <1>2, <1>3 DEF Nothing, Work
<1>7. Shaped(w)
  BY <1>2, <1>5, RecordsAssumption DEF Shaped
<1>8. ReadRows(w) /\ JoinsOthers(w)
  BY <1>2, <1>5 DEF ReadRows, JoinsOthers, Calm, TypeOK
<1>9. /\ \A p \in Requests : req'[p] = IF p = q THEN w ELSE req[p]
      /\ Busy' = Busy \cup {q} /\ q \notin Busy
      /\ UNCHANGED <<user, team, invite, wait>>
      /\ TypeOK' /\ WorkInv' /\ TeamIsLed' /\ EmptyTeamsAwaitOwner'
  BY <1>4, <1>6, <1>7, <1>8, BeginKeeps DEF TypeOK
<1>10. \A t \in Teams : Members(t)' = Members(t) /\ Deleting(t)' = Deleting(t)
  BY <1>5, <1>9 DEF Members, Deleting, Busy
<1>11. DeletionsSpare'
  BY <1>4, <1>9, <1>10 DEF DeletionsSpare, Calm, TypeOK, Deleting, Busy
<1>12. \A d \in Emails, p \in Busy' :
         Inviting(p, d)' <=> (p = q /\ d = e) \/ (p # q /\ p \in Busy /\ Inviting(p, d))
  BY <1>2, <1>5, <1>9 DEF Inviting, Busy
<1>13. \A d \in Emails : Platform(d)' = Platform(d)
  BY <1>4, <1>9 DEF Platform, Invited, Members
<1>14. Platform(e) = {}
  BY <1>4 DEF Platform
<1>15. InvitedOnce'
  <2> SUFFICES ASSUME NEW d \in Emails, d \notin doubled'
               PROVE  /\ \A i, j \in Platform(d) : i = j
                      /\ \A p, o \in Busy' : Inviting(p, d)' /\ Inviting(o, d)' => p = o
                      /\ (\E p \in Busy' : Inviting(p, d)') => Platform(d) = {}
    BY <1>13 DEF InvitedOnce
  <2>1. d \notin doubled
    BY <1>4
  <2>2. d = e => \A p \in Busy : ~Inviting(p, d)
    BY <1>4
  <2> QED
    BY <1>12, <1>14, <2>1, <2>2 DEF InvitedOnce
<1> QED
  BY <1>9, <1>11, <1>15

\* The platform owner approves a personal request.
LEMMA ApprovePreserves ==
  ASSUME MembershipInv, NEW q \in Requests, approve_waitlist(q)
  PROVE  MembershipInv'
<1> USE MembershipAssumption DEF MembershipAssumption
<1>1. PICK e \in wait : approve_waitlist(q)!(e)
  BY DEF approve_waitlist
<1>2. e \in Emails
  BY DEF MembershipInv, TypeOK
<1>3. CASE BeginOther(q, [Nothing EXCEPT !.dropWait = e])
  <2>1. PICK w : w = [Nothing EXCEPT !.dropWait = e]
    OBVIOUS
  <2>2. w \in Work
    BY <1>2, <2>1 DEF Nothing, Work
  <2>3. /\ w.op = "other" /\ w.account = None /\ w.invitation = None
        /\ w.dropAccounts = {} /\ w.dropInvites = {} /\ w.dropTeam = None
    BY <2>1 DEF Nothing
  <2>4. Shaped(w) /\ ReadRows(w) /\ JoinsOthers(w)
    BY <2>3 DEF Shaped, ReadRows, JoinsOthers
  <2> QED
    BY <1>3, <2>1, <2>2, <2>3, <2>4, OtherPreserves
<1>4. CASE BeginOther(q, [Nothing EXCEPT !.account = OwnerOf(e, NewTeam), !.dropWait = e])
  <2>1. PICK w : w = [Nothing EXCEPT !.account = OwnerOf(e, NewTeam), !.dropWait = e]
    OBVIOUS
  <2>2. w \in Work
    BY <1>2, <2>1 DEF Nothing, Work, OwnerOf, Insert
  <2>3. /\ w.op = "other" /\ w.account = OwnerOf(e, NewTeam) /\ w.invitation = None
        /\ w.dropAccounts = {} /\ w.dropInvites = {} /\ w.dropTeam = None
    BY <2>1 DEF Nothing
  <2> QED
    BY <1>2, <1>4, <2>1, <2>2, <2>3, NewAccountPreserves
<1>5. CASE InviteOwner(q, e)
  BY <1>2, <1>5, InviteOwnerPreserves
<1>6. ASSUME NEW i \in Invites, BeginOther(q, [Nothing EXCEPT !.extend = i])
      PROVE  MembershipInv'
  <2>1. PICK w : w = [Nothing EXCEPT !.extend = i]
    OBVIOUS
  <2>2. w \in Work
    BY <2>1 DEF Nothing, Work
  <2>3. /\ w.op = "other" /\ w.account = None /\ w.invitation = None
        /\ w.dropAccounts = {} /\ w.dropInvites = {} /\ w.dropTeam = None
    BY <2>1 DEF Nothing
  <2>4. Shaped(w) /\ ReadRows(w) /\ JoinsOthers(w)
    BY <2>3 DEF Shaped, ReadRows, JoinsOthers
  <2> QED
    BY <1>6, <2>1, <2>2, <2>3, <2>4, OtherPreserves
<1> QED
  BY <1>1, <1>3, <1>4, <1>5, <1>6

\* A request that fails takes its unit of work along.
LEMMA RollbackPreserves ==
  ASSUME MembershipInv, NEW q \in Requests, Rollback(q)
  PROVE  MembershipInv'
<1> USE DEF MembershipInv
<1>1. UNCHANGED <<user, team, invite, wait, crossed, doubled>>
  BY DEF Rollback
<1>2. \A p \in Requests : req'[p] = IF p = q THEN None ELSE req[p]
  BY DEF Rollback, TypeOK
<1>3. \A p \in Busy' : p \in Busy /\ p # q /\ req'[p] = req[p]
  BY <1>2 DEF Busy
<1>4. TypeOK'
  BY <1>1 DEF Rollback, TypeOK
<1>5. WorkInv'
  BY <1>1, <1>3 DEF WorkInv, Shaped, ReadRows, JoinsOthers, Calm, Members
<1>6. TeamIsLed' /\ EmptyTeamsAwaitOwner'
  BY <1>1 DEF TeamIsLed, EmptyTeamsAwaitOwner, Calm, Members, InvitedTo
<1>7. DeletionsSpare'
  BY <1>1, <1>3 DEF DeletionsSpare, Calm, Members, Deleting
<1>8. InvitedOnce'
  BY <1>1, <1>3 DEF InvitedOnce, Platform, Invited, Members, Inviting
<1> QED
  BY <1>4, <1>5, <1>6, <1>7, <1>8

-----------------------------------------------------------------------------
(***************************************************************************)
(* The commit.                                                             *)
(***************************************************************************)

\* The effect of committing w for the request q, where a and v are the
\* account and the invitation that are inserted, if any, the latter as i.
Effect(q, w, a, v, i) ==
  /\ \A e \in Emails :
       user'[e] = IF w.account # None /\ e = w.account.email THEN a
                  ELSE IF e \in w.dropAccounts THEN None ELSE user[e]
  /\ \A j \in Invites :
       invite'[j] = IF w.invitation # None /\ j = i THEN v
                    ELSE IF j \in w.dropInvites THEN None ELSE invite[j]
  /\ w.account # None => a \in Account /\ a.role = w.account.role
                         /\ w.account.email \in Emails /\ user[w.account.email] = None
  /\ w.invitation # None => /\ v \in Invite /\ v.role = w.invitation.role
                            /\ v.email = w.invitation.email
                            /\ i \in FreeInvites

\* Where the inserted rows belong, and which teams there are.
Placed(w, a, v) ==
  /\ w.account # None =>
       /\ w.account.team \in team => a.team = w.account.team
       /\ w.account.team \notin team => w.account.team = NewTeam /\ a.team \in FreeTeams
       /\ team' = team \cup {a.team}
  /\ w.invitation # None =>
       /\ w.invitation.team \in team => v.team = w.invitation.team
       /\ w.invitation.team \notin team => w.invitation.team = NewTeam /\ v.team \in FreeTeams
       /\ team' = team \cup {v.team}
  /\ w.account = None /\ w.invitation = None => team' = team \ {w.dropTeam}
  /\ crossed' = crossed \ {w.dropTeam}

\* What becomes of the other requests.
OthersKept(q, w) ==
  /\ Busy' = Busy \ {q}
  /\ \A p \in Busy \ {q} :
       /\ req'[p].op = req[p].op /\ req'[p].account = req[p].account
       /\ req'[p].invitation = req[p].invitation /\ req'[p].dropTeam = req[p].dropTeam
       /\ req'[p].dropInvites = req[p].dropInvites
       /\ req'[p].dropAccounts = req[p].dropAccounts \ w.dropAccounts

\* A commit leaves the other requests with what they have read, except the
\* accounts it deletes.
LEMMA CommitKeepsOthers ==
  ASSUME MembershipInv, NEW q \in Requests, NEW w, w = req[q], Commit(q)
  PROVE  /\ w \in Work /\ q \in Busy
         /\ Shaped(w) /\ ReadRows(w) /\ JoinsOthers(w) /\ Constraints(w)
         /\ OthersKept(q, w)
         /\ req' \in [Requests -> Work \cup {None}]
         /\ wait' \subseteq Emails /\ doubled' \subseteq Emails
         /\ \A e \in Emails : e \notin doubled' =>
              e \notin doubled \/ (Invited(e)' = {} /\ \A p \in Busy' : ~Inviting(p, e)')
<1> USE DEF MembershipInv
<1>1. w # None /\ Constraints(w)
  BY DEF Commit
<1>2. w \in Work /\ q \in Busy
  BY <1>1 DEF TypeOK, Busy
<1>3. Shaped(w) /\ ReadRows(w) /\ JoinsOthers(w)
  BY <1>2 DEF WorkInv
<1>4. \A p \in Requests :
        req'[p] = IF p = q THEN None
                  ELSE IF req[p] = None THEN None
                  ELSE [req[p] EXCEPT !.dropAccounts = @ \ w.dropAccounts]
  BY DEF Commit
<1>5. \A p \in Busy \ {q} :
        /\ req'[p] \in Work
        /\ req'[p].op = req[p].op /\ req'[p].account = req[p].account
        /\ req'[p].invitation = req[p].invitation /\ req'[p].dropTeam = req[p].dropTeam
        /\ req'[p].dropInvites = req[p].dropInvites
        /\ req'[p].dropAccounts = req[p].dropAccounts \ w.dropAccounts
  <2> SUFFICES ASSUME NEW p \in Busy \ {q}
               PROVE  /\ req'[p] \in Work
                      /\ req'[p].op = req[p].op /\ req'[p].account = req[p].account
                      /\ req'[p].invitation = req[p].invitation /\ req'[p].dropTeam = req[p].dropTeam
                      /\ req'[p].dropInvites = req[p].dropInvites
                      /\ req'[p].dropAccounts = req[p].dropAccounts \ w.dropAccounts
    OBVIOUS
  <2>1. PICK r, D : r = req[p] /\ D = r.dropAccounts \ w.dropAccounts
    OBVIOUS
  <2>2. r \in Work /\ req'[p] = [r EXCEPT !.dropAccounts = D]
    BY <1>4, <2>1 DEF Busy, TypeOK
  <2>3. D \subseteq Emails
    BY <2>1, <2>2 DEF Work
  <2> QED
    BY <2>1, <2>2, <2>3 DEF Work
<1>6. Busy' = Busy \ {q}
  <2>1. \A p \in Requests : p \in Busy' <=> p \in Busy \ {q}
    BY <1>4, <1>5, RecordsAssumption DEF Busy
  <2> QED
    BY <2>1 DEF Busy
<1>7. req' \in [Requests -> Work \cup {None}]
  <2>1. \A p \in Requests : req'[p] \in Work \cup {None}
    BY <1>4, <1>5 DEF Busy
  <2>2. req' = [p \in Requests |-> req'[p]]
    BY DEF Commit
  <2> QED
    BY <2>1, <2>2
<1>8. wait' \subseteq Emails /\ doubled' \subseteq Emails
  BY DEF Commit, Apply, TypeOK
<1>9. ASSUME NEW e \in Emails, e \notin doubled', e \in doubled
      PROVE  Invited(e)' = {} /\ \A p \in Busy' : ~Inviting(p, e)'
  <2>1. /\ \A i \in Invites : ~(invite'[i] # None /\ invite'[i].email = e)
        /\ \A p \in Busy \ {q} : ~Inviting(p, e)
    BY <1>9 DEF Commit
  <2> QED
    BY <1>5, <1>6, <2>1 DEF Invited, Inviting
<1> QED
  BY <1>1, <1>2, <1>3, <1>5, <1>6, <1>7, <1>8, <1>9 DEF OthersKept

\* What a commit changes in the tables.
LEMMA CommitEffects ==
  ASSUME MembershipInv, NEW q \in Requests, NEW w \in Work, w = req[q], Commit(q),
         Shaped(w), Constraints(w)
  PROVE  \E a, v, i : Effect(q, w, a, v, i) /\ Placed(w, a, v)
<1> USE MembershipAssumption DEF MembershipAssumption, MembershipInv
<1>1. PICK t \in (IF MakesTeam(w) THEN FreeTeams ELSE {None}),
           i \in (IF w.invitation # None THEN FreeInvites ELSE {None}) : Apply(w, t, i)
  BY DEF Commit
<1>2. PICK a, v :
        /\ a = [team |-> IF w.account.team = NewTeam THEN t ELSE w.account.team,
                role |-> w.account.role]
        /\ v = [email |-> w.invitation.email,
                team |-> IF w.invitation.team = NewTeam THEN t ELSE w.invitation.team,
                role |-> w.invitation.role]
  OBVIOUS
<1>3. MakesTeam(w) => t \in FreeTeams /\ t \in Teams \ team /\ t # w.dropTeam
  <2>1. q \in Busy
    BY RecordsAssumption DEF Busy
  <2> QED
    BY <1>1, <2>1 DEF FreeTeams
<1>4. ASSUME w.account # None
      PROVE  /\ w.account \in Insert /\ a \in Account /\ a.role = w.account.role
             /\ a.team = IF w.account.team = NewTeam THEN t ELSE w.account.team
             /\ user[w.account.email] = None
             /\ w.account.team = NewTeam \/ w.account.team \in team
  <2>1. w.account \in Insert
    BY <1>4 DEF Work
  <2>2. user[w.account.email] = None /\ (w.account.team = NewTeam \/ w.account.team \in team)
    BY <1>4 DEF Constraints
  <2>3. a.role = w.account.role /\ a.team = IF w.account.team = NewTeam THEN t ELSE w.account.team
    BY <1>2
  <2>4. a \in Account
    BY <1>2, <1>3, <1>4, <2>1, <2>2 DEF MakesTeam, Account, Insert, TypeOK
  <2> QED
    BY <2>1, <2>2, <2>3, <2>4
<1>5. ASSUME w.invitation # None
      PROVE  /\ w.invitation \in Insert /\ v \in Invite /\ v.role = w.invitation.role
             /\ v.email = w.invitation.email
             /\ v.team = IF w.invitation.team = NewTeam THEN t ELSE w.invitation.team
             /\ w.invitation.team = NewTeam \/ w.invitation.team \in team
  <2>1. w.invitation \in Insert
    BY <1>5 DEF Work
  <2>2. w.invitation.team = NewTeam \/ w.invitation.team \in team
    BY <1>5 DEF Constraints
  <2>3. /\ v.role = w.invitation.role /\ v.email = w.invitation.email
        /\ v.team = IF w.invitation.team = NewTeam THEN t ELSE w.invitation.team
    BY <1>2
  <2>4. v \in Invite
    BY <1>2, <1>3, <1>5, <2>1, <2>2 DEF MakesTeam, Invite, Insert, TypeOK
  <2> QED
    BY <2>1, <2>2, <2>3, <2>4
<1>6. Effect(q, w, a, v, i)
  <2>1. \A e \in Emails :
          user'[e] = IF w.account # None /\ e = w.account.email THEN a
                     ELSE IF e \in w.dropAccounts THEN None ELSE user[e]
    BY <1>1, <1>2 DEF Apply
  <2>2. \A j \in Invites :
          invite'[j] = IF w.invitation # None /\ j = i THEN v
                       ELSE IF j \in w.dropInvites THEN None ELSE invite[j]
    BY <1>1, <1>2 DEF Apply
  <2>3. w.account # None => w.account.email \in Emails
    BY <1>4 DEF Insert
  <2>4. w.invitation # None => i \in FreeInvites
    BY <1>1
  <2> QED
    BY <1>4, <1>5, <2>1, <2>2, <2>3, <2>4 DEF Effect
<1>7. Placed(w, a, v)
  <2>1. w.dropTeam = None => crossed \ {w.dropTeam} = crossed /\ team \ {w.dropTeam} = team
    BY DEF TypeOK
  <2>2. crossed' = crossed \ {w.dropTeam}
    BY DEF Commit
  <2>3. CASE w.account # None
    <3>1. w.invitation = None /\ w.dropTeam = None
      BY <2>3 DEF Shaped
    <3>2. team' = team \cup {a.team}
      BY <1>1, <1>3, <1>4, <2>3, <3>1 DEF TypeOK, Apply, MakesTeam
    <3> QED
      BY <1>3, <1>4, <2>2, <2>3, <3>1, <3>2 DEF Placed, TypeOK, MakesTeam
  <2>4. CASE w.invitation # None
    <3>1. w.account = None /\ w.dropTeam = None
      BY <2>4 DEF Shaped
    <3>2. team' = team \cup {v.team}
      BY <1>1, <1>3, <1>5, <2>4, <3>1 DEF TypeOK, Apply, MakesTeam
    <3> QED
      BY <1>3, <1>5, <2>2, <2>4, <3>1, <3>2 DEF Placed, TypeOK, MakesTeam
  <2>5. CASE w.account = None /\ w.invitation = None
    BY <1>1, <2>2, <2>5 DEF Placed, Apply, MakesTeam
  <2> QED
    BY <2>3, <2>4, <2>5
<1> QED
  BY <1>6, <1>7

\* The commit of one request leaves the invariant to the others, and no calm
\* team without its members.
LEMMA CommitPreserves ==
  ASSUME MembershipInv, NEW q \in Requests, Commit(q)
  PROVE  /\ MembershipInv'
         /\ \A s \in Calm' : Members(s) # {} => Members(s)' # {}
<1> USE MembershipAssumption DEF MembershipAssumption, MembershipInv
<1>0. PICK w : w = req[q]
  OBVIOUS
<1>1. /\ w \in Work /\ q \in Busy
      /\ Shaped(w) /\ ReadRows(w) /\ JoinsOthers(w) /\ Constraints(w)
      /\ OthersKept(q, w)
      /\ req' \in [Requests -> Work \cup {None}]
      /\ wait' \subseteq Emails /\ doubled' \subseteq Emails
      /\ \A e \in Emails : e \notin doubled' =>
           e \notin doubled \/ (Invited(e)' = {} /\ \A p \in Busy' : ~Inviting(p, e)')
  BY <1>0, CommitKeepsOthers
<1>2. PICK a, v, i : Effect(q, w, a, v, i) /\ Placed(w, a, v)
  BY <1>0, <1>1, CommitEffects
<1>3. /\ w.account # None \/ w.invitation # None => w.dropTeam = None /\ w.dropAccounts = {}
      /\ w.account = None \/ w.invitation = None
      /\ w.dropTeam = None => team \ {w.dropTeam} = team /\ crossed' = crossed
  BY <1>1, <1>2 DEF Shaped, Placed, TypeOK
\* Names that are free are those of no row and of no unit of work.
<1>4. /\ FreeTeams \subseteq Teams \ team
      /\ \A p \in Busy :
           /\ req[p].account # None => req[p].account.team \notin FreeTeams
           /\ req[p].invitation # None => req[p].invitation.team \notin FreeTeams
  BY DEF FreeTeams
<1>5. /\ \A j \in FreeInvites : j \in Invites /\ invite[j] = None
      /\ \A p \in Busy : req[p].dropInvites \cap FreeInvites = {}
  BY DEF FreeInvites
\* Teams that are deleted have lost their members and invitations.
<1>6. w.dropTeam # None =>
        /\ Members(w.dropTeam) \subseteq w.dropAccounts
        /\ InvitedTo(w.dropTeam) \subseteq w.dropInvites
  BY <1>1 DEF Constraints
<1>7. TypeOK'
  <2>1. user' \in [Emails -> Account \cup {None}] /\ invite' \in [Invites -> Invite \cup {None}]
    <3>1. /\ \A e \in Emails : user'[e] \in Account \cup {None}
          /\ \A j \in Invites : invite'[j] \in Invite \cup {None}
      BY <1>2 DEF Effect, TypeOK
    <3>2. user' = [e \in Emails |-> user'[e]] /\ invite' = [j \in Invites |-> invite'[j]]
      BY DEF Commit, Apply
    <3> QED
      BY <3>1, <3>2
  <2>2. team' \subseteq Teams /\ crossed' \subseteq team'
    BY <1>2, <1>3, <1>4 DEF Placed, TypeOK
  <2>3. \A e \in Emails : user'[e] # None => user'[e].team \in team'
    <3> SUFFICES ASSUME NEW e \in Emails, user'[e] # None PROVE user'[e].team \in team'
      OBVIOUS
    <3>1. CASE w.account # None /\ e = w.account.email
      BY <1>2, <3>1 DEF Effect, Placed
    <3>2. CASE ~(w.account # None /\ e = w.account.email)
      <4>1. user'[e] = user[e] /\ e \notin w.dropAccounts /\ user[e].team \in team
        BY <1>2, <3>2 DEF Effect, TypeOK
      <4>2. w.dropTeam # None => user[e].team # w.dropTeam
        BY <1>6, <4>1 DEF Members
      <4> QED
        BY <1>2, <1>3, <4>1, <4>2 DEF Placed
    <3> QED
      BY <3>1, <3>2
  <2>4. \A j \in Invites : invite'[j] # None => invite'[j].team \in team'
    <3> SUFFICES ASSUME NEW j \in Invites, invite'[j] # None PROVE invite'[j].team \in team'
      OBVIOUS
    <3>1. CASE w.invitation # None /\ j = i
      BY <1>2, <3>1 DEF Effect, Placed
    <3>2. CASE ~(w.invitation # None /\ j = i)
      <4>1. invite'[j] = invite[j] /\ j \notin w.dropInvites /\ invite[j].team \in team
        BY <1>2, <3>2 DEF Effect, TypeOK
      <4>2. w.dropTeam # None => invite[j].team # w.dropTeam
        BY <1>6, <4>1 DEF InvitedTo
      <4> QED
        BY <1>2, <1>3, <4>1, <4>2 DEF Placed
    <3> QED
      BY <3>1, <3>2
  <2> QED
    BY <1>1, <2>1, <2>2, <2>3, <2>4 DEF TypeOK
\* Every team is an old one or has a free name.
<1>8. \A s \in Calm' : s \in Teams /\ s # w.dropTeam /\ (s \in Calm \/ s \in FreeTeams)
  BY <1>2, <1>3, <1>4, <1>7 DEF Calm, Placed, TypeOK
\* Accounts that stay are unchanged.
<1>9. \A e \in Emails : user[e] # None /\ e \notin w.dropAccounts => user'[e] = user[e]
  BY <1>2 DEF Effect
<1>10. \A j \in Invites : invite'[j] # None => invite'[j] = invite[j] \/ (w.invitation # None /\ j = i)
  BY <1>2 DEF Effect
\* An account of a calm team is only deleted by a deletion in that team.
<1>11. \A s \in Calm' : \A e \in Members(s) : e \in w.dropAccounts => q \in Deleting(s)
  <2> SUFFICES ASSUME NEW s \in Calm', NEW e \in Members(s), e \in w.dropAccounts
               PROVE  q \in Deleting(s)
    OBVIOUS
  <2>1. w.dropTeam = None
    BY <1>1, <1>8 DEF ReadRows, Members
  <2>2. w.op = "delete"
    BY <1>1, <2>1 DEF Shaped
  <2> QED
    BY <1>0, <1>1, <2>2 DEF Deleting
\* A team that has members keeps a manager.
<1>12. \A s \in Calm' : Members(s) # {} => \E e \in Members(s)' : user'[e].role \in Managers
  <2> SUFFICES ASSUME NEW s \in Calm', Members(s) # {}
               PROVE  \E e \in Members(s)' : user'[e].role \in Managers
    OBVIOUS
  <2>1. s \in Calm
    BY <1>4, <1>8 DEF Members, TypeOK
  <2>2. PICK e \in Members(s) : user[e].role \in Managers /\ e \notin w.dropAccounts
    <3>1. CASE q \in Deleting(s)
      BY <1>0, <2>1, <3>1 DEF DeletionsSpare
    <3>2. CASE q \notin Deleting(s)
      BY <1>11, <2>1, <3>2 DEF TeamIsLed, Calm
    <3> QED
      BY <3>1, <3>2
  <2>3. e \in Members(s)' /\ user'[e] = user[e]
    BY <1>9, <2>2 DEF Members
  <2> QED
    BY <2>2, <2>3
\* The units of work of the others are still what they have to be.
<1>13. WorkInv'
  <2> SUFFICES ASSUME NEW p \in Busy', NEW r, r = req'[p]
               PROVE  Shaped(r) /\ ReadRows(r)' /\ JoinsOthers(r)'
    BY DEF WorkInv, Shaped, ReadRows, JoinsOthers
  <2>1. p \in Busy /\ p # q
    BY <1>1 DEF OthersKept
  <2>2. PICK o : o = req[p]
    OBVIOUS
  <2>3. /\ r.op = o.op /\ r.account = o.account
        /\ r.invitation = o.invitation /\ r.dropTeam = o.dropTeam
        /\ r.dropInvites = o.dropInvites
        /\ r.dropAccounts = o.dropAccounts \ w.dropAccounts
    BY <1>1, <2>1, <2>2 DEF OthersKept
  <2>4. o \in Work /\ Shaped(o) /\ ReadRows(o) /\ JoinsOthers(o)
    BY <2>1, <2>2 DEF WorkInv, Busy, TypeOK
  <2>5. Shaped(r)
    BY <2>3, <2>4 DEF Shaped
  <2>6. \A e \in r.dropAccounts : user'[e] # None /\ (r.dropTeam # None => user'[e].team = r.dropTeam)
    <3>1. \A e \in r.dropAccounts : e \in Emails /\ e \in o.dropAccounts /\ e \notin w.dropAccounts
      BY <2>3, <2>4 DEF Work
    <3> QED
      BY <1>9, <2>3, <2>4, <3>1 DEF ReadRows
  <2>7. \A j \in r.dropInvites : j \in Invites /\ (invite'[j] # None => invite'[j] = invite[j])
    BY <1>2, <1>5, <1>10, <2>1, <2>2, <2>3, <2>4 DEF Effect, Work
  <2>8. ReadRows(r)'
    BY <2>3, <2>4, <2>6, <2>7 DEF ReadRows
  <2>9. JoinsOthers(r)'
    <3>1. \A s \in Calm' : Members(s) # {} => Members(s)' # {}
      BY <1>12
    <3>2. /\ o.account # None => o.account.team \notin FreeTeams
          /\ o.invitation # None => o.invitation.team \notin FreeTeams
      BY <1>4, <2>1, <2>2
    <3>3. r.account # None /\ r.account.team \in Calm' => r.account.team \in Calm
      BY <1>8, <2>3, <3>2
    <3>4. r.invitation # None /\ r.invitation.team \in Calm' => r.invitation.team \in Calm
      BY <1>8, <2>3, <3>2
    <3> QED
      BY <2>3, <2>4, <3>1, <3>3, <3>4 DEF JoinsOthers
  <2> QED
    BY <2>5, <2>8, <2>9
\* A team that was empty is empty, or its owner has come; a new one has its
\* owner, or an invitation for the owner.
<1>14. ASSUME NEW s \in Calm', Members(s) = {}
       PROVE  \/ \E e \in Members(s)' : user'[e].role \in Managers
              \/ /\ Members(s)' = {}
                 /\ \E j \in InvitedTo(s)' : invite'[j].role = "owner"
                 /\ \A j \in InvitedTo(s)' : invite'[j].role = "owner"
  <2>1. CASE w.account # None /\ a.team = s
    <3>1. w.account.role = "owner"
      <4>1. CASE w.account.team \in team
        BY <1>1, <1>2, <1>4, <1>8, <1>14, <2>1, <4>1 DEF Placed, JoinsOthers
      <4>2. CASE w.account.team \notin team
        BY <1>1, <1>2, <2>1, <4>2 DEF Placed, Shaped
      <4> QED
        BY <4>1, <4>2
    <3>2. user'[w.account.email] = a /\ w.account.email \in Emails /\ a # None /\ a.role = "owner"
      BY <1>2, <2>1, <3>1, RecordsAssumption DEF Effect
    <3> QED
      BY <2>1, <3>2 DEF Members, Managers
  <2>2. CASE ~(w.account # None /\ a.team = s)
    <3>1. Members(s)' = {}
      <4> SUFFICES ASSUME NEW e \in Emails, user'[e] # None, user'[e].team = s
                   PROVE  FALSE
        BY DEF Members
      <4> QED
        BY <1>2, <1>14, <2>2 DEF Effect, Members
    <3>2. CASE s \in Calm
      <4>1. PICK j \in InvitedTo(s) : invite[j].role = "owner"
        BY <1>14, <3>2 DEF TeamIsLed, Calm
      <4>2. j \in Invites /\ invite[j] # None /\ invite[j].team = s
        BY <4>1 DEF InvitedTo
      <4>3. j \notin w.dropInvites
        <5>1. CASE w.dropTeam # None
          BY <1>1, <1>8, <4>2, <5>1 DEF ReadRows
        <5>2. CASE w.dropTeam = None /\ w.account # None
          <6>1. j \in w.dropInvites => w.account.team = s
            BY <1>1, <4>2, <5>2 DEF ReadRows
          <6>2. s \in team
            BY <3>2 DEF Calm
          <6> QED
            BY <1>2, <2>2, <5>2, <6>1, <6>2 DEF Placed
        <5>3. CASE w.dropTeam = None /\ w.account = None
          BY <1>1, <5>3 DEF Shaped
        <5> QED
          BY <5>1, <5>2, <5>3
      <4>4. j \in InvitedTo(s)' /\ invite'[j].role = "owner"
        <5>1. ~(w.invitation # None /\ j = i)
          BY <1>2, <1>5, <4>2 DEF Effect
        <5>2. invite'[j] = invite[j]
          BY <1>2, <4>2, <4>3, <5>1 DEF Effect
        <5> QED
          BY <4>1, <4>2, <5>2 DEF InvitedTo
      <4>5. ASSUME NEW k \in InvitedTo(s)' PROVE invite'[k].role = "owner"
        <5>1. k \in Invites /\ invite'[k] # None /\ invite'[k].team = s
          BY <4>5 DEF InvitedTo
        <5>2. CASE w.invitation # None /\ k = i
          <6>1. v.team = s /\ s \in team
            BY <1>2, <3>2, <5>1, <5>2 DEF Effect, Calm
          <6>2. w.invitation.team = s
            BY <1>2, <1>4, <5>2, <6>1 DEF Placed
          <6> QED
            BY <1>1, <1>14, <3>2, <5>2, <6>2 DEF JoinsOthers
        <5>3. CASE ~(w.invitation # None /\ k = i)
          <6>1. invite'[k] = invite[k] /\ k \in InvitedTo(s)
            BY <1>10, <5>1, <5>3 DEF InvitedTo
          <6> QED
            BY <1>14, <3>2, <6>1 DEF EmptyTeamsAwaitOwner
        <5> QED
          BY <5>2, <5>3
      <4> QED
        BY <3>1, <4>4, <4>5
    <3>3. CASE s \in FreeTeams
      <4>1. s \notin team /\ \A k \in Invites : invite[k] # None => invite[k].team # s
        BY <1>4, <3>3 DEF TypeOK
      <4>2. w.invitation # None /\ v.team = s
        BY <1>2, <2>2, <4>1, <1>8 DEF Placed, Calm
      <4>3. w.invitation.team = NewTeam /\ v.role = "owner" /\ v # None
        <5>1. w.invitation.team \notin team
          BY <1>2, <4>1, <4>2 DEF Placed
        <5> QED
          BY <1>1, <1>2, <4>2, <5>1, RecordsAssumption DEF Placed, Effect, Shaped
      <4>4. i \in Invites /\ invite'[i] = v
        BY <1>2, <1>5, <4>2 DEF Effect
      <4>5. \A k \in Invites : invite'[k] # None /\ invite'[k].team = s => k = i
        BY <1>10, <4>1
      <4> QED
        BY <3>1, <4>2, <4>3, <4>4, <4>5 DEF InvitedTo
    <3> QED
      BY <1>8, <3>2, <3>3
  <2> QED
    BY <2>1, <2>2
<1>15. TeamIsLed'
  BY <1>12, <1>14 DEF TeamIsLed, Calm
<1>16. EmptyTeamsAwaitOwner'
  BY <1>12, <1>14 DEF EmptyTeamsAwaitOwner
<1>17. DeletionsSpare'
  <2> SUFFICES ASSUME NEW s \in Calm', NEW p \in Deleting(s)'
               PROVE  /\ \E b \in Members(s)' \ req'[p].dropAccounts : user'[b].role \in Managers
                      /\ \A o \in Deleting(s)' : o = p
    BY DEF DeletionsSpare
  <2>1. \A o \in Deleting(s)' : o \in Deleting(s) /\ o # q
    <3> SUFFICES ASSUME NEW o \in Deleting(s)' PROVE o \in Deleting(s) /\ o # q
      OBVIOUS
    <3>1. o \in Busy /\ o # q /\ req[o].op = "delete"
      BY <1>1 DEF Deleting, OthersKept
    <3>2. PICK e \in Members(s)' : e \in req'[o].dropAccounts
      BY DEF Deleting
    <3>3. e \in Emails /\ e \in req[o].dropAccounts /\ e \notin w.dropAccounts
      BY <1>1, <3>1, <3>2 DEF OthersKept, Members
    <3>4. user[e] # None /\ user'[e] = user[e]
      BY <1>9, <3>1, <3>3 DEF WorkInv, ReadRows
    <3>5. e \in Members(s)
      BY <3>2, <3>3, <3>4 DEF Members
    <3> QED
      BY <3>1, <3>3, <3>5 DEF Deleting
  <2>2. s \in Calm
    <3>1. Members(s) # {}
      BY <2>1 DEF Deleting
    <3> QED
      BY <1>4, <1>8, <3>1 DEF Members, TypeOK
  <2>3. PICK b \in Members(s) \ req[p].dropAccounts : user[b].role \in Managers
    BY <2>1, <2>2 DEF DeletionsSpare
  <2>4. b \notin w.dropAccounts
    BY <1>11, <2>1, <2>2, <2>3 DEF DeletionsSpare
  <2>5. b \in Members(s)' /\ user'[b] = user[b]
    BY <1>9, <2>3, <2>4 DEF Members
  <2>6. b \notin req'[p].dropAccounts
    BY <1>1, <2>1, <2>3 DEF OthersKept, Deleting
  <2> QED
    BY <2>1, <2>2, <2>3, <2>5, <2>6 DEF DeletionsSpare
\* Only the platform owner makes invitations to teams of their own.
<1>18. \A e \in Emails : \A j \in Platform(e)' :
         j \in Platform(e) \/ (w.op = "invite" /\ j = i /\ w.invitation.email = e)
  <2> SUFFICES ASSUME NEW e \in Emails, NEW j \in Platform(e)'
               PROVE  j \in Platform(e) \/ (w.op = "invite" /\ j = i /\ w.invitation.email = e)
    OBVIOUS
  <2>1. PICK s : s = invite'[j].team
    OBVIOUS
  <2>2. /\ j \in Invites /\ invite'[j] # None /\ invite'[j].email = e
        /\ Members(s)' = {} /\ s \notin crossed'
    BY <2>1 DEF Platform, Invited, Members
  <2>3. s \in Calm'
    BY <1>7, <2>1, <2>2 DEF TypeOK, Calm
  <2>4. Members(s) = {}
    BY <1>12, <2>2, <2>3
  <2>5. CASE w.invitation # None /\ j = i
    <3>1. v.team = s /\ v.email = e
      BY <1>2, <2>1, <2>2, <2>5 DEF Effect
    <3>2. w.invitation.team \notin team
      BY <1>1, <1>2, <1>3, <2>3, <2>4, <2>5, <3>1 DEF Placed, JoinsOthers, Calm
    <3> QED
      BY <1>1, <1>2, <2>5, <3>1, <3>2 DEF Placed, Shaped, Effect
  <2>6. CASE ~(w.invitation # None /\ j = i)
    <3>1. invite'[j] = invite[j] /\ s \in team
      BY <1>10, <2>1, <2>2, <2>6 DEF TypeOK
    <3>2. s \in Calm
      BY <1>4, <1>8, <2>3, <3>1
    <3> QED
      BY <2>1, <2>2, <2>4, <3>1, <3>2 DEF Platform, Invited, Calm
  <2> QED
    BY <2>5, <2>6
<1>19. InvitedOnce'
  <2> SUFFICES ASSUME NEW e \in Emails, e \notin doubled'
               PROVE  /\ \A j, k \in Platform(e)' : j = k
                      /\ \A p, o \in Busy' : Inviting(p, e)' /\ Inviting(o, e)' => p = o
                      /\ (\E p \in Busy' : Inviting(p, e)') => Platform(e)' = {}
    BY DEF InvitedOnce
  <2>1. CASE Invited(e)' = {} /\ \A p \in Busy' : ~Inviting(p, e)'
    BY <2>1 DEF Platform
  <2>2. CASE e \notin doubled
    <3>1. \A p \in Busy' : p \in Busy /\ p # q /\ (Inviting(p, e)' => Inviting(p, e))
      BY <1>1 DEF OthersKept, Inviting
    <3>2. w.op = "invite" /\ w.invitation.email = e => Inviting(q, e)
      BY <1>0 DEF Inviting
    <3> QED
      BY <1>1, <1>18, <2>2, <3>1, <3>2 DEF InvitedOnce
  <2> QED
    BY <1>1, <2>1, <2>2
<1> QED
  BY <1>7, <1>12, <1>13, <1>15, <1>16, <1>17, <1>19

-----------------------------------------------------------------------------
\* A step that leaves everything but the waitlist alone.
LEMMA WaitlistPreserves ==
  ASSUME MembershipInv, UNCHANGED <<user, team, invite, req, crossed, doubled>>, wait' \subseteq Emails
  PROVE  MembershipInv'
<1> USE DEF MembershipInv
<1>1. Busy' = Busy /\ Calm' = Calm
  BY DEF Busy, Calm
<1>2. \A t : Members(t)' = Members(t) /\ InvitedTo(t)' = InvitedTo(t) /\ Deleting(t)' = Deleting(t)
  BY DEF Members, InvitedTo, Deleting, Busy
<1>3. TypeOK'
  BY DEF TypeOK
<1>4. WorkInv'
  BY <1>1 DEF WorkInv, Shaped, ReadRows, JoinsOthers, Members
<1>5. TeamIsLed' /\ EmptyTeamsAwaitOwner'
  BY <1>1, <1>2 DEF TeamIsLed, EmptyTeamsAwaitOwner
<1>6. DeletionsSpare'
  BY <1>1, <1>2 DEF DeletionsSpare
<1>7. InvitedOnce'
  BY <1>1 DEF InvitedOnce, Platform, Invited, Members, Inviting
<1> QED
  BY <1>3, <1>4, <1>5, <1>6, <1>7

\* Every step of an endpoint, a commit or a rollback preserves the invariant.
LEMMA MembershipInductive == MembershipInv /\ [Next]_vars => MembershipInv'
<1> SUFFICES ASSUME MembershipInv, [Next]_vars PROVE MembershipInv'
  OBVIOUS
<1>1. ASSUME NEW q \in Requests, create_individual_user(q) PROVE MembershipInv'
  BY <1>1, InviteOwnerPreserves DEF create_individual_user
<1>2. CASE join_waitlist \/ delete_waitlist
  <2>1. wait \subseteq Emails
    BY DEF MembershipInv, TypeOK
  <2> QED
    BY <1>2, <2>1, WaitlistPreserves DEF join_waitlist, delete_waitlist
<1>3. CASE UNCHANGED vars
  BY <1>3, WaitlistPreserves DEF vars, MembershipInv, TypeOK
<1> QED
  BY <1>1, <1>2, <1>3, RegisterPreserves, AcceptPreserves, InvitePreserves,
     CreateUserPreserves, DeleteUserPreserves, DeleteTeamPreserves,
     ApprovePreserves, CommitPreserves, RollbackPreserves DEF Next, Step

\* MembershipInv is an invariant of the specification.
THEOREM MembershipInvariant == Spec => []MembershipInv
BY MembershipInitially, MembershipInductive, PTL DEF Spec

\* Accounts and invitations always belong to a team that exists, and units of
\* work stay well typed: no interleaving of commits gets past the foreign keys.
THEOREM MembershipTypeCorrect == Spec => []TypeOK
<1>1. MembershipInv => TypeOK
  BY DEF MembershipInv
<1> QED
  BY <1>1, MembershipInvariant, PTL

\* A team in which deletions do not overlap has a manager, or waits for its
\* owner, for any number of requests, addresses and teams.
THEOREM TeamsAreLed == Spec => []TeamIsLed
<1>1. MembershipInv => TeamIsLed
  BY DEF MembershipInv
<1> QED
  BY <1>1, MembershipInvariant, PTL

\* The platform owner invites nobody twice to teams of their own, unless two
\* such requests overlapped (create_individual_user, approve_waitlist).
THEOREM PlatformInvitesOnce == Spec => []OnePlatformInvite
<1>1. MembershipInv => OnePlatformInvite
  <2> SUFFICES ASSUME MembershipInv, NEW e \in Emails \ doubled
               PROVE  Cardinality(Platform(e)) <= 1
    BY DEF OnePlatformInvite, Platform
  <2>1. \A i, j \in Platform(e) : i = j
    BY DEF MembershipInv, InvitedOnce
  <2>2. CASE Platform(e) = {}
    BY <2>2, FS_EmptySet
  <2>3. CASE Platform(e) # {}
    <3>1. PICK i : i \in Platform(e)
      BY <2>3
    <3>2. Platform(e) = {i}
      BY <2>1, <3>1
    <3>3. Cardinality({i}) = 1
      BY FS_Singleton
    <3> QED
      BY <3>2, <3>3
  <2> QED
    BY <2>2, <2>3
<1> QED
  BY <1>1, MembershipInvariant, PTL

\* What a step may not do to a team: leave it without members.
MembersStay ==
  \A t \in Teams : t \in team' \ crossed' /\ Members(t) # {} => Members(t)' # {}

\* A team that has members keeps some as long as it exists and no deletions
\* of members overlap: nobody is the last to be deleted (delete_user).
THEOREM TeamsNeverEmptied == Spec => [][MembersStay]_vars
<1>1. MembershipInv /\ [Next]_vars => [MembersStay]_vars
  <2> SUFFICES ASSUME MembershipInv, Next PROVE MembersStay
    OBVIOUS
  <2>1. ASSUME NEW q \in Requests, Commit(q) PROVE MembersStay
    BY <2>1, CommitPreserves DEF MembersStay, Calm
  <2>2. CASE UNCHANGED user
    BY <2>2 DEF MembersStay, Members
  <2>3. ASSUME NEW q \in Requests, Step(q) PROVE UNCHANGED user \/ Commit(q)
    BY <2>3 DEF Step, register, accept_invite, invite_user, create_user_direct,
         delete_user, create_individual_user, delete_individual_user,
         approve_waitlist, Rollback, InviteOwner, BeginOther, Begin
  <2> QED
    BY <2>1, <2>2, <2>3 DEF Next, join_waitlist, delete_waitlist
<1> QED
  BY <1>1, MembershipInvariant, PTL DEF Spec
=============================================================================
