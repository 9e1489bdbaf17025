----------------------------- MODULE Membership -----------------------------
(***************************************************************************)
(* Who belongs to which team: accounts, teams and invitations of the       *)
(* shared schema tenant_individual, and the waitlist (api/users.py, and    *)
(* the parts of api/auth.py and api/admin.py for personal users).          *)
(*                                                                         *)
(* A request reads rows, decides, and commits its unit of work later, when *)
(* the constraints of the database are checked; requests in between        *)
(* overlap.  A refused request changes nothing and has no step.  Rows are  *)
(* named by UUIDs; here a name that nothing refers to is used again, and   *)
(* an account is named by its address as long as it exists.                *)
(***************************************************************************)
EXTENDS Naturals, FiniteSets

CONSTANTS
  Requests,    \* requests that may be under way at the same time
  Emails,      \* personal addresses
  Teams,       \* bound: teams at any one time
  Invites,     \* bound: invitations at any one time
  Roles,       \* roles that occur
  None,
  NewTeam      \* the team that a unit of work creates itself

ASSUME MembershipAssumption ==
  /\ None \notin Emails \cup Teams \cup Invites
  /\ Roles \subseteq {"owner", "admin", "member"}
  /\ "owner" \in Roles
  /\ NewTeam \notin Teams \cup {None}

VARIABLES
  user,      \* user[e]: the account with the unique address e, or None
  team,      \* rows of the table teams
  invite,    \* invite[i]: a row of user_invites, or None
  wait,      \* addresses on the waitlist
  req,       \* req[q]: a unit of work that is not committed yet, or None
  crossed,   \* history: teams of which two deletions of members overlapped
  doubled    \* history: addresses whom two platform invitations met

vars == <<user, team, invite, wait, req, crossed, doubled>>

Managers == {"owner", "admin"}

Account == [team : Teams, role : Roles]
Invite == [email : Emails, team : Teams, role : Roles]

\* An account or an invitation that a request will insert.
Insert == [email : Emails, team : Teams \cup {NewTeam}, role : Roles]

\* Inserts, deletes and updates that a request will commit together.
Work == [op : {"invite", "delete", "other"},
         account : Insert \cup {None},
         invitation : Insert \cup {None},
         dropAccounts : SUBSET Emails,
         dropInvites : SUBSET Invites,
         dropTeam : Teams \cup {None},
         extend : Invites \cup {None},
         dropWait : Emails \cup {None}]

ASSUME RecordsAssumption ==
  /\ None \notin Account /\ None \notin Invite
  /\ None \notin Insert /\ None \notin Work

TypeOK ==
  /\ user \in [Emails -> Account \cup {None}]
  /\ team \subseteq Teams
  /\ invite \in [Invites -> Invite \cup {None}]
  /\ wait \subseteq Emails
  /\ req \in [Requests -> Work \cup {None}]
  /\ crossed \subseteq team
  /\ doubled \subseteq Emails
  /\ \A e \in Emails : user[e] # None => user[e].team \in team
  /\ \A i \in Invites : invite[i] # None => invite[i].team \in team

Init ==
  /\ user = [e \in Emails |-> None]
  /\ team = {}
  /\ invite = [i \in Invites |-> None]
  /\ wait = {}
  /\ req = [q \in Requests |-> None]
  /\ crossed = {}
  /\ doubled = {}

-----------------------------------------------------------------------------
(***************************************************************************)
(* The unit of work.                                                       *)
(***************************************************************************)

Nothing == [op |-> "other", account |-> None, invitation |-> None,
            dropAccounts |-> {}, dropInvites |-> {}, dropTeam |-> None,
            extend |-> None, dropWait |-> None]

Busy == {q \in Requests : req[q] # None}

Members(t) == {e \in Emails : user[e] # None /\ user[e].team = t}
Invited(e) == {i \in Invites : invite[i] # None /\ invite[i].email = e}
InvitedTo(t) == {i \in Invites : invite[i] # None /\ invite[i].team = t}

\* Request p is about to insert an invitation of e by the platform owner.
Inviting(p, e) == req[p].op = "invite" /\ req[p].invitation.email = e

\* A request has read what it needs and will commit w.
Begin(q, w) ==
  /\ req[q] = None
  /\ req' = [req EXCEPT ![q] = w]
  /\ UNCHANGED <<user, team, invite, wait>>

BeginOther(q, w) == Begin(q, w) /\ UNCHANGED <<crossed, doubled>>

\* Names that no row and no unit of work refers to.
FreeTeams ==
  Teams \ (team \cup {req[q].account.team : q \in {p \in Busy : req[p].account # None}}
                \cup {req[q].invitation.team : q \in {p \in Busy : req[p].invitation # None}}
                \cup {req[q].dropTeam : q \in Busy})
FreeInvites ==
  {i \in Invites : invite[i] = None} \
    (UNION {req[q].dropInvites : q \in Busy} \cup {req[q].extend : q \in Busy})

\* Mutant of Constraints: team_id is no foreign key.
NoForeignKey(w) ==
  /\ w.account # None => user[w.account.email] = None
  /\ w.extend # None => invite[w.extend] # None

\* The constraints: addresses of accounts are unique, accounts and
\* invitations belong to a team, an update finds its row.  A delete that
\* finds no row is only warned about.
Constraints(w) ==
  LET exists(t) == t = NewTeam \/ t \in team IN
  /\ w.account # None => user[w.account.email] = None /\ exists(w.account.team)
  /\ w.invitation # None => exists(w.invitation.team)
  /\ w.extend # None => invite[w.extend] # None
  /\ w.dropTeam # None =>
       /\ Members(w.dropTeam) \subseteq w.dropAccounts
       /\ InvitedTo(w.dropTeam) \subseteq w.dropInvites

\* The unit of work creates a team.
MakesTeam(w) ==
  \/ w.account # None /\ w.account.team = NewTeam
  \/ w.invitation # None /\ w.invitation.team = NewTeam

\* The rows that w inserts and deletes; t names its new team, i its invitation.
Apply(w, t, i) ==
  LET place(s) == IF s = NewTeam THEN t ELSE s IN
  /\ team' = (team \cup (IF MakesTeam(w) THEN {t} ELSE {})) \ {w.dropTeam}
  /\ user' = [e \in Emails |->
       IF w.account # None /\ e = w.account.email
       THEN [team |-> place(w.account.team), role |-> w.account.role]
       ELSE IF e \in w.dropAccounts THEN None ELSE user[e]]
  /\ invite' = [j \in Invites |->
       IF j = i
       THEN [email |-> w.invitation.email, team |-> place(w.invitation.team),
             role |-> w.invitation.role]
       ELSE IF j \in w.dropInvites THEN None ELSE invite[j]]
  /\ wait' = wait \ {w.dropWait}

\* The unit of work is committed.  An account that it deletes is no longer
\* the one that other requests have read: they will not find it.
Commit(q) ==
  LET w == req[q] IN
  /\ w # None
  /\ Constraints(w)
  /\ \E t \in (IF MakesTeam(w) THEN FreeTeams ELSE {None}),
        i \in (IF w.invitation # None THEN FreeInvites ELSE {None}) : Apply(w, t, i)
  /\ req' = [p \in Requests |->
       IF p = q THEN None
       ELSE IF req[p] = None THEN None
       ELSE [req[p] EXCEPT !.dropAccounts = @ \ w.dropAccounts]]
  /\ crossed' = crossed \ {w.dropTeam}
  /\ doubled' = {e \in doubled : (\E i \in Invites : invite'[i] # None /\ invite'[i].email = e)
                                 \/ \E p \in Busy \ {q} : Inviting(p, e)}

\* A statement fails, or the backend stops: nothing is committed.
Rollback(q) ==
  /\ req[q] # None
  /\ req' = [req EXCEPT ![q] = None]
  /\ UNCHANGED <<user, team, invite, wait, crossed, doubled>>

-----------------------------------------------------------------------------
(***************************************************************************)
(* Endpoints of visitors.                                                  *)
(***************************************************************************)

OwnerOf(e, t) == [email |-> e, team |-> t, role |-> "owner"]

\* A new account with a team of its own.
register(q) ==
  \E e \in Emails :
    /\ user[e] = None
    /\ BeginOther(q, [Nothing EXCEPT !.account = OwnerOf(e, NewTeam)])

\* The address has no account.  A request that is on the list already is
\* only rewritten: whether it has a password may change at any time.  The
\* insert is its only write and is taken as one step with the checks; an
\* account made in between is one made just after it.
join_waitlist ==
  \E e \in Emails \ wait :
    /\ user[e] = None
    /\ wait' = wait \cup {e}
    /\ UNCHANGED <<user, team, invite, req, crossed, doubled>>

\* The account is made, invitation and request on the waitlist are deleted.
\* An invitation that has expired is refused, and refused requests have no
\* step: this may be one that has not.
accept_invite(q) ==
  \E i \in Invites :
    LET v == invite[i] IN
    /\ v # None
    /\ BeginOther(q, [Nothing EXCEPT
                        !.account = [email |-> v.email, team |-> v.team, role |-> v.role],
                        !.dropInvites = {i},
                        !.dropWait = IF v.email \in wait THEN v.email ELSE None])

-----------------------------------------------------------------------------
(***************************************************************************)
(* Endpoints of a team's managers: a has passed require_admin.             *)
(***************************************************************************)

\* The address has no account; other invitations are not looked for.
invite_user(q) ==
  \E a, e \in Emails, role \in Roles :
    /\ user[a] # None /\ user[a].role \in Managers
    /\ user[e] = None
    /\ BeginOther(q, [Nothing EXCEPT
         !.invitation = [email |-> e, team |-> user[a].team, role |-> role]])

create_user_direct(q) ==
  \E a, e \in Emails, role \in Roles :
    /\ user[a] # None /\ user[a].role = "owner"
    /\ user[e] = None
    /\ BeginOther(q, [Nothing EXCEPT
         !.account = [email |-> e, team |-> user[a].team, role |-> role]])

\* Deletions of accounts of team t that are under way.
Deleting(t) ==
  {q \in Busy : req[q].op = "delete" /\ req[q].dropAccounts \cap Members(t) # {}}

\* Mutant of delete_user: a manager may delete the own account.
DeleteAnyone(q) ==
  \E a, e \in Emails :
    /\ user[a] # None /\ user[a].role \in Managers
    /\ user[e] # None /\ user[e].team = user[a].team
    /\ Begin(q, [Nothing EXCEPT !.op = "delete", !.dropAccounts = {e}])
    /\ crossed' = IF Deleting(user[a].team) = {} THEN crossed ELSE crossed \cup {user[a].team}
    /\ UNCHANGED doubled

\* Another member of the manager's team.
delete_user(q) ==
  \E a, e \in Emails :
    /\ user[a] # None /\ user[a].role \in Managers
    /\ e # a /\ user[e] # None /\ user[e].team = user[a].team
    /\ Begin(q, [Nothing EXCEPT !.op = "delete", !.dropAccounts = {e}])
    /\ crossed' = IF Deleting(user[a].team) = {} THEN crossed ELSE crossed \cup {user[a].team}
    /\ UNCHANGED doubled

-----------------------------------------------------------------------------
(***************************************************************************)
(* Endpoints of the platform owner.                                        *)
(***************************************************************************)

\* Mutant of InviteOwner: earlier invitations are not looked for.
InviteOwnerAgain(q, e) ==
  /\ Begin(q, [Nothing EXCEPT !.op = "invite", !.invitation = OwnerOf(e, NewTeam)])
  /\ UNCHANGED <<crossed, doubled>>

\* A new team and the invitation of its owner, if the address has none.
InviteOwner(q, e) ==
  /\ Invited(e) = {}
  /\ Begin(q, [Nothing EXCEPT !.op = "invite", !.invitation = OwnerOf(e, NewTeam)])
  /\ doubled' = IF \E p \in Busy : Inviting(p, e)
                THEN doubled \cup {e} ELSE doubled
  /\ UNCHANGED crossed

create_individual_user(q) == \E e \in Emails : user[e] = None /\ InviteOwner(q, e)

\* The team of the account, with every account and invitation that it has
\* when the cascade reads them.
delete_individual_user(q) ==
  \E e \in Emails :
    /\ user[e] # None
    /\ BeginOther(q, [Nothing EXCEPT
         !.dropTeam = user[e].team,
         !.dropAccounts = Members(user[e].team),
         !.dropInvites = InvitedTo(user[e].team)])

delete_waitlist ==
  \E e \in wait :
    /\ wait' = wait \ {e}
    /\ UNCHANGED <<user, team, invite, req, crossed, doubled>>

\* The cases of personal requests.  An address with an account leaves the
\* list.  With a password the account and its team are made; without one the
\* invitation of the address is extended, whoever made it, or a new one is
\* made.  Two invitations of the address raise.
approve_waitlist(q) ==
  \E e \in wait :
    \/ /\ user[e] # None
       /\ BeginOther(q, [Nothing EXCEPT !.dropWait = e])
    \/ /\ user[e] = None
       /\ \/ BeginOther(q, [Nothing EXCEPT !.account = OwnerOf(e, NewTeam), !.dropWait = e])
          \/ InviteOwner(q, e)
          \/ \E i \in Invites : Invited(e) = {i} /\ BeginOther(q, [Nothing EXCEPT !.extend = i])

Step(q) ==
  \/ register(q) \/ accept_invite(q)
  \/ invite_user(q) \/ create_user_direct(q) \/ delete_user(q)
  \/ create_individual_user(q) \/ delete_individual_user(q)
  \/ approve_waitlist(q)
  \/ Commit(q) \/ Rollback(q)

Next == (\E q \in Requests : Step(q)) \/ join_waitlist \/ delete_waitlist

Spec == Init /\ [][Next]_vars

-----------------------------------------------------------------------------
(***************************************************************************)
(* Properties.                                                             *)
(***************************************************************************)

\* However requests overlap, a team has a manager, or nobody yet and an
\* invitation for its owner: delete_user spares the one who asks, deleting a
\* team takes its members along or fails, and invitations that are accepted
\* become members.  Two deletions in one team that overlap may empty it.
TeamIsLed ==
  \A t \in team \ crossed :
    \/ \E e \in Members(t) : user[e].role \in Managers
    \/ Members(t) = {} /\ \E i \in InvitedTo(t) : invite[i].role = "owner"

\* An address has at most one invitation to a team that is still empty: the
\* platform owner invites nobody twice, unless two such requests overlapped
\* (create_individual_user and approve_waitlist check, and insert later).
OnePlatformInvite ==
  \A e \in Emails \ doubled :
    Cardinality({i \in Invited(e) : Members(invite[i].team) = {} /\ invite[i].team \notin crossed}) <= 1
=============================================================================
