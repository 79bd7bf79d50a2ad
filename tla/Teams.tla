-------------------------------- MODULE Teams --------------------------------
(***************************************************************************)
(* Accounts, administrators, teams and their members, as the handlers of   *)
(* internal/app/api/team and internal/app/api/admin/user change them       *)
(* through the transactions of internal/db/team.go and internal/db/user.go.*)
(*                                                                         *)
(* Every handler first checks the request (middleware, reauthentication),  *)
(* then runs one PostgreSQL transaction at READ COMMITTED.  A statement    *)
(* that locks a row is a step of its own and waits until the row is free;  *)
(* what a transaction writes is seen by the others when it commits, so its *)
(* writes are one step.  The rows of one statement are locked in the order *)
(* of their ids.  Locks are exclusive (FOR UPDATE, DELETE) or shared (the  *)
(* key share lock a foreign key takes on the row it refers to).  A         *)
(* transaction that fails, because a check refuses it, the request is      *)
(* cancelled or PostgreSQL finds a deadlock, releases its locks and leaves *)
(* nothing behind.                                                         *)
(***************************************************************************)
EXTENDS Integers, FiniteSets, FiniteSetsExt

CONSTANTS
    Users,      \* user ids, positive integers given out in increasing order
    Teams,      \* team ids, likewise
    Roles,      \* the roles of a member; 0 is the team administrator's
    Txs,        \* handlers that may run at the same time
    Lists,      \* the member lists that requests may carry
    InitAccounts, InitAdmins,   \* accounts and administrators at the start
    InitTeams,  \* teams at the start
    InitLists,  \* what their member lists may be
    MaxOps      \* bound: requests in a behaviour

ASSUME IdsAssumption ==
    /\ Users \subseteq Nat \ {0} /\ Teams \subseteq Nat \ {0}
    /\ IsFiniteSet(Users) /\ IsFiniteSet(Teams)
ASSUME RolesAssumption == Roles \subseteq 0 .. 2 /\ 0 \in Roles
ASSUME OpsAssumption == MaxOps \in Nat

NotMember == 3      \* no row in m_team_user

\* A member list gives every listed user a role and every other user
\* NotMember.
MemberLists == [Users -> Roles \cup {NotMember}]
Listed(m) == {u \in Users : m[u] # NotMember}

ASSUME ListsAssumption == Lists \subseteq MemberLists
ASSUME InitAssumption ==
    /\ InitAccounts \subseteq Users /\ InitTeams \subseteq Teams
    /\ InitAdmins \subseteq InitAccounts /\ InitAdmins # {}
    /\ \A m \in InitLists : m \in MemberLists /\ Listed(m) \subseteq InitAccounts

VARIABLES
    accounts,   \* users: the ids that have a row
    admins,     \* users.is_admin
    hash,       \* users.password: a number per password hash; 0 is a legacy hash
    spent,      \* ids of users and teams that were given out
    teams,      \* teams: the ids that have a row
    owner,      \* teams.owner_id, of the teams that have a row
    role,       \* m_team_user.role
    xlocks,     \* <<tx, row>>: rows locked exclusively
    klocks,     \* <<tx, row>>: rows locked by a foreign key check
    tx,         \* what each handler is doing
    ops         \* requests so far

db == <<accounts, admins, hash, spent, teams, owner, role>>
locks == <<xlocks, klocks>>
vars == <<db, locks, tx, ops>>

-----------------------------------------------------------------------------
(* Rows and locks *)

UserRow(u) == <<"user", u, 0>>
TeamRow(t) == <<"team", t, 0>>
MemberRow(t, u) == <<"member", t, u>>

Members(t) == {u \in Users : role[t][u] # NotMember}

Rows ==
    {UserRow(u) : u \in Users} \cup {TeamRow(t) : t \in Teams}
    \cup {MemberRow(t, u) : t \in Teams, u \in Users}

TxStates ==
    [pc : {"idle", "team", "actor", "members", "insert", "heir", "begin",
           "admins", "target", "cascade", "write"},
     kind : {"none", "edit", "leave", "create", "delete", "update"},
     actor : Users \cup {0}, team : Teams \cup {0}, target : Users \cup {0},
     list : MemberLists, admin : BOOLEAN, pwd : BOOLEAN, reauth : Int,
     own : Users \cup {0}, rows : SUBSET (Users \cup Teams), seen : SUBSET Users]

Idle == [pc |-> "idle", kind |-> "none", actor |-> 0, team |-> 0, target |-> 0,
         list |-> [u \in Users |-> NotMember], admin |-> FALSE, pwd |-> FALSE,
         reauth |-> -1, own |-> 0, rows |-> {}, seen |-> {}]

\* The next user row a statement refers to: INSERT INTO teams refers to the
\* owner before the members are inserted.
NextRef(p) == IF p.kind = "create" /\ p.actor \in p.rows THEN p.actor ELSE Min(p.rows)

\* The row a handler needs next and how it locks it, none when it needs none.
Wants(x) ==
    LET p == tx[x] IN
    CASE p.pc = "team" -> {<<"x", TeamRow(p.team)>>}
      [] p.pc = "actor" -> {<<"x", MemberRow(p.team, p.actor)>>}
      [] p.pc = "members" /\ p.rows # {} -> {<<"x", MemberRow(p.team, Min(p.rows))>>}
      [] p.pc \in {"insert", "heir"} /\ p.rows # {} -> {<<"k", UserRow(NextRef(p))>>}
      [] p.pc = "admins" /\ p.rows # {} -> {<<"x", UserRow(Min(p.rows))>>}
      [] p.pc = "target" -> {<<"x", UserRow(p.target)>>}
      [] p.pc = "cascade" /\ p.rows # {} -> {<<"x", MemberRow(Min(p.rows), p.target)>>}
      [] OTHER -> {}

\* The handlers whose locks keep x from the row it needs.
Blockers(x) ==
    {y \in Txs \ {x} : \E w \in Wants(x) :
        \/ <<y, w[2]>> \in xlocks
        \/ w[1] = "x" /\ <<y, w[2]>> \in klocks}

Granted(x) == Blockers(x) = {}

LockX(x, row) ==
    /\ xlocks' = xlocks \cup {<<x, row>>}
    /\ UNCHANGED klocks

LockK(x, row) ==
    /\ klocks' = klocks \cup {<<x, row>>}
    /\ UNCHANGED xlocks

\* The transaction ends, committed or rolled back: its locks are released.
Release(x) ==
    /\ tx' = [tx EXCEPT ![x] = Idle]
    /\ xlocks' = {l \in xlocks : l[1] # x}
    /\ klocks' = {l \in klocks : l[1] # x}
    /\ UNCHANGED ops

\* Variant for mutation: an error path returns without its Rollback.
RollbackForgotten(x) ==
    /\ tx' = [tx EXCEPT ![x] = Idle]
    /\ UNCHANGED <<db, locks, ops>>

\* A statement or a check fails; the deferred Rollback undoes everything.
Rollback(x) == Release(x) /\ UNCHANGED db

Goto(x, pc, rows, seen) ==
    tx' = [tx EXCEPT ![x].pc = pc, ![x].rows = rows, ![x].seen = seen]

\* The owner of team t is read; updateTeam goes on with its actor, LeaveTeam
\* with the members.
OwnerRead(x, t) ==
    tx' = [tx EXCEPT ![x].own = owner[t],
                     ![x].pc = IF tx[x].kind = "edit" THEN "actor" ELSE "members",
                     ![x].rows = IF tx[x].kind = "edit" THEN {} ELSE Members(t)]

-----------------------------------------------------------------------------
(* Requests: what the middleware and the handler check before the           *)
(* transaction begins                                                       *)

Request(x, r) ==
    /\ tx[x].pc = "idle"
    /\ ops < MaxOps
    /\ ops' = ops + 1
    /\ tx' = [tx EXCEPT ![x] = r]
    /\ UNCHANGED <<accounts, admins, hash, teams, owner, role, locks>>

\* PUT /team/:id: the member must be a team administrator when the request
\* arrives.
EditRequest(x, t, u, m) ==
    /\ t \in teams
    /\ role[t][u] = 0
    /\ Request(x, [Idle EXCEPT !.pc = "team", !.kind = "edit", !.team = t,
                               !.actor = u, !.list = m])
    /\ UNCHANGED spent

\* POST /team/:id/leave: any signed-in user may ask.
LeaveRequest(x, t, u) ==
    /\ u \in accounts
    /\ Request(x, [Idle EXCEPT !.pc = "team", !.kind = "leave", !.team = t,
                               !.actor = u])
    /\ UNCHANGED spent

ValidMembers(own, actor, m) == m[own] = 0 /\ m[actor] = 0

\* POST /team: the creator is listed and becomes a team administrator.  The
\* id the new team gets is drawn from a sequence and never given out again.
CreateRequest(x, t, u, m) ==
    /\ u \in accounts
    /\ t \in Teams \ spent.teams
    /\ spent' = [spent EXCEPT !.teams = @ \cup {t}]
    /\ m[u] # NotMember
    /\ LET list == [m EXCEPT ![u] = 0] IN
       /\ ValidMembers(u, u, list)
       /\ Request(x, [Idle EXCEPT !.pc = "insert", !.kind = "create",
                                  !.team = t, !.actor = u, !.list = list, !.rows = Listed(m)])

\* DELETE /admin/user/:id: an administrator, not the target, who gave the
\* current password.
DeleteRequest(x, a, u) ==
    /\ a \in admins
    /\ a # u
    /\ Request(x, [Idle EXCEPT !.pc = "begin", !.kind = "delete", !.actor = a,
                               !.target = u, !.reauth = hash[a]])
    /\ UNCHANGED spent

\* PUT /admin/user/:id: an administrator, with or without the current
\* password, who does not demote himself.
UpdateRequest(x, a, u, isAdmin, pwd, reauth) ==
    /\ a \in admins
    /\ ~(a = u /\ ~isAdmin)
    /\ Request(x, [Idle EXCEPT !.pc = "begin", !.kind = "update", !.actor = a,
                               !.target = u, !.admin = isAdmin, !.pwd = pwd,
                               !.reauth = IF reauth THEN hash[a] ELSE -1])
    /\ UNCHANGED spent

-----------------------------------------------------------------------------
(* updateTeam, LeaveTeam and CreateTeam *)

\* Variant for mutation: the team is read without FOR UPDATE.
LockTeamPlainRead(x) ==
    /\ tx[x].pc = "team"
    /\ IF tx[x].team \notin teams
       THEN Rollback(x)
       ELSE OwnerRead(x, tx[x].team) /\ UNCHANGED <<db, locks, ops>>

\* SELECT owner_id FROM teams ... FOR UPDATE
LockTeam(x) ==
    /\ tx[x].pc = "team"
    /\ Granted(x)
    /\ LET t == tx[x].team IN
       IF t \notin teams
       THEN Rollback(x)
       ELSE /\ LockX(x, TeamRow(t))
            /\ OwnerRead(x, t)
            /\ UNCHANGED <<db, ops>>

\* SELECT role FROM m_team_user ... FOR UPDATE: the actor must still be a
\* team administrator, and the list must keep the owner and the actor so.
LockActor(x) ==
    /\ tx[x].pc = "actor"
    /\ Granted(x)
    /\ LET p == tx[x]
           t == p.team
       IN IF role[t][p.actor] # 0 \/ ~ValidMembers(p.own, p.actor, p.list)
          THEN Rollback(x)
          ELSE /\ LockX(x, MemberRow(t, p.actor))
               /\ Goto(x, "members", Members(t), {})
               /\ UNCHANGED <<db, ops>>

\* SELECT user_id FROM m_team_user ... FOR UPDATE, one row after the other; a
\* row that is gone when its turn comes is not part of the result.
LockMember(x) ==
    /\ tx[x].pc = "members"
    /\ tx[x].rows # {}
    /\ Granted(x)
    /\ LET p == tx[x]
           u == Min(p.rows)
       IN IF u \in Members(p.team)
          THEN /\ LockX(x, MemberRow(p.team, u))
               /\ Goto(x, "members", p.rows \ {u}, p.seen \cup {u})
          ELSE /\ Goto(x, "members", p.rows \ {u}, p.seen)
               /\ UNCHANGED locks
    /\ UNCHANGED <<db, ops>>

\* The owner who leaves is succeeded by the other member with the smallest id.
Successor(p) == Min(p.seen \ {p.actor})

\* The members are read: updateTeam inserts the listed users that are not
\* members yet; LeaveTeam refuses a user who is not a member, deletes the
\* team of an owner who is alone, and otherwise looks for a successor.
MembersRead(x) ==
    /\ tx[x].pc = "members"
    /\ tx[x].rows = {}
    /\ LET p == tx[x] IN
       CASE p.kind = "edit" ->
              /\ Goto(x, "insert", Listed(p.list) \ p.seen, p.seen)
              /\ UNCHANGED <<db, locks, ops>>
         [] p.kind = "leave" /\ p.actor \notin p.seen -> Rollback(x)
         [] p.kind = "leave" /\ p.actor \in p.seen /\ p.own # p.actor ->
              /\ role' = [role EXCEPT ![p.team][p.actor] = NotMember]
              /\ Release(x)
              /\ UNCHANGED <<accounts, admins, hash, spent, teams, owner>>
         [] p.kind = "leave" /\ p.seen = {p.actor} /\ p.own = p.actor ->
              /\ teams' = teams \ {p.team}
              /\ role' = [role EXCEPT ![p.team] = [u \in Users |-> NotMember]]
              /\ Release(x)
              /\ UNCHANGED <<accounts, admins, hash, spent, owner>>
         [] OTHER ->
              /\ Goto(x, "heir", {Successor(p)}, p.seen)
              /\ UNCHANGED <<db, locks, ops>>

\* A new reference to a user row (a new member, a new owner) takes a key
\* share lock on it and fails when the row is gone.
LockReferenced(x) ==
    /\ tx[x].pc \in {"insert", "heir"}
    /\ tx[x].rows # {}
    /\ Granted(x)
    /\ LET p == tx[x]
           u == NextRef(p)
       IN IF u \notin accounts
          THEN Rollback(x)
          ELSE /\ LockK(x, UserRow(u))
               /\ Goto(x, p.pc, p.rows \ {u}, p.seen)
               /\ UNCHANGED <<db, ops>>

CommitEdit(x) ==
    /\ tx[x].pc = "insert" /\ tx[x].kind = "edit" /\ tx[x].rows = {}
    /\ role' = [role EXCEPT ![tx[x].team] = tx[x].list]
    /\ Release(x)
    /\ UNCHANGED <<accounts, admins, hash, spent, teams, owner>>

CommitCreate(x) ==
    /\ tx[x].pc = "insert" /\ tx[x].kind = "create" /\ tx[x].rows = {}
    /\ teams' = teams \cup {tx[x].team}
    /\ owner' = [owner EXCEPT ![tx[x].team] = tx[x].actor]
    /\ role' = [role EXCEPT ![tx[x].team] = tx[x].list]
    /\ Release(x)
    /\ UNCHANGED <<accounts, admins, hash, spent>>

CommitHeir(x) ==
    /\ tx[x].pc = "heir" /\ tx[x].rows = {}
    /\ LET p == tx[x]
           heir == Successor(p)
       IN /\ owner' = [owner EXCEPT ![p.team] = heir]
          /\ role' = [role EXCEPT ![p.team][heir] = 0,
                                  ![p.team][p.actor] = NotMember]
    /\ Release(x)
    /\ UNCHANGED <<accounts, admins, hash, spent, teams>>

-----------------------------------------------------------------------------
(* DeleteUser and UpdateAdminUser *)

Begin(x) ==
    /\ tx[x].pc = "begin"
    /\ Goto(x, "admins", admins, {})
    /\ UNCHANGED <<db, locks, ops>>

\* Variant for mutation: the administrators are read without FOR UPDATE.
LockAdministratorPlainRead(x) ==
    /\ tx[x].pc = "admins"
    /\ tx[x].rows # {}
    /\ LET p == tx[x]
           u == Min(p.rows)
       IN Goto(x, "admins", p.rows \ {u}, p.seen \cup ({u} \cap admins))
    /\ UNCHANGED <<db, locks, ops>>

\* lockAdministrators: a row that is gone or no longer an administrator's
\* when its turn comes is not part of the result; in the second case it stays
\* locked.
LockAdministrator(x) ==
    /\ tx[x].pc = "admins"
    /\ tx[x].rows # {}
    /\ Granted(x)
    /\ LET p == tx[x]
           u == Min(p.rows)
       IN /\ IF u \in accounts THEN LockX(x, UserRow(u)) ELSE UNCHANGED locks
          /\ Goto(x, "admins", p.rows \ {u}, p.seen \cup ({u} \cap admins))
    /\ UNCHANGED <<db, ops>>

\* administratorPassword: the actor must be one of the administrators locked,
\* and a deletion needs the password that was checked to be still the same.
ActorChecked(x) ==
    /\ tx[x].pc = "admins"
    /\ tx[x].rows = {}
    /\ LET p == tx[x] IN
       IF \/ p.actor \notin p.seen
          \/ p.kind = "delete" /\ hash[p.actor] # p.reauth
       THEN Rollback(x)
       ELSE /\ Goto(x, "target", {}, p.seen)
            /\ UNCHANGED <<db, locks, ops>>

LastAdmin(p) == p.target \in admins /\ Cardinality(p.seen) = 1

\* The target row is locked and its deletion checked: not the last
\* administrator, no team owned.
LockDeleteTarget(x) ==
    /\ tx[x].pc = "target" /\ tx[x].kind = "delete"
    /\ Granted(x)
    /\ LET p == tx[x]
           u == p.target
       IN IF u \notin accounts \/ LastAdmin(p) \/ (\E t \in teams : owner[t] = u)
          THEN Rollback(x)
          ELSE /\ LockX(x, UserRow(u))
               /\ Goto(x, "cascade", {t \in teams : u \in Members(t)}, p.seen)
               /\ UNCHANGED <<db, ops>>

\* A change of is_admin or of the password needs the actor's password.
Privileged(p) == (p.target \in admins) # p.admin \/ p.pwd

\* Variant for mutation: any reauthentication will do, also with a password
\* that has been changed since.
LockUpdateTargetStale(x) ==
    /\ tx[x].pc = "target" /\ tx[x].kind = "update"
    /\ Granted(x)
    /\ LET p == tx[x]
           u == p.target
       IN IF \/ u \notin accounts
             \/ ~p.admin /\ LastAdmin(p)
             \/ Privileged(p) /\ p.reauth = -1
          THEN Rollback(x)
          ELSE /\ LockX(x, UserRow(u))
               /\ Goto(x, "write", {}, p.seen)
               /\ UNCHANGED <<db, ops>>

\* The target row is locked and the change checked: nobody demotes himself or
\* the last administrator.
LockUpdateTarget(x) ==
    /\ tx[x].pc = "target" /\ tx[x].kind = "update"
    /\ Granted(x)
    /\ LET p == tx[x]
           u == p.target
       IN IF \/ u \notin accounts
             \/ ~p.admin /\ u \in admins /\ p.actor = u
             \/ ~p.admin /\ LastAdmin(p)
             \/ Privileged(p) /\ hash[p.actor] # p.reauth
          THEN Rollback(x)
          ELSE /\ LockX(x, UserRow(u))
               /\ Goto(x, "write", {}, p.seen)
               /\ UNCHANGED <<db, ops>>

\* ON DELETE CASCADE takes the memberships of the deleted user.
LockCascade(x) ==
    /\ tx[x].pc = "cascade"
    /\ tx[x].rows # {}
    /\ Granted(x)
    /\ LET p == tx[x]
           t == Min(p.rows)
       IN /\ IF p.target \in Members(t)
             THEN LockX(x, MemberRow(t, p.target))
             ELSE UNCHANGED locks
          /\ Goto(x, "cascade", p.rows \ {t}, p.seen)
    /\ UNCHANGED <<db, ops>>

\* ON DELETE RESTRICT refuses to delete the owner of a team.
CommitDelete(x) ==
    /\ tx[x].pc = "cascade" /\ tx[x].rows = {}
    /\ LET u == tx[x].target IN
       IF \E t \in teams : owner[t] = u
       THEN Rollback(x)
       ELSE /\ accounts' = accounts \ {u}
            /\ admins' = admins \ {u}
            /\ role' = [t \in Teams |-> [role[t] EXCEPT ![u] = NotMember]]
            /\ Release(x)
            /\ UNCHANGED <<hash, spent, teams, owner>>

CommitUpdate(x) ==
    /\ tx[x].pc = "write"
    /\ LET p == tx[x]
           u == p.target
       IN /\ admins' = IF p.admin THEN admins \cup {u} ELSE admins \ {u}
          /\ hash' = IF p.pwd THEN [hash EXCEPT ![u] = @ + 1] ELSE hash
    /\ Release(x)
    /\ UNCHANGED <<accounts, spent, teams, owner, role>>

-----------------------------------------------------------------------------
(* Single statements on users *)

\* INSERT INTO users: an administrator adds an account, or a visitor
\* registers one.  Nothing that was checked before matters to the insertion.
AddUser(u, isAdmin) ==
    /\ u \in Users \ spent.users
    /\ ops < MaxOps
    /\ ops' = ops + 1
    /\ accounts' = accounts \cup {u}
    /\ admins' = IF isAdmin THEN admins \cup {u} ELSE admins
    /\ spent' = [spent EXCEPT !.users = @ \cup {u}]
    /\ UNCHANGED <<hash, teams, owner, role, locks, tx>>

\* A sign-in replaces a legacy hash of the same password; the row must not be
\* locked by a transaction.
Rehash(u) ==
    /\ u \in accounts
    /\ hash[u] = 0
    /\ \A y \in Txs : <<y, UserRow(u)>> \notin xlocks
    /\ ops < MaxOps
    /\ ops' = ops + 1
    /\ hash' = [hash EXCEPT ![u] = 1]
    /\ UNCHANGED <<accounts, admins, spent, teams, owner, role, locks, tx>>

-----------------------------------------------------------------------------
(* PostgreSQL and the client end transactions too *)

\* A set of handlers each of which waits for another of the set.
Deadlocked(x) ==
    \E S \in SUBSET Txs : x \in S /\ \A y \in S : Blockers(y) \cap S # {}

DeadlockAbort(x) == Deadlocked(x) /\ Rollback(x)

\* The request is cancelled, the connection fails, or the confirmation given
\* does not match: the transaction is rolled back.
Fail(x) == tx[x].pc # "idle" /\ Rollback(x)

-----------------------------------------------------------------------------
Step(x) ==
    \/ LockTeam(x) \/ LockActor(x) \/ LockMember(x) \/ MembersRead(x)
    \/ LockReferenced(x) \/ CommitEdit(x) \/ CommitHeir(x)
    \/ CommitCreate(x)
    \/ Begin(x) \/ LockAdministrator(x) \/ ActorChecked(x)
    \/ LockDeleteTarget(x) \/ LockUpdateTarget(x) \/ LockCascade(x)
    \/ CommitDelete(x) \/ CommitUpdate(x)

Requests(x) ==
    \/ \E t \in Teams, u \in Users :
          \/ \E m \in Lists : EditRequest(x, t, u, m) \/ CreateRequest(x, t, u, m)
          \/ LeaveRequest(x, t, u)
    \/ \E a \in Users, u \in Users :
          \/ DeleteRequest(x, a, u)
          \/ \E isAdmin, pwd, reauth \in BOOLEAN :
                UpdateRequest(x, a, u, isAdmin, pwd, reauth)

Next ==
    \/ \E x \in Txs : Requests(x) \/ Step(x) \/ DeadlockAbort(x) \/ Fail(x)
    \/ \E u \in Users : Rehash(u) \/ \E isAdmin \in BOOLEAN : AddUser(u, isAdmin)

-----------------------------------------------------------------------------
Init ==
    /\ accounts = InitAccounts /\ admins = InitAdmins
    /\ hash = [u \in Users |-> 0]
    /\ spent = [users |-> InitAccounts, teams |-> InitTeams]
    /\ teams = InitTeams
    /\ owner \in [Teams -> InitAccounts]
    /\ role \in [Teams -> InitLists \cup {[u \in Users |-> NotMember]}]
    /\ \A t \in Teams :
          IF t \in InitTeams
          THEN role[t][owner[t]] = 0
          ELSE Listed(role[t]) = {} /\ owner[t] = Min(InitAccounts)
    /\ xlocks = {} /\ klocks = {}
    /\ tx = [x \in Txs |-> Idle]
    /\ ops = 0

Spec == Init /\ [][Next]_vars

\* PostgreSQL grants a lock that stays free, and finds every deadlock.
Fairness == \A x \in Txs : WF_vars(Step(x)) /\ WF_vars(DeadlockAbort(x))

FairSpec == Spec /\ Fairness

-----------------------------------------------------------------------------
(* Properties *)

TypeOK ==
    /\ accounts \subseteq Users /\ admins \subseteq accounts
    /\ hash \in [Users -> Nat]
    /\ spent \in [users : SUBSET Users, teams : SUBSET Teams]
    /\ teams \subseteq Teams
    /\ owner \in [Teams -> Users]
    /\ role \in [Teams -> MemberLists]
    /\ xlocks \in SUBSET (Txs \X Rows) /\ klocks \in SUBSET (Txs \X Rows)
    /\ tx \in [Txs -> TxStates]
    /\ ops \in 0 .. MaxOps

\* Every team has an owner who has an account and is a team administrator,
\* whatever edits, departures, creations and deletions run at the same time.
OwnerAdministers ==
    \A t \in teams : owner[t] \in accounts /\ role[t][owner[t]] = 0

\* At least one administrator remains, however many of them remove or demote
\* each other at once.
AdministratorRemains == admins # {}

\* A team is edited only by an actor who is a team administrator at the commit,
\* not merely when the request was admitted.
EditsAreAuthorised ==
    [][\A x \in Txs : CommitEdit(x) =>
          role[tx[x].team][tx[x].actor] = 0]_vars

\* An account is deleted, promoted, demoted or given a password only by an
\* actor who at that moment is an administrator and whose password is still
\* the one the request was reauthenticated with.
AdminChangesAreAuthorised ==
    [][\A x \in Txs :
          \/ CommitDelete(x) /\ accounts' # accounts
          \/ CommitUpdate(x) /\ (admins' # admins \/ hash' # hash)
          => tx[x].actor \in admins /\ hash[tx[x].actor] = tx[x].reauth]_vars

\* Whatever a handler checked before its transaction, a change of a team or of
\* an account commits only while its actor is still entitled to it (updateTeam,
\* DeleteUser and UpdateAdminUser look again under their locks).
ChangesAreAuthorised == EditsAreAuthorised /\ AdminChangesAreAuthorised

\* Every transaction ends: whoever waits for a row gets it or is rolled back.
TransactionsEnd ==
    \A x \in Txs : tx[x].pc # "idle" ~> tx[x].pc = "idle"

=============================================================================
