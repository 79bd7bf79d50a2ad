----------------------------- MODULE TeamsProofs -----------------------------
(***************************************************************************)
(* For any number of users, teams, handlers and requests: the row locks    *)
(* of the transactions keep every team administered, keep an administrator *)
(* and let nothing commit without the right to it.                         *)
(***************************************************************************)
EXTENDS Teams, WellFoundedInduction, TLAPS

(* Handler x holds the row exclusively, or by a foreign key check.         *)
HoldsX(x, row) == <<x, row>> \in xlocks
HoldsK(x, row) == <<x, row>> \in klocks

DbType ==
    /\ accounts \subseteq Users /\ admins \subseteq accounts
    /\ hash \in [Users -> Nat]
    /\ spent \in [users : SUBSET Users, teams : SUBSET Teams]
    /\ accounts \subseteq spent.users /\ teams \subseteq spent.teams
    /\ owner \in [Teams -> Users]
    /\ role \in [Teams -> MemberLists]
    /\ xlocks \in SUBSET (Txs \X Rows) /\ klocks \in SUBSET (Txs \X Rows)
    /\ tx \in [Txs -> TxStates]
    /\ ops \in 0 .. MaxOps

(* A row that is locked exclusively is locked by nobody else.              *)
Exclusion ==
    \A x, y \in Txs : \A row \in Rows :
        HoldsX(x, row) /\ (HoldsX(y, row) \/ HoldsK(y, row)) => x = y

(* A user row that a foreign key check has locked stays.                   *)
References ==
    \A x \in Txs : \A u \in Users :
        HoldsK(x, UserRow(u)) => u \in accounts /\ tx[x].pc \in {"insert", "heir"}

(* Which handler is where, and with what.                                  *)
Shape(p) ==
    /\ p.pc = "idle" => p.kind = "none"
    /\ p.pc = "team" => p.kind \in {"edit", "leave"} /\ p.seen = {}
    /\ p.pc = "actor" => p.kind = "edit"
    /\ p.pc = "members" => p.kind \in {"edit", "leave"} /\ p.rows \subseteq Users
    /\ p.pc = "insert" => p.kind \in {"edit", "create"} /\ p.rows \subseteq Users
    /\ p.pc = "heir" => p.kind = "leave" /\ p.rows \subseteq Users
    /\ p.pc \in {"begin", "admins", "target"} => p.kind \in {"delete", "update"}
    /\ p.pc = "admins" => p.rows \subseteq Users
    /\ p.pc = "cascade" => p.kind = "delete" /\ p.rows \subseteq Teams
    /\ p.pc = "write" => p.kind = "update"
    /\ p.kind \in {"edit", "leave", "create"} => p.team \in Teams /\ p.actor \in Users
    /\ p.kind \in {"delete", "update"} => p.actor \in Users /\ p.target \in Users
    /\ p.kind = "delete" => p.actor # p.target
    /\ p.kind = "update" => p.admin \/ p.actor # p.target

(* updateTeam and LeaveTeam hold the row of the team, and know its owner.  *)
HoldsTeam(x, p) ==
    p.kind \in {"edit", "leave"} /\ p.pc \in {"actor", "members", "insert", "heir"} =>
        HoldsX(x, TeamRow(p.team)) /\ p.team \in teams /\ p.own = owner[p.team]

(* The members they have read are locked and stay members.                 *)
HoldsMembers(x, p) ==
    p.kind \in {"edit", "leave"} /\ p.pc \in {"members", "insert", "heir"} =>
        \A u \in p.seen : HoldsX(x, MemberRow(p.team, u)) /\ role[p.team][u] # NotMember

(* The actor of an edit is and stays a team administrator, and the owner   *)
(* is one in the new list.                                                 *)
HoldsActor(x, p) ==
    p.kind = "edit" /\ p.pc \in {"members", "insert"} =>
        /\ HoldsX(x, MemberRow(p.team, p.actor)) /\ role[p.team][p.actor] = 0
        /\ p.list[p.own] = 0

(* Who is inserted as a member has a locked account.                       *)
HoldsInserted(x, p) ==
    p.pc = "insert" =>
        \A u \in Users : p.list[u] # NotMember =>
            \/ u \in p.rows \/ HoldsK(x, UserRow(u))
            \/ p.kind = "edit" /\ u \in p.seen

(* A team that is being created is new, and its creator administers it.    *)
HoldsNewTeam(p) ==
    p.kind = "create" => p.list[p.actor] = 0 /\ p.team \in spent.teams \ teams

(* The successor of an owner who leaves is another member.                 *)
HoldsHeir(x, p) ==
    p.pc = "heir" =>
        /\ p.own = p.actor /\ p.seen \ {p.actor} # {}
        /\ p.rows = {Successor(p)} \/ (p.rows = {} /\ HoldsK(x, UserRow(Successor(p))))

(* The administrators that were read are locked and stay administrators.   *)
HoldsAdmins(x, p) ==
    /\ p.pc \in {"admins", "target", "cascade", "write"} =>
          \A u \in p.seen : HoldsX(x, UserRow(u)) /\ u \in admins
    /\ p.pc \in {"target", "cascade", "write"} => p.actor \in p.seen
    /\ p.kind = "delete" /\ p.pc \in {"target", "cascade"} => hash[p.actor] = p.reauth
    /\ p.pc = "write" /\ ((p.target \in admins) # p.admin \/ p.pwd) => hash[p.actor] = p.reauth

(* The user who is deleted or changed is locked, and so is or will be      *)
(* every membership of a deleted user.                                     *)
HoldsTarget(x, p) ==
    /\ p.pc \in {"cascade", "write"} => p.target \in accounts /\ HoldsX(x, UserRow(p.target))
    /\ p.pc = "cascade" => \A t \in teams : role[t][p.target] # NotMember =>
          t \in p.rows \/ HoldsX(x, MemberRow(t, p.target))

Keeps(x, p) ==
    /\ Shape(p) /\ HoldsTeam(x, p) /\ HoldsMembers(x, p) /\ HoldsActor(x, p)
    /\ HoldsInserted(x, p) /\ HoldsNewTeam(p) /\ HoldsHeir(x, p)
    /\ HoldsAdmins(x, p) /\ HoldsTarget(x, p)

(* No two handlers create the same team.                                   *)
Distinct ==
    \A x, y \in Txs : tx[x].kind = "create" /\ tx[y].kind = "create" /\ tx[x].team = tx[y].team => x = y

(* The inductive invariant.                                                *)
IInv ==
    /\ DbType /\ Exclusion /\ References /\ Distinct
    /\ \A x \in Txs : Keeps(x, tx[x])
    /\ OwnerAdministers /\ AdministratorRemains

-----------------------------------------------------------------------------
(* Rows and their smallest id.                                             *)

LessThan == {ss \in Nat \X Nat : ss[1] < ss[2]}

LEMMA LessThanWellFounded == IsWellFoundedOn(LessThan, Nat)
<1>1. LessThan = OpToRel(<, Nat)
  BY Zenon DEF OpToRel, LessThan
<1> QED  BY <1>1, NatLessThanWellFounded, Zenon

(* The statement that locks rows in the order of their ids has a next one. *)
LEMMA MinIn ==
    ASSUME NEW S \in SUBSET Nat, S # {}
    PROVE  Min(S) \in S
<1>1. PICK a \in S : \A b \in S : ~(<<b, a>> \in LessThan)
  BY LessThanWellFounded, WFMin
<1>2. ASSUME NEW b \in S
      PROVE  a <= b
  <2>1. <<b, a>> \in Nat \X Nat /\ ~(<<b, a>> \in LessThan)
    BY <1>1
  <2> QED  BY <2>1 DEF LessThan
<1> QED  BY <1>2 DEF Min

LEMMA MinOfOne ==
    ASSUME NEW a \in Nat
    PROVE  Min({a}) = a
BY DEF Min

(* The rows of different users, teams and members are different rows.      *)
LEMMA RowFacts ==
    /\ \A u \in Users : UserRow(u) \in Rows
    /\ \A t \in Teams : TeamRow(t) \in Rows
    /\ \A t \in Teams, u \in Users : MemberRow(t, u) \in Rows
    /\ \A u, v \in Users : UserRow(u) = UserRow(v) => u = v
    /\ \A t, s \in Teams : TeamRow(t) = TeamRow(s) => t = s
    /\ \A t, s \in Teams : \A u, v \in Users : MemberRow(t, u) = MemberRow(s, v) => t = s /\ u = v
    /\ \A t \in Teams, u \in Users : UserRow(u) # TeamRow(t)
    /\ \A t \in Teams, u, v \in Users : UserRow(u) # MemberRow(t, v)
    /\ \A t, s \in Teams, v \in Users : TeamRow(t) # MemberRow(s, v)
<1>1. /\ \A u \in Users : UserRow(u) \in Rows
      /\ \A t \in Teams : TeamRow(t) \in Rows
      /\ \A t \in Teams, u \in Users : MemberRow(t, u) \in Rows
  BY DEF Rows
<1>2. /\ \A u, v \in Users : UserRow(u) = UserRow(v) => u = v
      /\ \A t, s \in Teams : TeamRow(t) = TeamRow(s) => t = s
      /\ \A t, s \in Teams : \A u, v \in Users : MemberRow(t, u) = MemberRow(s, v) => t = s /\ u = v
  BY DEF UserRow, TeamRow, MemberRow
<1>3. /\ \A t \in Teams, u \in Users : UserRow(u) # TeamRow(t)
      /\ \A t \in Teams, u, v \in Users : UserRow(u) # MemberRow(t, v)
      /\ \A t, s \in Teams, v \in Users : TeamRow(t) # MemberRow(s, v)
  BY DEF UserRow, TeamRow, MemberRow
<1> QED  BY <1>1, <1>2, <1>3

-----------------------------------------------------------------------------
(* What a step of x does to the locks: those of the others stay, and x     *)
(* gets none that another handler's keeps from it.                         *)
LocksStep(x) ==
    /\ xlocks' \in SUBSET (Txs \X Rows) /\ klocks' \in SUBSET (Txs \X Rows)
    /\ \A y \in Txs \ {x} : \A row \in Rows :
          (HoldsX(y, row)' <=> HoldsX(y, row)) /\ (HoldsK(y, row)' <=> HoldsK(y, row))
    /\ \A y \in Txs \ {x} : \A row \in Rows :
          /\ HoldsX(x, row)' => ~HoldsX(y, row) /\ ~HoldsK(y, row)
          /\ HoldsK(x, row)' => ~HoldsX(y, row)

LEMMA LocksExclude ==
    ASSUME IInv, NEW x \in Txs, LocksStep(x)
    PROVE  Exclusion'
<1>1. \A y, z \in Txs : \A row \in Rows :
          HoldsX(y, row) /\ (HoldsX(z, row) \/ HoldsK(z, row)) => y = z
  BY DEF IInv, Exclusion
<1>2. ASSUME NEW y \in Txs, NEW z \in Txs, NEW row \in Rows, HoldsX(y, row)',
             HoldsX(z, row)' \/ HoldsK(z, row)'
      PROVE  y = z
  BY <1>1, <1>2 DEF LocksStep
<1> QED  BY <1>2 DEF Exclusion

LEMMA LockXStep ==
    ASSUME IInv, NEW x \in Txs, NEW row \in Rows, Granted(x), Wants(x) = {<<"x", row>>}, LockX(x, row)
    PROVE  /\ LocksStep(x)
           /\ \A w \in Rows : HoldsX(x, w)' <=> HoldsX(x, w) \/ w = row
           /\ \A w \in Rows : HoldsK(x, w)' <=> HoldsK(x, w)
<1>1. \A y \in Txs \ {x} : <<y, row>> \notin xlocks /\ <<y, row>> \notin klocks
  <2> SUFFICES ASSUME NEW y \in Txs \ {x}, <<y, row>> \in xlocks \/ <<y, row>> \in klocks
               PROVE  FALSE
    OBVIOUS
  <2>1. \E w \in Wants(x) : w[1] = "x" /\ w[2] = row
    <3>1. <<"x", row>> \in Wants(x)
      OBVIOUS
    <3>2. <<"x", row>>[1] = "x" /\ <<"x", row>>[2] = row
      OBVIOUS
    <3> QED  BY <3>1, <3>2
  <2>2. y \in Blockers(x)
    BY <2>1 DEF Blockers
  <2> QED  BY <2>2 DEF Granted
<1>2. xlocks' = xlocks \cup {<<x, row>>} /\ klocks' = klocks
  BY DEF LockX
<1>3. xlocks \in SUBSET (Txs \X Rows) /\ klocks \in SUBSET (Txs \X Rows)
  BY DEF IInv, DbType
<1>4. \A y \in Txs : \A w \in Rows :
          (HoldsX(y, w)' <=> HoldsX(y, w) \/ (y = x /\ w = row)) /\ (HoldsK(y, w)' <=> HoldsK(y, w))
  BY <1>2 DEF HoldsX, HoldsK
<1>5. \A y, z \in Txs : \A w \in Rows :
          HoldsX(y, w) /\ (HoldsX(z, w) \/ HoldsK(z, w)) => y = z
  BY DEF IInv, Exclusion
<1>6. xlocks' \in SUBSET (Txs \X Rows) /\ klocks' \in SUBSET (Txs \X Rows)
  BY <1>2, <1>3
<1>7. \A y \in Txs \ {x} : ~HoldsX(y, row) /\ ~HoldsK(y, row)
  BY <1>1 DEF HoldsX, HoldsK
<1>8. LocksStep(x)
  BY <1>4, <1>5, <1>6, <1>7 DEF LocksStep
<1> QED  BY <1>4, <1>8

LEMMA LockKStep ==
    ASSUME IInv, NEW x \in Txs, NEW row \in Rows, Granted(x), Wants(x) = {<<"k", row>>}, LockK(x, row)
    PROVE  /\ LocksStep(x)
           /\ \A w \in Rows : HoldsX(x, w)' <=> HoldsX(x, w)
           /\ \A w \in Rows : HoldsK(x, w)' <=> HoldsK(x, w) \/ w = row
<1>1. \A y \in Txs \ {x} : <<y, row>> \notin xlocks
  <2> SUFFICES ASSUME NEW y \in Txs \ {x}, <<y, row>> \in xlocks
               PROVE  FALSE
    OBVIOUS
  <2>1. \E w \in Wants(x) : w[2] = row
    <3>1. <<"k", row>> \in Wants(x)
      OBVIOUS
    <3>2. <<"k", row>>[2] = row
      OBVIOUS
    <3> QED  BY <3>1, <3>2
  <2>2. y \in Blockers(x)
    BY <2>1 DEF Blockers
  <2> QED  BY <2>2 DEF Granted
<1>2. klocks' = klocks \cup {<<x, row>>} /\ xlocks' = xlocks
  BY DEF LockK
<1>3. xlocks \in SUBSET (Txs \X Rows) /\ klocks \in SUBSET (Txs \X Rows)
  BY DEF IInv, DbType
<1>4. \A y \in Txs : \A w \in Rows :
          (HoldsK(y, w)' <=> HoldsK(y, w) \/ (y = x /\ w = row)) /\ (HoldsX(y, w)' <=> HoldsX(y, w))
  BY <1>2 DEF HoldsX, HoldsK
<1>5. \A y, z \in Txs : \A w \in Rows :
          HoldsX(y, w) /\ (HoldsX(z, w) \/ HoldsK(z, w)) => y = z
  BY DEF IInv, Exclusion
<1>6. xlocks' \in SUBSET (Txs \X Rows) /\ klocks' \in SUBSET (Txs \X Rows)
  BY <1>2, <1>3
<1>7. \A y \in Txs \ {x} : ~HoldsX(y, row)
  BY <1>1 DEF HoldsX
<1>8. LocksStep(x)
  BY <1>4, <1>5, <1>6, <1>7 DEF LocksStep
<1> QED  BY <1>4, <1>8

LEMMA NoLockStep ==
    ASSUME IInv, NEW x \in Txs, UNCHANGED <<xlocks, klocks>>
    PROVE  /\ LocksStep(x)
           /\ \A w \in Rows : (HoldsX(x, w)' <=> HoldsX(x, w)) /\ (HoldsK(x, w)' <=> HoldsK(x, w))
<1>1. xlocks \in SUBSET (Txs \X Rows) /\ klocks \in SUBSET (Txs \X Rows)
  BY DEF IInv, DbType
<1>2. \A y, z \in Txs : \A w \in Rows :
          HoldsX(y, w) /\ (HoldsX(z, w) \/ HoldsK(z, w)) => y = z
  BY DEF IInv, Exclusion
<1>3. \A y \in Txs : \A w \in Rows : (HoldsX(y, w)' <=> HoldsX(y, w)) /\ (HoldsK(y, w)' <=> HoldsK(y, w))
  BY DEF HoldsX, HoldsK
<1> QED  BY <1>1, <1>2, <1>3 DEF LocksStep

LEMMA ReleaseStep ==
    ASSUME IInv, NEW x \in Txs, xlocks' = {l \in xlocks : l[1] # x}, klocks' = {l \in klocks : l[1] # x}
    PROVE  /\ LocksStep(x)
           /\ \A w \in Rows : ~HoldsX(x, w)' /\ ~HoldsK(x, w)'
<1>1. xlocks \in SUBSET (Txs \X Rows) /\ klocks \in SUBSET (Txs \X Rows)
  BY DEF IInv, DbType
<1>2. \A y \in Txs : \A w \in Rows : <<y, w>>[1] = y
  OBVIOUS
<1>3. \A y \in Txs : \A w \in Rows :
          (HoldsX(y, w)' <=> HoldsX(y, w) /\ y # x) /\ (HoldsK(y, w)' <=> HoldsK(y, w) /\ y # x)
  BY <1>2 DEF HoldsX, HoldsK
<1> QED  BY <1>1, <1>3 DEF LocksStep

-----------------------------------------------------------------------------
(* What the locks of y are for: the rows it holds do not change, no user   *)
(* it holds becomes a member of a team, and the team it creates stays new. *)
Stable(y) ==
    /\ \A t \in Teams : HoldsX(y, TeamRow(t)) /\ t \in teams => t \in teams' /\ owner'[t] = owner[t]
    /\ \A t \in Teams, u \in Users :
          HoldsX(y, TeamRow(t)) /\ HoldsX(y, MemberRow(t, u)) /\ t \in teams
          /\ role[t][u] # NotMember => role'[t][u] = role[t][u]
    /\ spent.teams \subseteq spent'.teams
    /\ tx[y].kind = "create" => tx[y].team \notin teams'
    /\ \A u \in Users : HoldsX(y, UserRow(u)) /\ u \in accounts =>
          u \in accounts' /\ (u \in admins <=> u \in admins') /\ hash'[u] = hash[u]
    /\ \A t \in teams', u \in Users : HoldsX(y, UserRow(u)) /\ u \in accounts /\ role'[t][u] # NotMember =>
          t \in teams /\ role[t][u] # NotMember

(* A handler keeps what it relies on through the steps of the others.      *)
LEMMA OthersKeep ==
    ASSUME IInv, NEW y \in Txs, Stable(y), tx'[y] = tx[y],
           \A row \in Rows : (HoldsX(y, row)' <=> HoldsX(y, row)) /\ (HoldsK(y, row)' <=> HoldsK(y, row))
    PROVE  Keeps(y, tx[y])'
<1>1. PICK p : p = tx[y] /\ p \in TxStates /\ Keeps(y, p)
  BY DEF IInv, DbType
<1>2. \A row \in Rows : (HoldsX(y, row)' <=> HoldsX(y, row)) /\ (HoldsK(y, row)' <=> HoldsK(y, row))
  OBVIOUS
<1>3. Shape(p) /\ Shape(p)'
  BY <1>1 DEF Keeps, Shape
<1>4. p.seen \subseteq Users /\ admins \subseteq accounts /\ teams \subseteq Teams
      /\ spent.teams \subseteq Teams
  BY <1>1 DEF TxStates, IInv, DbType
<1>5. HoldsTeam(y, p)'
  BY <1>1, <1>2, <1>3, RowFacts DEF Keeps, HoldsTeam, Stable, Shape
<1>6. HoldsMembers(y, p)'
  BY <1>1, <1>2, <1>3, <1>4, RowFacts DEF Keeps, HoldsTeam, HoldsMembers, Stable, Shape
<1>7. HoldsActor(y, p)'
  BY <1>1, <1>2, <1>3, RowFacts DEF Keeps, HoldsTeam, HoldsActor, Stable, Shape, NotMember
<1>8. HoldsInserted(y, p)'
  BY <1>1, <1>2, RowFacts DEF Keeps, HoldsInserted
<1>9. HoldsNewTeam(p)'
  BY <1>1 DEF Keeps, HoldsNewTeam, Stable
<1>10. HoldsHeir(y, p)'
  <2>1. p.pc = "heir" /\ p.seen \ {p.actor} # {} => Successor(p) \in Users
    BY <1>4, MinIn, IdsAssumption DEF Successor
  <2>2. Successor(p)' = Successor(p)
    BY DEF Successor
  <2> QED  BY <1>1, <1>2, <2>1, <2>2, RowFacts DEF Keeps, HoldsHeir
<1>11. HoldsAdmins(y, p)'
  <2>1. p.pc \in {"admins", "target", "cascade", "write"} =>
            \A u \in p.seen : HoldsX(y, UserRow(u))' /\ u \in admins' /\ hash'[u] = hash[u]
    BY <1>1, <1>2, <1>4, RowFacts DEF Keeps, HoldsAdmins, Stable
  <2>2. p.pc \in {"target", "cascade", "write"} => p.actor \in p.seen
    BY <1>1 DEF Keeps, HoldsAdmins
  <2>3. p.pc = "write" => (p.target \in admins' <=> p.target \in admins)
    BY <1>1, <1>3 DEF Keeps, HoldsTarget, Stable, Shape
  <2>4. /\ p.kind = "delete" /\ p.pc \in {"target", "cascade"} => hash'[p.actor] = p.reauth
        /\ p.pc = "write" /\ ((p.target \in admins') # p.admin \/ p.pwd) => hash'[p.actor] = p.reauth
    BY <1>1, <2>1, <2>2, <2>3 DEF Keeps, HoldsAdmins
  <2> QED  BY <2>1, <2>2, <2>4 DEF HoldsAdmins
<1>12. HoldsTarget(y, p)'
  <2>1. p.pc \in {"cascade", "write"} =>
            p.target \in Users /\ p.target \in accounts /\ HoldsX(y, UserRow(p.target))
    BY <1>1, <1>3 DEF Keeps, HoldsTarget, Shape
  <2>2. p.pc \in {"cascade", "write"} => p.target \in accounts' /\ HoldsX(y, UserRow(p.target))'
    BY <1>2, <2>1, RowFacts DEF Stable
  <2>3. p.pc = "cascade" => \A t \in teams' : role'[t][p.target] # NotMember =>
            t \in teams /\ role[t][p.target] # NotMember
    BY <2>1 DEF Stable
  <2>4. p.pc = "cascade" => \A t \in teams' : role'[t][p.target] # NotMember =>
            t \in p.rows \/ HoldsX(y, MemberRow(t, p.target))'
    BY <1>1, <1>2, <1>4, <2>1, <2>3, RowFacts DEF Keeps, HoldsTarget
  <2> QED  BY <2>2, <2>4 DEF HoldsTarget
<1>13. Keeps(y, p)'
  BY <1>3, <1>5, <1>6, <1>7, <1>8, <1>9, <1>10, <1>11, <1>12 DEF Keeps
<1>14. tx'[y] = p
  BY <1>1
<1> QED  BY <1>13, <1>14 DEF Keeps, Shape, HoldsTeam, HoldsMembers, HoldsActor, HoldsInserted,
                             HoldsNewTeam, HoldsHeir, HoldsAdmins, HoldsTarget, HoldsX, HoldsK, Successor

(* The rows of the tables have their types, and ids are given out once.    *)
DataType ==
    /\ accounts \subseteq Users /\ admins \subseteq accounts
    /\ hash \in [Users -> Nat]
    /\ spent \in [users : SUBSET Users, teams : SUBSET Teams]
    /\ accounts \subseteq spent.users /\ teams \subseteq spent.teams
    /\ owner \in [Teams -> Users]
    /\ role \in [Teams -> MemberLists]
    /\ ops \in 0 .. MaxOps

(* Who x refers to by a foreign key is there, while x inserts.             *)
RefersOK(x, q) ==
    \A u \in Users : HoldsK(x, UserRow(u)) => u \in accounts /\ q.pc \in {"insert", "heir"}

(* The team of a creation is nobody else's.                                *)
OwnTeam(x, q) ==
    q.kind = "create" => \A y \in Txs \ {x} : ~(tx[y].kind = "create" /\ tx[y].team = q.team)

(* A step of handler x: what it has to establish itself, and what it must  *)
(* leave to the others.                                                    *)
LEMMA HandlerStep ==
    ASSUME IInv, NEW x \in Txs, NEW q \in TxStates, tx' = [tx EXCEPT ![x] = q],
           DataType', LocksStep(x), RefersOK(x, q)',
           \A y \in Txs \ {x} : \A u \in Users : HoldsK(y, UserRow(u)) => u \in accounts',
           Keeps(x, q)', OwnTeam(x, q), OwnerAdministers', AdministratorRemains',
           \A y \in Txs \ {x} : Stable(y)
    PROVE  IInv'
<1>1. tx \in [Txs -> TxStates] /\ tx' \in [Txs -> TxStates] /\ tx'[x] = q /\ \A y \in Txs \ {x} : tx'[y] = tx[y]
  BY DEF IInv, DbType
<1>2. DbType'
  BY <1>1 DEF DataType, DbType, LocksStep
<1>3. Exclusion'
  BY LocksExclude
<1>4. References'
  <2>1. \A y \in Txs \ {x} : \A u \in Users : HoldsK(y, UserRow(u))' => u \in accounts' /\ tx'[y].pc \in {"insert", "heir"}
    BY <1>1, RowFacts DEF IInv, References, LocksStep
  <2>2. \A u \in Users : HoldsK(x, UserRow(u))' => u \in accounts' /\ tx'[x].pc \in {"insert", "heir"}
    BY <1>1 DEF RefersOK
  <2> QED  BY <2>1, <2>2 DEF References
<1>5. Distinct'
  BY <1>1 DEF IInv, Distinct, OwnTeam
<1>6. ASSUME NEW y \in Txs
      PROVE  Keeps(y, tx[y])'
  <2>1. CASE y # x
    <3>1. \A row \in Rows : (HoldsX(y, row)' <=> HoldsX(y, row)) /\ (HoldsK(y, row)' <=> HoldsK(y, row))
      BY <2>1 DEF LocksStep
    <3> QED  BY <1>1, <2>1, <3>1, OthersKeep
  <2>2. CASE y = x
    <3>1. tx'[y] = q
      BY <1>1, <2>2
    <3> QED  BY <3>1, <2>2 DEF Keeps, Shape, HoldsTeam, HoldsMembers, HoldsActor, HoldsInserted,
                             HoldsNewTeam, HoldsHeir, HoldsAdmins, HoldsTarget, HoldsX, HoldsK, Successor
  <2> QED  BY <2>1, <2>2
<1> QED  BY <1>2, <1>3, <1>4, <1>5, <1>6 DEF IInv

(* A step that writes no row but may draw ids.                             *)
LEMMA QuietStep ==
    ASSUME IInv, NEW x \in Txs, NEW q \in TxStates, tx' = [tx EXCEPT ![x] = q],
           UNCHANGED <<accounts, admins, hash, teams, owner, role>>,
           spent' \in [users : SUBSET Users, teams : SUBSET Teams],
           spent.users \subseteq spent'.users, spent.teams \subseteq spent'.teams,
           ops' \in 0 .. MaxOps,
           LocksStep(x), RefersOK(x, q)', Keeps(x, q)', OwnTeam(x, q)
    PROVE  IInv'
<1>1. DataType'
  BY DEF DataType, IInv, DbType
<1>2. \A y \in Txs : \A u \in Users : HoldsK(y, UserRow(u)) => u \in accounts'
  BY DEF IInv, References
<1>3. OwnerAdministers' /\ AdministratorRemains'
  BY DEF IInv, OwnerAdministers, AdministratorRemains
<1>4. ASSUME NEW y \in Txs
      PROVE  Stable(y)
  <2>1. tx[y].kind = "create" => tx[y].team \notin teams'
    BY DEF IInv, Keeps, HoldsNewTeam
  <2> QED  BY <2>1 DEF Stable
<1> QED  BY <1>1, <1>2, <1>3, <1>4, HandlerStep

LEMMA IdleFacts ==
    /\ Idle \in TxStates
    /\ Idle.pc = "idle" /\ Idle.kind = "none" /\ Idle.rows = {} /\ Idle.seen = {}
<1>1. [u \in Users |-> NotMember] \in MemberLists
  BY DEF MemberLists
<1> QED  BY <1>1 DEF Idle, TxStates

LEMMA IdleKeeps ==
    ASSUME NEW x \in Txs
    PROVE  Keeps(x, Idle) /\ Keeps(x, Idle)'
<1>1. Shape(Idle) /\ Shape(Idle)'
  BY IdleFacts DEF Shape
<1>2. /\ HoldsTeam(x, Idle) /\ HoldsMembers(x, Idle) /\ HoldsActor(x, Idle) /\ HoldsInserted(x, Idle)
      /\ HoldsNewTeam(Idle) /\ HoldsHeir(x, Idle) /\ HoldsAdmins(x, Idle) /\ HoldsTarget(x, Idle)
  BY IdleFacts DEF HoldsTeam, HoldsMembers, HoldsActor, HoldsInserted, HoldsNewTeam, HoldsHeir, HoldsAdmins, HoldsTarget
<1>3. /\ HoldsTeam(x, Idle)' /\ HoldsMembers(x, Idle)' /\ HoldsActor(x, Idle)' /\ HoldsInserted(x, Idle)'
      /\ HoldsNewTeam(Idle)' /\ HoldsHeir(x, Idle)' /\ HoldsAdmins(x, Idle)' /\ HoldsTarget(x, Idle)'
  BY IdleFacts DEF HoldsTeam, HoldsMembers, HoldsActor, HoldsInserted, HoldsNewTeam, HoldsHeir, HoldsAdmins, HoldsTarget
<1> QED  BY <1>1, <1>2, <1>3 DEF Keeps

(* The transaction of x commits: it has written rows that no other handler *)
(* has locked.                                                             *)
LEMMA CommitStep ==
    ASSUME IInv, NEW x \in Txs, Release(x), DataType',
           \A y \in Txs \ {x} : \A u \in Users : HoldsK(y, UserRow(u)) => u \in accounts',
           OwnerAdministers', AdministratorRemains',
           \A y \in Txs \ {x} : Stable(y)
    PROVE  IInv'
<1>1. /\ tx' = [tx EXCEPT ![x] = Idle]
      /\ xlocks' = {l \in xlocks : l[1] # x} /\ klocks' = {l \in klocks : l[1] # x}
  BY DEF Release
<1>2. LocksStep(x) /\ \A w \in Rows : ~HoldsX(x, w)' /\ ~HoldsK(x, w)'
  BY <1>1, ReleaseStep
<1>3. RefersOK(x, Idle)'
  BY <1>2, RowFacts DEF RefersOK
<1>4. OwnTeam(x, Idle)
  BY IdleFacts DEF OwnTeam
<1>5. Keeps(x, Idle)' /\ Idle \in TxStates
  BY IdleKeeps, IdleFacts
<1> QED  BY <1>1, <1>2, <1>3, <1>4, <1>5, HandlerStep

(* The transaction of x ends and leaves nothing behind.                    *)
LEMMA RollbackStep ==
    ASSUME IInv, NEW x \in Txs, Rollback(x)
    PROVE  IInv'
<1>1. /\ tx' = [tx EXCEPT ![x] = Idle]
      /\ xlocks' = {l \in xlocks : l[1] # x} /\ klocks' = {l \in klocks : l[1] # x}
      /\ UNCHANGED <<accounts, admins, hash, spent, teams, owner, role, ops>>
  BY DEF Rollback, Release, db
<1>2. LocksStep(x) /\ \A w \in Rows : ~HoldsX(x, w)' /\ ~HoldsK(x, w)'
  BY <1>1, ReleaseStep
<1>3. RefersOK(x, Idle)'
  BY <1>2, RowFacts DEF RefersOK
<1>4. OwnTeam(x, Idle)
  BY IdleFacts DEF OwnTeam
<1>5. Keeps(x, Idle)' /\ Idle \in TxStates
  BY IdleKeeps, IdleFacts
<1>6. /\ spent' \in [users : SUBSET Users, teams : SUBSET Teams] /\ ops' \in 0 .. MaxOps
      /\ spent.users \subseteq spent'.users /\ spent.teams \subseteq spent'.teams
  BY <1>1 DEF IInv, DbType
<1> QED  BY <1>1, <1>2, <1>3, <1>4, <1>5, <1>6, QuietStep

-----------------------------------------------------------------------------
(* A handler goes on with the same request.                                *)

Pcs == {"idle", "team", "actor", "members", "insert", "heir", "begin",
        "admins", "target", "cascade", "write"}

SameRequest(p, q) ==
    /\ q.kind = p.kind /\ q.actor = p.actor /\ q.team = p.team /\ q.target = p.target
    /\ q.list = p.list /\ q.admin = p.admin /\ q.pwd = p.pwd /\ q.reauth = p.reauth
    /\ q.own = p.own

Moved(p, pc, rows, seen) == [p EXCEPT !.pc = pc, !.rows = rows, !.seen = seen]

GoesTo(p, q, pc, rows, seen) ==
    /\ q = Moved(p, pc, rows, seen)
    /\ q.pc = pc /\ q.rows = rows /\ q.seen = seen /\ SameRequest(p, q)

LEMMA GotoFields ==
    ASSUME NEW p \in TxStates, NEW pc \in Pcs, NEW rows \in SUBSET (Users \cup Teams),
           NEW seen \in SUBSET Users
    PROVE  \E q \in TxStates : GoesTo(p, q, pc, rows, seen)
<1>1. PICK q : q = Moved(p, pc, rows, seen)
  OBVIOUS
<1>2. q \in TxStates /\ q.pc = pc /\ q.rows = rows /\ q.seen = seen
  BY <1>1 DEF TxStates, Pcs, Moved
<1>3. SameRequest(p, q)
  BY <1>1 DEF TxStates, SameRequest, Moved
<1> QED  BY <1>1, <1>2, <1>3 DEF GoesTo

LEMMA GotoStep ==
    ASSUME IInv, NEW x \in Txs, NEW pc, NEW rows, NEW seen, NEW q \in TxStates,
           Goto(x, pc, rows, seen), GoesTo(tx[x], q, pc, rows, seen),
           UNCHANGED <<db, ops>>, LocksStep(x), RefersOK(x, q)', Keeps(x, q)'
    PROVE  IInv'
<1>1. PICK p : p = tx[x] /\ p \in TxStates
  BY DEF IInv, DbType
<1>2. tx' = [tx EXCEPT ![x] = q]
  BY <1>1 DEF Goto, IInv, DbType, GoesTo, Moved
<1>3. q.kind = p.kind /\ q.team = p.team
  BY <1>1 DEF GoesTo, SameRequest
<1>4. OwnTeam(x, q)
  BY <1>1, <1>3 DEF IInv, Distinct, OwnTeam
<1>5. /\ UNCHANGED <<accounts, admins, hash, teams, owner, role>>
      /\ spent' \in [users : SUBSET Users, teams : SUBSET Teams] /\ ops' \in 0 .. MaxOps
      /\ spent.users \subseteq spent'.users /\ spent.teams \subseteq spent'.teams
  BY DEF IInv, DbType, db
<1> QED  BY <1>2, <1>4, <1>5, QuietStep

(* A handler that has not begun to insert refers to nobody.                *)
LEMMA NoReferences ==
    ASSUME IInv, NEW x \in Txs, tx[x].pc \notin {"insert", "heir"}, NEW q,
           \A w \in Rows : HoldsK(x, w)' <=> HoldsK(x, w)
    PROVE  RefersOK(x, q)'
BY RowFacts DEF RefersOK, IInv, References

LEMMA LockMemberStep ==
    ASSUME IInv, NEW x \in Txs, LockMember(x)
    PROVE  IInv'
<1>1. PICK p : p = tx[x] /\ p \in TxStates /\ Keeps(x, p)
  BY DEF IInv, DbType
<1>2. p.pc = "members" /\ p.rows # {} /\ Granted(x) /\ UNCHANGED <<db, ops>>
  BY <1>1 DEF LockMember
<1>3. PICK u : u = Min(p.rows) /\ u \in p.rows /\ u \in Users
  <2>1. p.rows \in SUBSET Nat /\ p.rows \subseteq Users
    BY <1>1, <1>2, IdsAssumption DEF Keeps, Shape
  <2> QED  BY <1>2, <2>1, MinIn
<1>4. p.kind \in {"edit", "leave"} /\ p.team \in Teams /\ p.actor \in Users /\ p.rows \subseteq Users /\ p.seen \subseteq Users
  BY <1>1, <1>2 DEF Keeps, Shape, TxStates
<1>5. UNCHANGED <<accounts, admins, hash, spent, teams, owner, role>>
  BY <1>2 DEF db
<1>6. CASE u \in Members(p.team)
  <2>1. LockX(x, MemberRow(p.team, u)) /\ Goto(x, "members", p.rows \ {u}, p.seen \cup {u})
    BY <1>1, <1>3, <1>6 DEF LockMember
  <2>2. PICK q \in TxStates : GoesTo(p, q, "members", p.rows \ {u}, p.seen \cup {u})
    <3>1. "members" \in Pcs /\ p.rows \ {u} \in SUBSET (Users \cup Teams) /\ p.seen \cup {u} \in SUBSET Users
      BY <1>3, <1>4 DEF Pcs
    <3> QED  BY <1>1, <3>1, GotoFields
  <2>3. Wants(x) = {<<"x", MemberRow(p.team, u)>>}
    BY <1>1, <1>2, <1>3 DEF Wants
  <2>4. /\ LocksStep(x)
        /\ \A w \in Rows : HoldsX(x, w)' <=> HoldsX(x, w) \/ w = MemberRow(p.team, u)
        /\ \A w \in Rows : HoldsK(x, w)' <=> HoldsK(x, w)
    BY <1>2, <1>3, <1>4, <2>1, <2>3, RowFacts, LockXStep
  <2>5. RefersOK(x, q)'
    BY <1>1, <1>2, <2>4, NoReferences
  <2>6. Shape(q)' /\ HoldsTeam(x, q)' /\ HoldsActor(x, q)'
    BY <1>1, <1>2, <1>4, <1>5, <2>2, <2>4, RowFacts DEF Keeps, Shape, HoldsTeam, HoldsActor, SameRequest, GoesTo
  <2>7. HoldsMembers(x, q)'
    <3>1. \A v \in p.seen : HoldsX(x, MemberRow(p.team, v)) /\ role[p.team][v] # NotMember
      BY <1>1, <1>2, <1>4 DEF Keeps, HoldsMembers
    <3>2. role[p.team][u] # NotMember
      BY <1>6 DEF Members
    <3>3. \A v \in q.seen : HoldsX(x, MemberRow(p.team, v))' /\ role'[p.team][v] # NotMember
      BY <1>3, <1>4, <1>5, <2>2, <2>4, <3>1, <3>2, RowFacts DEF GoesTo
    <3> QED  BY <2>2, <3>3 DEF HoldsMembers, SameRequest, GoesTo
  <2>8. /\ HoldsInserted(x, q)' /\ HoldsNewTeam(q)' /\ HoldsHeir(x, q)' /\ HoldsAdmins(x, q)' /\ HoldsTarget(x, q)'
    BY <1>4, <2>2 DEF HoldsInserted, HoldsNewTeam, HoldsHeir, HoldsAdmins, HoldsTarget, SameRequest, GoesTo
  <2>9. Keeps(x, q)'
    BY <2>6, <2>7, <2>8 DEF Keeps
  <2> QED  BY <1>1, <1>2, <2>1, <2>2, <2>4, <2>5, <2>9, GotoStep
<1>7. CASE u \notin Members(p.team)
  <2>1. UNCHANGED <<xlocks, klocks>> /\ Goto(x, "members", p.rows \ {u}, p.seen)
    BY <1>1, <1>3, <1>7 DEF LockMember, locks
  <2>2. PICK q \in TxStates : GoesTo(p, q, "members", p.rows \ {u}, p.seen)
    <3>1. "members" \in Pcs /\ p.rows \ {u} \in SUBSET (Users \cup Teams) /\ p.seen \in SUBSET Users
      BY <1>3, <1>4 DEF Pcs
    <3> QED  BY <1>1, <3>1, GotoFields
  <2>4. LocksStep(x) /\ \A w \in Rows : (HoldsX(x, w)' <=> HoldsX(x, w)) /\ (HoldsK(x, w)' <=> HoldsK(x, w))
    BY <2>1, NoLockStep
  <2>5. RefersOK(x, q)'
    BY <1>1, <1>2, <2>4, NoReferences
  <2>6. Shape(q)' /\ HoldsTeam(x, q)' /\ HoldsActor(x, q)'
    BY <1>1, <1>2, <1>4, <1>5, <2>2, <2>4, RowFacts, ZenonT(60) DEF Keeps, Shape, HoldsTeam, HoldsActor, SameRequest, GoesTo
  <2>7. HoldsMembers(x, q)'
    BY <1>1, <1>2, <1>4, <1>5, <2>2, <2>4, RowFacts DEF Keeps, HoldsMembers, SameRequest, GoesTo
  <2>8. /\ HoldsInserted(x, q)' /\ HoldsNewTeam(q)' /\ HoldsHeir(x, q)' /\ HoldsAdmins(x, q)' /\ HoldsTarget(x, q)'
    BY <1>4, <2>2 DEF HoldsInserted, HoldsNewTeam, HoldsHeir, HoldsAdmins, HoldsTarget, SameRequest, GoesTo
  <2>9. Keeps(x, q)'
    BY <2>6, <2>7, <2>8 DEF Keeps
  <2> QED  BY <1>1, <1>2, <2>1, <2>2, <2>4, <2>5, <2>9, GotoStep
<1> QED  BY <1>6, <1>7

LEMMA LockActorStep ==
    ASSUME IInv, NEW x \in Txs, LockActor(x)
    PROVE  IInv'
<1>1. PICK p : p = tx[x] /\ p \in TxStates /\ Keeps(x, p)
  BY DEF IInv, DbType
<1>2. p.pc = "actor" /\ Granted(x)
  BY <1>1 DEF LockActor
<1>3. p.kind = "edit" /\ p.team \in Teams /\ p.actor \in Users
  BY <1>1, <1>2 DEF Keeps, Shape
<1>4. CASE role[p.team][p.actor] # 0 \/ ~ValidMembers(p.own, p.actor, p.list)
  BY <1>1, <1>4, RollbackStep DEF LockActor
<1>5. CASE ~(role[p.team][p.actor] # 0 \/ ~ValidMembers(p.own, p.actor, p.list))
  <2>1. LockX(x, MemberRow(p.team, p.actor)) /\ Goto(x, "members", Members(p.team), {}) /\ UNCHANGED <<db, ops>>
    BY <1>1, <1>5 DEF LockActor
  <2>2. PICK q \in TxStates : GoesTo(p, q, "members", Members(p.team), {})
    <3>1. "members" \in Pcs /\ Members(p.team) \in SUBSET (Users \cup Teams) /\ {} \in SUBSET Users
      BY DEF Pcs, Members
    <3> QED  BY <1>1, <3>1, GotoFields
  <2>3. Wants(x) = {<<"x", MemberRow(p.team, p.actor)>>}
    BY <1>1, <1>2 DEF Wants
  <2>4. /\ LocksStep(x)
        /\ \A w \in Rows : HoldsX(x, w)' <=> HoldsX(x, w) \/ w = MemberRow(p.team, p.actor)
        /\ \A w \in Rows : HoldsK(x, w)' <=> HoldsK(x, w)
    BY <1>2, <1>3, <2>1, <2>3, RowFacts, LockXStep
  <2>5. RefersOK(x, q)'
    BY <1>1, <1>2, <2>4, NoReferences
  <2>6. UNCHANGED <<accounts, admins, hash, spent, teams, owner, role>>
    BY <2>1 DEF db
  <2>7. Shape(q)' /\ HoldsTeam(x, q)'
    BY <1>1, <1>2, <1>3, <2>2, <2>4, <2>6, RowFacts DEF Keeps, Shape, HoldsTeam, SameRequest, GoesTo, Members
  <2>8. HoldsActor(x, q)'
    BY <1>1, <1>3, <1>5, <2>2, <2>4, <2>6, RowFacts DEF HoldsActor, SameRequest, GoesTo, ValidMembers
  <2>9. /\ HoldsMembers(x, q)' /\ HoldsInserted(x, q)' /\ HoldsNewTeam(q)'
        /\ HoldsHeir(x, q)' /\ HoldsAdmins(x, q)' /\ HoldsTarget(x, q)'
    BY <1>3, <2>2 DEF HoldsMembers, HoldsInserted, HoldsNewTeam, HoldsHeir, HoldsAdmins, HoldsTarget, SameRequest, GoesTo
  <2>10. Keeps(x, q)'
    BY <2>7, <2>8, <2>9 DEF Keeps
  <2> QED  BY <1>1, <2>1, <2>2, <2>4, <2>5, <2>10, GotoStep
<1> QED  BY <1>4, <1>5

LEMMA LockReferencedStep ==
    ASSUME IInv, NEW x \in Txs, LockReferenced(x)
    PROVE  IInv'
<1>1. PICK p : p = tx[x] /\ p \in TxStates /\ Keeps(x, p)
  BY DEF IInv, DbType
<1>2. p.pc \in {"insert", "heir"} /\ p.rows # {} /\ Granted(x)
  BY <1>1 DEF LockReferenced
<1>3. p.rows \subseteq Users /\ p.seen \subseteq Users /\ p.kind \in {"edit", "leave", "create"}
      /\ p.team \in Teams /\ p.actor \in Users
  BY <1>1, <1>2 DEF Keeps, Shape, TxStates
<1>4. PICK u : u = NextRef(p) /\ u \in p.rows /\ u \in Users
  <2>1. p.rows \in SUBSET Nat
    BY <1>3, IdsAssumption
  <2>2. Min(p.rows) \in p.rows
    BY <1>2, <2>1, MinIn
  <2> QED  BY <1>3, <2>2 DEF NextRef
<1>5. CASE u \notin accounts
  BY <1>1, <1>4, <1>5, RollbackStep DEF LockReferenced
<1>6. CASE u \in accounts
  <2>1. LockK(x, UserRow(u)) /\ Goto(x, p.pc, p.rows \ {u}, p.seen) /\ UNCHANGED <<db, ops>>
    BY <1>1, <1>4, <1>6 DEF LockReferenced
  <2>2. PICK q \in TxStates : GoesTo(p, q, p.pc, p.rows \ {u}, p.seen)
    <3>1. p.pc \in Pcs /\ p.rows \ {u} \in SUBSET (Users \cup Teams) /\ p.seen \in SUBSET Users
      BY <1>2, <1>3 DEF Pcs
    <3> QED  BY <1>1, <3>1, GotoFields
  <2>3. Wants(x) = {<<"k", UserRow(u)>>}
    BY <1>1, <1>2, <1>4 DEF Wants
  <2>4. /\ LocksStep(x)
        /\ \A w \in Rows : HoldsX(x, w)' <=> HoldsX(x, w)
        /\ \A w \in Rows : HoldsK(x, w)' <=> HoldsK(x, w) \/ w = UserRow(u)
    BY <1>2, <1>4, <2>1, <2>3, RowFacts, LockKStep
  <2>5. UNCHANGED <<accounts, admins, hash, spent, teams, owner, role>>
    BY <2>1 DEF db
  <2>6. RefersOK(x, q)'
    <3>1. \A v \in Users : HoldsK(x, UserRow(v)) => v \in accounts
      BY DEF IInv, References
    <3>2. \A v \in Users : HoldsK(x, UserRow(v))' => v \in accounts'
      BY <1>4, <1>6, <2>4, <2>5, <3>1, RowFacts
    <3> QED  BY <1>2, <2>2, <3>2 DEF RefersOK, GoesTo
  <2>7. Shape(q)' /\ HoldsTeam(x, q)' /\ HoldsActor(x, q)' /\ HoldsNewTeam(q)'
    BY <1>1, <1>2, <1>3, <2>2, <2>4, <2>5, RowFacts, ZenonT(60) DEF Keeps, Shape, HoldsTeam, HoldsActor, HoldsNewTeam, SameRequest, GoesTo
  <2>8. HoldsMembers(x, q)'
    BY <1>1, <1>2, <1>3, <2>2, <2>4, <2>5, RowFacts DEF Keeps, HoldsMembers, SameRequest, GoesTo
  <2>9. HoldsInserted(x, q)'
    <3>1. p.pc = "insert" =>
            \A v \in Users : p.list[v] # NotMember =>
                v \in p.rows \/ HoldsK(x, UserRow(v)) \/ (p.kind = "edit" /\ v \in p.seen)
      BY <1>1 DEF Keeps, HoldsInserted
    <3>2. p.pc = "insert" =>
            \A v \in Users : p.list[v] # NotMember =>
                v \in p.rows \ {u} \/ HoldsK(x, UserRow(v))' \/ (p.kind = "edit" /\ v \in p.seen)
      BY <1>4, <2>4, <3>1, RowFacts
    <3> QED  BY <2>2, <3>2 DEF HoldsInserted, SameRequest, GoesTo
  <2>10. HoldsHeir(x, q)'
    <3> SUFFICES ASSUME p.pc = "heir"
                 PROVE  HoldsHeir(x, q)'
      BY <2>2 DEF HoldsHeir, GoesTo
    <3>1. p.own = p.actor /\ p.seen \ {p.actor} # {} /\ p.rows = {Successor(p)}
      BY <1>1, <1>2 DEF Keeps, HoldsHeir
    <3>2. Successor(q)' = Successor(p) /\ u = Successor(p) /\ q.rows = {}
      BY <1>4, <2>2, <3>1 DEF Successor, GoesTo, SameRequest
    <3>3. HoldsK(x, UserRow(u))'
      BY <1>4, <2>4, RowFacts
    <3>4. HoldsK(x, UserRow(Successor(q)))'
      BY <3>2, <3>3
    <3> QED  BY <2>2, <3>1, <3>2, <3>4 DEF HoldsHeir, GoesTo, SameRequest
  <2>11. HoldsAdmins(x, q)' /\ HoldsTarget(x, q)'
    BY <1>2, <1>3, <2>2 DEF HoldsAdmins, HoldsTarget, SameRequest, GoesTo
  <2>12. Keeps(x, q)'
    BY <2>7, <2>8, <2>9, <2>10, <2>11 DEF Keeps
  <2> QED  BY <1>1, <2>1, <2>2, <2>4, <2>6, <2>12, GotoStep
<1> QED  BY <1>5, <1>6

-----------------------------------------------------------------------------
(* What updateTeam, LeaveTeam and CreateTeam commit.                       *)

(* Nobody else has the team, the member or the user that x has locked.     *)
LEMMA LockedByX ==
    ASSUME IInv, NEW x \in Txs, NEW y \in Txs \ {x}, NEW row \in Rows
    PROVE  /\ HoldsX(x, row) => ~HoldsX(y, row) /\ ~HoldsK(y, row)
           /\ HoldsK(x, row) => ~HoldsX(y, row)
BY DEF IInv, Exclusion

(* A member list replaces the one of a team that x has locked: whoever is  *)
(* new in it is locked by x.                                               *)
LEMMA ListStable ==
    ASSUME IInv, NEW x \in Txs, NEW y \in Txs \ {x}, NEW t \in Teams, NEW m \in MemberLists,
           HoldsX(x, TeamRow(t)), t \in teams, role' = [role EXCEPT ![t] = m],
           UNCHANGED <<accounts, admins, hash, spent>>,
           teams' \subseteq teams, teams \subseteq teams' \cup {t},
           \A s \in Teams : s # t => owner'[s] = owner[s],
           \A u \in Users : m[u] # NotMember => role[t][u] # NotMember \/ HoldsK(x, UserRow(u))
    PROVE  Stable(y)
<1>1. ~HoldsX(y, TeamRow(t))
  BY LockedByX, RowFacts
<1>2. role \in [Teams -> MemberLists] /\ teams \subseteq Teams
  BY DEF IInv, DbType
<1>3. role'[t] = m /\ \A s \in Teams : s # t => role'[s] = role[s]
  BY <1>2
<1>4. tx[y].kind = "create" => tx[y].team \notin teams'
  BY DEF IInv, Keeps, HoldsNewTeam
<1>5. \A s \in teams', u \in Users : HoldsX(y, UserRow(u)) /\ u \in accounts /\ role'[s][u] # NotMember =>
          s \in teams /\ role[s][u] # NotMember
  BY <1>2, <1>3, LockedByX, RowFacts
<1> QED  BY <1>1, <1>2, <1>3, <1>4, <1>5 DEF Stable

LEMMA MembersReadStep ==
    ASSUME IInv, NEW x \in Txs, MembersRead(x)
    PROVE  IInv'
<1>1. PICK p : p = tx[x] /\ p \in TxStates /\ Keeps(x, p)
  BY DEF IInv, DbType
<1>2. p.pc = "members" /\ p.rows = {}
  BY <1>1 DEF MembersRead
<1>3. /\ p.kind \in {"edit", "leave"} /\ p.team \in Teams /\ p.actor \in Users /\ p.seen \subseteq Users
      /\ p.list \in MemberLists
  BY <1>1, <1>2 DEF Keeps, Shape, TxStates
<1>4. HoldsX(x, TeamRow(p.team)) /\ p.team \in teams /\ p.own = owner[p.team]
  BY <1>1, <1>2, <1>3 DEF Keeps, HoldsTeam
<1>5. \A u \in p.seen : HoldsX(x, MemberRow(p.team, u)) /\ role[p.team][u] # NotMember
  BY <1>1, <1>2, <1>3 DEF Keeps, HoldsMembers
<1>6. DataType
  BY DEF IInv, DbType, DataType
<1>7. CASE p.kind = "edit"
  <2>1. Goto(x, "insert", Listed(p.list) \ p.seen, p.seen) /\ UNCHANGED <<db, locks, ops>>
    BY <1>1, <1>7 DEF MembersRead
  <2>2. PICK q \in TxStates : GoesTo(p, q, "insert", Listed(p.list) \ p.seen, p.seen)
    <3>1. "insert" \in Pcs /\ Listed(p.list) \ p.seen \in SUBSET (Users \cup Teams) /\ p.seen \in SUBSET Users
      BY <1>3 DEF Pcs, Listed
    <3> QED  BY <1>1, <3>1, GotoFields
  <2>3. UNCHANGED <<xlocks, klocks>> /\ UNCHANGED <<accounts, admins, hash, spent, teams, owner, role>>
    BY <2>1 DEF db, locks
  <2>4. LocksStep(x) /\ \A w \in Rows : (HoldsX(x, w)' <=> HoldsX(x, w)) /\ (HoldsK(x, w)' <=> HoldsK(x, w))
    BY <2>3, NoLockStep
  <2>5. RefersOK(x, q)'
    BY <1>1, <1>2, <2>4, NoReferences
  <2>6. Shape(q)' /\ HoldsTeam(x, q)' /\ HoldsActor(x, q)'
    BY <1>1, <1>2, <1>3, <1>7, <2>2, <2>3, <2>4, RowFacts, ZenonT(60) DEF Keeps, Shape, HoldsTeam, HoldsActor, SameRequest, GoesTo, Listed
  <2>7. HoldsMembers(x, q)'
    BY <1>3, <1>5, <2>2, <2>3, <2>4, RowFacts DEF HoldsMembers, SameRequest, GoesTo
  <2>8. HoldsInserted(x, q)'
    BY <1>7, <2>2 DEF HoldsInserted, SameRequest, GoesTo, Listed
  <2>9. HoldsNewTeam(q)' /\ HoldsHeir(x, q)' /\ HoldsAdmins(x, q)' /\ HoldsTarget(x, q)'
    BY <1>7, <2>2 DEF HoldsNewTeam, HoldsHeir, HoldsAdmins, HoldsTarget, SameRequest, GoesTo
  <2>10. Keeps(x, q)'
    BY <2>6, <2>7, <2>8, <2>9 DEF Keeps
  <2> QED  BY <1>1, <2>1, <2>2, <2>4, <2>5, <2>10, GotoStep
<1>8. CASE p.kind = "leave" /\ p.actor \notin p.seen
  BY <1>1, <1>8, RollbackStep DEF MembersRead
<1>9. CASE p.kind = "leave" /\ p.actor \in p.seen /\ p.own # p.actor
  <2>1. /\ role' = [role EXCEPT ![p.team][p.actor] = NotMember]
        /\ Release(x) /\ UNCHANGED <<accounts, admins, hash, spent, teams, owner>>
    BY <1>1, <1>9 DEF MembersRead
  <2>2. PICK m : m = [role[p.team] EXCEPT ![p.actor] = NotMember]
    OBVIOUS
  <2>3. m \in MemberLists /\ \A u \in Users : m[u] = IF u = p.actor THEN NotMember ELSE role[p.team][u]
    BY <1>3, <1>6, <2>2 DEF DataType, MemberLists
  <2>4. role' = [role EXCEPT ![p.team] = m]
    BY <2>1, <2>2
  <2>5. ops' = ops
    BY <2>1 DEF Release
  <2>6. DataType'
    BY <1>3, <1>6, <2>1, <2>3, <2>4, <2>5 DEF DataType
  <2>7. ASSUME NEW y \in Txs \ {x}
        PROVE  Stable(y)
    <3>1. UNCHANGED <<accounts, admins, hash, spent>> /\ teams' \subseteq teams /\ teams \subseteq teams' \cup {p.team}
      BY <2>1
    <3>2. \A s \in Teams : s # p.team => owner'[s] = owner[s]
      BY <2>1
    <3>3. \A u \in Users : m[u] # NotMember => role[p.team][u] # NotMember \/ HoldsK(x, UserRow(u))
      BY <2>3
    <3> QED  BY <1>3, <1>4, <2>3, <2>4, <3>1, <3>2, <3>3, ListStable
  <2>8. OwnerAdministers'
    <3>1. role'[p.team] = m /\ \A s \in Teams : s # p.team => role'[s] = role[s]
      BY <1>3, <1>6, <2>4 DEF DataType
    <3>2. owner[p.team] \in Users /\ teams \subseteq Teams
      BY <1>3, <1>6 DEF DataType
    <3> QED  BY <1>4, <1>9, <2>1, <2>3, <3>1, <3>2 DEF OwnerAdministers, IInv
  <2>9. AdministratorRemains' /\ \A y \in Txs \ {x} : \A u \in Users : HoldsK(y, UserRow(u)) => u \in accounts'
    BY <2>1 DEF IInv, AdministratorRemains, References
  <2> QED  BY <2>1, <2>6, <2>7, <2>8, <2>9, CommitStep
<1>10. CASE p.kind = "leave" /\ p.seen = {p.actor} /\ p.own = p.actor
  <2>1. /\ teams' = teams \ {p.team}
        /\ role' = [role EXCEPT ![p.team] = [u \in Users |-> NotMember]]
        /\ Release(x) /\ UNCHANGED <<accounts, admins, hash, spent, owner>>
    BY <1>1, <1>10 DEF MembersRead
  <2>2. PICK m : m = [u \in Users |-> NotMember]
    OBVIOUS
  <2>3. m \in MemberLists /\ \A u \in Users : m[u] = NotMember
    BY <2>2 DEF MemberLists
  <2>4. role' = [role EXCEPT ![p.team] = m]
    BY <2>1, <2>2
  <2>5. ops' = ops
    BY <2>1 DEF Release
  <2>6. DataType'
    BY <1>3, <1>6, <2>1, <2>3, <2>4, <2>5 DEF DataType
  <2>7. ASSUME NEW y \in Txs \ {x}
        PROVE  Stable(y)
    <3>1. UNCHANGED <<accounts, admins, hash, spent>> /\ teams' \subseteq teams /\ teams \subseteq teams' \cup {p.team}
      BY <2>1
    <3>2. \A s \in Teams : s # p.team => owner'[s] = owner[s]
      BY <2>1
    <3>3. \A u \in Users : m[u] # NotMember => role[p.team][u] # NotMember \/ HoldsK(x, UserRow(u))
      BY <2>3
    <3> QED  BY <1>3, <1>4, <2>3, <2>4, <3>1, <3>2, <3>3, ListStable
  <2>8. OwnerAdministers'
    BY <1>3, <1>6, <2>1, <2>4 DEF OwnerAdministers, IInv, DataType
  <2>9. AdministratorRemains' /\ \A y \in Txs \ {x} : \A u \in Users : HoldsK(y, UserRow(u)) => u \in accounts'
    BY <2>1 DEF IInv, AdministratorRemains, References
  <2> QED  BY <2>1, <2>6, <2>7, <2>8, <2>9, CommitStep
<1>11. CASE p.kind = "leave" /\ p.actor \in p.seen /\ p.own = p.actor /\ p.seen # {p.actor}
  <2>1. Goto(x, "heir", {Successor(p)}, p.seen) /\ UNCHANGED <<db, locks, ops>>
    BY <1>1, <1>11 DEF MembersRead
  <2>2. p.seen \ {p.actor} # {} /\ Successor(p) \in p.seen
    <3>1. p.seen \ {p.actor} # {} /\ p.seen \ {p.actor} \in SUBSET Nat
      BY <1>3, <1>11, IdsAssumption
    <3>2. Min(p.seen \ {p.actor}) \in p.seen \ {p.actor}
      BY <3>1, MinIn
    <3> QED  BY <3>1, <3>2 DEF Successor
  <2>3. PICK q \in TxStates : GoesTo(p, q, "heir", {Successor(p)}, p.seen)
    <3>1. "heir" \in Pcs /\ {Successor(p)} \in SUBSET (Users \cup Teams) /\ p.seen \in SUBSET Users
      BY <1>3, <2>2 DEF Pcs
    <3> QED  BY <1>1, <3>1, GotoFields
  <2>4. UNCHANGED <<xlocks, klocks>> /\ UNCHANGED <<accounts, admins, hash, spent, teams, owner, role>>
    BY <2>1 DEF db, locks
  <2>5. LocksStep(x) /\ \A w \in Rows : (HoldsX(x, w)' <=> HoldsX(x, w)) /\ (HoldsK(x, w)' <=> HoldsK(x, w))
    BY <2>4, NoLockStep
  <2>6. RefersOK(x, q)'
    BY <1>1, <1>2, <2>5, NoReferences
  <2>7. Shape(q)' /\ HoldsTeam(x, q)'
    BY <1>1, <1>2, <1>3, <1>11, <2>2, <2>3, <2>4, <2>5, RowFacts DEF Keeps, Shape, HoldsTeam, SameRequest, GoesTo
  <2>8. HoldsMembers(x, q)'
    BY <1>3, <1>5, <2>3, <2>4, <2>5, RowFacts DEF HoldsMembers, SameRequest, GoesTo
  <2>9. HoldsHeir(x, q)'
    <3>1. Successor(q)' = Successor(p)
      BY <2>3 DEF Successor, GoesTo, SameRequest
    <3> QED  BY <1>11, <2>2, <2>3, <3>1 DEF HoldsHeir, GoesTo, SameRequest
  <2>10. HoldsActor(x, q)' /\ HoldsInserted(x, q)' /\ HoldsNewTeam(q)' /\ HoldsAdmins(x, q)' /\ HoldsTarget(x, q)'
    BY <1>11, <2>3 DEF HoldsActor, HoldsInserted, HoldsNewTeam, HoldsAdmins, HoldsTarget, SameRequest, GoesTo
  <2>11. Keeps(x, q)'
    BY <2>7, <2>8, <2>9, <2>10 DEF Keeps
  <2> QED  BY <1>1, <2>1, <2>3, <2>5, <2>6, <2>11, GotoStep
<1> QED  BY <1>3, <1>7, <1>8, <1>9, <1>10, <1>11

LEMMA CommitEditStep ==
    ASSUME IInv, NEW x \in Txs, CommitEdit(x)
    PROVE  IInv'
<1>1. PICK p : p = tx[x] /\ p \in TxStates /\ Keeps(x, p)
  BY DEF IInv, DbType
<1>2. /\ p.pc = "insert" /\ p.kind = "edit" /\ p.rows = {}
      /\ role' = [role EXCEPT ![p.team] = p.list]
      /\ Release(x) /\ UNCHANGED <<accounts, admins, hash, spent, teams, owner>>
  BY <1>1 DEF CommitEdit
<1>3. p.team \in Teams /\ p.actor \in Users /\ p.list \in MemberLists
  BY <1>1, <1>2 DEF Keeps, Shape, TxStates
<1>4. /\ HoldsX(x, TeamRow(p.team)) /\ p.team \in teams /\ p.own = owner[p.team]
      /\ p.list[p.own] = 0
      /\ \A u \in p.seen : role[p.team][u] # NotMember
  BY <1>1, <1>2 DEF Keeps, HoldsTeam, HoldsActor, HoldsMembers
<1>5. DataType
  BY DEF IInv, DbType, DataType
<1>6. DataType'
  BY <1>2, <1>3, <1>5 DEF DataType, Release
<1>7. ASSUME NEW y \in Txs \ {x}
      PROVE  Stable(y)
  <2>1. teams' \subseteq teams /\ teams \subseteq teams' \cup {p.team}
    BY <1>2
  <2>2. \A s \in Teams : s # p.team => owner'[s] = owner[s]
    BY <1>2
  <2>3. \A u \in Users : p.list[u] # NotMember => role[p.team][u] # NotMember \/ HoldsK(x, UserRow(u))
    BY <1>1, <1>2, <1>4 DEF Keeps, HoldsInserted
  <2> QED  BY <1>2, <1>3, <1>4, <2>1, <2>2, <2>3, ListStable
<1>8. OwnerAdministers'
  <2>1. role'[p.team] = p.list /\ \A s \in Teams : s # p.team => role'[s] = role[s]
    BY <1>2, <1>3, <1>5 DEF DataType
  <2>2. teams \subseteq Teams
    BY <1>5 DEF DataType
  <2> QED  BY <1>2, <1>4, <2>1, <2>2 DEF OwnerAdministers, IInv
<1>9. AdministratorRemains' /\ \A y \in Txs \ {x} : \A u \in Users : HoldsK(y, UserRow(u)) => u \in accounts'
  BY <1>2 DEF IInv, AdministratorRemains, References
<1> QED  BY <1>2, <1>6, <1>7, <1>8, <1>9, CommitStep

LEMMA CommitHeirStep ==
    ASSUME IInv, NEW x \in Txs, CommitHeir(x)
    PROVE  IInv'
<1>1. PICK p : p = tx[x] /\ p \in TxStates /\ Keeps(x, p)
  BY DEF IInv, DbType
<1>2. /\ p.pc = "heir" /\ p.rows = {}
      /\ Release(x) /\ UNCHANGED <<accounts, admins, hash, spent, teams>>
  BY <1>1 DEF CommitHeir
<1>3. p.kind = "leave" /\ p.team \in Teams /\ p.actor \in Users /\ p.seen \subseteq Users
  BY <1>1, <1>2 DEF Keeps, Shape, TxStates
<1>4. PICK h : h = Successor(p) /\ h \in p.seen \ {p.actor}
  <2>1. p.seen \ {p.actor} # {} /\ p.seen \ {p.actor} \in SUBSET Nat
    BY <1>1, <1>2, <1>3, IdsAssumption DEF Keeps, HoldsHeir
  <2> QED  BY <2>1, MinIn DEF Successor
<1>5. /\ HoldsX(x, TeamRow(p.team)) /\ p.team \in teams
      /\ role[p.team][h] # NotMember /\ HoldsK(x, UserRow(h))
  BY <1>1, <1>2, <1>3, <1>4 DEF Keeps, HoldsTeam, HoldsMembers, HoldsHeir
<1>6. h \in accounts /\ h \in Users /\ h # p.actor
  BY <1>3, <1>4, <1>5 DEF IInv, References
<1>7. DataType
  BY DEF IInv, DbType, DataType
<1>8. PICK m : m = [role[p.team] EXCEPT ![h] = 0, ![p.actor] = NotMember]
  OBVIOUS
<1>9. /\ m \in MemberLists /\ m[h] = 0
      /\ \A u \in Users : m[u] # NotMember => u = h \/ role[p.team][u] # NotMember
  BY <1>3, <1>6, <1>7, <1>8, RolesAssumption DEF DataType, MemberLists
<1>10. owner' = [owner EXCEPT ![p.team] = h] /\ role' = [role EXCEPT ![p.team] = m]
  <2>1. owner' = [owner EXCEPT ![p.team] = h]
    BY <1>1, <1>4 DEF CommitHeir
  <2>2. role' = [role EXCEPT ![p.team][h] = 0, ![p.team][p.actor] = NotMember]
    BY <1>1, <1>4 DEF CommitHeir
  <2>3. [role EXCEPT ![p.team][h] = 0, ![p.team][p.actor] = NotMember] = [role EXCEPT ![p.team] = m]
    BY <1>3, <1>7, <1>8 DEF DataType
  <2> QED  BY <2>1, <2>2, <2>3
<1>11. DataType'
  BY <1>2, <1>3, <1>6, <1>7, <1>9, <1>10 DEF DataType, Release
<1>12. ASSUME NEW y \in Txs \ {x}
       PROVE  Stable(y)
  <2>1. teams' \subseteq teams /\ teams \subseteq teams' \cup {p.team}
    BY <1>2
  <2>2. \A s \in Teams : s # p.team => owner'[s] = owner[s]
    BY <1>7, <1>10 DEF DataType
  <2>3. \A u \in Users : m[u] # NotMember => role[p.team][u] # NotMember \/ HoldsK(x, UserRow(u))
    BY <1>5, <1>9
  <2> QED  BY <1>2, <1>3, <1>5, <1>9, <1>10, <2>1, <2>2, <2>3, ListStable
<1>13. OwnerAdministers'
  <2>1. /\ role'[p.team] = m /\ \A s \in Teams : s # p.team => role'[s] = role[s]
        /\ owner'[p.team] = h /\ \A s \in Teams : s # p.team => owner'[s] = owner[s]
        /\ teams \subseteq Teams
    BY <1>3, <1>7, <1>10 DEF DataType
  <2> QED  BY <1>2, <1>6, <1>9, <2>1 DEF OwnerAdministers, IInv
<1>14. AdministratorRemains' /\ \A y \in Txs \ {x} : \A u \in Users : HoldsK(y, UserRow(u)) => u \in accounts'
  BY <1>2 DEF IInv, AdministratorRemains, References
<1> QED  BY <1>2, <1>11, <1>12, <1>13, <1>14, CommitStep

LEMMA CommitCreateStep ==
    ASSUME IInv, NEW x \in Txs, CommitCreate(x)
    PROVE  IInv'
<1>1. PICK p : p = tx[x] /\ p \in TxStates /\ Keeps(x, p)
  BY DEF IInv, DbType
<1>2. /\ p.pc = "insert" /\ p.kind = "create" /\ p.rows = {}
      /\ teams' = teams \cup {p.team} /\ owner' = [owner EXCEPT ![p.team] = p.actor]
      /\ role' = [role EXCEPT ![p.team] = p.list]
      /\ Release(x) /\ UNCHANGED <<accounts, admins, hash, spent>>
  BY <1>1 DEF CommitCreate
<1>3. p.team \in Teams /\ p.actor \in Users /\ p.list \in MemberLists
  BY <1>1, <1>2 DEF Keeps, Shape, TxStates
<1>4. p.list[p.actor] = 0 /\ p.team \in spent.teams \ teams
  BY <1>1, <1>2 DEF Keeps, HoldsNewTeam
<1>5. \A u \in Users : p.list[u] # NotMember => HoldsK(x, UserRow(u))
  BY <1>1, <1>2 DEF Keeps, HoldsInserted
<1>6. p.actor \in accounts
  BY <1>3, <1>4, <1>5 DEF IInv, References, NotMember
<1>7. DataType
  BY DEF IInv, DbType, DataType
<1>8. DataType'
  BY <1>2, <1>3, <1>4, <1>7 DEF DataType, Release
<1>9. /\ role'[p.team] = p.list /\ \A s \in Teams : s # p.team => role'[s] = role[s]
      /\ owner'[p.team] = p.actor /\ \A s \in Teams : s # p.team => owner'[s] = owner[s]
      /\ teams \subseteq Teams
  BY <1>2, <1>3, <1>7 DEF DataType
<1>10. ASSUME NEW y \in Txs \ {x}
       PROVE  Stable(y)
  <2>1. tx[y].kind = "create" => tx[y].team \notin teams'
    <3>1. tx[y].kind = "create" => tx[y].team # p.team /\ tx[y].team \notin teams
      BY <1>1, <1>2 DEF IInv, Distinct, Keeps, HoldsNewTeam
    <3> QED  BY <1>2, <3>1
  <2>2. \A s \in teams', u \in Users : HoldsX(y, UserRow(u)) /\ u \in accounts /\ role'[s][u] # NotMember =>
            s \in teams /\ role[s][u] # NotMember
    BY <1>2, <1>5, <1>9, LockedByX, RowFacts
  <2> QED  BY <1>2, <1>4, <1>9, <2>1, <2>2 DEF Stable
<1>11. OwnerAdministers'
  BY <1>2, <1>4, <1>6, <1>9 DEF OwnerAdministers, IInv
<1>12. AdministratorRemains' /\ \A y \in Txs \ {x} : \A u \in Users : HoldsK(y, UserRow(u)) => u \in accounts'
  BY <1>2 DEF IInv, AdministratorRemains, References
<1> QED  BY <1>2, <1>8, <1>10, <1>11, <1>12, CommitStep

LEMMA LockTeamStep ==
    ASSUME IInv, NEW x \in Txs, LockTeam(x)
    PROVE  IInv'
<1>1. PICK p : p = tx[x] /\ p \in TxStates /\ Keeps(x, p)
  BY DEF IInv, DbType
<1>2. p.pc = "team" /\ Granted(x)
  BY <1>1 DEF LockTeam
<1>3. p.kind \in {"edit", "leave"} /\ p.team \in Teams /\ p.actor \in Users
  BY <1>1, <1>2 DEF Keeps, Shape
<1>4. CASE p.team \notin teams
  BY <1>1, <1>4, RollbackStep DEF LockTeam
<1>5. CASE p.team \in teams
  <2>1. LockX(x, TeamRow(p.team)) /\ OwnerRead(x, p.team) /\ UNCHANGED <<db, ops>>
    BY <1>1, <1>5 DEF LockTeam
  <2>2. PICK pc : pc = IF p.kind = "edit" THEN "actor" ELSE "members"
    OBVIOUS
  <2>3. PICK rows : rows = IF p.kind = "edit" THEN {} ELSE Members(p.team)
    OBVIOUS
  <2>4. PICK q : q = [p EXCEPT !.own = owner[p.team], !.pc = pc, !.rows = rows]
    OBVIOUS
  <2>5. tx' = [tx EXCEPT ![x] = q]
    <3>1. tx' = [tx EXCEPT ![x].own = owner[p.team], ![x].pc = pc, ![x].rows = rows]
      BY <1>1, <2>1, <2>2, <2>3 DEF OwnerRead
    <3>2. tx \in [Txs -> TxStates]
      BY DEF IInv, DbType
    <3> QED  BY <1>1, <2>4, <3>1, <3>2
  <2>6. /\ owner[p.team] \in Users /\ rows \subseteq Users /\ pc \in {"actor", "members"}
        /\ pc = "actor" => p.kind = "edit"
        /\ pc = "members" => p.kind = "leave"
    BY <1>3, <2>2, <2>3 DEF IInv, DbType, Members
  <2>7. /\ q \in TxStates /\ q.pc = pc /\ q.rows = rows /\ q.own = owner[p.team]
        /\ q.kind = p.kind /\ q.team = p.team /\ q.actor = p.actor /\ q.seen = p.seen
    BY <1>1, <2>4, <2>6 DEF TxStates
  <2>8. Wants(x) = {<<"x", TeamRow(p.team)>>}
    BY <1>1, <1>2 DEF Wants
  <2>9. /\ LocksStep(x)
        /\ \A w \in Rows : HoldsX(x, w)' <=> HoldsX(x, w) \/ w = TeamRow(p.team)
        /\ \A w \in Rows : HoldsK(x, w)' <=> HoldsK(x, w)
    BY <1>2, <1>3, <2>1, <2>8, RowFacts, LockXStep
  <2>10. RefersOK(x, q)'
    BY <1>1, <1>2, <2>9, NoReferences
  <2>11. UNCHANGED <<accounts, admins, hash, spent, teams, owner, role, ops>>
    BY <2>1 DEF db
  <2>12. Shape(q)' /\ HoldsTeam(x, q)'
    BY <1>3, <1>5, <2>6, <2>7, <2>9, <2>11, RowFacts DEF Shape, HoldsTeam
  <2>13. p.seen = {}
    BY <1>1, <1>2 DEF Keeps, Shape
  <2>14. HoldsMembers(x, q)' /\ HoldsActor(x, q)' /\ HoldsInserted(x, q)' /\ HoldsNewTeam(q)'
    BY <1>3, <2>6, <2>7, <2>13 DEF HoldsMembers, HoldsActor, HoldsInserted, HoldsNewTeam
  <2>15. HoldsHeir(x, q)' /\ HoldsAdmins(x, q)' /\ HoldsTarget(x, q)'
    BY <2>6, <2>7 DEF HoldsHeir, HoldsAdmins, HoldsTarget
  <2>16. Keeps(x, q)'
    BY <2>12, <2>14, <2>15 DEF Keeps
  <2>17. OwnTeam(x, q)
    BY <1>3, <2>7 DEF OwnTeam
  <2>18. /\ spent' \in [users : SUBSET Users, teams : SUBSET Teams] /\ ops' \in 0 .. MaxOps
         /\ spent.users \subseteq spent'.users /\ spent.teams \subseteq spent'.teams
    BY <2>11 DEF IInv, DbType
  <2> QED  BY <2>5, <2>7, <2>9, <2>10, <2>11, <2>16, <2>17, <2>18, QuietStep
<1> QED  BY <1>4, <1>5

-----------------------------------------------------------------------------
(* DeleteUser and UpdateAdminUser.                                         *)

LEMMA BeginStep ==
    ASSUME IInv, NEW x \in Txs, Begin(x)
    PROVE  IInv'
<1>1. PICK p : p = tx[x] /\ p \in TxStates /\ Keeps(x, p)
  BY DEF IInv, DbType
<1>2. p.pc = "begin" /\ Goto(x, "admins", admins, {}) /\ UNCHANGED <<db, ops>> /\ UNCHANGED <<xlocks, klocks>>
  BY <1>1 DEF Begin, locks
<1>3. p.kind \in {"delete", "update"} /\ p.actor \in Users /\ p.target \in Users /\ admins \subseteq Users
  BY <1>1, <1>2 DEF Keeps, Shape, IInv, DbType
<1>4. PICK q \in TxStates : GoesTo(p, q, "admins", admins, {})
  <2>1. "admins" \in Pcs /\ admins \in SUBSET (Users \cup Teams) /\ {} \in SUBSET Users
    BY <1>3 DEF Pcs
  <2> QED  BY <1>1, <2>1, GotoFields
<1>5. LocksStep(x) /\ \A w \in Rows : (HoldsX(x, w)' <=> HoldsX(x, w)) /\ (HoldsK(x, w)' <=> HoldsK(x, w))
  BY <1>2, NoLockStep
<1>6. RefersOK(x, q)'
  BY <1>1, <1>2, <1>5, NoReferences
<1>7. Shape(q)'
  BY <1>1, <1>3, <1>4 DEF Keeps, Shape, SameRequest, GoesTo
<1>8. HoldsTeam(x, q)' /\ HoldsMembers(x, q)' /\ HoldsActor(x, q)' /\ HoldsInserted(x, q)' /\ HoldsNewTeam(q)'
  BY <1>3, <1>4 DEF HoldsTeam, HoldsMembers, HoldsActor, HoldsInserted, HoldsNewTeam, SameRequest, GoesTo
<1>9. HoldsHeir(x, q)' /\ HoldsAdmins(x, q)' /\ HoldsTarget(x, q)'
  BY <1>4 DEF HoldsHeir, HoldsAdmins, HoldsTarget, SameRequest, GoesTo
<1>10. Keeps(x, q)'
  BY <1>7, <1>8, <1>9 DEF Keeps
<1> QED  BY <1>1, <1>2, <1>4, <1>5, <1>6, <1>10, GotoStep

LEMMA LockAdministratorStep ==
    ASSUME IInv, NEW x \in Txs, LockAdministrator(x)
    PROVE  IInv'
<1>1. PICK p : p = tx[x] /\ p \in TxStates /\ Keeps(x, p)
  BY DEF IInv, DbType
<1>2. p.pc = "admins" /\ p.rows # {} /\ Granted(x) /\ UNCHANGED <<db, ops>>
  BY <1>1 DEF LockAdministrator
<1>3. /\ p.kind \in {"delete", "update"} /\ p.actor \in Users /\ p.target \in Users
      /\ p.rows \subseteq Users /\ p.seen \subseteq Users /\ admins \subseteq accounts
  BY <1>1, <1>2 DEF Keeps, Shape, TxStates, IInv, DbType
<1>4. PICK u : u = Min(p.rows) /\ u \in p.rows /\ u \in Users
  <2>1. p.rows \in SUBSET Nat
    BY <1>3, IdsAssumption
  <2> QED  BY <1>2, <1>3, <2>1, MinIn
<1>5. UNCHANGED <<accounts, admins, hash, spent, teams, owner, role>>
  BY <1>2 DEF db
<1>6. PICK seen : seen = p.seen \cup ({u} \cap admins)
  OBVIOUS
<1>7. Goto(x, "admins", p.rows \ {u}, seen)
  BY <1>1, <1>4, <1>6 DEF LockAdministrator
<1>8. PICK q \in TxStates : GoesTo(p, q, "admins", p.rows \ {u}, seen)
  <2>1. "admins" \in Pcs /\ p.rows \ {u} \in SUBSET (Users \cup Teams) /\ seen \in SUBSET Users
    BY <1>3, <1>4, <1>6 DEF Pcs
  <2> QED  BY <1>1, <2>1, GotoFields
<1>9. /\ LocksStep(x)
      /\ \A w \in Rows : HoldsX(x, w)' <=> HoldsX(x, w) \/ (u \in accounts /\ w = UserRow(u))
      /\ \A w \in Rows : HoldsK(x, w)' <=> HoldsK(x, w)
  <2>1. CASE u \in accounts
    <3>1. LockX(x, UserRow(u))
      BY <1>1, <1>4, <2>1 DEF LockAdministrator
    <3>2. Wants(x) = {<<"x", UserRow(u)>>}
      BY <1>1, <1>2, <1>4 DEF Wants
    <3>3. /\ LocksStep(x)
          /\ \A w \in Rows : HoldsX(x, w)' <=> HoldsX(x, w) \/ w = UserRow(u)
          /\ \A w \in Rows : HoldsK(x, w)' <=> HoldsK(x, w)
      BY <1>2, <1>4, <3>1, <3>2, RowFacts, LockXStep
    <3> QED  BY <2>1, <3>3
  <2>2. CASE u \notin accounts
    <3>1. UNCHANGED <<xlocks, klocks>>
      BY <1>1, <1>4, <2>2 DEF LockAdministrator, locks
    <3> QED  BY <2>2, <3>1, NoLockStep
  <2> QED  BY <2>1, <2>2
<1>10. RefersOK(x, q)'
  BY <1>1, <1>2, <1>9, NoReferences
<1>11. Shape(q)'
  BY <1>1, <1>3, <1>8 DEF Keeps, Shape, SameRequest, GoesTo
<1>12. HoldsTeam(x, q)' /\ HoldsMembers(x, q)' /\ HoldsActor(x, q)' /\ HoldsInserted(x, q)' /\ HoldsNewTeam(q)'
  BY <1>3, <1>8 DEF HoldsTeam, HoldsMembers, HoldsActor, HoldsInserted, HoldsNewTeam, SameRequest, GoesTo
<1>13. HoldsHeir(x, q)' /\ HoldsTarget(x, q)'
  BY <1>8 DEF HoldsHeir, HoldsTarget, SameRequest, GoesTo
<1>14. HoldsAdmins(x, q)'
  <2>1. \A v \in p.seen : HoldsX(x, UserRow(v)) /\ v \in admins
    BY <1>1, <1>2 DEF Keeps, HoldsAdmins
  <2>2. \A v \in seen : HoldsX(x, UserRow(v))' /\ v \in admins'
    BY <1>3, <1>4, <1>5, <1>6, <1>9, <2>1, RowFacts
  <2> QED  BY <1>8, <2>2 DEF HoldsAdmins, GoesTo
<1>15. Keeps(x, q)'
  BY <1>11, <1>12, <1>13, <1>14 DEF Keeps
<1> QED  BY <1>1, <1>2, <1>7, <1>8, <1>9, <1>10, <1>15, GotoStep

LEMMA ActorCheckedStep ==
    ASSUME IInv, NEW x \in Txs, ActorChecked(x)
    PROVE  IInv'
<1>1. PICK p : p = tx[x] /\ p \in TxStates /\ Keeps(x, p)
  BY DEF IInv, DbType
<1>2. p.pc = "admins" /\ p.rows = {}
  BY <1>1 DEF ActorChecked
<1>3. p.kind \in {"delete", "update"} /\ p.actor \in Users /\ p.target \in Users /\ p.seen \subseteq Users
  BY <1>1, <1>2 DEF Keeps, Shape, TxStates
<1>4. CASE p.actor \notin p.seen \/ (p.kind = "delete" /\ hash[p.actor] # p.reauth)
  BY <1>1, <1>4, RollbackStep DEF ActorChecked
<1>5. CASE ~(p.actor \notin p.seen \/ (p.kind = "delete" /\ hash[p.actor] # p.reauth))
  <2>1. Goto(x, "target", {}, p.seen) /\ UNCHANGED <<db, ops>> /\ UNCHANGED <<xlocks, klocks>>
    BY <1>1, <1>5 DEF ActorChecked, locks
  <2>2. PICK q \in TxStates : GoesTo(p, q, "target", {}, p.seen)
    <3>1. "target" \in Pcs /\ {} \in SUBSET (Users \cup Teams) /\ p.seen \in SUBSET Users
      BY <1>3 DEF Pcs
    <3> QED  BY <1>1, <3>1, GotoFields
  <2>3. LocksStep(x) /\ \A w \in Rows : (HoldsX(x, w)' <=> HoldsX(x, w)) /\ (HoldsK(x, w)' <=> HoldsK(x, w))
    BY <2>1, NoLockStep
  <2>4. RefersOK(x, q)'
    BY <1>1, <1>2, <2>3, NoReferences
  <2>5. UNCHANGED <<accounts, admins, hash, spent, teams, owner, role>>
    BY <2>1 DEF db
  <2>6. Shape(q)'
    BY <1>1, <1>3, <2>2 DEF Keeps, Shape, SameRequest, GoesTo
  <2>7. HoldsTeam(x, q)' /\ HoldsMembers(x, q)' /\ HoldsActor(x, q)' /\ HoldsInserted(x, q)' /\ HoldsNewTeam(q)'
    BY <1>3, <2>2 DEF HoldsTeam, HoldsMembers, HoldsActor, HoldsInserted, HoldsNewTeam, SameRequest, GoesTo
  <2>8. HoldsHeir(x, q)' /\ HoldsTarget(x, q)'
    BY <2>2 DEF HoldsHeir, HoldsTarget, SameRequest, GoesTo
  <2>9. HoldsAdmins(x, q)'
    <3>1. \A v \in p.seen : HoldsX(x, UserRow(v)) /\ v \in admins
      BY <1>1, <1>2 DEF Keeps, HoldsAdmins
    <3>2. \A v \in p.seen : HoldsX(x, UserRow(v))' /\ v \in admins'
      BY <1>3, <2>3, <2>5, <3>1, RowFacts
    <3> QED  BY <1>5, <2>2, <2>5, <3>2 DEF HoldsAdmins, GoesTo, SameRequest
  <2>10. Keeps(x, q)'
    BY <2>6, <2>7, <2>8, <2>9 DEF Keeps
  <2> QED  BY <1>1, <2>1, <2>2, <2>3, <2>4, <2>10, GotoStep
<1> QED  BY <1>4, <1>5

(* Both lock their target with what they have checked of the actor.        *)
LEMMA TargetLocked ==
    ASSUME IInv, NEW x \in Txs, NEW pc \in {"cascade", "write"}, NEW rows \in SUBSET Teams,
           tx[x].pc = "target", Granted(x), tx[x].target \in accounts,
           pc = "cascade" => /\ tx[x].kind = "delete"
                             /\ \A t \in teams : role[t][tx[x].target] # NotMember => t \in rows,
           pc = "write" => /\ tx[x].kind = "update"
                           /\ Privileged(tx[x]) => hash[tx[x].actor] = tx[x].reauth,
           LockX(x, UserRow(tx[x].target)), Goto(x, pc, rows, tx[x].seen), UNCHANGED <<db, ops>>
    PROVE  IInv'
<1>1. PICK p : p = tx[x] /\ p \in TxStates /\ Keeps(x, p)
  BY DEF IInv, DbType
<1>2. p.pc = "target"
  BY <1>1
<1>3. p.kind \in {"delete", "update"} /\ p.actor \in Users /\ p.target \in Users /\ p.seen \subseteq Users
  BY <1>1, <1>2 DEF Keeps, Shape, TxStates
<1>4. PICK q \in TxStates : GoesTo(p, q, pc, rows, p.seen)
  <2>1. pc \in Pcs /\ rows \in SUBSET (Users \cup Teams) /\ p.seen \in SUBSET Users
    BY <1>3 DEF Pcs
  <2> QED  BY <1>1, <2>1, GotoFields
<1>5. Wants(x) = {<<"x", UserRow(p.target)>>}
  BY <1>1, <1>2 DEF Wants
<1>6. /\ LocksStep(x)
      /\ \A w \in Rows : HoldsX(x, w)' <=> HoldsX(x, w) \/ w = UserRow(p.target)
      /\ \A w \in Rows : HoldsK(x, w)' <=> HoldsK(x, w)
  BY <1>1, <1>3, <1>5, RowFacts, LockXStep
<1>7. RefersOK(x, q)'
  BY <1>1, <1>2, <1>6, NoReferences
<1>8. UNCHANGED <<accounts, admins, hash, spent, teams, owner, role>>
  BY DEF db
<1>9. Shape(q)'
  BY <1>1, <1>3, <1>4 DEF Keeps, Shape, SameRequest, GoesTo
<1>10. HoldsTeam(x, q)' /\ HoldsMembers(x, q)' /\ HoldsActor(x, q)' /\ HoldsInserted(x, q)' /\ HoldsNewTeam(q)'
  BY <1>3, <1>4 DEF HoldsTeam, HoldsMembers, HoldsActor, HoldsInserted, HoldsNewTeam, SameRequest, GoesTo
<1>11. HoldsHeir(x, q)'
  BY <1>4 DEF HoldsHeir, GoesTo
<1>12. HoldsAdmins(x, q)'
  <2>1. /\ \A v \in p.seen : HoldsX(x, UserRow(v)) /\ v \in admins
        /\ p.actor \in p.seen
        /\ p.kind = "delete" => hash[p.actor] = p.reauth
    BY <1>1, <1>2 DEF Keeps, HoldsAdmins
  <2>2. \A v \in p.seen : HoldsX(x, UserRow(v))' /\ v \in admins'
    BY <1>3, <1>6, <1>8, <2>1, RowFacts
  <2>3. pc = "write" => p.kind = "update" /\ (((p.target \in admins) # p.admin \/ p.pwd) => hash[p.actor] = p.reauth)
    BY <1>1 DEF Privileged
  <2>4. q.kind = "delete" /\ q.pc \in {"target", "cascade"} => hash'[q.actor] = q.reauth
    BY <1>4, <1>8, <2>1 DEF GoesTo, SameRequest
  <2>5. q.pc = "write" /\ ((q.target \in admins') # q.admin \/ q.pwd) => hash'[q.actor] = q.reauth
    BY <1>4, <1>8, <2>3 DEF GoesTo, SameRequest
  <2>6. q.actor \in q.seen /\ q.seen = p.seen
    BY <1>4, <2>1 DEF GoesTo, SameRequest
  <2> QED  BY <2>2, <2>4, <2>5, <2>6 DEF HoldsAdmins
<1>13. HoldsTarget(x, q)'
  <2>1. p.target \in accounts' /\ HoldsX(x, UserRow(p.target))'
    BY <1>1, <1>3, <1>6, <1>8, RowFacts
  <2>2. pc = "cascade" => \A t \in teams' : role'[t][p.target] # NotMember => t \in rows
    BY <1>1, <1>8
  <2> QED  BY <1>4, <2>1, <2>2 DEF HoldsTarget, GoesTo, SameRequest
<1>14. Keeps(x, q)'
  BY <1>9, <1>10, <1>11, <1>12, <1>13 DEF Keeps
<1> QED  BY <1>1, <1>4, <1>6, <1>7, <1>14, GotoStep

LEMMA LockDeleteTargetStep ==
    ASSUME IInv, NEW x \in Txs, LockDeleteTarget(x)
    PROVE  IInv'
<1>1. PICK p : p = tx[x] /\ p \in TxStates /\ Keeps(x, p)
  BY DEF IInv, DbType
<1>2. p.pc = "target" /\ p.kind = "delete" /\ Granted(x)
  BY <1>1 DEF LockDeleteTarget
<1>3. CASE p.target \notin accounts \/ LastAdmin(p) \/ (\E t \in teams : owner[t] = p.target)
  BY <1>1, <1>3, RollbackStep DEF LockDeleteTarget
<1>4. CASE ~(p.target \notin accounts \/ LastAdmin(p) \/ (\E t \in teams : owner[t] = p.target))
  <2>1. PICK rows : rows = {t \in teams : p.target \in Members(t)}
    OBVIOUS
  <2>2. LockX(x, UserRow(p.target)) /\ Goto(x, "cascade", rows, p.seen) /\ UNCHANGED <<db, ops>>
    BY <1>1, <1>4, <2>1 DEF LockDeleteTarget
  <2>3. p.target \in Users /\ teams \subseteq Teams /\ rows \in SUBSET Teams
    BY <1>1, <1>2, <2>1 DEF Keeps, Shape, IInv, DbType
  <2>4. \A t \in teams : role[t][p.target] # NotMember => t \in rows
    BY <2>1, <2>3 DEF Members
  <2> QED  BY <1>1, <1>2, <1>4, <2>2, <2>3, <2>4, TargetLocked
<1> QED  BY <1>3, <1>4

LEMMA LockUpdateTargetStep ==
    ASSUME IInv, NEW x \in Txs, LockUpdateTarget(x)
    PROVE  IInv'
<1>1. PICK p : p = tx[x] /\ p \in TxStates /\ Keeps(x, p)
  BY DEF IInv, DbType
<1>2. p.pc = "target" /\ p.kind = "update" /\ Granted(x)
  BY <1>1 DEF LockUpdateTarget
<1>3. CASE \/ p.target \notin accounts
           \/ ~p.admin /\ p.target \in admins /\ p.actor = p.target
           \/ ~p.admin /\ LastAdmin(p)
           \/ Privileged(p) /\ hash[p.actor] # p.reauth
  BY <1>1, <1>3, RollbackStep DEF LockUpdateTarget
<1>4. CASE ~ \/ p.target \notin accounts
             \/ ~p.admin /\ p.target \in admins /\ p.actor = p.target
             \/ ~p.admin /\ LastAdmin(p)
             \/ Privileged(p) /\ hash[p.actor] # p.reauth
  <2>1. LockX(x, UserRow(p.target)) /\ Goto(x, "write", {}, p.seen) /\ UNCHANGED <<db, ops>>
    BY <1>1, <1>4 DEF LockUpdateTarget
  <2>2. p.target \in accounts /\ (Privileged(p) => hash[p.actor] = p.reauth)
    BY <1>4
  <2> QED  BY <1>1, <1>2, <2>1, <2>2, TargetLocked
<1> QED  BY <1>3, <1>4

LEMMA LockCascadeStep ==
    ASSUME IInv, NEW x \in Txs, LockCascade(x)
    PROVE  IInv'
<1>1. PICK p : p = tx[x] /\ p \in TxStates /\ Keeps(x, p)
  BY DEF IInv, DbType
<1>2. p.pc = "cascade" /\ p.rows # {} /\ Granted(x) /\ UNCHANGED <<db, ops>>
  BY <1>1 DEF LockCascade
<1>3. /\ p.kind = "delete" /\ p.actor \in Users /\ p.target \in Users
      /\ p.rows \subseteq Teams /\ p.seen \subseteq Users /\ teams \subseteq Teams
  BY <1>1, <1>2 DEF Keeps, Shape, TxStates, IInv, DbType
<1>4. PICK t : t = Min(p.rows) /\ t \in p.rows /\ t \in Teams
  <2>1. p.rows \in SUBSET Nat
    BY <1>3, IdsAssumption
  <2> QED  BY <1>2, <1>3, <2>1, MinIn
<1>5. UNCHANGED <<accounts, admins, hash, spent, teams, owner, role>>
  BY <1>2 DEF db
<1>6. Goto(x, "cascade", p.rows \ {t}, p.seen)
  BY <1>1, <1>4 DEF LockCascade
<1>7. PICK q \in TxStates : GoesTo(p, q, "cascade", p.rows \ {t}, p.seen)
  <2>1. "cascade" \in Pcs /\ p.rows \ {t} \in SUBSET (Users \cup Teams) /\ p.seen \in SUBSET Users
    BY <1>3, <1>4 DEF Pcs
  <2> QED  BY <1>1, <2>1, GotoFields
<1>8. p.target \in Members(t) <=> role[t][p.target] # NotMember
  BY <1>3 DEF Members
<1>9. /\ LocksStep(x)
      /\ \A w \in Rows : HoldsX(x, w)' <=> HoldsX(x, w) \/ (p.target \in Members(t) /\ w = MemberRow(t, p.target))
      /\ \A w \in Rows : HoldsK(x, w)' <=> HoldsK(x, w)
  <2>1. CASE p.target \in Members(t)
    <3>1. LockX(x, MemberRow(t, p.target))
      BY <1>1, <1>4, <2>1 DEF LockCascade
    <3>2. Wants(x) = {<<"x", MemberRow(t, p.target)>>}
      BY <1>1, <1>2, <1>4 DEF Wants
    <3>3. /\ LocksStep(x)
          /\ \A w \in Rows : HoldsX(x, w)' <=> HoldsX(x, w) \/ w = MemberRow(t, p.target)
          /\ \A w \in Rows : HoldsK(x, w)' <=> HoldsK(x, w)
      BY <1>2, <1>3, <1>4, <3>1, <3>2, RowFacts, LockXStep
    <3> QED  BY <2>1, <3>3
  <2>2. CASE p.target \notin Members(t)
    <3>1. UNCHANGED <<xlocks, klocks>>
      BY <1>1, <1>4, <2>2 DEF LockCascade, locks
    <3> QED  BY <2>2, <3>1, NoLockStep
  <2> QED  BY <2>1, <2>2
<1>10. RefersOK(x, q)'
  BY <1>1, <1>2, <1>9, NoReferences
<1>11. Shape(q)'
  BY <1>1, <1>3, <1>7 DEF Keeps, Shape, SameRequest, GoesTo
<1>12. HoldsTeam(x, q)' /\ HoldsMembers(x, q)' /\ HoldsActor(x, q)' /\ HoldsInserted(x, q)' /\ HoldsNewTeam(q)'
  BY <1>3, <1>7 DEF HoldsTeam, HoldsMembers, HoldsActor, HoldsInserted, HoldsNewTeam, SameRequest, GoesTo
<1>13. HoldsHeir(x, q)'
  BY <1>7 DEF HoldsHeir, GoesTo
<1>14. HoldsAdmins(x, q)'
  <2>1. /\ \A v \in p.seen : HoldsX(x, UserRow(v)) /\ v \in admins
        /\ p.actor \in p.seen /\ hash[p.actor] = p.reauth
    BY <1>1, <1>2, <1>3 DEF Keeps, HoldsAdmins
  <2>2. \A v \in p.seen : HoldsX(x, UserRow(v))' /\ v \in admins'
    BY <1>3, <1>5, <1>9, <2>1, RowFacts
  <2> QED  BY <1>5, <1>7, <2>1, <2>2 DEF HoldsAdmins, GoesTo, SameRequest
<1>15. HoldsTarget(x, q)'
  <2>1. /\ p.target \in accounts /\ HoldsX(x, UserRow(p.target))
        /\ \A s \in teams : role[s][p.target] # NotMember => s \in p.rows \/ HoldsX(x, MemberRow(s, p.target))
    BY <1>1, <1>2 DEF Keeps, HoldsTarget
  <2>2. p.target \in accounts' /\ HoldsX(x, UserRow(p.target))'
    BY <1>3, <1>5, <1>9, <2>1, RowFacts
  <2>3. \A s \in teams' : role'[s][p.target] # NotMember => s \in p.rows \ {t} \/ HoldsX(x, MemberRow(s, p.target))'
    BY <1>3, <1>4, <1>5, <1>8, <1>9, <2>1, RowFacts
  <2> QED  BY <1>7, <2>2, <2>3 DEF HoldsTarget, GoesTo, SameRequest
<1>16. Keeps(x, q)'
  BY <1>11, <1>12, <1>13, <1>14, <1>15 DEF Keeps
<1> QED  BY <1>1, <1>2, <1>6, <1>7, <1>9, <1>10, <1>16, GotoStep

LEMMA CommitDeleteStep ==
    ASSUME IInv, NEW x \in Txs, CommitDelete(x)
    PROVE  IInv'
<1>1. PICK p : p = tx[x] /\ p \in TxStates /\ Keeps(x, p)
  BY DEF IInv, DbType
<1>2. p.pc = "cascade" /\ p.rows = {}
  BY <1>1 DEF CommitDelete
<1>3. PICK u : u = p.target
  OBVIOUS
<1>4. CASE \E t \in teams : owner[t] = u
  BY <1>1, <1>3, <1>4, RollbackStep DEF CommitDelete
<1>5. CASE ~\E t \in teams : owner[t] = u
  <2>1. /\ accounts' = accounts \ {u} /\ admins' = admins \ {u}
        /\ role' = [t \in Teams |-> [role[t] EXCEPT ![u] = NotMember]]
        /\ Release(x) /\ UNCHANGED <<hash, spent, teams, owner>>
    BY <1>1, <1>3, <1>5 DEF CommitDelete
  <2>2. p.kind = "delete" /\ p.actor \in Users /\ u \in Users /\ p.actor # u
    BY <1>1, <1>2, <1>3 DEF Keeps, Shape
  <2>3. /\ HoldsX(x, UserRow(u)) /\ p.actor \in admins
        /\ \A t \in teams : role[t][u] # NotMember => HoldsX(x, MemberRow(t, u))
    BY <1>1, <1>2, <1>3 DEF Keeps, HoldsTarget, HoldsAdmins
  <2>4. DataType
    BY DEF IInv, DbType, DataType
  <2>5. /\ role' \in [Teams -> MemberLists]
        /\ \A t \in Teams : \A v \in Users : role'[t][v] = IF v = u THEN NotMember ELSE role[t][v]
    BY <2>1, <2>2, <2>4 DEF DataType, MemberLists
  <2>6. DataType'
    BY <2>1, <2>4, <2>5 DEF DataType, Release
  <2>7. \A y \in Txs \ {x} : \A v \in Users : HoldsK(y, UserRow(v)) => v \in accounts'
    BY <2>1, <2>2, <2>3, LockedByX, RowFacts DEF IInv, References
  <2>8. ASSUME NEW y \in Txs \ {x}
        PROVE  Stable(y)
    <3>1. ~HoldsX(y, UserRow(u)) /\ \A t \in teams : role[t][u] # NotMember => ~HoldsX(y, MemberRow(t, u))
      BY <2>2, <2>3, <2>4, LockedByX, RowFacts DEF DataType
    <3>2. tx[y].kind = "create" => tx[y].team \notin teams'
      BY <2>1 DEF IInv, Keeps, HoldsNewTeam
    <3>3. \A t \in Teams, v \in Users :
            HoldsX(y, TeamRow(t)) /\ HoldsX(y, MemberRow(t, v)) /\ t \in teams
            /\ role[t][v] # NotMember => role'[t][v] = role[t][v]
      BY <2>5, <3>1
    <3>4. \A t \in teams', v \in Users : role'[t][v] # NotMember => t \in teams /\ role[t][v] # NotMember
      BY <2>1, <2>4, <2>5 DEF DataType
    <3>5. \A v \in Users : HoldsX(y, UserRow(v)) /\ v \in accounts =>
            v \in accounts' /\ (v \in admins <=> v \in admins') /\ hash'[v] = hash[v]
      BY <2>1, <3>1
    <3> QED  BY <2>1, <3>2, <3>3, <3>4, <3>5 DEF Stable
  <2>9. OwnerAdministers'
    <3>1. teams \subseteq Teams /\ \A t \in Teams : owner[t] \in Users
      BY <2>4 DEF DataType
    <3>2. \A t \in teams : owner[t] \in accounts /\ role[t][owner[t]] = 0
      BY DEF IInv, OwnerAdministers
    <3>3. \A t \in teams : owner[t] \in accounts' /\ role'[t][owner[t]] = 0
      BY <1>5, <2>1, <2>5, <3>1, <3>2
    <3> QED  BY <2>1, <3>3 DEF OwnerAdministers
  <2>10. AdministratorRemains'
    BY <2>1, <2>2, <2>3 DEF AdministratorRemains
  <2> QED  BY <2>1, <2>6, <2>7, <2>8, <2>9, <2>10, CommitStep
<1> QED  BY <1>4, <1>5

LEMMA CommitUpdateStep ==
    ASSUME IInv, NEW x \in Txs, CommitUpdate(x)
    PROVE  IInv'
<1>1. PICK p : p = tx[x] /\ p \in TxStates /\ Keeps(x, p)
  BY DEF IInv, DbType
<1>2. p.pc = "write"
  BY <1>1 DEF CommitUpdate
<1>3. PICK u : u = p.target
  OBVIOUS
<1>4. /\ admins' = IF p.admin THEN admins \cup {u} ELSE admins \ {u}
      /\ hash' = IF p.pwd THEN [hash EXCEPT ![u] = @ + 1] ELSE hash
      /\ Release(x) /\ UNCHANGED <<accounts, spent, teams, owner, role>>
  BY <1>1, <1>3 DEF CommitUpdate
<1>5. p.kind = "update" /\ p.actor \in Users /\ u \in Users /\ (p.admin \/ p.actor # u)
  BY <1>1, <1>2, <1>3 DEF Keeps, Shape
<1>6. HoldsX(x, UserRow(u)) /\ u \in accounts /\ p.actor \in admins
  BY <1>1, <1>2, <1>3 DEF Keeps, HoldsTarget, HoldsAdmins
<1>7. DataType
  BY DEF IInv, DbType, DataType
<1>8. /\ admins' \subseteq accounts /\ \A v \in Users : v # u => (v \in admins <=> v \in admins')
  BY <1>4, <1>6, <1>7 DEF DataType
<1>9. hash' \in [Users -> Nat] /\ \A v \in Users : v # u => hash'[v] = hash[v]
  BY <1>4, <1>5, <1>7 DEF DataType
<1>10. DataType'
  BY <1>4, <1>7, <1>8, <1>9 DEF DataType, Release
<1>11. ASSUME NEW y \in Txs \ {x}
       PROVE  Stable(y)
  <2>1. ~HoldsX(y, UserRow(u))
    BY <1>5, <1>6, LockedByX, RowFacts
  <2>2. tx[y].kind = "create" => tx[y].team \notin teams'
    BY <1>4 DEF IInv, Keeps, HoldsNewTeam
  <2>3. \A v \in Users : HoldsX(y, UserRow(v)) /\ v \in accounts =>
            v \in accounts' /\ (v \in admins <=> v \in admins') /\ hash'[v] = hash[v]
    BY <1>4, <1>8, <1>9, <2>1
  <2> QED  BY <1>4, <2>2, <2>3 DEF Stable
<1>12. OwnerAdministers'
  BY <1>4 DEF IInv, OwnerAdministers
<1>13. AdministratorRemains'
  <2>1. p.actor \in admins'
    BY <1>4, <1>5, <1>6
  <2> QED  BY <2>1 DEF AdministratorRemains
<1>14. \A y \in Txs \ {x} : \A v \in Users : HoldsK(y, UserRow(v)) => v \in accounts'
  BY <1>4 DEF IInv, References
<1> QED  BY <1>4, <1>10, <1>11, <1>12, <1>13, <1>14, CommitStep

-----------------------------------------------------------------------------
(* Requests.                                                               *)

LEMMA RequestStep ==
    ASSUME IInv, NEW x \in Txs, NEW r \in TxStates, Request(x, r),
           spent' \in [users : SUBSET Users, teams : SUBSET Teams],
           spent.users \subseteq spent'.users, spent.teams \subseteq spent'.teams,
           Keeps(x, r)', OwnTeam(x, r)
    PROVE  IInv'
<1>1. /\ tx[x].pc = "idle" /\ tx' = [tx EXCEPT ![x] = r]
      /\ UNCHANGED <<accounts, admins, hash, teams, owner, role>> /\ UNCHANGED <<xlocks, klocks>>
  BY DEF Request, locks
<1>2. ops' \in 0 .. MaxOps
  BY OpsAssumption DEF Request, IInv, DbType
<1>3. LocksStep(x) /\ \A w \in Rows : HoldsK(x, w)' <=> HoldsK(x, w)
  BY <1>1, NoLockStep
<1>4. RefersOK(x, r)'
  BY <1>1, <1>3, NoReferences
<1> QED  BY <1>1, <1>2, <1>3, <1>4, QuietStep

(* A request that has not begun its transaction relies on nothing.         *)
LEMMA FreshKeeps ==
    ASSUME NEW x \in Txs, NEW r, Shape(r), r.pc \in {"team", "begin"}
    PROVE  Keeps(x, r)' /\ OwnTeam(x, r)
<1>1. r.kind \in {"edit", "leave", "delete", "update"}
  BY DEF Shape
<1>2. Shape(r)'
  BY DEF Shape
<1>3. HoldsTeam(x, r)' /\ HoldsMembers(x, r)' /\ HoldsActor(x, r)' /\ HoldsInserted(x, r)' /\ HoldsNewTeam(r)'
  BY <1>1 DEF HoldsTeam, HoldsMembers, HoldsActor, HoldsInserted, HoldsNewTeam
<1>4. HoldsHeir(x, r)' /\ HoldsAdmins(x, r)' /\ HoldsTarget(x, r)'
  BY DEF HoldsHeir, HoldsAdmins, HoldsTarget
<1> QED  BY <1>1, <1>2, <1>3, <1>4 DEF Keeps, OwnTeam

LEMMA SpentStays ==
    ASSUME IInv, UNCHANGED spent
    PROVE  /\ spent' \in [users : SUBSET Users, teams : SUBSET Teams]
           /\ spent.users \subseteq spent'.users /\ spent.teams \subseteq spent'.teams
BY DEF IInv, DbType

LEMMA EditRequestStep ==
    ASSUME IInv, NEW x \in Txs, NEW t \in Teams, NEW u \in Users, NEW m \in Lists, EditRequest(x, t, u, m)
    PROVE  IInv'
<1>1. PICK r : /\ r = [Idle EXCEPT !.pc = "team", !.kind = "edit", !.team = t, !.actor = u, !.list = m]
               /\ Request(x, r) /\ UNCHANGED spent
  BY DEF EditRequest
<1>2. r \in TxStates /\ r.pc = "team" /\ r.kind = "edit" /\ r.team = t /\ r.actor = u /\ r.seen = {}
  BY <1>1, IdleFacts, ListsAssumption DEF TxStates
<1>3. Shape(r)
  BY <1>2 DEF Shape
<1> QED  BY <1>1, <1>2, <1>3, FreshKeeps, SpentStays, RequestStep

LEMMA LeaveRequestStep ==
    ASSUME IInv, NEW x \in Txs, NEW t \in Teams, NEW u \in Users, LeaveRequest(x, t, u)
    PROVE  IInv'
<1>1. PICK r : /\ r = [Idle EXCEPT !.pc = "team", !.kind = "leave", !.team = t, !.actor = u]
               /\ Request(x, r) /\ UNCHANGED spent
  BY DEF LeaveRequest
<1>2. r \in TxStates /\ r.pc = "team" /\ r.kind = "leave" /\ r.team = t /\ r.actor = u /\ r.seen = {}
  BY <1>1, IdleFacts DEF TxStates
<1>3. Shape(r)
  BY <1>2 DEF Shape
<1> QED  BY <1>1, <1>2, <1>3, FreshKeeps, SpentStays, RequestStep

LEMMA DeleteRequestStep ==
    ASSUME IInv, NEW x \in Txs, NEW a \in Users, NEW u \in Users, DeleteRequest(x, a, u)
    PROVE  IInv'
<1>1. PICK r : /\ r = [Idle EXCEPT !.pc = "begin", !.kind = "delete", !.actor = a, !.target = u, !.reauth = hash[a]]
               /\ Request(x, r) /\ UNCHANGED spent /\ a # u
  BY DEF DeleteRequest
<1>2. hash[a] \in Int
  BY DEF IInv, DbType
<1>3. r \in TxStates /\ r.pc = "begin" /\ r.kind = "delete" /\ r.actor = a /\ r.target = u
  BY <1>1, <1>2, IdleFacts DEF TxStates
<1>4. Shape(r)
  BY <1>1, <1>3 DEF Shape
<1> QED  BY <1>1, <1>3, <1>4, FreshKeeps, SpentStays, RequestStep

LEMMA UpdateRequestStep ==
    ASSUME IInv, NEW x \in Txs, NEW a \in Users, NEW u \in Users, NEW isAdmin \in BOOLEAN,
           NEW pwd \in BOOLEAN, NEW reauth \in BOOLEAN, UpdateRequest(x, a, u, isAdmin, pwd, reauth)
    PROVE  IInv'
<1>1. PICK h : h = IF reauth THEN hash[a] ELSE -1
  OBVIOUS
<1>2. h \in Int
  BY <1>1 DEF IInv, DbType
<1>3. PICK r : /\ r = [Idle EXCEPT !.pc = "begin", !.kind = "update", !.actor = a, !.target = u, !.admin = isAdmin,
                                   !.pwd = pwd, !.reauth = h]
               /\ Request(x, r) /\ UNCHANGED spent /\ ~(a = u /\ ~isAdmin)
  BY <1>1 DEF UpdateRequest
<1>4. r \in TxStates /\ r.pc = "begin" /\ r.kind = "update" /\ r.actor = a /\ r.target = u /\ r.admin = isAdmin
  BY <1>2, <1>3, IdleFacts DEF TxStates
<1>5. Shape(r)
  BY <1>3, <1>4 DEF Shape
<1> QED  BY <1>3, <1>4, <1>5, FreshKeeps, SpentStays, RequestStep

LEMMA CreateRequestStep ==
    ASSUME IInv, NEW x \in Txs, NEW t \in Teams, NEW u \in Users, NEW m \in Lists, CreateRequest(x, t, u, m)
    PROVE  IInv'
<1>1. PICK list : list = [m EXCEPT ![u] = 0]
  OBVIOUS
<1>2. PICK r : /\ r = [Idle EXCEPT !.pc = "insert", !.kind = "create", !.team = t, !.actor = u, !.list = list,
                                   !.rows = Listed(m)]
               /\ Request(x, r)
  BY <1>1 DEF CreateRequest
<1>3. /\ t \notin spent.teams /\ spent' = [spent EXCEPT !.teams = spent.teams \cup {t}] /\ m[u] # NotMember
  BY DEF CreateRequest
<1>4. list \in MemberLists /\ list[u] = 0 /\ \A v \in Users : list[v] # NotMember => m[v] # NotMember
  BY <1>1, <1>3, ListsAssumption, RolesAssumption DEF MemberLists
<1>5. /\ r \in TxStates /\ r.pc = "insert" /\ r.kind = "create" /\ r.team = t /\ r.actor = u
      /\ r.list = list /\ r.rows = Listed(m) /\ Listed(m) \subseteq Users
  BY <1>2, <1>4, IdleFacts DEF TxStates, Listed
<1>6. /\ spent' \in [users : SUBSET Users, teams : SUBSET Teams]
      /\ spent'.users = spent.users /\ spent'.teams = spent.teams \cup {t}
  BY <1>3 DEF IInv, DbType
<1>7. Shape(r)' /\ HoldsTeam(x, r)' /\ HoldsMembers(x, r)' /\ HoldsActor(x, r)'
  BY <1>5 DEF Shape, HoldsTeam, HoldsMembers, HoldsActor
<1>8. HoldsInserted(x, r)'
  BY <1>4, <1>5 DEF HoldsInserted, Listed
<1>9. teams \subseteq spent.teams /\ teams' = teams
  BY <1>2 DEF Request, IInv, DbType
<1>10. HoldsNewTeam(r)'
  BY <1>3, <1>4, <1>5, <1>6, <1>9 DEF HoldsNewTeam
<1>11. HoldsHeir(x, r)' /\ HoldsAdmins(x, r)' /\ HoldsTarget(x, r)'
  BY <1>5 DEF HoldsHeir, HoldsAdmins, HoldsTarget
<1>12. Keeps(x, r)'
  BY <1>7, <1>8, <1>10, <1>11 DEF Keeps
<1>13. OwnTeam(x, r)
  BY <1>3, <1>5 DEF OwnTeam, IInv, Keeps, HoldsNewTeam
<1>14. spent.users \subseteq spent'.users /\ spent.teams \subseteq spent'.teams
  BY <1>6
<1> QED  BY <1>2, <1>5, <1>6, <1>12, <1>13, <1>14, RequestStep

-----------------------------------------------------------------------------
(* Single statements on users: they wait for no handler, and spare the     *)
(* rows that one has locked.                                               *)

LEMMA StatementStep ==
    ASSUME IInv, UNCHANGED <<locks, tx>>, DataType', accounts \subseteq accounts',
           OwnerAdministers', AdministratorRemains', \A y \in Txs : Stable(y)
    PROVE  IInv'
<1>1. tx' = tx /\ xlocks' = xlocks /\ klocks' = klocks
  BY DEF locks
<1>2. DbType'
  BY <1>1 DEF DataType, DbType, IInv
<1>3. \A y \in Txs : \A row \in Rows : (HoldsX(y, row)' <=> HoldsX(y, row)) /\ (HoldsK(y, row)' <=> HoldsK(y, row))
  BY <1>1 DEF HoldsX, HoldsK
<1>4. Exclusion' /\ Distinct'
  BY <1>1, <1>3 DEF IInv, Exclusion, Distinct
<1>5. References'
  BY <1>1, <1>3, RowFacts DEF IInv, References
<1>6. \A y \in Txs : Keeps(y, tx[y])'
  BY <1>1, <1>3, OthersKeep
<1> QED  BY <1>2, <1>4, <1>5, <1>6 DEF IInv

LEMMA AddUserStep ==
    ASSUME IInv, NEW u \in Users, NEW isAdmin \in BOOLEAN, AddUser(u, isAdmin)
    PROVE  IInv'
<1>1. /\ u \notin spent.users /\ ops < MaxOps /\ ops' = ops + 1
      /\ accounts' = accounts \cup {u} /\ admins' = IF isAdmin THEN admins \cup {u} ELSE admins
      /\ spent' = [spent EXCEPT !.users = spent.users \cup {u}]
      /\ UNCHANGED <<hash, teams, owner, role>> /\ UNCHANGED <<locks, tx>>
  BY DEF AddUser
<1>2. DataType
  BY DEF IInv, DbType, DataType
<1>3. /\ spent' \in [users : SUBSET Users, teams : SUBSET Teams]
      /\ spent'.users = spent.users \cup {u} /\ spent'.teams = spent.teams
  BY <1>1, <1>2 DEF DataType
<1>4. ops' \in 0 .. MaxOps
  BY <1>1, <1>2, OpsAssumption DEF DataType
<1>5. DataType'
  BY <1>1, <1>2, <1>3, <1>4 DEF DataType
<1>6. ASSUME NEW y \in Txs
      PROVE  Stable(y)
  <2>1. tx[y].kind = "create" => tx[y].team \notin teams'
    BY <1>1 DEF IInv, Keeps, HoldsNewTeam
  <2>2. \A v \in Users : v \in accounts => v # u
    BY <1>1, <1>2 DEF DataType
  <2> QED  BY <1>1, <1>3, <2>1, <2>2 DEF Stable
<1>7. OwnerAdministers' /\ AdministratorRemains'
  BY <1>1 DEF IInv, OwnerAdministers, AdministratorRemains
<1> QED  BY <1>1, <1>5, <1>6, <1>7, StatementStep

LEMMA RehashStep ==
    ASSUME IInv, NEW u \in Users, Rehash(u)
    PROVE  IInv'
<1>1. /\ \A y \in Txs : ~HoldsX(y, UserRow(u)) /\ ops < MaxOps /\ ops' = ops + 1
      /\ hash' = [hash EXCEPT ![u] = 1]
      /\ UNCHANGED <<accounts, admins, spent, teams, owner, role>> /\ UNCHANGED <<locks, tx>>
  BY DEF Rehash, HoldsX
<1>2. DataType
  BY DEF IInv, DbType, DataType
<1>3. ops' \in 0 .. MaxOps
  BY <1>2, OpsAssumption DEF DataType, Rehash
<1>4. hash' \in [Users -> Nat] /\ \A v \in Users : v # u => hash'[v] = hash[v]
  BY <1>1, <1>2 DEF DataType
<1>5. DataType'
  BY <1>1, <1>2, <1>3, <1>4 DEF DataType
<1>6. ASSUME NEW y \in Txs
      PROVE  Stable(y)
  <2>1. tx[y].kind = "create" => tx[y].team \notin teams'
    BY <1>1 DEF IInv, Keeps, HoldsNewTeam
  <2> QED  BY <1>1, <1>4, <2>1 DEF Stable
<1>7. OwnerAdministers' /\ AdministratorRemains'
  BY <1>1 DEF IInv, OwnerAdministers, AdministratorRemains
<1> QED  BY <1>1, <1>5, <1>6, <1>7, StatementStep

-----------------------------------------------------------------------------
(* The theorems.                                                           *)

LEMMA InitIInv == Init => IInv
<1> SUFFICES ASSUME Init
             PROVE  IInv
  OBVIOUS
<1>1. [u \in Users |-> NotMember] \in MemberLists
  BY DEF MemberLists
<1>2. tx \in [Txs -> TxStates] /\ \A x \in Txs : tx[x] = Idle
  BY IdleFacts DEF Init
<1>3. role \in [Teams -> MemberLists]
  BY <1>1, InitAssumption DEF Init
<1>4. /\ accounts \subseteq Users /\ admins \subseteq accounts /\ teams \subseteq Teams
      /\ owner \in [Teams -> Users] /\ \A t \in Teams : owner[t] \in accounts
      /\ hash \in [Users -> Nat]
  BY InitAssumption DEF Init
<1>5. /\ spent \in [users : SUBSET Users, teams : SUBSET Teams]
      /\ accounts \subseteq spent.users /\ teams \subseteq spent.teams
  BY InitAssumption DEF Init
<1>6. DbType
  BY <1>2, <1>3, <1>4, <1>5, OpsAssumption DEF DbType, Init
<1>7. Exclusion /\ References
  BY DEF Init, Exclusion, References, HoldsX, HoldsK
<1>8. Distinct
  BY <1>2, IdleFacts DEF Distinct
<1>9. \A x \in Txs : Keeps(x, tx[x])
  BY <1>2, IdleKeeps
<1>10. OwnerAdministers /\ AdministratorRemains
  BY <1>4, InitAssumption DEF Init, OwnerAdministers, AdministratorRemains
<1> QED  BY <1>6, <1>7, <1>8, <1>9, <1>10 DEF IInv

LEMMA NextIInv == IInv /\ [Next]_vars => IInv'
<1> SUFFICES ASSUME IInv, [Next]_vars
             PROVE  IInv'
  OBVIOUS
<1>1. ASSUME NEW x \in Txs, Requests(x)
      PROVE  IInv'
  <2>1. ASSUME NEW t \in Teams, NEW u \in Users,
               (\E m \in Lists : EditRequest(x, t, u, m) \/ CreateRequest(x, t, u, m)) \/ LeaveRequest(x, t, u)
        PROVE  IInv'
    BY <2>1, EditRequestStep, CreateRequestStep, LeaveRequestStep
  <2>2. ASSUME NEW a \in Users, NEW u \in Users,
               \/ DeleteRequest(x, a, u)
               \/ \E isAdmin, pwd, reauth \in BOOLEAN : UpdateRequest(x, a, u, isAdmin, pwd, reauth)
        PROVE  IInv'
    BY <2>2, DeleteRequestStep, UpdateRequestStep
  <2> QED  BY <1>1, <2>1, <2>2, Zenon DEF Requests
<1>2. ASSUME NEW x \in Txs, Step(x)
      PROVE  IInv'
  BY <1>2, LockTeamStep, LockActorStep, LockMemberStep, MembersReadStep, LockReferencedStep,
     CommitEditStep, CommitHeirStep, CommitCreateStep, BeginStep, LockAdministratorStep,
     ActorCheckedStep, LockDeleteTargetStep, LockUpdateTargetStep, LockCascadeStep,
     CommitDeleteStep, CommitUpdateStep, Zenon DEF Step
<1>3. ASSUME NEW x \in Txs, DeadlockAbort(x) \/ Fail(x)
      PROVE  IInv'
  BY <1>3, RollbackStep DEF DeadlockAbort, Fail
<1>4. ASSUME NEW u \in Users, Rehash(u) \/ \E isAdmin \in BOOLEAN : AddUser(u, isAdmin)
      PROVE  IInv'
  BY <1>4, RehashStep, AddUserStep
<1>5. CASE UNCHANGED vars
  <2>1. UNCHANGED <<locks, tx>> /\ UNCHANGED <<accounts, admins, hash, spent, teams, owner, role>> /\ ops' = ops
    BY <1>5 DEF vars, db
  <2>2. DataType'
    BY <2>1 DEF IInv, DbType, DataType
  <2>3. OwnerAdministers' /\ AdministratorRemains'
    BY <2>1 DEF IInv, OwnerAdministers, AdministratorRemains
  <2>4. ASSUME NEW y \in Txs
        PROVE  Stable(y)
    <3>1. tx[y].kind = "create" => tx[y].team \notin teams'
      BY <2>1 DEF IInv, Keeps, HoldsNewTeam
    <3> QED  BY <2>1, <3>1 DEF Stable
  <2> QED  BY <2>1, <2>2, <2>3, <2>4, StatementStep
<1> QED  BY <1>1, <1>2, <1>3, <1>4, <1>5, Zenon DEF Next

(* In every reachable state of internal/db/team.go and internal/db/user.go *)
(* each transaction holds the locks that what it has read depends on.      *)
THEOREM Invariance == Spec => []IInv
BY InitIInv, NextIInv, PTL DEF Spec

(* The tables, the locks and the handlers keep their types, every          *)
(* administrator has an account, and no more requests than MaxOps arrive.  *)
THEOREM TypeCorrect == Spec => []TypeOK
<1>1. IInv => TypeOK
  <2>1. IInv => teams \subseteq Teams
    BY DEF IInv, DbType
  <2> QED  BY <2>1 DEF IInv, DbType, TypeOK
<1> QED  BY <1>1, Invariance, PTL

(* Every team has an owner with an account who is a team administrator,    *)
(* however updateTeam, LeaveTeam, CreateTeam and DeleteUser interleave.    *)
THEOREM OwnersAdminister == Spec => []OwnerAdministers
<1>1. IInv => OwnerAdministers
  BY DEF IInv
<1> QED  BY <1>1, Invariance, PTL

(* However many administrators delete or demote each other at once through *)
(* DeleteUser and UpdateAdminUser, one remains.                            *)
THEOREM AdministratorsRemain == Spec => []AdministratorRemains
<1>1. IInv => AdministratorRemains
  BY DEF IInv
<1> QED  BY <1>1, Invariance, PTL

LEMMA EditAuthorised ==
    ASSUME IInv, NEW x \in Txs, CommitEdit(x)
    PROVE  role[tx[x].team][tx[x].actor] = 0
<1>1. tx[x].pc = "insert" /\ tx[x].kind = "edit" /\ Keeps(x, tx[x])
  BY DEF CommitEdit, IInv
<1> QED  BY <1>1 DEF Keeps, HoldsActor

LEMMA AdminChangeAuthorised ==
    ASSUME IInv, NEW x \in Txs,
           \/ CommitDelete(x) /\ accounts' # accounts
           \/ CommitUpdate(x) /\ (admins' # admins \/ hash' # hash)
    PROVE  tx[x].actor \in admins /\ hash[tx[x].actor] = tx[x].reauth
<1>1. PICK p : p = tx[x] /\ p \in TxStates /\ Keeps(x, p)
  BY DEF IInv, DbType
<1>2. CASE CommitDelete(x)
  <2>1. p.pc = "cascade"
    BY <1>1, <1>2 DEF CommitDelete
  <2>2. p.kind = "delete"
    BY <1>1, <2>1 DEF Keeps, Shape
  <2> QED  BY <1>1, <2>1, <2>2 DEF Keeps, HoldsAdmins
<1>3. CASE CommitUpdate(x) /\ (admins' # admins \/ hash' # hash)
  <2>1. p.pc = "write"
    BY <1>1, <1>3 DEF CommitUpdate
  <2>2. /\ admins' = IF p.admin THEN admins \cup {p.target} ELSE admins \ {p.target}
        /\ hash' = IF p.pwd THEN [hash EXCEPT ![p.target] = @ + 1] ELSE hash
    BY <1>1, <1>3 DEF CommitUpdate
  <2>3. p.pwd \/ (p.admin /\ p.target \notin admins) \/ (~p.admin /\ p.target \in admins)
    BY <1>3, <2>2
  <2>4. (p.target \in admins) # p.admin \/ p.pwd
    <3>1. p.admin \in BOOLEAN
      BY <1>1 DEF TxStates
    <3> QED  BY <2>3, <3>1
  <2> QED  BY <1>1, <2>1, <2>4 DEF Keeps, HoldsAdmins
<1>4. CommitDelete(x) \/ (CommitUpdate(x) /\ (admins' # admins \/ hash' # hash))
  OBVIOUS
<1> QED  BY <1>2, <1>3, <1>4

(* A team is edited, and an account deleted, promoted, demoted or given a  *)
(* password, only by an actor who at the commit is entitled to it and, for *)
(* accounts, whose password is still the one that was checked.             *)
THEOREM ChangesNeedRights == Spec => ChangesAreAuthorised
<1>1. IInv => \A x \in Txs : CommitEdit(x) => role[tx[x].team][tx[x].actor] = 0
  BY EditAuthorised
<1>2. IInv => \A x \in Txs :
          \/ CommitDelete(x) /\ accounts' # accounts
          \/ CommitUpdate(x) /\ (admins' # admins \/ hash' # hash)
          => tx[x].actor \in admins /\ hash[tx[x].actor] = tx[x].reauth
  BY AdminChangeAuthorised
<1>3. Spec => EditsAreAuthorised
  BY <1>1, Invariance, PTL DEF EditsAreAuthorised
<1>4. Spec => AdminChangesAreAuthorised
  BY <1>2, Invariance, PTL DEF AdminChangesAreAuthorised
<1> QED  BY <1>3, <1>4 DEF ChangesAreAuthorised
=============================================================================
