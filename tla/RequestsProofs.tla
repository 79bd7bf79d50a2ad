--------------------------- MODULE RequestsProofs ---------------------------
(***************************************************************************)
(* Proofs about the four components of MCRequests and their composition,   *)
(* for any number of requests, administrators, users, logins, teams,       *)
(* imports and rows: sign-in with an external provider ends with the       *)
(* account that was proved, and the hub follows the committed provider; no *)
(* login of an SSH server or of an agent's host is reported twice; the     *)
(* configuration of teams stays whole. Each component has an inductive     *)
(* invariant, a lemma per action and a theorem.                            *)
(***************************************************************************)
EXTENDS MCRequests, Sequences, FiniteSetTheorems, TLAPS

-----------------------------------------------------------------------------
(* OAuthProviders: the inductive invariant *)

None == O!None
IdleAdmin == O!IdleAdmin
IdleRequest == O!IdleRequest

Configs == {c \in [tag : {"config"}, ns : Namespaces, version : Nat, rev : Nat] : c.rev > 0}
RowType ==
    row \in [st : {"none", "live", "gone"}, ns : Namespaces,
             version : Nat, rev : Nat, on : BOOLEAN]
MemoryType ==
    memory \in [config : {None} \cup Configs, deleted : Nat,
                states : SUBSET [id : Nat, rev : Nat, fresh : BOOLEAN]]
AdminStates ==
    {IdleAdmin} \cup [step : {"install"}, config : Configs]
                \cup [step : {"remove", "revoke"}, rev : Nat]
Saved == [tag : {"state"}, id : Nat, rev : Nat, version : Nat]
Proofs == [ns : Namespaces, subject : Subjects]
RequestStates ==
    {IdleRequest}
    \cup [step : {"session"}, user : Users, link : BOOLEAN, config : Configs]
    \cup [step : {"consume", "exchange"}, user : Users, link : BOOLEAN,
          config : Configs, state : Saved]
    \cup [step : {"bound", "lookup", "add"}, user : Users, state : Saved, proved : Proofs]
Identities == [user : Users, subject : Subjects, ns : Namespaces,
               quarantined : BOOLEAN]
Ends == [id : Nat, proved : Proofs, account : Proofs]

OAuthType ==
    /\ RowType /\ MemoryType
    /\ identity \in SUBSET Identities
    /\ admin \in [Admins -> AdminStates]
    /\ session \in [Users -> {None} \cup Saved]
    /\ request \in [Requests -> RequestStates]
    /\ done \in [issued : Nat, ends : Seq(Ends)]

\* What is known of revision rev: no newer one is committed, and it is as
\* committed if it is the last.
Committed(c) == c.rev <= row.rev /\ (c.rev = row.rev => c.ns = row.ns /\ c.version = row.version)

\* The row of a provider that was never added has no revision.
RowInv ==
    /\ row.st = "none" <=> row.rev = 0
    /\ \A i \in O!Active : row.st = "live" /\ i.ns = row.ns

\* Whoever is between commit and revocation works with a committed revision:
\* an enabled one to install, a disabled or deleted one to remove.
AdminOK(p) ==
    /\ p.step = "install" =>
          /\ Committed(p.config)
          /\ p.config.rev = row.rev => row.on
    /\ p.step = "remove" => p.rev <= row.rev /\ (p.rev = row.rev => row.st = "gone" \/ ~row.on)
    /\ p.step = "revoke" => p.rev <= row.rev

Spending(q) == q.step \in {"exchange", "bound", "lookup", "add"}

\* A request holds a committed configuration; once it has consumed its state,
\* that state is for this configuration, and so is what it proves.
RequestOK(q) ==
    /\ q.step \in {"session", "consume", "exchange"} => Committed(q.config)
    /\ q.step = "exchange" => q.state.rev = q.config.rev /\ q.state.version = q.config.version
    /\ q.step \in {"bound", "lookup", "add"} =>
          q.state.rev <= row.rev /\ (q.state.rev = row.rev => q.proved.ns = row.ns)

\* A state is in the store, spent by one request, or the id of one end.
StatesInv ==
    /\ \A s \in memory.states : s.id <= done.issued
    /\ \A r \in Requests : Spending(request[r]) =>
          /\ request[r].state.id <= done.issued
          /\ \A s \in memory.states : s.id # request[r].state.id
          /\ \A n \in DOMAIN done.ends : done.ends[n].id # request[r].state.id
          /\ \A q \in Requests :
                Spending(request[q]) /\ request[q].state.id = request[r].state.id => q = r
    /\ \A n \in DOMAIN done.ends :
          /\ done.ends[n].id <= done.issued
          /\ \A s \in memory.states : s.id # done.ends[n].id
          /\ done.ends[n].account = done.ends[n].proved
          /\ \A m \in DOMAIN done.ends : done.ends[m].id = done.ends[n].id => m = n

Installs(a) == admin[a].step = "install"
Removes(a) == admin[a].step = "remove" /\ admin[a].rev = row.rev

\* The hub has the committed configuration, or the handler that will bring it.
\* The other possibilities: the provider could not be built at the last start;
\* it is deleted, and no handler of an older revision is left.
ConfigInv ==
    /\ memory.config # None => Committed(memory.config) /\ memory.deleted < memory.config.rev
    /\ memory.deleted <= row.rev
    /\ row.st = "none" => memory.config = None
    /\ row.st = "live" /\ row.on =>
          \/ memory.config # None /\ memory.config.rev = row.rev
          \/ \E a \in Admins : Installs(a) /\ admin[a].config.rev = row.rev
          \/ memory.config = None /\ memory.deleted = row.rev
    /\ row.st = "live" /\ ~row.on =>
          \/ \E a \in Admins : Removes(a)
          \/ memory.config = None /\ memory.deleted = row.rev
    /\ row.st = "gone" =>
          \/ \E a \in Admins : Removes(a)
          \/ memory.config = None /\ memory.deleted = row.rev
          \/ memory.config = None /\ \A a \in Admins : ~Installs(a)

\* A state of an older configuration is about to be revoked.
RevokeInv ==
    \A s \in memory.states :
        \/ memory.config # None /\ s.rev = memory.config.rev
        \/ \E a \in Admins : admin[a].step = "revoke" /\ s.rev <= admin[a].rev

OAuthInv ==
    /\ OAuthType /\ RowInv
    /\ \A a \in Admins : AdminOK(admin[a])
    /\ \A r \in Requests : RequestOK(request[r])
    /\ StatesInv /\ ConfigInv /\ RevokeInv

-----------------------------------------------------------------------------
(* OAuthProviders: shapes of records *)

LEMMA AdminShape ==
    ASSUME NEW p \in AdminStates
    PROVE  /\ p.step \in {"idle", "install", "remove", "revoke"}
           /\ p.step = "idle" <=> p = IdleAdmin
           /\ p.step = "install" => p.config \in Configs
           /\ p.step \in {"remove", "revoke"} => p.rev \in Nat
BY DEF AdminStates, IdleAdmin, O!IdleAdmin

LEMMA ConfigShape ==
    /\ \A c \in Configs : c # None /\ c.rev \in Nat /\ c.rev > 0 /\ c.version \in Nat /\ c.ns \in Namespaces
    /\ \A c \in Configs : \A p : p \in [tag : {"config"}, ns : Namespaces, version : Nat, rev : Nat]
                                 /\ p.rev = c.rev => p \in Configs
BY DEF Configs, None, O!None

LEMMA RequestShape ==
    ASSUME NEW q \in RequestStates
    PROVE  /\ q.step \in {"idle", "session", "consume", "exchange", "bound", "lookup", "add"}
           /\ q.step = "idle" <=> q = IdleRequest
           /\ q.step # "idle" => q.user \in Users
           /\ q.step \in {"session", "consume", "exchange"} => q.config \in Configs /\ q.link \in BOOLEAN
           /\ q.step \in {"consume", "exchange", "bound", "lookup", "add"} => q.state \in Saved
           /\ q.step \in {"bound", "lookup", "add"} => q.proved \in Proofs
<1> DEFINE A1 == [step : {"session"}, user : Users, link : BOOLEAN, config : Configs]
           A2 == [step : {"consume", "exchange"}, user : Users, link : BOOLEAN,
                  config : Configs, state : Saved]
           A3 == [step : {"bound", "lookup", "add"}, user : Users, state : Saved, proved : Proofs]
<1>1. q = IdleRequest \/ q \in A1 \/ q \in A2 \/ q \in A3
  BY DEF RequestStates
<1>2. IdleRequest.step = "idle"
  BY DEF IdleRequest, O!IdleRequest
<1>3. CASE q = IdleRequest
  BY <1>2, <1>3
<1>4. CASE q \in A1
  BY <1>2, <1>4
<1>5. CASE q \in A2
  BY <1>2, <1>5
<1>6. CASE q \in A3
  BY <1>2, <1>6
<1> QED  BY <1>1, <1>3, <1>4, <1>5, <1>6

LEMMA NoRowIs ==
    /\ O!NoRow.st = "none" /\ O!NoRow.ns \in Namespaces /\ O!NoRow.version = 0
    /\ O!NoRow.rev = 0 /\ ~O!NoRow.on
    /\ O!NoRow \in [st : {"none", "live", "gone"}, ns : Namespaces,
                    version : Nat, rev : Nat, on : BOOLEAN]
<1>1. (CHOOSE n \in Namespaces : TRUE) \in Namespaces
  BY OAuthAssumption
<1> QED  BY <1>1 DEF O!NoRow

\* A configuration made of a committed row.
LEMMA ConfigOf ==
    ASSUME NEW r \in [st : {"none", "live", "gone"}, ns : Namespaces,
                      version : Nat, rev : Nat, on : BOOLEAN],
           r.rev > 0
    PROVE  /\ O!Config(r) \in Configs /\ O!Config(r).rev = r.rev
           /\ O!Config(r).version = r.version /\ O!Config(r).ns = r.ns
BY DEF Configs, O!Config

\* Memory at startup.
LEMMA BootIs ==
    ASSUME RowType, row.st = "none" <=> row.rev = 0, NEW built \in BOOLEAN,
           NEW m, m = O!Boot(row, built)
    PROVE  /\ m \in [config : {None} \cup Configs, deleted : Nat,
                     states : SUBSET [id : Nat, rev : Nat, fresh : BOOLEAN]]
           /\ m.states = {} /\ m.deleted <= row.rev
           /\ m.config # None => Committed(m.config) /\ m.deleted < m.config.rev
                                 /\ m.config.rev = row.rev /\ row.st = "live"
           /\ m.config = None /\ row.st = "live" => m.deleted = row.rev
           /\ row.st = "live" /\ ~row.on => m.config = None
<1>1. row.rev \in Nat /\ row.st \in {"none", "live", "gone"} /\ row.on \in BOOLEAN
  BY DEF RowType
<1>2. CASE row.st # "live"
  <2>1. m = [config |-> None, deleted |-> 0, states |-> {}]
    BY <1>2 DEF O!Boot, None
  <2> QED  BY <1>1, <1>2, <2>1
<1>3. CASE row.st = "live" /\ row.on /\ built
  <2>1. m = [config |-> O!Config(row), deleted |-> 0, states |-> {}]
    BY <1>3 DEF O!Boot
  <2>2. row.rev > 0
    BY <1>1, <1>3
  <2>3. O!Config(row) \in Configs /\ O!Config(row).rev = row.rev /\ O!Config(row) # None
        /\ O!Config(row).version = row.version /\ O!Config(row).ns = row.ns
    BY <2>2, ConfigOf, ConfigShape DEF RowType
  <2>4. m.config = O!Config(row) /\ m.deleted = 0 /\ m.states = {}
    BY <2>1
  <2>5. Committed(m.config)
    BY <1>1, <2>3, <2>4 DEF Committed
  <2>6. m \in [config : {None} \cup Configs, deleted : Nat,
                states : SUBSET [id : Nat, rev : Nat, fresh : BOOLEAN]]
    BY <2>1, <2>3
  <2>7. m.config # None /\ m.deleted < m.config.rev /\ m.config.rev = row.rev /\ m.deleted <= row.rev
    BY <1>1, <2>2, <2>3, <2>4
  <2> QED  BY <1>3, <2>4, <2>5, <2>6, <2>7, Zenon
<1>4. CASE row.st = "live" /\ ~(row.on /\ built)
  <2>1. m = [config |-> None, deleted |-> row.rev, states |-> {}]
    BY <1>4 DEF O!Boot, None
  <2> QED  BY <1>1, <1>4, <2>1
<1> QED  BY <1>2, <1>3, <1>4, <1>1

LEMMA OAuthInit == O!Init => OAuthInv
<1> SUFFICES ASSUME O!Init
             PROVE  OAuthInv
  OBVIOUS
<1>1. RowType /\ (row.st = "none" <=> row.rev = 0) /\ row.st \in {"none", "live"}
      /\ (row.st = "live" => row.on)
  <2>1. CASE row = O!NoRow
    BY <2>1, NoRowIs DEF RowType
  <2>2. ASSUME NEW n \in Namespaces,
               row = [st |-> "live", ns |-> n, version |-> 1, rev |-> 1, on |-> TRUE]
        PROVE  RowType /\ row.st = "live" /\ row.rev = 1 /\ row.on
    BY <2>2 DEF RowType
  <2> QED  BY <2>1, <2>2, NoRowIs DEF O!Init, O!Rows
<1>2. PICK built \in BOOLEAN : memory = O!Boot(row, built)
  BY DEF O!Init
<1>3. identity \in SUBSET Identities /\ \A i \in identity : i.quarantined
  <2>1. row.ns \in Namespaces
    BY <1>1 DEF RowType
  <2>2. identity = {} \/ \E u \in Users, s \in Subjects :
            identity = {[user |-> u, subject |-> s, ns |-> row.ns, quarantined |-> TRUE]}
    BY DEF O!Init
  <2>3. CASE identity = {}
    BY <2>3
  <2>4. ASSUME NEW u \in Users, NEW s \in Subjects,
               identity = {[user |-> u, subject |-> s, ns |-> row.ns, quarantined |-> TRUE]}
        PROVE  identity \in SUBSET Identities /\ \A i \in identity : i.quarantined
    BY <2>1, <2>4 DEF Identities
  <2> QED  BY <2>2, <2>3, <2>4
<1>4. O!Active = {}
  BY <1>3 DEF O!Active
<1>5. /\ admin = [a \in Admins |-> IdleAdmin] /\ session = [u \in Users |-> None]
      /\ request = [r \in Requests |-> IdleRequest] /\ done = [issued |-> 0, ends |-> << >>]
  BY DEF O!Init, IdleAdmin, IdleRequest, None
<1>6. IdleAdmin.step = "idle" /\ IdleRequest.step = "idle"
  BY DEF IdleAdmin, IdleRequest, O!IdleAdmin, O!IdleRequest
<1>7. OAuthType
  BY <1>1, <1>2, <1>3, <1>5, BootIs DEF OAuthType, MemoryType, AdminStates, RequestStates
<1>8. RowInv
  BY <1>1, <1>4 DEF RowInv
<1>9. (\A a \in Admins : AdminOK(admin[a])) /\ (\A r \in Requests : RequestOK(request[r]))
  BY <1>5, <1>6 DEF AdminOK, RequestOK
<1>10. memory.states = {}
  BY <1>1, <1>2, BootIs
<1>11. StatesInv
  <2>1. \A r \in Requests : ~Spending(request[r])
    BY <1>5, <1>6 DEF Spending
  <2>2. DOMAIN done.ends = {}
    BY <1>5
  <2> QED  BY <1>10, <2>1, <2>2 DEF StatesInv
<1>12. ConfigInv
  <2>1. \A a \in Admins : ~Installs(a)
    BY <1>5, <1>6 DEF Installs
  <2> QED  BY <1>1, <1>2, <2>1, BootIs DEF ConfigInv
<1>13. RevokeInv
  BY <1>10 DEF RevokeInv
<1> QED  BY <1>7, <1>8, <1>9, <1>11, <1>12, <1>13 DEF OAuthInv

\* The invariant says what the properties say.
LEMMA OAuthSays == OAuthInv => O!AccountsAreProved /\ O!MemoryFollowsRow
<1> SUFFICES ASSUME OAuthInv
             PROVE  O!AccountsAreProved /\ O!MemoryFollowsRow
  OBVIOUS
<1>1. O!AccountsAreProved
  BY DEF OAuthInv, StatesInv, RowInv, O!AccountsAreProved
<1>2. ASSUME \A a \in Admins : admin[a] = O!IdleAdmin
      PROVE  /\ \/ row.st = "live" /\ row.on /\ memory.config = O!Config(row)
                \/ memory.config = O!None /\ (row.st = "live" => memory.deleted = row.rev)
             /\ \A s \in memory.states : memory.config # O!None /\ s.rev = memory.config.rev
  <2>1. \A a \in Admins : admin[a].step = "idle"
    BY <1>2 DEF O!IdleAdmin
  <2>2. \A a \in Admins : ~Installs(a) /\ ~Removes(a) /\ admin[a].step # "revoke"
    BY <2>1 DEF Installs, Removes
  <2>3. \A s \in memory.states : memory.config # None /\ s.rev = memory.config.rev
    BY <2>2 DEF OAuthInv, RevokeInv
  <2>4. row.st \in {"none", "live", "gone"} /\ row.on \in BOOLEAN /\ memory.config \in {None} \cup Configs
    BY DEF OAuthInv, OAuthType, RowType, MemoryType
  <2>5. CASE row.st = "live" /\ row.on /\ memory.config # None
    <3>1. memory.config.rev = row.rev /\ Committed(memory.config)
      BY <2>2, <2>5 DEF OAuthInv, ConfigInv
    <3>2. memory.config = O!Config(row)
      BY <2>4, <2>5, <3>1 DEF Committed, O!Config, Configs
    <3> QED  BY <2>3, <2>5, <3>2 DEF None
  <2>6. CASE ~(row.st = "live" /\ row.on /\ memory.config # None)
    <3>1. memory.config = None /\ (row.st = "live" => memory.deleted = row.rev)
      BY <2>2, <2>4, <2>6 DEF OAuthInv, ConfigInv
    <3> QED  BY <2>3, <3>1 DEF None
  <2> QED  BY <2>5, <2>6
<1> QED  BY <1>1, <1>2 DEF O!MemoryFollowsRow

-----------------------------------------------------------------------------
(* OAuthProviders: authorizations *)

\* What a step that only concerns authorizations leaves alone.
SameProvider ==
    /\ UNCHANGED <<row, admin>>
    /\ memory'.config = memory.config /\ memory'.deleted = memory.deleted

LEMMA SameProviderKeeps ==
    ASSUME OAuthInv, SameProvider
    PROVE  /\ RowType' /\ (\A a \in Admins : AdminOK(admin[a]))' /\ ConfigInv'
           /\ \A c : Committed(c)' = Committed(c)
           /\ \A q : RequestOK(q)' = RequestOK(q)
<1>1. RowType'
  BY DEF OAuthInv, OAuthType, RowType, SameProvider
<1>2. \A c : Committed(c)' = Committed(c)
  BY DEF SameProvider, Committed
<1>3. \A q : RequestOK(q)' = RequestOK(q)
  BY <1>2 DEF SameProvider, RequestOK
<1>4. (\A a \in Admins : AdminOK(admin[a]))'
  BY <1>2 DEF OAuthInv, SameProvider, AdminOK
<1>5. ConfigInv'
  BY <1>2 DEF OAuthInv, SameProvider, ConfigInv, Installs, Removes
<1> QED  BY <1>1, <1>2, <1>3, <1>4, <1>5

\* One request goes on; the state it spends stays the same.
LEMMA RequestMoves ==
    ASSUME OAuthInv, NEW r \in Requests, NEW q \in RequestStates, RequestOK(q),
           request' = [request EXCEPT ![r] = q],
           Spending(q) => Spending(request[r]) /\ q.state = request[r].state,
           UNCHANGED <<row, identity, memory, admin, session, done>>
    PROVE  OAuthInv'
<1>1. SameProvider
  BY DEF SameProvider
<1>2. OAuthType'
  BY DEF OAuthInv, OAuthType, RowType, MemoryType
<1>3. RowInv'
  BY DEF OAuthInv, RowInv, O!Active
<1>4. \A x \in Requests : request'[x] = IF x = r THEN q ELSE request[x]
  BY DEF OAuthInv, OAuthType
<1>5. (\A x \in Requests : RequestOK(request[x]))'
  BY <1>1, <1>4, SameProviderKeeps DEF OAuthInv
<1>6. \A x \in Requests : Spending(request'[x]) =>
          Spending(request[x]) /\ request'[x].state = request[x].state
  BY <1>4
<1>7. StatesInv'
  BY <1>6 DEF OAuthInv, StatesInv, Spending
<1>8. RevokeInv'
  BY DEF OAuthInv, RevokeInv
<1> QED  BY <1>1, <1>2, <1>3, <1>5, <1>7, <1>8, SameProviderKeeps DEF OAuthInv

LEMMA IdleIs ==
    /\ IdleRequest \in RequestStates /\ RequestOK(IdleRequest) /\ ~Spending(IdleRequest)
    /\ IdleAdmin \in AdminStates /\ AdminOK(IdleAdmin)
<1>1. IdleRequest.step = "idle" /\ IdleAdmin.step = "idle"
  BY DEF IdleRequest, O!IdleRequest, IdleAdmin, O!IdleAdmin
<1> QED
  BY <1>1 DEF RequestOK, Spending, AdminOK, RequestStates, AdminStates

LEMMA ArriveKeeps ==
    ASSUME OAuthInv, NEW r \in Requests, NEW u \in Users, NEW link \in BOOLEAN,
           O!Arrive(r, u, link)
    PROVE  OAuthInv'
<1> DEFINE q == [step |-> "session", user |-> u, link |-> link, config |-> memory.config]
<1>1. memory.config # None /\ memory.config \in Configs
  BY DEF O!Arrive, OAuthInv, OAuthType, MemoryType, None
<1>2. q \in RequestStates
  BY <1>1 DEF RequestStates
<1>3. RequestOK(q) /\ ~Spending(q)
  BY <1>1 DEF RequestOK, Spending, OAuthInv, ConfigInv
<1> QED  BY <1>2, <1>3, RequestMoves DEF O!Arrive, O!Goto

LEMMA ReadSessionKeeps ==
    ASSUME OAuthInv, NEW r \in Requests, O!ReadSession(r)
    PROVE  OAuthInv'
<1> DEFINE saved == session[request[r].user]
           q == [step |-> "consume", user |-> request[r].user, link |-> request[r].link,
                 config |-> request[r].config, state |-> saved]
<1>1. /\ request[r] \in RequestStates /\ RequestOK(request[r]) /\ request[r].step = "session"
  BY DEF OAuthInv, OAuthType, O!ReadSession
<1>2. request[r].user \in Users /\ request[r].config \in Configs /\ request[r].link \in BOOLEAN
  BY <1>1, RequestShape
<1>3. saved \in {None} \cup Saved
  BY <1>2 DEF OAuthInv, OAuthType
<1>4. CASE saved = None
  BY <1>4, IdleIs, RequestMoves DEF O!ReadSession, O!Refused, O!Goto, None, IdleRequest
<1>5. CASE saved # None
  <2>1. q \in RequestStates
    BY <1>2, <1>3, <1>5 DEF RequestStates
  <2>2. RequestOK(q) /\ ~Spending(q)
    BY <1>1 DEF RequestOK, Spending
  <2>3. request' = [request EXCEPT ![r] = q]
    BY <1>5 DEF O!ReadSession, O!Goto, None
  <2> QED  BY <2>1, <2>2, <2>3, RequestMoves DEF O!ReadSession
<1> QED  BY <1>4, <1>5

LEMMA ExchangeKeeps ==
    ASSUME OAuthInv, NEW r \in Requests, NEW s \in Subjects, O!Exchange(r, s)
    PROVE  OAuthInv'
<1> DEFINE p == request[r]
           q == [step |-> IF p.link THEN "bound" ELSE "lookup", user |-> p.user,
                 state |-> p.state, proved |-> [ns |-> p.config.ns, subject |-> s]]
<1>1. p \in RequestStates /\ RequestOK(p) /\ p.step = "exchange"
  BY DEF OAuthInv, OAuthType, O!Exchange
<1>2. p.user \in Users /\ p.config \in Configs /\ p.link \in BOOLEAN /\ p.state \in Saved
  BY <1>1, RequestShape
<1>3. p.config.ns \in Namespaces
  BY <1>2, ConfigShape
<1>4. [ns |-> p.config.ns, subject |-> s] \in Proofs
  BY <1>3 DEF Proofs
<1>5. q.step \in {"bound", "lookup"} /\ q.state = p.state /\ q.proved.ns = p.config.ns
  OBVIOUS
<1>6. q \in RequestStates
  BY <1>2, <1>4 DEF RequestStates
<1>7. RequestOK(q)
  BY <1>1, <1>5 DEF RequestOK, Committed
<1>8. Spending(p)
  BY <1>1 DEF Spending
<1> QED  BY <1>5, <1>6, <1>7, <1>8, RequestMoves DEF O!Exchange, O!Goto

LEMMA ExchangeFailsKeeps ==
    ASSUME OAuthInv, NEW r \in Requests, O!ExchangeFails(r)
    PROVE  OAuthInv'
BY IdleIs, RequestMoves DEF O!ExchangeFails, O!Refused, O!Goto, IdleRequest

LEMMA BoundKeeps ==
    ASSUME OAuthInv, NEW r \in Requests, O!GetBindByProviderAndSubject(r)
    PROVE  OAuthInv'
<1> DEFINE p == request[r]
           q == [p EXCEPT !.step = "add"]
<1>1. p \in RequestStates /\ RequestOK(p) /\ p.step = "bound"
  BY DEF OAuthInv, OAuthType, O!GetBindByProviderAndSubject
<1>2. p \in [step : {"bound", "lookup", "add"}, user : Users, state : Saved, proved : Proofs]
  BY <1>1 DEF RequestStates, IdleRequest, O!IdleRequest
<1>3. q \in [step : {"bound", "lookup", "add"}, user : Users, state : Saved, proved : Proofs]
      /\ q.step = "add" /\ q.state = p.state /\ q.proved = p.proved
  BY <1>2
<1>4. q \in RequestStates
  BY <1>3 DEF RequestStates
<1>5. RequestOK(q) /\ Spending(p)
  BY <1>1, <1>3 DEF RequestOK, Spending
<1>6. \/ request' = [request EXCEPT ![r] = IdleRequest]
      \/ request' = [request EXCEPT ![r] = q]
  BY DEF O!GetBindByProviderAndSubject, O!Refused, O!Goto, IdleRequest
<1> QED  BY <1>3, <1>4, <1>5, <1>6, IdleIs, RequestMoves DEF O!GetBindByProviderAndSubject

LEMMA ConsumeKeeps ==
    ASSUME OAuthInv, NEW r \in Requests, O!Consume(r)
    PROVE  OAuthInv'
<1> DEFINE p == request[r]
           q == [p EXCEPT !.step = "exchange"]
           ok == \E x \in memory.states : x.id = p.state.id /\ x.rev = p.state.rev /\ x.fresh
           left == {x \in memory.states : x.id # p.state.id}
<1>1. p \in RequestStates /\ RequestOK(p) /\ p.step = "consume"
  BY DEF OAuthInv, OAuthType, O!Consume
<1>2. p \in [step : {"consume", "exchange"}, user : Users, link : BOOLEAN,
             config : Configs, state : Saved]
  BY <1>1 DEF RequestStates, IdleRequest, O!IdleRequest
<1>3. q \in [step : {"consume", "exchange"}, user : Users, link : BOOLEAN,
             config : Configs, state : Saved]
      /\ q.step = "exchange" /\ q.state = p.state /\ q.config = p.config
  BY <1>2
<1>4. memory' = [memory EXCEPT !.states = left] /\ session' = [session EXCEPT ![p.user] = None]
      /\ UNCHANGED <<row, identity, admin, done>>
  BY DEF O!Consume, O!ConsumeState, None
<1>5. /\ memory'.states = left /\ memory'.config = memory.config
      /\ memory'.deleted = memory.deleted
      /\ MemoryType'
  BY <1>4 DEF OAuthInv, OAuthType, MemoryType
<1>6. SameProvider
  BY <1>4, <1>5 DEF SameProvider
<1>7. PICK t \in RequestStates :
          /\ request' = [request EXCEPT ![r] = t] /\ RequestOK(t)
          /\ Spending(t) => t.state = p.state /\ ok
  <2>1. CASE ok /\ O!Matches(p.state, p.config)
    <3>1. request' = [request EXCEPT ![r] = q]
      BY <2>1 DEF O!Consume, O!Goto
    <3>2. q \in RequestStates
      BY <1>3 DEF RequestStates
    <3>3. RequestOK(q)
      BY <1>1, <1>3, <2>1 DEF RequestOK, O!Matches
    <3> QED  BY <1>3, <2>1, <3>1, <3>2, <3>3
  <2>2. CASE ~(ok /\ O!Matches(p.state, p.config))
    BY <2>2, IdleIs DEF O!Consume, O!Refused, O!Goto, IdleRequest
  <2> QED  BY <2>1, <2>2
<1>8. OAuthType'
  <2>1. session' \in [Users -> {None} \cup Saved]
    BY <1>4 DEF OAuthInv, OAuthType
  <2>2. request' \in [Requests -> RequestStates]
    BY <1>7 DEF OAuthInv, OAuthType
  <2> QED  BY <1>4, <1>5, <2>1, <2>2 DEF OAuthInv, OAuthType, RowType
<1>9. RowInv'
  BY <1>4 DEF OAuthInv, RowInv, O!Active
<1>10. \A x \in Requests : request'[x] = IF x = r THEN t ELSE request[x]
  BY <1>7 DEF OAuthInv, OAuthType
<1>11. (\A x \in Requests : RequestOK(request[x]))'
  BY <1>6, <1>7, <1>10, SameProviderKeeps DEF OAuthInv
<1>12. StatesInv'
  <2>1. \A n \in DOMAIN done.ends : ok => done.ends[n].id # p.state.id
    BY DEF OAuthInv, StatesInv
  <2>2. \A x \in Requests : Spending(request[x]) /\ ok => request[x].state.id # p.state.id
    BY DEF OAuthInv, StatesInv
  <2>3. ok => p.state.id <= done.issued
    BY DEF OAuthInv, StatesInv
  <2>4. ~Spending(p)
    BY <1>1 DEF Spending
  <2>5. \A x \in Requests : Spending(request'[x]) =>
            \/ x = r /\ ok /\ request'[x].state = p.state
            \/ x # r /\ Spending(request[x]) /\ request'[x] = request[x]
    BY <1>7, <1>10
  <2> HIDE DEF ok, p
  <2>6. \A s \in memory'.states : s \in memory.states /\ s.id # p.state.id
    BY <1>5
  <2>7. \A x \in Requests : Spending(request'[x]) =>
          /\ request'[x].state.id <= done.issued
          /\ \A s \in memory'.states : s.id # request'[x].state.id
          /\ \A n \in DOMAIN done.ends : done.ends[n].id # request'[x].state.id
          /\ \A y \in Requests :
                Spending(request'[y]) /\ request'[y].state.id = request'[x].state.id => y = x
    BY <2>1, <2>2, <2>3, <2>5, <2>6 DEF OAuthInv, StatesInv
  <2>8. (\A x \in Requests : Spending(request[x]) =>
          /\ request[x].state.id <= done.issued
          /\ \A s \in memory.states : s.id # request[x].state.id
          /\ \A n \in DOMAIN done.ends : done.ends[n].id # request[x].state.id
          /\ \A y \in Requests :
                Spending(request[y]) /\ request[y].state.id = request[x].state.id => y = x)'
    BY <1>4, <2>7 DEF Spending
  <2> QED  BY <1>4, <2>6, <2>8 DEF OAuthInv, StatesInv
<1>13. RevokeInv'
  BY <1>4, <1>5 DEF OAuthInv, RevokeInv
<1> QED  BY <1>6, <1>8, <1>9, <1>11, <1>12, <1>13, SameProviderKeeps DEF OAuthInv

\* An authorization ends: its request is over, and its state is the id of the
\* end, whose account is the proved one.
LEMMA EndKeeps ==
    ASSUME OAuthInv, NEW r \in Requests,
           request[r].step \in {"lookup", "add"},
           request' = [request EXCEPT ![r] = IdleRequest],
           done' = [done EXCEPT !.ends = Append(@, [id |-> request[r].state.id,
                        proved |-> request[r].proved, account |-> request[r].proved])],
           identity' \in SUBSET Identities, RowInv',
           UNCHANGED <<row, memory, admin, session>>
    PROVE  OAuthInv'
<1> DEFINE p == request[r]
           e == [id |-> p.state.id, proved |-> p.proved, account |-> p.proved]
<1>1. p \in RequestStates /\ Spending(p)
  BY DEF OAuthInv, OAuthType, Spending
<1>2. p.state \in Saved /\ p.proved \in Proofs
  BY <1>1, RequestShape
<1>3. e \in Ends /\ e.id = p.state.id /\ e.account = e.proved
  BY <1>2 DEF Ends, Saved
<1>4. done \in [issued : Nat, ends : Seq(Ends)]
  BY DEF OAuthInv, OAuthType
<1>5. done'.issued = done.issued /\ done'.ends = Append(done.ends, e)
      /\ done' \in [issued : Nat, ends : Seq(Ends)]
  BY <1>3, <1>4
<1> HIDE DEF e
<1>6. /\ DOMAIN done.ends = 1 .. Len(done.ends) /\ DOMAIN done'.ends = 1 .. Len(done.ends) + 1
      /\ Len(done.ends) \in Nat
      /\ \A n \in 1 .. Len(done.ends) : done'.ends[n] = done.ends[n]
      /\ done'.ends[Len(done.ends) + 1] = e
  BY <1>3, <1>4, <1>5
<1>7. SameProvider
  BY DEF SameProvider
<1>8. OAuthType'
  BY <1>5, IdleIs DEF OAuthInv, OAuthType, RowType, MemoryType
<1>9. \A x \in Requests : request'[x] = IF x = r THEN IdleRequest ELSE request[x]
  BY DEF OAuthInv, OAuthType
<1>10. (\A x \in Requests : RequestOK(request[x]))'
  BY <1>7, <1>9, IdleIs, SameProviderKeeps DEF OAuthInv
<1>11. StatesInv'
  <2>1. \A n \in DOMAIN done'.ends : n \in DOMAIN done.ends \/ n = Len(done.ends) + 1
    BY <1>6
  <2>2. \A x \in Requests : Spending(request'[x]) => x # r /\ Spending(request[x]) /\ request'[x] = request[x]
    BY <1>9, IdleIs
  <2>3. \A x \in Requests : Spending(request[x]) /\ x # r => request[x].state.id # e.id
    BY <1>1, <1>3 DEF OAuthInv, StatesInv
  <2>4. \A n \in DOMAIN done.ends : done.ends[n].id # e.id
    BY <1>1, <1>3 DEF OAuthInv, StatesInv
  <2>5. (\A s \in memory.states : s.id # e.id) /\ e.id <= done.issued
    BY <1>1, <1>3 DEF OAuthInv, StatesInv
  <2>6. (\A x \in Requests : Spending(request[x]) =>
          /\ request[x].state.id <= done.issued
          /\ \A s \in memory.states : s.id # request[x].state.id
          /\ \A n \in DOMAIN done.ends : done.ends[n].id # request[x].state.id
          /\ \A y \in Requests :
                Spending(request[y]) /\ request[y].state.id = request[x].state.id => y = x)'
    BY <1>5, <1>6, <2>1, <2>2, <2>3 DEF OAuthInv, StatesInv, Spending
  <2>7. (\A n \in DOMAIN done.ends :
          /\ done.ends[n].id <= done.issued
          /\ \A s \in memory.states : s.id # done.ends[n].id
          /\ done.ends[n].account = done.ends[n].proved
          /\ \A m \in DOMAIN done.ends : done.ends[m].id = done.ends[n].id => m = n)'
    BY <1>3, <1>5, <1>6, <2>1, <2>4, <2>5 DEF OAuthInv, StatesInv
  <2> QED  BY <1>5, <2>6, <2>7 DEF OAuthInv, StatesInv
<1>12. RevokeInv'
  BY DEF OAuthInv, RevokeInv
<1> QED  BY <1>7, <1>8, <1>10, <1>11, <1>12, SameProviderKeeps DEF OAuthInv

\* The proof of a request whose state is current belongs to the provider.
LEMMA CurrentProof ==
    ASSUME OAuthInv, NEW r \in Requests, request[r].step \in {"lookup", "add"},
           O!Current(request[r].state)
    PROVE  request[r].proved.ns = row.ns /\ row.st = "live"
BY DEF OAuthInv, RequestOK, O!Current

LEMMA LookupKeeps ==
    ASSUME OAuthInv, NEW r \in Requests, O!GetAuthIdentityBySubject(r)
    PROVE  OAuthInv'
<1> DEFINE p == request[r]
           found == {i \in O!Active : i.subject = p.proved.subject}
<1>1. p \in RequestStates /\ p.step = "lookup" /\ request' = [request EXCEPT ![r] = IdleRequest]
      /\ UNCHANGED <<row, identity, memory, admin, session>>
  BY DEF OAuthInv, OAuthType, O!GetAuthIdentityBySubject, O!Refused, O!Goto, IdleRequest
<1>2. CASE UNCHANGED done
  BY <1>1, <1>2, IdleIs, RequestMoves
<1>3. CASE O!Current(p.state) /\ found # {}
  <2>1. PICK i \in found : O!Complete(r, [ns |-> i.ns, subject |-> i.subject])
    BY <1>3 DEF O!GetAuthIdentityBySubject
  <2>2. i.ns = row.ns /\ p.proved.ns = row.ns
    BY <1>1, <1>3, CurrentProof DEF OAuthInv, RowInv
  <2>3. p.proved \in Proofs
    BY <1>1, RequestShape
  <2>4. [ns |-> i.ns, subject |-> i.subject] = p.proved
    BY <2>2, <2>3 DEF Proofs
  <2>5. done' = [done EXCEPT !.ends = Append(@, [id |-> p.state.id,
                        proved |-> p.proved, account |-> p.proved])]
    BY <2>1, <2>4 DEF O!Complete
  <2>6. RowInv' /\ identity' \in SUBSET Identities
    BY <1>1 DEF OAuthInv, OAuthType, RowInv, O!Active
  <2> QED  BY <1>1, <2>5, <2>6, EndKeeps
<1> QED  BY <1>2, <1>3 DEF O!GetAuthIdentityBySubject

LEMMA AddKeeps ==
    ASSUME OAuthInv, NEW r \in Requests, O!AddAuthIdentity(r)
    PROVE  OAuthInv'
<1> DEFINE p == request[r]
           n == [user |-> p.user, subject |-> p.proved.subject, ns |-> p.proved.ns,
                 quarantined |-> FALSE]
<1>1. p \in RequestStates /\ p.step = "add" /\ request' = [request EXCEPT ![r] = IdleRequest]
      /\ UNCHANGED <<row, memory, admin, session>>
  BY DEF OAuthInv, OAuthType, O!AddAuthIdentity, O!Refused, O!Goto, IdleRequest
<1>2. CASE UNCHANGED <<identity, done>>
  BY <1>1, <1>2, IdleIs, RequestMoves
<1>3. CASE O!Current(p.state) /\ identity' = identity \cup {n} /\ O!Complete(r, p.proved)
  <2>1. p.proved \in Proofs /\ p.user \in Users
    BY <1>1, RequestShape
  <2>2. n \in Identities /\ n.ns = p.proved.ns
    BY <2>1 DEF Identities, Proofs
  <2>3. p.proved.ns = row.ns /\ row.st = "live"
    BY <1>1, <1>3, CurrentProof
  <2> HIDE DEF n
  <2>4. \A i \in O!Active' : i \in O!Active \/ i = n
    BY <1>3 DEF O!Active
  <2>5. RowInv'
    BY <1>1, <2>2, <2>3, <2>4 DEF OAuthInv, RowInv
  <2>6. identity' \in SUBSET Identities
    BY <1>3, <2>2 DEF OAuthInv, OAuthType
  <2> QED  BY <1>1, <1>3, <2>5, <2>6, EndKeeps DEF O!Complete
<1> QED  BY <1>2, <1>3 DEF O!AddAuthIdentity

\* The store of states changes: what is in it was there, with the same id and
\* revision, or is the state that was just issued.
LEMMA StoreKeeps ==
    ASSUME OAuthInv, SameProvider, MemoryType',
           done' \in [issued : Nat, ends : Seq(Ends)], done'.ends = done.ends,
           done'.issued >= done.issued,
           session' \in [Users -> {None} \cup Saved],
           UNCHANGED <<identity, request>>,
           \A s \in memory'.states :
               \/ \E x \in memory.states : x.id = s.id /\ x.rev = s.rev
               \/ /\ done'.issued = done.issued + 1 /\ s.id = done'.issued
                  /\ memory.config # None /\ s.rev = memory.config.rev
    PROVE  OAuthInv'
<1>1. OAuthType'
  <2>1. admin' \in [Admins -> AdminStates]
    BY DEF OAuthInv, OAuthType, SameProvider
  <2>2. identity' \in SUBSET Identities /\ request' \in [Requests -> RequestStates]
    BY DEF OAuthInv, OAuthType
  <2> QED  BY <2>1, <2>2, SameProviderKeeps, Zenon DEF OAuthType
<1>2. RowInv'
  BY DEF OAuthInv, RowInv, O!Active, SameProvider
<1>3. (\A x \in Requests : RequestOK(request[x]))'
  BY SameProviderKeeps DEF OAuthInv
<1>4. done.issued \in Nat /\ done'.issued \in Nat
  BY DEF OAuthInv, OAuthType
<1>5. \A s \in memory.states : s.id \in Nat
  BY DEF OAuthInv, OAuthType, MemoryType
<1>6. \A n \in DOMAIN done.ends : done.ends[n].id \in Nat
  <2>1. done.ends \in Seq(Ends)
    BY DEF OAuthInv, OAuthType
  <2>2. \A n \in DOMAIN done.ends : done.ends[n] \in Ends
    BY <2>1
  <2> QED  BY <2>2 DEF Ends
<1>7. \A x \in Requests : Spending(request[x]) => request[x].state.id \in Nat
  BY RequestShape DEF OAuthInv, OAuthType, Spending, Saved
<1>8. \A s \in memory'.states : s.id <= done'.issued
  BY <1>4, <1>5 DEF OAuthInv, StatesInv
<1>9. \A x \in Requests : Spending(request[x]) => \A s \in memory'.states : s.id # request[x].state.id
  BY <1>4, <1>5, <1>7 DEF OAuthInv, StatesInv
<1>10. \A n \in DOMAIN done.ends : \A s \in memory'.states : s.id # done.ends[n].id
  BY <1>4, <1>5, <1>6 DEF OAuthInv, StatesInv
<1>11. (\A x \in Requests : Spending(request[x]) => request[x].state.id <= done'.issued)
       /\ \A n \in DOMAIN done.ends : done.ends[n].id <= done'.issued
  BY <1>4, <1>6, <1>7 DEF OAuthInv, StatesInv
<1>12. StatesInv'
  BY <1>8, <1>9, <1>10, <1>11 DEF OAuthInv, StatesInv, Spending
<1>13. RevokeInv'
  BY DEF OAuthInv, RevokeInv, SameProvider
<1> QED  BY <1>1, <1>2, <1>3, <1>12, <1>13, SameProviderKeeps DEF OAuthInv

LEMMA BeginKeeps ==
    ASSUME OAuthInv, NEW u \in Users, O!Begin(u)
    PROVE  OAuthInv'
<1> DEFINE t == done.issued + 1
           s0 == [id |-> t, rev |-> memory.config.rev, fresh |-> TRUE]
           v0 == [tag |-> "state", id |-> t, rev |-> memory.config.rev,
                  version |-> memory.config.version]
<1>1. /\ memory.config # None
      /\ memory' = [memory EXCEPT !.states = @ \cup {s0}]
      /\ session' = [session EXCEPT ![u] = v0]
      /\ done' = [done EXCEPT !.issued = t]
      /\ UNCHANGED <<row, identity, admin, request>>
  BY DEF O!Begin, None
<1>2. memory.config \in Configs /\ MemoryType /\ done \in [issued : Nat, ends : Seq(Ends)]
  BY <1>1 DEF OAuthInv, OAuthType, MemoryType
<1>3. memory.config.rev \in Nat /\ memory.config.version \in Nat /\ t \in Nat
  BY <1>2, ConfigShape
<1>4. s0 \in [id : Nat, rev : Nat, fresh : BOOLEAN] /\ v0 \in Saved
      /\ s0.id = t /\ s0.rev = memory.config.rev
  BY <1>3 DEF Saved
<1> HIDE DEF s0, v0
<1>5. memory'.states = memory.states \cup {s0} /\ SameProvider /\ MemoryType'
  BY <1>1, <1>2, <1>4 DEF SameProvider, MemoryType
<1>6. session' \in [Users -> {None} \cup Saved]
  BY <1>1, <1>4 DEF OAuthInv, OAuthType
<1>7. done' \in [issued : Nat, ends : Seq(Ends)] /\ done'.ends = done.ends /\ done'.issued = t
  BY <1>1, <1>2, <1>3
<1>8. done'.issued >= done.issued
  BY <1>2, <1>7
<1>9. \A s \in memory'.states : s \in memory.states \/ s = s0
  BY <1>5
<1> QED  BY <1>1, <1>4, <1>5, <1>6, <1>7, <1>8, <1>9, StoreKeeps

LEMMA ExpireKeeps ==
    ASSUME OAuthInv, O!Cleanup \/ \E s \in memory.states : O!Expire(s)
    PROVE  OAuthInv'
<1>1. MemoryType /\ done \in [issued : Nat, ends : Seq(Ends)]
      /\ session \in [Users -> {None} \cup Saved]
  BY DEF OAuthInv, OAuthType
<1>2. UNCHANGED <<row, identity, admin, session, request, done>>
  BY DEF O!Cleanup, O!Expire
<1>3. PICK kept \in SUBSET [id : Nat, rev : Nat, fresh : BOOLEAN] :
          /\ memory' = [memory EXCEPT !.states = kept]
          /\ \A s \in kept : \E x \in memory.states : x.id = s.id /\ x.rev = s.rev
  <2>1. CASE O!Cleanup
    <3> DEFINE kept == {s \in memory.states : s.fresh}
    <3>1. kept \in SUBSET [id : Nat, rev : Nat, fresh : BOOLEAN] /\ kept \subseteq memory.states
      BY <1>1 DEF MemoryType
    <3>2. memory' = [memory EXCEPT !.states = kept]
      BY <2>1 DEF O!Cleanup
    <3> QED  BY <3>1, <3>2
  <2>2. ASSUME NEW s \in memory.states, O!Expire(s)
        PROVE  \E kept \in SUBSET [id : Nat, rev : Nat, fresh : BOOLEAN] :
                  /\ memory' = [memory EXCEPT !.states = kept]
                  /\ \A y \in kept : \E x \in memory.states : x.id = y.id /\ x.rev = y.rev
    <3> DEFINE e == [s EXCEPT !.fresh = FALSE]
    <3>1. s \in [id : Nat, rev : Nat, fresh : BOOLEAN]
      BY <1>1 DEF MemoryType
    <3>2. e \in [id : Nat, rev : Nat, fresh : BOOLEAN] /\ e.id = s.id /\ e.rev = s.rev
      BY <3>1
    <3> HIDE DEF e
    <3>3. (memory.states \ {s}) \cup {e} \in SUBSET [id : Nat, rev : Nat, fresh : BOOLEAN]
      BY <1>1, <3>2 DEF MemoryType
    <3>4. memory' = [memory EXCEPT !.states = (memory.states \ {s}) \cup {e}]
      BY <2>2 DEF O!Expire, e
    <3>5. \A y \in (memory.states \ {s}) \cup {e} : \E x \in memory.states : x.id = y.id /\ x.rev = y.rev
      BY <3>2
    <3> QED  BY <3>3, <3>4, <3>5
  <2> QED  BY <2>1, <2>2
<1>4. memory'.states = kept /\ SameProvider /\ MemoryType'
  BY <1>1, <1>2, <1>3 DEF SameProvider, MemoryType
<1>5. done'.issued >= done.issued
  BY <1>1, <1>2
<1> QED  BY <1>1, <1>2, <1>3, <1>4, <1>5, StoreKeeps

LEMMA UnlinkKeeps ==
    ASSUME OAuthInv, NEW u \in Users, O!Unlink(u)
    PROVE  OAuthInv'
<1>1. identity' \subseteq identity /\ UNCHANGED <<row, memory, admin, session, request, done>>
  BY DEF O!Unlink
<1>2. OAuthType'
  BY <1>1 DEF OAuthInv, OAuthType, RowType, MemoryType
<1>3. RowInv'
  BY <1>1 DEF OAuthInv, RowInv, O!Active
<1>4. SameProvider
  BY <1>1 DEF SameProvider
<1>5. (\A x \in Requests : RequestOK(request[x]))'
  BY <1>1, <1>4, SameProviderKeeps DEF OAuthInv
<1>6. StatesInv' /\ RevokeInv'
  BY <1>1 DEF OAuthInv, StatesInv, RevokeInv, Spending
<1> QED  BY <1>2, <1>3, <1>4, <1>5, <1>6, SameProviderKeeps DEF OAuthInv

LEMMA RestartKeeps ==
    ASSUME OAuthInv, O!Restart
    PROVE  OAuthInv'
<1>1. PICK built \in BOOLEAN : memory' = O!Boot(row, built)
  BY DEF O!Restart
<1>2. /\ admin' = [a \in Admins |-> IdleAdmin] /\ request' = [r \in Requests |-> IdleRequest]
      /\ UNCHANGED <<row, identity, session, done>>
  BY DEF O!Restart, IdleAdmin, IdleRequest
<1>3. IdleAdmin.step = "idle" /\ IdleRequest.step = "idle"
  BY DEF IdleAdmin, IdleRequest, O!IdleAdmin, O!IdleRequest
<1>4. RowType /\ (row.st = "none" <=> row.rev = 0)
  BY DEF OAuthInv, OAuthType, RowInv
<1>5. /\ memory' \in [config : {None} \cup Configs, deleted : Nat,
                      states : SUBSET [id : Nat, rev : Nat, fresh : BOOLEAN]]
      /\ memory'.states = {} /\ memory'.deleted <= row.rev
      /\ memory'.config # None => Committed(memory'.config) /\ memory'.deleted < memory'.config.rev
                            /\ memory'.config.rev = row.rev /\ row.st = "live"
      /\ memory'.config = None /\ row.st = "live" => memory'.deleted = row.rev
      /\ row.st = "live" /\ ~row.on => memory'.config = None
  BY <1>1, <1>4, BootIs
<1>6. OAuthType'
  BY <1>2, <1>4, <1>5, IdleIs DEF OAuthInv, OAuthType, RowType, MemoryType
<1>7. RowInv'
  BY <1>2 DEF OAuthInv, RowInv, O!Active
<1>8. (\A a \in Admins : AdminOK(admin[a]))' /\ (\A r \in Requests : RequestOK(request[r]))'
  BY <1>2, <1>3 DEF AdminOK, RequestOK
<1>9. StatesInv'
  BY <1>2, <1>3, <1>5 DEF OAuthInv, StatesInv, Spending
<1>10. \A a \in Admins : ~Installs(a)'
  BY <1>2, <1>3 DEF Installs
<1>11. ConfigInv'
  <2>1. (memory.config # None => Committed(memory.config))'
    BY <1>2, <1>5 DEF Committed
  <2>2. row.st \in {"none", "live", "gone"}
    BY <1>4 DEF RowType
  <2> QED  BY <1>2, <1>5, <1>10, <2>1, <2>2 DEF ConfigInv
<1>12. RevokeInv'
  BY <1>5 DEF RevokeInv
<1> QED  BY <1>6, <1>7, <1>8, <1>9, <1>11, <1>12 DEF OAuthInv

-----------------------------------------------------------------------------
(* OAuthProviders: administrators *)

\* A handler commits: a new revision, or a deletion.
LEMMA CommitKeeps ==
    ASSUME OAuthInv, NEW a \in Admins, admin[a] = O!IdleAdmin,
           RowType', row'.st # "none", O!Follow(a, row'),
           \/ row'.rev = row.rev + 1
           \/ /\ row'.st = "gone" /\ row'.rev = row.rev /\ row.rev > 0
              /\ row'.ns = row.ns /\ row'.version = row.version /\ row'.on = row.on,
           identity' \in SUBSET Identities,
           \A i \in O!Active' : row'.st = "live" /\ i.ns = row'.ns,
           UNCHANGED <<memory, session, request, done>>
    PROVE  OAuthInv'
<1>1. row.rev \in Nat /\ row'.rev \in Nat /\ row'.rev > 0 /\ row'.rev >= row.rev
      /\ row'.st \in {"live", "gone"} /\ row.on \in BOOLEAN /\ row'.on \in BOOLEAN
  BY DEF OAuthInv, OAuthType, RowType
<1>2. ASSUME NEW c, c.rev \in Nat, Committed(c)
      PROVE  c.rev <= row'.rev /\ (c.rev = row'.rev => c.ns = row'.ns /\ c.version = row'.version
                                                       /\ row'.on = row.on /\ row'.st = "gone")
  BY <1>1, <1>2 DEF Committed
<1>3. PICK p \in AdminStates :
          /\ admin' = [admin EXCEPT ![a] = p]
          /\ \/ /\ p.step = "install" /\ row'.st = "live" /\ row'.on
                /\ p.config.rev = row'.rev /\ p.config.ns = row'.ns /\ p.config.version = row'.version
             \/ p.step = "remove" /\ p.rev = row'.rev /\ (row'.st = "gone" \/ ~row'.on)
  <2>1. CASE row'.st = "live" /\ row'.on
    <3>1. O!Config(row') \in Configs /\ O!Config(row').rev = row'.rev
          /\ O!Config(row').ns = row'.ns /\ O!Config(row').version = row'.version
      BY <1>1, ConfigOf DEF RowType
    <3> DEFINE p == [step |-> "install", config |-> O!Config(row')]
    <3>2. p \in AdminStates
      BY <3>1 DEF AdminStates
    <3>3. admin' = [admin EXCEPT ![a] = p]
      BY <2>1 DEF O!Follow
    <3> QED  BY <2>1, <3>1, <3>2, <3>3
  <2>2. CASE ~(row'.st = "live" /\ row'.on)
    <3> DEFINE p == [step |-> "remove", rev |-> row'.rev]
    <3>1. p \in AdminStates
      BY <1>1 DEF AdminStates
    <3>2. admin' = [admin EXCEPT ![a] = p]
      BY <2>2 DEF O!Follow
    <3> QED  BY <1>1, <2>2, <3>1, <3>2
  <2> QED  BY <2>1, <2>2
<1>4. \A b \in Admins : admin'[b] = IF b = a THEN p ELSE admin[b]
  BY <1>3 DEF OAuthInv, OAuthType
<1>5. OAuthType'
  <2>1. admin' \in [Admins -> AdminStates]
    BY <1>3 DEF OAuthInv, OAuthType
  <2> QED  BY <2>1 DEF OAuthInv, OAuthType, MemoryType
<1>6. RowInv'
  BY <1>1 DEF RowInv
<1>7. \A c \in Configs : Committed(c) => Committed(c)'
  BY <1>2, ConfigShape DEF Committed
<1>8. ASSUME NEW b \in Admins
      PROVE  AdminOK(admin[b])'
  <2>1. CASE b = a
    BY <1>1, <1>3, <1>4, <2>1 DEF AdminOK, Committed
  <2>2. CASE b # a
    <3>1. admin'[b] = admin[b] /\ admin[b] \in AdminStates /\ AdminOK(admin[b])
      BY <1>4, <2>2 DEF OAuthInv, OAuthType
    <3>2. CASE admin[b].step = "install"
      <4>1. admin[b].config \in Configs /\ Committed(admin[b].config)
            /\ (admin[b].config.rev = row.rev => row.on)
        BY <3>1, <3>2, AdminShape DEF AdminOK
      <4>2. admin[b].config.rev = row'.rev => row'.on
        BY <1>1, <1>2, <4>1, ConfigShape DEF Committed
      <4> QED  BY <1>7, <3>1, <3>2, <4>1, <4>2 DEF AdminOK
    <3>3. CASE admin[b].step # "install"
      BY <1>1, <3>1, <3>3, AdminShape DEF AdminOK
    <3> QED  BY <3>2, <3>3
  <2> QED  BY <2>1, <2>2
<1>9. ASSUME NEW r \in Requests
      PROVE  RequestOK(request[r])'
  <2>1. request[r] \in RequestStates /\ RequestOK(request[r])
    BY DEF OAuthInv, OAuthType
  <2>2. CASE request[r].step \in {"session", "consume", "exchange"}
    BY <1>7, <2>1, <2>2, RequestShape DEF RequestOK
  <2>3. CASE request[r].step \in {"bound", "lookup", "add"}
    <3>1. request[r].state.rev \in Nat /\ request[r].state.rev <= row.rev
          /\ (request[r].state.rev = row.rev => request[r].proved.ns = row.ns)
      BY <2>1, <2>3, RequestShape DEF RequestOK, Saved
    <3> QED  BY <1>1, <2>3, <3>1 DEF RequestOK
  <2>4. CASE request[r].step = "idle"
    BY <2>4 DEF RequestOK
  <2> QED  BY <2>1, <2>2, <2>3, <2>4, RequestShape
<1>10. StatesInv'
  BY DEF OAuthInv, StatesInv, Spending
<1>11. ConfigInv'
  <2>1. memory.config \in {None} \cup Configs /\ memory.deleted \in Nat
    BY DEF OAuthInv, OAuthType, MemoryType
  <2>2. (memory.config # None => Committed(memory.config) /\ memory.deleted < memory.config.rev)'
    BY <1>7, <2>1 DEF OAuthInv, ConfigInv
  <2>3. memory.deleted <= row'.rev
    BY <1>1, <2>1 DEF OAuthInv, ConfigInv
  <2>4. row'.st = "live" /\ row'.on => \E b \in Admins : Installs(b)' /\ admin'[b].config.rev = row'.rev
    BY <1>3, <1>4 DEF Installs
  <2>5. ~(row'.st = "live" /\ row'.on) => \E b \in Admins : Removes(b)'
    BY <1>3, <1>4 DEF Removes
  <2> QED  BY <1>1, <2>2, <2>3, <2>4, <2>5 DEF ConfigInv
<1>12. RevokeInv'
  <2>1. \A b \in Admins : admin[b].step = "revoke" => admin'[b] = admin[b]
    BY <1>4 DEF O!IdleAdmin
  <2> QED  BY <2>1 DEF OAuthInv, RevokeInv
<1> QED  BY <1>5, <1>6, <1>8, <1>9, <1>10, <1>11, <1>12 DEF OAuthInv

LEMMA CommitsKeep ==
    ASSUME OAuthInv, NEW a \in Admins,
           \/ \E ns \in Namespaces, on \in BOOLEAN : O!Add(a, ns, on) \/ O!Update(a, ns, on)
           \/ O!Delete(a)
    PROVE  OAuthInv'
<1>1. RowType /\ row.rev \in Nat /\ row.version \in Nat /\ identity \in SUBSET Identities
      /\ \A i \in O!Active : row.st = "live" /\ i.ns = row.ns
  BY DEF OAuthInv, OAuthType, RowType, RowInv
<1>2. ASSUME NEW ns \in Namespaces, NEW on \in BOOLEAN, O!Add(a, ns, on)
      PROVE  OAuthInv'
  <2>1. row.st = "none" /\ row.rev = 0 /\ O!Active = {}
    BY <1>1, <1>2 DEF O!Add, OAuthInv, RowInv
  <2>2. RowType' /\ row'.st = "live" /\ row'.rev = row.rev + 1 /\ O!Active' = {}
    BY <1>2, <2>1 DEF O!Add, RowType, O!Active
  <2> QED  BY <1>1, <1>2, <2>2, CommitKeeps DEF O!Add
<1>3. ASSUME NEW ns \in Namespaces, NEW on \in BOOLEAN, O!Update(a, ns, on)
      PROVE  OAuthInv'
  <2>1. RowType' /\ row'.st = "live" /\ row'.rev = row.rev + 1 /\ row'.ns = ns
    <3>1. PICK v \in Nat : row' = [row EXCEPT !.ns = ns, !.on = on, !.rev = row.rev + 1, !.version = v]
      <4> DEFINE v == IF ns # row.ns THEN row.version + 1 ELSE row.version
      <4>1. v \in Nat
        BY <1>1
      <4>2. row' = [row EXCEPT !.ns = ns, !.on = on, !.rev = row.rev + 1, !.version = v]
        BY <1>3, Zenon DEF O!Update
      <4> QED  BY <4>1, <4>2
    <3>2. row' = [st |-> row.st, ns |-> ns, version |-> v, rev |-> row.rev + 1, on |-> on]
      BY <1>1, <3>1 DEF RowType
    <3>3. row.st = "live"
      BY <1>3, Zenon DEF O!Update
    <3>4. row.rev + 1 \in Nat
      BY <1>1
    <3> QED  BY <3>2, <3>3, <3>4 DEF RowType
  <2>2. identity' \in SUBSET Identities /\ \A i \in O!Active' : i.ns = ns
    BY <1>1, <1>3 DEF O!Update, O!Active
  <2> QED  BY <1>3, <2>1, <2>2, CommitKeeps DEF O!Update
<1>4. ASSUME O!Delete(a)
      PROVE  OAuthInv'
  <2>1. RowType' /\ row'.st = "gone" /\ row'.rev = row.rev /\ row'.ns = row.ns
        /\ row'.version = row.version /\ row'.on = row.on
    BY <1>1, <1>4 DEF O!Delete, RowType
  <2>2. row.rev > 0
    BY <1>1, <1>4 DEF O!Delete, OAuthInv, RowInv
  <2>3. identity' = {} /\ O!Active' = {}
    BY <1>4 DEF O!Delete, O!Active
  <2> QED  BY <1>4, <2>1, <2>2, <2>3, CommitKeeps DEF O!Delete
<1> QED  BY <1>2, <1>3, <1>4

\* A handler brings memory after its commit: the rows stay, no state is added.
LEMMA AppliesKeep ==
    ASSUME OAuthInv, NEW a \in Admins, NEW p \in AdminStates, AdminOK(p),
           admin' = [admin EXCEPT ![a] = p],
           MemoryType', memory'.states \subseteq memory.states, ConfigInv', RevokeInv',
           UNCHANGED <<row, identity, session, request, done>>
    PROVE  OAuthInv'
<1>1. OAuthType'
  <2>1. admin' \in [Admins -> AdminStates]
    BY DEF OAuthInv, OAuthType
  <2> QED  BY <2>1 DEF OAuthInv, OAuthType, RowType
<1>2. RowInv'
  BY DEF OAuthInv, RowInv, O!Active
<1>3. \A c : Committed(c)' = Committed(c)
  BY DEF Committed
<1>4. \A q : RequestOK(q)' = RequestOK(q) /\ AdminOK(q)' = AdminOK(q)
  BY <1>3 DEF RequestOK, AdminOK
<1>5. \A b \in Admins : admin'[b] = IF b = a THEN p ELSE admin[b]
  BY DEF OAuthInv, OAuthType
<1>6. (\A b \in Admins : AdminOK(admin[b]))' /\ (\A r \in Requests : RequestOK(request[r]))'
  BY <1>4, <1>5 DEF OAuthInv
<1>7. StatesInv'
  BY DEF OAuthInv, StatesInv, Spending
<1> QED  BY <1>1, <1>2, <1>6, <1>7 DEF OAuthInv

LEMMA InstallKeeps ==
    ASSUME OAuthInv, NEW a \in Admins, O!Apply(a), admin[a].step = "install"
    PROVE  OAuthInv'
<1> DEFINE c == admin[a].config
           new == O!Installable(memory, c)
<1>1. admin[a] \in AdminStates /\ AdminOK(admin[a]) /\ MemoryType /\ RowType
  BY DEF OAuthInv, OAuthType
<1>2. c \in Configs /\ Committed(c) /\ (c.rev = row.rev => row.on)
  BY <1>1, AdminShape DEF AdminOK
<1>3. c.rev \in Nat /\ c.rev > 0 /\ c # None /\ row.rev \in Nat /\ c.rev <= row.rev
      /\ row.on \in BOOLEAN /\ row.st \in {"none", "live", "gone"}
  BY <1>1, <1>2, ConfigShape DEF Committed, RowType
<1>4. memory.config \in {None} \cup Configs /\ memory.deleted \in Nat
      /\ (memory.config # None => memory.config.rev \in Nat /\ memory.config.rev > 0
                                  /\ memory.config.rev <= row.rev)
  BY <1>1, ConfigShape DEF MemoryType, OAuthInv, ConfigInv, Committed
<1>5. new <=> memory.deleted < c.rev /\ (memory.config # None => memory.config.rev < c.rev)
  BY DEF O!Installable, None
<1>6. /\ memory'.config = IF new THEN c ELSE memory.config
      /\ memory'.deleted = IF memory.deleted < c.rev THEN 0 ELSE memory.deleted
      /\ memory'.states = memory.states
      /\ MemoryType'
  <2>1. memory' = O!InstallProvider(memory, c)
    BY DEF O!Apply
  <2> QED  BY <1>1, <1>2, <2>1 DEF O!InstallProvider, MemoryType
<1>7. PICK p \in AdminStates :
          /\ admin' = [admin EXCEPT ![a] = p]
          /\ \/ p = IdleAdmin /\ ~(new /\ c.rev > 1)
             \/ new /\ c.rev > 1 /\ p.step = "revoke" /\ p.rev = c.rev - 1
  <2>1. CASE new /\ c.rev > 1
    <3> DEFINE p == [step |-> "revoke", rev |-> c.rev - 1]
    <3>1. p \in AdminStates
      BY <1>3, <2>1 DEF AdminStates
    <3>2. admin' = [admin EXCEPT ![a] = p]
      BY <2>1 DEF O!Apply
    <3> QED  BY <2>1, <3>1, <3>2
  <2>2. CASE ~(new /\ c.rev > 1)
    <3>1. admin' = [admin EXCEPT ![a] = IdleAdmin]
      BY <2>2 DEF O!Apply, IdleAdmin
    <3> QED  BY <2>2, <3>1, IdleIs
  <2> QED  BY <2>1, <2>2
<1>8. UNCHANGED <<row, identity, session, request, done>>
  BY DEF O!Apply
<1>9. \A b \in Admins : admin'[b] = IF b = a THEN p ELSE admin[b]
  BY <1>7 DEF OAuthInv, OAuthType
<1>10. AdminOK(p)
  <2>1. CASE p = IdleAdmin
    BY <2>1, IdleIs
  <2>2. CASE p.step = "revoke" /\ p.rev = c.rev - 1
    BY <1>3, <2>2 DEF AdminOK
  <2> QED  BY <1>7, <2>1, <2>2
<1> HIDE DEF c, new
<1>11. ConfigInv'
  <2>1. (memory.config # None => Committed(memory.config) /\ memory.deleted < memory.config.rev)'
    <3>1. memory'.config # None => Committed(memory'.config)
      BY <1>2, <1>6 DEF OAuthInv, ConfigInv
    <3>2. (memory.config # None => Committed(memory.config))'
      BY <1>8, <3>1 DEF Committed
    <3>3. memory'.config # None => memory'.deleted < memory'.config.rev
      BY <1>3, <1>4, <1>5, <1>6 DEF OAuthInv, ConfigInv
    <3> QED  BY <3>2, <3>3
  <2>2. memory'.deleted <= row.rev /\ row.st # "none"
    BY <1>3, <1>4, <1>6 DEF OAuthInv, ConfigInv, RowInv
  <2>3. \A b \in Admins : b # a =>
            /\ Installs(b) => Installs(b)' /\ admin'[b] = admin[b]
            /\ Removes(b) => Removes(b)'
    BY <1>8, <1>9 DEF Installs, Removes
  <2>4. \A b \in Admins : Removes(b) => Removes(b)'
    BY <2>3 DEF Removes
  <2>5. row.st = "live" /\ row.on =>
          \/ memory'.config # None /\ memory'.config.rev = row.rev
          \/ \E b \in Admins : Installs(b)' /\ admin'[b].config.rev = row.rev
          \/ memory'.config = None /\ memory'.deleted = row.rev
    <3>1. CASE memory.config # None /\ memory.config.rev = row.rev
      BY <1>3, <1>4, <1>5, <1>6, <3>1
    <3>2. CASE memory.config = None /\ memory.deleted = row.rev
      BY <1>3, <1>4, <1>5, <1>6, <3>2
    <3>3. ASSUME NEW b \in Admins, Installs(b), admin[b].config.rev = row.rev, b # a
          PROVE  Installs(b)' /\ admin'[b].config.rev = row.rev
      BY <2>3, <3>3
    <3>4. CASE c.rev = row.rev
      <4>1. CASE memory.deleted >= c.rev
        <5>1. memory.deleted = row.rev /\ memory.config = None
          BY <1>3, <1>4, <3>4, <4>1 DEF OAuthInv, ConfigInv
        <5> QED  BY <3>2, <5>1
      <4>2. CASE memory.deleted < c.rev
        BY <1>3, <1>4, <1>5, <1>6, <3>4, <4>2
      <4> QED  BY <1>3, <1>4, <4>1, <4>2
    <3> QED  BY <3>1, <3>2, <3>3, <3>4 DEF OAuthInv, ConfigInv, c
  <2>6. memory.config = None /\ memory.deleted = row.rev => memory'.config = None /\ memory'.deleted = row.rev
    BY <1>3, <1>4, <1>5, <1>6
  <2>7. row.st = "live" /\ ~row.on =>
          \/ \E b \in Admins : Removes(b)'
          \/ memory'.config = None /\ memory'.deleted = row.rev
    BY <2>4, <2>6 DEF OAuthInv, ConfigInv
  <2>8. row.st = "gone" =>
          \/ \E b \in Admins : Removes(b)'
          \/ memory'.config = None /\ memory'.deleted = row.rev
    BY <2>4, <2>6 DEF OAuthInv, ConfigInv, Installs
  <2> QED  BY <1>8, <2>1, <2>2, <2>5, <2>7, <2>8 DEF ConfigInv
<1>12. RevokeInv'
  <2>1. ASSUME NEW s \in memory.states
        PROVE  \/ memory'.config # None /\ s.rev = memory'.config.rev
               \/ \E b \in Admins : admin'[b].step = "revoke" /\ s.rev <= admin'[b].rev
    <3>1. ASSUME NEW b \in Admins, admin[b].step = "revoke", s.rev <= admin[b].rev
          PROVE  admin'[b].step = "revoke" /\ s.rev <= admin'[b].rev
      BY <1>9, <3>1
    <3>2. CASE memory.config # None /\ s.rev = memory.config.rev /\ ~new
      BY <1>6, <3>2
    <3>3. CASE memory.config # None /\ s.rev = memory.config.rev /\ new
      <4>1. c.rev > 1 /\ s.rev <= c.rev - 1
        BY <1>3, <1>4, <1>5, <3>3
      <4>2. admin'[a].step = "revoke" /\ admin'[a].rev = c.rev - 1
        BY <1>7, <1>9, <3>3, <4>1
      <4> QED  BY <4>1, <4>2
    <3> QED  BY <3>1, <3>2, <3>3 DEF OAuthInv, RevokeInv
  <2> QED  BY <1>6, <2>1 DEF RevokeInv
<1> QED  BY <1>6, <1>7, <1>8, <1>10, <1>11, <1>12, AppliesKeep

LEMMA RemoveKeeps ==
    ASSUME OAuthInv, NEW a \in Admins, O!Apply(a), admin[a].step = "remove"
    PROVE  OAuthInv'
<1> DEFINE n == admin[a].rev
           p == [step |-> "revoke", rev |-> n]
<1>1. admin[a] \in AdminStates /\ AdminOK(admin[a]) /\ MemoryType /\ RowType
  BY DEF OAuthInv, OAuthType
<1>2. n \in Nat /\ n <= row.rev /\ (n = row.rev => row.st = "gone" \/ ~row.on)
      /\ row.rev \in Nat /\ row.st \in {"none", "live", "gone"}
  BY <1>1, AdminShape DEF AdminOK, RowType
<1>3. memory.config \in {None} \cup Configs /\ memory.deleted \in Nat /\ memory.deleted <= row.rev
      /\ (memory.config # None => memory.config.rev \in Nat /\ memory.config.rev <= row.rev
                                  /\ memory.deleted < memory.config.rev)
  BY <1>1, ConfigShape DEF MemoryType, OAuthInv, ConfigInv, Committed
<1>4. /\ memory'.config = IF memory.config # None /\ memory.config.rev <= n
                          THEN None ELSE memory.config
      /\ memory'.deleted = IF memory.deleted < n THEN n ELSE memory.deleted
      /\ memory'.states = memory.states
      /\ MemoryType'
  <2>1. memory' = O!RemoveProvider(memory, n)
    BY DEF O!Apply
  <2> QED  BY <1>1, <1>2, <2>1 DEF O!RemoveProvider, MemoryType, None
<1>5. p \in AdminStates /\ AdminOK(p) /\ p.step = "revoke" /\ p.rev = n
  BY <1>2 DEF AdminStates, AdminOK
<1>6. admin' = [admin EXCEPT ![a] = p] /\ UNCHANGED <<row, identity, session, request, done>>
  BY DEF O!Apply
<1>7. \A b \in Admins : admin'[b] = IF b = a THEN p ELSE admin[b]
  BY <1>6 DEF OAuthInv, OAuthType
<1> HIDE DEF n, p
<1>8. ConfigInv'
  <2>1. (memory.config # None => Committed(memory.config) /\ memory.deleted < memory.config.rev)'
    <3>1. memory'.config # None => memory'.config = memory.config /\ memory'.deleted < memory.config.rev
      BY <1>2, <1>3, <1>4
    <3>2. (memory.config # None => Committed(memory.config))'
      BY <1>6, <3>1 DEF OAuthInv, ConfigInv, Committed
    <3> QED  BY <3>1, <3>2
  <2>2. memory'.deleted <= row.rev /\ (memory.config = None => memory'.config = None)
    BY <1>2, <1>3, <1>4
  <2>3. n = row.rev => memory'.config = None /\ memory'.deleted = row.rev
    BY <1>2, <1>3, <1>4
  <2>4. memory.config = None /\ memory.deleted = row.rev => memory'.config = None /\ memory'.deleted = row.rev
    BY <1>2, <1>3, <1>4
  <2>5. \A b \in Admins : Removes(b) => Removes(b)' \/ n = row.rev
    BY <1>6, <1>7 DEF Removes, n
  <2>6. \A b \in Admins : /\ Installs(b) => Installs(b)' /\ admin'[b] = admin[b]
                          /\ Installs(b)' => Installs(b)
    BY <1>5, <1>7 DEF Installs
  <2>7. row.st = "live" /\ row.on /\ memory.config # None /\ memory.config.rev = row.rev =>
            memory'.config = memory.config
    BY <1>2, <1>3, <1>4
  <2>8. row.st = "live" /\ row.on =>
          \/ memory'.config # None /\ memory'.config.rev = row.rev
          \/ \E b \in Admins : Installs(b)' /\ admin'[b].config.rev = row.rev
          \/ memory'.config = None /\ memory'.deleted = row.rev
    BY <2>4, <2>6, <2>7 DEF OAuthInv, ConfigInv
  <2>9. row.st = "live" /\ ~row.on =>
          \/ \E b \in Admins : Removes(b)'
          \/ memory'.config = None /\ memory'.deleted = row.rev
    BY <2>3, <2>4, <2>5 DEF OAuthInv, ConfigInv
  <2>10. row.st = "gone" =>
          \/ \E b \in Admins : Removes(b)'
          \/ memory'.config = None /\ memory'.deleted = row.rev
          \/ memory'.config = None /\ \A b \in Admins : ~Installs(b)'
    BY <2>2, <2>3, <2>4, <2>5, <2>6 DEF OAuthInv, ConfigInv
  <2>11. row.st = "none" => memory'.config = None
    BY <2>2 DEF OAuthInv, ConfigInv
  <2> QED  BY <1>6, <2>1, <2>2, <2>8, <2>9, <2>10, <2>11 DEF ConfigInv
<1>9. RevokeInv'
  <2>1. \A b \in Admins : admin[b].step = "revoke" => admin'[b] = admin[b]
    BY <1>7
  <2>2. ASSUME NEW s \in memory.states, memory.config # None, s.rev = memory.config.rev
        PROVE  \/ memory'.config # None /\ s.rev = memory'.config.rev
               \/ admin'[a].step = "revoke" /\ s.rev <= admin'[a].rev
    BY <1>2, <1>3, <1>4, <1>5, <1>7, <2>2
  <2> QED  BY <1>4, <2>1, <2>2 DEF OAuthInv, RevokeInv
<1> QED  BY <1>4, <1>5, <1>6, <1>8, <1>9, AppliesKeep

LEMMA RevokeKeeps ==
    ASSUME OAuthInv, NEW a \in Admins, O!Apply(a), admin[a].step = "revoke"
    PROVE  OAuthInv'
<1> DEFINE n == admin[a].rev
<1>1. MemoryType /\ n \in Nat
  BY AdminShape DEF OAuthInv, OAuthType
<1>2. /\ memory'.config = memory.config /\ memory'.deleted = memory.deleted
      /\ memory'.states = {s \in memory.states : s.rev > n}
      /\ MemoryType'
  <2>1. memory' = O!RevokeAuthSessionStates(memory, n)
    BY DEF O!Apply
  <2> QED  BY <1>1, <2>1 DEF O!RevokeAuthSessionStates, MemoryType
<1>3. admin' = [admin EXCEPT ![a] = IdleAdmin] /\ UNCHANGED <<row, identity, session, request, done>>
  BY DEF O!Apply, IdleAdmin
<1>4. \A b \in Admins : admin'[b] = IF b = a THEN IdleAdmin ELSE admin[b]
  BY <1>3 DEF OAuthInv, OAuthType
<1>5. IdleAdmin.step = "idle"
  BY DEF IdleAdmin, O!IdleAdmin
<1>6. ConfigInv'
  <2>1. \A b \in Admins : /\ Installs(b) => Installs(b)' /\ admin'[b] = admin[b]
                          /\ Installs(b)' => Installs(b)
                          /\ Removes(b) => Removes(b)'
    BY <1>3, <1>4, <1>5 DEF Installs, Removes
  <2>2. (memory.config # None => Committed(memory.config))'
    BY <1>2, <1>3 DEF OAuthInv, ConfigInv, Committed
  <2> QED  BY <1>2, <1>3, <2>1, <2>2 DEF OAuthInv, ConfigInv
<1>7. RevokeInv'
  <2>1. \A s \in memory.states : s.rev \in Nat
    BY <1>1 DEF MemoryType
  <2>2. ASSUME NEW s \in memory'.states
        PROVE  \/ memory'.config # None /\ s.rev = memory'.config.rev
               \/ \E b \in Admins : admin'[b].step = "revoke" /\ s.rev <= admin'[b].rev
    <3>1. s \in memory.states /\ ~(s.rev <= n)
      BY <1>1, <1>2, <2>1
    <3>2. \A b \in Admins : admin[b].step = "revoke" /\ s.rev <= admin[b].rev => admin'[b] = admin[b]
      BY <1>4, <3>1
    <3> QED  BY <1>2, <3>1, <3>2 DEF OAuthInv, RevokeInv
  <2> QED  BY <2>2 DEF RevokeInv
<1> QED  BY <1>2, <1>3, <1>6, <1>7, IdleIs, AppliesKeep

LEMMA ApplyKeeps ==
    ASSUME OAuthInv, NEW a \in Admins, O!Apply(a)
    PROVE  OAuthInv'
<1>1. admin[a].step \in {"install", "remove", "revoke"}
  BY DEF O!Apply
<1> QED  BY <1>1, InstallKeeps, RemoveKeeps, RevokeKeeps

LEMMA OAuthStep == OAuthInv /\ [O!Next]_oauthVars => OAuthInv'
<1> SUFFICES ASSUME OAuthInv, [O!Next]_oauthVars
             PROVE  OAuthInv'
  OBVIOUS
<1>1. ASSUME NEW a \in Admins, O!Administer(a)
      PROVE  OAuthInv'
  BY <1>1, CommitsKeep, ApplyKeeps DEF O!Administer
<1>2. ASSUME NEW r \in Requests, O!Serve(r)
      PROVE  OAuthInv'
  BY <1>2, ArriveKeeps, ReadSessionKeeps, ExchangeKeeps, ExchangeFailsKeeps, BoundKeeps,
     ConsumeKeeps, LookupKeeps, AddKeeps DEF O!Serve
<1>3. ASSUME NEW u \in Users, O!Begin(u) \/ O!Unlink(u)
      PROVE  OAuthInv'
  BY <1>3, BeginKeeps, UnlinkKeeps
<1>4. CASE O!Cleanup \/ \E s \in memory.states : O!Expire(s)
  BY <1>4, ExpireKeeps
<1>5. CASE O!Restart
  BY <1>5, RestartKeeps
<1>6. CASE UNCHANGED oauthVars
  <2>1. SameProvider
    BY <1>6 DEF oauthVars, SameProvider
  <2>2. OAuthType' /\ RowInv' /\ StatesInv' /\ RevokeInv'
    BY <1>6 DEF oauthVars, OAuthInv, OAuthType, RowType, MemoryType, RowInv, O!Active,
                StatesInv, Spending, RevokeInv
  <2>3. (\A x \in Requests : RequestOK(request[x]))'
    BY <1>6, <2>1, SameProviderKeeps DEF oauthVars, OAuthInv
  <2> QED  BY <2>1, <2>2, <2>3, SameProviderKeeps DEF OAuthInv
<1> QED  BY <1>1, <1>2, <1>3, <1>4, <1>5, <1>6 DEF O!Next

\* Whoever signs in with an external account, or links one, has proved this
\* account to the provider as it is configured at that moment; no state serves
\* twice; and a linked account always belongs to the provider's namespace: for
\* any number of requests and administrators, any changes and restarts.
THEOREM AccountsProved == O!Spec => []AccountsAreProved
<1>1. OAuthInv => AccountsAreProved
  BY OAuthSays DEF AccountsAreProved
<1>2. OAuthInv /\ [O!Next]_(O!oauthVars) => OAuthInv'
  BY OAuthStep DEF oauthVars, O!oauthVars
<1> QED
  BY OAuthInit, <1>1, <1>2, PTL DEF O!Spec

\* Once no administrator's handler is at work, memory holds the committed
\* configuration and no state of an older one, in whatever order the handlers
\* installed, removed and revoked.
THEOREM MemoryFollows == O!Spec => []MemoryFollowsRow
<1>1. OAuthInv => MemoryFollowsRow
  BY OAuthSays DEF MemoryFollowsRow
<1>2. OAuthInv /\ [O!Next]_(O!oauthVars) => OAuthInv'
  BY OAuthStep DEF oauthVars, O!oauthVars
<1> QED
  BY OAuthInit, <1>1, <1>2, PTL DEF O!Spec

-----------------------------------------------------------------------------
(* SshLogins: the inductive invariant *)

Logins == 1 .. MaxLogins
Latest == S!Latest
Total == S!Total

SshType ==
    /\ host \in [utmpdump : BOOLEAN, last : BOOLEAN, date : BOOLEAN, first : Nat,
                 times : Seq(Nat), writing : BOOLEAN, clock : Nat]
    /\ prober \in [on : BOOLEAN, client : BOOLEAN, cursor : Nat, poll : Nat,
                   snapshot : SUBSET Nat, seeded : BOOLEAN]
    /\ report \in [times : [Logins -> Nat], base : Nat, used : SUBSET {"wtmp", "last"}]

\* The file holds the logins from first on, whose times grow; the last poll
\* was at a time of the clock, if the server has one.
HostInv ==
    /\ Len(host.times) <= MaxLogins /\ (host.writing => Len(host.times) < MaxLogins)
    /\ host.first > 0 /\ host.first <= Len(host.times) + 1
    /\ host.clock > 0
    /\ \A i \in 1 .. Len(host.times) : host.times[i] > 0 /\ host.times[i] <= host.clock
    /\ \A i, j \in 1 .. Len(host.times) : i <= j => host.times[i] <= host.times[j]
    /\ prober.poll <= host.clock /\ (~host.date => prober.poll = 0)

\* A login that must not be reported again.
Old(l) == l <= report.base \/ report.times[l] > 0

\* Nothing is known before the first listing, and of nothing later than the
\* last login.
ProberInv ==
    /\ ~prober.seeded => /\ prober.cursor = 0 /\ prober.poll = 0 /\ report.used = {}
                         /\ report.base = 0
    /\ \A l \in Logins : Old(l) => l <= Len(host.times) /\ prober.seeded
    /\ report.base <= Len(host.times)

\* The first record the next wtmp listing holds, if the cursor is one of the
\* present file.
TailOf(first, total) == IF total > WtmpTail THEN first + (total - WtmpTail) ELSE first
FromTail == TailOf(host.first, Total)
Low == IF prober.cursor > WtmpOverlap THEN host.first + prober.cursor - WtmpOverlap
       ELSE FromTail

\* An old login of the present file is in the snapshot or before everything
\* that will be listed; a stale cursor only goes with a file without old ones.
WtmpInv ==
    \/ \A l \in Logins : Old(l) => l < host.first
    \/ /\ prober.cursor <= Total
       /\ \A l \in Logins : Old(l) /\ l >= host.first => l \in prober.snapshot \/ l < Low

\* The same for listings by `last`: before the time asked for, or beyond the
\* number of lines.
LastInv ==
    \A l \in Logins : Old(l) /\ l >= host.first =>
        \/ l \in prober.snapshot
        \/ host.times[l] < S!sinceEpoch
        \/ Len(host.times) - l >= LastLines

SshInv ==
    /\ SshType /\ HostInv /\ ProberInv
    /\ report.used \subseteq {"wtmp"} => WtmpInv /\ S!Once
    /\ report.used \subseteq {"last"} => LastInv /\ S!Once

LEMMA SshFacts ==
    ASSUME SshInv
    PROVE  /\ Len(host.times) \in Nat /\ host.first \in Nat /\ host.clock \in Nat
           /\ host.date \in BOOLEAN /\ host.times \in Seq(Nat)
           /\ \A i \in 1 .. Len(host.times) : host.times[i] \in Nat
           /\ prober.cursor \in Nat /\ prober.poll \in Nat /\ prober.seeded \in BOOLEAN
           /\ prober.snapshot \in SUBSET Nat
           /\ report.times \in [Logins -> Nat] /\ report.base \in Nat
           /\ report.used \in SUBSET {"wtmp", "last"}
           /\ Latest = Len(host.times) /\ Total = Len(host.times) - host.first + 1 /\ Total \in Nat
<1>1. /\ Len(host.times) \in Nat /\ host.first \in Nat /\ host.times \in Seq(Nat)
      /\ \A i \in 1 .. Len(host.times) : host.times[i] \in Nat
  BY DEF SshInv, SshType
<1>2. Latest = Len(host.times) /\ Total = Len(host.times) - host.first + 1
  BY Zenon DEF Latest, Total, S!Latest, S!Total
<1>3. Total \in Nat
  BY <1>1, <1>2 DEF SshInv, HostInv
<1> QED  BY <1>1, <1>2, <1>3 DEF SshInv, SshType

LEMMA SshInit == S!Init => SshInv
<1> SUFFICES ASSUME S!Init
             PROVE  SshInv
  OBVIOUS
<1>1. PICK u \in BOOLEAN, d \in BOOLEAN, c \in BOOLEAN :
          host = [utmpdump |-> u, last |-> d, date |-> c, first |-> 1,
                   times |-> << >>, writing |-> FALSE, clock |-> 1]
  BY DEF S!Init
<1>2. prober = [on |-> FALSE, client |-> FALSE, cursor |-> 0, poll |-> 0,
                snapshot |-> {}, seeded |-> FALSE]
  BY DEF S!Init, S!NewProber
<1>3. report = [times |-> [l \in Logins |-> 0], base |-> 0, used |-> {}]
  BY DEF S!Init, S!NewReport, Logins
<1>4. << >> \in Seq(Nat) /\ Len(<< >>) = 0
  OBVIOUS
<1>5. SshType
  BY <1>1, <1>2, <1>3, <1>4 DEF SshType
<1>6. HostInv
  BY <1>1, <1>2, <1>4, SshAssumption DEF HostInv
<1>7. \A l \in Logins : ~Old(l) /\ report.times[l] = 0
  BY <1>3 DEF Old, Logins
<1>8. ProberInv
  BY <1>1, <1>2, <1>3, <1>4, <1>7 DEF ProberInv
<1>9. WtmpInv /\ LastInv
  BY <1>7 DEF WtmpInv, LastInv
<1>10. S!Once
  BY <1>7 DEF S!Once, Logins
<1> QED  BY <1>5, <1>6, <1>8, <1>9, <1>10 DEF SshInv

LEMMA SshCardinality == \A x : S!Cardinality(x) = Cardinality(x)
BY Zenon DEF Cardinality, S!Cardinality

LEMMA SshSays == SshInv => S!SshLoginOnce
<1> SUFFICES ASSUME SshInv, Cardinality(report.used) <= 1
             PROVE  S!Once
  BY SshCardinality, Zenon DEF S!SshLoginOnce
<1>1. ~(report.used = {"wtmp", "last"})
  <2>1. Cardinality({"wtmp", "last"}) = 2
    <3>1. IsFiniteSet({"wtmp"}) /\ Cardinality({"wtmp"}) = 1
      BY FS_Singleton
    <3>2. Cardinality({"wtmp"} \cup {"last"}) = 2
      BY <3>1, FS_AddElement
    <3>3. {"wtmp"} \cup {"last"} = {"wtmp", "last"}
      OBVIOUS
    <3> QED  BY <3>2, <3>3
  <2> QED  BY <2>1
<1>2. report.used \subseteq {"wtmp"} \/ report.used \subseteq {"last"}
  BY <1>1, SshFacts
<1> QED  BY <1>2 DEF SshInv

-----------------------------------------------------------------------------
(* SshLogins: the server, and the monitor between its probes *)

\* The prober keeps its baseline and its cursors.
LEMMA ConnectionKeeps ==
    ASSUME SshInv, UNCHANGED <<host, report>>,
           NEW on \in BOOLEAN, NEW client \in BOOLEAN,
           prober' = [prober EXCEPT !.on = on, !.client = client]
    PROVE  SshInv'
<1>1. SshType'
  BY DEF SshInv, SshType
<1>2. prober'.cursor = prober.cursor /\ prober'.poll = prober.poll
      /\ prober'.snapshot = prober.snapshot /\ prober'.seeded = prober.seeded
  BY DEF SshInv, SshType
<1>3. HostInv'
  BY <1>2 DEF SshInv, HostInv
<1>4. \A l : Old(l)' = Old(l)
  BY DEF Old
<1>5. ProberInv'
  BY <1>2, <1>4 DEF SshInv, ProberInv
<1>6. Total' = Total /\ Low' = Low /\ (S!sinceEpoch)' = S!sinceEpoch
  BY <1>2 DEF Total, S!Total, S!Latest, Low, FromTail, S!sinceEpoch
<1>7. WtmpInv => WtmpInv'
  BY <1>2, <1>4, <1>6 DEF WtmpInv
<1>8. LastInv => LastInv'
  BY <1>2, <1>4, <1>6 DEF LastInv
<1>9. S!Once => (S!Once)'
  BY DEF S!Once
<1> QED  BY <1>1, <1>3, <1>5, <1>7, <1>8, <1>9 DEF SshInv

LEMMA MonitorKeeps ==
    ASSUME SshInv, S!StopMonitor \/ S!Dial \/ S!ProbeFails \/ S!ProbeUnavailable
    PROVE  SshInv'
<1>1. UNCHANGED <<host, report>>
  BY DEF S!StopMonitor, S!Dial, S!ProbeFails, S!ProbeUnavailable
<1>2. prober.on \in BOOLEAN /\ prober.client \in BOOLEAN
  BY DEF SshInv, SshType
<1>3. \E on \in BOOLEAN, client \in BOOLEAN :
          prober' = [prober EXCEPT !.on = on, !.client = client]
  <2>1. prober \in [on : BOOLEAN, client : BOOLEAN, cursor : Nat, poll : Nat,
                    snapshot : SUBSET Nat, seeded : BOOLEAN]
    BY DEF SshInv, SshType
  <2>2. CASE prober' = [prober EXCEPT !.on = FALSE, !.client = FALSE]
    BY <2>2
  <2>3. ASSUME NEW client \in BOOLEAN, prober' = [prober EXCEPT !.client = client]
        PROVE  prober' = [prober EXCEPT !.on = prober.on, !.client = client]
    BY <2>1, <2>3
  <2> QED  BY <1>2, <2>2, <2>3 DEF S!StopMonitor, S!Dial, S!ProbeFails, S!ProbeUnavailable
<1> QED  BY <1>1, <1>3, ConnectionKeeps

LEMMA StartKeeps ==
    ASSUME SshInv, S!StartMonitor
    PROVE  SshInv'
<1>1. host' = host /\ prober' = [on |-> TRUE, client |-> FALSE, cursor |-> 0, poll |-> 0,
                                 snapshot |-> {}, seeded |-> FALSE]
  BY DEF S!StartMonitor, S!NewProber
<1>2. report' = [times |-> [l \in Logins |-> 0], base |-> 0, used |-> {}]
  BY DEF S!StartMonitor, S!NewReport, Logins
<1>3. SshType'
  BY <1>1, <1>2 DEF SshInv, SshType
<1>4. HostInv'
  BY <1>1, SshFacts DEF SshInv, HostInv
<1>5. \A l \in Logins : ~Old(l)' /\ report'.times[l] = 0
  BY <1>2 DEF Old, Logins
<1>6. ProberInv'
  BY <1>1, <1>2, <1>5, SshFacts DEF ProberInv
<1>7. WtmpInv' /\ LastInv'
  BY <1>5 DEF WtmpInv, LastInv
<1>8. (S!Once)'
  BY <1>5 DEF S!Once, Logins
<1> QED  BY <1>3, <1>4, <1>6, <1>7, <1>8 DEF SshInv

LEMMA TailGrows ==
    \A f, t \in Nat : /\ TailOf(f, t) \in Int /\ TailOf(f, t + 1) \in Int
                      /\ f <= TailOf(f, t) /\ TailOf(f, t) <= TailOf(f, t + 1)
                      /\ TailOf(f, t) <= f + t /\ TailOf(f, t) >= f + t - WtmpTail
BY SshAssumption DEF TailOf

LEMMA ServerKeeps ==
    ASSUME SshInv, S!Server
    PROVE  SshInv'
<1> DEFINE L == Len(host.times)
<1>0. UNCHANGED <<prober, report>>
  BY DEF S!Server
<1>1. host \in [utmpdump : BOOLEAN, last : BOOLEAN, date : BOOLEAN, first : Nat,
                 times : Seq(Nat), writing : BOOLEAN, clock : Nat]
  BY DEF SshInv, SshType
<1>2. \A l : Old(l)' = Old(l)
  BY <1>0 DEF Old
<1>3. (S!sinceEpoch)' = S!sinceEpoch /\ (S!Once)' = S!Once
  BY <1>0 DEF S!sinceEpoch, S!Once
<1>4. \A l \in Logins : Old(l) => l <= L
  BY DEF SshInv, ProberInv
<1>a. /\ L \in Nat /\ host.first \in Nat /\ host.clock \in Nat /\ MaxLogins \in Nat
      /\ prober.cursor \in Nat /\ prober.poll \in Nat
      /\ Total = L - host.first + 1 /\ Total \in Nat
  BY SshFacts, SshAssumption
<1>b. /\ L <= MaxLogins /\ (host.writing => L < MaxLogins)
      /\ host.first > 0 /\ host.first <= L + 1 /\ host.clock > 0
      /\ prober.poll <= host.clock /\ (~host.date => prober.poll = 0)
  BY DEF SshInv, HostInv
<1>c. \A i \in 1 .. L : host.times[i] \in Nat /\ host.times[i] > 0 /\ host.times[i] <= host.clock
  BY SshFacts DEF SshInv, HostInv
<1>d. \A i, j \in 1 .. L : i <= j => host.times[i] <= host.times[j]
  BY DEF SshInv, HostInv
<1>e. Total' = Len(host'.times) - host'.first + 1
  BY Zenon DEF Total, S!Total, S!Latest
<1> HIDE DEF L
<1>5. ASSUME host'.times = host.times, host'.first = host.first, host'.date = host.date,
             host'.clock \in Nat, host'.clock >= host.clock, host'.writing \in BOOLEAN,
             host'.writing => L < MaxLogins,
             host' \in [utmpdump : BOOLEAN, last : BOOLEAN, date : BOOLEAN, first : Nat,
                        times : Seq(Nat), writing : BOOLEAN, clock : Nat]
      PROVE  SshInv'
  <2>1. SshType'
    BY <1>0, <1>5 DEF SshInv, SshType
  <2>2. HostInv'
    <3>1. Len(host'.times) = L /\ prober' = prober
      BY <1>0, <1>5 DEF L
    <3>2. \A i \in 1 .. L : host'.times[i] > 0 /\ host'.times[i] <= host'.clock
      BY <1>a, <1>c, <1>5
    <3>3. prober.poll <= host'.clock /\ host'.clock > 0
      BY <1>a, <1>b, <1>5
    <3> QED  BY <1>5, <1>b, <1>d, <3>1, <3>2, <3>3 DEF HostInv
  <2>3. ProberInv'
    BY <1>0, <1>2, <1>5 DEF SshInv, ProberInv
  <2>4. Total' = Total /\ Low' = Low
    BY <1>0, <1>5 DEF Total, S!Total, S!Latest, Low, FromTail
  <2>5. (WtmpInv => WtmpInv') /\ (LastInv => LastInv')
    BY <1>0, <1>2, <1>3, <1>5, <2>4 DEF WtmpInv, LastInv
  <2> QED  BY <1>0, <1>3, <2>1, <2>2, <2>3, <2>5 DEF SshInv
<1>6. CASE S!LoginBegins
  <2>1. /\ host'.times = host.times /\ host'.first = host.first /\ host'.clock = host.clock
        /\ host'.date = host.date /\ host'.writing = TRUE
        /\ host' \in [utmpdump : BOOLEAN, last : BOOLEAN, date : BOOLEAN, first : Nat,
                      times : Seq(Nat), writing : BOOLEAN, clock : Nat]
    BY <1>1, <1>6 DEF S!LoginBegins
  <2>2. L < MaxLogins
    BY <1>6, Zenon DEF S!LoginBegins, S!Latest, L
  <2>3. host'.clock \in Nat /\ host'.clock >= host.clock
    BY <1>a, <2>1
  <2> QED  BY <1>5, <2>1, <2>2, <2>3
<1>7. CASE S!Tick
  <2>1. host'.clock = host.clock + 1 /\ host'.times = host.times /\ host'.first = host.first
        /\ host'.date = host.date /\ host'.writing = host.writing
    BY <1>1, <1>7 DEF S!Tick
  <2>2. host' \in [utmpdump : BOOLEAN, last : BOOLEAN, date : BOOLEAN, first : Nat,
                   times : Seq(Nat), writing : BOOLEAN, clock : Nat]
    BY <1>1, <1>7 DEF S!Tick
  <2>3. host'.clock \in Nat /\ host'.clock >= host.clock /\ host'.writing \in BOOLEAN
    BY <1>a, <2>1, <2>2
  <2> QED  BY <1>5, <1>b, <2>1, <2>2, <2>3
<1>8. CASE S!LoginEnds
  <2>1. /\ host'.times = Append(host.times, host.clock) /\ host'.first = host.first
        /\ host'.clock = host.clock /\ host'.date = host.date /\ host'.writing = FALSE
        /\ host.writing
        /\ host' \in [utmpdump : BOOLEAN, last : BOOLEAN, date : BOOLEAN, first : Nat,
                      times : Seq(Nat), writing : BOOLEAN, clock : Nat]
    <3>1. host' = [host EXCEPT !.writing = FALSE, !.times = Append(host.times, host.clock)]
          /\ host.writing
      BY <1>8 DEF S!LoginEnds
    <3>2. Append(host.times, host.clock) \in Seq(Nat)
      BY <1>1
    <3> QED  BY <1>1, <3>1, <3>2
  <2>2. /\ Len(host'.times) = L + 1 /\ L + 1 \in Nat /\ L < MaxLogins
        /\ \A i \in 1 .. L : host'.times[i] = host.times[i]
        /\ host'.times[L + 1] = host.clock
    <3>1. L + 1 \in Nat /\ L < MaxLogins
      BY <1>a, <1>b, <2>1
    <3>2. ASSUME NEW times \in Seq(Nat), NEW clock \in Nat
          PROVE  /\ Len(Append(times, clock)) = Len(times) + 1
                 /\ \A i \in 1 .. Len(times) : Append(times, clock)[i] = times[i]
                 /\ Append(times, clock)[Len(times) + 1] = clock
      OBVIOUS
    <3>3. host.times \in Seq(Nat) /\ host.clock \in Nat
      BY <1>1
    <3> DEFINE longer == Append(host.times, host.clock)
    <3>4. /\ Len(longer) = L + 1 /\ longer[L + 1] = host.clock
          /\ \A i \in 1 .. L : longer[i] = host.times[i]
      BY <3>2, <3>3 DEF L
    <3>5. host'.times = longer
      BY <2>1
    <3> HIDE DEF longer
    <3> QED  BY <3>1, <3>4, <3>5
  <2>a. host'.first = host.first /\ Len(host'.times) = L + 1
    BY <2>1, <2>2
  <2>3. SshType'
    BY <1>0, <2>1 DEF SshInv, SshType
  <2>4. HostInv'
    <3>1. \A i \in 1 .. (L + 1) : i \in 1 .. L \/ i = L + 1
      BY <1>a
    <3>2. \A i \in 1 .. (L + 1) : host'.times[i] > 0 /\ host'.times[i] <= host.clock
      <4>1. \A i \in 1 .. L : host'.times[i] > 0 /\ host'.times[i] <= host.clock
        BY <1>c, <2>2
      <4>2. host'.times[L + 1] > 0 /\ host'.times[L + 1] <= host.clock
        BY <1>a, <1>b, <2>2
      <4> QED  BY <3>1, <4>1, <4>2
    <3>3. \A i, j \in 1 .. (L + 1) : i <= j => host'.times[i] <= host'.times[j]
      <4> SUFFICES ASSUME NEW i \in 1 .. (L + 1), NEW j \in 1 .. (L + 1), i <= j
                   PROVE  host'.times[i] <= host'.times[j]
        OBVIOUS
      <4>1. CASE j = L + 1
        BY <2>2, <3>2, <4>1
      <4>2. CASE j \in 1 .. L
        <5>1. i \in 1 .. L
          BY <1>a, <4>2
        <5> QED  BY <1>d, <2>2, <4>2, <5>1
      <4> QED  BY <3>1, <4>1, <4>2
    <3>4. L + 1 <= MaxLogins /\ host.first <= L + 1 + 1
      BY <1>a, <1>b, <2>2
    <3> QED  BY <1>0, <1>b, <2>1, <2>2, <3>2, <3>3, <3>4 DEF HostInv
  <2>5. ProberInv'
    <3>1. report.base \in Nat /\ report.base <= L
      BY SshFacts DEF SshInv, ProberInv, L
    <3>2. report.base <= L + 1
      BY <1>a, <3>1
    <3>3. \A l \in Logins : Old(l) => l <= L + 1 /\ prober.seeded
      BY <1>4, <1>a DEF SshInv, ProberInv, Logins
    <3> QED  BY <1>0, <1>2, <2>a, <3>2, <3>3 DEF SshInv, ProberInv
  <2>6. Total' = Total + 1 /\ Low' >= Low /\ Low \in Int /\ Low' \in Int
    <3>2. Total' = Total + 1
      BY <1>a, <1>e, <2>a, SMTT(30)
    <3>3. FromTail \in Int /\ FromTail' \in Int /\ FromTail' >= FromTail
      <4>1. FromTail = TailOf(host.first, Total) /\ FromTail' = TailOf(host.first, Total + 1)
        BY <2>a, <3>2 DEF FromTail
      <4> QED  BY <1>a, <4>1, TailGrows
    <3> QED  BY <1>0, <1>a, <2>a, <3>2, <3>3, SshAssumption, SMTT(30) DEF Low
  <2>7. WtmpInv => WtmpInv'
    BY <1>0, <1>2, <1>a, <2>1, <2>6, SMTT(30) DEF WtmpInv, Logins
  <2>8. ASSUME LastInv
        PROVE  LastInv'
    <3>1. \A l \in Logins : Old(l) => l \in 1 .. L /\ host'.times[l] = host.times[l]
      BY <1>4, <1>a, <2>2 DEF Logins
    <3>2. \A l \in Logins : L - l >= LastLines => L + 1 - l >= LastLines
      BY <1>a, SshAssumption DEF Logins
    <3>3. \A l \in Logins : Old(l) /\ l >= host.first =>
              l \in prober.snapshot \/ host.times[l] < S!sinceEpoch \/ L - l >= LastLines
      BY <2>8 DEF LastInv, L
    <3>4. \A l \in Logins : Old(l)' /\ l >= host'.first =>
              l \in prober'.snapshot \/ host'.times[l] < (S!sinceEpoch)' \/ L + 1 - l >= LastLines
      BY <1>0, <1>2, <1>3, <2>a, <3>1, <3>2, <3>3
    <3>5. \A l \in Logins : Old(l)' /\ l >= host'.first =>
              l \in prober'.snapshot \/ host'.times[l] < (S!sinceEpoch)' \/ Len(host'.times) - l >= LastLines
      BY <1>a, <2>a, <3>4, SshAssumption, SMTT(30) DEF Logins
    <3> QED  BY <3>5 DEF LastInv
  <2> QED  BY <1>0, <1>3, <2>3, <2>4, <2>5, <2>7, <2>8 DEF SshInv
<1>9. CASE S!Rotate
  <2>1. /\ host'.times = host.times /\ host'.first = L + 1
        /\ host'.clock = host.clock /\ host'.date = host.date /\ host'.writing = host.writing
        /\ host' \in [utmpdump : BOOLEAN, last : BOOLEAN, date : BOOLEAN, first : Nat,
                      times : Seq(Nat), writing : BOOLEAN, clock : Nat]
    BY <1>1, <1>9, SshFacts, SMTT(30) DEF S!Rotate, S!Latest, L
  <2>2. SshType'
    BY <1>0, <2>1 DEF SshInv, SshType
  <2>3. HostInv'
    <3>1. Len(host'.times) = L /\ L + 1 > 0 /\ L + 1 <= L + 1
      BY <1>a, <2>1 DEF L
    <3> QED  BY <1>0, <1>b, <1>c, <1>d, <2>1, <3>1 DEF HostInv
  <2>4. ProberInv'
    BY <1>0, <1>2, <2>1 DEF SshInv, ProberInv
  <2>5. \A l \in Logins : Old(l) => l < host'.first
    BY <1>4, <1>a, <2>1 DEF Logins
  <2>6. WtmpInv'
    BY <1>2, <2>5 DEF WtmpInv
  <2>7. LastInv'
    BY <1>2, <1>a, <2>1, <2>5 DEF LastInv, Logins
  <2> QED  BY <1>0, <1>3, <2>2, <2>3, <2>4, <2>6, <2>7 DEF SshInv
<1> QED  BY <1>6, <1>7, <1>8, <1>9 DEF S!Server

-----------------------------------------------------------------------------
(* SshLogins: a probe *)

\* What a listing changes: only logins it holds and the last one did not hold
\* are reported, the first listing reports none.
LEMMA ProbedFacts ==
    ASSUME SshInv, NEW list, NEW way, S!Probed(list, way)
    PROVE  /\ host' = host
           /\ prober'.on = prober.on /\ prober'.client = prober.client
           /\ prober'.cursor = (IF way = "wtmp" /\ Total > 0 THEN Total ELSE prober.cursor)
           /\ prober'.poll = (IF host.date THEN host.clock ELSE 0)
           /\ prober'.snapshot = list /\ prober'.seeded = TRUE
           /\ prober' = [on |-> prober'.on, client |-> prober'.client, cursor |-> prober'.cursor,
                         poll |-> prober'.poll, snapshot |-> prober'.snapshot,
                         seeded |-> prober'.seeded]
           /\ report' = [times |-> report'.times, base |-> report'.base, used |-> report'.used]
           /\ report'.times = [l \in Logins |->
                                 IF prober.seeded /\ l \in list \ (prober.snapshot \cup Own)
                                 THEN report.times[l] + 1 ELSE report.times[l]]
           /\ report'.base = (IF prober.seeded THEN report.base ELSE Len(host.times))
           /\ report'.used = report.used \cup {way}
<1>1. prober \in [on : BOOLEAN, client : BOOLEAN, cursor : Nat, poll : Nat,
                  snapshot : SUBSET Nat, seeded : BOOLEAN]
  BY DEF SshInv, SshType
<1>2. report \in [times : [Logins -> Nat], base : Nat, used : SUBSET {"wtmp", "last"}]
  BY DEF SshInv, SshType
<1> DEFINE fresh == IF prober.seeded THEN list \ (prober.snapshot \cup Own) ELSE {}
<1>3. /\ prober' = [prober EXCEPT
               !.cursor = IF way = "wtmp" /\ Total > 0 THEN Total ELSE @,
               !.poll = IF host.date THEN host.clock ELSE 0,
               !.snapshot = list, !.seeded = TRUE]
      /\ report' = [report EXCEPT
               !.times = [l \in Logins |-> IF l \in fresh THEN @[l] + 1 ELSE @[l]],
               !.base = IF prober.seeded THEN @ ELSE Latest,
               !.used = @ \cup {way}]
      /\ host' = host
  BY DEF S!Probed, S!diffLoginSessions, Total, Latest, Logins
<1>4. /\ prober'.on = prober.on /\ prober'.client = prober.client
      /\ prober'.cursor = (IF way = "wtmp" /\ Total > 0 THEN Total ELSE prober.cursor)
      /\ prober'.poll = (IF host.date THEN host.clock ELSE 0)
      /\ prober'.snapshot = list /\ prober'.seeded = TRUE
      /\ prober' = [on |-> prober'.on, client |-> prober'.client, cursor |-> prober'.cursor,
                    poll |-> prober'.poll, snapshot |-> prober'.snapshot,
                    seeded |-> prober'.seeded]
  BY <1>1, <1>3
<1>5. /\ report'.times = [l \in Logins |-> IF l \in fresh THEN report.times[l] + 1 ELSE report.times[l]]
      /\ report'.base = (IF prober.seeded THEN report.base ELSE Latest)
      /\ report'.used = report.used \cup {way}
      /\ report' = [times |-> report'.times, base |-> report'.base, used |-> report'.used]
  BY <1>2, <1>3
<1>6. \A l : l \in fresh <=> prober.seeded /\ l \in list \ (prober.snapshot \cup Own)
  OBVIOUS
<1>7. [l \in Logins |-> IF l \in fresh THEN report.times[l] + 1 ELSE report.times[l]]
        = [l \in Logins |-> IF prober.seeded /\ l \in list \ (prober.snapshot \cup Own)
                            THEN report.times[l] + 1 ELSE report.times[l]]
  BY <1>6
<1>8. Latest = Len(host.times)
  BY SshFacts
<1> HIDE DEF fresh
<1> QED  BY <1>3, <1>4, <1>5, <1>7, <1>8

\* A listing of logins of the present file, whose old ones the last listing
\* held, keeps everything but the statements on the next listing.
LEMMA ProbedKeeps ==
    ASSUME SshInv, NEW list \in SUBSET Logins, NEW way \in {"wtmp", "last"}, S!Probed(list, way),
           \A l \in list : l <= Len(host.times),
           report.used \subseteq {way} => \A l \in list : Old(l) => l \in prober.snapshot,
           report.used \subseteq {way} => S!Once
    PROVE  /\ SshType' /\ HostInv' /\ ProberInv'
           /\ report.used \subseteq {way} => (S!Once)'
           /\ \A l \in Logins : Old(l)' => l <= Len(host.times)
           /\ \A l \in Logins : Old(l)' /\ prober.seeded => Old(l) \/ l \in list
           /\ report'.used = report.used \cup {way}
<1> DEFINE new(l) == prober.seeded /\ l \in list \ (prober.snapshot \cup Own)
<1>1. /\ report'.times = [l \in Logins |-> IF new(l) THEN report.times[l] + 1 ELSE report.times[l]]
      /\ report'.base = (IF prober.seeded THEN report.base ELSE Len(host.times))
      /\ report'.used = report.used \cup {way}
      /\ prober'.seeded = TRUE /\ host' = host
  BY ProbedFacts
<1>2. \A l \in Logins : new(l) => l \in list /\ l \notin prober.snapshot /\ prober.seeded
  OBVIOUS
<1> HIDE DEF new
<1>3. \A l \in Logins : report'.times[l] = IF new(l) THEN report.times[l] + 1 ELSE report.times[l]
  BY <1>1
<1>4. \A l \in Logins : report.times[l] \in Nat
  BY SshFacts
<1>5. Len(host.times) \in Nat /\ report.base \in Nat /\ report.base <= Len(host.times)
      /\ prober.seeded \in BOOLEAN /\ Logins \subseteq Nat
  BY SshFacts DEF SshInv, ProberInv, Logins
<1>6. \A l \in Logins : Old(l)' => l <= Len(host.times)
  <2> SUFFICES ASSUME NEW l \in Logins, Old(l)'
               PROVE  l <= Len(host.times)
    OBVIOUS
  <2>1. CASE l <= report'.base
    BY <1>1, <1>5, <2>1
  <2>2. CASE report'.times[l] > 0
    <3>1. CASE new(l)
      BY <1>2, <3>1
    <3>2. CASE ~new(l)
      <4>1. report.times[l] > 0
        BY <1>3, <2>2, <3>2
      <4> QED  BY <4>1 DEF SshInv, ProberInv, Old
    <3> QED  BY <3>1, <3>2
  <2> QED  BY <2>1, <2>2 DEF Old
<1>7. \A l \in Logins : Old(l)' /\ prober.seeded => Old(l) \/ l \in list
  BY <1>1, <1>2, <1>3 DEF Old
<1>8. SshType'
  <2>1. prober' \in [on : BOOLEAN, client : BOOLEAN, cursor : Nat, poll : Nat,
                     snapshot : SUBSET Nat, seeded : BOOLEAN]
    <3>1. prober.on \in BOOLEAN /\ prober.client \in BOOLEAN
      BY DEF SshInv, SshType
    <3>2. prober'.cursor \in Nat /\ prober'.poll \in Nat
      <4>1. /\ prober'.cursor = (IF way = "wtmp" /\ Total > 0 THEN Total ELSE prober.cursor)
            /\ prober'.poll = (IF host.date THEN host.clock ELSE 0)
        BY ProbedFacts
      <4>2. Total \in Nat /\ prober.cursor \in Nat /\ host.clock \in Nat
        BY SshFacts
      <4> QED  BY <4>1, <4>2
    <3>3. list \in SUBSET Nat
      BY DEF Logins
    <3>4. prober'.on = prober.on /\ prober'.client = prober.client
          /\ prober'.snapshot = list /\ prober'.seeded = TRUE
      BY ProbedFacts
    <3>5. prober' = [on |-> prober'.on, client |-> prober'.client, cursor |-> prober'.cursor,
                     poll |-> prober'.poll, snapshot |-> prober'.snapshot,
                     seeded |-> prober'.seeded]
      BY ProbedFacts
    <3> QED  BY <3>1, <3>2, <3>3, <3>4, <3>5
  <2>2. report' \in [times : [Logins -> Nat], base : Nat, used : SUBSET {"wtmp", "last"}]
    <3>1. report'.times \in [Logins -> Nat]
      BY <1>1, <1>4
    <3>2. report'.base \in Nat /\ report'.used \in SUBSET {"wtmp", "last"}
      BY <1>1, <1>5, SshFacts
    <3>3. report' = [times |-> report'.times, base |-> report'.base, used |-> report'.used]
      BY ProbedFacts
    <3> QED  BY <3>1, <3>2, <3>3
  <2> QED  BY <1>1, <2>1, <2>2 DEF SshInv, SshType
<1>9. HostInv'
  <2>1. prober'.poll <= host.clock /\ (~host.date => prober'.poll = 0)
    <3>1. prober'.poll = (IF host.date THEN host.clock ELSE 0)
      BY ProbedFacts
    <3>2. host.clock \in Nat
      BY SshFacts
    <3> QED  BY <3>1, <3>2
  <2> QED  BY <1>1, <2>1 DEF SshInv, HostInv
<1>10. ProberInv'
  <2>1. report'.base <= Len(host.times)
    BY <1>1, <1>5
  <2> QED  BY <1>1, <1>6, <2>1 DEF ProberInv
<1>11. ASSUME report.used \subseteq {way}
       PROVE  (S!Once)'
  <2>1. \A l \in Logins : new(l) => ~Old(l)
    BY <1>2, <1>11
  <2>2. \A l \in Logins : report.times[l] <= 1 /\ (l <= report.base => report.times[l] = 0)
    BY <1>11 DEF S!Once, Logins
  <2>3. ~prober.seeded => \A l \in Logins : report.times[l] = 0 /\ ~new(l)
    BY <1>2, <1>4 DEF SshInv, ProberInv, Old
  <2>4. ASSUME NEW l \in Logins
        PROVE  report'.times[l] <= 1 /\ (l <= report'.base => report'.times[l] = 0)
    <3>1. CASE new(l)
      <4>1. prober.seeded /\ report.times[l] = 0 /\ ~(l <= report.base)
        BY <1>2, <1>4, <2>1, <3>1 DEF Old
      <4> QED  BY <1>1, <1>3, <3>1, <4>1
    <3>2. CASE ~new(l)
      BY <1>1, <1>3, <2>2, <2>3, <3>2
    <3> QED  BY <3>1, <3>2
  <2> QED  BY <2>4 DEF S!Once, Logins
<1> QED  BY <1>1, <1>6, <1>7, <1>8, <1>9, <1>10, <1>11

\* The records the script reads start at the tail of the file, or at the
\* cursor less the overlap.
LEMMA WtmpListing ==
    ASSUME SshInv
    PROVE  \E lo \in Nat :
             /\ S!probe_wtmp(S!sinceRecords) = lo .. Len(host.times)
             /\ \/ lo = TailOf(host.first, Total)
                \/ /\ prober.cursor > WtmpOverlap /\ prober.cursor - WtmpOverlap <= Total
                   /\ lo = host.first + (prober.cursor - WtmpOverlap)
             /\ prober.cursor <= Total => lo = Low
<1> DEFINE f == host.first
           t == Total
           c == prober.cursor
           n == Len(host.times)
           since == IF c <= WtmpOverlap THEN 0 ELSE c - WtmpOverlap
           skip == IF since <= 0 \/ since > t THEN IF t > WtmpTail THEN t - WtmpTail ELSE 0
                   ELSE since
<1>1. f \in Nat /\ t \in Nat /\ c \in Nat /\ n \in Nat /\ WtmpOverlap \in Nat /\ WtmpTail \in Nat
  BY SshFacts, SshAssumption
<1>2. S!probe_wtmp(S!sinceRecords) = (f + skip) .. n
  <2>1. S!sinceRecords = since
    BY DEF S!sinceRecords
  <2>2. S!Total = t /\ S!Latest = n
    BY SshFacts DEF Total, Latest
  <2> QED  BY <2>1, <2>2 DEF S!probe_wtmp
<1>3. TailOf(f, t) = IF t > WtmpTail THEN f + (t - WtmpTail) ELSE f
  BY DEF TailOf
<1>4. Low = IF c > WtmpOverlap THEN f + c - WtmpOverlap ELSE TailOf(f, t)
  BY DEF Low, FromTail
<1> HIDE DEF f, t, c, n
<1>5. CASE c <= WtmpOverlap \/ c - WtmpOverlap > t
  <2>1. skip = IF t > WtmpTail THEN t - WtmpTail ELSE 0
    BY <1>1, <1>5
  <2> HIDE DEF skip
  <2>2. f + skip = TailOf(f, t) /\ f + skip \in Nat
    BY <1>1, <1>3, <2>1
  <2>3. c <= t => TailOf(f, t) = Low
    BY <1>1, <1>4, <1>5
  <2> QED  BY <1>2, <2>2, <2>3 DEF f, t, c, n
<1>6. CASE c > WtmpOverlap /\ c - WtmpOverlap <= t
  <2>1. skip = c - WtmpOverlap
    BY <1>1, <1>6
  <2> HIDE DEF skip
  <2>2. f + skip \in Nat /\ f + skip = f + (c - WtmpOverlap) /\ f + skip = Low
    BY <1>1, <1>4, <1>6, <2>1
  <2> QED  BY <1>2, <1>6, <2>2 DEF f, t, c, n
<1> QED  BY <1>1, <1>5, <1>6

LEMMA ProbeWtmpKeeps ==
    ASSUME SshInv, S!Probed(S!probe_wtmp(S!sinceRecords), "wtmp")
    PROVE  SshInv'
<1> DEFINE f == host.first
           t == Total
           c == prober.cursor
           n == Len(host.times)
<1>1. PICK lo \in Nat :
        /\ S!probe_wtmp(S!sinceRecords) = lo .. n
        /\ \/ lo = TailOf(f, t)
           \/ c > WtmpOverlap /\ c - WtmpOverlap <= t /\ lo = f + (c - WtmpOverlap)
        /\ c <= t => lo = Low
  BY WtmpListing
<1>2. /\ f \in Nat /\ t \in Nat /\ c \in Nat /\ n \in Nat /\ WtmpOverlap \in Nat /\ WtmpTail \in Nat
      /\ t = n - f + 1 /\ prober.seeded \in BOOLEAN /\ WtmpOverlap <= WtmpTail
  BY SshFacts, SshAssumption
<1>3. f > 0 /\ n <= MaxLogins /\ MaxLogins \in Nat /\ (~prober.seeded => c = 0)
  BY SshAssumption DEF SshInv, HostInv, ProberInv
<1>4. f <= TailOf(f, t) /\ TailOf(f, t) \in Int
  BY <1>2, TailGrows
<1>5. prober'.snapshot = lo .. n /\ host' = host
      /\ prober'.cursor = IF t > 0 THEN t ELSE c
  BY <1>1, ProbedFacts
<1>6. S!Probed(lo .. n, "wtmp")
  BY <1>1
<1>7. \A l \in Logins : l \in Nat
  BY DEF Logins
<1>a. Total' = Total /\ FromTail' = FromTail
  BY <1>5 DEF Total, S!Total, S!Latest, FromTail
<1>b. Low' = IF prober'.cursor > WtmpOverlap THEN f + prober'.cursor - WtmpOverlap ELSE TailOf(f, t)
  BY <1>5, <1>a DEF Low, FromTail
<1>c. WtmpInv = \/ \A l \in Logins : Old(l) => l < f
                \/ c <= t /\ \A l \in Logins : Old(l) /\ l >= f => l \in prober.snapshot \/ l < Low
  BY DEF WtmpInv
<1>d. WtmpInv' = \/ \A l \in Logins : Old(l)' => l < f
                 \/ /\ prober'.cursor <= t
                    /\ \A l \in Logins : Old(l)' /\ l >= f => l \in prober'.snapshot \/ l < Low'
  BY <1>5, <1>a DEF WtmpInv
<1>e. report.used \subseteq {"wtmp"} => WtmpInv /\ S!Once
  BY DEF SshInv
<1>f. \A l \in lo .. n : l <= Len(host.times)
  BY <1>2
<1> HIDE DEF f, t, c, n
<1>8. lo >= f
  BY <1>1, <1>2, <1>4
<1>9. lo .. n \in SUBSET Logins
  BY <1>2, <1>3, <1>8 DEF Logins
<1>10. report.used \subseteq {"wtmp"} => \A l \in lo .. n : Old(l) => l \in prober.snapshot
  <2> SUFFICES ASSUME report.used \subseteq {"wtmp"}, NEW l \in lo .. n, Old(l)
               PROVE  l \in prober.snapshot
    OBVIOUS
  <2>1. l \in Logins /\ l \in Nat /\ l >= lo /\ l >= f /\ ~(l < f) /\ ~(l < lo)
    BY <1>2, <1>7, <1>8, <1>9
  <2> QED  BY <1>1, <1>c, <1>e, <2>1
<1>11. /\ SshType' /\ HostInv' /\ ProberInv'
       /\ report.used \subseteq {"wtmp"} => (S!Once)'
       /\ \A l \in Logins : Old(l)' => l <= Len(host.times)
       /\ \A l \in Logins : Old(l)' /\ prober.seeded => Old(l) \/ l \in lo .. n
       /\ report'.used = report.used \cup {"wtmp"}
  BY <1>e, <1>f, <1>6, <1>9, <1>10, ProbedKeeps
<1>12. \A l \in Logins : Old(l)' => l <= n
  BY <1>11 DEF n
<1>13. ASSUME WtmpInv
       PROVE  WtmpInv'
  <2>1. CASE t = 0
    <3>1. \A l \in Logins : Old(l)' => l < f
      BY <1>2, <1>7, <1>12, <2>1
    <3> QED  BY <1>d, <3>1
  <2>2. CASE t > 0
    <3>1. prober'.cursor = t /\ t <= t
      BY <1>2, <1>5, <2>2
    <3>2. Low' \in Int /\ TailOf(f, t) <= Low'
      <4>1. CASE t > WtmpOverlap
        <5>1. Low' = f + t - WtmpOverlap
          BY <1>b, <3>1, <4>1
        <5>2. TailOf(f, t) = IF t > WtmpTail THEN f + (t - WtmpTail) ELSE f
          BY DEF TailOf
        <5> QED  BY <1>2, <4>1, <5>1, <5>2
      <4>2. CASE ~(t > WtmpOverlap)
        BY <1>4, <1>b, <3>1, <4>2
      <4> QED  BY <4>1, <4>2
    <3>3. lo <= Low' \/ (c > t /\ prober.seeded)
      <4>1. CASE lo = TailOf(f, t)
        BY <3>2, <4>1
      <4>2. CASE c > WtmpOverlap /\ lo = f + (c - WtmpOverlap) /\ c <= t
        <5>1. Low' = f + t - WtmpOverlap
          BY <1>2, <1>b, <3>1, <4>2
        <5> QED  BY <1>2, <4>2, <5>1
      <4>3. CASE c > WtmpOverlap /\ ~(c <= t)
        BY <1>2, <1>3, <4>3
      <4> QED  BY <1>1, <4>1, <4>2, <4>3
    <3>4. ASSUME NEW l \in Logins, Old(l)', l >= f
          PROVE  l \in lo .. n \/ l < Low'
      <4>1. l \in Nat /\ l <= n
        BY <1>7, <1>12, <3>4
      <4>2. CASE lo <= Low'
        BY <1>2, <3>2, <4>1, <4>2
      <4>3. CASE c > t /\ prober.seeded
        <5>1. \A k \in Logins : Old(k) => k < f
          <6>1. ~(c <= t)
            BY <1>2, <4>3
          <6> QED  BY <1>13, <1>c, <6>1, Zenon
        <5>2. ~Old(l)
          BY <1>2, <3>4, <4>1, <5>1
        <5> QED  BY <1>11, <3>4, <4>3, <5>2
      <4> QED  BY <3>3, <4>2, <4>3
    <3> QED  BY <1>5, <1>d, <3>1, <3>4
  <2> QED  BY <1>2, <2>1, <2>2
<1>14. report'.used \subseteq {"wtmp"} => report.used \subseteq {"wtmp"}
  BY <1>11
<1>15. ~(report'.used \subseteq {"last"})
  <2>1. "wtmp" \in report'.used
    BY <1>11
  <2> QED  BY <2>1
<1> QED  BY <1>e, <1>11, <1>13, <1>14, <1>15 DEF SshInv

\* `last` lists the newest logins from the time asked for on.
LEMMA LastListing ==
    ASSUME SshInv, NEW since \in Nat
    PROVE  S!probe_last(since) =
             {l \in host.first .. Len(host.times) :
                host.times[l] >= since /\ Len(host.times) - l < LastLines}
<1> DEFINE f == host.first
           n == Len(host.times)
           from == {l \in f .. n : host.times[l] >= since}
<1>1. f \in Nat /\ n \in Nat /\ f > 0
  BY SshFacts DEF SshInv, HostInv
<1>2. \A i \in 1 .. n : host.times[i] \in Nat
  BY SshFacts
<1>3. \A i, j \in 1 .. n : i <= j => host.times[i] <= host.times[j]
  BY DEF SshInv, HostInv
<1>4. S!probe_last(since) = {l \in from : Cardinality({m \in from : m > l}) < LastLines}
  <2>1. S!Latest = n
    BY SshFacts DEF Latest
  <2>2. S!probe_last(since) = {l \in from : S!Cardinality({m \in from : m > l}) < LastLines}
    BY <2>1 DEF S!probe_last, S!Newest
  <2> QED  BY <2>2, SshCardinality, Zenon
<1> HIDE DEF f, n
<1>5. ASSUME NEW l \in from
      PROVE  Cardinality({m \in from : m > l}) = n - l
  <2>1. l \in f .. n /\ l \in 1 .. n /\ host.times[l] >= since
    BY <1>1
  <2>2. {m \in from : m > l} = (l + 1) .. n
    <3>1. ASSUME NEW m \in (l + 1) .. n
          PROVE  m \in from /\ m > l
      <4>1. m \in 1 .. n /\ m \in f .. n /\ l <= m /\ m > l
        BY <1>1, <2>1
      <4>2. host.times[l] <= host.times[m] /\ host.times[l] \in Nat /\ host.times[m] \in Nat
        BY <1>2, <1>3, <2>1, <4>1
      <4> QED  BY <2>1, <4>1, <4>2
    <3>2. ASSUME NEW m \in from, m > l
          PROVE  m \in (l + 1) .. n
      BY <1>1, <2>1, <3>2
    <3> QED  BY <3>1, <3>2
  <2>3. l + 1 \in Int /\ n \in Int
    BY <1>1, <2>1
  <2>4. Cardinality((l + 1) .. n) = IF l + 1 > n THEN 0 ELSE n - (l + 1) + 1
    BY <2>3, FS_Interval
  <2> HIDE DEF from
  <2> DEFINE k == Cardinality((l + 1) .. n)
  <2>5. k = IF l + 1 > n THEN 0 ELSE n - (l + 1) + 1
    BY <2>4
  <2> HIDE DEF k
  <2>6. k = n - l
    BY <1>1, <2>1, <2>5
  <2>7. Cardinality((l + 1) .. n) = n - l
    BY <2>6 DEF k
  <2> QED  BY <2>2, <2>7
<1>6. S!probe_last(since) = {l \in from : n - l < LastLines}
  BY <1>4, <1>5
<1> QED  BY <1>6 DEF f, n

LEMMA ProbeLastKeeps ==
    ASSUME SshInv, S!Probed(S!probe_last(S!sinceEpoch), "last")
    PROVE  SshInv'
<1> DEFINE f == host.first
           n == Len(host.times)
           since == S!sinceEpoch
           list == S!probe_last(since)
<1>1. /\ f \in Nat /\ n \in Nat /\ host.clock \in Nat /\ prober.poll \in Nat
      /\ host.date \in BOOLEAN /\ prober.seeded \in BOOLEAN
  BY SshFacts
<1>2. f > 0 /\ n <= MaxLogins /\ MaxLogins \in Nat /\ host.clock > 0
      /\ prober.poll <= host.clock /\ (~host.date => prober.poll = 0)
  BY SshAssumption DEF SshInv, HostInv
<1>3. since = IF prober.poll = 0 THEN 0 ELSE prober.poll - 1
  BY DEF S!sinceEpoch, S!SinceOverlap
<1>4. prober'.poll = (IF host.date THEN host.clock ELSE 0) /\ host' = host
      /\ prober'.snapshot = list
  BY ProbedFacts
<1>5. (S!sinceEpoch)' = IF prober'.poll = 0 THEN 0 ELSE prober'.poll - 1
  BY DEF S!sinceEpoch, S!SinceOverlap
<1>6. since \in Nat /\ (S!sinceEpoch)' \in Nat /\ since <= (S!sinceEpoch)'
  <2> HIDE DEF since
  <2> QED  BY <1>1, <1>2, <1>3, <1>4, <1>5
<1>7. list = {l \in f .. n : host.times[l] >= since /\ n - l < LastLines}
  <2>1. since \in Nat
    BY <1>6
  <2> QED  BY <2>1, LastListing
<1>8. S!Probed(list, "last")
  OBVIOUS
<1>9. \A l \in Logins : l \in Nat
  BY DEF Logins
<1>10. \A i \in 1 .. n : host.times[i] \in Nat
  BY SshFacts
<1>a. LastInv <=> \A l \in Logins : Old(l) /\ l >= f =>
                     l \in prober.snapshot \/ host.times[l] < since \/ n - l >= LastLines
  BY DEF LastInv
<1>b. LastInv' <=> \A l \in Logins : Old(l)' /\ l >= f =>
                     l \in list \/ host.times[l] < (S!sinceEpoch)' \/ n - l >= LastLines
  BY <1>4 DEF LastInv
<1>c. report.used \subseteq {"last"} => LastInv /\ S!Once
  BY DEF SshInv
<1>d. \A l \in list : l \in Nat /\ l >= f /\ l <= Len(host.times)
  BY <1>1, <1>7
<1> HIDE DEF f, n, since, list
<1>11. list \in SUBSET Logins
  BY <1>1, <1>2, <1>7 DEF Logins
<1>12. \A l \in list : ~(host.times[l] < since) /\ ~(n - l >= LastLines)
  <2> SUFFICES ASSUME NEW l \in list
               PROVE  ~(host.times[l] < since) /\ ~(n - l >= LastLines)
    OBVIOUS
  <2>1. l \in Nat /\ l \in 1 .. n /\ host.times[l] >= since /\ n - l < LastLines
    BY <1>1, <1>2, <1>7
  <2>2. host.times[l] \in Nat
    BY <1>10, <2>1
  <2> QED  BY <1>1, <1>6, <2>1, <2>2, SshAssumption
<1>13. report.used \subseteq {"last"} => \A l \in list : Old(l) => l \in prober.snapshot
  BY <1>a, <1>c, <1>d, <1>11, <1>12
<1>14. /\ SshType' /\ HostInv' /\ ProberInv'
       /\ report.used \subseteq {"last"} => (S!Once)'
       /\ \A l \in Logins : Old(l)' => l <= Len(host.times)
       /\ report'.used = report.used \cup {"last"}
  BY <1>c, <1>d, <1>8, <1>11, <1>13, ProbedKeeps
<1>15. LastInv'
  <2> SUFFICES ASSUME NEW l \in Logins, Old(l)', l >= f
               PROVE  l \in list \/ host.times[l] < (S!sinceEpoch)' \/ n - l >= LastLines
    BY <1>b
  <2>1. l \in Nat /\ l <= n
    BY <1>9, <1>14 DEF n
  <2>2. l \in f .. n /\ l \in 1 .. n
    BY <1>1, <1>2, <2>1
  <2>3. host.times[l] \in Nat
    BY <1>10, <2>2
  <2>4. n - l < LastLines \/ n - l >= LastLines
    BY <1>1, <2>1, SshAssumption
  <2>5. host.times[l] >= since \/ host.times[l] < (S!sinceEpoch)'
    BY <1>6, <2>3
  <2> QED  BY <1>7, <2>2, <2>4, <2>5
<1>16. report'.used \subseteq {"last"} => report.used \subseteq {"last"}
  BY <1>14
<1>17. ~(report'.used \subseteq {"wtmp"})
  <2>1. "last" \in report'.used
    BY <1>14
  <2> QED  BY <2>1
<1> QED  BY <1>14, <1>15, <1>16, <1>17 DEF SshInv

LEMMA SshStep == SshInv /\ [S!Next]_(S!sshVars) => SshInv'
<1> SUFFICES ASSUME SshInv, [S!Next]_(S!sshVars)
             PROVE  SshInv'
  OBVIOUS
<1>1. CASE S!Probe
  BY <1>1, ProbeWtmpKeeps, ProbeLastKeeps DEF S!Probe
<1>2. CASE UNCHANGED S!sshVars
  <2>1. UNCHANGED <<host, report>> /\ prober' = prober
    BY <1>2 DEF S!sshVars
  <2>2. prober.on \in BOOLEAN /\ prober.client \in BOOLEAN
        /\ prober = [prober EXCEPT !.on = prober.on, !.client = prober.client]
    BY DEF SshInv, SshType
  <2>3. prober' = [prober EXCEPT !.on = prober.on, !.client = prober.client]
    BY <2>1, <2>2
  <2> QED  BY <2>1, <2>2, <2>3, ConnectionKeeps
<1> QED  BY <1>1, <1>2, ServerKeeps, StartKeeps, MonitorKeeps DEF S!Next

\* A monitor that lists logins in one way reports no login twice and none from
\* before its first listing: for every number of logins, every rotation of the
\* file, every lost probe, and every overlap and tail as long as the tail the
\* script reads without a cursor is no shorter than the overlap.
THEOREM SshLoginsOnce == S!Spec => []SshLoginOnce
<1>1. SshInv => SshLoginOnce
  BY SshSays DEF SshLoginOnce
<1> QED
  BY SshInit, SshStep, <1>1, PTL DEF S!Spec

-----------------------------------------------------------------------------
(* AgentLogins: the inductive invariant *)

WatchType ==
    [started : BOOLEAN, startup : Nat, minTime : Nat, seeded : BOOLEAN, seen : Seq(Nat),
     offset : Nat, inode : Nat, layout : BOOLEAN, baseline : Nat]
AgentType ==
    /\ disk \in [inode : Nat, recs : Seq(Nat), writing : BOOLEAN, times : Seq(Nat),
                 clock : Nat, need : Nat]
    /\ watch \in WatchType
    /\ hub \in [link : BOOLEAN, wire : Seq(Nat), accepted : Nat, queue : Seq(Nat),
                batch : Seq(Nat), cache : {"expired", "on", "off"}, rule : BOOLEAN]
    /\ news \in [count : [1 .. MaxAgentLogins -> Nat], evicted : SUBSET Nat,
                 base : SUBSET Nat]

HostLogins == 1 .. Len(disk.times)
In(l, s) == \E i \in 1 .. Len(s) : s[i] = l
Flying(l) == In(l, hub.wire) \/ In(l, hub.queue) \/ In(l, hub.batch)

DiskInv ==
    /\ Len(disk.times) <= MaxAgentLogins
    /\ disk.writing => Len(disk.times) < MaxAgentLogins
    /\ \A l : In(l, disk.recs) => l \in HostLogins
    /\ \A l : Flying(l) => l \in HostLogins
    /\ \A l \in HostLogins : disk.times[l] >= 1
    /\ news.base \subseteq HostLogins
    /\ disk.inode >= 1 /\ disk.clock >= 1

\* Before its first scan a watcher has nothing.
FreshInv ==
    ~watch.started => /\ watch = A!NewWatch /\ news = A!NewNews
                      /\ \A l : ~Flying(l)

SentOnce(s) == \A i, j \in 1 .. Len(s) : i # j /\ s[i] = s[j] => s[i] \in news.evicted
Apart(s, t) == \A l : In(l, s) /\ In(l, t) => l \in news.evicted

\* A login is on its way once, and not any more once it was notified; whatever
\* was on its way has been seen.
FlightInv ==
    /\ SentOnce(hub.wire) /\ SentOnce(hub.queue) /\ SentOnce(hub.batch)
    /\ Apart(hub.wire, hub.queue) /\ Apart(hub.wire, hub.batch)
    /\ Apart(hub.queue, hub.batch)
    /\ \A l \in (1 .. MaxAgentLogins) \ news.evicted :
           /\ news.count[l] <= 1
           /\ Flying(l) => news.count[l] = 0
           /\ Flying(l) \/ news.count[l] > 0 => In(l, watch.seen)

Before(l) == l \in news.base \ news.evicted /\ disk.times[l] < watch.startup

\* A login from before the first scan is not on its way and cannot get there:
\* it was seen, or is not in the file, or its time is checked; while the
\* baseline was not read, it is part of it or the file was replaced.
BaseInv ==
    /\ watch.started /\ ~watch.seeded => watch.offset = 0 /\ watch.inode <= disk.inode
    /\ \A l : Before(l) =>
           /\ ~Flying(l) /\ news.count[l] = 0
           /\ watch.seeded => \/ In(l, watch.seen) \/ ~In(l, disk.recs)
                              \/ watch.minTime >= watch.startup
           /\ ~watch.seeded /\ watch.inode = disk.inode =>
                  \A i \in 1 .. Len(disk.recs) : disk.recs[i] = l => i <= watch.baseline

AgentInv == AgentType /\ DiskInv /\ FreshInv /\ FlightInv /\ BaseInv

LEMMA LeastNumber ==
    ASSUME NEW X \in SUBSET Nat, X # {}
    PROVE  \E x \in X : \A y \in X : x <= y
<1>1. PICK x \in X : \A y \in X : ~(<<y, x>> \in OpToRel(<, Nat))
  BY NatLessThanWellFounded, WFMin
<1>2. \A y \in X : ~(y < x)
  BY <1>1 DEF OpToRel
<1> QED  BY <1>2

\* What ingest has done after n records.
Ingested(seen, records, since, n, r) ==
    /\ r.seen \in Seq(Nat) /\ r.fresh \in Seq(Nat) /\ r.evicted \in SUBSET Nat
    /\ \A l : In(l, seen) => In(l, r.seen) \/ l \in r.evicted
    /\ \A i \in 1 .. n : \/ disk.times[records[i]] < since
                         \/ In(records[i], r.seen) \/ records[i] \in r.evicted
    /\ \A l : In(l, r.fresh) =>
           /\ \E i \in 1 .. n : records[i] = l
           /\ ~(disk.times[l] < since)
           /\ In(l, r.seen) \/ l \in r.evicted
           /\ ~In(l, seen) \/ l \in r.evicted
    /\ \A i, j \in 1 .. Len(r.fresh) :
           i # j /\ r.fresh[i] = r.fresh[j] => r.fresh[i] \in r.evicted

LEMMA InRange ==
    ASSUME NEW s \in Seq(Nat), NEW l
    PROVE  l \in A!Range(s) <=> In(l, s)
BY DEF A!Range, In

\* The start of ingest, and one record of it.
LEMMA IngestStarts ==
    ASSUME NEW seen \in Seq(Nat), NEW records, NEW since
    PROVE  Ingested(seen, records, since, 0,
                    [seen |-> seen, fresh |-> << >>, evicted |-> {}])
BY DEF Ingested, In

LEMMA IngestSkips ==
    ASSUME NEW seen, NEW records, NEW since, NEW n \in Nat, n > 0, NEW r,
           Ingested(seen, records, since, n - 1, r),
           disk.times[records[n]] < since
    PROVE  Ingested(seen, records, since, n, r)
<1>1. \A i \in 1 .. n : i \in 1 .. n - 1 \/ i = n
  OBVIOUS
<1>2. 1 .. n - 1 \subseteq 1 .. n
  OBVIOUS
<1> QED  BY <1>1, <1>2, Zenon DEF Ingested

LEMMA InAppend ==
    ASSUME NEW s \in Seq(Nat), NEW x \in Nat
    PROVE  /\ Append(s, x) \in Seq(Nat)
           /\ \A l : In(l, Append(s, x)) <=> In(l, s) \/ l = x
BY DEF In

\* The window splits into what is evicted and what stays.
LEMMA Evicts ==
    ASSUME NEW s \in Seq(Nat), NEW k \in Nat, k <= Len(s)
    PROVE  /\ SubSeq(s, k + 1, Len(s)) \in Seq(Nat)
           /\ SubSeq(s, 1, k) \in Seq(Nat)
           /\ \A l : In(l, s) <=> \/ In(l, SubSeq(s, k + 1, Len(s)))
                                  \/ In(l, SubSeq(s, 1, k))
<1> DEFINE a == SubSeq(s, k + 1, Len(s))
           b == SubSeq(s, 1, k)
<1>1. a \in Seq(Nat) /\ Len(a) = Len(s) - k /\ \A i \in 1 .. Len(a) : a[i] = s[k + i]
  OBVIOUS
<1>2. b \in Seq(Nat) /\ Len(b) = k /\ \A i \in 1 .. Len(b) : b[i] = s[i]
  OBVIOUS
<1>3. ASSUME NEW l, In(l, s)
      PROVE  In(l, a) \/ In(l, b)
  <2>1. PICK i \in 1 .. Len(s) : s[i] = l
    BY <1>3 DEF In
  <2>2. i <= k => In(l, b)
    BY <2>1, <1>2 DEF In
  <2>3. i > k => i - k \in 1 .. Len(a) /\ a[i - k] = l
    BY <2>1, <1>1
  <2>4. i > k => In(l, a)
    BY <2>3, Zenon DEF In
  <2> QED  BY <2>2, <2>4
<1>4. ASSUME NEW l, In(l, a) \/ In(l, b)
      PROVE  In(l, s)
  BY <1>1, <1>2, <1>4 DEF In
<1> QED  BY <1>1, <1>2, <1>3, <1>4

LEMMA IngestAdds ==
    ASSUME AgentAssumption,
           NEW seen, NEW records \in Seq(Nat), NEW since,
           NEW n \in 1 .. Len(records), NEW r,
           Ingested(seen, records, since, n - 1, r),
           ~(disk.times[records[n]] < since)
    PROVE  Ingested(seen, records, since, n, A!Ingest1(r, records[n]))
<1> DEFINE x == records[n]
           full == Len(r.seen) >= MaxSeen
           kept == IF full THEN SubSeq(r.seen, EvictCount + 1, Len(r.seen)) ELSE r.seen
           gone == IF full THEN A!Range(SubSeq(r.seen, 1, EvictCount)) ELSE {}
           q == A!Ingest1(r, x)
<1>1. \A i \in 1 .. n : i \in 1 .. n - 1 \/ i = n
  OBVIOUS
<1>2. 1 .. n - 1 \subseteq 1 .. n /\ n \in 1 .. n /\ x \in Nat
  OBVIOUS
<1>3. r.seen \in Seq(Nat) /\ r.fresh \in Seq(Nat) /\ r.evicted \in SUBSET Nat
  BY DEF Ingested
<1>4. CASE x \in A!Range(r.seen)
  <2>1. q = r /\ In(x, r.seen)
    BY <1>3, <1>4, InRange DEF A!Ingest1
  <2> QED  BY <1>1, <1>2, <2>1, Zenon DEF Ingested
<1>5. CASE x \notin A!Range(r.seen)
  <2>1. q.seen = Append(kept, x) /\ q.fresh = Append(r.fresh, x)
        /\ q.evicted = r.evicted \cup gone
    BY <1>5 DEF A!Ingest1
  <2>2. ~In(x, r.seen)
    BY <1>3, <1>5, InRange
  <2>3. kept \in Seq(Nat) /\ gone \in SUBSET Nat
        /\ \A l : In(l, r.seen) <=> In(l, kept) \/ l \in gone
    <3>1. CASE full
      <4>1. EvictCount \in Nat /\ EvictCount <= Len(r.seen)
        BY <1>3, <3>1 DEF AgentAssumption
      <4>2. SubSeq(r.seen, 1, EvictCount) \in Seq(Nat) /\ kept \in Seq(Nat)
        BY <1>3, <3>1, <4>1, Evicts
      <4>3. gone = A!Range(SubSeq(r.seen, 1, EvictCount))
        BY <3>1
      <4>4. gone \in SUBSET Nat
        BY <4>2, <4>3 DEF A!Range
      <4>5. \A l : l \in gone <=> In(l, SubSeq(r.seen, 1, EvictCount))
        BY <4>2, <4>3, InRange
      <4>6. \A l : In(l, r.seen) <=> \/ In(l, kept) \/ In(l, SubSeq(r.seen, 1, EvictCount))
        BY <1>3, <3>1, <4>1, Evicts
      <4> QED  BY <4>2, <4>4, <4>5, <4>6
    <3>2. CASE ~full
      BY <1>3, <3>2
    <3> QED  BY <3>1, <3>2
  <2> HIDE DEF kept, gone, x, q
  <2>4. q.seen \in Seq(Nat) /\ \A l : In(l, q.seen) <=> In(l, kept) \/ l = x
    BY <1>2, <2>1, <2>3, InAppend
  <2>5. q.fresh \in Seq(Nat) /\ \A l : In(l, q.fresh) <=> In(l, r.fresh) \/ l = x
    BY <1>2, <1>3, <2>1, InAppend
  <2>6. q.evicted \in SUBSET Nat
    BY <1>3, <2>1, <2>3
  <2>7. \A l : In(l, r.seen) \/ l \in r.evicted => In(l, q.seen) \/ l \in q.evicted
    BY <2>1, <2>3, <2>4
  <2>8. \A l : l \in r.evicted => l \in q.evicted
    BY <2>1
  <2>9. In(x, seen) => x \in q.evicted
    BY <2>2, <2>8, Zenon DEF Ingested
  <2>10. \A i \in 1 .. n : \/ disk.times[records[i]] < since
                          \/ In(records[i], q.seen) \/ records[i] \in q.evicted
    BY <1>1, <2>4, <2>7, Zenon DEF Ingested, x
  <2>11. ASSUME NEW l, In(l, q.fresh)
         PROVE  /\ \E i \in 1 .. n : records[i] = l
                /\ ~(disk.times[l] < since)
                /\ In(l, q.seen) \/ l \in q.evicted
                /\ ~In(l, seen) \/ l \in q.evicted
    <3>1. CASE In(l, r.fresh)
      BY <1>2, <2>7, <2>8, <3>1, Zenon DEF Ingested
    <3>2. CASE l = x
      BY <1>2, <2>4, <2>9, <3>2, Zenon DEF x
    <3> QED  BY <2>5, <2>11, <3>1, <3>2
  <2>12. ASSUME NEW i \in 1 .. Len(q.fresh), NEW j \in 1 .. Len(q.fresh), i # j,
                q.fresh[i] = q.fresh[j]
         PROVE  q.fresh[i] \in q.evicted
    <3>1. Len(q.fresh) = Len(r.fresh) + 1
          /\ \A k \in 1 .. Len(r.fresh) : q.fresh[k] = r.fresh[k]
          /\ q.fresh[Len(r.fresh) + 1] = x
      BY <1>2, <1>3, <2>1, SMTT(30)
    <3>2. In(x, r.fresh) => x \in q.evicted
      BY <2>2, <2>8, Zenon DEF Ingested
    <3>3. CASE i \in 1 .. Len(r.fresh) /\ j \in 1 .. Len(r.fresh)
      <4>1. r.fresh[i] = r.fresh[j]
        BY <2>12, <3>1, <3>3
      <4>2. r.fresh[i] \in r.evicted
        BY <2>12, <3>3, <4>1, Zenon DEF Ingested
      <4> QED  BY <2>8, <3>1, <3>3, <4>2
    <3>4. CASE i = Len(r.fresh) + 1 \/ j = Len(r.fresh) + 1
      <4>1. q.fresh[i] = x
        BY <2>12, <3>1, <3>4
      <4>2. i \in 1 .. Len(r.fresh) \/ j \in 1 .. Len(r.fresh)
        BY <1>3, <2>12, <3>1, <3>4
      <4>3. In(x, r.fresh)
        BY <2>12, <3>1, <4>1, <4>2 DEF In
      <4> QED  BY <3>2, <4>1, <4>3
    <3>5. Len(r.fresh) \in Nat /\ i \in 1 .. Len(r.fresh) + 1 /\ j \in 1 .. Len(r.fresh) + 1
      <4>1. Len(r.fresh) \in Nat
        BY <1>3
      <4> QED  BY <3>1, <4>1, Zenon
    <3>6. \A k \in 1 .. Len(r.fresh) + 1 : k \in 1 .. Len(r.fresh) \/ k = Len(r.fresh) + 1
      BY <3>5
    <3> QED  BY <3>3, <3>4, <3>5, <3>6
  <2>13. \A l : In(l, seen) => In(l, q.seen) \/ l \in q.evicted
    BY <2>7, Zenon DEF Ingested
  <2> QED  BY <2>4, <2>5, <2>6, <2>10, <2>11, <2>12, <2>13, Zenon DEF Ingested, q, x
<1> QED  BY <1>4, <1>5

\* ingest is a run over the records.
IngestStep(seen, records, since, acc, n) ==
    IF n = 0 THEN [seen |-> seen, fresh |-> << >>, evicted |-> {}]
    ELSE IF disk.times[records[n]] < since THEN acc[n - 1]
    ELSE A!Ingest1(acc[n - 1], records[n])
IngestRun(seen, records, since, m, acc) ==
    acc = [n \in 0 .. m |-> IngestStep(seen, records, since, acc, n)]

LEMMA IngestRuns ==
    ASSUME NEW seen, NEW records, NEW since, NEW m \in Nat
    PROVE  \E acc : IngestRun(seen, records, since, m, acc)
<1> DEFINE X == {k \in Nat : ~\E acc : IngestRun(seen, records, since, k, acc)}
<1> SUFFICES X = {}
  OBVIOUS
<1> SUFFICES ASSUME X # {}
             PROVE  FALSE
  OBVIOUS
<1>1. PICK k \in X : \A y \in X : k <= y
  <2> HIDE DEF X
  <2>1. X \in SUBSET Nat
    BY DEF X
  <2> QED  BY <2>1, LeastNumber
<1>2. CASE k = 0
  <2> DEFINE a == [n \in 0 .. 0 |-> [seen |-> seen, fresh |-> << >>, evicted |-> {}]]
  <2>1. IngestRun(seen, records, since, 0, a)
    BY DEF IngestRun, IngestStep
  <2> QED  BY <1>1, <1>2, <2>1
<1>3. CASE k # 0
  <2>1. k - 1 \in Nat /\ k - 1 \notin X
    BY <1>1, <1>3
  <2>2. PICK b : IngestRun(seen, records, since, k - 1, b)
    BY <2>1
  <2> DEFINE a == [n \in 0 .. k |-> IF n = k THEN IngestStep(seen, records, since, b, n)
                                    ELSE b[n]]
  <2>3. \A n \in 0 .. k : n # 0 => n - 1 \in 0 .. k /\ n - 1 # k
    BY <2>1
  <2>4. \A n \in 0 .. k : n # 0 => a[n - 1] = b[n - 1]
    BY <2>3
  <2>5. \A n \in 0 .. k : IngestStep(seen, records, since, a, n)
                         = IngestStep(seen, records, since, b, n)
    <3> HIDE DEF a
    <3> QED  BY <2>4 DEF IngestStep
  <2>6. \A n \in 0 .. k : n = k \/ n \in 0 .. k - 1
    BY <2>1
  <2>7. \A n \in 0 .. k - 1 : b[n] = IngestStep(seen, records, since, b, n)
    BY <2>2 DEF IngestRun
  <2>8. \A n \in 0 .. k : a[n] = IngestStep(seen, records, since, a, n)
    BY <2>5, <2>6, <2>7
  <2>9. IngestRun(seen, records, since, k, a)
    <3>1. a = [n \in 0 .. k |-> a[n]]
      OBVIOUS
    <3> HIDE DEF a
    <3> QED  BY <2>8, <3>1 DEF IngestRun
  <2> QED  BY <1>1, <2>9
<1> QED  BY <1>2, <1>3

LEMMA IngestIs ==
    ASSUME NEW seen, NEW records \in Seq(Nat), NEW since
    PROVE  \E acc : /\ IngestRun(seen, records, since, Len(records), acc)
                    /\ A!ingest(seen, records, since) = acc[Len(records)]
<1>1. Len(records) \in Nat
  OBVIOUS
<1>2. \E acc : IngestRun(seen, records, since, Len(records), acc)
  BY <1>1, IngestRuns
<1> QED  BY <1>2, Zenon DEF A!ingest, IngestRun, IngestStep

LEMMA IngestFacts ==
    ASSUME AgentAssumption,
           NEW seen \in Seq(Nat), NEW records \in Seq(Nat), NEW since
    PROVE  Ingested(seen, records, since, Len(records), A!ingest(seen, records, since))
<1>1. PICK acc : /\ IngestRun(seen, records, since, Len(records), acc)
                 /\ A!ingest(seen, records, since) = acc[Len(records)]
  BY IngestIs
<1> DEFINE X == {k \in 0 .. Len(records) : ~Ingested(seen, records, since, k, acc[k])}
<1>2. \A n \in 0 .. Len(records) : acc[n] = IngestStep(seen, records, since, acc, n)
  BY <1>1 DEF IngestRun
<1>3. X = {}
  <2> SUFFICES ASSUME X # {}
               PROVE  FALSE
    OBVIOUS
  <2>1. PICK k \in X : \A y \in X : k <= y
    <3>1. X \in SUBSET Nat
      OBVIOUS
    <3> HIDE DEF X
    <3> QED  BY <3>1, LeastNumber
  <2>2. CASE k = 0
    BY <1>2, <2>1, <2>2, IngestStarts DEF IngestStep
  <2>3. CASE k # 0
    <3>1. k \in 1 .. Len(records) /\ k \in Nat /\ k > 0 /\ k - 1 \in 0 .. Len(records)
          /\ k - 1 \notin X
      BY <2>1, <2>3
    <3>2. Ingested(seen, records, since, k - 1, acc[k - 1])
      BY <3>1
    <3>3. acc[k] = IF disk.times[records[k]] < since THEN acc[k - 1]
                   ELSE A!Ingest1(acc[k - 1], records[k])
      BY <1>2, <2>3, <3>1 DEF IngestStep
    <3>4. Ingested(seen, records, since, k, acc[k])
      <4>1. CASE disk.times[records[k]] < since
        BY <3>1, <3>2, <3>3, <4>1, IngestSkips
      <4>2. CASE ~(disk.times[records[k]] < since)
        BY <3>1, <3>2, <3>3, <4>2, IngestAdds
      <4> QED  BY <4>1, <4>2
    <3> QED  BY <2>1, <3>4
  <2> QED  BY <2>2, <2>3
<1>4. Len(records) \in 0 .. Len(records)
  OBVIOUS
<1> QED  BY <1>1, <1>3, <1>4

LEMMA AgentInit == AgentAssumption /\ A!Init => AgentInv
<1> SUFFICES ASSUME AgentAssumption, A!Init
             PROVE  AgentInv
  OBVIOUS
<1>1. PICK n \in 1 .. 2 :
        disk = [inode |-> 1, recs |-> << >>, writing |-> FALSE, times |-> << >>,
                clock |-> 1, need |-> n]
  BY DEF A!Init
<1>2. watch = A!NewWatch /\ hub = A!NewHub /\ news = A!NewNews
  BY DEF A!Init
<1>3. AgentType
  BY <1>1, <1>2 DEF AgentType, WatchType, A!NewWatch, A!NewHub, A!NewNews, AgentAssumption
<1>4. \A l : ~Flying(l)
  BY <1>2 DEF Flying, In, A!NewHub
<1>5. DiskInv
  BY <1>1, <1>2, <1>4 DEF DiskInv, In, HostLogins, A!NewNews, AgentAssumption
<1>6. FreshInv
  BY <1>2, <1>4 DEF FreshInv
<1>7. \A l \in 1 .. MaxAgentLogins : news.count[l] = 0
  BY <1>2 DEF A!NewNews
<1>8. FlightInv
  <2>1. SentOnce(hub.wire) /\ SentOnce(hub.queue) /\ SentOnce(hub.batch)
    BY <1>2 DEF SentOnce, A!NewHub
  <2>2. Apart(hub.wire, hub.queue) /\ Apart(hub.wire, hub.batch) /\ Apart(hub.queue, hub.batch)
    BY <1>4 DEF Apart, Flying
  <2> QED  BY <1>4, <1>7, <2>1, <2>2 DEF FlightInv
<1>9. BaseInv
  BY <1>2 DEF BaseInv, Before, A!NewWatch, A!NewNews
<1> QED  BY <1>3, <1>5, <1>6, <1>8, <1>9 DEF AgentInv

LEMMA AgentSays == AgentInv => A!AgentLoginOnce
<1> SUFFICES ASSUME AgentInv, NEW l \in (1 .. Len(disk.times)) \ news.evicted
             PROVE  /\ news.count[l] <= 1
                    /\ (l \in news.base /\ disk.times[l] < watch.startup) => news.count[l] = 0
  BY DEF A!AgentLoginOnce
<1>1. disk.times \in Seq(Nat) /\ Len(disk.times) <= MaxAgentLogins
  BY DEF AgentInv, AgentType, DiskInv
<1>2. l \in (1 .. MaxAgentLogins) \ news.evicted
  BY <1>1, AgentAssumption DEF AgentAssumption
<1>3. news.count[l] <= 1
  BY <1>2 DEF AgentInv, FlightInv
<1>4. (l \in news.base /\ disk.times[l] < watch.startup) => news.count[l] = 0
  BY DEF AgentInv, BaseInv, Before
<1> QED  BY <1>3, <1>4

\* The host changes the file and nothing else; what it adds is new.
LEMMA HostMoves ==
    ASSUME AgentInv, UNCHANGED <<watch, hub, news>>,
           disk' \in [inode : Nat, recs : Seq(Nat), writing : BOOLEAN, times : Seq(Nat),
                      clock : Nat, need : Nat],
           disk'.inode >= disk.inode, disk'.clock >= 1,
           Len(disk.times) <= Len(disk'.times), Len(disk'.times) <= MaxAgentLogins,
           disk'.writing => Len(disk'.times) < MaxAgentLogins,
           \A l \in 1 .. Len(disk.times) : disk'.times[l] = disk.times[l],
           \A l \in 1 .. Len(disk'.times) : disk'.times[l] >= 1,
           \A l : In(l, disk'.recs) => \/ In(l, disk.recs)
                                       \/ l \in HostLogins' \ HostLogins,
           disk'.inode = disk.inode =>
               \A i \in 1 .. Len(disk'.recs) :
                   \/ i \in 1 .. Len(disk.recs) /\ disk'.recs[i] = disk.recs[i]
                   \/ disk'.recs[i] \in HostLogins' \ HostLogins
    PROVE  AgentInv'
<1>1. AgentType'
  BY DEF AgentInv, AgentType
<1>2. HostLogins \subseteq HostLogins'
  BY DEF AgentInv, AgentType, HostLogins
<1>3. \A l : Flying(l)' <=> Flying(l)
  BY DEF Flying
<1>4. news.base \subseteq HostLogins
  BY DEF AgentInv, DiskInv
<1>5. DiskInv'
  <2>1. Len(disk'.times) <= MaxAgentLogins
        /\ (disk'.writing => Len(disk'.times) < MaxAgentLogins) /\ disk'.inode >= 1 /\ disk'.clock >= 1
    BY DEF AgentInv, AgentType, DiskInv
  <2>2. \A l : In(l, disk'.recs) => l \in HostLogins'
    BY <1>2 DEF AgentInv, DiskInv
  <2>3. \A l : Flying(l)' => l \in HostLogins'
    BY <1>2, <1>3 DEF AgentInv, DiskInv
  <2>4. \A l \in HostLogins' : disk'.times[l] >= 1
    BY DEF HostLogins
  <2>5. news'.base \subseteq HostLogins'
    BY <1>2, <1>4
  <2> QED  BY <2>1, <2>2, <2>3, <2>4, <2>5 DEF DiskInv
<1>6. FreshInv'
  BY <1>3 DEF AgentInv, FreshInv
<1>7. FlightInv'
  BY <1>3, Zenon DEF AgentInv, FlightInv, SentOnce, Apart
<1>8. \A l : Before(l)' => Before(l) /\ l \in HostLogins
  BY <1>4 DEF Before, HostLogins
<1>9. BaseInv'
  <2>1. watch.started /\ ~watch.seeded => watch.offset = 0 /\ watch.inode <= disk'.inode
    BY SMTT(30) DEF AgentInv, AgentType, WatchType, BaseInv
  <2>2. ASSUME NEW l, Before(l)'
        PROVE  /\ ~Flying(l)' /\ news'.count[l] = 0
               /\ watch'.seeded => \/ In(l, watch'.seen) \/ ~In(l, disk'.recs)
                                   \/ watch'.minTime >= watch'.startup
               /\ ~watch'.seeded /\ watch'.inode = disk'.inode =>
                  \A i \in 1 .. Len(disk'.recs) : disk'.recs[i] = l => i <= watch'.baseline
    <3>1. Before(l) /\ l \in HostLogins
      BY <1>8, <2>2
    <3>2. ~Flying(l)' /\ news'.count[l] = 0
      BY <1>3, <3>1 DEF AgentInv, BaseInv
    <3>3. In(l, disk'.recs) => In(l, disk.recs)
      BY <3>1
    <3>4. watch'.seeded => \/ In(l, watch'.seen) \/ ~In(l, disk'.recs)
                           \/ watch'.minTime >= watch'.startup
      BY <3>1, <3>3 DEF AgentInv, BaseInv
    <3>5. ASSUME ~watch'.seeded, watch'.inode = disk'.inode
          PROVE  \A i \in 1 .. Len(disk'.recs) : disk'.recs[i] = l => i <= watch'.baseline
      <4>1. watch.started
        BY <3>1 DEF AgentInv, FreshInv, A!NewNews, Before
      <4>2. watch.inode = disk.inode /\ disk'.inode = disk.inode
        BY <2>1, <3>5, <4>1 DEF AgentInv, AgentType, BaseInv
      <4> QED  BY <3>1, <3>5, <4>2 DEF AgentInv, BaseInv
    <3> QED  BY <3>2, <3>4, <3>5
  <2> QED  BY <2>1, <2>2 DEF BaseInv
<1> QED  BY <1>1, <1>5, <1>6, <1>7, <1>9 DEF AgentInv

LEMMA HostKeeps ==
    ASSUME AgentInv, A!Host
    PROVE  AgentInv'
<1> DEFINE DT == [inode : Nat, recs : Seq(Nat), writing : BOOLEAN, times : Seq(Nat),
                  clock : Nat, need : Nat]
<1>1. disk \in DT
  BY DEF AgentInv, AgentType
<1>2. UNCHANGED <<watch, hub, news>>
  BY DEF A!Host
<1>3. disk.inode >= 1 /\ disk.clock >= 1 /\ Len(disk.times) <= MaxAgentLogins
      /\ (disk.writing => Len(disk.times) < MaxAgentLogins)
      /\ \A l \in 1 .. Len(disk.times) : disk.times[l] >= 1
  BY DEF AgentInv, DiskInv, HostLogins
<1>a. disk.inode \in Nat /\ disk.recs \in Seq(Nat) /\ disk.writing \in BOOLEAN
      /\ disk.times \in Seq(Nat) /\ disk.clock \in Nat
  BY <1>1
<1>4. ASSUME NEW r \in Seq(Nat), NEW k \in Nat, k >= disk.inode,
             disk' = [disk EXCEPT !.inode = k, !.recs = r],
             \A l : In(l, r) => In(l, disk.recs),
             k = disk.inode => r = << >>
      PROVE  AgentInv'
  <2>1. disk' \in DT /\ disk'.inode = k /\ disk'.recs = r /\ disk'.times = disk.times
        /\ disk'.clock = disk.clock /\ disk'.writing = disk.writing
    BY <1>1, <1>4
  <2>2. Len(disk.times) <= Len(disk'.times)
    BY <1>1, <2>1
  <2>3. k = disk.inode => \A i \in 1 .. Len(r) : i \in 1 .. Len(disk.recs) /\ r[i] = disk.recs[i]
    BY <1>4
  <2> QED  BY <1>2, <1>3, <1>4, <2>1, <2>2, <2>3, HostMoves
<1>5. ASSUME NEW b \in BOOLEAN, NEW c \in Nat, c >= disk.clock,
             disk' = [disk EXCEPT !.writing = b, !.clock = c],
             b => Len(disk.times) < MaxAgentLogins
      PROVE  AgentInv'
  <2>1. disk' \in DT /\ disk'.inode = disk.inode /\ disk'.recs = disk.recs
        /\ disk'.times = disk.times /\ disk'.clock = c /\ disk'.writing = b
    BY <1>1, <1>5
  <2>2. Len(disk.times) <= Len(disk'.times) /\ c >= 1 /\ disk'.inode >= disk.inode
    BY <1>1, <1>3, <1>5, <2>1
  <2> QED  BY <1>2, <1>3, <1>5, <2>1, <2>2, HostMoves
<1>6. CASE A!LoginBegins
  <2>1. disk' = [disk EXCEPT !.writing = TRUE, !.clock = disk.clock]
        /\ Len(disk.times) < MaxAgentLogins
    BY <1>1, <1>6 DEF A!LoginBegins
  <2>2. disk.clock >= disk.clock
    BY <1>a
  <2> HIDE DEF DT
  <2> QED  BY <1>a, <1>5, <2>1, <2>2, Zenon
<1>7. CASE A!Tick
  <2>1. disk' = [disk EXCEPT !.writing = disk.writing, !.clock = disk.clock + 1]
    BY <1>1, <1>7 DEF A!Tick
  <2>2. disk.clock + 1 \in Nat /\ disk.clock + 1 >= disk.clock
    BY <1>a
  <2> HIDE DEF DT
  <2> QED  BY <1>a, <1>3, <1>5, <2>1, <2>2, Zenon
<1>8. CASE A!Truncate
  <2>1. disk' = [disk EXCEPT !.inode = disk.inode, !.recs = << >>]
    BY <1>1, <1>8 DEF A!Truncate
  <2>2. << >> \in Seq(Nat) /\ \A l : ~In(l, << >>)
    BY DEF In
  <2>3. disk.inode >= disk.inode
    BY <1>a
  <2> HIDE DEF DT
  <2> QED  BY <1>a, <1>4, <2>1, <2>2, <2>3, Zenon
<1>9. ASSUME NEW n \in 0 .. Len(disk.recs), A!Replace(n)
      PROVE  AgentInv'
  <2> DEFINE r == SubSeq(disk.recs, Len(disk.recs) - n + 1, Len(disk.recs))
  <2>1. disk' = [disk EXCEPT !.inode = disk.inode + 1, !.recs = r]
    BY <1>1, <1>9 DEF A!Replace
  <2>2. r \in Seq(Nat) /\ \A l : In(l, r) => In(l, disk.recs)
    <3> DEFINE k == Len(disk.recs) - n
    <3>1. disk.recs \in Seq(Nat) /\ k \in Nat /\ k <= Len(disk.recs)
      BY <1>1
    <3> HIDE DEF k
    <3>2. SubSeq(disk.recs, k + 1, Len(disk.recs)) \in Seq(Nat)
          /\ \A l : In(l, SubSeq(disk.recs, k + 1, Len(disk.recs))) => In(l, disk.recs)
      BY <3>1, Evicts
    <3> QED  BY <3>2 DEF k
  <2>3. disk.inode + 1 \in Nat /\ disk.inode + 1 >= disk.inode
        /\ disk.inode + 1 # disk.inode
    BY <1>a
  <2> HIDE DEF r, DT
  <2> QED  BY <1>4, <2>1, <2>2, <2>3, Zenon
<1>10. CASE A!LoginEnds
  <2> DEFINE x == Len(disk.times) + 1
  <2>1. disk' \in DT /\ disk'.inode = disk.inode /\ disk'.recs = Append(disk.recs, x)
        /\ disk'.times = Append(disk.times, disk.clock) /\ disk'.clock = disk.clock
        /\ disk'.writing = FALSE
    <3>1. disk' = [disk EXCEPT !.writing = FALSE, !.recs = Append(disk.recs, x),
                               !.times = Append(disk.times, disk.clock)]
      BY <1>1, <1>10 DEF A!LoginEnds
    <3>2. Append(disk.recs, x) \in Seq(Nat) /\ Append(disk.times, disk.clock) \in Seq(Nat)
      BY <1>a
    <3> HIDE DEF x
    <3> QED  BY <1>1, <3>1, <3>2
  <2>2. Len(disk.times) \in Nat /\ Len(disk'.times) = Len(disk.times) + 1
        /\ Len(disk.times) < MaxAgentLogins
    BY <1>a, <1>3, <1>10, <2>1 DEF A!LoginEnds
  <2>3. Len(disk.times) <= Len(disk'.times) /\ Len(disk'.times) <= MaxAgentLogins
    BY <2>2, AgentAssumption DEF AgentAssumption
  <2>4. /\ \A l \in 1 .. Len(disk.times) : disk'.times[l] = disk.times[l]
        /\ disk'.times[x] = disk.clock
    BY <1>a, <2>1
  <2>5. \A l \in 1 .. Len(disk'.times) : l \in 1 .. Len(disk.times) \/ l = x
    BY <2>2
  <2>6. \A l \in 1 .. Len(disk'.times) : disk'.times[l] >= 1
    BY <1>3, <2>4, <2>5
  <2>7. x \in HostLogins' \ HostLogins /\ x \in Nat
    BY <2>2 DEF HostLogins
  <2>8. Len(disk'.recs) = Len(disk.recs) + 1 /\ Len(disk.recs) \in Nat
        /\ disk'.recs[Len(disk.recs) + 1] = x
        /\ \A i \in 1 .. Len(disk.recs) : disk'.recs[i] = disk.recs[i]
    BY <1>a, <2>1, <2>7
  <2>9. \A i \in 1 .. Len(disk'.recs) : i \in 1 .. Len(disk.recs) \/ i = Len(disk.recs) + 1
    BY <2>8
  <2> HIDE DEF x, DT
  <2>10. \A i \in 1 .. Len(disk'.recs) :
            \/ i \in 1 .. Len(disk.recs) /\ disk'.recs[i] = disk.recs[i]
            \/ disk'.recs[i] \in HostLogins' \ HostLogins
    BY <2>7, <2>8, <2>9
  <2>11. \A l : In(l, disk'.recs) => In(l, disk.recs) \/ l \in HostLogins' \ HostLogins
    BY <1>a, <2>1, <2>7, InAppend
  <2>12. disk'.inode >= disk.inode /\ disk'.clock >= 1
    BY <1>a, <1>3, <2>1
  <2> QED  BY <1>2, <2>1, <2>3, <2>4, <2>6, <2>10, <2>11, <2>12, HostMoves DEF DT
<1>11. A!LoginBegins \/ A!LoginEnds \/ A!Tick \/ A!Truncate
       \/ \E n \in 0 .. Len(disk.recs) : A!Replace(n)
  BY Zenon DEF A!Host
<1> QED  BY <1>6, <1>7, <1>8, <1>9, <1>10, <1>11, Zenon

\* Steps of the connection and of its reporter: what they hold moves on or is
\* dropped.
HubMoves ==
    /\ hub' \in [link : BOOLEAN, wire : Seq(Nat), accepted : Nat, queue : Seq(Nat),
                 batch : Seq(Nat), cache : {"expired", "on", "off"}, rule : BOOLEAN]
    /\ \A l : Flying(l)' => Flying(l)
    /\ SentOnce(hub'.wire) /\ SentOnce(hub'.queue) /\ SentOnce(hub'.batch)
    /\ Apart(hub'.wire, hub'.queue) /\ Apart(hub'.wire, hub'.batch)
    /\ Apart(hub'.queue, hub'.batch)

LEMMA HubKeeps ==
    ASSUME AgentInv, UNCHANGED <<disk, watch, news>>, HubMoves
    PROVE  AgentInv'
<1>1. AgentType'
  BY DEF AgentInv, AgentType, HubMoves
<1>2. DiskInv'
  BY DEF AgentInv, DiskInv, HubMoves, HostLogins
<1>3. FreshInv'
  BY DEF AgentInv, FreshInv, HubMoves
<1>4. FlightInv'
  <2>1. SentOnce(hub.wire)' /\ SentOnce(hub.queue)' /\ SentOnce(hub.batch)'
        /\ Apart(hub.wire, hub.queue)' /\ Apart(hub.wire, hub.batch)'
        /\ Apart(hub.queue, hub.batch)'
    BY Zenon DEF HubMoves, SentOnce, Apart
  <2> QED  BY <2>1, Zenon DEF AgentInv, FlightInv, HubMoves
<1>5. BaseInv'
  BY DEF AgentInv, BaseInv, HubMoves, Before
<1> QED  BY <1>1, <1>2, <1>3, <1>4, <1>5 DEF AgentInv

LEMMA InEmpty == \A l : ~In(l, << >>)
BY DEF In

LEMMA InTail ==
    ASSUME NEW s \in Seq(Nat), s # << >>
    PROVE  /\ Tail(s) \in Seq(Nat) /\ Head(s) \in Nat
           /\ In(Head(s), s)
           /\ \A l : In(l, Tail(s)) => In(l, s)
           /\ SentOnce(s) => SentOnce(Tail(s))
           /\ SentOnce(s) /\ In(Head(s), Tail(s)) => Head(s) \in news.evicted
<1>1. Tail(s) \in Seq(Nat) /\ Head(s) = s[1] /\ Len(s) \in Nat /\ Len(s) > 0
      /\ Len(Tail(s)) = Len(s) - 1
      /\ \A i \in 1 .. Len(s) - 1 : Tail(s)[i] = s[i + 1] /\ i + 1 \in 1 .. Len(s) /\ i + 1 # 1
  OBVIOUS
<1>2. 1 \in 1 .. Len(s) /\ Head(s) \in Nat
  BY <1>1
<1>3. \A l : In(l, Tail(s)) => In(l, s)
  BY <1>1 DEF In
<1>4. In(Head(s), s)
  BY <1>1, <1>2 DEF In
<1>5. ASSUME SentOnce(s)
      PROVE  SentOnce(Tail(s))
  BY <1>1, <1>5 DEF SentOnce
<1>6. ASSUME SentOnce(s), In(Head(s), Tail(s))
      PROVE  Head(s) \in news.evicted
  BY <1>1, <1>2, <1>6 DEF SentOnce, In
<1> QED  BY <1>1, <1>2, <1>3, <1>4, <1>5, <1>6

LEMMA OnceAppend ==
    ASSUME NEW s \in Seq(Nat), NEW x \in Nat, SentOnce(s), In(x, s) => x \in news.evicted
    PROVE  SentOnce(Append(s, x))
<1> DEFINE t == Append(s, x)
<1>1. Len(t) = Len(s) + 1 /\ Len(s) \in Nat /\ t[Len(s) + 1] = x
      /\ \A i \in 1 .. Len(s) : t[i] = s[i]
  OBVIOUS
<1>2. \A i \in 1 .. Len(t) : i \in 1 .. Len(s) \/ i = Len(s) + 1
  BY <1>1
<1> SUFFICES ASSUME NEW i \in 1 .. Len(t), NEW j \in 1 .. Len(t), i # j, t[i] = t[j]
             PROVE  t[i] \in news.evicted
  BY DEF SentOnce
<1> HIDE DEF t
<1>3. CASE i \in 1 .. Len(s) /\ j \in 1 .. Len(s)
  BY <1>1, <1>3 DEF SentOnce
<1>4. CASE i = Len(s) + 1 \/ j = Len(s) + 1
  <2>1. t[i] = x /\ (i \in 1 .. Len(s) \/ j \in 1 .. Len(s))
    BY <1>1, <1>2, <1>4
  <2>2. In(x, s)
    BY <1>1, <2>1 DEF In
  <2> QED  BY <2>1, <2>2
<1> QED  BY <1>2, <1>3, <1>4

LEMMA NewHubType ==
    ASSUME NEW a \in BOOLEAN, NEW c \in BOOLEAN
    PROVE  [link |-> a, wire |-> << >>, accepted |-> 0, queue |-> << >>,
            batch |-> << >>, cache |-> "expired", rule |-> c]
           \in [link : BOOLEAN, wire : Seq(Nat), accepted : Nat, queue : Seq(Nat),
                batch : Seq(Nat), cache : {"expired", "on", "off"}, rule : BOOLEAN]
OBVIOUS

LEMMA NewHubKeeps ==
    ASSUME AgentInv, UNCHANGED <<disk, watch, news>>, NEW b \in BOOLEAN,
           hub' = [A!NewHub EXCEPT !.rule = hub.rule, !.link = b]
    PROVE  AgentInv'
<1>1. hub.rule \in BOOLEAN
  BY DEF AgentInv, AgentType
<1>2. hub'.wire = << >> /\ hub'.queue = << >> /\ hub'.batch = << >>
  BY DEF A!NewHub
<1>3. \A l : ~Flying(l)'
  BY <1>2, InEmpty DEF Flying
<1>4. SentOnce(<< >>) /\ Apart(<< >>, << >>)
  BY DEF SentOnce, Apart, In
<1>5. hub' \in [link : BOOLEAN, wire : Seq(Nat), accepted : Nat, queue : Seq(Nat),
                batch : Seq(Nat), cache : {"expired", "on", "off"}, rule : BOOLEAN]
  <2>1. hub' = [link |-> b, wire |-> << >>, accepted |-> 0, queue |-> << >>,
                batch |-> << >>, cache |-> "expired", rule |-> hub.rule]
    BY DEF A!NewHub
  <2> QED  BY <1>1, <2>1, NewHubType
<1>6. HubMoves
  BY <1>2, <1>3, <1>4, <1>5, Zenon DEF HubMoves
<1> QED  BY <1>6, HubKeeps

LEMMA ReporterKeeps ==
    ASSUME AgentInv,
           A!Connect \/ A!Disconnect \/ A!submitAt \/ A!WindowEnds \/ A!CacheExpires
           \/ A!SetRule \/ A!Drain
    PROVE  AgentInv'
<1> DEFINE HT == [link : BOOLEAN, wire : Seq(Nat), accepted : Nat, queue : Seq(Nat),
                  batch : Seq(Nat), cache : {"expired", "on", "off"}, rule : BOOLEAN]
<1>1. hub \in HT
  BY DEF AgentInv, AgentType
<1>2. UNCHANGED <<disk, watch, news>>
  BY DEF A!Connect, A!Disconnect, A!submitAt, A!WindowEnds, A!CacheExpires, A!SetRule, A!Drain
<1>3. SentOnce(hub.wire) /\ SentOnce(hub.queue) /\ SentOnce(hub.batch)
      /\ Apart(hub.wire, hub.queue) /\ Apart(hub.wire, hub.batch)
      /\ Apart(hub.queue, hub.batch)
  BY DEF AgentInv, FlightInv
<1>4. hub.wire \in Seq(Nat) /\ hub.queue \in Seq(Nat) /\ hub.batch \in Seq(Nat)
  BY <1>1
<1>5. CASE A!Connect \/ A!Disconnect
  <2>1. \E b \in BOOLEAN : hub' = [A!NewHub EXCEPT !.rule = hub.rule, !.link = b]
    BY <1>5 DEF A!Connect, A!Disconnect, A!NewHub
  <2> QED  BY <1>2, <2>1, NewHubKeeps
<1>6. CASE A!submitAt
  <2> DEFINE h == Head(hub.wire)
             w == Tail(hub.wire)
  <2>1. hub.wire # << >> /\ hub' \in HT /\ hub'.wire = w /\ hub'.batch = hub.batch
        /\ hub'.queue \in {hub.queue, Append(hub.queue, h)}
    <3>1. PICK q, n :
            /\ hub' = [hub EXCEPT !.wire = w, !.queue = q, !.accepted = n]
            /\ q \in {hub.queue, Append(hub.queue, h)} /\ n \in {hub.accepted, hub.accepted + 1}
      BY <1>1, <1>6 DEF A!submitAt
    <3>2. hub.wire # << >>
      BY <1>6 DEF A!submitAt
    <3>3. w \in Seq(Nat) /\ h \in Nat
      BY <1>4, <3>2
    <3> HIDE DEF w, h
    <3>4. q \in Seq(Nat) /\ n \in Nat
      <4>1. hub.accepted \in Nat
        BY <1>1
      <4>2. Append(hub.queue, h) \in Seq(Nat)
        BY <1>4, <3>3, InAppend
      <4>3. n \in Nat
        BY <3>1, <4>1
      <4> QED  BY <1>4, <3>1, <4>2, <4>3
    <3> QED  BY <1>1, <3>1, <3>2, <3>3, <3>4
  <2>2. h \in Nat /\ In(h, hub.wire) /\ (\A l : In(l, w) => In(l, hub.wire)) /\ SentOnce(w)
        /\ (In(h, w) => h \in news.evicted)
    BY <1>3, <1>4, <2>1, InTail
  <2> HIDE DEF h, w
  <2>3. \A l : In(l, hub'.queue) => In(l, hub.queue) \/ l = h
    BY <1>4, <2>1, <2>2, InAppend
  <2>4. In(h, hub.queue) \/ In(h, hub.batch) => h \in news.evicted
    BY <1>3, <2>2 DEF Apart
  <2>5. SentOnce(hub'.queue)
    BY <1>3, <1>4, <2>1, <2>2, <2>4, OnceAppend
  <2>6. Apart(hub'.wire, hub'.queue) /\ Apart(hub'.wire, hub'.batch)
        /\ Apart(hub'.queue, hub'.batch)
    BY <1>3, <2>1, <2>2, <2>3, <2>4 DEF Apart
  <2>7. \A l : Flying(l)' => Flying(l)
    BY <2>1, <2>2, <2>3 DEF Flying
  <2>8. HubMoves
    BY <1>3, <2>1, <2>2, <2>5, <2>6, <2>7 DEF HubMoves
  <2> QED  BY <1>2, <2>8, HubKeeps
<1>7. CASE A!WindowEnds \/ A!CacheExpires \/ A!SetRule
  <2>1. hub' \in HT /\ hub'.wire = hub.wire /\ hub'.queue = hub.queue
        /\ hub'.batch = hub.batch
    <3>1. CASE A!WindowEnds
      BY <1>1, <3>1 DEF A!WindowEnds
    <3>2. CASE A!CacheExpires
      BY <1>1, <3>2 DEF A!CacheExpires
    <3>3. CASE A!SetRule
      <4>1. PICK b \in BOOLEAN : hub' = [hub EXCEPT !.rule = b]
        BY <3>3, Zenon DEF A!SetRule
      <4> QED  BY <1>1, <4>1
    <3> QED  BY <1>7, <3>1, <3>2, <3>3
  <2>2. HubMoves
    BY <1>3, <2>1 DEF HubMoves, Flying
  <2> QED  BY <1>2, <2>2, HubKeeps
<1>8. CASE A!Drain
  <2>1. hub' \in HT /\ hub'.wire = hub.wire /\ hub'.queue = << >>
        /\ hub'.batch \in {hub.queue, << >>}
    BY <1>1, <1>8 DEF A!Drain
  <2>2. SentOnce(<< >>) /\ \A s : Apart(s, << >>) /\ Apart(<< >>, s)
    BY DEF SentOnce, Apart, In
  <2>3. HubMoves
    BY <1>3, <2>1, <2>2, InEmpty DEF HubMoves, Flying
  <2> QED  BY <1>2, <2>3, HubKeeps
<1> QED  BY <1>5, <1>6, <1>7, <1>8

LEMMA NotifyKeeps ==
    ASSUME AgentInv, A!NotifyLogin
    PROVE  AgentInv'
<1> DEFINE h == Head(hub.batch)
           b == Tail(hub.batch)
           HT == [link : BOOLEAN, wire : Seq(Nat), accepted : Nat, queue : Seq(Nat),
                  batch : Seq(Nat), cache : {"expired", "on", "off"}, rule : BOOLEAN]
           NT == [count : [1 .. MaxAgentLogins -> Nat], evicted : SUBSET Nat,
                  base : SUBSET Nat]
<1>1. hub \in HT /\ news \in NT /\ hub.batch \in Seq(Nat)
  BY DEF AgentInv, AgentType
<1>2. UNCHANGED <<disk, watch>> /\ hub.batch # << >>
      /\ hub' = [hub EXCEPT !.batch = b]
      /\ news' = [news EXCEPT !.count = [news.count EXCEPT ![h] = @ + 1]]
  BY <1>1 DEF A!NotifyLogin
<1>3. b \in Seq(Nat) /\ h \in Nat /\ In(h, hub.batch) /\ (\A l : In(l, b) => In(l, hub.batch))
      /\ (SentOnce(hub.batch) => SentOnce(b))
      /\ (SentOnce(hub.batch) /\ In(h, b) => h \in news.evicted)
  BY <1>1, <1>2, InTail
<1>4. SentOnce(hub.wire) /\ SentOnce(hub.queue) /\ SentOnce(hub.batch)
      /\ Apart(hub.wire, hub.queue) /\ Apart(hub.wire, hub.batch)
      /\ Apart(hub.queue, hub.batch)
  BY DEF AgentInv, FlightInv
<1> HIDE DEF h, b
<1>5. hub' \in HT /\ hub'.wire = hub.wire /\ hub'.queue = hub.queue /\ hub'.batch = b
  BY <1>1, <1>2, <1>3
<1>6. Flying(h)
  BY <1>3 DEF Flying
<1>7. h \in HostLogins /\ h \in 1 .. MaxAgentLogins
  BY <1>6, AgentAssumption DEF AgentInv, AgentType, DiskInv, HostLogins, AgentAssumption
<1>8. news' \in NT /\ news'.evicted = news.evicted /\ news'.base = news.base
      /\ news'.count[h] = news.count[h] + 1
      /\ \A l \in 1 .. MaxAgentLogins : l # h => news'.count[l] = news.count[l]
  <2> DEFINE c == [news.count EXCEPT ![h] = @ + 1]
  <2>1. news.count \in [1 .. MaxAgentLogins -> Nat]
    BY <1>1
  <2>2. c \in [1 .. MaxAgentLogins -> Nat] /\ c[h] = news.count[h] + 1
        /\ \A l \in 1 .. MaxAgentLogins : l # h => c[l] = news.count[l]
    <3>1. c = [news.count EXCEPT ![h] = news.count[h] + 1]
      BY Zenon
    <3> HIDE DEF c
    <3>2. h \in 1 .. MaxAgentLogins
      BY <1>7
    <3>3. news.count[h] + 1 \in Nat
      <4>1. news.count[h] \in Nat
        BY <2>1, <3>2, Zenon
      <4> QED  BY <4>1
    <3>4. c \in [1 .. MaxAgentLogins -> Nat]
      BY <2>1, <3>1, <3>2, <3>3
    <3>5. c[h] = news.count[h] + 1
      BY <2>1, <3>1, <3>2
    <3>6. \A l \in 1 .. MaxAgentLogins : l # h => c[l] = news.count[l]
      BY <2>1, <3>1
    <3> QED  BY <3>4, <3>5, <3>6
  <2> HIDE DEF c
  <2>3. news' = [news EXCEPT !.count = c]
    BY <1>2 DEF c
  <2>4. news' \in NT /\ news'.evicted = news.evicted /\ news'.base = news.base
        /\ news'.count = c
    BY <1>1, <2>2, <2>3
  <2> QED  BY <2>2, <2>4
<1> HIDE DEF HT, NT
<1>9. \A l : Flying(l)' => Flying(l) /\ (l = h => h \in news.evicted)
  BY <1>3, <1>4, <1>5 DEF Flying, Apart
<1>10. AgentType'
  BY <1>2, <1>5, <1>8 DEF AgentInv, AgentType, HT, NT
<1>11. DiskInv'
  BY <1>2, <1>8, <1>9 DEF AgentInv, DiskInv, HostLogins
<1>12. watch.started
  BY <1>6 DEF AgentInv, FreshInv
<1>13. FreshInv'
  BY <1>2, <1>12 DEF FreshInv
<1>14. FlightInv'
  <2>1. SentOnce(hub.wire)' /\ SentOnce(hub.queue)' /\ SentOnce(hub.batch)'
        /\ Apart(hub.wire, hub.queue)' /\ Apart(hub.wire, hub.batch)'
        /\ Apart(hub.queue, hub.batch)'
    <3>1. SentOnce(hub'.wire) /\ SentOnce(hub'.queue) /\ SentOnce(hub'.batch)
      BY <1>3, <1>4, <1>5
    <3>2. Apart(hub'.wire, hub'.queue) /\ Apart(hub'.wire, hub'.batch)
          /\ Apart(hub'.queue, hub'.batch)
      BY <1>3, <1>4, <1>5 DEF Apart
    <3> QED  BY <1>8, <3>1, <3>2 DEF SentOnce, Apart
  <2>2. ASSUME NEW l \in (1 .. MaxAgentLogins) \ news'.evicted
        PROVE  /\ news'.count[l] <= 1
               /\ Flying(l)' => news'.count[l] = 0
               /\ Flying(l)' \/ news'.count[l] > 0 => In(l, watch'.seen)
    <3>1. l \notin news.evicted /\ l \in 1 .. MaxAgentLogins
      BY <1>8
    <3>2. /\ news.count[l] <= 1
          /\ Flying(l) => news.count[l] = 0
          /\ Flying(l) \/ news.count[l] > 0 => In(l, watch.seen)
      BY <3>1 DEF AgentInv, FlightInv
    <3>3. CASE l = h
      <4>1. news.count[l] = 0 /\ In(l, watch.seen) /\ ~Flying(l)'
        BY <1>6, <1>9, <3>1, <3>2, <3>3
      <4>2. news'.count[l] = 1
        BY <1>8, <3>3, <4>1
      <4> QED  BY <1>2, <4>1, <4>2
    <3>4. CASE l # h
      <4>1. news'.count[l] = news.count[l]
        BY <1>8, <3>1, <3>4
      <4> QED  BY <1>2, <1>9, <3>2, <4>1
    <3> QED  BY <3>3, <3>4
  <2> QED  BY <2>1, <2>2 DEF FlightInv
<1>15. BaseInv'
  <2>1. \A l : Before(l)' => Before(l)
    BY <1>2, <1>8 DEF Before
  <2>2. ~Before(h)
    BY <1>6 DEF AgentInv, BaseInv
  <2>3. \A l : Before(l) => l \in 1 .. MaxAgentLogins
    BY AgentAssumption DEF Before, AgentInv, AgentType, DiskInv, HostLogins, AgentAssumption
  <2>4. \A l : Before(l)' => ~Flying(l)' /\ news'.count[l] = 0
    BY <1>8, <1>9, <2>1, <2>2, <2>3 DEF AgentInv, BaseInv
  <2> QED  BY <1>2, <2>1, <2>4 DEF AgentInv, BaseInv
<1> QED  BY <1>10, <1>11, <1>13, <1>14, <1>15 DEF AgentInv

LEMMA RestartAgentKeeps ==
    ASSUME AgentInv, A!RestartAgent
    PROVE  AgentInv'
<1>1. disk' = disk /\ watch' = A!NewWatch /\ news' = A!NewNews
      /\ hub' = [A!NewHub EXCEPT !.rule = hub.rule]
  BY DEF A!RestartAgent
<1>2. hub.rule \in BOOLEAN
  BY DEF AgentInv, AgentType
<1>3. hub'.wire = << >> /\ hub'.queue = << >> /\ hub'.batch = << >>
  BY <1>1 DEF A!NewHub
<1>4. \A l : ~Flying(l)'
  BY <1>3, InEmpty DEF Flying
<1>5. AgentType'
  <2>1. hub' = [link |-> FALSE, wire |-> << >>, accepted |-> 0, queue |-> << >>,
                batch |-> << >>, cache |-> "expired", rule |-> hub.rule]
    BY <1>1 DEF A!NewHub
  <2>3. hub' \in [link : BOOLEAN, wire : Seq(Nat), accepted : Nat, queue : Seq(Nat),
                  batch : Seq(Nat), cache : {"expired", "on", "off"}, rule : BOOLEAN]
    BY <1>2, <2>1, NewHubType
  <2>4. watch' \in WatchType
    BY <1>1 DEF A!NewWatch, WatchType
  <2>5. news' \in [count : [1 .. MaxAgentLogins -> Nat], evicted : SUBSET Nat,
                   base : SUBSET Nat]
    BY <1>1 DEF A!NewNews
  <2> QED  BY <1>1, <2>3, <2>4, <2>5 DEF AgentInv, AgentType
<1>6. DiskInv'
  BY <1>1, <1>4 DEF AgentInv, DiskInv, HostLogins, A!NewNews
<1>7. FreshInv'
  BY <1>1, <1>4 DEF FreshInv
<1>8. FlightInv'
  <2>1. \A l \in 1 .. MaxAgentLogins : news'.count[l] = 0
    BY <1>1 DEF A!NewNews
  <2>2. SentOnce(hub.wire)' /\ SentOnce(hub.queue)' /\ SentOnce(hub.batch)'
    BY <1>3 DEF SentOnce
  <2>3. Apart(hub.wire, hub.queue)' /\ Apart(hub.wire, hub.batch)'
        /\ Apart(hub.queue, hub.batch)'
    BY <1>3, InEmpty DEF Apart
  <2> QED  BY <1>4, <2>1, <2>2, <2>3 DEF FlightInv
<1>9. BaseInv'
  BY <1>1 DEF BaseInv, Before, A!NewWatch, A!NewNews
<1> QED  BY <1>5, <1>6, <1>7, <1>8, <1>9 DEF AgentInv

\* The watcher at the beginning of a scan, once a rotation was noticed and the
\* first scan has taken the time: a login from before the first scan was seen,
\* or is not in the file, or its time is checked, or it is in the baseline.
Begun(w, data, base) ==
    /\ w \in WatchType
    /\ data \in Seq(Nat) /\ \A l : In(l, data) => In(l, disk.recs)
    /\ w.started /\ w.inode = disk.inode /\ w.seen = watch.seen
    /\ base \subseteq HostLogins
    /\ ~w.seeded => w.offset = 0 /\ data = disk.recs
    /\ \A l \in base \ news.evicted : disk.times[l] < w.startup =>
           /\ ~Flying(l) /\ news.count[l] = 0
           /\ w.seeded => \/ In(l, watch.seen) \/ ~In(l, disk.recs)
                          \/ w.minTime >= w.startup
           /\ ~w.seeded => \A i \in 1 .. Len(data) : data[i] = l => i <= w.baseline

\* The steps of a scan: the watcher after a rotation, the data, and the watcher
\* that has started.
AfterRotation(w, n) == [A!Rotated(w) EXCEPT !.inode = n]
Scan0 == [IF A!utmpRotated THEN A!Rotated(watch) ELSE watch EXCEPT !.inode = disk.inode]
ScanData == A!parseUtmpRecords(Scan0.offset)
Scan1 == A!Started(Scan0, ScanData)
ScanBase == IF watch.started THEN news.base ELSE A!Range(ScanData)

LEMMA WatchIs ==
    ASSUME NEW a \in BOOLEAN, NEW b \in Nat, NEW c \in Nat, NEW d \in BOOLEAN,
           NEW e \in Seq(Nat), NEW f \in Nat, NEW g \in Nat, NEW h \in BOOLEAN,
           NEW i \in Nat
    PROVE  [started |-> a, startup |-> b, minTime |-> c, seeded |-> d, seen |-> e,
            offset |-> f, inode |-> g, layout |-> h, baseline |-> i] \in WatchType
BY Zenon DEF WatchType

LEMMA RotatedShape ==
    ASSUME NEW w \in WatchType, NEW n \in Nat, NEW m \in Nat, NEW d \in BOOLEAN,
           A!Rotated(w) = [w EXCEPT !.offset = 0, !.layout = FALSE, !.baseline = 0,
                                    !.minTime = m, !.seeded = d]
    PROVE  AfterRotation(w, n)
           = [started |-> w.started, startup |-> w.startup, minTime |-> m, seeded |-> d,
              seen |-> w.seen, offset |-> 0, inode |-> n, layout |-> FALSE, baseline |-> 0]
<1>1. PICK r : r = A!Rotated(w)
  OBVIOUS
<1>2. PICK v : v = AfterRotation(w, n)
  OBVIOUS
<1>3. r = [w EXCEPT !.offset = 0, !.layout = FALSE, !.baseline = 0,
                    !.minTime = m, !.seeded = d]
  BY <1>1
<1>4. v = [r EXCEPT !.inode = n]
  BY <1>1, <1>2 DEF AfterRotation
<1>5. v = [started |-> w.started, startup |-> w.startup, minTime |-> m, seeded |-> d,
           seen |-> w.seen, offset |-> 0, inode |-> n, layout |-> FALSE, baseline |-> 0]
  BY <1>3, <1>4 DEF WatchType
<1> QED  BY <1>2, <1>5

LEMMA RotatedType ==
    ASSUME NEW w \in WatchType, NEW n \in Nat, NEW m \in Nat, NEW d \in BOOLEAN
    PROVE  [started |-> w.started, startup |-> w.startup, minTime |-> m, seeded |-> d,
            seen |-> w.seen, offset |-> 0, inode |-> n, layout |-> FALSE, baseline |-> 0]
           \in WatchType
<1>1. w.started \in BOOLEAN /\ w.startup \in Nat /\ w.seen \in Seq(Nat) /\ 0 \in Nat
  BY DEF WatchType
<1> QED  BY <1>1, Zenon DEF WatchType

LEMMA RotatedIs ==
    ASSUME NEW w \in WatchType, NEW n \in Nat
    PROVE  /\ AfterRotation(w, n) \in WatchType
           /\ AfterRotation(w, n).started = w.started
           /\ AfterRotation(w, n).inode = n
           /\ AfterRotation(w, n).seen = w.seen
           /\ AfterRotation(w, n).startup = w.startup
           /\ AfterRotation(w, n).offset = 0
           /\ w.seeded => /\ AfterRotation(w, n).seeded
                          /\ AfterRotation(w, n).minTime = w.minTime
           /\ w.started /\ ~w.seeded => /\ AfterRotation(w, n).seeded
                                        /\ AfterRotation(w, n).minTime = w.startup
<1>1. PICK m, d :
        /\ A!Rotated(w) = [w EXCEPT !.offset = 0, !.layout = FALSE, !.baseline = 0,
                                    !.minTime = m, !.seeded = d]
        /\ m = IF w.started /\ ~w.seeded THEN w.startup ELSE w.minTime
        /\ d = (w.seeded \/ (w.started /\ ~w.seeded))
  BY Zenon DEF A!Rotated
<1>2. m \in Nat
  BY <1>1 DEF WatchType
<1>3. d \in BOOLEAN
  BY <1>1, Zenon
<1>4. AfterRotation(w, n)
      = [started |-> w.started, startup |-> w.startup, minTime |-> m, seeded |-> d,
         seen |-> w.seen, offset |-> 0, inode |-> n, layout |-> FALSE, baseline |-> 0]
  BY <1>1, <1>2, <1>3, RotatedShape, Zenon
<1>5. [started |-> w.started, startup |-> w.startup, minTime |-> m, seeded |-> d,
       seen |-> w.seen, offset |-> 0, inode |-> n, layout |-> FALSE, baseline |-> 0]
      \in WatchType
  BY <1>2, <1>3, RotatedType, Zenon
<1>6. AfterRotation(w, n) \in WatchType
  BY <1>4, <1>5, Zenon
<1>7. /\ AfterRotation(w, n).started = w.started
      /\ AfterRotation(w, n).inode = n
      /\ AfterRotation(w, n).seen = w.seen
      /\ AfterRotation(w, n).startup = w.startup
      /\ AfterRotation(w, n).offset = 0
      /\ AfterRotation(w, n).minTime = m
      /\ AfterRotation(w, n).seeded = d
  BY <1>4
<1> QED  BY <1>1, <1>6, <1>7, Zenon

LEMMA ScanBegins ==
    ASSUME AgentInv
    PROVE  Begun(Scan1, ScanData, ScanBase)
<1>1. watch \in WatchType /\ disk.inode \in Nat /\ disk.recs \in Seq(Nat) /\ disk.clock \in Nat
  BY DEF AgentInv, AgentType
<1>2. \A k \in Nat : /\ SubSeq(disk.recs, k + 1, Len(disk.recs)) \in Seq(Nat)
                     /\ \A l : In(l, SubSeq(disk.recs, k + 1, Len(disk.recs)))
                               => In(l, disk.recs)
  <2> SUFFICES ASSUME NEW k \in Nat
               PROVE  /\ SubSeq(disk.recs, k + 1, Len(disk.recs)) \in Seq(Nat)
                      /\ \A l : In(l, SubSeq(disk.recs, k + 1, Len(disk.recs)))
                                => In(l, disk.recs)
    OBVIOUS
  <2>1. CASE k <= Len(disk.recs)
    BY <1>1, <2>1, Evicts
  <2>2. CASE ~(k <= Len(disk.recs))
    <3>1. SubSeq(disk.recs, k + 1, Len(disk.recs)) = << >>
      BY <1>1, <2>2
    <3>2. << >> \in Seq(Nat) /\ \A l : ~In(l, << >>)
      BY InEmpty
    <3> QED  BY <3>1, <3>2, Zenon
  <2> QED  BY <2>1, <2>2
<1>3. SubSeq(disk.recs, 0 + 1, Len(disk.recs)) = disk.recs
  BY <1>1
<1>4. CASE ~watch.started
  <2>1. watch = A!NewWatch /\ news = A!NewNews /\ \A l : ~Flying(l)
    BY <1>4 DEF AgentInv, FreshInv
  <2>2. A!utmpRotated
    BY <1>1, <2>1 DEF A!utmpRotated, A!NewWatch, AgentInv, DiskInv
  <2>3. Scan0 = [A!NewWatch EXCEPT !.inode = disk.inode]
    <3>1. A!NewWatch.started = FALSE /\ A!NewWatch.seeded = FALSE
      BY DEF A!NewWatch
    <3>2. A!Rotated(A!NewWatch) = [A!NewWatch EXCEPT !.offset = 0, !.layout = FALSE,
                                     !.baseline = 0, !.minTime = @, !.seeded = @]
      BY <3>1, Zenon DEF A!Rotated
    <3>3. A!Rotated(A!NewWatch) = A!NewWatch
      BY <3>2 DEF A!NewWatch
    <3> QED  BY <2>1, <2>2, <3>3 DEF Scan0
  <2>4. Scan0.offset = 0 /\ Scan0.started = FALSE
    BY <2>3 DEF A!NewWatch
  <2>5. ScanData = disk.recs
    BY <1>3, <2>4 DEF A!parseUtmpRecords, ScanData
  <2>6. Scan1 = [A!NewWatch EXCEPT !.inode = disk.inode, !.started = TRUE,
                                !.startup = disk.clock, !.baseline = Len(ScanData)]
    BY <2>3, <2>4 DEF A!Started, A!NewWatch, Scan1
  <2>7. Scan1 \in WatchType /\ Scan1.started /\ Scan1.inode = disk.inode /\ Scan1.seen = watch.seen
        /\ ~Scan1.seeded /\ Scan1.offset = 0 /\ Scan1.baseline = Len(disk.recs)
    <3>1. Scan1 = [started |-> TRUE, startup |-> disk.clock, minTime |-> 0, seeded |-> FALSE,
                seen |-> << >>, offset |-> 0, inode |-> disk.inode, layout |-> FALSE,
                baseline |-> Len(disk.recs)]
      BY <2>5, <2>6 DEF A!NewWatch
    <3>2. Len(disk.recs) \in Nat /\ << >> \in Seq(Nat) /\ 0 \in Nat
      BY <1>1
    <3>3. Scan1 \in WatchType
      BY <1>1, <3>1, <3>2, WatchIs
    <3> QED  BY <2>1, <3>1, <3>3 DEF A!NewWatch
  <2>8. ScanBase \subseteq HostLogins
    BY <1>1, <1>4, <2>5, InRange DEF AgentInv, DiskInv, ScanBase
  <2>9. \A l \in 1 .. MaxAgentLogins : news.count[l] = 0
    BY <2>1 DEF A!NewNews
  <2>10. \A l \in HostLogins : news.count[l] = 0
    <3>1. HostLogins \subseteq 1 .. MaxAgentLogins
      BY AgentAssumption DEF AgentInv, AgentType, DiskInv, HostLogins, AgentAssumption
    <3> QED  BY <2>9, <3>1
  <2>11. \A i \in 1 .. Len(ScanData) : i <= Scan1.baseline
    BY <1>1, <2>5, <2>7
  <2> QED  BY <1>1, <1>4, <2>1, <2>5, <2>7, <2>8, <2>10, <2>11 DEF Begun
<1>5. CASE watch.started
  <2>1. Scan1 = Scan0 /\ Scan0.started /\ Scan0.inode = disk.inode /\ Scan0.seen = watch.seen
        /\ Scan0.startup = watch.startup /\ Scan0 \in WatchType
    <3>1. CASE A!utmpRotated
      <4>1. Scan0 = AfterRotation(watch, disk.inode)
        BY <3>1 DEF Scan0, AfterRotation
      <4>2. Scan0 \in WatchType /\ Scan0.started = watch.started /\ Scan0.inode = disk.inode
            /\ Scan0.seen = watch.seen /\ Scan0.startup = watch.startup
        BY <1>1, <4>1, RotatedIs, Zenon
      <4> QED  BY <1>5, <4>2 DEF A!Started, Scan1
    <3>2. CASE ~A!utmpRotated
      <4>1. Scan0 = [watch EXCEPT !.inode = disk.inode]
        BY <3>2 DEF Scan0
      <4>2. Scan0 \in WatchType /\ Scan0.started = watch.started /\ Scan0.inode = disk.inode
            /\ Scan0.seen = watch.seen /\ Scan0.startup = watch.startup
        BY <1>1, <4>1 DEF WatchType
      <4> QED  BY <1>5, <4>2 DEF A!Started, Scan1
    <3> QED  BY <3>1, <3>2
  <2>2. news.base \subseteq HostLogins
    BY DEF AgentInv, DiskInv
  <2>3. Scan0.offset \in Nat
    BY <2>1 DEF WatchType
  <2>4. ScanData \in Seq(Nat) /\ \A l : In(l, ScanData) => In(l, disk.recs)
    BY <1>2, <2>3 DEF A!parseUtmpRecords, ScanData
  <2>5. \A l \in news.base \ news.evicted : disk.times[l] < Scan0.startup => Before(l)
    BY <2>1 DEF Before
  <2>6. \A l : Before(l) => ~Flying(l) /\ news.count[l] = 0
    BY DEF AgentInv, BaseInv
  <2>7. CASE ~A!utmpRotated /\ ~watch.seeded
    <3>1. Scan0.offset = 0 /\ ~Scan0.seeded /\ Scan0.baseline = watch.baseline
      BY <1>1, <1>5, <2>7 DEF AgentInv, BaseInv, Scan0, WatchType
    <3>2. ScanData = disk.recs
      BY <1>3, <3>1 DEF A!parseUtmpRecords, ScanData
    <3>3. watch.inode = disk.inode
      BY <2>7 DEF A!utmpRotated
    <3>4. \A l : Before(l) => \A i \in 1 .. Len(ScanData) : ScanData[i] = l => i <= Scan0.baseline
      BY <2>7, <3>1, <3>2, <3>3 DEF AgentInv, BaseInv
    <3> QED  BY <1>5, <2>1, <2>2, <2>4, <2>5, <2>6, <3>1, <3>2, <3>4 DEF Begun, ScanBase
  <2>8. CASE A!utmpRotated \/ watch.seeded
    <3>1. /\ watch.seeded => Scan0.seeded /\ Scan0.minTime = watch.minTime
          /\ ~watch.seeded => Scan0.seeded /\ Scan0.minTime = watch.startup
      <4>1. CASE A!utmpRotated
        <5>1. Scan0 = AfterRotation(watch, disk.inode)
          BY <4>1 DEF Scan0, AfterRotation
        <5> QED  BY <1>1, <1>5, <5>1, RotatedIs, Zenon
      <4>2. CASE ~A!utmpRotated
        <5>1. Scan0 = [watch EXCEPT !.inode = disk.inode] /\ watch.seeded
          BY <2>8, <4>2 DEF Scan0
        <5> QED  BY <1>1, <5>1 DEF WatchType
      <4> QED  BY <4>1, <4>2
    <3>2. \A l : Before(l) => \/ In(l, watch.seen) \/ ~In(l, disk.recs)
                           \/ Scan0.minTime >= Scan0.startup
      <4>1. CASE watch.seeded
        BY <2>1, <3>1, <4>1 DEF AgentInv, BaseInv
      <4>2. CASE ~watch.seeded
        <5>1. watch.startup \in Nat
          BY <1>1 DEF WatchType
        <5> QED  BY <2>1, <3>1, <4>2, <5>1
      <4> QED  BY <4>1, <4>2
    <3> QED  BY <1>5, <2>1, <2>2, <2>4, <2>5, <2>6, <3>1, <3>2 DEF Begun, ScanBase
  <2> QED  BY <2>7, <2>8
<1> QED  BY <1>4, <1>5

Baseline == SubSeq(ScanData, 1, IF Scan1.baseline < Len(ScanData) THEN Scan1.baseline
                                ELSE Len(ScanData))
Seed == IF Scan1.seeded THEN [seen |-> Scan1.seen, evicted |-> {}]
        ELSE A!ingest(Scan1.seen, Baseline, 0)
Rest == IF Scan1.seeded THEN ScanData
        ELSE SubSeq(ScanData, Len(Baseline) + 1, Len(ScanData))
Got == A!ingest(Seed.seen, Rest, Scan1.minTime)
NowEvicted == Seed.evicted \cup Got.evicted

\* What a scan with a known layout finds.
LEMMA ScanFinds ==
    ASSUME AgentInv
    PROVE  /\ Got.seen \in Seq(Nat) /\ Got.fresh \in Seq(Nat) /\ NowEvicted \subseteq Nat
           /\ \A l : In(l, watch.seen) => In(l, Got.seen) \/ l \in NowEvicted
           /\ \A l : In(l, Got.fresh) =>
                  /\ In(l, disk.recs)
                  /\ In(l, Got.seen) \/ l \in NowEvicted
                  /\ ~In(l, watch.seen) \/ l \in NowEvicted
           /\ \A i, j \in 1 .. Len(Got.fresh) :
                  i # j /\ Got.fresh[i] = Got.fresh[j] => Got.fresh[i] \in NowEvicted
           /\ \A l \in ScanBase \ (news.evicted \cup NowEvicted) :
                  disk.times[l] < Scan1.startup =>
                      /\ ~In(l, Got.fresh)
                      /\ \/ In(l, Got.seen) \/ ~In(l, disk.recs)
                         \/ Scan1.minTime >= Scan1.startup
<1>1. Begun(Scan1, ScanData, ScanBase)
  BY ScanBegins
<1>2. Scan1 \in WatchType /\ ScanData \in Seq(Nat) /\ Scan1.seen = watch.seen
      /\ \A l : In(l, ScanData) => In(l, disk.recs)
  BY <1>1 DEF Begun
<1>3. Scan1.baseline \in Nat /\ Scan1.seen \in Seq(Nat) /\ Scan1.minTime \in Nat
      /\ Scan1.startup \in Nat
  BY <1>2 DEF WatchType
<1>4. PICK k \in Nat : k <= Len(ScanData) /\ k <= Scan1.baseline
                       /\ Baseline = SubSeq(ScanData, 1, k)
                       /\ (k = Scan1.baseline \/ k = Len(ScanData))
  <2>1. CASE Scan1.baseline < Len(ScanData)
    <3>1. Baseline = SubSeq(ScanData, 1, Scan1.baseline)
      BY <2>1 DEF Baseline
    <3>2. Scan1.baseline <= Len(ScanData) /\ Scan1.baseline <= Scan1.baseline
      BY <1>2, <1>3, <2>1
    <3> QED  BY <1>3, <3>1, <3>2
  <2>2. CASE ~(Scan1.baseline < Len(ScanData))
    <3>1. Len(ScanData) \in Nat /\ Len(ScanData) <= Scan1.baseline
      BY <1>2, <1>3, <2>2
    <3>2. Baseline = SubSeq(ScanData, 1, Len(ScanData))
      BY <2>2 DEF Baseline
    <3>3. Len(ScanData) <= Len(ScanData)
      BY <3>1
    <3> QED  BY <3>1, <3>2, <3>3
  <2> QED  BY <2>1, <2>2
<1>5. Baseline \in Seq(Nat) /\ Len(Baseline) = k
      /\ \A i \in 1 .. k : Baseline[i] = ScanData[i]
  BY <1>2, <1>4
<1>6. Rest \in Seq(Nat) /\ \A l : In(l, Rest) => In(l, ScanData)
  BY <1>2, <1>4, <1>5, Evicts DEF Rest
<1>7. /\ Seed.seen \in Seq(Nat) /\ Seed.evicted \in SUBSET Nat
      /\ \A l : In(l, watch.seen) => In(l, Seed.seen) \/ l \in Seed.evicted
      /\ ~Scan1.seeded => \A i \in 1 .. k :
             \/ disk.times[Baseline[i]] < 0
             \/ In(Baseline[i], Seed.seen) \/ Baseline[i] \in Seed.evicted
  <2>1. CASE Scan1.seeded
    <3>1. Seed.seen = Scan1.seen /\ Seed.evicted = {}
      BY <2>1 DEF Seed
    <3> QED  BY <1>2, <1>3, <2>1, <3>1
  <2>2. CASE ~Scan1.seeded
    <3>1. Seed = A!ingest(Scan1.seen, Baseline, 0)
      BY <2>2 DEF Seed
    <3>2. Ingested(Scan1.seen, Baseline, 0, k, Seed)
      BY <1>3, <1>5, <3>1, IngestFacts, AgentAssumption
    <3> QED  BY <1>2, <3>2 DEF Ingested
  <2> QED  BY <2>1, <2>2
<1>8. Ingested(Seed.seen, Rest, Scan1.minTime, Len(Rest), Got)
  BY <1>6, <1>7, IngestFacts, AgentAssumption DEF Got
<1>9. /\ Got.seen \in Seq(Nat) /\ Got.fresh \in Seq(Nat) /\ Got.evicted \in SUBSET Nat
      /\ \A l : In(l, Seed.seen) => In(l, Got.seen) \/ l \in Got.evicted
      /\ \A l : In(l, Got.fresh) =>
             /\ In(l, Rest) /\ ~(disk.times[l] < Scan1.minTime)
             /\ In(l, Got.seen) \/ l \in Got.evicted
             /\ ~In(l, Seed.seen) \/ l \in Got.evicted
      /\ \A i, j \in 1 .. Len(Got.fresh) :
             i # j /\ Got.fresh[i] = Got.fresh[j] => Got.fresh[i] \in Got.evicted
  BY <1>8, Zenon DEF Ingested, In
<1>10. /\ NowEvicted \subseteq Nat
       /\ \A l : l \in NowEvicted <=> l \in Seed.evicted \/ l \in Got.evicted
  BY <1>7, <1>9 DEF NowEvicted
<1>11. \A l : In(l, watch.seen) => In(l, Got.seen) \/ l \in NowEvicted
  BY <1>7, <1>9, <1>10
<1>12. \A l : In(l, Got.fresh) => /\ In(l, disk.recs)
                                  /\ In(l, Got.seen) \/ l \in NowEvicted
                                  /\ ~In(l, watch.seen) \/ l \in NowEvicted
  BY <1>2, <1>6, <1>7, <1>9, <1>10
<1>13. ASSUME NEW l \in ScanBase \ (news.evicted \cup NowEvicted),
              disk.times[l] < Scan1.startup
       PROVE  /\ ~In(l, Got.fresh)
              /\ \/ In(l, Got.seen) \/ ~In(l, disk.recs)
                 \/ Scan1.minTime >= Scan1.startup
  <2>1. l \in HostLogins /\ disk.times[l] \in Nat /\ disk.times[l] >= 1
    BY <1>1 DEF Begun, AgentInv, AgentType, DiskInv, HostLogins
  <2>2. CASE Scan1.seeded
    <3>1. In(l, watch.seen) \/ ~In(l, disk.recs) \/ Scan1.minTime >= Scan1.startup
      BY <1>1, <1>13, <2>2 DEF Begun
    <3>2. Scan1.minTime >= Scan1.startup => disk.times[l] < Scan1.minTime
      BY <1>3, <1>13, <2>1
    <3> QED  BY <1>9, <1>11, <1>12, <1>13, <3>1, <3>2
  <2>3. CASE ~Scan1.seeded /\ In(l, disk.recs)
    <3>1. In(l, ScanData)
      BY <1>1, <2>3 DEF Begun
    <3>2. PICK i \in 1 .. Len(ScanData) : ScanData[i] = l
      BY <3>1 DEF In
    <3>3. i <= Scan1.baseline
      BY <1>1, <1>13, <2>3, <3>2 DEF Begun
    <3>4. i \in 1 .. k
      BY <1>2, <1>3, <1>4, <3>2, <3>3
    <3>5. In(l, Seed.seen)
      BY <1>5, <1>7, <1>10, <1>13, <2>1, <2>3, <3>2, <3>4
    <3> QED  BY <1>9, <1>10, <1>13, <3>5
  <2>4. CASE ~In(l, disk.recs)
    BY <1>12, <2>4
  <2> QED  BY <2>2, <2>3, <2>4
<1> QED  BY <1>9, <1>10, <1>11, <1>12, <1>13

LEMMA CatFacts ==
    ASSUME NEW w \in Seq(Nat), NEW c \in Seq(Nat)
    PROVE  /\ w \o c \in Seq(Nat) /\ Len(w \o c) = Len(w) + Len(c)
           /\ \A i \in 1 .. Len(w) : (w \o c)[i] = w[i]
           /\ \A i \in 1 .. Len(w) + Len(c) : i \notin 1 .. Len(w) =>
                  i - Len(w) \in 1 .. Len(c) /\ (w \o c)[i] = c[i - Len(w)]
OBVIOUS

\* Events are appended to the wire.
LEMMA EmitFacts ==
    ASSUME NEW w \in Seq(Nat), NEW f \in Seq(Nat), NEW k \in Nat, k <= Len(f), NEW E,
           \A i, j \in 1 .. Len(w) : i # j /\ w[i] = w[j] => w[i] \in E,
           \A i, j \in 1 .. Len(f) : i # j /\ f[i] = f[j] => f[i] \in E,
           \A l : In(l, w) /\ In(l, f) => l \in E
    PROVE  LET t == w \o SubSeq(f, 1, k)
           IN  /\ t \in Seq(Nat)
               /\ \A l : In(l, t) => In(l, w) \/ In(l, f)
               /\ \A i, j \in 1 .. Len(t) : i # j /\ t[i] = t[j] => t[i] \in E
<1> DEFINE c == SubSeq(f, 1, k)
           t == w \o c
           n == Len(w)
<1>1. c \in Seq(Nat) /\ Len(c) = k /\ \A i \in 1 .. k : c[i] = f[i] /\ i \in 1 .. Len(f)
  OBVIOUS
<1> HIDE DEF c
<1>2. t \in Seq(Nat) /\ n \in Nat /\ Len(t) = n + k
      /\ (\A i \in 1 .. n : t[i] = w[i])
      /\ (\A i \in 1 .. Len(t) : i \notin 1 .. n => i - n \in 1 .. k /\ t[i] = c[i - n])
  <2>1. /\ t \in Seq(Nat) /\ Len(t) = n + Len(c)
        /\ \A i \in 1 .. n : t[i] = w[i]
        /\ \A i \in 1 .. n + Len(c) : i \notin 1 .. n =>
               i - n \in 1 .. Len(c) /\ t[i] = c[i - n]
    BY <1>1, CatFacts, Zenon
  <2>2. n \in Nat
    OBVIOUS
  <2> HIDE DEF t, n
  <2> QED  BY <1>1, <2>1, <2>2
<1>3. \A i \in 1 .. Len(t) : i \notin 1 .. n => i - n \in 1 .. Len(f) /\ t[i] = f[i - n]
  BY <1>1, <1>2
<1> HIDE DEF t
<1>4. ASSUME NEW l, In(l, t)
      PROVE  In(l, w) \/ In(l, f)
  <2>1. PICK i \in 1 .. Len(t) : t[i] = l
    BY <1>4 DEF In
  <2>2. i \in 1 .. n => In(l, w)
    BY <1>2, <2>1 DEF In
  <2>3. i \notin 1 .. n => In(l, f)
    BY <1>3, <2>1, Zenon DEF In
  <2> QED  BY <2>2, <2>3
<1>5. ASSUME NEW i \in 1 .. Len(t), NEW j \in 1 .. Len(t), i # j, t[i] = t[j]
      PROVE  t[i] \in E
  <2>1. CASE i \in 1 .. n /\ j \in 1 .. n
    BY <1>2, <1>5, <2>1
  <2>2. CASE i \notin 1 .. n /\ j \notin 1 .. n
    <3>1. i - n # j - n
      BY <1>2, <1>5
    <3> QED  BY <1>3, <1>5, <2>2, <3>1
  <2>3. CASE i \in 1 .. n /\ j \notin 1 .. n
    <3>1. In(t[i], w) /\ In(t[i], f)
      BY <1>2, <1>3, <1>5, <2>3, Zenon DEF In
    <3> QED  BY <3>1
  <2>4. CASE i \notin 1 .. n /\ j \in 1 .. n
    <3>1. In(t[i], w) /\ In(t[i], f)
      BY <1>2, <1>3, <1>5, <2>4, Zenon DEF In
    <3> QED  BY <3>1
  <2> QED  BY <2>1, <2>2, <2>3, <2>4
<1> QED  BY <1>2, <1>4, <1>5 DEF t, c

\* The outcome of a scan: with the layout unknown nothing is read yet.
Unread ==
    /\ watch' = [Scan1 EXCEPT !.seeded = @ \/ (ScanData = << >> /\ ~disk.writing)]
    /\ hub' = hub
    /\ news' = [news EXCEPT !.base = ScanBase]
Read ==
    /\ watch' = [Scan1 EXCEPT !.layout = TRUE, !.seeded = TRUE, !.seen = Got.seen,
                              !.offset = @ + Len(ScanData)]
    /\ A!Emit(Got.fresh)
    /\ news' = [news EXCEPT !.base = ScanBase, !.evicted = @ \cup NowEvicted]

LEMMA ScanIs ==
    ASSUME AgentInv, A!scanPath
    PROVE  disk' = disk /\ (Unread \/ Read)
<1>1. news \in [count : [1 .. MaxAgentLogins -> Nat], evicted : SUBSET Nat,
                base : SUBSET Nat]
  BY DEF AgentInv, AgentType
<1>2. disk' = disk
  BY Zenon DEF A!scanPath
<1>3. \E known \in BOOLEAN :
        /\ IF known
           THEN /\ watch' = [Scan1 EXCEPT !.layout = TRUE, !.seeded = TRUE,
                                          !.seen = Got.seen, !.offset = @ + Len(ScanData)]
                /\ A!Emit(Got.fresh)
           ELSE /\ watch' = [Scan1 EXCEPT !.seeded =
                                 @ \/ (ScanData = << >> /\ ~disk.writing)]
                /\ UNCHANGED hub
        /\ news' = [news EXCEPT
               !.base = IF watch.started THEN @ ELSE A!Range(ScanData),
               !.evicted = IF known THEN @ \cup Seed.evicted \cup Got.evicted ELSE @]
  <2>1. A!detectUtmpLayout(Scan1, ScanData) \in BOOLEAN
    BY Zenon DEF A!detectUtmpLayout
  <2> WITNESS A!detectUtmpLayout(Scan1, ScanData) \in BOOLEAN
  <2> QED  BY Zenon DEF A!scanPath, Scan0, Scan1, ScanData, Baseline, Seed, Rest, Got
<1> QED  BY <1>1, <1>2, <1>3, Zenon DEF Unread, Read, ScanBase, NowEvicted

LEMMA UnreadKeeps ==
    ASSUME AgentInv, disk' = disk, Unread
    PROVE  AgentInv'
<1>1. Begun(Scan1, ScanData, ScanBase)
  BY ScanBegins
<1>2. Scan1 \in WatchType /\ ScanBase \subseteq HostLogins /\ HostLogins \subseteq Nat
  BY <1>1 DEF Begun, HostLogins
<1>3. PICK d \in BOOLEAN : /\ watch' = [Scan1 EXCEPT !.seeded = d]
                           /\ d = (Scan1.seeded \/ (ScanData = << >> /\ ~disk.writing))
  BY Zenon DEF Unread
<1>4. watch' \in WatchType /\ watch'.started = Scan1.started /\ watch'.inode = Scan1.inode
      /\ watch'.seen = Scan1.seen /\ watch'.offset = Scan1.offset
      /\ watch'.startup = Scan1.startup /\ watch'.minTime = Scan1.minTime
      /\ watch'.baseline = Scan1.baseline /\ watch'.seeded = d
  BY <1>2, <1>3 DEF WatchType
<1>5. news \in [count : [1 .. MaxAgentLogins -> Nat], evicted : SUBSET Nat,
                base : SUBSET Nat]
  BY DEF AgentInv, AgentType
<1>6. news' \in [count : [1 .. MaxAgentLogins -> Nat], evicted : SUBSET Nat,
                 base : SUBSET Nat]
      /\ news'.count = news.count /\ news'.evicted = news.evicted /\ news'.base = ScanBase
  BY <1>2, <1>5 DEF Unread
<1>7. \A l : Flying(l)' <=> Flying(l)
  BY DEF Flying, Unread
<1>8. AgentType'
  BY <1>4, <1>6 DEF AgentInv, AgentType, Unread
<1>9. DiskInv'
  BY <1>2, <1>6, <1>7 DEF AgentInv, DiskInv, HostLogins
<1>10. FreshInv'
  BY <1>1, <1>4 DEF FreshInv, Begun
<1>11. FlightInv'
  <2>1. watch'.seen = watch.seen
    BY <1>1, <1>4 DEF Begun
  <2>2. hub' = hub
    BY DEF Unread
  <2> QED  BY <1>6, <1>7, <2>1, <2>2, Zenon DEF AgentInv, FlightInv, SentOnce, Apart
<1>12. BaseInv'
  <2>1. ~d => ~Scan1.seeded
    BY <1>3
  <2>2. watch'.started /\ ~watch'.seeded => watch'.offset = 0 /\ watch'.inode <= disk'.inode
    BY <1>1, <1>2, <1>4, <2>1 DEF Begun, WatchType
  <2>3. ASSUME NEW l, Before(l)'
        PROVE  /\ ~Flying(l)' /\ news'.count[l] = 0
               /\ watch'.seeded => \/ In(l, watch'.seen) \/ ~In(l, disk'.recs)
                                   \/ watch'.minTime >= watch'.startup
               /\ ~watch'.seeded /\ watch'.inode = disk'.inode =>
                  \A i \in 1 .. Len(disk'.recs) : disk'.recs[i] = l => i <= watch'.baseline
    <3>1. l \in ScanBase \ news.evicted /\ disk.times[l] < Scan1.startup
      BY <1>4, <1>6, <2>3 DEF Before
    <3>2. ~Flying(l)' /\ news'.count[l] = 0
      BY <1>1, <1>6, <1>7, <3>1 DEF Begun
    <3>3. watch'.seeded => \/ In(l, watch'.seen) \/ ~In(l, disk'.recs)
                           \/ watch'.minTime >= watch'.startup
      <4>1. CASE Scan1.seeded
        BY <1>1, <1>4, <3>1, <4>1 DEF Begun
      <4>2. CASE ~Scan1.seeded /\ d
        <5>1. ScanData = << >>
          BY <1>3, <4>2
        <5>2. \A k : ~In(k, disk.recs)
          BY <1>1, <4>2, <5>1, InEmpty DEF Begun
        <5> QED  BY <5>2
      <4> QED  BY <1>4, <4>1, <4>2
    <3>4. ~watch'.seeded =>
             \A i \in 1 .. Len(disk'.recs) : disk'.recs[i] = l => i <= watch'.baseline
      BY <1>1, <1>4, <2>1, <3>1 DEF Begun
    <3> QED  BY <3>2, <3>3, <3>4
  <2> QED  BY <2>2, <2>3 DEF BaseInv
<1> QED  BY <1>8, <1>9, <1>10, <1>11, <1>12 DEF AgentInv

LEMMA ReadKeeps ==
    ASSUME AgentInv, disk' = disk, Read
    PROVE  AgentInv'
<1> DEFINE E == news.evicted \cup NowEvicted
<1>1. Begun(Scan1, ScanData, ScanBase)
  BY ScanBegins
<1>2. Scan1 \in WatchType /\ ScanData \in Seq(Nat) /\ ScanBase \subseteq HostLogins
      /\ HostLogins \subseteq Nat
  BY <1>1 DEF Begun, HostLogins
<1>3. Got.seen \in Seq(Nat) /\ Got.fresh \in Seq(Nat) /\ NowEvicted \subseteq Nat
  BY ScanFinds
<1>4. watch' \in WatchType /\ watch'.started = Scan1.started /\ watch'.seeded = TRUE
      /\ watch'.seen = Got.seen /\ watch'.startup = Scan1.startup
      /\ watch'.minTime = Scan1.minTime
  <2> DEFINE o == Scan1.offset + Len(ScanData)
  <2>1. o \in Nat
    BY <1>2 DEF WatchType
  <2>2. watch' = [Scan1 EXCEPT !.layout = TRUE, !.seeded = TRUE, !.seen = Got.seen,
                               !.offset = o]
    BY DEF Read
  <2> HIDE DEF o
  <2> QED  BY <1>2, <1>3, <2>1, <2>2 DEF WatchType
<1>5. news \in [count : [1 .. MaxAgentLogins -> Nat], evicted : SUBSET Nat,
                base : SUBSET Nat]
  BY DEF AgentInv, AgentType
<1>6. news' \in [count : [1 .. MaxAgentLogins -> Nat], evicted : SUBSET Nat,
                 base : SUBSET Nat]
      /\ news'.count = news.count /\ news'.evicted = E /\ news'.base = ScanBase
  <2>1. E \in SUBSET Nat
    BY <1>3, <1>5
  <2>2. news' = [news EXCEPT !.base = ScanBase, !.evicted = E]
    BY DEF Read
  <2> HIDE DEF E
  <2> QED  BY <1>2, <1>5, <2>1, <2>2
<1>7. \A l : In(l, Got.fresh) =>
          /\ l \in HostLogins
          /\ In(l, Got.seen) \/ l \in E
          /\ ~In(l, watch.seen) \/ l \in E
  BY ScanFinds DEF AgentInv, DiskInv
<1>8. \A l : In(l, watch.seen) => In(l, Got.seen) \/ l \in E
  BY ScanFinds
<1>9. HostLogins \subseteq 1 .. MaxAgentLogins
  BY AgentAssumption DEF AgentInv, AgentType, DiskInv, HostLogins, AgentAssumption
<1>10. \A l : In(l, Got.fresh) /\ l \notin E => ~Flying(l) /\ news.count[l] = 0
  <2> SUFFICES ASSUME NEW l, In(l, Got.fresh), l \notin E
               PROVE  ~Flying(l) /\ news.count[l] = 0
    OBVIOUS
  <2>1. l \in (1 .. MaxAgentLogins) \ news.evicted /\ ~In(l, watch.seen)
    BY <1>7, <1>9
  <2>2. news.count[l] \in Nat
    BY <1>5, <2>1
  <2> QED  BY <2>1, <2>2 DEF AgentInv, FlightInv
<1>11. SentOnce(hub.wire) /\ SentOnce(hub.queue) /\ SentOnce(hub.batch)
       /\ Apart(hub.wire, hub.queue) /\ Apart(hub.wire, hub.batch)
       /\ Apart(hub.queue, hub.batch)
  BY DEF AgentInv, FlightInv
<1>12. hub \in [link : BOOLEAN, wire : Seq(Nat), accepted : Nat, queue : Seq(Nat),
                batch : Seq(Nat), cache : {"expired", "on", "off"}, rule : BOOLEAN]
       /\ hub.wire \in Seq(Nat)
  BY DEF AgentInv, AgentType
<1>13. PICK t \in Seq(Nat) :
         /\ hub' = [hub EXCEPT !.wire = t]
         /\ \A l : In(l, t) => In(l, hub.wire) \/ In(l, Got.fresh)
         /\ \A i, j \in 1 .. Len(t) : i # j /\ t[i] = t[j] => t[i] \in E
  <2>1. \A i, j \in 1 .. Len(hub.wire) :
          i # j /\ hub.wire[i] = hub.wire[j] => hub.wire[i] \in E
    BY <1>11 DEF SentOnce
  <2>2. \A i, j \in 1 .. Len(Got.fresh) :
          i # j /\ Got.fresh[i] = Got.fresh[j] => Got.fresh[i] \in E
    BY ScanFinds
  <2>3. \A l : In(l, hub.wire) /\ In(l, Got.fresh) => l \in E
    BY <1>10 DEF Flying
  <2> DEFINE k == IF Len(Got.fresh) < MaxPerReport THEN Len(Got.fresh) ELSE MaxPerReport
             s == hub.wire \o SubSeq(Got.fresh, 1, k)
  <2>4. k \in Nat /\ k <= Len(Got.fresh)
    BY <1>3, AgentAssumption DEF AgentAssumption
  <2>5. hub' = [hub EXCEPT !.wire = s] \/ hub' = [hub EXCEPT !.wire = hub.wire]
    BY DEF Read, A!Emit
  <2> HIDE DEF k, E
  <2>6. s \in Seq(Nat) /\ (\A l : In(l, s) => In(l, hub.wire) \/ In(l, Got.fresh))
        /\ \A i, j \in 1 .. Len(s) : i # j /\ s[i] = s[j] => s[i] \in E
    BY <1>3, <1>12, <2>1, <2>2, <2>3, <2>4, EmitFacts
  <2> HIDE DEF s
  <2>7. CASE hub' = [hub EXCEPT !.wire = s]
    BY <2>6, <2>7
  <2>8. CASE hub' = [hub EXCEPT !.wire = hub.wire]
    BY <1>12, <2>1, <2>8
  <2> QED  BY <2>5, <2>7, <2>8
<1>14. hub' \in [link : BOOLEAN, wire : Seq(Nat), accepted : Nat, queue : Seq(Nat),
                 batch : Seq(Nat), cache : {"expired", "on", "off"}, rule : BOOLEAN]
       /\ hub'.wire = t /\ hub'.queue = hub.queue /\ hub'.batch = hub.batch
  BY <1>12, <1>13
<1> HIDE DEF E
<1>15. \A l : Flying(l)' => Flying(l) \/ In(l, Got.fresh)
  BY <1>13, <1>14 DEF Flying
<1>16. AgentType'
  BY <1>4, <1>6, <1>14 DEF AgentInv, AgentType
<1>17. DiskInv'
  BY <1>2, <1>6, <1>7, <1>15 DEF AgentInv, DiskInv, HostLogins
<1>18. FreshInv'
  BY <1>1, <1>4 DEF FreshInv, Begun
<1>19. FlightInv'
  <2>1. \A l : l \in news.evicted => l \in E
    BY DEF E
  <2>2. SentOnce(hub.wire)' /\ SentOnce(hub.queue)' /\ SentOnce(hub.batch)'
    BY <1>6, <1>11, <1>13, <1>14, <2>1 DEF SentOnce
  <2>3. Apart(hub.wire, hub.queue)' /\ Apart(hub.wire, hub.batch)'
        /\ Apart(hub.queue, hub.batch)'
    BY <1>6, <1>10, <1>11, <1>13, <1>14, <2>1 DEF Apart, Flying
  <2>4. ASSUME NEW l \in (1 .. MaxAgentLogins) \ news'.evicted
        PROVE  /\ news'.count[l] <= 1
               /\ Flying(l)' => news'.count[l] = 0
               /\ Flying(l)' \/ news'.count[l] > 0 => In(l, watch'.seen)
    <3>1. l \in (1 .. MaxAgentLogins) \ news.evicted /\ l \notin E
      BY <1>6, <2>1
    <3>2. /\ news.count[l] <= 1
          /\ Flying(l) => news.count[l] = 0
          /\ Flying(l) \/ news.count[l] > 0 => In(l, watch.seen)
      BY <3>1 DEF AgentInv, FlightInv
    <3> QED  BY <1>4, <1>6, <1>7, <1>8, <1>10, <1>15, <3>1, <3>2
  <2> QED  BY <2>2, <2>3, <2>4 DEF FlightInv
<1>20. BaseInv'
  <2>1. ASSUME NEW l, Before(l)'
        PROVE  /\ ~Flying(l)' /\ news'.count[l] = 0
               /\ \/ In(l, watch'.seen) \/ ~In(l, disk'.recs)
                  \/ watch'.minTime >= watch'.startup
    <3>1. l \in ScanBase \ E /\ disk.times[l] < Scan1.startup
      BY <1>4, <1>6, <2>1 DEF Before
    <3>2. ~Flying(l) /\ news.count[l] = 0
      BY <1>1, <3>1 DEF Begun, E
    <3>3. /\ ~In(l, Got.fresh)
          /\ \/ In(l, Got.seen) \/ ~In(l, disk.recs)
             \/ Scan1.minTime >= Scan1.startup
      BY <3>1, ScanFinds DEF E
    <3> QED  BY <1>4, <1>6, <1>15, <3>2, <3>3
  <2> QED  BY <1>4, <2>1 DEF BaseInv
<1> QED  BY <1>16, <1>17, <1>18, <1>19, <1>20 DEF AgentInv

LEMMA AgentStep == AgentInv /\ [A!Next]_(A!agentVars) => AgentInv'
<1> SUFFICES ASSUME AgentInv, [A!Next]_(A!agentVars)
             PROVE  AgentInv'
  OBVIOUS
<1>1. CASE UNCHANGED A!agentVars
  BY <1>1 DEF A!agentVars, AgentInv, AgentType, DiskInv, FreshInv, FlightInv, BaseInv,
              Flying, Before, SentOnce, Apart, HostLogins
<1>2. CASE A!Host
  BY <1>2, HostKeeps
<1>3. CASE A!scanPath
  BY <1>3, ScanIs, UnreadKeeps, ReadKeeps
<1>4. CASE A!RestartAgent
  BY <1>4, RestartAgentKeeps
<1>5. CASE A!NotifyLogin
  BY <1>5, NotifyKeeps
<1>6. CASE A!Connect \/ A!Disconnect \/ A!submitAt \/ A!WindowEnds \/ A!CacheExpires
           \/ A!SetRule \/ A!Drain
  BY <1>6, ReporterKeeps
<1> QED  BY <1>1, <1>2, <1>3, <1>4, <1>5, <1>6 DEF A!Next

\* No login of an agent's host is notified twice, and none that was complete in
\* the file before the watcher's first scan (scanPath, ingest and the hub's
\* AgentReporter), for any number of logins, any size of the window of seen
\* keys, any rotations, truncations, restarts and lost connections; only a key
\* that was evicted from the window may come back.
THEOREM AgentLoginsOnce == A!Spec => []AgentLoginOnce
<1>1. A!Spec => []AgentInv
  BY AgentInit, AgentStep, AgentAssumption, PTL DEF A!Spec
<1>2. AgentInv => AgentLoginOnce
  BY AgentSays DEF AgentLoginOnce
<1> QED  BY <1>1, <1>2, PTL

-----------------------------------------------------------------------------
(* TeamConfig: the inductive invariant *)

CatRows == [id : Nat, team : Team]
KeyRows == [id : Nat, team : Team, val : Nat, seal : Nat]
ServerRows == [id : Nat, team : Team, cat : Nat, kind : 0..2, key : Nat, wants : Nat,
               uid : Nat, seal : Nat, pinned : BOOLEAN]
KeyRefs == [ref : Nat, val : Nat]
FileRows == [cat : Nat, kind : 0..2, key : Nat, wants : Nat, uid : Nat,
             pinned : BOOLEAN, ref : Nat]
Contents(servers) == [ok : BOOLEAN, cats : SUBSET Nat, keys : SUBSET KeyRefs,
                      srv : SUBSET servers]
ExportStates ==
    {T!Idle, T!Done}
    \cup [step : {"keys", "servers", "connections"}, team : Team, skip : BOOLEAN,
          bad : SUBSET Nat, out : Contents(ServerRows)]
ImportStates ==
    {T!Idle, T!Done}
    \cup [step : {"checked"}, team : Team, data : Contents(FileRows)]
    \cup [step : {"listed"}, team : Team, data : Contents(FileRows), old : SUBSET Nat]
    \cup [step : {"cleared"}, team : Team, data : Contents(FileRows), old : SUBSET Nat,
          dropped : SUBSET Nat]
    \cup [step : {"after"}, stop : SUBSET Nat, start : SUBSET Nat]

TeamType ==
    /\ cats \in SUBSET CatRows /\ keys \in SUBSET KeyRows /\ srv \in SUBSET ServerRows
    /\ lastId \in Nat
    /\ worker \in SUBSET Nat /\ retry \in SUBSET Nat
    /\ start \in SUBSET Nat /\ stop \in SUBSET Nat
    /\ export \in ExportStates /\ file \in Contents(FileRows)
    /\ import \in [Import -> ImportStates]
    /\ lost \in [keys : SUBSET Nat, srv : SUBSET Nat]
    /\ IsFiniteSet(cats) /\ IsFiniteSet(keys) /\ IsFiniteSet(srv)

\* Every id was given out, to one row of a table.
Given(table) ==
    /\ \A r \in table : r.id <= lastId
    /\ \A r, q \in table : r.id = q.id => r = q

\* A key that a server names and that is there is the one the server was
\* configured with.
RowsInv ==
    /\ Given(cats) /\ Given(keys) /\ Given(srv)
    /\ \A k \in keys : k.id > 0
    /\ \A s \in srv : s.key <= lastId
    /\ \A s \in srv, k \in keys : s.key = k.id => k.team = s.team /\ k.val = s.wants

\* A file names each key once, and its servers name the keys they were
\* configured with.
Sound(d) ==
    /\ IsFiniteSet(d.cats) /\ IsFiniteSet(d.keys) /\ IsFiniteSet(d.srv)
    /\ \A k, m \in d.keys : k.ref = m.ref => k = m
    /\ \A s \in d.srv, k \in d.keys : s.key = k.ref => k.val = s.wants

\* An export knows keys by ids that were given out; until it lists the servers,
\* no row contradicts what it read.
ExportOK(e) ==
    e \notin {T!Idle, T!Done} =>
        /\ Sound(e.out)
        /\ e.step = "keys" => e.out.keys = {}
        /\ e.step \in {"keys", "servers"} => e.out.srv = {}
        /\ e.step = "servers" =>
             \A r \in e.out.keys :
               /\ r.ref > 0 /\ r.ref <= lastId
               /\ \A k \in keys : k.id = r.ref => k.val = r.val
               /\ \A s \in srv : s.key = r.ref => s.wants = r.val
ExportInv == ExportOK(export)

\* The servers an import listed are still its team's; those it is about to
\* stop the workers of are gone.
ImportOK(m) ==
    /\ m.step \in {"checked", "listed", "cleared"} => Sound(m.data)
    /\ m.step \in {"listed", "cleared"} =>
         /\ \A id \in m.old : id <= lastId
         /\ \A s \in srv : s.id \in m.old => s.team = m.team
    /\ m.step = "after" =>
         /\ \A id \in m.stop : id <= lastId
         /\ \A s \in srv : s.id \notin m.stop

StopInv ==
    /\ \A id \in stop : id <= lastId
    /\ \A s \in srv : s.id \notin stop

\* The parts of TeamStaysWhole, in terms of rows.
CatsInv ==
    /\ \A t \in Team : \E c \in cats : c.team = t
    /\ \A s \in srv : \E c \in cats : c.team = s.team /\ c.id = s.cat
KeysInv == \A s \in srv : s.key = 0 \/ s.key \in lost.keys \/ \E k \in keys : k.id = s.key
SealsInv ==
    /\ \A s \in srv : s.id > Cardinality(Team) + 2 => s.seal = s.id
    /\ \A k \in keys : k.id > Cardinality(Team) + 2 => k.seal = k.id
Connects(id) == \E s \in srv : s.id = id /\ T!Connectable(s)
Startable(id) == \E s \in srv : s.id = id /\ T!Connectable(s) /\ T!Readable(s)
WillStart(id) ==
    \/ id \in start
    \/ \E i \in Import : import[i].step = "after" /\ id \in import[i].start
WillStop(id) ==
    \/ id \in stop
    \/ \E i \in Import : import[i].step = "after" /\ id \in import[i].stop
WorkersInv ==
    /\ \A id : Connects(id) => id \in worker \/ id \in retry \/ WillStart(id)
    /\ \A id \in worker : Startable(id) \/ id \in lost.srv \/ WillStop(id)
    /\ \A id \in retry : Connects(id) \/ id \in lost.srv \/ WillStop(id)
    /\ \A id \in worker : id \notin retry

TeamInv ==
    /\ TeamType /\ RowsInv /\ Sound(file) /\ ExportInv
    /\ \A i \in Import : ImportOK(import[i])
    /\ StopInv
    /\ CatsInv /\ KeysInv /\ SealsInv /\ WorkersInv

-----------------------------------------------------------------------------
(* TeamConfig: helpers *)

LEMMA TeamCardinality == \A x : T!Cardinality(x) = Cardinality(x)
BY Zenon DEF Cardinality, T!Cardinality

LEMMA Least ==
    ASSUME NEW X \in SUBSET Nat, X # {}
    PROVE  T!Min(X) \in X
<1>1. PICK x \in X : \A y \in X : x <= y
  BY LeastNumber
<1> QED  BY <1>1 DEF T!Min

LEMMA ImageFinite ==
    ASSUME NEW f, IsFiniteSet(DOMAIN f)
    PROVE  IsFiniteSet({f[x] : x \in DOMAIN f})
<1> DEFINE to == {f[x] : x \in DOMAIN f}
           g == [x \in DOMAIN f |-> f[x]]
<1>1. g \in Surjection(DOMAIN f, to)
  BY DEF Surjection
<1> QED  BY <1>1, FS_Surjection

LEMMA IdsFinite ==
    ASSUME NEW X, IsFiniteSet(X)
    PROVE  IsFiniteSet({x.id : x \in X})
<1> DEFINE f == [x \in X |-> x.id]
<1>1. IsFiniteSet({f[x] : x \in DOMAIN f})
  BY ImageFinite
<1>2. {f[x] : x \in DOMAIN f} = {x.id : x \in X}
  OBVIOUS
<1> QED  BY <1>1, <1>2

\* New ids are different and new.
LEMMA NewIdsFacts ==
    ASSUME NEW refs, IsFiniteSet(refs), NEW base \in Nat
    PROVE  /\ T!NewIds(refs, base) \in [refs -> (base + 1) .. (base + Cardinality(refs))]
           /\ \A a, b \in refs : a # b => T!NewIds(refs, base)[a] # T!NewIds(refs, base)[b]
<1> DEFINE n == Cardinality(refs)
           to == (base + 1) .. (base + n)
<1>1. n \in Nat
  BY FS_CardinalityType
<1>2. IsFiniteSet(to) /\ Cardinality(to) = IF base + 1 > base + n THEN 0 ELSE (base + n) - (base + 1) + 1
  <2> HIDE DEF n
  <2>1. base + 1 \in Int /\ base + n \in Int
    BY <1>1
  <2> QED  BY <2>1, FS_Interval
<1>3. Cardinality(to) = n
  <2> DEFINE k == Cardinality(to)
  <2>1. k = IF base + 1 > base + n THEN 0 ELSE (base + n) - (base + 1) + 1
    BY <1>2
  <2> HIDE DEF n, k
  <2>2. k = n
    BY <1>1, <2>1
  <2> QED  BY <2>2 DEF k
<1>4. ExistsBijection(refs, to)
  BY <1>2, <1>3, FS_SameCardinalityBij
<1>5. PICK f : f \in Bijection(refs, to)
  BY <1>4 DEF ExistsBijection
<1>6. f \in [refs -> to] /\ \A a, b \in refs : a # b => f[a] # f[b]
  BY <1>5 DEF Bijection, Injection, IsInjective
<1>7. T!NewIds(refs, base) = CHOOSE g \in [refs -> to] : \A a, b \in refs : a # b => g[a] # g[b]
  BY TeamCardinality, Zenon DEF T!NewIds
<1> HIDE DEF to, n
<1>8. /\ T!NewIds(refs, base) \in [refs -> to]
      /\ \A a, b \in refs : a # b => T!NewIds(refs, base)[a] # T!NewIds(refs, base)[b]
  BY <1>6, <1>7
<1> QED  BY <1>8 DEF to, n

\* The servers that can be started and those that cannot, in terms of rows.
LEMMA StartFacts ==
    ASSUME \A s, q \in srv : s.id = q.id => s = q
    PROVE  /\ \A x : x \in T!Monitored <=> Startable(x)
           /\ \A x : x \in T!Unstartable <=> Connects(x) /\ ~Startable(x)
           /\ \A x : Startable(x) => Connects(x)
<1>1. \A x : x \in T!Monitored <=> Startable(x)
  BY DEF T!Monitored, T!Ids, Startable
<1>2. \A x : x \in T!Unstartable <=>
              \E s \in srv : s.id = x /\ T!Connectable(s) /\ ~T!Readable(s)
  BY DEF T!Unstartable, T!Ids
<1>3. \A x : x \in T!Unstartable <=> Connects(x) /\ ~Startable(x)
  BY <1>2 DEF Connects, Startable
<1> QED  BY <1>1, <1>3 DEF Connects, Startable

LEMMA TeamSays == TeamInv => T!TeamStaysWhole
<1> SUFFICES ASSUME TeamInv
             PROVE  T!TeamStaysWhole
  OBVIOUS
<1>1. T!CategoriesHold
  BY DEF T!CategoriesHold, T!Of, TeamInv, CatsInv
<1>2. T!KeysHold
  BY DEF T!KeysHold, T!Of, TeamInv, KeysInv, RowsInv
<1>3. T!SecretsHold
  BY TeamCardinality DEF T!SecretsHold, TeamInv, SealsInv
<1>4. T!WorkersHold
  <2> DEFINE after == {i \in Import : import[i].step = "after"}
             starts == start \cup UNION {import[i].start : i \in after}
             stops == stop \cup lost.srv \cup UNION {import[i].stop : i \in after}
  <2>1. \A s, q \in srv : s.id = q.id => s = q
    BY DEF TeamInv, RowsInv, Given
  <2>2. \A x : WillStart(x) => x \in starts
    BY DEF WillStart
  <2>3. \A x : WillStop(x) \/ x \in lost.srv => x \in stops
    BY DEF WillStop
  <2> HIDE DEF starts, stops
  <2>4. /\ T!Monitored \cup T!Unstartable \subseteq worker \cup retry \cup starts
        /\ worker \subseteq T!Monitored \cup stops
        /\ retry \subseteq T!Monitored \cup T!Unstartable \cup stops
        /\ worker \cap retry = {}
    BY <2>1, <2>2, <2>3, StartFacts DEF TeamInv, WorkersInv
  <2> QED  BY <2>4 DEF T!WorkersHold, starts, stops, after
<1> QED  BY <1>1, <1>2, <1>3, <1>4 DEF T!TeamStaysWhole

LEMMA TeamNumbers ==
    /\ Cardinality(Team) \in Nat /\ Cardinality(Team) > 0 /\ 1 \in Team
    /\ \A t \in Team : t \in Nat /\ t <= Cardinality(Team) /\ t > 0
<1> DEFINE n == Cardinality(Team)
<1>1. n \in Nat /\ n # 0
  BY TeamAssumption, FS_CardinalityType, FS_EmptySet
<1>2. Team = 1 .. n
  BY TeamAssumption
<1> HIDE DEF n
<1>3. n > 0 /\ 1 \in 1 .. n /\ \A t \in 1 .. n : t \in Nat /\ t <= n /\ t > 0
  BY <1>1
<1> QED  BY <1>1, <1>2, <1>3 DEF n

LEMMA IdleIsIdle ==
    /\ T!Idle.step = "idle" /\ T!Done.step = "done" /\ T!Idle # T!Done
    /\ T!Idle \in ImportStates /\ T!Done \in ImportStates
    /\ T!Idle \in ExportStates /\ T!Done \in ExportStates
<1>1. T!Idle.step = "idle" /\ T!Done.step = "done"
  BY DEF T!Idle, T!Done
<1> QED  BY <1>1 DEF ImportStates, ExportStates

LEMMA EmptySound ==
    ASSUME NEW d, IsFiniteSet(d.cats), d.keys = {}, d.srv = {} \/ IsFiniteSet(d.srv)
    PROVE  Sound(d)
BY FS_EmptySet DEF Sound

LEMMA TeamInit == T!Init => TeamInv
<1> SUFFICES ASSUME T!Init
             PROVE  TeamInv
  OBVIOUS
<1> DEFINE n == Cardinality(Team)
<1>1. n \in Nat /\ n > 0 /\ 1 \in Team /\ \A t \in Team : t \in Nat /\ t <= n /\ t > 0
  BY TeamNumbers
<1>2. T!Cardinality(Team) = n
  BY TeamCardinality
<1> HIDE DEF n
<1>3. PICK s1 \in {0, n + 1}, s2 \in {0, n + 2}, kind \in 0..2 :
        /\ keys = {[id |-> n + 1, team |-> 1, val |-> n + 1, seal |-> s1]}
        /\ srv = {[T!Server(n + 2, 1, n + 3, kind, IF kind = 0 THEN n + 1 ELSE 0,
                            IF kind = 0 THEN n + 1 ELSE 0,
                            IF kind = 0 THEN 0 ELSE n + 2) EXCEPT !.seal = s2]}
        /\ lastId = n + 3
  BY <1>2 DEF T!Init
<1>4. cats = {[id |-> t, team |-> t] : t \in Team} \cup {[id |-> n + 3, team |-> 1]}
  BY <1>2 DEF T!Init
<1>5. /\ worker = T!Monitored /\ retry = T!Unstartable /\ start = {} /\ stop = {} /\ export = T!Idle
      /\ file \in {T!NoFile, T!HandMade} /\ import = [i \in Import |-> T!Idle]
      /\ lost = [keys |-> {}, srv |-> {}]
  BY DEF T!Init
<1> DEFINE k0 == [id |-> n + 1, team |-> 1, val |-> n + 1, seal |-> s1]
           key0 == IF kind = 0 THEN n + 1 ELSE 0
           uid0 == IF kind = 0 THEN 0 ELSE n + 2
           r0 == [id |-> n + 2, team |-> 1, cat |-> n + 3, kind |-> kind, key |-> key0,
                  wants |-> key0, uid |-> uid0, seal |-> n + 2, pinned |-> TRUE]
           v0 == [r0 EXCEPT !.seal = s2]
<1>6. keys = {k0} /\ k0 \in KeyRows /\ k0.id = n + 1 /\ k0.team = 1 /\ k0.val = n + 1
  BY <1>1, <1>3 DEF KeyRows
<1>7. srv = {v0}
  <2>1. T!Server(n + 2, 1, n + 3, kind, key0, key0, uid0) = r0
    BY DEF T!Server
  <2> QED  BY <1>3, <2>1, Zenon
<1>8. /\ v0 \in ServerRows /\ v0.id = n + 2 /\ v0.team = 1 /\ v0.cat = n + 3
      /\ v0.key \in {0, n + 1} /\ v0.wants = v0.key
  <2>1. key0 \in {0, n + 1} /\ uid0 \in Nat /\ n + 2 \in Nat /\ n + 3 \in Nat /\ key0 \in Nat
        /\ s2 \in Nat
    BY <1>1
  <2> HIDE DEF key0, uid0
  <2>2. r0 \in ServerRows /\ r0.id = n + 2 /\ r0.team = 1 /\ r0.cat = n + 3
        /\ r0.key = key0 /\ r0.wants = key0
    BY <1>1, <2>1 DEF ServerRows
  <2> HIDE DEF r0
  <2> QED  BY <2>1, <2>2 DEF ServerRows
<1> HIDE DEF k0, v0
<1>9. cats \in SUBSET CatRows /\ IsFiniteSet(cats)
  <2>1. cats \in SUBSET CatRows
    BY <1>1, <1>4 DEF CatRows
  <2> DEFINE f == [t \in Team |-> [id |-> t, team |-> t]]
  <2>2. IsFiniteSet({f[t] : t \in DOMAIN f})
    BY ImageFinite, TeamAssumption
  <2>3. {f[t] : t \in DOMAIN f} = {[id |-> t, team |-> t] : t \in Team}
    OBVIOUS
  <2> QED  BY <1>4, <2>1, <2>2, <2>3, FS_Singleton, FS_Union
<1>10. file \in Contents(FileRows) /\ Sound(file)
  <2>1. CASE file = T!NoFile
    <3>1. file.cats = {} /\ file.keys = {} /\ file.srv = {} /\ file \in Contents(FileRows)
      BY <2>1 DEF T!NoFile, Contents
    <3> QED  BY <3>1, EmptySound, FS_EmptySet
  <2>2. CASE file = T!HandMade
    <3> DEFINE s == [cat |-> 90, kind |-> 0, key |-> 91, wants |-> 91, uid |-> 0,
                     pinned |-> FALSE, ref |-> 92]
    <3>1. file = [ok |-> TRUE, cats |-> {}, keys |-> {}, srv |-> {s}]
      BY <2>2 DEF T!HandMade
    <3>2. s \in FileRows
      BY DEF FileRows
    <3> HIDE DEF s
    <3>3. file.cats = {} /\ file.keys = {} /\ file.srv = {s} /\ file \in Contents(FileRows)
      BY <3>1, <3>2 DEF Contents
    <3>4. IsFiniteSet({s})
      BY FS_Singleton
    <3> QED  BY <3>3, <3>4, EmptySound, FS_EmptySet
  <2> QED  BY <1>5, <2>1, <2>2
<1>11. /\ worker \in SUBSET Nat /\ retry \in SUBSET Nat
       /\ \A id : id \in worker <=> Startable(id)
       /\ \A id : id \in retry <=> Connects(id) /\ ~Startable(id)
       /\ \A id : Startable(id) => Connects(id)
  <2>1. /\ \A id : id \in worker <=> Startable(id)
        /\ \A id : id \in retry <=> Connects(id) /\ ~Startable(id)
        /\ \A id : Startable(id) => Connects(id)
    <3>1. \A s, q \in srv : s.id = q.id => s = q
      BY <1>7
    <3> QED  BY <1>5, <3>1, StartFacts
  <2>2. \A id : Connects(id) => id = n + 2
    BY <1>7, <1>8 DEF Connects
  <2> QED  BY <1>1, <2>1, <2>2
<1>12. TeamType
  <2>1. IsFiniteSet(keys) /\ IsFiniteSet(srv)
    BY <1>6, <1>7, FS_Singleton
  <2>2. import \in [Import -> ImportStates] /\ export \in ExportStates
    BY <1>5, IdleIsIdle
  <2>3. keys \in SUBSET KeyRows /\ srv \in SUBSET ServerRows /\ lastId \in Nat
    BY <1>1, <1>3, <1>6, <1>7, <1>8
  <2>4. lost \in [keys : SUBSET Nat, srv : SUBSET Nat] /\ start \in SUBSET Nat /\ stop \in SUBSET Nat
    BY <1>5
  <2> QED  BY <1>9, <1>10, <1>11, <2>1, <2>2, <2>3, <2>4 DEF TeamType
<1>13. RowsInv
  <2>1. Given(cats)
    <3>1. \A c \in cats : c.team \in Team /\ (c.id = c.team \/ (c.id = n + 3 /\ c.team = 1))
      <4>1. \A t \in Team : [id |-> t, team |-> t].id = t /\ [id |-> t, team |-> t].team = t
        OBVIOUS
      <4>2. [id |-> n + 3, team |-> 1].id = n + 3 /\ [id |-> n + 3, team |-> 1].team = 1
        OBVIOUS
      <4> SUFFICES ASSUME NEW c \in cats
                   PROVE  c.team \in Team /\ (c.id = c.team \/ (c.id = n + 3 /\ c.team = 1))
        OBVIOUS
      <4>3. CASE c = [id |-> n + 3, team |-> 1]
        BY <1>1, <4>2, <4>3
      <4>4. CASE c \in {[id |-> t, team |-> t] : t \in Team}
        BY <4>1, <4>4
      <4> QED  BY <1>4, <4>3, <4>4
    <3>2. \A c \in cats : c.id <= lastId
      BY <1>1, <1>3, <3>1
    <3>3. \A c \in cats : c = [id |-> c.id, team |-> c.team]
      BY <1>9 DEF CatRows
    <3>4. \A c, d \in cats : c.id = d.id => c.team = d.team
      BY <1>1, <3>1
    <3>5. \A c, d \in cats : c.id = d.id => c = d
      BY <3>3, <3>4
    <3> QED  BY <3>2, <3>5 DEF Given
  <2>2. Given(keys) /\ Given(srv)
    <3>1. n + 1 <= lastId /\ n + 2 <= lastId
      BY <1>1, <1>3
    <3> QED  BY <1>6, <1>7, <1>8, <3>1 DEF Given
  <2>3. \A k \in keys : k.id > 0
    BY <1>1, <1>6
  <2>4. \A s \in srv : s.key <= lastId
    BY <1>1, <1>3, <1>7, <1>8
  <2>5. \A s \in srv, k \in keys : s.key = k.id => k.team = s.team /\ k.val = s.wants
    BY <1>1, <1>6, <1>7, <1>8
  <2> QED  BY <2>1, <2>2, <2>3, <2>4, <2>5 DEF RowsInv
<1>14. ExportInv /\ StopInv /\ \A i \in Import : ImportOK(import[i])
  BY <1>5, IdleIsIdle DEF ExportInv, ExportOK, StopInv, ImportOK
<1>15. CatsInv
  <2>1. ASSUME NEW t \in Team
        PROVE  \E c \in cats : c.team = t
    <3>1. [id |-> t, team |-> t] \in cats
      BY <1>4
    <3> QED  BY <3>1
  <2>2. \E c \in cats : c.team = 1 /\ c.id = n + 3
    <3>1. [id |-> n + 3, team |-> 1] \in cats
      BY <1>4
    <3> QED  BY <3>1
  <2> QED  BY <1>7, <1>8, <2>1, <2>2 DEF CatsInv
<1>16. KeysInv
  BY <1>6, <1>7, <1>8 DEF KeysInv
<1>17. SealsInv
  <2>1. ~(n + 1 > n + 2) /\ ~(n + 2 > n + 2)
    BY <1>1
  <2> QED  BY <1>6, <1>7, <1>8, <2>1 DEF SealsInv, n
<1>18. WorkersInv
  BY <1>11 DEF WorkersInv
<1> QED  BY <1>10, <1>12, <1>13, <1>14, <1>15, <1>16, <1>17, <1>18 DEF TeamInv

-----------------------------------------------------------------------------
(* TeamConfig: steps that leave the rows alone *)

TeamRows == <<cats, keys, srv, lastId>>

LEMMA RowsSame ==
    ASSUME TeamInv, UNCHANGED TeamRows, lost'.keys = lost.keys
    PROVE  /\ RowsInv' /\ CatsInv' /\ KeysInv' /\ SealsInv'
           /\ \A m : ImportOK(m)' <=> ImportOK(m)
           /\ \A id : Connects(id)' <=> Connects(id)
           /\ \A id : Startable(id)' <=> Startable(id)
           /\ \A d : Sound(d)' <=> Sound(d)
<1> USE DEF TeamRows
<1>1. RowsInv'
  BY DEF TeamInv, RowsInv, Given
<1>2. CatsInv' /\ KeysInv' /\ SealsInv'
  BY DEF TeamInv, CatsInv, KeysInv, SealsInv
<1>3. \A d : Sound(d)' <=> Sound(d)
  BY DEF Sound
<1>4. \A m : ImportOK(m)' <=> ImportOK(m)
  BY <1>3 DEF ImportOK
<1>5. \A id : (Connects(id)' <=> Connects(id)) /\ (Startable(id)' <=> Startable(id))
  BY DEF Connects, Startable, T!Connectable, T!Readable
<1> QED  BY <1>1, <1>2, <1>3, <1>4, <1>5

\* What ReconcileServer and a retry do to the worker and the retry of a server.
LEMMA ReconciledFacts ==
    ASSUME TeamInv, NEW id, T!Reconciled(id)
    PROVE  /\ \A x : x \in worker' <=> (x \in worker /\ x # id) \/ (x = id /\ Startable(id))
           /\ \A x : x \in retry' <=>
                (x \in retry /\ x # id) \/ (x = id /\ Connects(id) /\ ~Startable(id))
           /\ Startable(id) => Connects(id)
           /\ id \in Nat => worker' \in SUBSET Nat /\ retry' \in SUBSET Nat
<1>1. \A s, q \in srv : s.id = q.id => s = q
  BY DEF TeamInv, RowsInv, Given
<1>2. worker \in SUBSET Nat /\ retry \in SUBSET Nat
  BY DEF TeamInv, TeamType
<1> QED  BY <1>1, <1>2, StartFacts DEF T!Reconciled

\* A server is reconciled: by a handler, or because its retry is due.
LEMMA ReconcileKeeps ==
    ASSUME TeamInv, NEW id, T!ReconcileServer(id) \/ T!RetryReconcile(id)
    PROVE  TeamInv'
<1>1. /\ start' \in {start, start \ {id}} /\ T!Reconciled(id) /\ id \in Nat
      /\ UNCHANGED TeamRows /\ UNCHANGED <<stop, export, file, import, lost>>
  BY DEF T!ReconcileServer, T!RetryReconcile, T!rows, TeamRows, TeamInv, TeamType
<1>2. /\ \A x : x \in worker' <=> (x \in worker /\ x # id) \/ (x = id /\ Startable(id))
      /\ \A x : x \in retry' <=>
           (x \in retry /\ x # id) \/ (x = id /\ Connects(id) /\ ~Startable(id))
      /\ Startable(id) => Connects(id)
      /\ worker' \in SUBSET Nat /\ retry' \in SUBSET Nat
  BY <1>1, ReconciledFacts
<1>4. /\ RowsInv' /\ CatsInv' /\ KeysInv' /\ SealsInv'
      /\ \A m : ImportOK(m)' <=> ImportOK(m)
      /\ \A x : Connects(x)' <=> Connects(x)
      /\ \A x : Startable(x)' <=> Startable(x)
      /\ \A d : Sound(d)' <=> Sound(d)
  BY <1>1, RowsSame
<1>5. TeamType'
  BY <1>1, <1>2 DEF TeamInv, TeamType, TeamRows
<1>6. ExportInv' /\ StopInv'
  BY <1>1, <1>4 DEF TeamInv, ExportInv, ExportOK, StopInv, TeamRows
<1>7. WorkersInv'
  <2>1. \A x : WillStop(x)' <=> WillStop(x)
    BY <1>1 DEF WillStop
  <2>2. \A x : WillStart(x)' \/ x = id <=> WillStart(x) \/ x = id
    BY <1>1 DEF WillStart
  <2> QED  BY <1>1, <1>2, <1>4, <2>1, <2>2 DEF TeamInv, WorkersInv
<1> QED  BY <1>1, <1>4, <1>5, <1>6, <1>7 DEF TeamInv

LEMMA StopServerKeeps ==
    ASSUME TeamInv, NEW id \in stop, T!StopServer(id)
    PROVE  TeamInv'
<1>1. /\ stop' = stop \ {id} /\ worker' = worker \ {id} /\ retry' = retry \ {id}
      /\ UNCHANGED TeamRows /\ UNCHANGED <<start, export, file, import, lost>>
  BY DEF T!StopServer, T!Stopped, T!rows, TeamRows
<1>2. ~Connects(id)
  BY DEF TeamInv, StopInv, Connects
<1>4. /\ RowsInv' /\ CatsInv' /\ KeysInv' /\ SealsInv'
      /\ \A m : ImportOK(m)' <=> ImportOK(m)
      /\ \A x : Connects(x)' <=> Connects(x)
      /\ \A x : Startable(x)' <=> Startable(x)
      /\ \A d : Sound(d)' <=> Sound(d)
  BY <1>1, RowsSame
<1>5. TeamType'
  BY <1>1 DEF TeamInv, TeamType, TeamRows
<1>6. ExportInv' /\ StopInv'
  BY <1>1, <1>4 DEF TeamInv, ExportInv, ExportOK, StopInv, TeamRows
<1>7. WorkersInv'
  <2>1. \A x : WillStop(x)' \/ x = id <=> WillStop(x) \/ x = id
    BY <1>1 DEF WillStop
  <2>2. \A x : WillStart(x)' <=> WillStart(x)
    BY <1>1 DEF WillStart
  <2> QED  BY <1>1, <1>2, <1>4, <2>1, <2>2 DEF TeamInv, WorkersInv
<1> QED  BY <1>1, <1>4, <1>5, <1>6, <1>7 DEF TeamInv

\* The progress of one import, outside its commit and what follows it.
LEMMA ImportMoves ==
    ASSUME TeamInv, UNCHANGED TeamRows,
           UNCHANGED <<worker, retry, start, stop, export, file, lost>>,
           NEW i \in Import, NEW m \in ImportStates, import' = [import EXCEPT ![i] = m],
           import[i].step # "after", m.step # "after", ImportOK(m)
    PROVE  TeamInv'
<1>1. /\ RowsInv' /\ CatsInv' /\ KeysInv' /\ SealsInv'
      /\ \A q : ImportOK(q)' <=> ImportOK(q)
      /\ \A x : Connects(x)' <=> Connects(x)
      /\ \A x : Startable(x)' <=> Startable(x)
      /\ \A d : Sound(d)' <=> Sound(d)
  BY RowsSame
<1>2. \A j \in Import : import'[j] = IF j = i THEN m ELSE import[j]
  BY DEF TeamInv, TeamType
<1>3. TeamType'
  BY DEF TeamInv, TeamType, TeamRows
<1>4. ExportInv' /\ StopInv'
  BY <1>1 DEF TeamInv, ExportInv, ExportOK, StopInv, TeamRows
<1>5. \A j \in Import : ImportOK(import'[j])
  BY <1>2 DEF TeamInv
<1>6. WorkersInv'
  <2>1. \A x : WillStop(x)' <=> WillStop(x)
    BY <1>2 DEF WillStop
  <2>2. \A x : WillStart(x)' <=> WillStart(x)
    BY <1>2 DEF WillStart
  <2> QED  BY <1>1, <2>1, <2>2 DEF TeamInv, WorkersInv
<1> QED  BY <1>1, <1>3, <1>4, <1>5, <1>6 DEF TeamInv

LEMMA ImportShape ==
    ASSUME NEW m \in ImportStates
    PROVE  /\ m.step \in {"idle", "done", "checked", "listed", "cleared", "after"}
           /\ m.step \in {"checked", "listed", "cleared"} =>
                m.team \in Team /\ m.data \in Contents(FileRows)
           /\ m.step \in {"listed", "cleared"} => m.old \in SUBSET Nat
           /\ m.step = "cleared" => m.dropped \in SUBSET Nat
           /\ m.step = "after" =>
                /\ m.stop \in SUBSET Nat /\ m.start \in SUBSET Nat
                /\ m \in [step : {"after"}, stop : SUBSET Nat, start : SUBSET Nat]
<1>1. CASE m \in {T!Idle, T!Done}
  BY <1>1, IdleIsIdle
<1>2. CASE m \in [step : {"checked"}, team : Team, data : Contents(FileRows)]
  BY <1>2
<1>3. CASE m \in [step : {"listed"}, team : Team, data : Contents(FileRows), old : SUBSET Nat]
  BY <1>3
<1>4. CASE m \in [step : {"cleared"}, team : Team, data : Contents(FileRows), old : SUBSET Nat,
                  dropped : SUBSET Nat]
  BY <1>4
<1>5. CASE m \in [step : {"after"}, stop : SUBSET Nat, start : SUBSET Nat]
  BY <1>5
<1> QED  BY <1>1, <1>2, <1>3, <1>4, <1>5 DEF ImportStates

LEMMA TeamIds ==
    ASSUME TeamInv, NEW t
    PROVE  /\ T!Ids(T!Of(srv, t)) \in SUBSET Nat
           /\ \A id \in T!Ids(T!Of(srv, t)) : id <= lastId
           /\ \A s \in srv : s.id \in T!Ids(T!Of(srv, t)) => s.team = t
BY DEF TeamInv, TeamType, RowsInv, Given, T!Ids, T!Of, ServerRows

LEMMA PreflightKeeps ==
    ASSUME TeamInv, NEW i \in Import, NEW t \in Team, NEW trust \in BOOLEAN, T!preflight(i, t, trust)
    PROVE  TeamInv'
<1> DEFINE m == [step |-> "checked", team |-> t, data |-> file]
<1>1. m \in ImportStates /\ m.step = "checked" /\ m.data = file
  BY DEF TeamInv, TeamType, ImportStates
<1>2. /\ import[i] = T!Idle /\ import' = [import EXCEPT ![i] = m]
      /\ UNCHANGED TeamRows /\ UNCHANGED <<worker, retry, start, stop, export, file, lost>>
  BY DEF T!preflight, T!rows, TeamRows
<1> HIDE DEF m
<1>3. ImportOK(m)
  BY <1>1 DEF ImportOK, TeamInv
<1> QED  BY <1>1, <1>2, <1>3, IdleIsIdle, ImportMoves

LEMMA ListOldKeeps ==
    ASSUME TeamInv, NEW i \in Import, T!ListOld(i)
    PROVE  TeamInv'
<1> DEFINE old == T!Ids(T!Of(srv, import[i].team))
           m == [step |-> "listed", team |-> import[i].team, data |-> import[i].data, old |-> old]
<1>1. /\ import[i].step = "checked" /\ import' = [import EXCEPT ![i] = m]
      /\ UNCHANGED TeamRows /\ UNCHANGED <<worker, retry, start, stop, export, file, lost>>
  BY DEF T!ListOld, T!rows, TeamRows
<1>2. import[i] \in ImportStates /\ ImportOK(import[i])
  BY DEF TeamInv, TeamType
<1>3. import[i].team \in Team /\ import[i].data \in Contents(FileRows) /\ Sound(import[i].data)
  BY <1>1, <1>2, ImportShape DEF ImportOK
<1>4. /\ old \in SUBSET Nat /\ \A id \in old : id <= lastId
      /\ \A s \in srv : s.id \in old => s.team = import[i].team
  BY TeamIds
<1> HIDE DEF old
<1>5. m \in ImportStates /\ m.step = "listed" /\ m.data = import[i].data /\ m.old = old
      /\ m.team = import[i].team
  BY <1>3, <1>4 DEF ImportStates
<1> HIDE DEF m
<1>6. ImportOK(m)
  BY <1>3, <1>4, <1>5 DEF ImportOK
<1> QED  BY <1>1, <1>5, <1>6, ImportMoves

LEMMA ClearKeeps ==
    ASSUME TeamInv, NEW i \in Import, T!clearServers(i)
    PROVE  TeamInv'
<1> DEFINE dropped == T!Ids(T!Of(srv, import[i].team))
           m == [step |-> "cleared", team |-> import[i].team, data |-> import[i].data,
                 old |-> import[i].old, dropped |-> dropped]
<1>1. /\ import[i].step = "listed" /\ import' = [import EXCEPT ![i] = m]
      /\ UNCHANGED TeamRows /\ UNCHANGED <<worker, retry, start, stop, export, file, lost>>
  BY DEF T!clearServers, T!rows, TeamRows
<1>2. import[i] \in ImportStates /\ ImportOK(import[i])
  BY DEF TeamInv, TeamType
<1>3. /\ import[i].team \in Team /\ import[i].data \in Contents(FileRows) /\ Sound(import[i].data)
      /\ import[i].old \in SUBSET Nat /\ \A id \in import[i].old : id <= lastId
      /\ \A s \in srv : s.id \in import[i].old => s.team = import[i].team
  BY <1>1, <1>2, ImportShape DEF ImportOK
<1>4. dropped \in SUBSET Nat
  BY TeamIds
<1> HIDE DEF dropped
<1>5. m \in ImportStates /\ m.step = "cleared" /\ m.data = import[i].data /\ m.old = import[i].old
      /\ m.team = import[i].team
  BY <1>3, <1>4 DEF ImportStates
<1> HIDE DEF m
<1>6. ImportOK(m)
  BY <1>3, <1>5 DEF ImportOK
<1> QED  BY <1>1, <1>5, <1>6, ImportMoves

LEMMA AbortKeeps ==
    ASSUME TeamInv, NEW i \in Import, T!AbortImport(i)
    PROVE  TeamInv'
<1>1. /\ import[i].step \in {"checked", "listed", "cleared"}
      /\ import' = [import EXCEPT ![i] = T!Done]
      /\ UNCHANGED TeamRows /\ UNCHANGED <<worker, retry, start, stop, export, file, lost>>
  BY DEF T!AbortImport, T!rows, TeamRows
<1>2. ImportOK(T!Done)
  BY IdleIsIdle DEF ImportOK
<1> QED  BY <1>1, <1>2, IdleIsIdle, ImportMoves

LEMMA AfterKeeps ==
    ASSUME TeamInv, NEW i \in Import, T!AfterImport(i)
    PROVE  TeamInv'
<1>1. /\ import[i].step = "after"
      /\ UNCHANGED TeamRows /\ UNCHANGED <<start, stop, export, file, lost>>
  BY DEF T!AfterImport, T!rows, TeamRows
<1>2. import[i] \in ImportStates /\ ImportOK(import[i])
  BY DEF TeamInv, TeamType
<1>3. /\ import[i] \in [step : {"after"}, stop : SUBSET Nat, start : SUBSET Nat]
      /\ import[i].stop \in SUBSET Nat /\ import[i].start \in SUBSET Nat
      /\ \A id \in import[i].stop : id <= lastId
      /\ \A s \in srv : s.id \notin import[i].stop
  BY <1>1, <1>2, ImportShape DEF ImportOK
<1>4. /\ RowsInv' /\ CatsInv' /\ KeysInv' /\ SealsInv'
      /\ \A m : ImportOK(m)' <=> ImportOK(m)
      /\ \A x : Connects(x)' <=> Connects(x)
      /\ \A x : Startable(x)' <=> Startable(x)
      /\ \A d : Sound(d)' <=> Sound(d)
  BY <1>1, RowsSame
<1>5. ExportInv' /\ StopInv'
  BY <1>1, <1>4 DEF TeamInv, ExportInv, ExportOK, StopInv, TeamRows
<1>6. ASSUME NEW m \in ImportStates, ImportOK(m), import' = [import EXCEPT ![i] = m],
             worker' \in SUBSET Nat, retry' \in SUBSET Nat, WorkersInv'
      PROVE  TeamInv'
  <2>1. \A j \in Import : import'[j] = IF j = i THEN m ELSE import[j]
    BY <1>6 DEF TeamInv, TeamType
  <2>2. TeamType'
    BY <1>1, <1>6 DEF TeamInv, TeamType, TeamRows
  <2>3. \A j \in Import : ImportOK(import'[j])
    BY <1>6, <2>1 DEF TeamInv
  <2> QED  BY <1>1, <1>4, <1>5, <1>6, <2>2, <2>3 DEF TeamInv
<1>7. ASSUME NEW id \in import[i].stop, worker' = worker \ {id}, retry' = retry \ {id},
             import' = [import EXCEPT ![i].stop = @ \ {id}]
      PROVE  TeamInv'
  <2> DEFINE m == [import[i] EXCEPT !.stop = @ \ {id}]
  <2>1. import' = [import EXCEPT ![i] = m]
    BY <1>7
  <2>2. m \in ImportStates /\ m.step = "after" /\ m.stop = import[i].stop \ {id}
        /\ m.start = import[i].start
    BY <1>3 DEF ImportStates
  <2> HIDE DEF m
  <2>3. ImportOK(m)
    BY <1>3, <2>2 DEF ImportOK
  <2>4. \A j \in Import : import'[j] = IF j = i THEN m ELSE import[j]
    BY <2>1 DEF TeamInv, TeamType
  <2>5. ~Connects(id)
    BY <1>3 DEF Connects
  <2>6. \A x : WillStart(x)' <=> WillStart(x)
    BY <1>1, <2>2, <2>4 DEF WillStart
  <2>7. \A x : x # id /\ WillStop(x) => WillStop(x)'
    BY <1>1, <2>2, <2>4 DEF WillStop
  <2>8. WorkersInv'
    BY <1>1, <1>4, <1>7, <2>5, <2>6, <2>7 DEF TeamInv, WorkersInv
  <2>9. worker' \in SUBSET Nat /\ retry' \in SUBSET Nat
    BY <1>7 DEF TeamInv, TeamType
  <2> QED  BY <1>6, <2>1, <2>2, <2>3, <2>8, <2>9
<1>8. ASSUME NEW id \in import[i].start, T!Reconciled(id),
             import' = [import EXCEPT ![i].start = @ \ {id}]
      PROVE  TeamInv'
  <2> DEFINE m == [import[i] EXCEPT !.start = @ \ {id}]
  <2>1. import' = [import EXCEPT ![i] = m]
    BY <1>8
  <2>2. m \in ImportStates /\ m.step = "after" /\ m.start = import[i].start \ {id}
        /\ m.stop = import[i].stop
    BY <1>3 DEF ImportStates
  <2> HIDE DEF m
  <2>3. ImportOK(m)
    BY <1>3, <2>2 DEF ImportOK
  <2>4. \A j \in Import : import'[j] = IF j = i THEN m ELSE import[j]
    BY <2>1 DEF TeamInv, TeamType
  <2>6. /\ \A x : x \in worker' <=> (x \in worker /\ x # id) \/ (x = id /\ Startable(id))
        /\ \A x : x \in retry' <=>
             (x \in retry /\ x # id) \/ (x = id /\ Connects(id) /\ ~Startable(id))
        /\ Startable(id) => Connects(id)
        /\ worker' \in SUBSET Nat /\ retry' \in SUBSET Nat
    BY <1>3, <1>8, ReconciledFacts
  <2>7. \A x : WillStop(x)' <=> WillStop(x)
    BY <1>1, <2>2, <2>4 DEF WillStop
  <2>8. \A x : x # id /\ WillStart(x) => WillStart(x)'
    BY <1>1, <2>2, <2>4 DEF WillStart
  <2>9. WorkersInv'
    BY <1>1, <1>4, <2>6, <2>7, <2>8 DEF TeamInv, WorkersInv
  <2> QED  BY <1>6, <2>1, <2>2, <2>3, <2>6, <2>9
<1>9. ASSUME import[i].stop = {}, import[i].start = {}, import' = [import EXCEPT ![i] = T!Done],
             UNCHANGED <<worker, retry>>
      PROVE  TeamInv'
  <2>1. \A j \in Import : import'[j] = IF j = i THEN T!Done ELSE import[j]
    BY <1>9 DEF TeamInv, TeamType
  <2>2. \A x : (WillStart(x)' <=> WillStart(x)) /\ (WillStop(x)' <=> WillStop(x))
    BY <1>1, <1>9, <2>1, IdleIsIdle DEF WillStart, WillStop
  <2>3. WorkersInv'
    BY <1>1, <1>4, <1>9, <2>2 DEF TeamInv, WorkersInv
  <2>4. ImportOK(T!Done)
    BY IdleIsIdle DEF ImportOK
  <2>5. worker' \in SUBSET Nat /\ retry' \in SUBSET Nat
    BY <1>9 DEF TeamInv, TeamType
  <2> QED  BY <1>6, <1>9, <2>3, <2>4, <2>5, IdleIsIdle
<1> QED  BY <1>7, <1>8, <1>9 DEF T!AfterImport, T!Stopped

LEMMA ExportMoves ==
    ASSUME TeamInv, UNCHANGED TeamRows, UNCHANGED <<worker, retry, start, stop, import, lost>>,
           export' \in ExportStates, ExportOK(export'),
           file' \in Contents(FileRows), Sound(file')
    PROVE  TeamInv'
<1>1. /\ RowsInv' /\ CatsInv' /\ KeysInv' /\ SealsInv'
      /\ \A q : ImportOK(q)' <=> ImportOK(q)
      /\ \A x : Connects(x)' <=> Connects(x)
      /\ \A x : Startable(x)' <=> Startable(x)
  BY RowsSame
<1>2. TeamType'
  BY DEF TeamInv, TeamType, TeamRows
<1>3. ExportInv' /\ StopInv' /\ Sound(file)'
  BY DEF TeamInv, ExportInv, ExportOK, StopInv, TeamRows, Sound
<1>4. \A j \in Import : ImportOK(import'[j])
  BY DEF TeamInv
<1>5. WorkersInv'
  <2>1. \A x : WillStop(x)' <=> WillStop(x)
    BY DEF WillStop
  <2>2. \A x : WillStart(x)' <=> WillStart(x)
    BY DEF WillStart
  <2> QED  BY <1>1, <2>1, <2>2 DEF TeamInv, WorkersInv
<1> QED  BY <1>1, <1>2, <1>3, <1>4, <1>5 DEF TeamInv

LEMMA ExportShape ==
    ASSUME NEW e \in ExportStates, e.step \in {"keys", "servers", "connections"}
    PROVE  /\ e \notin {T!Idle, T!Done}
           /\ e \in [step : {"keys", "servers", "connections"}, team : Team, skip : BOOLEAN,
                     bad : SUBSET Nat, out : Contents(ServerRows)]
           /\ e.out \in Contents(ServerRows) /\ e.team \in Team
           /\ e.out.cats \in SUBSET Nat /\ e.out.keys \in SUBSET KeyRefs
           /\ e.out.srv \in SUBSET ServerRows /\ e.out.ok \in BOOLEAN
           /\ e.out = [ok |-> e.out.ok, cats |-> e.out.cats, keys |-> e.out.keys, srv |-> e.out.srv]
<1>1. e \notin {T!Idle, T!Done}
  BY IdleIsIdle
<1>2. e \in [step : {"keys", "servers", "connections"}, team : Team, skip : BOOLEAN,
             bad : SUBSET Nat, out : Contents(ServerRows)]
  BY <1>1 DEF ExportStates
<1>3. e.out \in Contents(ServerRows) /\ e.team \in Team
  BY <1>2
<1> QED  BY <1>1, <1>2, <1>3 DEF Contents

LEMMA DoneExport ==
    ASSUME TeamInv, UNCHANGED TeamRows, UNCHANGED <<worker, retry, start, stop, import, lost>>,
           export' = T!Done, file' \in Contents(FileRows), Sound(file')
    PROVE  TeamInv'
<1>1. ExportOK(export') /\ export' \in ExportStates
  BY IdleIsIdle DEF ExportOK
<1> QED  BY <1>1, ExportMoves

LEMMA ExportCategoriesKeeps ==
    ASSUME TeamInv, NEW t \in Team, NEW skip \in BOOLEAN, T!ExportCategories(t, skip)
    PROVE  TeamInv'
<1> DEFINE c == T!Ids(T!Of(cats, t))
           d == [ok |-> TRUE, cats |-> c, keys |-> {}, srv |-> {}]
           e == [step |-> "keys", team |-> t, skip |-> skip, bad |-> {}, out |-> d]
<1>1. /\ export' = e /\ UNCHANGED TeamRows
      /\ UNCHANGED <<worker, retry, start, stop, file, import, lost>>
  BY DEF T!ExportCategories, T!NoFile, T!rows, TeamRows
<1>2. c \in SUBSET Nat
  BY DEF T!Ids, T!Of, TeamInv, TeamType, CatRows
<1>3. IsFiniteSet(c)
  <2>1. T!Of(cats, t) \in SUBSET cats /\ IsFiniteSet(cats)
    BY DEF T!Of, TeamInv, TeamType
  <2>2. IsFiniteSet(T!Of(cats, t))
    BY <2>1, FS_Subset
  <2>3. c = {x.id : x \in T!Of(cats, t)}
    BY DEF T!Ids
  <2> QED  BY <2>2, <2>3, IdsFinite
<1> HIDE DEF c
<1>4. d \in Contents(ServerRows) /\ d.keys = {} /\ d.srv = {} /\ d.cats = c
  BY <1>2 DEF Contents
<1>5. Sound(d)
  BY <1>3, <1>4, EmptySound
<1> HIDE DEF d
<1>6. e \in ExportStates /\ e.step = "keys" /\ e.out = d
  BY <1>4 DEF ExportStates
<1> HIDE DEF e
<1>7. ExportOK(e)
  BY <1>4, <1>5, <1>6 DEF ExportOK
<1>8. file' \in Contents(FileRows) /\ Sound(file')
  BY <1>1 DEF TeamInv, TeamType
<1> QED  BY <1>1, <1>6, <1>7, <1>8, ExportMoves

LEMMA ExportKeysKeeps ==
    ASSUME TeamInv, T!exportKeys
    PROVE  TeamInv'
<1> DEFINE mine == T!Of(keys, export.team)
           bad == {k \in mine : k.seal # k.id}
           refs == {[ref |-> k.id, val |-> k.val] : k \in mine \ bad}
           e == [export EXCEPT !.step = "servers", !.bad = T!Ids(bad), !.out.keys = refs]
<1>1. /\ export.step = "keys" /\ export' \in {T!Done, e} /\ UNCHANGED TeamRows
      /\ UNCHANGED <<worker, retry, start, stop, file, import, lost>>
  BY DEF T!exportKeys, T!rows, TeamRows
<1>2. export \in ExportStates /\ ExportOK(export)
  BY DEF TeamInv, TeamType, ExportInv
<1>3. file' \in Contents(FileRows) /\ Sound(file')
  BY <1>1 DEF TeamInv, TeamType
<1>4. /\ export \in [step : {"keys", "servers", "connections"}, team : Team, skip : BOOLEAN,
                     bad : SUBSET Nat, out : Contents(ServerRows)]
      /\ export.out.cats \in SUBSET Nat /\ export.out.ok \in BOOLEAN
      /\ export.out = [ok |-> export.out.ok, cats |-> export.out.cats,
                       keys |-> export.out.keys, srv |-> export.out.srv]
      /\ IsFiniteSet(export.out.cats) /\ export.out.srv = {}
  BY <1>1, <1>2, ExportShape DEF ExportOK, Sound
<1>5. mine \in SUBSET keys /\ bad \in SUBSET mine /\ mine \ bad \in SUBSET keys
      /\ keys \in SUBSET KeyRows /\ IsFiniteSet(keys)
  BY DEF T!Of, TeamInv, TeamType
<1>6. T!Ids(bad) \in SUBSET Nat
  BY <1>5 DEF T!Ids, KeyRows
<1>7. refs \in SUBSET KeyRefs /\ IsFiniteSet(refs)
  <2> DEFINE X == mine \ bad
             f == [k \in X |-> [ref |-> k.id, val |-> k.val]]
  <2>1. refs \in SUBSET KeyRefs
    BY <1>5 DEF KeyRows, KeyRefs
  <2>2. IsFiniteSet(X)
    BY <1>5, FS_Subset
  <2>3. refs = {f[k] : k \in DOMAIN f}
    OBVIOUS
  <2> HIDE DEF X
  <2>4. IsFiniteSet({f[k] : k \in DOMAIN f})
    BY <2>2, ImageFinite
  <2> QED  BY <2>1, <2>3, <2>4
<1>8. \A r \in refs : \E k \in keys : r.ref = k.id /\ r.val = k.val
  BY <1>5
<1> HIDE DEF mine, refs, bad
<1> DEFINE d == [ok |-> export.out.ok, cats |-> export.out.cats, keys |-> refs, srv |-> {}]
<1>9. d \in Contents(ServerRows) /\ d.cats = export.out.cats /\ d.keys = refs /\ d.srv = {}
  BY <1>4, <1>7 DEF Contents
<1>10. e.out = d /\ e.step = "servers" /\ e \in ExportStates
  <2>1. [export.out EXCEPT !.keys = refs] = d
    BY <1>4
  <2>2. e = [export EXCEPT !.step = "servers", !.bad = T!Ids(bad), !.out = d]
    BY <1>4, <2>1
  <2> HIDE DEF d, e
  <2> QED  BY <1>4, <1>6, <1>9, <2>2 DEF ExportStates
<1> HIDE DEF d, e
<1>11. \A k, q \in keys : k.id = q.id => k = q
  BY DEF TeamInv, RowsInv, Given
<1>12. Sound(d)
  <2>1. \A k, m \in refs : k.ref = m.ref => k = m
    <3> SUFFICES ASSUME NEW k \in refs, NEW m \in refs, k.ref = m.ref
                 PROVE  k = m
      OBVIOUS
    <3>1. k.val = m.val
      BY <1>8, <1>11
    <3> QED  BY <1>7, <3>1 DEF KeyRefs
  <2>2. IsFiniteSet({})
    BY FS_EmptySet
  <2> QED  BY <1>4, <1>7, <1>9, <2>1, <2>2 DEF Sound
<1>13. ASSUME NEW r \in refs
       PROVE  /\ r.ref > 0 /\ r.ref <= lastId
              /\ \A k \in keys : k.id = r.ref => k.val = r.val
              /\ \A s \in srv : s.key = r.ref => s.wants = r.val
  <2>1. PICK k \in keys : r.ref = k.id /\ r.val = k.val
    BY <1>8
  <2>2. k.id > 0 /\ k.id <= lastId /\ \A s \in srv : s.key = k.id => k.val = s.wants
    BY DEF TeamInv, RowsInv, Given
  <2> QED  BY <1>11, <2>1, <2>2
<1>14. ExportOK(e)
  BY <1>9, <1>10, <1>12, <1>13 DEF ExportOK
<1>15. CASE export' = e
  BY <1>1, <1>3, <1>10, <1>14, <1>15, ExportMoves
<1>16. CASE export' = T!Done
  BY <1>1, <1>3, <1>16, DoneExport
<1> QED  BY <1>1, <1>15, <1>16

LEMMA ListServersKeeps ==
    ASSUME TeamInv, T!ListServers
    PROVE  TeamInv'
<1> DEFINE listed == T!Of(srv, export.team)
           e == [export EXCEPT !.step = "connections", !.out.srv = listed]
<1>1. /\ export.step = "servers" /\ export' = e /\ UNCHANGED TeamRows
      /\ UNCHANGED <<worker, retry, start, stop, file, import, lost>>
  BY DEF T!ListServers, T!rows, TeamRows
<1>2. export \in ExportStates /\ ExportOK(export)
  BY DEF TeamInv, TeamType, ExportInv
<1>3. file' \in Contents(FileRows) /\ Sound(file')
  BY <1>1 DEF TeamInv, TeamType
<1>4. /\ export \in [step : {"keys", "servers", "connections"}, team : Team, skip : BOOLEAN,
                     bad : SUBSET Nat, out : Contents(ServerRows)]
      /\ export.out.cats \in SUBSET Nat /\ export.out.keys \in SUBSET KeyRefs
      /\ export.out.ok \in BOOLEAN
      /\ export.out = [ok |-> export.out.ok, cats |-> export.out.cats,
                       keys |-> export.out.keys, srv |-> export.out.srv]
      /\ export \notin {T!Idle, T!Done}
  BY <1>1, <1>2, ExportShape
<1>5. /\ Sound(export.out)
      /\ \A r \in export.out.keys : \A s \in srv : s.key = r.ref => s.wants = r.val
  BY <1>1, <1>2, <1>4 DEF ExportOK
<1>6. listed \in SUBSET srv /\ listed \in SUBSET ServerRows /\ IsFiniteSet(srv)
  BY DEF T!Of, TeamInv, TeamType
<1>7. IsFiniteSet(listed)
  BY <1>6, FS_Subset
<1> HIDE DEF listed
<1> DEFINE d == [ok |-> export.out.ok, cats |-> export.out.cats, keys |-> export.out.keys,
                 srv |-> listed]
<1>8. d \in Contents(ServerRows) /\ d.cats = export.out.cats /\ d.keys = export.out.keys
      /\ d.srv = listed
  BY <1>4, <1>6 DEF Contents
<1>9. e.out = d /\ e.step = "connections" /\ e \in ExportStates
  <2>1. [export.out EXCEPT !.srv = listed] = d
    BY <1>4
  <2>2. e = [export EXCEPT !.step = "connections", !.out = d]
    BY <1>4, <2>1
  <2> HIDE DEF d, e
  <2> QED  BY <1>4, <1>8, <2>2 DEF ExportStates
<1> HIDE DEF d, e
<1>10. Sound(d)
  BY <1>5, <1>6, <1>7, <1>8 DEF Sound
<1>11. ExportOK(e)
  BY <1>9, <1>10 DEF ExportOK
<1> QED  BY <1>1, <1>3, <1>9, <1>11, ExportMoves

LEMMA ExportServersKeeps ==
    ASSUME TeamInv, T!exportServers
    PROVE  TeamInv'
<1> DEFINE listed == export.out.srv
           skipped == {s \in listed : T!Damaged(s) \/ (s.kind = 0 /\ s.key \in export.bad)}
           X == listed \ skipped
           made == {T!exportServerConnection(s) : s \in X}
           d == [export.out EXCEPT !.srv = made]
<1>1. /\ export.step = "connections" /\ export' = T!Done /\ file' \in {file, d}
      /\ UNCHANGED TeamRows /\ UNCHANGED <<worker, retry, start, stop, import, lost>>
  BY DEF T!exportServers, T!rows, TeamRows
<1>2. export \in ExportStates /\ ExportOK(export)
  BY DEF TeamInv, TeamType, ExportInv
<1>3. /\ export.out.cats \in SUBSET Nat /\ export.out.keys \in SUBSET KeyRefs
      /\ export.out.ok \in BOOLEAN /\ export.out.srv \in SUBSET ServerRows
      /\ export.out = [ok |-> export.out.ok, cats |-> export.out.cats,
                       keys |-> export.out.keys, srv |-> export.out.srv]
      /\ export \notin {T!Idle, T!Done}
  BY <1>1, <1>2, ExportShape
<1>4. Sound(export.out)
  BY <1>2, <1>3 DEF ExportOK
<1>5. X \in SUBSET listed /\ X \in SUBSET ServerRows
  BY <1>3
<1>6. IsFiniteSet(X)
  BY <1>4, <1>5, FS_Subset DEF Sound
<1> HIDE DEF X
<1>7. ASSUME NEW s \in X
      PROVE  /\ T!exportServerConnection(s) \in FileRows
             /\ T!exportServerConnection(s).key = s.key
             /\ T!exportServerConnection(s).wants = s.wants
  <2> DEFINE u == IF T!Found(s) THEN s.uid ELSE 0
  <2>1. /\ s.cat \in Nat /\ s.kind \in 0..2 /\ s.key \in Nat /\ s.wants \in Nat /\ u \in Nat
        /\ s.pinned \in BOOLEAN /\ s.id \in Nat
    BY <1>5 DEF ServerRows
  <2> HIDE DEF u
  <2>2. T!exportServerConnection(s) = [cat |-> s.cat, kind |-> s.kind, key |-> s.key, wants |-> s.wants,
                                       uid |-> u, pinned |-> s.pinned, ref |-> s.id]
    BY DEF T!exportServerConnection, u
  <2> QED  BY <2>1, <2>2 DEF FileRows
<1>8. IsFiniteSet(made)
  <2> DEFINE f == [s \in X |-> T!exportServerConnection(s)]
  <2>1. made = {f[s] : s \in DOMAIN f}
    OBVIOUS
  <2>2. IsFiniteSet({f[s] : s \in DOMAIN f})
    BY <1>6, ImageFinite
  <2> QED  BY <2>1, <2>2
<1>9. made \in SUBSET FileRows /\ \A r \in made : \E s \in X : r.key = s.key /\ r.wants = s.wants
  BY <1>7
<1> HIDE DEF made
<1>10. d \in Contents(FileRows) /\ d.cats = export.out.cats /\ d.keys = export.out.keys
       /\ d.srv = made
  <2>1. d = [ok |-> export.out.ok, cats |-> export.out.cats, keys |-> export.out.keys, srv |-> made]
    BY <1>3
  <2> QED  BY <1>3, <1>9, <2>1 DEF Contents
<1> HIDE DEF d
<1>11. Sound(d)
  <2>1. \A s \in made, k \in d.keys : s.key = k.ref => k.val = s.wants
    BY <1>4, <1>5, <1>9, <1>10 DEF Sound
  <2> QED  BY <1>4, <1>8, <1>10, <2>1 DEF Sound
<1>12. file' \in Contents(FileRows) /\ Sound(file')
  BY <1>1, <1>10, <1>11 DEF TeamInv, TeamType
<1> QED  BY <1>1, <1>12, DoneExport

LEMMA TeamRestartKeeps ==
    ASSUME TeamInv, T!Restart
    PROVE  TeamInv'
<1>1. /\ worker' = T!Monitored /\ retry' = T!Unstartable
      /\ start' = {} /\ stop' = {} /\ export' = T!Ended(export)
      /\ import' = [i \in Import |-> T!Ended(import[i])]
      /\ lost' = [lost EXCEPT !.srv = {}] /\ UNCHANGED TeamRows /\ file' = file
  BY DEF T!Restart, T!rows, TeamRows
<1>2. lost'.keys = lost.keys /\ lost' \in [keys : SUBSET Nat, srv : SUBSET Nat]
  BY <1>1 DEF TeamInv, TeamType
<1>3. \A e : T!Ended(e) \in {T!Idle, T!Done}
  BY DEF T!Ended
<1>4. /\ \A x : x \in T!Monitored <=> Startable(x)
      /\ \A x : x \in T!Unstartable <=> Connects(x) /\ ~Startable(x)
      /\ \A x : Startable(x) => Connects(x)
  <2>1. \A s, q \in srv : s.id = q.id => s = q
    BY DEF TeamInv, RowsInv, Given
  <2> QED  BY <2>1, StartFacts
<1>5. /\ RowsInv' /\ CatsInv' /\ KeysInv' /\ SealsInv'
      /\ \A x : Connects(x)' <=> Connects(x)
      /\ \A x : Startable(x)' <=> Startable(x)
      /\ \A d : Sound(d)' <=> Sound(d)
  BY <1>1, <1>2, RowsSame
<1>6. T!Monitored \in SUBSET Nat /\ T!Unstartable \in SUBSET Nat
  BY DEF T!Monitored, T!Unstartable, T!Ids, TeamInv, TeamType, ServerRows
<1>7. TeamType'
  <2>1. export' \in ExportStates /\ import' \in [Import -> ImportStates]
    BY <1>1, <1>3, IdleIsIdle
  <2> QED  BY <1>1, <1>2, <1>6, <2>1 DEF TeamInv, TeamType, TeamRows
<1>8. ExportInv' /\ StopInv' /\ \A i \in Import : ImportOK(import[i])'
  BY <1>1, <1>3, IdleIsIdle DEF ExportInv, ExportOK, StopInv, ImportOK
<1>9. WorkersInv'
  BY <1>1, <1>4, <1>5 DEF WorkersInv
<1> QED  BY <1>1, <1>5, <1>7, <1>8, <1>9 DEF TeamInv

-----------------------------------------------------------------------------
(* TeamConfig: edits *)

\* Rows go, or come with new ids; a server keeps its team and its key.
RowsMove ==
    /\ lastId' \in Nat /\ lastId <= lastId'
    /\ cats' \in SUBSET CatRows /\ keys' \in SUBSET KeyRows /\ srv' \in SUBSET ServerRows
    /\ \A k \in keys' : k \in keys \/ k.id > lastId
    /\ \A s \in srv' :
         \/ \E q \in srv : q.id = s.id /\ q.team = s.team /\ q.key = s.key /\ q.wants = s.wants
         \/ /\ s.id > lastId
            /\ \/ s.key = 0 \/ s.key > lastId
               \/ \E k \in keys : k.id = s.key /\ k.val = s.wants

\* What was read before the rows moved stays true.
LEMMA HistoryKeeps ==
    ASSUME TeamInv, RowsMove
    PROVE  /\ \A m \in ImportStates : ImportOK(m) => ImportOK(m)'
           /\ \A e \in ExportStates : ExportOK(e) => ExportOK(e)'
           /\ \A X \in SUBSET Nat :
                (\A id \in X : id <= lastId) /\ (\A s \in srv : s.id \notin X) =>
                    (\A id \in X : id <= lastId') /\ (\A s \in srv' : s.id \notin X)
<1>1. /\ lastId \in Nat /\ lastId' \in Nat /\ lastId <= lastId'
      /\ \A s \in srv' : s.id \in Nat /\ s.key \in Nat
      /\ \A k \in keys' : k.id \in Nat
  BY DEF TeamInv, TeamType, RowsMove, ServerRows, KeyRows
<1>2. ASSUME NEW X \in SUBSET Nat, \A id \in X : id <= lastId
      PROVE  \A id \in X : id <= lastId'
  BY <1>1, <1>2
<1>3. ASSUME NEW X \in SUBSET Nat, \A id \in X : id <= lastId, NEW s \in srv', s.id \in X
      PROVE  \E q \in srv : q.id = s.id /\ q.team = s.team
  <2>1. ~(s.id > lastId)
    BY <1>1, <1>3
  <2> QED  BY <2>1 DEF RowsMove
<1>4. ASSUME NEW m \in ImportStates, ImportOK(m)
      PROVE  ImportOK(m)'
  <2>1. m.step \in {"listed", "cleared"} => m.old \in SUBSET Nat
    BY ImportShape
  <2>2. m.step = "after" => m.stop \in SUBSET Nat
    BY ImportShape
  <2>3. m.step \in {"checked", "listed", "cleared"} => Sound(m.data)'
    BY <1>4 DEF ImportOK, Sound
  <2>4. m.step \in {"listed", "cleared"} =>
          /\ \A id \in m.old : id <= lastId'
          /\ \A s \in srv' : s.id \in m.old => s.team = m.team
    BY <1>2, <1>3, <1>4, <2>1 DEF ImportOK
  <2>5. m.step = "after" =>
          /\ \A id \in m.stop : id <= lastId'
          /\ \A s \in srv' : s.id \notin m.stop
    BY <1>2, <1>3, <1>4, <2>2 DEF ImportOK
  <2> QED  BY <2>3, <2>4, <2>5 DEF ImportOK
<1>5. ASSUME NEW e \in ExportStates, ExportOK(e)
      PROVE  ExportOK(e)'
  <2> SUFFICES ASSUME e \notin {T!Idle, T!Done}
               PROVE  ExportOK(e)'
    BY DEF ExportOK, T!Idle, T!Done
  <2>1. /\ Sound(e.out)
        /\ e.step = "keys" => e.out.keys = {}
        /\ e.step \in {"keys", "servers"} => e.out.srv = {}
    BY <1>5 DEF ExportOK
  <2>2. Sound(e.out)'
    BY <2>1 DEF Sound
  <2>3. ASSUME e.step = "servers", NEW r \in e.out.keys
        PROVE  /\ r.ref > 0 /\ r.ref <= lastId'
               /\ \A k \in keys' : k.id = r.ref => k.val = r.val
               /\ \A s \in srv' : s.key = r.ref => s.wants = r.val
    <3>1. /\ r.ref > 0 /\ r.ref <= lastId
          /\ \A k \in keys : k.id = r.ref => k.val = r.val
          /\ \A s \in srv : s.key = r.ref => s.wants = r.val
      BY <1>5, <2>3 DEF ExportOK
    <3>2. r.ref \in Nat
      BY <2>3, ExportShape DEF KeyRefs
    <3>3. r.ref <= lastId' /\ ~(r.ref > lastId) /\ r.ref # 0
      BY <1>1, <3>1, <3>2
    <3>4. \A k \in keys' : k.id = r.ref => k \in keys
      BY <3>3 DEF RowsMove
    <3>5. ASSUME NEW s \in srv', s.key = r.ref
          PROVE  s.wants = r.val
      BY <3>1, <3>3, <3>5 DEF RowsMove
    <3> QED  BY <3>1, <3>3, <3>4, <3>5
  <2> QED  BY <2>1, <2>2, <2>3 DEF ExportOK
<1>6. ASSUME NEW X \in SUBSET Nat, \A id \in X : id <= lastId, \A s \in srv : s.id \notin X
      PROVE  (\A id \in X : id <= lastId') /\ (\A s \in srv' : s.id \notin X)
  BY <1>2, <1>3, <1>6
<1> QED  BY <1>4, <1>5, <1>6

LEMMA EditKeeps ==
    ASSUME TeamInv, RowsMove, UNCHANGED <<export, file, import>>,
           IsFiniteSet(cats'), IsFiniteSet(keys'), IsFiniteSet(srv'),
           worker' \in SUBSET Nat, retry' \in SUBSET Nat,
           start' \in SUBSET Nat, stop' \in SUBSET Nat,
           lost' \in [keys : SUBSET Nat, srv : SUBSET Nat],
           RowsInv', StopInv', CatsInv', KeysInv', SealsInv', WorkersInv'
    PROVE  TeamInv'
<1>1. TeamType'
  BY DEF TeamInv, TeamType, RowsMove
<1>2. ExportInv'
  <2>1. export \in ExportStates /\ ExportOK(export)
    BY DEF TeamInv, TeamType, ExportInv
  <2>2. \A e \in ExportStates : ExportOK(e) => ExportOK(e)'
    BY HistoryKeeps
  <2>4. ASSUME NEW e, e = export, ExportOK(e)'
        PROVE  ExportInv'
    <3>1. export' = e
      BY <2>4
    <3> QED  BY <2>4, <3>1 DEF ExportInv, ExportOK, Sound
  <2> QED  BY <2>1, <2>2, <2>4
<1>3. (\A i \in Import : ImportOK(import[i]))'
  <2>1. \A m \in ImportStates : ImportOK(m) => ImportOK(m)'
    BY HistoryKeeps
  <2> SUFFICES ASSUME NEW i \in Import
               PROVE  ImportOK(import[i])'
    OBVIOUS
  <2>2. import[i] \in ImportStates /\ ImportOK(import[i])
    BY DEF TeamInv, TeamType
  <2>3. ASSUME NEW m, m = import[i], ImportOK(m)'
        PROVE  ImportOK(import[i])'
    <3>1. import'[i] = m
      BY <2>3
    <3> QED  BY <2>3, <3>1 DEF ImportOK, Sound
  <2> QED  BY <2>1, <2>2, <2>3
<1>4. Sound(file)'
  BY DEF TeamInv, Sound
<1> QED  BY <1>1, <1>2, <1>3, <1>4 DEF TeamInv

LEMMA TeamFacts ==
    ASSUME TeamInv
    PROVE  /\ lastId \in Nat /\ lastId + 1 \in Nat /\ lastId <= lastId + 1 /\ ~(lastId + 1 <= lastId)
           /\ \A c \in cats : c \in CatRows /\ c.id \in Nat /\ c.team \in Team /\ c.id <= lastId
           /\ \A k \in keys : /\ k \in KeyRows /\ k.id \in Nat /\ k.team \in Team /\ k.val \in Nat
                              /\ k.id <= lastId /\ k.id > 0
           /\ \A s \in srv : /\ s \in ServerRows /\ s.id \in Nat /\ s.team \in Team /\ s.cat \in Nat
                             /\ s.kind \in 0..2 /\ s.key \in Nat /\ s.wants \in Nat
                             /\ s.id <= lastId /\ s.key <= lastId
           /\ cats \in SUBSET CatRows /\ keys \in SUBSET KeyRows /\ srv \in SUBSET ServerRows
           /\ IsFiniteSet(cats) /\ IsFiniteSet(keys) /\ IsFiniteSet(srv)
           /\ worker \in SUBSET Nat /\ retry \in SUBSET Nat
           /\ start \in SUBSET Nat /\ stop \in SUBSET Nat
           /\ lost \in [keys : SUBSET Nat, srv : SUBSET Nat]
<1>1. TeamType /\ RowsInv
  BY DEF TeamInv
<1>2. lastId \in Nat /\ lastId + 1 \in Nat /\ lastId <= lastId + 1 /\ ~(lastId + 1 <= lastId)
  BY <1>1 DEF TeamType
<1>3. \A c \in cats : c \in CatRows /\ c.id \in Nat /\ c.team \in Team /\ c.id <= lastId
  BY <1>1 DEF TeamType, RowsInv, Given, CatRows
<1>4. \A k \in keys : /\ k \in KeyRows /\ k.id \in Nat /\ k.team \in Team /\ k.val \in Nat
                      /\ k.id <= lastId /\ k.id > 0
  BY <1>1 DEF TeamType, RowsInv, Given, KeyRows
<1>5. \A s \in srv : /\ s \in ServerRows /\ s.id \in Nat /\ s.team \in Team /\ s.cat \in Nat
                     /\ s.kind \in 0..2 /\ s.key \in Nat /\ s.wants \in Nat
                     /\ s.id <= lastId /\ s.key <= lastId
  BY <1>1 DEF TeamType, RowsInv, Given, ServerRows
<1> QED  BY <1>1, <1>2, <1>3, <1>4, <1>5 DEF TeamType

\* Workers, when neither the servers nor what is about to happen changes, and
\* keys only go or come readable.
LEMMA WorkersSame ==
    ASSUME TeamInv, UNCHANGED <<srv, worker, retry, start, stop, import>>,
           lost'.srv = lost.srv, \A k \in keys' : k \in keys \/ k.seal = k.id
    PROVE  WorkersInv'
<1>1. \A x : (Connects(x)' <=> Connects(x)) /\ (Startable(x) => Startable(x)')
  BY DEF Connects, Startable, T!Connectable, T!Readable
<1>2. \A x : (WillStart(x)' <=> WillStart(x)) /\ (WillStop(x)' <=> WillStop(x))
  BY DEF WillStart, WillStop
<1> QED  BY <1>1, <1>2 DEF TeamInv, WorkersInv

LEMMA CreateCategoryKeeps ==
    ASSUME TeamInv, NEW t \in Team, T!CreateCategory(t)
    PROVE  TeamInv'
<1> DEFINE c == [id |-> lastId + 1, team |-> t]
<1>1. /\ cats' = cats \cup {c} /\ lastId' = lastId + 1
      /\ UNCHANGED <<keys, srv, worker, retry, start, stop, export, file, import, lost>>
  BY DEF T!CreateCategory
<1>2. c \in CatRows /\ c.id = lastId + 1
  BY TeamFacts DEF CatRows
<1> HIDE DEF c
<1>3. RowsMove
  BY <1>1, <1>2, TeamFacts DEF RowsMove
<1>4. IsFiniteSet(cats')
  BY <1>1, TeamFacts, FS_AddElement
<1>5. RowsInv'
  <2>1. \A n \in Nat : n <= lastId => n <= lastId'
    BY <1>1, TeamFacts
  <2>2. Given(cats)'
    <3>1. \A x \in cats' : x.id <= lastId'
      BY <1>1, <1>2, <2>1, TeamFacts
    <3>2. \A x \in cats : x.id # c.id
      BY <1>2, TeamFacts
    <3>3. \A x, y \in cats : x.id = y.id => x = y
      BY DEF TeamInv, RowsInv, Given
    <3>4. \A x, y \in cats' : x.id = y.id => x = y
      BY <1>1, <3>2, <3>3
    <3> QED  BY <3>1, <3>4 DEF Given
  <2>3. Given(keys)' /\ Given(srv)'
    BY <1>1, <2>1, TeamFacts DEF TeamInv, RowsInv, Given
  <2>4. \A s \in srv' : s.key <= lastId'
    BY <1>1, <2>1, TeamFacts
  <2> QED  BY <1>1, <2>2, <2>3, <2>4 DEF TeamInv, RowsInv
<1>6. StopInv'
  BY <1>1, <1>3, HistoryKeeps, TeamFacts DEF TeamInv, StopInv
<1>7. CatsInv' /\ KeysInv' /\ SealsInv'
  BY <1>1 DEF TeamInv, CatsInv, KeysInv, SealsInv
<1>8. WorkersInv'
  BY <1>1, WorkersSame
<1> QED  BY <1>1, <1>3, <1>4, <1>5, <1>6, <1>7, <1>8, TeamFacts, EditKeeps

LEMMA AddKeyKeeps ==
    ASSUME TeamInv, NEW t \in Team, T!AddKey(t)
    PROVE  TeamInv'
<1> DEFINE k0 == [id |-> lastId + 1, team |-> t, val |-> lastId + 1, seal |-> lastId + 1]
<1>1. /\ keys' = keys \cup {k0} /\ lastId' = lastId + 1
      /\ UNCHANGED <<cats, srv, worker, retry, start, stop, export, file, import, lost>>
  BY DEF T!AddKey
<1>2. k0 \in KeyRows /\ k0.id = lastId + 1 /\ k0.seal = k0.id /\ k0.id > lastId /\ k0.id > 0
  BY TeamFacts DEF KeyRows
<1> HIDE DEF k0
<1>3. RowsMove
  BY <1>1, <1>2, TeamFacts DEF RowsMove
<1>4. IsFiniteSet(keys')
  BY <1>1, TeamFacts, FS_AddElement
<1>5. RowsInv'
  <2>1. \A n \in Nat : n <= lastId => n <= lastId' /\ n # k0.id
    BY <1>1, <1>2, TeamFacts
  <2>2. Given(keys)'
    <3>1. \A x \in keys' : x.id <= lastId'
      BY <1>1, <1>2, <2>1, TeamFacts
    <3>2. \A x \in keys : x.id # k0.id
      BY <2>1, TeamFacts
    <3>3. \A x, y \in keys : x.id = y.id => x = y
      BY DEF TeamInv, RowsInv, Given
    <3>4. \A x, y \in keys' : x.id = y.id => x = y
      BY <1>1, <3>2, <3>3
    <3> QED  BY <3>1, <3>4 DEF Given
  <2>3. Given(cats)' /\ Given(srv)'
    BY <1>1, <2>1, TeamFacts DEF TeamInv, RowsInv, Given
  <2>4. \A s \in srv' : s.key <= lastId'
    BY <1>1, <2>1, TeamFacts
  <2>5. \A k \in keys' : k.id > 0
    BY <1>1, <1>2, TeamFacts
  <2>6. \A s \in srv', k \in keys' : s.key = k.id => k.team = s.team /\ k.val = s.wants
    <3>1. \A s \in srv : s.key # k0.id
      BY <2>1, TeamFacts
    <3> QED  BY <1>1, <3>1 DEF TeamInv, RowsInv
  <2> QED  BY <2>2, <2>3, <2>4, <2>5, <2>6 DEF RowsInv
<1>6. StopInv'
  BY <1>1, <1>3, HistoryKeeps, TeamFacts DEF TeamInv, StopInv
<1>7. CatsInv' /\ KeysInv' /\ SealsInv'
  BY <1>1, <1>2 DEF TeamInv, CatsInv, KeysInv, SealsInv
<1>8. WorkersInv'
  BY <1>1, <1>2, WorkersSame
<1> QED  BY <1>1, <1>3, <1>4, <1>5, <1>6, <1>7, <1>8, TeamFacts, EditKeeps

LEMMA DeleteKeyKeeps ==
    ASSUME TeamInv, NEW k0 \in keys, T!DeleteKey(k0)
    PROVE  TeamInv'
<1>1. /\ keys' = keys \ {k0} /\ lost' = [lost EXCEPT !.keys = @ \cup {k0.id}]
      /\ UNCHANGED <<cats, srv, lastId, worker, retry, start, stop, export, file, import>>
  BY DEF T!DeleteKey
<1>2. /\ lost'.keys = lost.keys \cup {k0.id} /\ lost'.srv = lost.srv
      /\ lost' \in [keys : SUBSET Nat, srv : SUBSET Nat]
  BY <1>1, TeamFacts
<1>3. RowsMove
  BY <1>1, TeamFacts DEF RowsMove
<1>4. IsFiniteSet(keys')
  BY <1>1, TeamFacts, FS_RemoveElement
<1>5. RowsInv'
  BY <1>1 DEF TeamInv, RowsInv, Given
<1>6. StopInv'
  BY <1>1 DEF TeamInv, StopInv
<1>7. CatsInv' /\ KeysInv' /\ SealsInv'
  BY <1>1, <1>2 DEF TeamInv, CatsInv, KeysInv, SealsInv
<1>8. WorkersInv'
  BY <1>1, <1>2, WorkersSame
<1> QED  BY <1>1, <1>2, <1>3, <1>4, <1>5, <1>6, <1>7, <1>8, TeamFacts, EditKeeps

LEMMA DeleteServerKeeps ==
    ASSUME TeamInv, NEW s0 \in srv, T!DeleteServer(s0)
    PROVE  TeamInv'
<1>1. /\ srv' = srv \ {s0} /\ stop' = stop \cup {s0.id}
      /\ worker' \in {worker, worker \ {s0.id}} /\ retry' \in {retry, retry \ {s0.id}}
      /\ UNCHANGED <<cats, keys, lastId, start, export, file, import, lost>>
  BY DEF T!DeleteServer, T!Stopped
<1>2. worker' \in SUBSET Nat /\ retry' \in SUBSET Nat /\ stop' \in SUBSET Nat
  BY <1>1, TeamFacts
<1>3. RowsMove
  BY <1>1, TeamFacts DEF RowsMove
<1>4. IsFiniteSet(srv')
  BY <1>1, TeamFacts, FS_RemoveElement
<1>5. RowsInv'
  BY <1>1 DEF TeamInv, RowsInv, Given
<1>6. \A s \in srv' : s \in srv /\ s.id # s0.id
  BY <1>1 DEF TeamInv, RowsInv, Given
<1>7. StopInv'
  BY <1>1, <1>6, TeamFacts DEF TeamInv, StopInv
<1>8. CatsInv' /\ KeysInv' /\ SealsInv'
  BY <1>1 DEF TeamInv, CatsInv, KeysInv, SealsInv
<1>9. WorkersInv'
  <2>1. \A x : /\ Connects(x)' => Connects(x) /\ x # s0.id
               /\ Connects(x) => Connects(x)' \/ x = s0.id
               /\ Startable(x) => Startable(x)' \/ x = s0.id
    BY <1>1, <1>6 DEF Connects, Startable, T!Connectable, T!Readable
  <2>2. \A x : (WillStart(x)' <=> WillStart(x)) /\ (WillStop(x)' <=> WillStop(x) \/ x = s0.id)
    BY <1>1 DEF WillStart, WillStop
  <2>3. \A x : /\ x \in worker' => x \in worker
               /\ x \in worker /\ x # s0.id => x \in worker'
               /\ x \in retry' => x \in retry
               /\ x \in retry /\ x # s0.id => x \in retry'
    BY <1>1
  <2> QED  BY <1>1, <2>1, <2>2, <2>3 DEF TeamInv, WorkersInv
<1> QED  BY <1>1, <1>2, <1>3, <1>4, <1>5, <1>7, <1>8, <1>9, TeamFacts, EditKeeps

LEMMA AddServerKeeps ==
    ASSUME TeamInv, NEW c \in cats, NEW kind \in 0..2,
           NEW k \in T!Of(keys, c.team) \cup {T!NoKey(c.team)},
           T!AddServer(c.team, c, kind, k)
    PROVE  TeamInv'
<1> DEFINE id == lastId + 1
           uid == IF kind = 1 THEN id ELSE 0
           s0 == [id |-> id, team |-> c.team, cat |-> c.id, kind |-> kind, key |-> k.id,
                  wants |-> k.val, uid |-> uid, seal |-> id, pinned |-> TRUE]
<1>1. /\ srv' = srv \cup {s0} /\ lastId' = id /\ start' = start \cup {id}
      /\ UNCHANGED <<cats, keys, worker, retry, stop, export, file, import, lost>>
  BY DEF T!AddServer, T!Server
<1>2. (k \in keys /\ k.team = c.team) \/ (k.id = 0 /\ k.val = 0)
  BY DEF T!Of, T!NoKey
<1>3. id \in Nat /\ uid \in Nat /\ c.team \in Team /\ c.id \in Nat /\ k.id \in Nat /\ k.val \in Nat
      /\ k.id <= lastId
  BY <1>2, TeamFacts
<1> HIDE DEF uid
<1>4. /\ s0 \in ServerRows /\ s0.id = id /\ s0.team = c.team /\ s0.cat = c.id /\ s0.kind = kind
      /\ s0.key = k.id /\ s0.wants = k.val /\ s0.seal = id
  BY <1>3 DEF ServerRows
<1> HIDE DEF s0
<1>5. id > lastId /\ lastId <= id /\ id = lastId + 1
  BY TeamFacts
<1> HIDE DEF id
<1>6. RowsMove
  <2>1. s0.id > lastId /\ (s0.key = 0 \/ \E q \in keys : q.id = s0.key /\ q.val = s0.wants)
    BY <1>2, <1>4, <1>5
  <2> QED  BY <1>1, <1>3, <1>4, <1>5, <2>1, TeamFacts DEF RowsMove
<1>7. IsFiniteSet(srv') /\ start' \in SUBSET Nat
  BY <1>1, <1>3, TeamFacts, FS_AddElement
<1>8. RowsInv'
  <2>1. \A n \in Nat : n <= lastId => n <= lastId' /\ n # id
    BY <1>1, <1>3, <1>5, TeamFacts
  <2>2. Given(srv)'
    <3>1. \A x \in srv' : x.id <= lastId'
      BY <1>1, <1>3, <1>4, <2>1, TeamFacts
    <3>2. \A x \in srv : x.id # s0.id
      BY <1>4, <2>1, TeamFacts
    <3>3. \A x, y \in srv : x.id = y.id => x = y
      BY DEF TeamInv, RowsInv, Given
    <3>4. \A x, y \in srv' : x.id = y.id => x = y
      BY <1>1, <3>2, <3>3
    <3> QED  BY <3>1, <3>4 DEF Given
  <2>3. Given(cats)' /\ Given(keys)'
    BY <1>1, <2>1, TeamFacts DEF TeamInv, RowsInv, Given
  <2>4. \A s \in srv' : s.key <= lastId'
    BY <1>1, <1>3, <1>4, <2>1, TeamFacts
  <2>5. \A x \in keys' : x.id > 0
    BY <1>1, TeamFacts
  <2>6. ASSUME NEW q \in keys, s0.key = q.id
        PROVE  q.team = s0.team /\ q.val = s0.wants
    <3>1. k \in keys /\ k.team = c.team
      BY <1>2, <1>4, <2>6, TeamFacts
    <3>2. k = q
      BY <1>4, <2>6, <3>1 DEF TeamInv, RowsInv, Given
    <3> QED  BY <1>4, <3>1, <3>2
  <2>7. \A s \in srv', q \in keys' : s.key = q.id => q.team = s.team /\ q.val = s.wants
    BY <1>1, <2>6 DEF TeamInv, RowsInv
  <2> QED  BY <2>2, <2>3, <2>4, <2>5, <2>7 DEF RowsInv
<1>9. StopInv'
  BY <1>1, <1>6, HistoryKeeps, TeamFacts DEF TeamInv, StopInv
<1>10. CatsInv' /\ KeysInv'
  <2>1. \E q \in cats : q.team = s0.team /\ q.id = s0.cat
    BY <1>4
  <2>2. s0.key = 0 \/ \E q \in keys : q.id = s0.key
    BY <1>2, <1>4
  <2> QED  BY <1>1, <2>1, <2>2 DEF TeamInv, CatsInv, KeysInv
<1>11. SealsInv'
  BY <1>1, <1>4 DEF TeamInv, SealsInv
<1>12. WorkersInv'
  <2>1. \A x : /\ Connects(x) => Connects(x)'
               /\ Connects(x)' => Connects(x) \/ x = id
               /\ Startable(x) => Startable(x)'
    BY <1>1, <1>4 DEF Connects, Startable, T!Connectable, T!Readable
  <2>2. \A x : (WillStart(x)' <=> WillStart(x) \/ x = id) /\ (WillStop(x)' <=> WillStop(x))
    BY <1>1 DEF WillStart, WillStop
  <2> QED  BY <1>1, <2>1, <2>2 DEF TeamInv, WorkersInv
<1> QED  BY <1>1, <1>6, <1>7, <1>8, <1>9, <1>10, <1>11, <1>12, TeamFacts, EditKeeps

\* Servers of one team get another category of the team; categories may go
\* that no server is left in.
LEMMA RecategorizedKeeps ==
    ASSUME TeamInv, NEW moved \in SUBSET srv, NEW d \in cats,
           \A s \in moved : s.team = d.team,
           srv' = (srv \ moved) \cup {[s EXCEPT !.cat = d.id] : s \in moved},
           cats' \in SUBSET cats, d \in cats',
           \A c \in cats \ cats' : c.team = d.team /\ \A s \in srv \ moved : s.cat # c.id,
           UNCHANGED <<keys, lastId, worker, retry, start, stop, export, file, import, lost>>
    PROVE  TeamInv'
<1> DEFINE New(s) == [s EXCEPT !.cat = d.id]
<1>1. ASSUME NEW s \in srv
      PROVE  /\ New(s) \in ServerRows /\ New(s).id = s.id /\ New(s).team = s.team
             /\ New(s).kind = s.kind /\ New(s).key = s.key /\ New(s).wants = s.wants
             /\ New(s).uid = s.uid /\ New(s).seal = s.seal /\ New(s).cat = d.id
  <2>1. s \in ServerRows /\ d.id \in Nat
    BY TeamFacts
  <2> QED  BY <2>1 DEF ServerRows
<1>2. srv' = (srv \ moved) \cup {New(s) : s \in moved}
  OBVIOUS
<1> HIDE DEF New
<1>3. \A s \in moved : s \in srv
  OBVIOUS
<1>4. ASSUME NEW x \in srv'
      PROVE  \E q \in srv : /\ x.id = q.id /\ x.team = q.team /\ x.kind = q.kind /\ x.key = q.key
                            /\ x.wants = q.wants /\ x.uid = q.uid /\ x.seal = q.seal
                            /\ x \in ServerRows
                            /\ \/ x = q /\ q \notin moved
                               \/ x = New(q) /\ q \in moved /\ x.cat = d.id
  <2>1. CASE x \in srv \ moved
    BY <2>1, TeamFacts
  <2>2. ASSUME NEW q \in moved, x = New(q)
        PROVE  /\ x.id = q.id /\ x.team = q.team /\ x.kind = q.kind /\ x.key = q.key
               /\ x.wants = q.wants /\ x.uid = q.uid /\ x.seal = q.seal
               /\ x \in ServerRows /\ x.cat = d.id
    BY <1>1, <1>3, <2>2
  <2> QED  BY <1>2, <1>3, <2>1, <2>2
<1>5. \A q \in srv : \E x \in srv' : /\ x.id = q.id /\ x.kind = q.kind /\ x.uid = q.uid
                                      /\ x.key = q.key /\ x.seal = q.seal
  BY <1>1, <1>2, <1>3
<1>6. \A x, y \in srv : x.id = y.id => x = y
  BY DEF TeamInv, RowsInv, Given
<1>7. \A x, y \in srv' : x.id = y.id => x = y
  <2> SUFFICES ASSUME NEW x \in srv', NEW y \in srv', x.id = y.id
               PROVE  x = y
    OBVIOUS
  <2>1. PICK q \in srv : x.id = q.id /\ ((x = q /\ q \notin moved) \/ (x = New(q) /\ q \in moved))
    BY <1>4
  <2>2. PICK p \in srv : y.id = p.id /\ ((y = p /\ p \notin moved) \/ (y = New(p) /\ p \in moved))
    BY <1>4
  <2>3. q = p
    BY <1>6, <2>1, <2>2
  <2> QED  BY <2>1, <2>2, <2>3
<1>8. cats' \in SUBSET CatRows /\ srv' \in SUBSET ServerRows
  BY <1>4, TeamFacts
<1>9. RowsMove
  <2>1. \A x \in srv' : \E q \in srv : q.id = x.id /\ q.team = x.team /\ q.key = x.key /\ q.wants = x.wants
    BY <1>4
  <2> QED  BY <1>8, <2>1, TeamFacts DEF RowsMove
<1>10. IsFiniteSet(cats') /\ IsFiniteSet(srv')
  <2> DEFINE f == [s \in moved |-> New(s)]
  <2>1. IsFiniteSet(moved) /\ IsFiniteSet(srv \ moved) /\ IsFiniteSet(cats')
    BY TeamFacts, FS_Subset
  <2>2. IsFiniteSet({f[s] : s \in DOMAIN f})
    BY <2>1, ImageFinite
  <2>3. {f[s] : s \in DOMAIN f} = {New(s) : s \in moved}
    OBVIOUS
  <2>4. IsFiniteSet({New(s) : s \in moved})
    BY <2>2, <2>3
  <2>5. IsFiniteSet((srv \ moved) \cup {New(s) : s \in moved})
    BY <2>1, <2>4, FS_Union
  <2> QED  BY <1>2, <2>1, <2>5
<1>11. RowsInv'
  <2>1. Given(cats)' /\ Given(keys)'
    BY DEF TeamInv, RowsInv, Given
  <2>2. Given(srv)'
    <3>1. \A x \in srv' : x.id <= lastId'
      BY <1>4, TeamFacts
    <3> QED  BY <1>7, <3>1 DEF Given
  <2>3. \A s \in srv' : s.key <= lastId'
    BY <1>4, TeamFacts
  <2>4. \A s \in srv', k \in keys' : s.key = k.id => k.team = s.team /\ k.val = s.wants
    BY <1>4 DEF TeamInv, RowsInv
  <2>5. \A k \in keys' : k.id > 0
    BY TeamFacts
  <2> QED  BY <2>1, <2>2, <2>3, <2>4, <2>5 DEF RowsInv
<1>12. StopInv'
  BY <1>4 DEF TeamInv, StopInv
<1>13. CatsInv'
  <2>1. ASSUME NEW t \in Team
        PROVE  \E c \in cats' : c.team = t
    <3>1. PICK c \in cats : c.team = t
      BY DEF TeamInv, CatsInv
    <3> QED  BY <3>1
  <2>2. ASSUME NEW x \in srv'
        PROVE  \E c \in cats' : c.team = x.team /\ c.id = x.cat
    <3>1. PICK q \in srv : /\ x.team = q.team
                           /\ (x = q /\ q \notin moved) \/ (q \in moved /\ x.cat = d.id)
      BY <1>4
    <3>2. CASE q \in moved /\ x.cat = d.id
      BY <3>1, <3>2
    <3>3. CASE x = q /\ q \notin moved
      <4>1. PICK c \in cats : c.team = q.team /\ c.id = q.cat
        BY DEF TeamInv, CatsInv
      <4>2. c \in cats'
        BY <3>3, <4>1
      <4> QED  BY <3>3, <4>1, <4>2
    <3> QED  BY <3>1, <3>2, <3>3
  <2> QED  BY <2>1, <2>2 DEF CatsInv
<1>14. KeysInv'
  BY <1>4 DEF TeamInv, KeysInv
<1>15. SealsInv'
  BY <1>4 DEF TeamInv, SealsInv
<1>16. WorkersInv'
  <2>1. \A x : Connects(x)' => Connects(x)
    BY <1>4 DEF Connects, T!Connectable
  <2>2. \A x : /\ Connects(x) => Connects(x)'
               /\ Startable(x) => Startable(x)'
    <3>1. \A q \in srv, x \in srv' : x.id = q.id /\ x.key = q.key /\ x.seal = q.seal =>
            (T!Readable(q) => T!Readable(x)')
      BY DEF T!Readable
    <3>2. ASSUME NEW x, NEW q \in srv, q.id = x, T!Connectable(q)
          PROVE  Connects(x)' /\ (T!Readable(q) => Startable(x)')
      <4>1. PICK y \in srv' : /\ y.id = q.id /\ y.kind = q.kind /\ y.uid = q.uid
                             /\ y.key = q.key /\ y.seal = q.seal
        BY <1>5
      <4>2. y.id = x /\ T!Connectable(y)'
        BY <3>2, <4>1 DEF T!Connectable
      <4>3. T!Readable(q) => T!Readable(y)'
        BY <3>1, <4>1
      <4>4. Connects(x)'
        BY <4>2 DEF Connects
      <4> QED  BY <4>2, <4>3, <4>4 DEF Startable
    <3> QED  BY <3>2 DEF Connects, Startable
  <2>3. \A x : (WillStart(x)' <=> WillStart(x)) /\ (WillStop(x)' <=> WillStop(x))
    BY DEF WillStart, WillStop
  <2> QED  BY <2>1, <2>2, <2>3 DEF TeamInv, WorkersInv
<1> QED  BY <1>9, <1>10, <1>11, <1>12, <1>13, <1>14, <1>15, <1>16, TeamFacts, EditKeeps

LEMMA SetServerCategoryKeeps ==
    ASSUME TeamInv, NEW s \in srv, NEW c \in cats, T!SetServerCategory(s, c)
    PROVE  TeamInv'
<1>1. /\ s.team = c.team /\ srv' = (srv \ {s}) \cup {[s EXCEPT !.cat = c.id]}
      /\ UNCHANGED <<cats, keys, lastId, worker, retry, start, stop, export, file, import, lost>>
  BY DEF T!SetServerCategory
<1>2. {[x EXCEPT !.cat = c.id] : x \in {s}} = {[s EXCEPT !.cat = c.id]}
  OBVIOUS
<1>3. srv' = (srv \ {s}) \cup {[x EXCEPT !.cat = c.id] : x \in {s}}
  BY <1>1, <1>2
<1>4. /\ {s} \in SUBSET srv /\ \A x \in {s} : x.team = c.team
      /\ cats' \in SUBSET cats /\ c \in cats'
      /\ \A x \in cats \ cats' : x.team = c.team /\ \A y \in srv \ {s} : y.cat # x.id
  BY <1>1
<1> QED  BY <1>1, <1>3, <1>4, RecategorizedKeeps

LEMMA DeleteCategoryKeeps ==
    ASSUME TeamInv, NEW c \in cats, T!DeleteCategory(c)
    PROVE  TeamInv'
<1> DEFINE ids == T!Ids(T!Of(cats, c.team))
           default == T!Min(ids)
           moved == {s \in srv : s.cat = c.id}
<1>1. /\ c.id # default /\ cats' = cats \ {c}
      /\ srv' = (srv \ moved) \cup {[s EXCEPT !.cat = default] : s \in moved}
      /\ UNCHANGED <<keys, lastId, worker, retry, start, stop, export, file, import, lost>>
  BY DEF T!DeleteCategory
<1>2. ids \in SUBSET Nat /\ ids # {}
  BY TeamFacts DEF T!Ids, T!Of
<1>3. default \in ids
  BY <1>2, Least
<1>4. PICK d \in cats : d.team = c.team /\ d.id = default
  BY <1>3 DEF T!Ids, T!Of
<1> HIDE DEF default
<1>5. \A s \in moved : s.team = d.team
  <2> SUFFICES ASSUME NEW s \in moved
               PROVE  s.team = d.team
    OBVIOUS
  <2>1. PICK b \in cats : b.team = s.team /\ b.id = s.cat
    BY DEF TeamInv, CatsInv
  <2>2. b = c
    BY <2>1 DEF TeamInv, RowsInv, Given
  <2> QED  BY <1>4, <2>1, <2>2
<1>6. cats' \in SUBSET cats /\ d \in cats'
  BY <1>1, <1>4
<1>7. \A x \in cats \ cats' : x.team = d.team /\ \A s \in srv \ moved : s.cat # x.id
  BY <1>1, <1>4
<1>8. moved \in SUBSET srv /\ srv' = (srv \ moved) \cup {[s EXCEPT !.cat = d.id] : s \in moved}
  BY <1>1, <1>4
<1> HIDE DEF moved
<1> QED  BY <1>1, <1>5, <1>6, <1>7, <1>8, RecategorizedKeeps

-----------------------------------------------------------------------------
(* TeamConfig: the commit of an import *)

\* Ids for the elements of a finite set: new, different, up to a bound.
Numbers(f, X, low, high) ==
    /\ DOMAIN f = X
    /\ \A x \in X : f[x] \in Nat /\ f[x] > low /\ f[x] <= high
    /\ \A x, y \in X : f[x] = f[y] => x = y

LEMMA NumbersFrom ==
    ASSUME NEW X, IsFiniteSet(X), NEW base \in Nat, NEW low \in Nat, NEW high \in Nat,
           low <= base, base + Cardinality(X) <= high
    PROVE  Numbers(T!NewIds(X, base), X, low, high)
<1> DEFINE f == T!NewIds(X, base)
           n == Cardinality(X)
<1>1. /\ f \in [X -> (base + 1) .. (base + n)]
      /\ \A a, b \in X : a # b => f[a] # f[b]
  BY NewIdsFacts
<1>2. n \in Nat /\ base + n <= high
  BY FS_CardinalityType
<1> HIDE DEF f, n
<1>3. \A x \in X : f[x] \in Nat /\ f[x] > low /\ f[x] <= high
  <2> SUFFICES ASSUME NEW x \in X
               PROVE  f[x] \in Nat /\ f[x] > low /\ f[x] <= high
    OBVIOUS
  <2>1. f[x] \in (base + 1) .. (base + n)
    BY <1>1
  <2> QED  BY <1>2, <2>1
<1>4. Numbers(f, X, low, high)
  BY <1>1, <1>3 DEF Numbers
<1> QED  BY <1>4 DEF f

\* A row of the import: in a new category of the team, with the new key for
\* the key the file names, or none.
LEMMA ImportedShape ==
    ASSUME NEW s \in FileRows, NEW id \in Nat, NEW t \in Team, NEW C, NEW R, NEW cmap, NEW kmap,
           NEW low \in Nat, NEW high \in Nat, C # {},
           Numbers(cmap, C, low, high), Numbers(kmap, R, low, high)
    PROVE  LET v == T!ImportedServer(s, id, t, cmap, kmap)
           IN  /\ v \in ServerRows /\ v.id = id /\ v.team = t /\ v.seal = id /\ v.wants = s.wants
               /\ v.kind = s.kind
               /\ \E r \in C : v.cat = cmap[r]
               /\ IF s.key \in R THEN v.key = kmap[s.key] ELSE v.key = 0
<1> DEFINE cat == IF s.cat \in DOMAIN cmap THEN cmap[s.cat] ELSE cmap[CHOOSE r \in DOMAIN cmap : TRUE]
           key == IF s.key \in DOMAIN kmap THEN kmap[s.key] ELSE 0
           w == [id |-> id, team |-> t, cat |-> cat, kind |-> s.kind, key |-> key, wants |-> s.wants,
                 uid |-> s.uid, seal |-> id, pinned |-> TRUE]
           v == T!ImportedServer(s, id, t, cmap, kmap)
<1>1. DOMAIN cmap = C /\ DOMAIN kmap = R
  BY DEF Numbers
<1>2. \E r \in C : cat = cmap[r]
  BY <1>1
<1>3. cat \in Nat
  BY <1>2 DEF Numbers
<1>4. key \in Nat /\ IF s.key \in R THEN key = kmap[s.key] ELSE key = 0
  BY <1>1 DEF Numbers
<1>5. v = [w EXCEPT !.pinned = s.pinned]
  BY DEF T!ImportedServer, T!Server
<1> HIDE DEF cat, key
<1>6. s.kind \in 0..2 /\ s.wants \in Nat /\ s.uid \in Nat /\ s.pinned \in BOOLEAN
  BY DEF FileRows
<1>7. /\ w \in ServerRows /\ w.id = id /\ w.team = t /\ w.seal = id /\ w.wants = s.wants
      /\ w.kind = s.kind /\ w.cat = cat /\ w.key = key
  BY <1>3, <1>4, <1>6 DEF ServerRows
<1> HIDE DEF w, v
<1>8. /\ v \in ServerRows /\ v.id = id /\ v.team = t /\ v.seal = id /\ v.wants = s.wants
      /\ v.kind = s.kind /\ v.cat = cat /\ v.key = key
  BY <1>5, <1>6, <1>7 DEF ServerRows
<1>9. (\E r \in C : v.cat = cmap[r]) /\ IF s.key \in R THEN v.key = kmap[s.key] ELSE v.key = 0
  BY <1>2, <1>4, <1>8
<1> QED  BY <1>8, <1>9 DEF v

RefsOf(ks) == {k.ref : k \in ks}

\* What a commit that is not refused does to the tables: the team's rows go,
\* and rows numbered by three functions come.
Commits(i, kmap, cmap, idm, C, last) ==
    LET m == import[i]
        left == {s \in srv : s.id \notin m.dropped}
        made == {T!ImportedServer(s, idm[s], m.team, cmap, kmap) : s \in m.data.srv}
    IN  /\ C # {} /\ IsFiniteSet(C) /\ last \in Nat /\ lastId <= last /\ lastId' = last
        /\ Numbers(kmap, RefsOf(m.data.keys), lastId, last)
        /\ Numbers(cmap, C, lastId, last)
        /\ Numbers(idm, m.data.srv, lastId, last)
        /\ \A s \in left : s.team # m.team
        /\ keys' = {k \in keys : k.team # m.team} \cup
             {[id |-> kmap[k.ref], team |-> m.team, val |-> k.val,
               seal |-> kmap[k.ref]] : k \in m.data.keys}
        /\ cats' = {c \in cats : c.team # m.team} \cup
             {[id |-> cmap[r], team |-> m.team] : r \in C}
        /\ srv' = left \cup made
        /\ import' = [import EXCEPT ![i] =
             [step |-> "after", stop |-> m.old, start |-> {v.id : v \in made}]]
        /\ lost' = [lost EXCEPT !.srv = @ \cup (m.dropped \ m.old)]

LEMMA CommitShape ==
    ASSUME TeamInv, NEW i \in Import, T!CommitImport(i)
    PROVE  /\ import[i].step = "cleared"
           /\ UNCHANGED <<worker, retry, start, stop, export, file>>
           /\ \/ import' = [import EXCEPT ![i] = T!Done] /\ UNCHANGED TeamRows /\ lost' = lost
              \/ \E kmap, cmap, idm, C, last : Commits(i, kmap, cmap, idm, C, last)
<1> DEFINE m == import[i]
           t == m.team
           R == RefsOf(m.data.keys)
           C == IF m.data.cats = {} THEN {0} ELSE m.data.cats
           nk == Cardinality(m.data.keys)
           nc == Cardinality(C)
           ns == Cardinality(m.data.srv)
           kmap == T!NewIds(R, lastId)
           cmap == T!NewIds(C, lastId + nk)
           base == lastId + nk + nc
           idm == T!NewIds(m.data.srv, base)
           left == {s \in srv : s.id \notin m.dropped}
           made == {T!ImportedServer(s, idm[s], t, cmap, kmap) : s \in m.data.srv}
           last == base + ns
<1>1. m.step = "cleared" /\ UNCHANGED <<worker, retry, start, stop, export, file>>
  BY DEF T!CommitImport
<1>2. m \in ImportStates /\ ImportOK(m)
  BY DEF TeamInv, TeamType
<1>3. m.data \in Contents(FileRows) /\ Sound(m.data) /\ t \in Team
  BY <1>1, <1>2, ImportShape DEF ImportOK
<1>4. IsFiniteSet(m.data.keys) /\ IsFiniteSet(m.data.srv) /\ IsFiniteSet(m.data.cats)
  BY <1>3 DEF Sound
<1>5. C # {} /\ IsFiniteSet(C)
  BY <1>4, FS_Singleton
<1>6. IsFiniteSet(R) /\ Cardinality(R) <= nk
  <2> DEFINE f == [k \in m.data.keys |-> k.ref]
  <2>1. f \in Surjection(m.data.keys, R)
    BY DEF Surjection, RefsOf
  <2> QED  BY <1>4, <2>1, FS_Surjection
<1>7. lastId \in Nat /\ nk \in Nat /\ nc \in Nat /\ ns \in Nat /\ Cardinality(R) \in Nat
  BY <1>4, <1>5, <1>6, TeamFacts, FS_CardinalityType
<1>8. /\ Numbers(kmap, R, lastId, last) /\ Numbers(cmap, C, lastId, last)
      /\ Numbers(idm, m.data.srv, lastId, last) /\ last \in Nat /\ lastId <= last
  <2> DEFINE nr == Cardinality(R)
  <2>1. nr \in Nat /\ nr <= nk
    BY <1>6, <1>7
  <2> HIDE DEF nk, nc, ns, nr, C, R, m
  <2>2. /\ lastId + nk \in Nat /\ base \in Nat /\ last \in Nat /\ lastId <= last
        /\ lastId <= lastId + nk /\ lastId <= base /\ lastId <= lastId
        /\ lastId + nr <= last /\ lastId + nk + nc <= last /\ base + ns <= last
    BY <1>7, <2>1
  <2> HIDE DEF base, last
  <2>3. Numbers(kmap, R, lastId, last)
    BY <1>6, <1>7, <2>2, NumbersFrom DEF nr
  <2>4. Numbers(cmap, C, lastId, last)
    BY <1>5, <1>7, <2>2, NumbersFrom DEF nc
  <2>5. Numbers(idm, m.data.srv, lastId, last)
    BY <1>4, <1>7, <2>2, NumbersFrom DEF ns
  <2> QED  BY <2>2, <2>3, <2>4, <2>5
<1>9. T!importKeys(m.data, lastId) = kmap
  BY DEF T!importKeys, RefsOf
<1>10. T!importCategories(m.data, lastId + nk) = cmap
  BY DEF T!importCategories
<1>11. DOMAIN cmap = C
  BY <1>8 DEF Numbers
<1>12. T!importServers(m.data.srv, t, cmap, kmap, base) = made
  BY DEF T!importServers
<1>13. /\ T!Cardinality(m.data.keys) = nk /\ T!Cardinality(C) = nc
       /\ T!Cardinality(m.data.srv) = ns
  BY TeamCardinality
<1>14. T!Ids(made) = {v.id : v \in made}
  BY DEF T!Ids
<1>15. T!Cleared(keys, t) = {k \in keys : k.team # t} /\ T!Cleared(cats, t) = {c \in cats : c.team # t}
  BY DEF T!Cleared, T!Of
<1>16. T!Of(left, t) = {} => \A s \in left : s.team # t
  BY DEF T!Of
<1> HIDE DEF kmap, cmap, C, nk, nc, ns, idm, R, last, made
<1>17. \/ import' = [import EXCEPT ![i] = T!Done] /\ UNCHANGED TeamRows /\ lost' = lost
       \/ /\ T!Of(left, t) = {}
          /\ keys' = T!Cleared(keys, t) \cup {[id |-> kmap[k.ref], team |-> t, val |-> k.val,
                                               seal |-> kmap[k.ref]] : k \in m.data.keys}
          /\ cats' = T!Cleared(cats, t) \cup {[id |-> cmap[r], team |-> t] : r \in C}
          /\ srv' = left \cup made
          /\ lastId' = base + ns
          /\ import' = [import EXCEPT ![i] = [step |-> "after", stop |-> m.old, start |-> T!Ids(made)]]
          /\ lost' = [lost EXCEPT !.srv = @ \cup (m.dropped \ m.old)]
  BY <1>9, <1>10, <1>11, <1>12, <1>13 DEF T!CommitImport, T!rows, TeamRows
<1>18. base + ns = last
  BY DEF last
<1> HIDE DEF base
<1>19. CASE import' = [import EXCEPT ![i] = T!Done] /\ UNCHANGED TeamRows /\ lost' = lost
  BY <1>1, <1>19
<1>20. CASE /\ T!Of(left, t) = {}
          /\ keys' = T!Cleared(keys, t) \cup {[id |-> kmap[k.ref], team |-> t, val |-> k.val,
                                               seal |-> kmap[k.ref]] : k \in m.data.keys}
          /\ cats' = T!Cleared(cats, t) \cup {[id |-> cmap[r], team |-> t] : r \in C}
          /\ srv' = left \cup made
          /\ lastId' = base + ns
          /\ import' = [import EXCEPT ![i] = [step |-> "after", stop |-> m.old, start |-> T!Ids(made)]]
          /\ lost' = [lost EXCEPT !.srv = @ \cup (m.dropped \ m.old)]
  <2>1. /\ C # {} /\ IsFiniteSet(C) /\ last \in Nat /\ lastId <= last /\ lastId' = last
        /\ Numbers(kmap, R, lastId, last) /\ Numbers(cmap, C, lastId, last)
        /\ Numbers(idm, m.data.srv, lastId, last)
        /\ \A s \in left : s.team # t
        /\ keys' = {k \in keys : k.team # t} \cup
             {[id |-> kmap[k.ref], team |-> t, val |-> k.val, seal |-> kmap[k.ref]] : k \in m.data.keys}
        /\ cats' = {c \in cats : c.team # t} \cup {[id |-> cmap[r], team |-> t] : r \in C}
        /\ srv' = left \cup made
        /\ import' = [import EXCEPT ![i] =
             [step |-> "after", stop |-> m.old, start |-> {v.id : v \in made}]]
        /\ lost' = [lost EXCEPT !.srv = @ \cup (m.dropped \ m.old)]
    BY <1>5, <1>8, <1>14, <1>15, <1>16, <1>18, <1>20
  <2>2. Commits(i, kmap, cmap, idm, C, last)
    BY <2>1 DEF Commits, made, R
  <2> QED  BY <1>1, <2>2
<1> QED  BY <1>17, <1>19, <1>20

\* The same in terms of the new rows: they have new ids, each its own, their
\* secrets are sealed for them, and the servers fit the categories and keys.
NewRows(table, t) ==
    /\ IsFiniteSet(table)
    /\ \A r \in table : r.id \in Nat /\ r.id > lastId /\ r.id <= lastId' /\ r.team = t
    /\ \A r, q \in table : r.id = q.id => r = q

Replaces(i, newKeys, newCats, newSrv) ==
    LET m == import[i]
    IN  /\ lastId' \in Nat /\ lastId <= lastId'
        /\ newKeys \in SUBSET KeyRows /\ newCats \in SUBSET CatRows /\ newSrv \in SUBSET ServerRows
        /\ NewRows(newKeys, m.team) /\ NewRows(newCats, m.team) /\ NewRows(newSrv, m.team)
        /\ newCats # {}
        /\ \A k \in newKeys : k.seal = k.id
        /\ \A s \in newSrv :
             /\ s.seal = s.id
             /\ \E c \in newCats : c.id = s.cat
             /\ s.key = 0 \/ \E k \in newKeys : k.id = s.key
             /\ \A k \in newKeys : s.key = k.id => k.val = s.wants
        /\ \A s \in srv : s.id \notin m.dropped => s.team # m.team
        /\ keys' = {k \in keys : k.team # m.team} \cup newKeys
        /\ cats' = {c \in cats : c.team # m.team} \cup newCats
        /\ srv' = {s \in srv : s.id \notin m.dropped} \cup newSrv
        /\ import' = [import EXCEPT ![i] =
             [step |-> "after", stop |-> m.old, start |-> {v.id : v \in newSrv}]]
        /\ lost' = [lost EXCEPT !.srv = @ \cup (m.dropped \ m.old)]

LEMMA CommitRows ==
    ASSUME TeamInv, NEW i \in Import, import[i].step = "cleared",
           NEW kmap, NEW cmap, NEW idm, NEW C, NEW last, Commits(i, kmap, cmap, idm, C, last)
    PROVE  \E newKeys, newCats, newSrv : Replaces(i, newKeys, newCats, newSrv)
<1> DEFINE m == import[i]
           R == RefsOf(m.data.keys)
           NewKey(k) == [id |-> kmap[k.ref], team |-> m.team, val |-> k.val, seal |-> kmap[k.ref]]
           NewCat(r) == [id |-> cmap[r], team |-> m.team]
           V(s) == T!ImportedServer(s, idm[s], m.team, cmap, kmap)
           newKeys == {NewKey(k) : k \in m.data.keys}
           newCats == {NewCat(r) : r \in C}
           newSrv == {V(s) : s \in m.data.srv}
<1>1. m \in ImportStates /\ ImportOK(m)
  BY DEF TeamInv, TeamType
<1>2. m.data \in Contents(FileRows) /\ Sound(m.data) /\ m.team \in Team
  BY <1>1, ImportShape DEF ImportOK
<1>3. /\ lastId \in Nat /\ last \in Nat /\ lastId <= last /\ lastId' = last
      /\ C # {} /\ IsFiniteSet(C)
      /\ Numbers(kmap, R, lastId, last) /\ Numbers(cmap, C, lastId, last)
      /\ Numbers(idm, m.data.srv, lastId, last)
  BY TeamFacts DEF Commits
<1>4. /\ IsFiniteSet(m.data.keys) /\ IsFiniteSet(m.data.srv)
      /\ \A k, q \in m.data.keys : k.ref = q.ref => k = q
      /\ \A s \in m.data.srv, k \in m.data.keys : s.key = k.ref => k.val = s.wants
  BY <1>2 DEF Sound
<1>5. /\ \A k \in m.data.keys : k.ref \in R /\ k.val \in Nat
      /\ \A r \in R : \E k \in m.data.keys : k.ref = r
      /\ \A s \in m.data.srv : s \in FileRows
  BY <1>2 DEF Contents, KeyRefs, RefsOf
<1> HIDE DEF R
<1>6. ASSUME NEW k \in m.data.keys
      PROVE  /\ NewKey(k) \in KeyRows /\ NewKey(k).id = kmap[k.ref] /\ NewKey(k).team = m.team
             /\ NewKey(k).val = k.val /\ NewKey(k).seal = kmap[k.ref]
             /\ kmap[k.ref] \in Nat /\ kmap[k.ref] > lastId /\ kmap[k.ref] <= last
  <2>1. kmap[k.ref] \in Nat /\ kmap[k.ref] > lastId /\ kmap[k.ref] <= last
    BY <1>3, <1>5 DEF Numbers
  <2> QED  BY <1>2, <1>5, <2>1 DEF KeyRows
<1>7. ASSUME NEW r \in C
      PROVE  /\ NewCat(r) \in CatRows /\ NewCat(r).id = cmap[r] /\ NewCat(r).team = m.team
             /\ cmap[r] \in Nat /\ cmap[r] > lastId /\ cmap[r] <= last
  <2>1. cmap[r] \in Nat /\ cmap[r] > lastId /\ cmap[r] <= last
    BY <1>3 DEF Numbers
  <2> QED  BY <1>2, <2>1 DEF CatRows
<1>8. ASSUME NEW s \in m.data.srv
      PROVE  /\ V(s) \in ServerRows /\ V(s).id = idm[s] /\ V(s).team = m.team /\ V(s).seal = idm[s]
             /\ V(s).wants = s.wants
             /\ \E r \in C : V(s).cat = cmap[r]
             /\ IF s.key \in R THEN V(s).key = kmap[s.key] ELSE V(s).key = 0
             /\ idm[s] \in Nat /\ idm[s] > lastId /\ idm[s] <= last
  <2>1. idm[s] \in Nat /\ idm[s] > lastId /\ idm[s] <= last
    BY <1>3 DEF Numbers
  <2>2. s \in FileRows
    BY <1>5
  <2> HIDE DEF m
  <2> QED  BY <1>2, <1>3, <2>1, <2>2, ImportedShape
<1> HIDE DEF NewKey, NewCat, V, m
<1>9. NewRows(newKeys, m.team)
  <2>1. IsFiniteSet(newKeys)
    <3> DEFINE f == [k \in m.data.keys |-> NewKey(k)]
    <3>1. IsFiniteSet({f[x] : x \in DOMAIN f})
      BY <1>4, ImageFinite
    <3> QED  BY <3>1
  <2>2. \A k, q \in m.data.keys : kmap[k.ref] = kmap[q.ref] => k = q
    BY <1>3, <1>4, <1>5 DEF Numbers
  <2> QED  BY <1>3, <1>6, <2>1, <2>2 DEF NewRows
<1>10. NewRows(newCats, m.team) /\ newCats # {}
  <2>1. IsFiniteSet(newCats)
    <3> DEFINE f == [r \in C |-> NewCat(r)]
    <3>1. IsFiniteSet({f[x] : x \in DOMAIN f})
      BY <1>3, ImageFinite
    <3> QED  BY <3>1
  <2>2. \A r, q \in C : cmap[r] = cmap[q] => r = q
    BY <1>3 DEF Numbers
  <2> QED  BY <1>3, <1>7, <2>1, <2>2 DEF NewRows
<1>11. NewRows(newSrv, m.team)
  <2>1. IsFiniteSet(newSrv)
    <3> DEFINE f == [s \in m.data.srv |-> V(s)]
    <3>1. IsFiniteSet({f[x] : x \in DOMAIN f})
      BY <1>4, ImageFinite
    <3> QED  BY <3>1
  <2>2. \A s, q \in m.data.srv : idm[s] = idm[q] => s = q
    BY <1>3 DEF Numbers
  <2> QED  BY <1>3, <1>8, <2>1, <2>2 DEF NewRows
<1>12. ASSUME NEW s \in m.data.srv
       PROVE  /\ V(s).seal = V(s).id
              /\ \E c \in newCats : c.id = V(s).cat
              /\ V(s).key = 0 \/ \E k \in newKeys : k.id = V(s).key
              /\ \A k \in newKeys : V(s).key = k.id => k.val = V(s).wants
  <2>1. V(s).seal = V(s).id
    BY <1>8
  <2>2. \E c \in newCats : c.id = V(s).cat
    <3>1. PICK r \in C : V(s).cat = cmap[r]
      BY <1>8
    <3> QED  BY <1>7, <3>1
  <2>3. CASE s.key \notin R
    <3>1. V(s).key = 0
      BY <1>8, <2>3
    <3>2. \A k \in newKeys : k.id # 0
      <4>1. \A k \in m.data.keys : kmap[k.ref] # 0
        BY <1>3, <1>6
      <4> QED  BY <1>6, <4>1
    <3> QED  BY <2>1, <2>2, <3>1, <3>2
  <2>4. CASE s.key \in R
    <3>1. V(s).key = kmap[s.key]
      BY <1>8, <2>4
    <3>2. PICK k \in m.data.keys : k.ref = s.key
      BY <1>5, <2>4
    <3>3. \E q \in newKeys : q.id = V(s).key
      BY <1>6, <3>1, <3>2
    <3>4. \A q \in m.data.keys : kmap[q.ref] = kmap[s.key] => q.ref = s.key
      BY <1>3, <1>5, <2>4 DEF Numbers
    <3>5. \A q \in m.data.keys : kmap[q.ref] = kmap[s.key] => q.val = s.wants
      BY <1>4, <3>4
    <3>6. \A q \in newKeys : V(s).key = q.id => q.val = V(s).wants
      BY <1>6, <1>8, <3>1, <3>5
    <3> QED  BY <2>1, <2>2, <3>3, <3>6
  <2> QED  BY <2>3, <2>4
<1>13. /\ newKeys \in SUBSET KeyRows /\ newCats \in SUBSET CatRows /\ newSrv \in SUBSET ServerRows
       /\ \A k \in newKeys : k.seal = k.id
  BY <1>6, <1>7, <1>8
<1>14. /\ \A s \in srv : s.id \notin m.dropped => s.team # m.team
       /\ keys' = {k \in keys : k.team # m.team} \cup newKeys
       /\ cats' = {c \in cats : c.team # m.team} \cup newCats
       /\ srv' = {s \in srv : s.id \notin m.dropped} \cup newSrv
       /\ import' = [import EXCEPT ![i] =
             [step |-> "after", stop |-> m.old, start |-> {v.id : v \in newSrv}]]
       /\ lost' = [lost EXCEPT !.srv = @ \cup (m.dropped \ m.old)]
  BY DEF Commits, NewKey, NewCat, V, m
<1>15. \A s \in newSrv :
         /\ s.seal = s.id
         /\ \E c \in newCats : c.id = s.cat
         /\ s.key = 0 \/ \E k \in newKeys : k.id = s.key
         /\ \A k \in newKeys : s.key = k.id => k.val = s.wants
  <2> HIDE DEF newKeys, newCats
  <2> QED  BY <1>12
<1> HIDE DEF newKeys, newCats, newSrv
<1>16. Replaces(i, newKeys, newCats, newSrv)
  BY <1>3, <1>9, <1>10, <1>11, <1>13, <1>14, <1>15 DEF Replaces, m
<1> QED  BY <1>16

LEMMA ReplaceRows ==
    ASSUME TeamInv, NEW i \in Import, import[i].step = "cleared",
           NEW newKeys, NEW newCats, NEW newSrv, Replaces(i, newKeys, newCats, newSrv)
    PROVE  RowsMove /\ RowsInv'
<1> DEFINE m == import[i]
           t == m.team
           left == {s \in srv : s.id \notin m.dropped}
<1>1. /\ lastId' \in Nat /\ lastId <= lastId' /\ lastId \in Nat
      /\ newKeys \in SUBSET KeyRows /\ newCats \in SUBSET CatRows /\ newSrv \in SUBSET ServerRows
      /\ NewRows(newKeys, t) /\ NewRows(newCats, t) /\ NewRows(newSrv, t)
      /\ keys' = {k \in keys : k.team # t} \cup newKeys
      /\ cats' = {c \in cats : c.team # t} \cup newCats
      /\ srv' = left \cup newSrv
      /\ \A s \in left : s.team # t
  BY TeamFacts DEF Replaces
<1>2. \A s \in newSrv :
        /\ s.key = 0 \/ \E k \in newKeys : k.id = s.key
        /\ \A k \in newKeys : s.key = k.id => k.val = s.wants
  BY DEF Replaces
<1>3. left \in SUBSET srv
  OBVIOUS
<1> HIDE DEF left, t
<1>4. /\ \A r \in newKeys : r.id \in Nat /\ r.id > lastId /\ r.id <= lastId' /\ r.team = t
      /\ \A r \in newCats : r.id \in Nat /\ r.id > lastId /\ r.id <= lastId' /\ r.team = t
      /\ \A r \in newSrv : r.id \in Nat /\ r.id > lastId /\ r.id <= lastId' /\ r.team = t
      /\ \A r, q \in newKeys : r.id = q.id => r = q
      /\ \A r, q \in newCats : r.id = q.id => r = q
      /\ \A r, q \in newSrv : r.id = q.id => r = q
  BY <1>1 DEF NewRows
<1>5. /\ \A s \in newSrv : s.key \in Nat /\ (s.key = 0 \/ s.key > lastId) /\ s.key <= lastId'
  BY <1>1, <1>2, <1>4
<1>6. RowsMove
  BY <1>1, <1>3, <1>4, <1>5, TeamFacts DEF RowsMove
<1>7. \A n \in Nat : n <= lastId => n <= lastId' /\ ~(n > lastId)
  BY <1>1
<1>8. Given(cats)'
  <2>1. \A r \in cats : r.id \in Nat /\ r.id <= lastId
    BY TeamFacts
  <2>2. \A r, q \in cats : r.id = q.id => r = q
    BY DEF TeamInv, RowsInv, Given
  <2>3. \A r \in cats' : r.id <= lastId'
    BY <1>1, <1>4, <1>7, <2>1
  <2>4. \A r \in cats, q \in newCats : r.id # q.id
    BY <1>4, <1>7, <2>1
  <2>5. \A r, q \in cats' : r.id = q.id => r = q
    BY <1>1, <1>4, <2>2, <2>4
  <2> QED  BY <2>3, <2>5 DEF Given
<1>9. Given(keys)'
  <2>1. \A r \in keys : r.id \in Nat /\ r.id <= lastId
    BY TeamFacts
  <2>2. \A r, q \in keys : r.id = q.id => r = q
    BY DEF TeamInv, RowsInv, Given
  <2>3. \A r \in keys' : r.id <= lastId'
    BY <1>1, <1>4, <1>7, <2>1
  <2>4. \A r \in keys, q \in newKeys : r.id # q.id
    BY <1>4, <1>7, <2>1
  <2>5. \A r, q \in keys' : r.id = q.id => r = q
    BY <1>1, <1>4, <2>2, <2>4
  <2> QED  BY <2>3, <2>5 DEF Given
<1>10. Given(srv)'
  <2>1. \A r \in srv : r.id \in Nat /\ r.id <= lastId
    BY TeamFacts
  <2>2. \A r, q \in srv : r.id = q.id => r = q
    BY DEF TeamInv, RowsInv, Given
  <2>3. \A r \in srv' : r.id <= lastId'
    BY <1>1, <1>3, <1>4, <1>7, <2>1
  <2>4. \A r \in srv, q \in newSrv : r.id # q.id
    BY <1>4, <1>7, <2>1
  <2>5. \A r, q \in srv' : r.id = q.id => r = q
    BY <1>1, <1>3, <1>4, <2>2, <2>4
  <2> QED  BY <2>3, <2>5 DEF Given
<1>11. \A k \in keys' : k.id > 0
  BY <1>1, <1>4, TeamFacts
<1>12. \A s \in srv' : s.key <= lastId'
  BY <1>1, <1>3, <1>5, <1>7, TeamFacts
<1>13. ASSUME NEW s \in srv', NEW k \in keys', s.key = k.id
       PROVE  k.team = s.team /\ k.val = s.wants
  <2>1. CASE s \in srv /\ k \in keys
    BY <1>13, <2>1 DEF TeamInv, RowsInv
  <2>2. CASE s \in srv /\ k \in newKeys
    BY <1>4, <1>7, <1>13, <2>2, TeamFacts
  <2>3. CASE s \in newSrv /\ k \in keys
    BY <1>5, <1>7, <1>13, <2>3, TeamFacts
  <2>4. CASE s \in newSrv /\ k \in newKeys
    BY <1>2, <1>4, <1>13, <2>4
  <2> QED  BY <1>1, <1>3, <2>1, <2>2, <2>3, <2>4
<1> QED  BY <1>6, <1>8, <1>9, <1>10, <1>11, <1>12, <1>13 DEF RowsInv

LEMMA ReplaceKeeps ==
    ASSUME TeamInv, NEW i \in Import, import[i].step = "cleared",
           UNCHANGED <<worker, retry, start, stop, export, file>>,
           NEW newKeys, NEW newCats, NEW newSrv, Replaces(i, newKeys, newCats, newSrv)
    PROVE  TeamInv'
<1> DEFINE m == import[i]
           t == m.team
           left == {s \in srv : s.id \notin m.dropped}
           after == [step |-> "after", stop |-> m.old, start |-> {v.id : v \in newSrv}]
<1>1. RowsMove /\ RowsInv'
  BY ReplaceRows
<1>2. /\ lastId' \in Nat /\ lastId <= lastId' /\ lastId \in Nat
      /\ newKeys \in SUBSET KeyRows /\ newCats \in SUBSET CatRows /\ newSrv \in SUBSET ServerRows
      /\ NewRows(newKeys, t) /\ NewRows(newCats, t) /\ NewRows(newSrv, t)
      /\ newCats # {}
      /\ \A k \in newKeys : k.seal = k.id
      /\ keys' = {k \in keys : k.team # t} \cup newKeys
      /\ cats' = {c \in cats : c.team # t} \cup newCats
      /\ srv' = left \cup newSrv
      /\ \A s \in left : s.team # t
      /\ import' = [import EXCEPT ![i] = after]
      /\ lost' = [lost EXCEPT !.srv = @ \cup (m.dropped \ m.old)]
  BY TeamFacts DEF Replaces
<1>3. \A s \in newSrv :
        /\ s.seal = s.id
        /\ \E c \in newCats : c.id = s.cat
        /\ s.key = 0 \/ \E k \in newKeys : k.id = s.key
  BY DEF Replaces
<1>4. m \in ImportStates /\ ImportOK(m)
  BY DEF TeamInv, TeamType
<1>5. /\ m.old \in SUBSET Nat /\ m.dropped \in SUBSET Nat /\ t \in Team
      /\ \A id \in m.old : id <= lastId
      /\ \A s \in srv : s.id \in m.old => s.team = t
  BY <1>4, ImportShape DEF ImportOK
<1>6. /\ \A r \in newKeys : r.id > lastId /\ r.team = t
      /\ \A r \in newCats : r.id > lastId /\ r.team = t
      /\ \A r \in newSrv : r.id \in Nat /\ r.id > lastId /\ r.team = t
      /\ IsFiniteSet(newKeys) /\ IsFiniteSet(newCats) /\ IsFiniteSet(newSrv)
  BY <1>2 DEF NewRows
<1>7. /\ after.step = "after" /\ after.stop = m.old /\ after.start = {v.id : v \in newSrv}
      /\ after \in ImportStates
  <2> DEFINE ids == {v.id : v \in newSrv}
  <2>1. ids \in SUBSET Nat
    BY <1>6
  <2> HIDE DEF ids
  <2> QED  BY <1>5, <2>1 DEF ImportStates, ids
<1> HIDE DEF after
<1>8. \A j \in Import : import'[j] = IF j = i THEN after ELSE import[j]
  BY <1>2 DEF TeamInv, TeamType
<1>9. /\ lost' \in [keys : SUBSET Nat, srv : SUBSET Nat]
      /\ lost'.keys = lost.keys /\ lost'.srv = lost.srv \cup (m.dropped \ m.old)
  BY <1>2, <1>5, TeamFacts
<1>10. left \in SUBSET srv /\ \A s \in srv : s \in left \/ s.id \in m.dropped
  OBVIOUS
<1> HIDE DEF left, t
<1>11. TeamType'
  <2>1. IsFiniteSet(cats') /\ IsFiniteSet(keys') /\ IsFiniteSet(srv')
    <3>1. IsFiniteSet({k \in keys : k.team # t})
      BY TeamFacts, FS_Subset
    <3>2. IsFiniteSet({c \in cats : c.team # t})
      BY TeamFacts, FS_Subset
    <3>3. IsFiniteSet(left)
      BY <1>10, TeamFacts, FS_Subset
    <3> QED  BY <1>2, <1>6, <3>1, <3>2, <3>3, FS_Union
  <2>2. import' \in [Import -> ImportStates]
    BY <1>2, <1>7 DEF TeamInv, TeamType
  <2>3. /\ cats' \in SUBSET CatRows /\ keys' \in SUBSET KeyRows /\ srv' \in SUBSET ServerRows
        /\ lastId' \in Nat
    BY <1>1 DEF RowsMove
  <2> QED  BY <1>9, <2>1, <2>2, <2>3 DEF TeamInv, TeamType
<1>12. Sound(file)'
  BY DEF TeamInv, Sound
<1>13. ExportInv'
  <2>1. export \in ExportStates /\ ExportOK(export)
    BY DEF TeamInv, TeamType, ExportInv
  <2>2. \A e \in ExportStates : ExportOK(e) => ExportOK(e)'
    BY <1>1, HistoryKeeps
  <2>4. ASSUME NEW e, e = export, ExportOK(e)'
        PROVE  ExportInv'
    <3>1. export' = e
      BY <2>4
    <3> QED  BY <2>4, <3>1 DEF ExportInv, ExportOK, Sound
  <2> QED  BY <2>1, <2>2, <2>4
<1>14. ASSUME NEW s \in srv'
       PROVE  s.id \notin m.old
  <2>1. CASE s \in left
    BY <1>2, <1>5, <1>10, <2>1
  <2>2. CASE s \in newSrv
    BY <1>2, <1>5, <1>6, <2>2
  <2> QED  BY <1>2, <2>1, <2>2
<1>15. ASSUME NEW q, q = after
       PROVE  ImportOK(q)'
  <2>1. \A id \in m.old : id <= lastId'
    BY <1>2, <1>5
  <2>2. q.step = "after" /\ q.stop = m.old
    BY <1>7, <1>15
  <2>3. (\A id \in q.stop : id <= lastId') /\ (\A s \in srv' : s.id \notin q.stop)
    BY <1>14, <2>1, <2>2
  <2> QED  BY <2>2, <2>3 DEF ImportOK
<1>16. (\A j \in Import : ImportOK(import[j]))'
  <2>1. \A q \in ImportStates : ImportOK(q) => ImportOK(q)'
    BY <1>1, HistoryKeeps
  <2> SUFFICES ASSUME NEW j \in Import
               PROVE  ImportOK(import[j])'
    OBVIOUS
  <2>2. import[j] \in ImportStates /\ ImportOK(import[j])
    BY DEF TeamInv, TeamType
  <2>3. ASSUME NEW q, q = import'[j], ImportOK(q)'
        PROVE  ImportOK(import[j])'
    BY <2>3 DEF ImportOK, Sound
  <2>4. CASE j = i
    <3>1. import'[j] = after
      BY <1>8, <2>4
    <3> QED  BY <1>15, <2>3, <3>1
  <2>5. CASE j # i
    <3>1. import'[j] = import[j]
      BY <1>8, <2>5
    <3> QED  BY <2>1, <2>2, <2>3, <3>1
  <2> QED  BY <2>4, <2>5
<1>17. StopInv'
  BY <1>1, HistoryKeeps, TeamFacts DEF TeamInv, StopInv
<1>18. CatsInv'
  <2>1. ASSUME NEW u \in Team
        PROVE  \E c \in cats' : c.team = u
    BY <1>2, <1>6 DEF TeamInv, CatsInv
  <2>2. ASSUME NEW s \in srv'
        PROVE  \E c \in cats' : c.team = s.team /\ c.id = s.cat
    <3>1. CASE s \in left
      <4>1. PICK c \in cats : c.team = s.team /\ c.id = s.cat
        BY <1>10, <3>1 DEF TeamInv, CatsInv
      <4> QED  BY <1>2, <3>1, <4>1
    <3>2. CASE s \in newSrv
      BY <1>2, <1>3, <1>6, <3>2
    <3> QED  BY <1>2, <3>1, <3>2
  <2> QED  BY <2>1, <2>2 DEF CatsInv
<1>19. KeysInv'
  <2>1. ASSUME NEW s \in left
        PROVE  s.key = 0 \/ s.key \in lost.keys \/ \E k \in keys' : k.id = s.key
    <3>1. ASSUME NEW k \in keys, k.id = s.key
          PROVE  k \in keys'
      <4>1. k.team = s.team
        BY <1>10, <3>1 DEF TeamInv, RowsInv
      <4> QED  BY <1>2, <4>1
    <3> QED  BY <1>10, <3>1 DEF TeamInv, KeysInv
  <2> QED  BY <1>2, <1>3, <1>9, <2>1 DEF KeysInv
<1>20. SealsInv'
  BY <1>2, <1>3, <1>10 DEF TeamInv, SealsInv
<1>21. WorkersInv'
  <2>1. \A x : WillStart(x)' <=> WillStart(x) \/ \E v \in newSrv : v.id = x
    BY <1>7, <1>8 DEF WillStart
  <2>2. \A x : WillStop(x)' <=> WillStop(x) \/ x \in m.old
    BY <1>7, <1>8 DEF WillStop
  <2>3. \A x : Connects(x)' => Connects(x) \/ \E v \in newSrv : v.id = x
    BY <1>2, <1>10 DEF Connects, T!Connectable
  <2>4. \A x : /\ Connects(x) => Connects(x)' \/ x \in m.dropped
               /\ Startable(x) => Startable(x)' \/ x \in m.dropped
    <3>1. \A s \in left : T!Readable(s) => T!Readable(s)'
      BY <1>2 DEF T!Readable
    <3> QED  BY <1>2, <1>10, <3>1 DEF Connects, Startable, T!Connectable
  <2> HIDE DEF m
  <2> QED  BY <1>9, <2>1, <2>2, <2>3, <2>4 DEF TeamInv, WorkersInv
<1> QED  BY <1>1, <1>11, <1>12, <1>13, <1>16, <1>17, <1>18, <1>19, <1>20, <1>21 DEF TeamInv

LEMMA TeamCommitKeeps ==
    ASSUME TeamInv, NEW i \in Import, T!CommitImport(i)
    PROVE  TeamInv'
<1>1. /\ import[i].step = "cleared" /\ UNCHANGED <<worker, retry, start, stop, export, file>>
      /\ \/ import' = [import EXCEPT ![i] = T!Done] /\ UNCHANGED TeamRows /\ lost' = lost
         \/ \E kmap, cmap, idm, C, last : Commits(i, kmap, cmap, idm, C, last)
  BY CommitShape
<1>2. CASE import' = [import EXCEPT ![i] = T!Done] /\ UNCHANGED TeamRows /\ lost' = lost
  <2>1. ImportOK(T!Done)
    BY IdleIsIdle DEF ImportOK
  <2> QED  BY <1>1, <1>2, <2>1, IdleIsIdle, ImportMoves
<1>3. ASSUME NEW kmap, NEW cmap, NEW idm, NEW C, NEW last, Commits(i, kmap, cmap, idm, C, last)
      PROVE  TeamInv'
  BY <1>1, <1>3, CommitRows, ReplaceKeeps
<1> QED  BY <1>1, <1>2, <1>3

-----------------------------------------------------------------------------
(* TeamConfig: the theorem *)

LEMMA TeamStep == TeamInv /\ [T!Next]_(T!teamVars) => TeamInv'
<1> SUFFICES ASSUME TeamInv, [T!Next]_(T!teamVars)
             PROVE  TeamInv'
  OBVIOUS
<1>1. ASSUME T!Edit
      PROVE  TeamInv'
  <2>1. CASE \E t \in Team : T!CreateCategory(t) \/ T!AddKey(t)
    BY <2>1, CreateCategoryKeeps, AddKeyKeeps
  <2>2. CASE \E c \in cats : T!DeleteCategory(c)
    BY <2>2, DeleteCategoryKeeps
  <2>3. CASE \E s \in srv : T!DeleteServer(s) \/ \E c \in cats : T!SetServerCategory(s, c)
    BY <2>3, DeleteServerKeeps, SetServerCategoryKeeps
  <2>4. CASE \E k \in keys : T!DeleteKey(k)
    BY <2>4, DeleteKeyKeeps
  <2>5. CASE \E c \in cats, kind \in 0..2 : \E k \in T!Of(keys, c.team) \cup {T!NoKey(c.team)} :
               T!AddServer(c.team, c, kind, k)
    BY <2>5, AddServerKeeps
  <2> QED  BY <1>1, <2>1, <2>2, <2>3, <2>4, <2>5 DEF T!Edit
<1>2. ASSUME T!Follow
      PROVE  TeamInv'
  BY <1>2, ReconcileKeeps, StopServerKeeps DEF T!Follow
<1>3. ASSUME T!Export
      PROVE  TeamInv'
  BY <1>3, ExportCategoriesKeeps, ExportKeysKeeps, ListServersKeeps, ExportServersKeeps DEF T!Export
<1>4. ASSUME NEW i \in Import, T!ImportStep(i)
      PROVE  TeamInv'
  BY <1>4, PreflightKeeps, ListOldKeeps, ClearKeeps, TeamCommitKeeps, AbortKeeps, AfterKeeps
     DEF T!ImportStep
<1>5. CASE UNCHANGED T!teamVars
  <2>1. UNCHANGED TeamRows /\ UNCHANGED <<worker, retry, start, stop, export, file, import, lost>>
    BY <1>5 DEF T!teamVars, TeamRows
  <2>2. export' \in ExportStates /\ ExportOK(export') /\ file' \in Contents(FileRows) /\ Sound(file')
    BY <2>1 DEF TeamInv, TeamType, ExportInv
  <2> QED  BY <2>1, <2>2, ExportMoves
<1> QED  BY <1>1, <1>2, <1>3, <1>4, <1>5, TeamRestartKeeps DEF T!Next

\* Categories, keys, secrets and workers belong to the servers that are there,
\* for any teams, any number of concurrent imports (export_import.go), exports
\* that read table after table between the edits of other handlers, restarts,
\* and any number of rows and edits.  The one gap is a server that is added
\* between an import's listing and its deletion (see TeamConfig).
THEOREM TeamsStayWhole == T!Spec => []TeamStaysWhole
<1>1. T!Spec => []TeamInv
  BY TeamInit, TeamStep, PTL DEF T!Spec
<1>2. TeamInv => TeamStaysWhole
  BY TeamSays DEF TeamStaysWhole
<1> QED  BY <1>1, <1>2, PTL

-----------------------------------------------------------------------------
(* The components together *)

PartsInv ==
    /\ part = "ssh" => SshInv
    /\ part = "agent" => AgentInv
    /\ part = "oauth" => OAuthInv
    /\ part = "team" => TeamInv

LEMMA PartsInit == Init => PartsInv
BY SshInit, AgentInit, OAuthInit, TeamInit, AgentAssumption DEF Init, PartsInv

LEMMA PartsStep == PartsInv /\ [Next]_vars => PartsInv'
<1> SUFFICES ASSUME PartsInv, [Next]_vars
             PROVE  PartsInv'
  OBVIOUS
<1>1. part' = part
  BY DEF Next, vars
<1>2. part = "ssh" => [S!Next]_(S!sshVars)
  BY DEF Next, vars, sshVars, S!sshVars
<1>3. part = "oauth" => [O!Next]_oauthVars
  BY DEF Next, vars, oauthVars
<1>4. part = "team" => [T!Next]_(T!teamVars)
  BY DEF Next, vars, teamVars, T!teamVars
<1>5. part = "agent" => [A!Next]_(A!agentVars)
  BY DEF Next, vars, agentVars, A!agentVars
<1> QED  BY <1>1, <1>2, <1>3, <1>4, <1>5, SshStep, AgentStep, OAuthStep, TeamStep
         DEF PartsInv

\* What the runs of this module check, of the specification they explore and
\* for every value of its constants: no login of an SSH server or of an
\* agent's host is reported twice, an authorization ends with the account it
\* proved, the hub ends up with the committed provider, and teams stay whole.
THEOREM RequestsSound ==
    Spec => [](/\ SshLoginOnce /\ AgentLoginOnce /\ AccountsAreProved
               /\ MemoryFollowsRow /\ TeamStaysWhole)
<1>1. Spec => []PartsInv
  BY PartsInit, PartsStep, PTL DEF Spec
<1>2. PartsInv => /\ SshLoginOnce /\ AgentLoginOnce /\ AccountsAreProved
                  /\ MemoryFollowsRow /\ TeamStaysWhole
  BY SshSays, AgentSays, OAuthSays, TeamSays
     DEF PartsInv, SshLoginOnce, AgentLoginOnce, AccountsAreProved, MemoryFollowsRow, TeamStaysWhole
<1> QED  BY <1>1, <1>2, PTL
=============================================================================
