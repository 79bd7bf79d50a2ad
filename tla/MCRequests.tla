----------------------------- MODULE MCRequests -----------------------------
(***************************************************************************)
(* Four components that share no state, checked together: the login        *)
(* monitors of SSH servers and of agents, sign-in with an external         *)
(* provider, and the configuration of teams.  A behaviour explores one of  *)
(* them; the variables of the others are out of use, so the state spaces   *)
(* add up.                                                                 *)
(***************************************************************************)
EXTENDS Integers, FiniteSets, TLC

CONSTANTS Parts,                                \* the components explored
          MaxLogins, MaxClock, Own, WtmpOverlap, WtmpTail, LastLines,
          MaxAgentLogins, MaxAgentClock, MaxInodes, MaxSeen, EvictCount, MaxPerReport,
          Admins, Requests, Users, Subjects, Namespaces, MaxRevision, MaxStates,
          Team, Import, MaxId, MaxEdits

\* loginWtmpOverlap is 128 records; the script reads 256 without a cursor.
ASSUME SshAssumption ==
    /\ MaxLogins \in Nat /\ WtmpOverlap \in Nat /\ WtmpTail \in Nat /\ LastLines \in Nat
    /\ WtmpOverlap <= WtmpTail

\* maxSeenKeys is 4096; eviction takes a quarter of them.
ASSUME AgentAssumption ==
    /\ MaxAgentLogins \in Nat /\ MaxSeen \in Nat /\ MaxPerReport \in Nat
    /\ EvictCount \in 0 .. MaxSeen

\* A provider has endpoints.
ASSUME OAuthAssumption == Namespaces # {}

\* The teams are numbered from 1; the first row of each is numbered like it.
ASSUME TeamAssumption ==
    IsFiniteSet(Team) /\ Team # {} /\ Team = 1 .. Cardinality(Team)

VARIABLES part,
          host, prober, report,
          disk, watch, hub, news,
          row, identity, memory, admin, session, request, done,
          cats, keys, srv, lastId, worker, retry, start, stop, export, file,
          import, edits, lost

S == INSTANCE SshLogins
A == INSTANCE AgentLogins WITH MaxLogins <- MaxAgentLogins, MaxClock <- MaxAgentClock
O == INSTANCE OAuthProviders
T == INSTANCE TeamConfig

sshVars == <<host, prober, report>>
agentVars == <<disk, watch, hub, news>>
oauthVars == <<row, identity, memory, admin, session, request, done>>
teamVars == <<cats, keys, srv, lastId, worker, retry, start, stop, export, file,
              import, edits, lost>>
vars == <<part, sshVars, agentVars, oauthVars, teamVars>>

Off == "out of use"
SshOff == host = Off /\ prober = Off /\ report = Off
AgentOff == disk = Off /\ watch = Off /\ hub = Off /\ news = Off
OAuthOff == /\ row = Off /\ identity = Off /\ memory = Off /\ admin = Off
            /\ session = Off /\ request = Off /\ done = Off
TeamOff == /\ cats = Off /\ keys = Off /\ srv = Off /\ lastId = Off /\ worker = Off
           /\ retry = Off /\ start = Off /\ stop = Off /\ export = Off /\ file = Off
           /\ import = Off /\ edits = Off /\ lost = Off

Init ==
    /\ part \in Parts
    /\ \/ part = "ssh" /\ S!Init /\ AgentOff /\ OAuthOff /\ TeamOff
       \/ part = "agent" /\ A!Init /\ SshOff /\ OAuthOff /\ TeamOff
       \/ part = "oauth" /\ O!Init /\ SshOff /\ AgentOff /\ TeamOff
       \/ part = "team" /\ T!Init /\ SshOff /\ AgentOff /\ OAuthOff

Next ==
    /\ UNCHANGED part
    /\ \/ part = "ssh" /\ S!Next /\ UNCHANGED <<agentVars, oauthVars, teamVars>>
       \/ part = "agent" /\ A!Next /\ UNCHANGED <<sshVars, oauthVars, teamVars>>
       \/ part = "oauth" /\ O!Next /\ UNCHANGED <<sshVars, agentVars, teamVars>>
       \/ part = "team" /\ T!Next /\ UNCHANGED <<sshVars, agentVars, oauthVars>>

Spec == Init /\ [][Next]_vars

\* Sound: no component names a single member of these sets.
Symmetry == Permutations(Admins) \cup Permutations(Requests)
            \cup Permutations(Users) \cup Permutations(Import)

\* No login of an SSH server is reported twice: see SshLogins.
SshLoginOnce == part = "ssh" => S!SshLoginOnce

\* No login of an agent's host is notified twice: see AgentLogins.
AgentLoginOnce == part = "agent" => A!AgentLoginOnce

\* An authorization ends with the account it proved: see OAuthProviders.
AccountsAreProved == part = "oauth" => O!AccountsAreProved

\* The hub ends up with the committed provider: see OAuthProviders.
MemoryFollowsRow == part = "oauth" => O!MemoryFollowsRow

\* Edits, exports and imports leave every team whole: see TeamConfig.
TeamStaysWhole == part = "team" => T!TeamStaysWhole
=============================================================================
