--------------------------- MODULE SessionsProofs ---------------------------
(***************************************************************************)
(* For any number of session ids, teams and concurrent requests: a         *)
(* signed-in session can be seen and revoked, sign-in rotates the id, and  *)
(* sessions of a team the user has lost are revoked.                       *)
(***************************************************************************)
EXTENDS Sessions, TLAPS

Kinds == {"none", "login", "verify", "logout", "revoke", "revokeAll", "sessions",
          "active", "leave", "edit", "team", "me", "stream"}

ReqRecords == [pc : Pcs, kind : Kinds, sid : Sids \cup {NoSid}, copy : Values,
               team : Teams \cup {0}, next : Sids \cup {NoSid}, ids : SUBSET Sids,
               refs : SUBSET Sids, hit : SUBSET Sids, found : SUBSET Sids]

(* The state outside the requests has its type.                            *)
SharedType ==
    /\ session \in [Sids -> Values \cup {Gone}]
    /\ index \subseteq issued /\ issued \subseteq Sids
    /\ member \subseteq Teams /\ active \in member \cup {0}
    /\ revived \subseteq issued /\ late \subseteq issued /\ missed \in BOOLEAN
    /\ ops \in 0 .. MaxOps /\ faults \in 0 .. MaxFaults

(* Session s is not signed in, unless a request that had loaded it wrote   *)
(* it back.                                                                *)
Over(s) == Auth(s) => s \in revived

(* A request works on ids that were given out, and what it is about to     *)
(* unlist it has deleted.                                                  *)
ReqOK(q) ==
    /\ q \in ReqRecords
    /\ q.sid \in issued \cup {NoSid} /\ q.next \in issued \cup {NoSid}
    /\ q.ids \cup q.refs \cup q.hit \cup q.found \subseteq issued
    /\ q.sid = NoSid => ~q.copy.auth
    /\ q.pc \in {"owned", "gather", "gatherEach", "gathered", "del", "srem", "expire",
                "setActive", "save", "leave", "role", "clear", "stream"} => q.sid # NoSid
    /\ q.pc \in {"add", "undo", "undoRef"} => q.next # NoSid
    /\ q.pc \in {"readTeam", "saveNew", "add", "dropRef"} /\ q.sid # NoSid => Over(q.sid)
    /\ q.pc = "undoRef" => Over(q.next)
    /\ q.pc = "leave" => q.kind = "leave"
    /\ q.pc = "owned" => q.refs = q.ids
    /\ q.pc = "del" => \A s \in q.refs \ q.ids : Over(s)
    /\ q.pc = "srem" => \A s \in q.refs : Over(s)

(* Request q has signed s in and is about to list it or take it back.      *)
Listing(q, s) == q.next = s /\ q.pc \in {"add", "undo"}

(* Request q is about to revoke s, a session of the team that was lost.    *)
Revoking(q, s) ==
    /\ q.team = session[s].tid
    /\ \/ q.pc = "save" /\ q.kind = "leave"
       \/ q.pc = "list"
       \/ q.pc = "match" /\ s \in q.ids \cup q.hit

(* A session of a lost team that nothing excuses is about to be revoked,   *)
(* or its sign-in is not over.                                             *)
TeamInv ==
    \A s \in Sids : Auth(s) /\ session[s].tid \notin member \cup {0} =>
        \/ missed \/ s \in late \cup revived
        \/ \E r \in Reqs : Listing(req[r], s) \/ Revoking(req[r], s)

(* The inductive invariant.                                                *)
IInv ==
    /\ SharedType
    /\ DOMAIN req = Reqs /\ \A r \in Reqs : ReqOK(req[r])
    /\ LiveSessionsAreListed
    /\ TeamInv

-----------------------------------------------------------------------------
(* A request at rest is as it should be.                                   *)
LEMMA IdleOK == ReqOK(Idle) /\ ReqOK(Idle)' /\ Idle \in ReqRecords /\ Idle.pc = "idle"
BY SidsAssumption DEF ReqOK, Idle, ReqRecords, Pcs, Kinds, Values, Empty

(* The initial state satisfies the invariant.                              *)
LEMMA InitIInv == Init => IInv
<1> SUFFICES ASSUME Init PROVE IInv
  OBVIOUS
<1> USE SidsAssumption, TeamsAssumption, BoundsAssumption
<1>1. PICK s \in Sids, t \in Teams :
          /\ session = [x \in Sids |-> IF x = s
                        THEN [auth |-> TRUE, pre |-> FALSE, tid |-> t] ELSE Gone]
          /\ index = {s} /\ issued = {s}
          /\ active = t
  BY DEF Init
<1>2. SharedType
  <2>1. [auth |-> TRUE, pre |-> FALSE, tid |-> t] \in Values
    BY DEF Values
  <2>2. session \in [Sids -> Values \cup {Gone}]
    BY <1>1, <2>1
  <2>3. member = Teams /\ revived = {} /\ late = {} /\ missed = FALSE /\ ops = 0 /\ faults = 0
    BY DEF Init
  <2>4. /\ index \subseteq issued /\ issued \subseteq Sids
        /\ member \subseteq Teams /\ active \in member \cup {0}
        /\ revived \subseteq issued /\ late \subseteq issued
    BY <1>1, <2>3
  <2>5. ops \in 0 .. MaxOps /\ faults \in 0 .. MaxFaults
    BY <2>3, BoundsAssumption
  <2>6. missed \in BOOLEAN
    BY <2>3
  <2> QED  BY <2>2, <2>4, <2>5, <2>6 DEF SharedType
<1>3. DOMAIN req = Reqs /\ \A r \in Reqs : req[r] = Idle
  BY DEF Init
<1>4. \A r \in Reqs : ReqOK(req[r])
  BY <1>3, IdleOK
<1>5. \A x \in Sids : Auth(x) => x = s /\ session[x].tid = t
  BY <1>1 DEF Auth
<1>6. LiveSessionsAreListed
  BY <1>1, <1>5 DEF LiveSessionsAreListed
<1>7. TeamInv
  BY <1>1, <1>5 DEF TeamInv, Init
<1> QED  BY <1>2, <1>3, <1>4, <1>6, <1>7 DEF IInv

-----------------------------------------------------------------------------
(* What a step of request r has to keep to: it leaves the other requests'  *)
(* records alone, signs nothing in without listing it, unlists nothing     *)
(* that is signed in, and hands on or fulfils what it owed.                *)
LEMMA RequestStep ==
    ASSUME IInv, NEW r \in Reqs, NEW q, req' = [req EXCEPT ![r] = q], ReqOK(q)',
           SharedType',
           issued \subseteq issued', revived \subseteq revived', late \subseteq late', missed => missed',
           \A s \in Sids : Auth(s)' /\ ~Auth(s) => s \in revived' \/ (s \notin issued /\ Listing(q, s)),
           \A s \in index \ index' : Over(s)',
           \A s \in Sids : Listing(req[r], s) => s \in index' \/ Over(s)' \/ Listing(q, s),
           \A s \in Sids : Auth(s)' /\ session'[s] # session[s] /\ session'[s].tid \notin member' \cup {0}
                => missed' \/ s \in late' \cup revived',
           \A s \in Sids : Auth(s) /\ session'[s] = session[s] /\ session[s].tid \in member \ member'
                => Revoking(q, s)',
           \A s \in Sids : /\ Auth(s) /\ session'[s] = session[s]
                           /\ session[s].tid \notin member' \cup {0}
                           /\ Listing(req[r], s) \/ Revoking(req[r], s)
                => \/ missed' \/ s \in late' \cup revived' \/ Listing(q, s) \/ Revoking(q, s)'
                   \/ \E x \in Reqs \ {r} : Listing(req[x], s)
    PROVE  IInv'
<1>0. /\ SharedType /\ DOMAIN req = Reqs /\ (\A x \in Reqs : ReqOK(req[x]))
      /\ LiveSessionsAreListed /\ TeamInv
  BY DEF IInv
<1>1. /\ DOMAIN req' = Reqs /\ req'[r] = q
      /\ \A x \in Reqs \ {r} : req'[x] = req[x]
  BY <1>0
<1>2. \A s \in issued : Over(s) => Over(s)'
  <2>1. \A s \in issued : Auth(s)' => Auth(s) \/ s \in revived'
    BY <1>0 DEF SharedType
  <2> QED  BY <2>1 DEF Over
<1>3. \A x \in Reqs : ReqOK(req[x])'
  <2>1. ASSUME NEW x \in Reqs \ {r}
        PROVE  ReqOK(req[x])'
    <3>0. PICK p : p = req[x]
      OBVIOUS
    <3>1. ReqOK(p) /\ req'[x] = p
      BY <1>0, <1>1, <3>0
    <3>2. /\ p.pc \in {"readTeam", "saveNew", "add", "dropRef"} /\ p.sid # NoSid => Over(p.sid)'
          /\ p.pc = "undoRef" => Over(p.next)'
          /\ p.pc = "del" => \A s \in p.refs \ p.ids : Over(s)'
          /\ p.pc = "srem" => \A s \in p.refs : Over(s)'
      BY <1>2, <3>1 DEF ReqOK
    <3>3. ReqOK(p)'
      BY <3>1, <3>2 DEF ReqOK
    <3> QED  BY <3>1, <3>3 DEF ReqOK, Over, Auth
  <2>2. ReqOK(req[r])'
    BY <1>1 DEF ReqOK, Over, Auth
  <2> QED  BY <2>1, <2>2
<1>4. LiveSessionsAreListed'
  <2> SUFFICES ASSUME NEW s \in Sids, Auth(s)'
               PROVE  \/ s \in index' \/ s \in revived'
                      \/ \E x \in Reqs : Listing(req'[x], s)
    BY DEF LiveSessionsAreListed, Listing
  <2>1. CASE ~Auth(s)
    BY <1>1, <2>1
  <2>2. CASE Auth(s)
    <3>1. s \in index \/ s \in revived \/ \E x \in Reqs : Listing(req[x], s)
      BY <1>0, <2>2 DEF LiveSessionsAreListed, Listing
    <3>2. CASE s \in index
      BY <3>2 DEF Over
    <3>3. ASSUME NEW x \in Reqs, Listing(req[x], s)
          PROVE  s \in index' \/ s \in revived' \/ \E y \in Reqs : Listing(req'[y], s)
      <4>1. CASE x = r
        BY <1>1, <3>3, <4>1 DEF Over
      <4>2. CASE x # r
        BY <1>1, <3>3, <4>2
      <4> QED  BY <4>1, <4>2
    <3> QED  BY <3>1, <3>2, <3>3
  <2> QED  BY <2>1, <2>2
<1>5. TeamInv'
  <2> SUFFICES ASSUME NEW s \in Sids, Auth(s)', session'[s].tid \notin member' \cup {0},
                      ~(missed' \/ s \in late' \cup revived')
               PROVE  \E x \in Reqs : Listing(req'[x], s) \/ Revoking(req[x], s)'
    BY DEF TeamInv, Listing
  <2>1. session'[s] = session[s]
    OBVIOUS
  <2>2. Auth(s)
    BY <2>1 DEF Auth
  <2>3. CASE session[s].tid \in member
    <3>1. Revoking(q, s)'
      BY <2>1, <2>2, <2>3
    <3>2. Revoking(req[r], s)'
      BY <1>1, <3>1 DEF Revoking
    <3> QED  BY <3>2
  <2>4. CASE session[s].tid \notin member
    <3>1. ~(missed \/ s \in late \cup revived)
      OBVIOUS
    <3>2. PICK x \in Reqs : Listing(req[x], s) \/ Revoking(req[x], s)
      BY <1>0, <2>1, <2>2, <2>4, <3>1 DEF TeamInv
    <3>3. CASE x = r
      <4>1. \/ Listing(q, s) \/ Revoking(q, s)'
            \/ \E y \in Reqs \ {r} : Listing(req[y], s)
        BY <2>1, <2>2, <3>2, <3>3
      <4> QED  BY <1>1, <4>1 DEF Revoking
    <3>4. CASE x # r
      BY <1>1, <2>1, <3>2, <3>4 DEF Revoking
    <3> QED  BY <3>3, <3>4
  <2> QED  BY <2>3, <2>4
<1> QED  BY <1>1, <1>3, <1>4, <1>5 DEF IInv

(* A step of request r that writes no session: it may delete some, and     *)
(* unlist ones that are over.                                              *)
LEMMA NoWriteStep ==
    ASSUME IInv, NEW r \in Reqs, NEW q, req' = [req EXCEPT ![r] = q], ReqOK(q)',
           session' \in [Sids -> Values \cup {Gone}],
           \A s \in Sids : session'[s] = session[s] \/ session'[s] = Gone,
           index' \subseteq index, \A s \in index \ index' : Over(s)',
           UNCHANGED <<issued, member, revived, late, missed>>,
           active' \in member \cup {0}, ops' \in 0 .. MaxOps, faults' \in 0 .. MaxFaults,
           \A s \in Sids : session'[s] # Gone =>
               /\ Listing(req[r], s) => Listing(q, s)
               /\ Revoking(req[r], s) => Revoking(q, s)
    PROVE  IInv'
<1>1. SharedType'
  BY DEF IInv, SharedType
<1>2. \A s \in Sids : /\ Auth(s)' => Auth(s)
                      /\ Auth(s)' => session'[s] = session[s]
                      /\ session'[s] = session[s] /\ Revoking(q, s) => Revoking(q, s)'
                      /\ session'[s] = session[s] /\ Auth(s) => session[s] # Gone
  BY DEF Auth, Revoking
<1>3. \A s \in Sids : Listing(req[r], s) => s \in index' \/ Over(s)' \/ Listing(q, s)
  BY <1>2 DEF Over
<1>4. \A s \in Sids : (Auth(s) /\ session'[s] = session[s] /\ (Listing(req[r], s) \/ Revoking(req[r], s)))
          => (Listing(q, s) \/ Revoking(q, s)')
  BY <1>2
<1> QED  BY <1>1, <1>2, <1>3, <1>4, RequestStep

(* A step of request r that changes nothing but the request.               *)
LEMMA StillStep ==
    ASSUME IInv, NEW r \in Reqs, NEW q, req' = [req EXCEPT ![r] = q], ReqOK(q),
           UNCHANGED <<session, index, issued, member, active, revived, late, missed>>,
           ops' \in 0 .. MaxOps, faults' \in 0 .. MaxFaults,
           \A s \in Sids : /\ Listing(req[r], s) => Listing(q, s)
                           /\ Revoking(req[r], s) => Revoking(q, s)
    PROVE  IInv'
<1>1. ReqOK(q)'
  BY DEF ReqOK, Over, Auth
<1>2. SharedType
  BY DEF IInv
<1>3. /\ session' \in [Sids -> Values \cup {Gone}]
      /\ \A s \in Sids : session'[s] = session[s]
      /\ index' \subseteq index /\ index \ index' = {}
      /\ active' \in member \cup {0}
  BY <1>2 DEF SharedType
<1> QED  BY <1>1, <1>3, NoWriteStep

-----------------------------------------------------------------------------
(* The session a request loads is typed, and without a cookie not signed   *)
(* in.                                                                     *)
LEMMA LoadType ==
    ASSUME SharedType, NEW s \in Cookies
    PROVE  Load(s) \in Values /\ (s = NoSid => ~Load(s).auth) /\ s \in Sids \cup {NoSid}
<1>1. Empty \in Values /\ ~Empty.auth
  BY DEF Values, Empty
<1> QED  BY <1>1, SidsAssumption DEF SharedType, Load, Cookies

(* The arrival of a request.                                               *)
LEMMA ArriveStep ==
    ASSUME IInv, NEW r \in Reqs, NEW q, Arrive(r, q),
           q \in ReqRecords, q.sid \in Cookies, q.sid = NoSid => ~q.copy.auth,
           q.next = NoSid, q.ids \subseteq issued, q.refs = q.ids, q.hit = {}, q.found = {},
           \/ q.pc \in {"savePre", "dropOld"}
           \/ q.sid # NoSid /\ q.pc \in {"del", "expire", "owned", "gather", "setActive", "leave", "role"},
           q.pc = "leave" => q.kind = "leave"
    PROVE  IInv'
<1>1. ReqOK(q)
  BY DEF ReqOK, Cookies
<1>2. /\ req[r].pc = "idle" /\ req' = [req EXCEPT ![r] = q]
      /\ ops < MaxOps /\ ops' = ops + 1 /\ faults' = faults
      /\ UNCHANGED <<session, index, issued, member, active, revived, late, missed>>
  BY DEF Arrive, redis, sql, history
<1>3. ops' \in 0 .. MaxOps /\ faults' \in 0 .. MaxFaults
  BY <1>2, BoundsAssumption DEF IInv, SharedType
<1>4. \A s \in Sids : ~Listing(req[r], s) /\ ~Revoking(req[r], s)
  BY <1>2 DEF Listing, Revoking
<1> QED  BY <1>1, <1>2, <1>3, <1>4, StillStep

(* Every request that a client may send.                                   *)
LEMMA NewRequestStep ==
    ASSUME IInv, NEW r \in Reqs, NEW s \in Cookies,
           \/ \E bound, twoFA \in BOOLEAN : Login(r, s, bound, twoFA)
           \/ Verify(r, s) \/ Logout(r, s)
           \/ \E v \in issued : SessionRevoke(r, s, v)
           \/ \E all \in BOOLEAN : ListSessions(r, s, all)
           \/ \E t \in Teams : SetActiveTeam(r, s, t) \/ Leave(r, s, t)
           \/ \E kind \in {"team", "me", "stream"} : TeamRequest(r, s, kind)
    PROVE  IInv'
<1>0. SharedType
  BY DEF IInv
<1>1. PICK c : c = Load(s) /\ c \in Values /\ (s = NoSid => ~c.auth) /\ s \in Sids \cup {NoSid}
  BY <1>0, LoadType
<1>2. Idle \in ReqRecords
  BY IdleOK
<1>3. ASSUME NEW bound \in BOOLEAN, NEW twoFA \in BOOLEAN, Login(r, s, bound, twoFA)
      PROVE  IInv'
  <2>1. PICK pc \in {"savePre", "dropOld"} :
            Arrive(r, [Idle EXCEPT !.kind = "login", !.sid = s, !.copy = c, !.pc = pc])
    BY <1>1, <1>3 DEF Login
  <2>2. PICK q : q = [Idle EXCEPT !.kind = "login", !.sid = s, !.copy = c, !.pc = pc]
    OBVIOUS
  <2>3. Arrive(r, q)
    BY <2>1, <2>2
  <2>4. /\ q \in ReqRecords /\ q.sid = s /\ q.copy = c /\ q.pc = pc /\ q.kind = "login"
        /\ q.next = NoSid /\ q.ids = {} /\ q.refs = {} /\ q.hit = {} /\ q.found = {}
    BY <1>1, <2>2 DEF ReqRecords, Idle, Pcs, Kinds
  <2> QED  BY <1>1, <2>3, <2>4, ArriveStep
<1>4. CASE Verify(r, s)
  <2>1. PICK q : /\ q = [Idle EXCEPT !.kind = "verify", !.sid = s, !.copy = c, !.pc = "dropOld"]
                 /\ Arrive(r, q)
    BY <1>1, <1>4 DEF Verify
  <2>2. /\ q \in ReqRecords /\ q.sid = s /\ q.copy = c /\ q.pc = "dropOld"
        /\ q.next = NoSid /\ q.ids = {} /\ q.refs = {} /\ q.hit = {} /\ q.found = {}
    BY <1>1, <2>1 DEF ReqRecords, Idle, Pcs, Kinds
  <2> QED  BY <1>1, <2>1, <2>2, ArriveStep
<1>5. CASE Logout(r, s)
  <2>1. PICK pc \in {"del", "expire"} :
            Arrive(r, [Idle EXCEPT !.kind = "logout", !.sid = s, !.ids = {s}, !.refs = {s}, !.pc = pc])
    BY <1>5 DEF Logout
  <2>2. PICK q : q = [Idle EXCEPT !.kind = "logout", !.sid = s, !.ids = {s}, !.refs = {s}, !.pc = pc]
    OBVIOUS
  <2>3. Arrive(r, q)
    BY <2>1, <2>2
  <2>4. s # NoSid /\ s \in issued /\ s \in Sids
    BY <1>1, <1>5 DEF Logout, Cookies
  <2>5. /\ q \in ReqRecords /\ q.sid = s /\ ~q.copy.auth /\ q.pc = pc
        /\ q.next = NoSid /\ q.ids = {s} /\ q.refs = {s} /\ q.hit = {} /\ q.found = {}
    BY <2>2, <2>4 DEF ReqRecords, Idle, Pcs, Kinds, Values, Empty
  <2> QED  BY <2>3, <2>4, <2>5, ArriveStep
<1>6. ASSUME NEW v \in issued, SessionRevoke(r, s, v)
      PROVE  IInv'
  <2>1. PICK q : /\ q = [Idle EXCEPT !.kind = "revoke", !.sid = s, !.ids = {v}, !.refs = {v}, !.pc = "owned"]
                 /\ Arrive(r, q)
    BY <1>6 DEF SessionRevoke
  <2>2. s # NoSid /\ v \in Sids
    BY <1>0, <1>6 DEF SessionRevoke, UserAuth, SharedType
  <2>3. /\ q \in ReqRecords /\ q.sid = s /\ q.pc = "owned"
        /\ q.next = NoSid /\ q.ids = {v} /\ q.refs = {v} /\ q.hit = {} /\ q.found = {}
    BY <1>1, <2>1, <2>2 DEF ReqRecords, Idle, Pcs, Kinds, Values, Empty
  <2> QED  BY <2>1, <2>2, <2>3, ArriveStep
<1>7. ASSUME NEW all \in BOOLEAN, ListSessions(r, s, all)
      PROVE  IInv'
  <2>1. PICK k \in {"revokeAll", "sessions"} :
            Arrive(r, [Idle EXCEPT !.kind = k, !.sid = s, !.pc = "gather"])
    BY <1>7 DEF ListSessions
  <2>2. PICK q : q = [Idle EXCEPT !.kind = k, !.sid = s, !.pc = "gather"]
    OBVIOUS
  <2>3. Arrive(r, q)
    BY <2>1, <2>2
  <2>4. s # NoSid
    BY <1>7 DEF ListSessions, UserAuth
  <2>5. /\ q \in ReqRecords /\ q.sid = s /\ q.pc = "gather"
        /\ q.next = NoSid /\ q.ids = {} /\ q.refs = {} /\ q.hit = {} /\ q.found = {}
    BY <1>1, <2>2 DEF ReqRecords, Idle, Pcs, Kinds, Values, Empty
  <2> QED  BY <2>3, <2>4, <2>5, ArriveStep
<1>8. ASSUME NEW t \in Teams, SetActiveTeam(r, s, t)
      PROVE  IInv'
  <2>1. PICK q : /\ q = [Idle EXCEPT !.kind = "active", !.sid = s, !.copy = c, !.team = t, !.pc = "setActive"]
                 /\ Arrive(r, q)
    BY <1>1, <1>8 DEF SetActiveTeam
  <2>2. s # NoSid
    BY <1>8 DEF SetActiveTeam, UserAuth
  <2>3. /\ q \in ReqRecords /\ q.sid = s /\ q.pc = "setActive"
        /\ q.next = NoSid /\ q.ids = {} /\ q.refs = {} /\ q.hit = {} /\ q.found = {}
    BY <1>1, <2>1 DEF ReqRecords, Idle, Pcs, Kinds
  <2> QED  BY <2>1, <2>2, <2>3, ArriveStep
<1>9. ASSUME NEW t \in Teams, Leave(r, s, t)
      PROVE  IInv'
  <2>1. PICK q : /\ q = [Idle EXCEPT !.kind = "leave", !.sid = s, !.copy = c, !.team = t, !.pc = "leave"]
                 /\ Arrive(r, q)
    BY <1>1, <1>9 DEF Leave
  <2>2. s # NoSid
    BY <1>9 DEF Leave, UserAuth
  <2>3. /\ q \in ReqRecords /\ q.sid = s /\ q.pc = "leave" /\ q.kind = "leave"
        /\ q.next = NoSid /\ q.ids = {} /\ q.refs = {} /\ q.hit = {} /\ q.found = {}
    BY <1>1, <2>1 DEF ReqRecords, Idle, Pcs, Kinds
  <2> QED  BY <2>1, <2>2, <2>3, ArriveStep
<1>10. ASSUME NEW kind \in {"team", "me", "stream"}, TeamRequest(r, s, kind)
       PROVE  IInv'
  <2>1. s # NoSid
    BY <1>10 DEF TeamRequest, UserAuth
  <2>2. c.tid \in Teams \cup {0} /\ active \in Teams \cup {0}
    BY <1>0, <1>1 DEF Values, SharedType
  <2>3. PICK t \in Teams \cup {0} :
            Arrive(r, [Idle EXCEPT !.kind = kind, !.sid = s, !.copy = c, !.team = t, !.pc = "role"])
    BY <1>1, <1>10, <2>2 DEF TeamRequest
  <2>4. PICK q : q = [Idle EXCEPT !.kind = kind, !.sid = s, !.copy = c, !.team = t, !.pc = "role"]
    OBVIOUS
  <2>5. Arrive(r, q)
    BY <2>3, <2>4
  <2>6. /\ q \in ReqRecords /\ q.sid = s /\ q.pc = "role"
        /\ q.next = NoSid /\ q.ids = {} /\ q.refs = {} /\ q.hit = {} /\ q.found = {}
    BY <1>1, <2>4 DEF ReqRecords, Idle, Pcs, Kinds
  <2> QED  BY <2>1, <2>5, <2>6, ArriveStep
<1> QED  BY <1>3, <1>4, <1>5, <1>6, <1>7, <1>8, <1>9, <1>10

-----------------------------------------------------------------------------
(* What is known of the request that takes the step.                       *)
LEMMA RequestFacts ==
    ASSUME IInv, NEW r \in Reqs
    PROVE  /\ SharedType /\ ReqOK(req[r]) /\ req[r] \in ReqRecords
           /\ ops \in 0 .. MaxOps /\ faults \in 0 .. MaxFaults
           /\ req[r].pc \notin {"add", "undo"} => \A s \in Sids : ~Listing(req[r], s)
           /\ req[r].pc \notin {"save", "list", "match"} => \A s \in Sids : ~Revoking(req[r], s)
BY DEF IInv, ReqOK, SharedType, Listing, Revoking

(* A request that owes nothing ends.                                       *)
LEMMA EndStep ==
    ASSUME IInv, NEW r \in Reqs, End(r),
           UNCHANGED <<session, index, issued, member, active, revived, late, missed>>,
           ops' \in 0 .. MaxOps, faults' \in 0 .. MaxFaults,
           \A s \in Sids : ~Listing(req[r], s) /\ ~Revoking(req[r], s)
    PROVE  IInv'
BY IdleOK, StillStep DEF End

LEMMA ReadTeamStep ==
    ASSUME IInv, NEW r \in Reqs, ReadTeam(r)
    PROVE  IInv'
<1>1. PICK p : p = req[r] /\ ReqOK(p) /\ p \in ReqRecords /\ p.pc = "readTeam"
  BY RequestFacts DEF ReadTeam
<1>2. PICK q : q = [p EXCEPT !.pc = "saveNew", !.team = active] /\ req' = [req EXCEPT ![r] = q]
  BY <1>1 DEF ReadTeam
<1>3. active \in Teams \cup {0}
  BY RequestFacts DEF SharedType
<1>4. ReqOK(q)
  BY <1>1, <1>2, <1>3, ZenonT(60) DEF ReqOK, ReqRecords, Pcs
<1>5. UNCHANGED <<session, index, issued, member, active, revived, late, missed, ops, faults>>
  BY DEF ReadTeam, redis, sql, history, bounds
<1> QED  BY <1>1, <1>2, <1>4, <1>5, RequestFacts, StillStep

LEMMA CheckOwnedStep ==
    ASSUME IInv, NEW r \in Reqs, CheckOwned(r)
    PROVE  IInv'
<1>1. PICK p : p = req[r] /\ ReqOK(p) /\ p \in ReqRecords /\ p.pc = "owned"
  BY RequestFacts DEF CheckOwned
<1>2. UNCHANGED <<session, index, issued, member, active, revived, late, missed, ops, faults>>
  BY DEF CheckOwned, redis, sql, history, bounds
<1>3. End(r) \/ Goto(r, "del")
  BY DEF CheckOwned
<1>4. CASE End(r)
  BY <1>1, <1>2, <1>4, RequestFacts, EndStep
<1>5. CASE Goto(r, "del")
  <2>1. PICK q : q = [p EXCEPT !.pc = "del"] /\ req' = [req EXCEPT ![r] = q]
    BY <1>1, <1>5 DEF Goto
  <2>2. ReqOK(q)
    BY <1>1, <2>1 DEF ReqOK, ReqRecords, Pcs
  <2> QED  BY <1>1, <1>2, <2>1, <2>2, RequestFacts, StillStep
<1> QED  BY <1>3, <1>4, <1>5

LEMMA GatherStep ==
    ASSUME IInv, NEW r \in Reqs, Gather(r)
    PROVE  IInv'
<1>1. PICK p : p = req[r] /\ ReqOK(p) /\ p \in ReqRecords /\ p.pc = "gather"
  BY RequestFacts DEF Gather
<1>2. PICK q : q = [p EXCEPT !.pc = "gatherEach", !.ids = index] /\ req' = [req EXCEPT ![r] = q]
  BY <1>1 DEF Gather
<1>3. index \subseteq issued /\ issued \subseteq Sids
  BY RequestFacts DEF SharedType
<1>4. ReqOK(q)
  BY <1>1, <1>2, <1>3, ZenonT(60) DEF ReqOK, ReqRecords, Pcs
<1>5. UNCHANGED <<session, index, issued, member, active, revived, late, missed, ops, faults>>
  BY DEF Gather, redis, sql, history, bounds
<1> QED  BY <1>1, <1>2, <1>4, <1>5, RequestFacts, StillStep

(* A request gathers its sessions; both a reading and a failing command    *)
(* move one id.                                                            *)
LEMMA GatherOneStep ==
    ASSUME IInv, NEW r \in Reqs, req[r].pc = "gatherEach",
           NEW I \in SUBSET req[r].ids, NEW H \in SUBSET (req[r].ids \cup req[r].hit),
           NEW F \in SUBSET (req[r].ids \cup req[r].found),
           req' = [req EXCEPT ![r].ids = I, ![r].hit = H, ![r].found = F],
           UNCHANGED <<session, index, issued, member, active, revived, late, missed>>,
           ops' \in 0 .. MaxOps, faults' \in 0 .. MaxFaults
    PROVE  IInv'
<1>1. PICK p : p = req[r] /\ ReqOK(p) /\ p \in ReqRecords /\ p.pc = "gatherEach"
  BY RequestFacts
<1>2. PICK q : q = [p EXCEPT !.ids = I, !.hit = H, !.found = F] /\ req' = [req EXCEPT ![r] = q]
  BY <1>1
<1>3. ReqOK(q)
  BY <1>1, <1>2, ZenonT(60) DEF ReqOK, ReqRecords
<1> QED  BY <1>1, <1>2, <1>3, RequestFacts, StillStep

LEMMA GatherEachStep ==
    ASSUME IInv, NEW r \in Reqs, GatherEach(r)
    PROVE  IInv'
<1>1. PICK s \in req[r].ids :
          req' = [req EXCEPT ![r].ids = @ \ {s},
                             ![r].hit = IF Auth(s) THEN @ ELSE @ \cup {s},
                             ![r].found = IF Auth(s) THEN @ \cup {s} ELSE @]
  BY DEF GatherEach
<1>2. req[r].ids \in SUBSET Sids /\ req[r].hit \in SUBSET Sids /\ req[r].found \in SUBSET Sids
  BY RequestFacts DEF ReqRecords
<1>3. PICK I, H, F :
          /\ I = req[r].ids \ {s}
          /\ H = IF Auth(s) THEN req[r].hit ELSE req[r].hit \cup {s}
          /\ F = IF Auth(s) THEN req[r].found \cup {s} ELSE req[r].found
  OBVIOUS
<1>4. req' = [req EXCEPT ![r].ids = I, ![r].hit = H, ![r].found = F]
  BY <1>1, <1>3, RequestFacts DEF ReqRecords
<1>5. /\ I \in SUBSET req[r].ids /\ H \in SUBSET (req[r].ids \cup req[r].hit)
      /\ F \in SUBSET (req[r].ids \cup req[r].found)
  BY <1>3
<1>6. /\ req[r].pc = "gatherEach"
      /\ UNCHANGED <<session, index, issued, member, active, revived, late, missed, ops, faults>>
  BY DEF GatherEach, redis, sql, history, bounds
<1> QED  BY <1>4, <1>5, <1>6, RequestFacts, GatherOneStep

LEMMA GatheredStep ==
    ASSUME IInv, NEW r \in Reqs, Gathered(r)
    PROVE  IInv'
<1>1. PICK p : p = req[r] /\ ReqOK(p) /\ p \in ReqRecords /\ p.pc \in {"gatherEach", "gathered"}
  BY RequestFacts DEF Gathered
<1>2. UNCHANGED <<session, index, issued, member, active, revived, late, missed, ops, faults>>
  BY DEF Gathered, redis, sql, history, bounds
<1>3. \/ req' = [req EXCEPT ![r] = [p EXCEPT !.pc = "del", !.ids = p.hit, !.refs = p.hit, !.hit = {}]]
      \/ req' = [req EXCEPT ![r] = [p EXCEPT !.pc = "del", !.ids = p.found, !.refs = p.found, !.found = {}]]
      \/ End(r)
  BY <1>1 DEF Gathered
<1>4. CASE End(r)
  BY <1>1, <1>2, <1>4, RequestFacts, EndStep
<1>5. ASSUME NEW q, req' = [req EXCEPT ![r] = q],
             \/ q = [p EXCEPT !.pc = "del", !.ids = p.hit, !.refs = p.hit, !.hit = {}]
             \/ q = [p EXCEPT !.pc = "del", !.ids = p.found, !.refs = p.found, !.found = {}]
      PROVE  IInv'
  <2>1. /\ q \in ReqRecords /\ q.pc = "del" /\ q.sid = p.sid /\ q.next = p.next
        /\ q.copy = p.copy /\ q.refs = q.ids
    BY <1>1, <1>5, ZenonT(60) DEF ReqRecords, Pcs
  <2>2. \/ q.ids = p.hit /\ q.refs = p.hit /\ q.hit = {} /\ q.found = p.found
        \/ q.ids = p.found /\ q.refs = p.found /\ q.hit = p.hit /\ q.found = {}
    BY <1>1, <1>5 DEF ReqRecords
  <2>3. q.ids \cup q.refs \cup q.hit \cup q.found \subseteq issued
    BY <1>1, <2>2 DEF ReqOK
  <2>4. ReqOK(q)
    BY <1>1, <2>1, <2>3 DEF ReqOK
  <2> QED  BY <1>1, <1>2, <1>5, <2>4, RequestFacts, StillStep
<1> QED  BY <1>3, <1>4, <1>5

LEMMA TeamAccessStep ==
    ASSUME IInv, NEW r \in Reqs, TeamAccess(r)
    PROVE  IInv'
<1>1. PICK p : p = req[r] /\ ReqOK(p) /\ p \in ReqRecords /\ p.pc = "role"
  BY RequestFacts DEF TeamAccess
<1>2. UNCHANGED <<session, index, issued, member, active, revived, late, missed, ops, faults>>
  BY DEF TeamAccess, redis, sql, history, bounds
<1>3. End(r) \/ \E pc \in {"stream", "clear"} : Goto(r, pc)
  BY DEF TeamAccess
<1>4. CASE End(r)
  BY <1>1, <1>2, <1>4, RequestFacts, EndStep
<1>5. ASSUME NEW pc \in {"stream", "clear"}, Goto(r, pc)
      PROVE  IInv'
  <2>1. PICK q : q = [p EXCEPT !.pc = pc] /\ req' = [req EXCEPT ![r] = q]
    BY <1>1, <1>5 DEF Goto
  <2>2. ReqOK(q)
    BY <1>1, <2>1 DEF ReqOK, ReqRecords, Pcs
  <2> QED  BY <1>1, <1>2, <2>1, <2>2, RequestFacts, StillStep
<1> QED  BY <1>3, <1>4, <1>5

LEMMA StreamStep ==
    ASSUME IInv, NEW r \in Reqs, EndStream(r) \/ CloseStream(r)
    PROVE  IInv'
<1>1. /\ req[r].pc = "stream" /\ End(r)
      /\ UNCHANGED <<session, index, issued, member, active, revived, late, missed, ops, faults>>
  BY DEF EndStream, CloseStream, redis, sql, history, bounds
<1> QED  BY <1>1, RequestFacts, EndStep

-----------------------------------------------------------------------------
(* Deleting keys.                                                          *)
LEMMA DeleteFacts ==
    ASSUME IInv, NEW S, Delete(S), revived' = revived
    PROVE  /\ session' \in [Sids -> Values \cup {Gone}]
           /\ \A s \in Sids : session'[s] = session[s] \/ session'[s] = Gone
           /\ \A s \in Sids : s \in S => session'[s] = Gone /\ Over(s)'
           /\ \A s \in Sids : Over(s) => Over(s)'
<1>1. session \in [Sids -> Values \cup {Gone}]
  BY DEF IInv, SharedType
<1>2. /\ session' \in [Sids -> Values \cup {Gone}]
      /\ \A s \in Sids : session'[s] = session[s] \/ session'[s] = Gone
      /\ \A s \in Sids : s \in S => session'[s] = Gone
  BY <1>1 DEF Delete
<1> QED  BY <1>2 DEF Over, Auth

LEMMA DropOldStep ==
    ASSUME IInv, NEW r \in Reqs, DropOld(r)
    PROVE  IInv'
<1>1. PICK p : p = req[r] /\ ReqOK(p) /\ p \in ReqRecords /\ p.pc = "dropOld"
  BY RequestFacts DEF DropOld
<1>2. PICK q : q = [p EXCEPT !.pc = "readTeam"] /\ req' = [req EXCEPT ![r] = q]
  BY <1>1 DEF DropOld, Goto
<1>3. /\ UNCHANGED <<index, issued, member, active, revived, late, missed, ops, faults>>
      /\ Delete({p.sid})
  BY <1>1 DEF DropOld, sql, history, bounds
<1>4. ReqOK(q)'
  <2>1. q \in ReqRecords /\ q.pc = "readTeam"
    BY <1>1, <1>2 DEF ReqRecords, Pcs
  <2>2. q.sid = p.sid /\ q.next = p.next /\ q.copy = p.copy /\ q.ids = p.ids
        /\ q.refs = p.refs /\ q.hit = p.hit /\ q.found = p.found
    BY <1>1, <1>2 DEF ReqRecords
  <2>3. q.sid # NoSid => Over(q.sid)'
    BY <1>1, <1>3, <2>2, DeleteFacts DEF ReqRecords
  <2> QED  BY <1>1, <1>3, <2>1, <2>2, <2>3 DEF ReqOK
<1> QED  BY <1>1, <1>2, <1>3, <1>4, RequestFacts, DeleteFacts, NoWriteStep DEF SharedType

LEMMA UndoStep ==
    ASSUME IInv, NEW r \in Reqs, Undo(r)
    PROVE  IInv'
<1>1. PICK p : p = req[r] /\ ReqOK(p) /\ p \in ReqRecords /\ p.pc = "undo" /\ p.next \in Sids
  BY RequestFacts DEF Undo, ReqOK, SharedType
<1>2. PICK q : q = [p EXCEPT !.pc = "undoRef"] /\ req' = [req EXCEPT ![r] = q]
  BY <1>1 DEF Undo, Goto
<1>3. /\ UNCHANGED <<index, issued, member, active, revived, late, missed, ops, faults>>
      /\ Delete({p.next})
  BY <1>1 DEF Undo, sql, history, bounds
<1>4. ReqOK(q)'
  <2>1. q \in ReqRecords /\ q.pc = "undoRef"
    BY <1>1, <1>2 DEF ReqRecords, Pcs
  <2>2. q.sid = p.sid /\ q.next = p.next /\ q.copy = p.copy /\ q.ids = p.ids
        /\ q.refs = p.refs /\ q.hit = p.hit /\ q.found = p.found
    BY <1>1, <1>2 DEF ReqRecords
  <2>3. Over(q.next)'
    BY <1>1, <1>3, <2>2, DeleteFacts
  <2> QED  BY <1>1, <1>3, <2>1, <2>2, <2>3 DEF ReqOK
<1>5. \A s \in Sids : Listing(req[r], s) => session'[s] = Gone
  BY <1>1, <1>3, DeleteFacts DEF Listing
<1> QED  BY <1>1, <1>2, <1>3, <1>4, <1>5, RequestFacts, DeleteFacts, NoWriteStep DEF SharedType

LEMMA DropRefStep ==
    ASSUME IInv, NEW r \in Reqs, DropRef(r)
    PROVE  IInv'
<1>1. /\ req[r].pc \in {"dropRef", "undoRef"} /\ req' = [req EXCEPT ![r] = Idle]
      /\ UNCHANGED <<session, issued, member, active, revived, late, missed, ops, faults>>
  BY DEF DropRef, End, sql, history, bounds
<1>2. PICK x : index' = index \ {x} /\ (req[r].pc = "dropRef" => x = req[r].sid)
                                   /\ (req[r].pc = "undoRef" => x = req[r].next)
  BY <1>1 DEF DropRef
<1>3. \A s \in Sids : Over(s) => Over(s)'
  BY <1>1 DEF Over, Auth
<1>4. x \in Sids => Over(x)'
  BY <1>1, <1>2, <1>3, RequestFacts, SidsAssumption DEF ReqOK
<1>5. index \subseteq Sids /\ session' \in [Sids -> Values \cup {Gone}] /\ active' \in member \cup {0}
  BY <1>1, RequestFacts DEF SharedType
<1> QED  BY <1>1, <1>2, <1>4, <1>5, IdleOK, RequestFacts, NoWriteStep

LEMMA RemoveSessionIDsStep ==
    ASSUME IInv, NEW r \in Reqs, RemoveSessionIDs(r)
    PROVE  IInv'
<1>1. PICK p : p = req[r] /\ ReqOK(p) /\ p \in ReqRecords /\ p.pc = "del"
  BY RequestFacts DEF RemoveSessionIDs
<1>2. PICK s \in p.ids :
          /\ Delete({s})
          /\ req' = [req EXCEPT ![r].ids = @ \ {s},
                                ![r].pc = IF req[r].ids = {s} THEN "srem" ELSE @]
  BY <1>1 DEF RemoveSessionIDs
<1>3. PICK q : /\ q = [p EXCEPT !.ids = p.ids \ {s}, !.pc = IF p.ids = {s} THEN "srem" ELSE "del"]
               /\ req' = [req EXCEPT ![r] = q]
  <2>1. PICK pc : pc = IF p.ids = {s} THEN "srem" ELSE "del"
    OBVIOUS
  <2>2. req' = [req EXCEPT ![r].ids = p.ids \ {s}, ![r].pc = pc]
    BY <1>1, <1>2, <2>1 DEF ReqRecords
  <2> QED  BY <1>1, <2>1, <2>2
<1>4. UNCHANGED <<index, issued, member, active, revived, late, missed, ops, faults>>
  BY DEF RemoveSessionIDs, sql, history, bounds
<1>5. ReqOK(q)'
  <2>1. q \in ReqRecords /\ q.pc \in {"del", "srem"} /\ (q.pc = "srem" => p.ids = {s})
    <3>1. PICK x : x = IF p.ids = {s} THEN "srem" ELSE "del"
      OBVIOUS
    <3>2. x \in {"del", "srem"} /\ (x = "srem" => p.ids = {s})
      BY <3>1
    <3>3. q = [p EXCEPT !.ids = p.ids \ {s}, !.pc = x]
      BY <1>3, <3>1
    <3>4. p.ids \ {s} \in SUBSET Sids /\ x \in Pcs
      BY <1>1, <3>2 DEF ReqRecords, Pcs
    <3>5. q \in ReqRecords /\ q.pc = x
      BY <1>1, <3>3, <3>4 DEF ReqRecords
    <3> QED  BY <3>2, <3>5
  <2>2. q.sid = p.sid /\ q.next = p.next /\ q.copy = p.copy /\ q.ids = p.ids \ {s}
        /\ q.refs = p.refs /\ q.hit = p.hit /\ q.found = p.found
    BY <1>1, <1>3 DEF ReqRecords
  <2>3. \A x \in q.refs \ q.ids : Over(x)'
    <3>1. \A x \in p.refs : x \in Sids
      BY <1>1 DEF ReqRecords
    <3>2. \A x \in p.refs \ p.ids : Over(x)'
      BY <1>1, <1>2, <1>4, <3>1, DeleteFacts DEF ReqOK
    <3>3. s \in p.refs => Over(s)'
      BY <1>2, <1>4, <3>1, DeleteFacts
    <3> QED  BY <2>2, <3>2, <3>3
  <2>4. q.pc = "srem" => \A x \in q.refs : Over(x)'
    BY <2>1, <2>2, <2>3
  <2> QED  BY <1>1, <1>4, <2>1, <2>2, <2>3, <2>4 DEF ReqOK
<1> QED  BY <1>1, <1>2, <1>3, <1>4, <1>5, RequestFacts, DeleteFacts, NoWriteStep DEF SharedType

LEMMA RemoveRefsStep ==
    ASSUME IInv, NEW r \in Reqs, RemoveUserSessionIDRefs(r)
    PROVE  IInv'
<1>1. PICK p : p = req[r] /\ ReqOK(p) /\ p \in ReqRecords /\ p.pc = "srem"
  BY RequestFacts DEF RemoveUserSessionIDRefs
<1>2. /\ index' = index \ p.refs
      /\ UNCHANGED <<session, issued, member, active, revived, late, missed, ops, faults>>
  BY <1>1 DEF RemoveUserSessionIDRefs, sql, history, bounds
<1>3. \A s \in Sids : Over(s) => Over(s)'
  BY <1>2 DEF Over, Auth
<1>4. \A s \in index \ index' : Over(s)'
  BY <1>1, <1>2, <1>3 DEF ReqOK, ReqRecords
<1>5. session' \in [Sids -> Values \cup {Gone}] /\ active' \in member \cup {0}
  BY <1>2, RequestFacts DEF SharedType
<1>6. CASE End(r)
  BY <1>1, <1>2, <1>4, <1>5, <1>6, IdleOK, RequestFacts, NoWriteStep DEF End
<1>7. ASSUME NEW pc \in {"expire", "gathered"}, Goto(r, pc), pc = "expire" => p.kind = "logout"
      PROVE  IInv'
  <2>1. PICK q : q = [p EXCEPT !.pc = pc] /\ req' = [req EXCEPT ![r] = q]
    BY <1>1, <1>7 DEF Goto
  <2>2. q \in ReqRecords /\ q.pc = pc
    BY <1>1, <2>1 DEF ReqRecords, Pcs
  <2>3. q.sid = p.sid /\ q.next = p.next /\ q.copy = p.copy /\ q.ids = p.ids
        /\ q.refs = p.refs /\ q.hit = p.hit /\ q.found = p.found
    BY <1>1, <2>1 DEF ReqRecords
  <2>4. ReqOK(q)'
    BY <1>1, <1>2, <1>7, <2>2, <2>3 DEF ReqOK
  <2> QED  BY <1>1, <1>2, <1>4, <1>5, <2>1, <2>4, RequestFacts, NoWriteStep
<1> QED  BY <1>1, <1>6, <1>7 DEF RemoveUserSessionIDRefs

LEMMA ExpireCookieStep ==
    ASSUME IInv, NEW r \in Reqs, ExpireCookie(r)
    PROVE  IInv'
<1>1. /\ req[r].pc = "expire" /\ req' = [req EXCEPT ![r] = Idle] /\ Delete({req[r].sid})
      /\ UNCHANGED <<index, issued, member, active, revived, late, missed, ops, faults>>
  BY DEF ExpireCookie, End, sql, history, bounds
<1> QED  BY <1>1, IdleOK, RequestFacts, DeleteFacts, NoWriteStep DEF SharedType

LEMMA RemoveMatchingStep ==
    ASSUME IInv, NEW r \in Reqs, RemoveMatching(r)
    PROVE  IInv'
<1>1. /\ req[r].pc = "match" /\ req[r].ids = {} /\ req' = [req EXCEPT ![r] = Idle]
      /\ Delete(req[r].hit) /\ index' = index \ req[r].hit
      /\ UNCHANGED <<issued, member, active, revived, late, missed, ops, faults>>
  BY DEF RemoveMatching, End, sql, history, bounds
<1>2. \A s \in Sids : Revoking(req[r], s) => session'[s] = Gone
  BY <1>1, DeleteFacts DEF Revoking
<1>3. req[r].hit \subseteq Sids
  BY RequestFacts DEF ReqRecords
<1>4. \A s \in index \ index' : Over(s)'
  BY <1>1, <1>3, DeleteFacts
<1> QED  BY <1>1, <1>2, <1>4, IdleOK, RequestFacts, DeleteFacts, NoWriteStep DEF SharedType

LEMMA SetUserActiveTeamStep ==
    ASSUME IInv, NEW r \in Reqs, SetUserActiveTeam(r)
    PROVE  IInv'
<1>1. PICK p : p = req[r] /\ ReqOK(p) /\ p \in ReqRecords /\ p.pc = "setActive"
  BY RequestFacts DEF SetUserActiveTeam
<1>2. UNCHANGED <<session, index, issued, member, revived, late, missed, ops, faults>>
  BY DEF SetUserActiveTeam, redis, history, bounds
<1>3. CASE p.team \in member
  <2>1. active' = p.team /\ req' = [req EXCEPT ![r].copy.tid = p.team, ![r].pc = "save"]
    BY <1>1, <1>3 DEF SetUserActiveTeam
  <2>2. PICK q : q = [p EXCEPT !.copy.tid = p.team, !.pc = "save"] /\ req' = [req EXCEPT ![r] = q]
    BY <1>1, <2>1
  <2>3. q \in ReqRecords /\ q.pc = "save" /\ q.copy.auth = p.copy.auth
    BY <1>1, <2>2, ZenonT(60) DEF ReqRecords, Pcs, Values
  <2>4. q.sid = p.sid /\ q.next = p.next /\ q.ids = p.ids
        /\ q.refs = p.refs /\ q.hit = p.hit /\ q.found = p.found
    BY <1>1, <2>2 DEF ReqRecords
  <2>5. ReqOK(q)'
    BY <1>1, <1>2, <2>3, <2>4 DEF ReqOK
  <2>6. session' \in [Sids -> Values \cup {Gone}]
    BY <1>2, RequestFacts DEF SharedType
  <2> QED  BY <1>1, <1>2, <1>3, <2>1, <2>2, <2>5, <2>6, RequestFacts, NoWriteStep
<1>4. CASE p.team \notin member
  <2>1. End(r) /\ active' = active
    BY <1>1, <1>4 DEF SetUserActiveTeam
  <2> QED  BY <1>1, <1>2, <2>1, RequestFacts, EndStep
<1> QED  BY <1>3, <1>4

LEMMA ClearRevokedStep ==
    ASSUME IInv, NEW r \in Reqs, ClearRevoked(r)
    PROVE  IInv'
<1>1. PICK p : p = req[r] /\ ReqOK(p) /\ p \in ReqRecords /\ p.pc = "clear"
  BY RequestFacts DEF ClearRevoked
<1>2. UNCHANGED <<session, index, issued, member, revived, late, missed, ops, faults>>
  BY DEF ClearRevoked, redis, history, bounds
<1>3. active' \in member \cup {0} /\ req' = [req EXCEPT ![r].copy.tid = 0, ![r].pc = "save"]
  BY <1>1, RequestFacts DEF ClearRevoked, SharedType
<1>4. PICK q : q = [p EXCEPT !.copy.tid = 0, !.pc = "save"] /\ req' = [req EXCEPT ![r] = q]
  BY <1>1, <1>3
<1>5. q \in ReqRecords /\ q.pc = "save" /\ q.copy.auth = p.copy.auth
  BY <1>1, <1>4, ZenonT(60) DEF ReqRecords, Pcs, Values
<1>6. q.sid = p.sid /\ q.next = p.next /\ q.ids = p.ids
      /\ q.refs = p.refs /\ q.hit = p.hit /\ q.found = p.found
  BY <1>1, <1>4 DEF ReqRecords
<1>7. ReqOK(q)'
  BY <1>1, <1>2, <1>5, <1>6 DEF ReqOK
<1>8. session' \in [Sids -> Values \cup {Gone}]
  BY <1>2, RequestFacts DEF SharedType
<1> QED  BY <1>1, <1>2, <1>3, <1>4, <1>7, <1>8, RequestFacts, NoWriteStep

-----------------------------------------------------------------------------
(* Losing a team, and the revocation that follows.                         *)
LEMMA LeaveTeamStep ==
    ASSUME IInv, NEW r \in Reqs, LeaveTeam(r)
    PROVE  IInv'
<1>1. PICK p : p = req[r] /\ ReqOK(p) /\ p \in ReqRecords /\ p.pc = "leave" /\ p.kind = "leave"
  BY RequestFacts DEF LeaveTeam, ReqOK
<1>2. UNCHANGED <<session, index, issued, revived, late, missed, ops, faults>>
  BY DEF LeaveTeam, redis, history, bounds
<1>3. CASE p.team \in member
  <2>1. /\ member' = member \ {p.team} /\ active' = IF active = p.team THEN 0 ELSE active
        /\ \/ req' = [req EXCEPT ![r].copy.tid = 0, ![r].pc = "save"]
           \/ req' = [req EXCEPT ![r].pc = "list"]
    BY <1>1, <1>3 DEF LeaveTeam, LoseTeam, Goto
  <2>2. PICK q : /\ q = [p EXCEPT !.copy.tid = 0, !.pc = "save"] \/ q = [p EXCEPT !.pc = "list"]
                 /\ req' = [req EXCEPT ![r] = q]
    BY <1>1, <2>1, ZenonT(60)
  <2>3. q \in ReqRecords /\ q.pc \in {"save", "list"} /\ q.copy.auth = p.copy.auth
    <3>1. CASE q = [p EXCEPT !.pc = "list"]
      BY <1>1, <3>1 DEF ReqRecords, Pcs
    <3>2. CASE q = [p EXCEPT !.copy.tid = 0, !.pc = "save"]
      BY <1>1, <3>2, ZenonT(60) DEF ReqRecords, Pcs, Values
    <3> QED  BY <2>2, <3>1, <3>2
  <2>4. q.kind = p.kind /\ q.team = p.team /\ q.sid = p.sid /\ q.next = p.next /\ q.ids = p.ids
        /\ q.refs = p.refs /\ q.hit = p.hit /\ q.found = p.found
    BY <1>1, <2>2 DEF ReqRecords
  <2>5. ReqOK(q)'
    BY <1>1, <1>2, <2>3, <2>4 DEF ReqOK
  <2>6. SharedType'
    BY <1>2, <2>1, RequestFacts DEF SharedType
  <2>7. \A s \in Sids : session[s].tid = p.team => Revoking(q, s)'
    BY <1>1, <1>2, <2>3, <2>4 DEF Revoking
  <2>8. \A s \in Sids : Auth(s)' => Auth(s)
    BY <1>2 DEF Auth
  <2>9. member \ member' = {p.team}
    BY <1>3, <2>1
  <2> QED  BY <1>1, <1>2, <2>2, <2>5, <2>6, <2>7, <2>8, <2>9, RequestFacts, RequestStep
<1>4. CASE p.team \notin member
  <2>1. End(r) /\ active' = active /\ member' = member
    BY <1>1, <1>4 DEF LeaveTeam, sql
  <2> QED  BY <1>1, <1>2, <2>1, RequestFacts, EndStep
<1> QED  BY <1>3, <1>4

LEMMA RemoveMemberStep ==
    ASSUME IInv, NEW r \in Reqs, NEW t \in Teams, RemoveMember(r, t)
    PROVE  IInv'
<1>1. /\ req[r].pc = "idle" /\ ops < MaxOps /\ ops' = ops + 1 /\ t \in member
      /\ member' = member \ {t} /\ active' = IF active = t THEN 0 ELSE active
      /\ UNCHANGED <<session, index, issued, revived, late, missed, faults>>
  BY DEF RemoveMember, LoseTeam, redis, history
<1>2. PICK q : /\ q = [Idle EXCEPT !.kind = "edit", !.team = t, !.pc = "list"]
               /\ req' = [req EXCEPT ![r] = q]
  BY DEF RemoveMember
<1>3. /\ q \in ReqRecords /\ q.team = t /\ q.pc = "list" /\ q.sid = NoSid /\ q.next = NoSid
      /\ ~q.copy.auth /\ q.ids = {} /\ q.refs = {} /\ q.hit = {} /\ q.found = {}
  BY <1>2 DEF Idle, ReqRecords, Pcs, Kinds, Values, Empty
<1>4. ReqOK(q)'
  BY <1>3 DEF ReqOK
<1>5. ops' \in 0 .. MaxOps
  BY <1>1, RequestFacts, BoundsAssumption
<1>6. SharedType'
  BY <1>1, <1>5, RequestFacts DEF SharedType
<1>7. \A s \in Sids : session[s].tid = t => Revoking(q, s)'
  BY <1>1, <1>3 DEF Revoking
<1>8. \A s \in Sids : Auth(s)' => Auth(s)
  BY <1>1 DEF Auth
<1>9. member \ member' = {t}
  BY <1>1
<1> QED  BY <1>1, <1>2, <1>4, <1>6, <1>7, <1>8, <1>9, RequestFacts, RequestStep

LEMMA ListIndexedStep ==
    ASSUME IInv, NEW r \in Reqs, ListIndexed(r)
    PROVE  IInv'
<1>1. PICK p : p = req[r] /\ ReqOK(p) /\ p \in ReqRecords /\ p.pc = "list"
  BY RequestFacts DEF ListIndexed
<1>2. UNCHANGED <<session, index, issued, member, active, revived, late, missed, ops, faults>>
  BY DEF ListIndexed, redis, sql, history, bounds
<1>3. PICK q : q = [p EXCEPT !.pc = "match", !.ids = index] /\ req' = [req EXCEPT ![r] = q]
  BY <1>1 DEF ListIndexed
<1>4. index \subseteq issued /\ issued \subseteq Sids
  BY RequestFacts DEF SharedType
<1>5. q \in ReqRecords /\ q.pc = "match" /\ q.ids = index /\ q.team = p.team
  BY <1>1, <1>3, <1>4 DEF ReqRecords, Pcs
<1>6. q.sid = p.sid /\ q.next = p.next /\ q.copy = p.copy
      /\ q.refs = p.refs /\ q.hit = p.hit /\ q.found = p.found
  BY <1>1, <1>3 DEF ReqRecords
<1>7. ReqOK(q)'
  BY <1>1, <1>2, <1>4, <1>5, <1>6 DEF ReqOK
<1>8. SharedType'
  BY <1>2, RequestFacts DEF SharedType
<1>9. \A s \in Sids : Auth(s) /\ Revoking(p, s) =>
          s \in revived \/ Revoking(q, s)' \/ \E x \in Reqs \ {r} : Listing(req[x], s)
  <2> SUFFICES ASSUME NEW s \in Sids, Auth(s), Revoking(p, s)
               PROVE  s \in revived \/ Revoking(q, s)' \/ \E x \in Reqs \ {r} : Listing(req[x], s)
    OBVIOUS
  <2>1. s \in index \/ s \in revived \/ \E x \in Reqs : Listing(req[x], s)
    BY DEF IInv, LiveSessionsAreListed, Listing
  <2>2. s \in index => Revoking(q, s)'
    BY <1>2, <1>5 DEF Revoking
  <2>3. ~Listing(req[r], s)
    BY <1>1, RequestFacts
  <2> QED  BY <2>1, <2>2, <2>3
<1>10. \A s \in Sids : Auth(s)' => Auth(s)
  BY <1>2 DEF Auth
<1>11. /\ \A s \in Sids : session'[s] = session[s] /\ ~Listing(req[r], s)
       /\ index \ index' = {} /\ member \ member' = {}
       /\ issued \subseteq issued' /\ revived \subseteq revived' /\ late \subseteq late'
  BY <1>1, <1>2, RequestFacts
<1>12. \A s \in Sids : Auth(s) /\ (Listing(req[r], s) \/ Revoking(req[r], s)) =>
          s \in late' \cup revived' \/ Revoking(q, s)' \/ \E x \in Reqs \ {r} : Listing(req[x], s)
  BY <1>1, <1>2, <1>9, <1>11
<1> QED  BY <1>2, <1>3, <1>7, <1>8, <1>10, <1>11, <1>12, RequestStep

LEMMA MatchIndexedStep ==
    ASSUME IInv, NEW r \in Reqs, MatchIndexed(r)
    PROVE  IInv'
<1>1. PICK p : p = req[r] /\ ReqOK(p) /\ p \in ReqRecords /\ p.pc = "match"
  BY RequestFacts DEF MatchIndexed
<1>2. UNCHANGED <<session, index, issued, member, active, revived, late, missed, ops, faults>>
  BY DEF MatchIndexed, redis, sql, history, bounds
<1>3. PICK s \in p.ids :
          req' = [req EXCEPT ![r].ids = @ \ {s},
                             ![r].hit = IF Auth(s) /\ session[s].tid # req[r].team
                                        THEN @ ELSE @ \cup {s}]
  BY <1>1 DEF MatchIndexed
<1>4. PICK H : H = IF Auth(s) /\ session[s].tid # p.team THEN p.hit ELSE p.hit \cup {s}
  OBVIOUS
<1>5. req' = [req EXCEPT ![r].ids = p.ids \ {s}, ![r].hit = H]
  BY <1>1, <1>3, <1>4 DEF ReqRecords
<1>6. PICK q : q = [p EXCEPT !.ids = p.ids \ {s}, !.hit = H] /\ req' = [req EXCEPT ![r] = q]
  BY <1>1, <1>5
<1>7. H \subseteq p.ids \cup p.hit /\ p.hit \subseteq H /\ (session[s].tid = p.team => s \in H)
  BY <1>4
<1>8. q \in ReqRecords /\ q.pc = "match" /\ q.team = p.team /\ q.ids = p.ids \ {s} /\ q.hit = H
  BY <1>1, <1>6, <1>7 DEF ReqRecords
<1>9. q.sid = p.sid /\ q.next = p.next /\ q.copy = p.copy
      /\ q.refs = p.refs /\ q.found = p.found
  BY <1>1, <1>6 DEF ReqRecords
<1>10. ReqOK(q)
  BY <1>1, <1>7, <1>8, <1>9 DEF ReqOK
<1>11. \A x \in Sids : Revoking(p, x) => Revoking(q, x)
  BY <1>1, <1>7, <1>8 DEF Revoking
<1> QED  BY <1>1, <1>2, <1>6, <1>10, <1>11, RequestFacts, StillStep

-----------------------------------------------------------------------------
(* Saving a session.                                                       *)

(* An id the store draws is one nobody has.                                *)
LEMMA NewSidFresh ==
    ASSUME SharedType, NEW s \in NewSid
    PROVE  s \in Sids /\ s \notin issued
<1>1. issued # Sids /\ s = CHOOSE x \in Sids : x \notin issued
  BY DEF NewSid
<1>2. \E x \in Sids : x \notin issued
  BY <1>1 DEF SharedType
<1> QED  BY <1>1, <1>2

(* A save of v under s: a session that it signs in counts as written back, *)
(* or is new and the request is about to list it.                          *)
LEMMA WriteStep ==
    ASSUME IInv, NEW r \in Reqs, NEW q, req' = [req EXCEPT ![r] = q], ReqOK(q)',
           NEW s \in Sids, NEW v \in Values, Write(s, v), issued' = issued \cup {s},
           UNCHANGED <<index, member, active, ops, faults>>,
           s \notin issued /\ v.auth => Listing(q, s),
           \A x \in Sids : ~Listing(req[r], x),
           \A x \in Sids \ {s} : Revoking(req[r], x) => Revoking(q, x)'
    PROVE  IInv'
<1>1. SharedType
  BY DEF IInv
<1>2. /\ session' = [session EXCEPT ![s] = v] /\ missed' = missed
      /\ revived' = IF v.auth /\ ~Auth(s) /\ s \in issued THEN revived \cup {s} ELSE revived
      /\ late' = IF v.tid # 0 /\ v.tid \notin member THEN late \cup {s} ELSE late
  BY DEF Write
<1>3. /\ revived \subseteq revived' /\ late \subseteq late'
      /\ revived' \subseteq revived \cup {s} /\ late' \subseteq late \cup {s}
      /\ v.auth /\ ~Auth(s) /\ s \in issued => s \in revived'
      /\ v.tid \notin member \cup {0} => s \in late'
  BY <1>2
<1>4. session'[s] = v /\ \A x \in Sids \ {s} : session'[x] = session[x]
  BY <1>1, <1>2 DEF SharedType
<1>5. session' \in [Sids -> Values \cup {Gone}]
  BY <1>1, <1>2 DEF SharedType
<1>6. SharedType'
  BY <1>1, <1>2, <1>3, <1>5 DEF SharedType
<1>7. \A x \in Sids : Auth(x)' /\ ~Auth(x) => x \in revived' \/ (x \notin issued /\ Listing(q, x))
  BY <1>3, <1>4 DEF Auth
<1>8. \A x \in Sids : session'[x] # session[x] /\ session'[x].tid \notin member \cup {0} => x \in late'
  BY <1>3, <1>4
<1>9. \A x \in Sids : session'[x] = session[x] /\ session[x].tid \notin member \cup {0}
                      /\ Revoking(req[r], x) => x \in late' \/ Revoking(q, x)'
  BY <1>3, <1>4
<1>10. issued \subseteq issued' /\ index \ index' = {} /\ member \ member' = {} /\ member' = member
  OBVIOUS
<1> QED  BY <1>2, <1>3, <1>6, <1>7, <1>8, <1>9, <1>10, RequestStep

LEMMA SavePreStep ==
    ASSUME IInv, NEW r \in Reqs, SavePre(r)
    PROVE  IInv'
<1>1. PICK p : p = req[r] /\ ReqOK(p) /\ p \in ReqRecords /\ p.pc = "savePre"
  BY RequestFacts DEF SavePre
<1>2. PICK s : /\ s \in IF p.sid = NoSid THEN NewSid ELSE {p.sid}
               /\ Write(s, [p.copy EXCEPT !.pre = TRUE]) /\ issued' = issued \cup {s}
  BY <1>1 DEF SavePre
<1>3. /\ req' = [req EXCEPT ![r] = Idle]
      /\ UNCHANGED <<index, member, active, ops, faults>>
  BY DEF SavePre, End, sql, bounds
<1>4. PICK v : v = [p.copy EXCEPT !.pre = TRUE]
  OBVIOUS
<1>5. v \in Values /\ v.auth = p.copy.auth
  BY <1>1, <1>4 DEF ReqRecords, Values
<1>6. s \in Sids /\ (s \notin issued => ~v.auth)
  BY <1>1, <1>2, <1>5, NewSidFresh, RequestFacts DEF ReqOK, SharedType
<1>7. Write(s, v)
  BY <1>2, <1>4
<1> QED  BY <1>1, <1>2, <1>3, <1>5, <1>6, <1>7, IdleOK, RequestFacts, WriteStep

LEMMA SaveNewStep ==
    ASSUME IInv, NEW r \in Reqs, SaveNew(r)
    PROVE  IInv'
<1>1. PICK p : p = req[r] /\ ReqOK(p) /\ p \in ReqRecords /\ p.pc = "saveNew"
  BY RequestFacts DEF SaveNew
<1>2. PICK s \in NewSid :
          /\ Write(s, [auth |-> TRUE, pre |-> FALSE, tid |-> p.team]) /\ issued' = issued \cup {s}
          /\ req' = [req EXCEPT ![r].pc = "add", ![r].next = s]
  BY <1>1 DEF SaveNew
<1>3. UNCHANGED <<index, member, active, ops, faults>>
  BY DEF SaveNew, sql, bounds
<1>4. PICK v : v = [auth |-> TRUE, pre |-> FALSE, tid |-> p.team]
  OBVIOUS
<1>5. v \in Values /\ Write(s, v)
  BY <1>1, <1>2, <1>4 DEF ReqRecords, Values
<1>6. PICK q : q = [p EXCEPT !.pc = "add", !.next = s] /\ req' = [req EXCEPT ![r] = q]
  BY <1>1, <1>2
<1>7. s \in Sids /\ s \notin issued /\ s # NoSid
  BY NewSidFresh, RequestFacts, SidsAssumption
<1>8. q \in ReqRecords /\ q.pc = "add" /\ q.next = s
  BY <1>1, <1>6, <1>7 DEF ReqRecords, Pcs
<1>9. q.sid = p.sid /\ q.copy = p.copy /\ q.ids = p.ids
      /\ q.refs = p.refs /\ q.hit = p.hit /\ q.found = p.found
  BY <1>1, <1>6 DEF ReqRecords
<1>10. q.sid # NoSid => Over(q.sid)'
  <2> SUFFICES ASSUME p.sid # NoSid
               PROVE  Over(p.sid)'
    BY <1>9 DEF Over, Auth
  <2>1. p.sid \in issued /\ p.sid \in Sids /\ Over(p.sid)
    BY <1>1, RequestFacts DEF ReqOK, SharedType
  <2>2. session'[p.sid] = session[p.sid] /\ revived \subseteq revived'
    BY <1>5, <1>7, <2>1, RequestFacts DEF Write, SharedType
  <2> QED  BY <2>1, <2>2 DEF Over, Auth
<1>11. ReqOK(q)'
  BY <1>1, <1>2, <1>7, <1>8, <1>9, <1>10 DEF ReqOK
<1>12. Listing(q, s)
  BY <1>8 DEF Listing
<1> QED  BY <1>1, <1>2, <1>3, <1>5, <1>6, <1>7, <1>11, <1>12, RequestFacts, WriteStep

LEMMA SaveStep ==
    ASSUME IInv, NEW r \in Reqs, Save(r)
    PROVE  IInv'
<1>1. PICK p : p = req[r] /\ ReqOK(p) /\ p \in ReqRecords /\ p.pc = "save"
  BY RequestFacts DEF Save
<1>2. /\ Write(p.sid, p.copy)
      /\ UNCHANGED <<index, issued, member, active, ops, faults>>
  BY <1>1 DEF Save, sql, bounds
<1>3. p.sid \in issued /\ p.sid \in Sids /\ p.copy \in Values /\ issued' = issued \cup {p.sid}
  BY <1>1, <1>2, RequestFacts DEF ReqOK, ReqRecords, SharedType
<1>4. CASE p.kind = "leave"
  <2>1. PICK q : q = [p EXCEPT !.pc = "list"] /\ req' = [req EXCEPT ![r] = q]
    BY <1>1, <1>4 DEF Save, Goto
  <2>2. q \in ReqRecords /\ q.pc = "list" /\ q.team = p.team
    BY <1>1, <2>1 DEF ReqRecords, Pcs
  <2>3. q.sid = p.sid /\ q.next = p.next /\ q.copy = p.copy /\ q.ids = p.ids
        /\ q.refs = p.refs /\ q.hit = p.hit /\ q.found = p.found
    BY <1>1, <2>1 DEF ReqRecords
  <2>4. ReqOK(q)'
    BY <1>1, <1>2, <2>2, <2>3 DEF ReqOK
  <2>5. \A x \in Sids \ {p.sid} : session'[x] = session[x]
    BY <1>2, RequestFacts DEF Write, SharedType
  <2>6. \A x \in Sids \ {p.sid} : Revoking(p, x) => Revoking(q, x)'
    BY <2>2, <2>5 DEF Revoking
  <2> QED  BY <1>1, <1>2, <1>3, <2>1, <2>4, <2>6, RequestFacts, WriteStep
<1>5. CASE p.kind # "leave"
  <2>1. req' = [req EXCEPT ![r] = Idle]
    BY <1>1, <1>5 DEF Save, End
  <2>2. \A x \in Sids : ~Revoking(req[r], x)
    BY <1>1, <1>5 DEF Revoking
  <2> QED  BY <1>1, <1>2, <1>3, <2>1, <2>2, IdleOK, RequestFacts, WriteStep
<1> QED  BY <1>4, <1>5

LEMMA AddSessionIDStep ==
    ASSUME IInv, NEW r \in Reqs, AddSessionID(r)
    PROVE  IInv'
<1>1. PICK p : p = req[r] /\ ReqOK(p) /\ p \in ReqRecords /\ p.pc = "add"
  BY RequestFacts DEF AddSessionID, List
<1>2. /\ index' = index \cup {p.next}
      /\ late' = IF Load(p.next).tid \in member \cup {0} THEN late ELSE late \cup {p.next}
      /\ UNCHANGED <<session, issued, member, active, revived, missed, ops, faults>>
  BY <1>1 DEF AddSessionID, List, sql, bounds
<1>3. PICK q : q = [p EXCEPT !.pc = "dropRef"] /\ req' = [req EXCEPT ![r] = q]
  BY <1>1 DEF AddSessionID, List, Goto
<1>4. p.next \in issued /\ p.next # NoSid
  BY <1>1 DEF ReqOK
<1>5. /\ late \subseteq late' /\ late' \subseteq late \cup {p.next}
      /\ Auth(p.next) /\ session[p.next].tid \notin member \cup {0} => p.next \in late'
  BY <1>2, <1>4 DEF Load, Auth
<1>6. q \in ReqRecords /\ q.pc = "dropRef"
  BY <1>1, <1>3 DEF ReqRecords, Pcs
<1>7. q.sid = p.sid /\ q.next = p.next /\ q.copy = p.copy /\ q.ids = p.ids
      /\ q.refs = p.refs /\ q.hit = p.hit /\ q.found = p.found
  BY <1>1, <1>3 DEF ReqRecords
<1>8. q.sid # NoSid => Over(q.sid)'
  BY <1>1, <1>2, <1>7 DEF ReqOK, Over, Auth
<1>9. ReqOK(q)'
  BY <1>1, <1>2, <1>6, <1>7, <1>8 DEF ReqOK
<1>10. SharedType'
  BY <1>2, <1>4, <1>5, RequestFacts DEF SharedType
<1>11. \A s \in Sids : Listing(req[r], s) => s = p.next
  BY <1>1 DEF Listing
<1>12. \A s \in Sids : Auth(s)' => Auth(s)
  BY <1>2 DEF Auth
<1>13. \A s \in Sids : Auth(s) /\ session[s].tid \notin member \cup {0}
                       /\ (Listing(req[r], s) \/ Revoking(req[r], s)) => s \in late'
  BY <1>1, <1>5, <1>11, RequestFacts
<1>14. \A s \in Sids : Listing(req[r], s) => s \in index'
  BY <1>2, <1>11
<1>15. index \ index' = {} /\ member \ member' = {}
  BY <1>2
<1> QED  BY <1>2, <1>3, <1>5, <1>9, <1>10, <1>12, <1>13, <1>14, <1>15, RequestStep

-----------------------------------------------------------------------------
(* A failing Redis command.                                                *)
LEMMA RedisErrorStep ==
    ASSUME IInv, NEW r \in Reqs, RedisError(r)
    PROVE  IInv'
<1>0. /\ UNCHANGED <<session, index, issued, member, active, ops>>
      /\ faults < MaxFaults /\ faults' = faults + 1
  BY DEF RedisError, redis, sql
<1>1. ops' \in 0 .. MaxOps /\ faults' \in 0 .. MaxFaults
  BY <1>0, RequestFacts, BoundsAssumption
<1>2. PICK p : p = req[r] /\ ReqOK(p) /\ p \in ReqRecords
  BY RequestFacts
<1>3. CASE /\ p.pc \in {"savePre", "saveNew", "dropRef", "undoRef", "owned", "gather", "del",
                        "srem", "expire", "dropOld"}
           /\ End(r) /\ UNCHANGED <<revived, late, missed>>
  BY <1>0, <1>1, <1>2, <1>3, RequestFacts, EndStep
<1>4. CASE p.pc = "add" /\ Goto(r, "undo") /\ UNCHANGED <<revived, late, missed>>
  <2>1. PICK q : q = [p EXCEPT !.pc = "undo"] /\ req' = [req EXCEPT ![r] = q]
    BY <1>2, <1>4 DEF Goto
  <2>2. q \in ReqRecords /\ q.pc = "undo" /\ q.next = p.next
    BY <1>2, <2>1 DEF ReqRecords, Pcs
  <2>3. q.sid = p.sid /\ q.copy = p.copy /\ q.ids = p.ids
        /\ q.refs = p.refs /\ q.hit = p.hit /\ q.found = p.found
    BY <1>2, <2>1 DEF ReqRecords
  <2>4. ReqOK(q)
    BY <1>2, <1>4, <2>2, <2>3 DEF ReqOK
  <2>5. \A s \in Sids : Listing(p, s) => Listing(q, s)
    BY <2>2 DEF Listing
  <2> QED  BY <1>0, <1>1, <1>2, <1>4, <2>1, <2>4, <2>5, RequestFacts, StillStep
<1>5. CASE p.pc = "undo" /\ Goto(r, "undoRef") /\ revived' = revived \cup {p.next} /\ UNCHANGED <<late, missed>>
  <2>1. PICK q : q = [p EXCEPT !.pc = "undoRef"] /\ req' = [req EXCEPT ![r] = q]
    BY <1>2, <1>5 DEF Goto
  <2>2. q \in ReqRecords /\ q.pc = "undoRef" /\ q.next = p.next
    BY <1>2, <2>1 DEF ReqRecords, Pcs
  <2>3. q.sid = p.sid /\ q.copy = p.copy /\ q.ids = p.ids
        /\ q.refs = p.refs /\ q.hit = p.hit /\ q.found = p.found
    BY <1>2, <2>1 DEF ReqRecords
  <2>4. p.next \in issued /\ p.next # NoSid
    BY <1>2, <1>5 DEF ReqOK
  <2>5. Over(q.next)'
    BY <1>5, <2>2 DEF Over
  <2>6. ReqOK(q)'
    BY <1>0, <1>2, <1>5, <2>2, <2>3, <2>5 DEF ReqOK
  <2>7. SharedType'
    BY <1>0, <1>1, <1>5, <2>4, RequestFacts DEF SharedType
  <2>8. \A s \in Sids : Listing(req[r], s) => s \in revived' /\ Over(s)'
    BY <1>2, <1>5 DEF Listing, Over
  <2>9. \A s \in Sids : ~Revoking(req[r], s)
    BY <1>2, <1>5, RequestFacts
  <2>10. \A s \in Sids : Auth(s)' => Auth(s)
    BY <1>0 DEF Auth
  <2>11. index \ index' = {} /\ member \ member' = {} /\ revived \subseteq revived'
    BY <1>0, <1>5
  <2> QED  BY <1>0, <1>5, <2>1, <2>6, <2>7, <2>8, <2>9, <2>10, <2>11, RequestStep
<1>6. ASSUME p.pc = "gatherEach", UNCHANGED <<revived, late, missed>>, NEW s \in p.ids,
             req' = [req EXCEPT ![r].ids = @ \ {s}, ![r].hit = @ \cup {s}]
      PROVE  IInv'
  <2>1. PICK I, H, F : I = p.ids \ {s} /\ H = p.hit \cup {s} /\ F = p.found
    OBVIOUS
  <2>2. req' = [req EXCEPT ![r].ids = I, ![r].hit = H, ![r].found = F]
    BY <1>2, <1>6, <2>1 DEF ReqRecords
  <2>3. /\ I \in SUBSET req[r].ids /\ H \in SUBSET (req[r].ids \cup req[r].hit)
        /\ F \in SUBSET (req[r].ids \cup req[r].found)
    BY <1>2, <2>1
  <2>4. /\ req[r].pc = "gatherEach"
        /\ UNCHANGED <<session, index, issued, member, active, revived, late, missed>>
    BY <1>0, <1>2, <1>6
  <2> QED  BY <1>1, <2>2, <2>3, <2>4, GatherOneStep
<1>7. CASE p.pc = "save" /\ p.kind = "leave" /\ Goto(r, "list") /\ UNCHANGED <<revived, late, missed>>
  <2>1. PICK q : q = [p EXCEPT !.pc = "list"] /\ req' = [req EXCEPT ![r] = q]
    BY <1>2, <1>7 DEF Goto
  <2>2. q \in ReqRecords /\ q.pc = "list" /\ q.team = p.team
    BY <1>2, <2>1 DEF ReqRecords, Pcs
  <2>3. q.sid = p.sid /\ q.next = p.next /\ q.copy = p.copy /\ q.ids = p.ids
        /\ q.refs = p.refs /\ q.hit = p.hit /\ q.found = p.found
    BY <1>2, <2>1 DEF ReqRecords
  <2>4. ReqOK(q)
    BY <1>2, <1>7, <2>2, <2>3 DEF ReqOK
  <2>5. \A s \in Sids : Revoking(p, s) => Revoking(q, s)
    BY <2>2 DEF Revoking
  <2> QED  BY <1>0, <1>1, <1>2, <1>7, <2>1, <2>4, <2>5, RequestFacts, StillStep
<1>8. CASE p.pc = "save" /\ p.kind # "leave" /\ End(r) /\ UNCHANGED <<revived, late, missed>>
  <2>1. \A s \in Sids : ~Revoking(req[r], s)
    BY <1>2, <1>8 DEF Revoking
  <2> QED  BY <1>0, <1>1, <1>2, <1>8, <2>1, RequestFacts, EndStep
<1>9. CASE p.pc \in {"list", "match"} /\ End(r) /\ missed' = TRUE /\ UNCHANGED <<revived, late>>
  <2>1. req' = [req EXCEPT ![r] = Idle]
    BY <1>9 DEF End
  <2>2. SharedType'
    <3>1. missed' \in BOOLEAN
      BY <1>9
    <3> QED  BY <1>0, <1>1, <1>9, <3>1, RequestFacts DEF SharedType
  <2>3. \A s \in Sids : Auth(s)' => Auth(s)
    BY <1>0 DEF Auth
  <2>4. \A s \in Sids : ~Listing(req[r], s)
    BY <1>2, <1>9, RequestFacts
  <2>5. index \ index' = {} /\ member \ member' = {}
    BY <1>0
  <2>6. missed'
    BY <1>9
  <2> QED  BY <1>0, <1>9, <2>1, <2>2, <2>3, <2>4, <2>5, <2>6, IdleOK, RequestStep
<1> QED
  <2>1. p = req[r]
    BY <1>2
  <2>2. \/ /\ p.pc \in {"savePre", "saveNew", "dropRef", "undoRef", "owned", "gather", "del",
                       "srem", "expire", "dropOld"}
           /\ End(r) /\ UNCHANGED history
        \/ p.pc = "add" /\ Goto(r, "undo") /\ UNCHANGED history
        \/ p.pc = "undo" /\ Goto(r, "undoRef") /\ revived' = revived \cup {p.next} /\ UNCHANGED <<late, missed>>
        \/ /\ p.pc = "gatherEach" /\ UNCHANGED history
           /\ \E s \in p.ids : req' = [req EXCEPT ![r].ids = @ \ {s}, ![r].hit = @ \cup {s}]
        \/ p.pc = "save" /\ p.kind = "leave" /\ Goto(r, "list") /\ UNCHANGED history
        \/ p.pc = "save" /\ p.kind # "leave" /\ End(r) /\ UNCHANGED history
        \/ p.pc \in {"list", "match"} /\ End(r) /\ missed' = TRUE /\ UNCHANGED <<revived, late>>
    BY <2>1, Zenon DEF RedisError
  <2>3. UNCHANGED history => UNCHANGED <<revived, late, missed>>
    BY DEF history
  <2> QED  BY <2>2, <2>3, <1>3, <1>4, <1>5, <1>6, <1>7, <1>8, <1>9

-----------------------------------------------------------------------------
(* Redis and the other users: a key expires, the user joins a team.        *)
LEMMA OutsideStep ==
    ASSUME IInv, (\E t \in Teams : AddMember(t)) \/ (\E s \in Sids : ExpireKey(s))
    PROVE  IInv'
<1>0. /\ SharedType /\ DOMAIN req = Reqs /\ (\A r \in Reqs : ReqOK(req[r]))
      /\ LiveSessionsAreListed /\ TeamInv
  BY DEF IInv
<1>1. /\ UNCHANGED <<index, issued, req, active, revived, late, missed, faults>>
      /\ ops < MaxOps /\ ops' = ops + 1
  BY DEF AddMember, ExpireKey, redis, sql, history
<1>2. /\ session' \in [Sids -> Values \cup {Gone}]
      /\ \A s \in Sids : session'[s] = session[s] \/ session'[s] = Gone
      /\ \A s \in Sids : Over(s) => Over(s)'
  <2>1. ASSUME NEW t \in Teams, AddMember(t)
        PROVE  <1>2!:
    BY <1>0, <2>1 DEF SharedType, AddMember, redis, history, Over, Auth
  <2>2. ASSUME NEW s \in Sids, ExpireKey(s)
        PROVE  <1>2!:
    BY <1>1, <2>2, DeleteFacts DEF ExpireKey
  <2> QED  BY <2>1, <2>2
<1>3. member \subseteq member' /\ member' \subseteq Teams
  BY <1>0 DEF SharedType, AddMember, ExpireKey, sql
<1>4. SharedType'
  BY <1>0, <1>1, <1>2, <1>3, BoundsAssumption DEF SharedType
<1>5. \A r \in Reqs : ReqOK(req[r])'
  <2> SUFFICES ASSUME NEW r \in Reqs PROVE ReqOK(req[r])'
    OBVIOUS
  <2>1. PICK p : p = req[r] /\ ReqOK(p) /\ req'[r] = p
    BY <1>0, <1>1
  <2>2. /\ (p.pc \in {"readTeam", "saveNew", "add", "dropRef"} /\ p.sid # NoSid) => Over(p.sid)'
        /\ p.pc = "undoRef" => Over(p.next)'
        /\ p.pc = "del" => \A s \in p.refs \ p.ids : Over(s)'
        /\ p.pc = "srem" => \A s \in p.refs : Over(s)'
    BY <1>0, <1>2, <2>1 DEF ReqOK, SharedType
  <2>3. ReqOK(p)'
    BY <1>1, <2>1, <2>2 DEF ReqOK
  <2> QED  BY <2>1, <2>3 DEF ReqOK, Over, Auth
<1>6. \A s \in Sids : Auth(s)' => Auth(s) /\ session'[s] = session[s]
  BY <1>2 DEF Auth
<1>7. LiveSessionsAreListed'
  BY <1>0, <1>1, <1>6 DEF LiveSessionsAreListed
<1>8. TeamInv'
  <2> SUFFICES ASSUME NEW s \in Sids, Auth(s)', session'[s].tid \notin member' \cup {0},
                      ~(missed' \/ s \in late' \cup revived')
               PROVE  \E r \in Reqs : Listing(req'[r], s) \/ Revoking(req[r], s)'
    BY DEF TeamInv, Listing
  <2>1. Auth(s) /\ session'[s] = session[s] /\ session[s].tid \notin member \cup {0}
    BY <1>3, <1>6
  <2>2. PICK r \in Reqs : Listing(req[r], s) \/ Revoking(req[r], s)
    BY <1>0, <1>1, <2>1 DEF TeamInv
  <2> QED  BY <1>1, <2>1, <2>2 DEF Revoking
<1> QED  BY <1>0, <1>1, <1>4, <1>5, <1>7, <1>8 DEF IInv

-----------------------------------------------------------------------------
(* Every step preserves the invariant.                                     *)
LEMMA NextIInv == IInv /\ [Next]_vars => IInv'
<1> SUFFICES ASSUME IInv, [Next]_vars PROVE IInv'
  OBVIOUS
<1>1. ASSUME NEW r \in Reqs, NewRequest(r) PROVE IInv'
  BY <1>1, NewRequestStep, RemoveMemberStep DEF NewRequest
<1>2. ASSUME NEW r \in Reqs, Serve(r) PROVE IInv'
  BY <1>2, SavePreStep, DropOldStep, ReadTeamStep, SaveNewStep, AddSessionIDStep, UndoStep,
     DropRefStep, CheckOwnedStep, GatherStep, GatherEachStep, GatheredStep,
     RemoveSessionIDsStep, RemoveRefsStep, ExpireCookieStep, SetUserActiveTeamStep, SaveStep,
     LeaveTeamStep, ListIndexedStep, MatchIndexedStep, RemoveMatchingStep, TeamAccessStep,
     ClearRevokedStep, StreamStep DEF Serve
<1>3. ASSUME NEW r \in Reqs, RedisError(r) PROVE IInv'
  BY <1>3, RedisErrorStep
<1>4. ASSUME NEW r \in Reqs, CloseStream(r) PROVE IInv'
  BY <1>4, StreamStep
<1>5. CASE (\E t \in Teams : AddMember(t)) \/ (\E s \in Sids : ExpireKey(s))
  BY <1>5, OutsideStep
<1>6. CASE UNCHANGED vars
  BY <1>6 DEF vars, redis, sql, history, bounds, IInv, SharedType, ReqOK, Over, Auth,
              LiveSessionsAreListed, TeamInv, Listing, Revoking
<1> QED  BY <1>1, <1>2, <1>3, <1>4, <1>5, <1>6 DEF Next

(* The inductive invariant holds in every reachable state.                 *)
THEOREM Invariance == Spec => []IInv
BY InitIInv, NextIInv, PTL DEF Spec

(* The state, and the records of the requests, keep their types.           *)
THEOREM TypeCorrect == Spec => []TypeOK
<1>1. IInv => TypeOK
  BY DEF IInv, SharedType, ReqOK, ReqRecords, TypeOK
<1> QED  BY <1>1, Invariance, PTL

(* A signed-in session can be seen and revoked: it is in the index of the  *)
(* user, unless its sign-in is not over or it was written back.            *)
THEOREM SessionsListed == Spec => []LiveSessionsAreListed
<1>1. IInv => LiveSessionsAreListed
  BY DEF IInv
<1> QED  BY <1>1, Invariance, PTL

(* When nothing is under way, no session has a team that the user has lost *)
(* but for the excused ones.                                               *)
THEOREM TeamSessionsAreRevoked == Spec => []TeamSessionsRevoked
<1>1. IInv => TeamSessionsRevoked
  BY DEF IInv, TeamInv, Listing, Revoking, TeamSessionsRevoked
<1> QED  BY <1>1, Invariance, PTL

-----------------------------------------------------------------------------
(* A step that saves no session signs none in.                             *)
LEMMA OtherStepsSignInNothing ==
    ASSUME IInv, NEW s \in Sids, Auth(s)', ~Auth(s),
           \/ \E r \in Reqs : NewRequest(r) \/ RedisError(r) \/ CloseStream(r)
           \/ \E t \in Teams : AddMember(t)
           \/ \E x \in Sids : ExpireKey(x)
           \/ UNCHANGED vars
           \/ \E r \in Reqs :
                \/ DropOld(r) \/ ReadTeam(r) \/ AddSessionID(r)
                \/ Undo(r) \/ DropRef(r)
                \/ CheckOwned(r) \/ Gather(r) \/ GatherEach(r) \/ Gathered(r)
                \/ RemoveSessionIDs(r) \/ RemoveUserSessionIDRefs(r) \/ ExpireCookie(r)
                \/ SetUserActiveTeam(r) \/ LeaveTeam(r)
                \/ ListIndexed(r) \/ MatchIndexed(r) \/ RemoveMatching(r)
                \/ TeamAccess(r) \/ ClearRevoked(r) \/ EndStream(r)
    PROVE  FALSE
<1>1. session' = session => FALSE
  BY DEF Auth
<1>2. ASSUME NEW S, Delete(S) PROVE FALSE
  BY <1>2 DEF Delete, Auth
<1>3. ASSUME NEW r \in Reqs, NewRequest(r) PROVE session' = session
  BY <1>3, ZenonT(60) DEF NewRequest, Login, Verify, Logout, SessionRevoke, ListSessions, SetActiveTeam,
              Leave, TeamRequest, RemoveMember, Arrive, redis
<1>4. ASSUME NEW r \in Reqs,
             \/ ReadTeam(r) \/ AddSessionID(r) \/ DropRef(r) \/ CheckOwned(r) \/ Gather(r)
             \/ GatherEach(r) \/ Gathered(r) \/ RemoveUserSessionIDRefs(r)
             \/ SetUserActiveTeam(r) \/ LeaveTeam(r) \/ ListIndexed(r) \/ MatchIndexed(r)
             \/ TeamAccess(r) \/ ClearRevoked(r) \/ EndStream(r) \/ CloseStream(r) \/ RedisError(r)
      PROVE  session' = session
  BY <1>4 DEF ReadTeam, AddSessionID, List, DropRef, CheckOwned, Gather, GatherEach, Gathered,
              RemoveUserSessionIDRefs, SetUserActiveTeam, LeaveTeam, ListIndexed, MatchIndexed,
              TeamAccess, ClearRevoked, EndStream, CloseStream, RedisError, redis
<1>5. ASSUME NEW r \in Reqs,
             \/ DropOld(r) \/ Undo(r) \/ RemoveSessionIDs(r) \/ ExpireCookie(r) \/ RemoveMatching(r)
      PROVE  \E S : Delete(S)
  BY <1>5 DEF DropOld, Undo, RemoveSessionIDs, ExpireCookie, RemoveMatching
<1>6. ASSUME NEW t \in Teams, AddMember(t) PROVE session' = session
  BY <1>6 DEF AddMember, redis
<1>7. ASSUME NEW x \in Sids, ExpireKey(x) PROVE Delete({x})
  BY <1>7 DEF ExpireKey
<1>8. UNCHANGED vars => session' = session
  BY DEF vars, redis
<1> QED  BY <1>1, <1>2, <1>3, <1>4, <1>5, <1>6, <1>7, <1>8

(* An id a client already has becomes signed in only through a request     *)
(* that had itself loaded it signed in: sign-in always gives out a new id. *)
THEOREM SignInRotatesAlways == Spec => SignInRotates
<1>1. ASSUME IInv, [Next]_vars, NEW s \in issued, Auth(s)', ~Auth(s)
      PROVE  \E r \in Reqs : req[r].sid = s /\ req[r].copy.auth
  <2>0. SharedType /\ s \in Sids
    BY <1>1 DEF IInv, SharedType
  <2>1. ASSUME NEW r \in Reqs, NEW x, NEW v, Write(x, v)
        PROVE  x = s /\ v.auth
    BY <1>1, <2>0, <2>1 DEF Write, Auth, SharedType
  <2>2. ASSUME NEW r \in Reqs, SavePre(r)
        PROVE  req[r].sid = s /\ req[r].copy.auth
    <3>1. req[r] \in ReqRecords
      BY <1>1, RequestFacts
    <3>2. PICK x : /\ x \in IF req[r].sid = NoSid THEN NewSid ELSE {req[r].sid}
                   /\ Write(x, [req[r].copy EXCEPT !.pre = TRUE])
      BY <2>2 DEF SavePre
    <3>3. x = s /\ [req[r].copy EXCEPT !.pre = TRUE].auth
      BY <2>1, <3>2
    <3>4. req[r].sid = s
      BY <1>1, <2>0, <3>2, <3>3, NewSidFresh
    <3>5. req[r].copy.auth
      BY <3>1, <3>3 DEF ReqRecords, Values
    <3> QED  BY <3>4, <3>5
  <2>3. ASSUME NEW r \in Reqs, SaveNew(r)
        PROVE  FALSE
    <3>1. PICK x \in NewSid : Write(x, [auth |-> TRUE, pre |-> FALSE, tid |-> req[r].team])
      BY <2>3 DEF SaveNew
    <3> QED  BY <1>1, <2>0, <2>1, <3>1, NewSidFresh
  <2>4. ASSUME NEW r \in Reqs, Save(r)
        PROVE  req[r].sid = s /\ req[r].copy.auth
    BY <2>1, <2>4 DEF Save
  <2> QED  BY <1>1, <2>0, <2>2, <2>3, <2>4, OtherStepsSignInNothing DEF Next, Serve
<1>2. IInv /\ [Next]_vars =>
        [\A s \in issued : Auth(s)' /\ ~Auth(s) =>
            \E r \in Reqs : req[r].sid = s /\ req[r].copy.auth]_vars
  BY <1>1
<1> QED  BY <1>2, Invariance, PTL DEF Spec, SignInRotates
=============================================================================
