------------------------------ MODULE Sessions ------------------------------
(***************************************************************************)
(* The sessions of one user: the session keys and the index of session ids *)
(* in Redis (internal/redis/sessions.go), the user's team memberships and  *)
(* active team in PostgreSQL, and the requests that read and change them   *)
(* at the same time: sign-in with and without a second factor, sign-out,   *)
(* listing and revoking sessions, choosing and leaving a team, removal     *)
(* from a team, and team-scoped requests and streams.                      *)
(*                                                                         *)
(* A request loads its session once (session.Get) and works on that copy;  *)
(* sess.Save writes the whole copy back and does not ask whether the key   *)
(* still exists.  Every Redis command and every SQL statement or           *)
(* transaction is a step.                                                  *)
(***************************************************************************)
EXTENDS Integers, FiniteSets

CONSTANTS
    Sids,       \* session ids; a new session gets one never used before
    NoSid,      \* a request without a session cookie
    Teams,      \* teams; 0 stands for none
    Reqs,       \* requests that may be served at the same time
    MaxOps,     \* bound: requests and membership changes in a behaviour
    MaxFaults   \* bound: failing Redis commands

ASSUME SidsAssumption == Sids # {} /\ NoSid \notin Sids
ASSUME TeamsAssumption == Teams \subseteq Nat \ {0}
ASSUME BoundsAssumption == MaxOps \in Nat /\ MaxFaults \in Nat

\* What a session holds: auth (uid is set), pre (pre_2fa_uid is set) and tid.
Values == [auth : BOOLEAN, pre : BOOLEAN, tid : Teams \cup {0}]
Empty == [auth |-> FALSE, pre |-> FALSE, tid |-> 0]
Gone == [gone |-> TRUE]

VARIABLES
    session,    \* mosona:session:<sid>
    index,      \* user:sessions:<uid>
    issued,     \* session ids some client has been given
    member,     \* the user's rows of m_team_user, by team
    active,     \* users_config.active_team
    req,        \* the requests being served
    revived,    \* history: signed-in sessions written back after they were
                \* deleted, and ones that could not be taken back
    late,       \* history: sessions that got a team after the user had lost it
    missed,     \* history: a revocation of team sessions failed
    ops, faults

redis == <<session, index, issued>>
sql == <<member, active>>
history == <<revived, late, missed>>
bounds == <<ops, faults>>
vars == <<redis, sql, req, history, bounds>>

Idle == [pc |-> "idle", kind |-> "none", sid |-> NoSid, copy |-> Empty,
         team |-> 0, next |-> NoSid, ids |-> {}, refs |-> {}, hit |-> {},
         found |-> {}]

Auth(s) == session[s] # Gone /\ session[s].auth

\* session.Get: an id whose key is gone yields an empty session under that id.
Load(s) == IF s = NoSid \/ session[s] = Gone THEN Empty ELSE session[s]

-----------------------------------------------------------------------------
(* Steps shared by the requests *)

End(r) == req' = [req EXCEPT ![r] = Idle]
Goto(r, pc) == req' = [req EXCEPT ![r].pc = pc]

\* The store draws an id that is not in use.  Ids differ in nothing but their
\* name, so one unused id stands for all.
NewSid == IF issued = Sids THEN {} ELSE {CHOOSE s \in Sids : s \notin issued}

Delete(S) == session' = [s \in Sids |-> IF s \in S THEN Gone ELSE session[s]]

\* sess.Save of value v under the id s.
Write(s, v) ==
    /\ session' = [session EXCEPT ![s] = v]
    /\ revived' = IF v.auth /\ ~Auth(s) /\ s \in issued
                  THEN revived \cup {s} ELSE revived
    /\ late' = IF v.tid # 0 /\ v.tid \notin member THEN late \cup {s} ELSE late
    /\ UNCHANGED missed

\* A request arrives with the cookie s and is served up to its first access
\* to shared state after the load.
Arrive(r, q) ==
    /\ req[r].pc = "idle"
    /\ ops < MaxOps
    /\ ops' = ops + 1
    /\ req' = [req EXCEPT ![r] = q]
    /\ UNCHANGED <<redis, sql, history, faults>>

Cookies == issued \cup {NoSid}

\* UserAuth lets a session through that is signed in and waits for no second
\* factor.  Its reload and Save of the active team are for sessions that have
\* no tid, or an untyped 0.  Here neither occurs: sign-in and every loss of a
\* team store an int64, which that comparison does not match.  Left out is the
\* one place that stores an untyped 0: me, when a team is deleted between its
\* reads of the membership and of the team.
UserAuth(s) == s # NoSid /\ Load(s).auth /\ ~Load(s).pre

-----------------------------------------------------------------------------
(* Sign-in: login, oauthCallback, verifyMFACode, verifyTOTP *)

\* The password or the provider's identity is right.  A session that is
\* signed in already is refused unless it is bound to another client.  The
\* Saves that put an OAuth state into the session and take it out again are
\* left out: they write back what was loaded, before anything is signed in.
Login(r, s, bound, twoFA) ==
    /\ ~(Load(s).auth /\ bound)
    /\ Arrive(r, [Idle EXCEPT !.kind = "login", !.sid = s, !.copy = Load(s),
                              !.pc = IF twoFA THEN "savePre" ELSE "dropOld"])

\* The second factor is right.
Verify(r, s) ==
    /\ s # NoSid
    /\ Load(s).pre
    /\ Arrive(r, [Idle EXCEPT !.kind = "verify", !.sid = s, !.copy = Load(s),
                              !.pc = "dropOld"])

\* The session remembers who has to give the second factor.
SavePre(r) ==
    /\ req[r].pc = "savePre"
    /\ \E s \in IF req[r].sid = NoSid THEN NewSid ELSE {req[r].sid} :
          /\ Write(s, [req[r].copy EXCEPT !.pre = TRUE])
          /\ issued' = issued \cup {s}
    /\ End(r)
    /\ UNCHANGED <<index, sql, bounds>>

\* finalizeAuthenticatedSession: the old key is deleted ...
DropOld(r) ==
    /\ req[r].pc = "dropOld"
    /\ Delete({req[r].sid})
    /\ Goto(r, "readTeam")
    /\ UNCHANGED <<index, issued, sql, history, bounds>>

\* ... the active team is read ...
ReadTeam(r) ==
    /\ req[r].pc = "readTeam"
    /\ req' = [req EXCEPT ![r].pc = "saveNew", ![r].team = active]
    /\ UNCHANGED <<redis, sql, history, bounds>>

\* Variant for mutation: the session keeps its id when it is signed in.
SaveNewSameId(r) ==
    /\ req[r].pc = "saveNew"
    /\ \E s \in IF req[r].sid = NoSid THEN NewSid ELSE {req[r].sid} :
          /\ Write(s, [auth |-> TRUE, pre |-> FALSE, tid |-> req[r].team])
          /\ issued' = issued \cup {s}
          /\ req' = [req EXCEPT ![r].pc = "add", ![r].next = s]
    /\ UNCHANGED <<index, sql, bounds>>

\* ... the session is saved under a new id ...
SaveNew(r) ==
    /\ req[r].pc = "saveNew"
    /\ \E s \in NewSid :
          /\ Write(s, [auth |-> TRUE, pre |-> FALSE, tid |-> req[r].team])
          /\ issued' = issued \cup {s}
          /\ req' = [req EXCEPT ![r].pc = "add", ![r].next = s]
    /\ UNCHANGED <<index, sql, bounds>>

\* SADD of the id s, the new one; late remembers a session that was listed
\* only after the user had lost its team.
List(r, s) ==
    /\ req[r].pc = "add"
    /\ index' = index \cup {s}
    /\ Goto(r, "dropRef")
    /\ late' = IF Load(s).tid \in member \cup {0} THEN late ELSE late \cup {s}
    /\ UNCHANGED <<session, issued, sql, revived, missed, bounds>>

\* ... and listed.  If that fails the session is taken back.
AddSessionID(r) == List(r, req[r].next)

\* Variant for mutation: the session is left behind when it cannot be listed.
UndoNothing(r) ==
    /\ req[r].pc = "undo"
    /\ End(r)
    /\ UNCHANGED <<redis, sql, history, bounds>>

Undo(r) ==
    /\ req[r].pc = "undo"
    /\ Delete({req[r].next})
    /\ Goto(r, "undoRef")
    /\ UNCHANGED <<index, issued, sql, history, bounds>>

\* The reference to the old id, or to the one taken back, is removed; an error
\* is not reported.
DropRef(r) ==
    /\ req[r].pc \in {"dropRef", "undoRef"}
    /\ index' = index \ {IF req[r].pc = "dropRef" THEN req[r].sid ELSE req[r].next}
    /\ End(r)
    /\ UNCHANGED <<session, issued, sql, history, bounds>>

-----------------------------------------------------------------------------
(* Sign-out, list and revocation *)

\* logout: deletes and unlists a signed-in session, then expires its cookie.
Logout(r, s) ==
    /\ s # NoSid
    /\ Arrive(r, [Idle EXCEPT !.kind = "logout", !.sid = s, !.ids = {s},
                              !.refs = {s},
                              !.pc = IF Load(s).auth THEN "del" ELSE "expire"])

\* DELETE /sessions/:sid
SessionRevoke(r, s, v) ==
    /\ UserAuth(s)
    /\ Arrive(r, [Idle EXCEPT !.kind = "revoke", !.sid = s, !.ids = {v},
                              !.refs = {v}, !.pc = "owned"])

\* CheckSessionOwnership
CheckOwned(r) ==
    /\ req[r].pc = "owned"
    /\ IF req[r].ids \subseteq index THEN Goto(r, "del") ELSE End(r)
    /\ UNCHANGED <<redis, sql, history, bounds>>

\* GET /sessions and DELETE /sessions
ListSessions(r, s, all) ==
    /\ UserAuth(s)
    /\ Arrive(r, [Idle EXCEPT !.kind = IF all THEN "revokeAll" ELSE "sessions",
                              !.sid = s, !.pc = "gather"])

\* GetUserSessions reads the index ...
Gather(r) ==
    /\ req[r].pc = "gather"
    /\ req' = [req EXCEPT ![r].pc = "gatherEach", ![r].ids = index]
    /\ UNCHANGED <<redis, sql, history, bounds>>

\* ... then every session; one that is gone, does not parse or cannot be read
\* is taken for gone.
GatherEach(r) ==
    /\ req[r].pc = "gatherEach"
    /\ \E s \in req[r].ids :
          req' = [req EXCEPT ![r].ids = @ \ {s},
                             ![r].hit = IF Auth(s) THEN @ ELSE @ \cup {s},
                             ![r].found = IF Auth(s) THEN @ \cup {s} ELSE @]
    /\ UNCHANGED <<redis, sql, history, bounds>>

\* The ones taken for gone are deleted and unlisted; sessionRevokeAll goes on
\* with those that were found.
Gathered(r) ==
    /\ req[r].pc \in {"gatherEach", "gathered"}
    /\ req[r].ids = {}
    /\ LET q == req[r] IN
       CASE q.hit # {} ->
              req' = [req EXCEPT ![r].pc = "del", ![r].ids = q.hit,
                                 ![r].refs = q.hit, ![r].hit = {}]
         [] q.hit = {} /\ q.kind = "revokeAll" /\ q.found # {} ->
              req' = [req EXCEPT ![r].pc = "del", ![r].ids = q.found,
                                 ![r].refs = q.found, ![r].found = {}]
         [] OTHER -> End(r)
    /\ UNCHANGED <<redis, sql, history, bounds>>

\* RemoveUserSessionIDs: RemoveSessionIDs deletes the keys one by one and stops
\* at the first error ...
RemoveSessionIDs(r) ==
    /\ req[r].pc = "del"
    /\ \E s \in req[r].ids :
          /\ Delete({s})
          /\ req' = [req EXCEPT ![r].ids = @ \ {s},
                                ![r].pc = IF req[r].ids = {s} THEN "srem" ELSE @]
    /\ UNCHANGED <<index, issued, sql, history, bounds>>

\* ... then RemoveUserSessionIDRefs unlists them.
RemoveUserSessionIDRefs(r) ==
    /\ req[r].pc = "srem"
    /\ index' = index \ req[r].refs
    /\ CASE req[r].kind = "logout" -> Goto(r, "expire")
         [] req[r].kind = "revoke" -> End(r)
         [] OTHER -> Goto(r, "gathered")
    /\ UNCHANGED <<session, issued, sql, history, bounds>>

\* sess.Save with a negative MaxAge deletes the key.
ExpireCookie(r) ==
    /\ req[r].pc = "expire"
    /\ Delete({req[r].sid})
    /\ End(r)
    /\ UNCHANGED <<index, issued, sql, history, bounds>>

-----------------------------------------------------------------------------
(* Teams *)

\* setActiveTeam
SetActiveTeam(r, s, t) ==
    /\ UserAuth(s)
    /\ Arrive(r, [Idle EXCEPT !.kind = "active", !.sid = s, !.copy = Load(s),
                              !.team = t, !.pc = "setActive"])

SetUserActiveTeam(r) ==
    /\ req[r].pc = "setActive"
    /\ IF req[r].team \in member
       THEN /\ active' = req[r].team
            /\ req' = [req EXCEPT ![r].copy.tid = req[r].team, ![r].pc = "save"]
       ELSE End(r) /\ UNCHANGED active
    /\ UNCHANGED <<redis, member, history, bounds>>

\* Variant for mutation: leave only takes the team from its own session.
SaveOwnOnly(r) ==
    /\ req[r].pc = "save"
    /\ Write(req[r].sid, req[r].copy)
    /\ End(r)
    /\ UNCHANGED <<index, issued, sql, bounds>>

\* sess.Save; leave goes on to revoke the other sessions of the team.
Save(r) ==
    /\ req[r].pc = "save"
    /\ Write(req[r].sid, req[r].copy)
    /\ IF req[r].kind = "leave" THEN Goto(r, "list") ELSE End(r)
    /\ UNCHANGED <<index, issued, sql, bounds>>

\* leave
Leave(r, s, t) ==
    /\ UserAuth(s)
    /\ Arrive(r, [Idle EXCEPT !.kind = "leave", !.sid = s, !.copy = Load(s),
                              !.team = t, !.pc = "leave"])

LoseTeam(t) ==
    /\ member' = member \ {t}
    /\ active' = IF active = t THEN 0 ELSE active

\* LeaveTeam commits; this session gives the team up if it has it.
LeaveTeam(r) ==
    /\ req[r].pc = "leave"
    /\ IF req[r].team \in member
       THEN /\ LoseTeam(req[r].team)
            /\ IF req[r].copy.tid = req[r].team
               THEN req' = [req EXCEPT ![r].copy.tid = 0, ![r].pc = "save"]
               ELSE Goto(r, "list")
       ELSE End(r) /\ UNCHANGED sql
    /\ UNCHANGED <<redis, history, bounds>>

\* The edit of a team by someone else removes the user and commits.
RemoveMember(r, t) ==
    /\ req[r].pc = "idle"
    /\ ops < MaxOps
    /\ ops' = ops + 1
    /\ t \in member
    /\ LoseTeam(t)
    /\ req' = [req EXCEPT ![r] = [Idle EXCEPT !.kind = "edit", !.team = t, !.pc = "list"]]
    /\ UNCHANGED <<redis, history, faults>>

\* An edit adds the user to a team.
AddMember(t) ==
    /\ ops < MaxOps
    /\ ops' = ops + 1
    /\ t \notin member
    /\ member' = member \cup {t}
    /\ UNCHANGED <<redis, active, req, history, faults>>

\* RemoveUserTeamSessions lists the sessions ...
ListIndexed(r) ==
    /\ req[r].pc = "list"
    /\ req' = [req EXCEPT ![r].pc = "match", ![r].ids = index]
    /\ UNCHANGED <<redis, sql, history, bounds>>

\* ... reads each one, gives up at an error ...
MatchIndexed(r) ==
    /\ req[r].pc = "match"
    /\ \E s \in req[r].ids :
          req' = [req EXCEPT ![r].ids = @ \ {s},
                             ![r].hit = IF Auth(s) /\ session[s].tid # req[r].team
                                        THEN @ ELSE @ \cup {s}]
    /\ UNCHANGED <<redis, sql, history, bounds>>

\* ... and deletes and unlists the ones that match in one transaction.
RemoveMatching(r) ==
    /\ req[r].pc = "match"
    /\ req[r].ids = {}
    /\ Delete(req[r].hit)
    /\ index' = index \ req[r].hit
    /\ End(r)
    /\ UNCHANGED <<issued, sql, history, bounds>>

\* A team-scoped request or stream with the session's team, or GET /user/me,
\* which takes the active team when the session has none.
TeamRequest(r, s, kind) ==
    /\ UserAuth(s)
    /\ LET t == IF kind = "me" /\ Load(s).tid = 0 THEN active ELSE Load(s).tid IN
       /\ t # 0
       /\ Arrive(r, [Idle EXCEPT !.kind = kind, !.sid = s, !.copy = Load(s),
                                 !.team = t, !.pc = "role"])

\* TeamAccess: a member is served, a stream goes on; a user who is no longer
\* one loses the team.
TeamAccess(r) ==
    /\ req[r].pc = "role"
    /\ IF req[r].team \in member
       THEN IF req[r].kind = "stream" THEN Goto(r, "stream") ELSE End(r)
       ELSE Goto(r, "clear")
    /\ UNCHANGED <<redis, sql, history, bounds>>

\* ClearUserActiveTeam, then the session is saved without the team.
ClearRevoked(r) ==
    /\ req[r].pc = "clear"
    /\ active' = IF active = req[r].team THEN 0 ELSE active
    /\ req' = [req EXCEPT ![r].copy.tid = 0, ![r].pc = "save"]
    /\ UNCHANGED <<redis, member, history, bounds>>

\* Variant for mutation: a stream asks only for its session.
ValidSessionOnly(r) == session[req[r].sid] # Gone

\* ValidateTeamSession: the session is there and the user a member.  Streams
\* are open to every role, so the list of allowed ones refuses no member; the
\* terminals, open to writers only, see a change of role as a revocation
\* (TerminalSession).  An error of Redis or the database, which also ends the
\* stream, is left out.
Valid(r) == session[req[r].sid] # Gone /\ req[r].team \in member

\* A tick of the stream's watcher finds the access revoked and ends it.
EndStream(r) ==
    /\ req[r].pc = "stream"
    /\ ~Valid(r)
    /\ End(r)
    /\ UNCHANGED <<redis, sql, history, bounds>>

\* The client closes the stream.
CloseStream(r) ==
    /\ req[r].pc = "stream"
    /\ End(r)
    /\ UNCHANGED <<redis, sql, history, bounds>>

\* Redis expires a key; the index does not know.
ExpireKey(s) ==
    /\ session[s] # Gone
    /\ ops < MaxOps
    /\ ops' = ops + 1
    /\ Delete({s})
    /\ UNCHANGED <<index, issued, sql, req, history, faults>>

\* A Redis command of the request fails and has no effect.  A session that
\* cannot be listed is taken back, and unlisted even if that fails too; a
\* listed session that cannot be read counts as gone; leave revokes the
\* sessions of the team although its own could not be saved.  Everything else
\* ends the request; an error of a revocation is only logged.
RedisError(r) ==
    /\ faults < MaxFaults
    /\ faults' = faults + 1
    /\ \/ /\ req[r].pc \in {"savePre", "saveNew", "dropRef", "undoRef", "owned",
                            "gather", "del", "srem", "expire"}
          /\ End(r)
          /\ UNCHANGED history
       \/ /\ req[r].pc = "dropOld" /\ req[r].sid # NoSid
          /\ End(r)
          /\ UNCHANGED history
       \/ req[r].pc = "add" /\ Goto(r, "undo") /\ UNCHANGED history
       \/ /\ req[r].pc = "undo"
          /\ Goto(r, "undoRef")
          /\ revived' = revived \cup {req[r].next}
          /\ UNCHANGED <<late, missed>>
       \/ /\ req[r].pc = "gatherEach"
          /\ \E s \in req[r].ids :
                req' = [req EXCEPT ![r].ids = @ \ {s}, ![r].hit = @ \cup {s}]
          /\ UNCHANGED history
       \/ /\ req[r].pc = "save"
          /\ IF req[r].kind = "leave" THEN Goto(r, "list") ELSE End(r)
          /\ UNCHANGED history
       \/ /\ \/ req[r].pc = "list"
             \/ req[r].pc = "match" /\ req[r].ids \cup req[r].hit # {}
          /\ End(r)
          /\ missed' = TRUE
          /\ UNCHANGED <<revived, late>>
    /\ UNCHANGED <<redis, sql, ops>>

-----------------------------------------------------------------------------
Serve(r) ==
    \/ SavePre(r) \/ DropOld(r) \/ ReadTeam(r) \/ SaveNew(r) \/ AddSessionID(r)
    \/ Undo(r) \/ DropRef(r)
    \/ CheckOwned(r) \/ Gather(r) \/ GatherEach(r) \/ Gathered(r)
    \/ RemoveSessionIDs(r) \/ RemoveUserSessionIDRefs(r) \/ ExpireCookie(r)
    \/ SetUserActiveTeam(r) \/ Save(r) \/ LeaveTeam(r)
    \/ ListIndexed(r) \/ MatchIndexed(r) \/ RemoveMatching(r)
    \/ TeamAccess(r) \/ ClearRevoked(r) \/ EndStream(r)

NewRequest(r) ==
    \/ \E s \in Cookies :
          \/ \E bound, twoFA \in BOOLEAN : Login(r, s, bound, twoFA)
          \/ Verify(r, s) \/ Logout(r, s)
          \/ \E v \in issued : SessionRevoke(r, s, v)
          \/ \E all \in BOOLEAN : ListSessions(r, s, all)
          \/ \E t \in Teams : SetActiveTeam(r, s, t) \/ Leave(r, s, t)
          \/ \E kind \in {"team", "me", "stream"} : TeamRequest(r, s, kind)
    \/ \E t \in Teams : RemoveMember(r, t)

Next ==
    \/ \E r \in Reqs : NewRequest(r) \/ Serve(r) \/ RedisError(r) \/ CloseStream(r)
    \/ \E t \in Teams : AddMember(t)
    \/ \E s \in Sids : ExpireKey(s)

\* The user is signed in once, in every team, and has chosen one.
Init ==
    /\ \E s \in {CHOOSE x \in Sids : TRUE}, t \in Teams :
          /\ session = [x \in Sids |-> IF x = s
                        THEN [auth |-> TRUE, pre |-> FALSE, tid |-> t] ELSE Gone]
          /\ index = {s} /\ issued = {s}
          /\ active = t
    /\ member = Teams
    /\ req = [r \in Reqs |-> Idle]
    /\ revived = {} /\ late = {} /\ missed = FALSE
    /\ ops = 0 /\ faults = 0

Spec == Init /\ [][Next]_vars

\* Every request is served to its end, and a stream's ticker ticks.
Fairness == \A r \in Reqs : WF_vars(Serve(r))

FairSpec == Spec /\ Fairness

-----------------------------------------------------------------------------
(* Properties *)

Pcs == {"idle", "savePre", "dropOld", "readTeam", "saveNew", "add", "undo",
        "undoRef", "dropRef", "owned", "gather", "gatherEach", "gathered",
        "del", "srem", "expire", "setActive", "save", "leave", "list", "match",
        "role", "clear", "stream"}

TypeOK ==
    /\ session \in [Sids -> Values \cup {Gone}]
    /\ index \subseteq issued /\ issued \subseteq Sids
    /\ member \subseteq Teams /\ active \in member \cup {0}
    /\ \A r \in Reqs :
          /\ req[r].pc \in Pcs
          /\ req[r].sid \in Sids \cup {NoSid} /\ req[r].next \in Sids \cup {NoSid}
          /\ req[r].copy \in Values /\ req[r].team \in Teams \cup {0}
          /\ req[r].ids \cup req[r].refs \cup req[r].hit \cup req[r].found
                \subseteq Sids
    /\ revived \subseteq issued /\ late \subseteq issued /\ missed \in BOOLEAN
    /\ ops \in 0 .. MaxOps /\ faults \in 0 .. MaxFaults

\* A signed-in session is in the user's index, where it can be seen and
\* revoked, unless its sign-in has not finished, a request that had loaded it
\* before it was deleted wrote it back, or its listing and the command that
\* takes it back both failed.
LiveSessionsAreListed ==
    \A s \in Sids : Auth(s) =>
        \/ s \in index
        \/ s \in revived
        \/ \E r \in Reqs : req[r].next = s /\ req[r].pc \in {"add", "undo"}

\* Sign-in gives out a new id: an id a client already has becomes signed in
\* only through a request that had itself loaded it signed in.
SignInRotates ==
    [][\A s \in issued : Auth(s)' /\ ~Auth(s) =>
          \E r \in Reqs : req[r].sid = s /\ req[r].copy.auth]_vars

\* When nothing is under way, a session still has a team the user has lost
\* only if the revocation failed, or the session got the team, or was listed,
\* after the loss, or was written back after it had been deleted.
TeamSessionsRevoked ==
    (\A r \in Reqs : req[r].pc \in {"idle", "stream"}) =>
        \A s \in Sids : Auth(s) /\ session[s].tid \notin member \cup {0} =>
            missed \/ s \in late \cup revived

\* A stream whose user has left the team, or whose session is gone, ends.
StreamsFollowAccess ==
    \A r \in Reqs :
        (req[r].pc = "stream"
            /\ (req[r].team \notin member \/ session[req[r].sid] = Gone))
        ~> (req[r].pc # "stream"
            \/ (req[r].team \in member /\ session[req[r].sid] # Gone))

=============================================================================
