--------------------------- MODULE OAuthProviders ---------------------------
(***************************************************************************)
(* Sign-in with an external identity provider: the provider's row in the   *)
(* database (db/oauth.go), the copy the hub works with (internal/oauth),   *)
(* the authorization states it issued (utils/store/auth_session.go), the   *)
(* administrators' handlers that change a provider, and the two requests   *)
(* that end an authorization: oauthCallback signs a linked account in,     *)
(* oauthLink links an account to the user who is signed in.                *)
(*                                                                         *)
(* One provider; ids are never reused, so providers do not interact.  Its  *)
(* endpoints, client and subject field are one value, the namespace: two   *)
(* accounts are the same only when namespace and subject are.              *)
(***************************************************************************)
EXTENDS Integers, Sequences

CONSTANTS
    Admins,         \* concurrent requests of administrators
    Requests,       \* concurrent oauthCallback and oauthLink requests
    Users,          \* each with a browser session of its own
    Subjects,       \* accounts at the provider
    Namespaces,     \* identity namespaces a provider can be given
    MaxRevision,    \* bound: config_revision
    MaxStates       \* bound: authorization states issued

VARIABLES
    row,        \* the auth_provider row
    identity,   \* the auth_identity rows of the provider
    memory,     \* configs, deletedRevisions and the issued states
    admin,      \* Admins -> what is left to do after the commit
    session,    \* Users -> the authorization saved in the browser's session
    request,    \* Requests -> the progress of a request
    done        \* history: the authorizations that ended in a sign-in or a link

oauthVars == <<row, identity, memory, admin, session, request, done>>

None == [tag |-> "none"]

\* A ProviderConfig, as BuildProvider and the committed row make it.
Config(r) == [tag |-> "config", ns |-> r.ns, version |-> r.version, rev |-> r.rev]

IdleAdmin == [step |-> "idle"]
IdleRequest == [step |-> "idle"]

Active == {i \in identity : ~i.quarantined}

-----------------------------------------------------------------------------
(* internal/oauth: the providers in memory *)

\* Variant for mutation: the revision of a removed provider is not remembered.
InstallableAfterRemoval(m, c) == m.config # None => m.config.rev < c.rev

\* installProviderLocked, for a configuration that may be out of date.
Installable(m, c) == m.deleted < c.rev /\ (m.config # None => m.config.rev < c.rev)

\* InstallProvider's section under the lock; a newer revision than the
\* deleted one lifts the deletion.
InstallProvider(m, c) ==
    [m EXCEPT !.deleted = IF @ < c.rev THEN 0 ELSE @,
              !.config = IF Installable(m, c) THEN c ELSE @]

\* RemoveProvider's section under the lock.
RemoveProvider(m, rev) ==
    [m EXCEPT !.deleted = IF @ < rev THEN rev ELSE @,
              !.config = IF @ # None /\ @.rev <= rev THEN None ELSE @]

\* RevokeAuthSessionStates, after the lock was given back.
RevokeAuthSessionStates(m, rev) ==
    [m EXCEPT !.states = {s \in @ : s.rev > rev}]

\* oauth.Init at startup, before any request is served: a provider that
\* cannot be built is skipped.
Boot(r, built) ==
    LET live == r.st = "live"
        starts == r.on /\ built
    IN  [config |-> IF live /\ starts THEN Config(r) ELSE None,
         deleted |-> IF live /\ ~starts THEN r.rev ELSE 0,
         states |-> {}]

-----------------------------------------------------------------------------
(* Administrators: the row is committed first, memory follows *)

NoRow == [st |-> "none", ns |-> CHOOSE n \in Namespaces : TRUE, version |-> 0,
          rev |-> 0, on |-> FALSE]

\* What the handler does once r is committed.
Follow(a, r) ==
    admin' = [admin EXCEPT ![a] = IF r.st = "live" /\ r.on
                                  THEN [step |-> "install", config |-> Config(r)]
                                  ELSE [step |-> "remove", rev |-> r.rev]]

\* add: an enabled provider that cannot be built is refused beforehand.
Add(a, ns, on) ==
    /\ admin[a] = IdleAdmin /\ row.st = "none"
    /\ row' = [st |-> "live", ns |-> ns, version |-> 1, rev |-> 1, on |-> on]
    /\ Follow(a, row')
    /\ UNCHANGED <<identity, memory, session, request, done>>

\* update: UpdateOAuthProvider under the row's lock.  The namespace cannot
\* change while accounts are linked; quarantined ones go with the old one.
Update(a, ns, on) ==
    /\ admin[a] = IdleAdmin /\ row.st = "live" /\ row.rev < MaxRevision
    /\ ns # row.ns => Active = {}
    /\ row' = [row EXCEPT !.ns = ns, !.on = on, !.rev = @ + 1,
                          !.version = IF ns # row.ns THEN @ + 1 ELSE @]
    /\ identity' = IF ns # row.ns THEN Active ELSE identity
    /\ Follow(a, row')
    /\ UNCHANGED <<memory, session, request, done>>

\* del: DeleteOAuthProvider.
Delete(a) ==
    /\ admin[a] = IdleAdmin /\ row.st = "live"
    /\ row' = [row EXCEPT !.st = "gone"]
    /\ identity' = {}
    /\ Follow(a, row')
    /\ UNCHANGED <<memory, session, request, done>>

\* The section under the lock, and the revocation after it.
Apply(a) ==
    /\ \/ /\ admin[a].step = "install"
          /\ LET c == admin[a].config
             IN  /\ memory' = InstallProvider(memory, c)
                 /\ admin' = [admin EXCEPT ![a] =
                        IF Installable(memory, c) /\ c.rev > 1
                        THEN [step |-> "revoke", rev |-> c.rev - 1] ELSE IdleAdmin]
       \/ /\ admin[a].step = "remove"
          /\ memory' = RemoveProvider(memory, admin[a].rev)
          /\ admin' = [admin EXCEPT ![a] = [step |-> "revoke", rev |-> admin[a].rev]]
       \/ /\ admin[a].step = "revoke"
          /\ memory' = RevokeAuthSessionStates(memory, admin[a].rev)
          /\ admin' = [admin EXCEPT ![a] = IdleAdmin]
    /\ UNCHANGED <<row, identity, session, request, done>>

-----------------------------------------------------------------------------
(* Authorizations *)

\* oauthLogin: BeginAuthorization issues a state under the read lock and the
\* session keeps it; when the session cannot be saved the state is deleted
\* again (no change).
Begin(u) ==
    /\ memory.config # None /\ done.issued < MaxStates
    /\ LET t == done.issued + 1
       IN  /\ memory' = [memory EXCEPT !.states =
                  @ \cup {[id |-> t, rev |-> memory.config.rev, fresh |-> TRUE]}]
           /\ session' = [session EXCEPT ![u] =
                  [tag |-> "state", id |-> t, rev |-> memory.config.rev,
                   version |-> memory.config.version]]
           /\ done' = [done EXCEPT !.issued = t]
    /\ UNCHANGED <<row, identity, admin, request>>

\* Ten minutes pass for a state; cleanupExpiredData drops those.
Expire(s) ==
    /\ s.fresh
    /\ memory' = [memory EXCEPT !.states = (@ \ {s}) \cup {[s EXCEPT !.fresh = FALSE]}]
    /\ UNCHANGED <<row, identity, admin, session, request, done>>
Cleanup ==
    /\ \E s \in memory.states : ~s.fresh
    /\ memory' = [memory EXCEPT !.states = {s \in @ : s.fresh}]
    /\ UNCHANGED <<row, identity, admin, session, request, done>>

Goto(r, rec) == request' = [request EXCEPT ![r] = rec]
Refused(r) == Goto(r, IdleRequest)

\* A request reads the configuration; oauthLink also refuses a user with a
\* linked account.
Arrive(r, u, link) ==
    /\ request[r] = IdleRequest
    /\ memory.config # None
    /\ link => ~\E i \in Active : i.user = u
    /\ Goto(r, [step |-> "session", user |-> u, link |-> link, config |-> memory.config])
    /\ UNCHANGED <<row, identity, memory, admin, session, done>>

\* ConsumeOAuthState reads the session; requests of one session may overlap.
ReadSession(r) ==
    /\ request[r].step = "session"
    /\ LET saved == session[request[r].user]
       IN  IF saved = None THEN Refused(r)
           ELSE Goto(r, [step |-> "consume", user |-> request[r].user,
                         link |-> request[r].link, config |-> request[r].config,
                         state |-> saved])
    /\ UNCHANGED <<row, identity, memory, admin, session, done>>

\* The session is saved without the state, and ConsumeAuthSessionState takes
\* it out of the store: a state serves once, in time, for its revision.
ConsumeState(s) == memory' = [memory EXCEPT !.states = {x \in @ : x.id # s.id}]
Matches(s, c) == s.version = c.version /\ s.rev = c.rev
Consume(r) ==
    /\ request[r].step = "consume"
    /\ LET q == request[r]
           ok == \E x \in memory.states : x.id = q.state.id /\ x.rev = q.state.rev /\ x.fresh
       IN  /\ session' = [session EXCEPT ![q.user] = None]
           /\ ConsumeState(q.state)
           /\ IF ok /\ Matches(q.state, q.config)
              THEN Goto(r, [q EXCEPT !.step = "exchange"])
              ELSE Refused(r)
    /\ UNCHANGED <<row, identity, admin, done>>

\* Exchange and Identity: the provider of the configuration names a subject,
\* or refuses.
Exchange(r, s) ==
    /\ request[r].step = "exchange"
    /\ LET q == request[r]
       IN  Goto(r, [step |-> IF q.link THEN "bound" ELSE "lookup", user |-> q.user,
                    state |-> q.state, proved |-> [ns |-> q.config.ns, subject |-> s]])
    /\ UNCHANGED <<row, identity, memory, admin, session, done>>
ExchangeFails(r) ==
    /\ request[r].step = "exchange"
    /\ Refused(r)
    /\ UNCHANGED <<row, identity, memory, admin, session, done>>

\* Variant for mutation: the provider is only checked to be enabled.
CurrentIfEnabled(s) == row.st = "live" /\ row.on

\* The check both transactions make under the row's lock.
Current(s) == row.st = "live" /\ row.on /\ s.version = row.version /\ s.rev = row.rev

\* An authorization that ends in a sign-in as, or a link to, an account.
Complete(r, account) ==
    done' = [done EXCEPT !.ends = Append(@, [id |-> request[r].state.id,
                 proved |-> request[r].proved, account |-> account])]

\* GetAuthIdentityBySubject, in its transaction.
GetAuthIdentityBySubject(r) ==
    /\ request[r].step = "lookup"
    /\ LET q == request[r]
           found == {i \in Active : i.subject = q.proved.subject}
       IN  IF Current(q.state) /\ found # {}
           THEN \E i \in found : Complete(r, [ns |-> i.ns, subject |-> i.subject])
           ELSE UNCHANGED done
    /\ Refused(r)
    /\ UNCHANGED <<row, identity, memory, admin, session>>

\* GetBindByProviderAndSubject, outside the transaction of the insertion.
GetBindByProviderAndSubject(r) ==
    /\ request[r].step = "bound"
    /\ IF \E i \in Active : i.subject = request[r].proved.subject
       THEN Refused(r) ELSE Goto(r, [request[r] EXCEPT !.step = "add"])
    /\ UNCHANGED <<row, identity, memory, admin, session, done>>

\* AddAuthIdentity; the unique indexes of auth_identity refuse a second
\* account of a user and a second user of an account.
AddAuthIdentity(r) ==
    /\ request[r].step = "add"
    /\ LET q == request[r]
           taken == \/ \E i \in identity : i.subject = q.proved.subject
                    \/ \E i \in Active : i.user = q.user
       IN  IF Current(q.state) /\ ~taken
           THEN /\ identity' = identity \cup
                       {[user |-> q.user, subject |-> q.proved.subject,
                         ns |-> q.proved.ns, quarantined |-> FALSE]}
                /\ Complete(r, q.proved)
           ELSE UNCHANGED <<identity, done>>
    /\ Refused(r)
    /\ UNCHANGED <<row, memory, admin, session>>

\* oauthRevoke.
Unlink(u) ==
    /\ \E i \in identity : i.user = u
    /\ identity' = {i \in identity : i.user # u}
    /\ UNCHANGED <<row, memory, admin, session, request, done>>

-----------------------------------------------------------------------------
\* The hub restarts: what is in memory and every running request are lost,
\* rows and sessions stay.
Restart ==
    /\ \E built \in BOOLEAN : memory' = Boot(row, built)
    /\ admin' = [a \in Admins |-> IdleAdmin]
    /\ request' = [r \in Requests |-> IdleRequest]
    /\ UNCHANGED <<row, identity, session, done>>

Rows == {NoRow} \cup
    {[st |-> "live", ns |-> n, version |-> 1, rev |-> 1, on |-> TRUE] : n \in Namespaces}

\* A new installation, or one whose migration quarantined an account.
Init ==
    /\ row \in Rows
    /\ identity \in {{}} \cup
           {{[user |-> u, subject |-> s, ns |-> row.ns, quarantined |-> TRUE]} :
                u \in Users, s \in {t \in Subjects : row.st = "live"}}
    /\ \E built \in BOOLEAN : memory = Boot(row, built)
    /\ admin = [a \in Admins |-> IdleAdmin]
    /\ session = [u \in Users |-> None]
    /\ request = [r \in Requests |-> IdleRequest]
    /\ done = [issued |-> 0, ends |-> << >>]

Administer(a) ==
    \/ \E ns \in Namespaces, on \in BOOLEAN : Add(a, ns, on) \/ Update(a, ns, on)
    \/ Delete(a) \/ Apply(a)
Serve(r) ==
    \/ \E u \in Users, link \in BOOLEAN : Arrive(r, u, link)
    \/ \E s \in Subjects : Exchange(r, s)
    \/ ReadSession(r) \/ Consume(r) \/ ExchangeFails(r) \/ GetAuthIdentityBySubject(r)
    \/ GetBindByProviderAndSubject(r) \/ AddAuthIdentity(r)

Next ==
    \/ \E a \in Admins : Administer(a)
    \/ \E r \in Requests : Serve(r)
    \/ \E u \in Users : Begin(u) \/ Unlink(u)
    \/ \E s \in memory.states : Expire(s)
    \/ Cleanup \/ Restart

Spec == Init /\ [][Next]_oauthVars

-----------------------------------------------------------------------------
(* Properties *)

\* Every authorization that succeeds ends with the account it proved: whoever
\* signs in or links an account has shown, to the provider as it is
\* configured now, that the account is theirs, although the provider may have
\* been replaced by another while the browser was away; no state serves two
\* requests; linked accounts always belong to the provider's namespace.
AccountsAreProved ==
    /\ \A n \in DOMAIN done.ends :
           /\ done.ends[n].account = done.ends[n].proved
           /\ \A m \in DOMAIN done.ends : done.ends[m].id = done.ends[n].id => m = n
    /\ \A i \in Active : row.st = "live" /\ i.ns = row.ns

\* Once no administrator's handler is between its commit and the end of its
\* revocation, the hub works with the committed configuration, in whatever
\* order the handlers installed theirs, and holds no state that an older one
\* issued.  The one exception is a provider that could not be built at the
\* last start: the hub has none until the next change.
MemoryFollowsRow ==
    (\A a \in Admins : admin[a] = IdleAdmin) =>
        /\ \/ row.st = "live" /\ row.on /\ memory.config = Config(row)
           \/ memory.config = None /\ (row.st = "live" => memory.deleted = row.rev)
        /\ \A s \in memory.states : memory.config # None /\ s.rev = memory.config.rev
=============================================================================
