----------------------------- MODULE TeamConfig -----------------------------
(***************************************************************************)
(* The configuration of teams and its export and import                    *)
(* (app/api/team/export_import.go) next to the handlers that edit it:      *)
(* categories, SSH keys and servers.  An export reads table after table    *)
(* without a transaction; an import checks its file, replaces everything   *)
(* the team has in one transaction, and only then stops the workers of the *)
(* servers it found and starts those of the servers it made.               *)
(*                                                                         *)
(* Ids are never reused.  A secret is encrypted for the id of its row and  *)
(* is readable only there (`seal` is that id, 0 if it is damaged).  A      *)
(* server remembers in `wants` the SSH key it was configured with.  The    *)
(* fields of a team, its alerts, its notifications and its public page go  *)
(* with the transaction and carry nothing the properties tell apart.       *)
(***************************************************************************)
EXTENDS Integers, FiniteSets, FiniteSetsExt

CONSTANTS
    Team,           \* the teams
    Import,         \* bound: importTeam requests, concurrent or not
    MaxId,          \* bound: rows ever made
    MaxEdits        \* bound: edits of categories, keys and servers

VARIABLES
    cats, keys, srv,    \* the rows of all teams
    lastId,             \* the last id given out
    worker,             \* servers with a running worker (conn)
    retry,              \* servers whose start failed and is tried again
                        \* (reconcileRetries)
    start, stop,        \* ReconcileServer and StopServer calls other handlers
                        \* still have to make
    export,             \* the progress of one export
    file,               \* the export file somebody has
    import,             \* Import -> the progress of a request
    edits,              \* edits made
    lost                \* history: keys somebody deleted, and servers an
                        \* import deleted that it had not listed

teamVars == <<cats, keys, srv, lastId, worker, retry, start, stop, export, file,
              import, edits, lost>>
rows == <<cats, keys, srv, lastId>>

Of(table, t) == {r \in table : r.team = t}
Ids(table) == {r.id : r \in table}

\* kind: 0 SSH, 1 active agent, 2 passive agent.  uid 0: no agent row.
Server(id, t, cat, kind, key, wants, uid) ==
    [id |-> id, team |-> t, cat |-> cat, kind |-> kind, key |-> key, wants |-> wants,
     uid |-> uid, seal |-> id, pinned |-> TRUE]

NoFile == [ok |-> FALSE, cats |-> {}, keys |-> {}, srv |-> {}]
Idle == [step |-> "idle"]
Done == [step |-> "done"]

\* startServer: what the start of a worker needs.  All servers allow
\* monitoring.  An SSH server has its row, an active agent may have none
\* (sql.ErrNoRows): nothing is started then, and nothing is wrong.
Connectable(s) == s.kind = 0 \/ (s.kind = 1 /\ s.uid # 0)

\* What it decrypts: the secret of the server and the key it refers to, if
\* that is still there (LEFT JOIN).
Readable(s) == s.seal = s.id /\ \A k \in keys : k.id = s.key => k.seal = k.id

\* Servers a worker can be started for, and servers whose start fails.
Monitored == Ids({s \in srv : Connectable(s) /\ Readable(s)})
Unstartable == Ids({s \in srv : Connectable(s) /\ ~Readable(s)})

\* Servers whose rows an open import has deleted.
Doomed == UNION {import[i].dropped : i \in {j \in Import : import[j].step = "cleared"}}

-----------------------------------------------------------------------------
(* Categories and keys *)

CreateCategory(t) ==
    /\ lastId < MaxId
    /\ cats' = cats \cup {[id |-> lastId + 1, team |-> t]}
    /\ lastId' = lastId + 1
    /\ UNCHANGED <<keys, srv, worker, retry, start, stop, export, file, import, lost>>

\* The oldest category takes the servers of the one that goes, and stays.
DeleteCategory(c) ==
    LET default == Min(Ids(Of(cats, c.team)))
        moved == {s \in srv : s.cat = c.id}
    IN  /\ c.id # default
        /\ Ids(moved) \cap Doomed = {}
        /\ srv' = (srv \ moved) \cup {[s EXCEPT !.cat = default] : s \in moved}
        /\ cats' = cats \ {c}
        /\ UNCHANGED <<keys, lastId, worker, retry, start, stop, export, file, import, lost>>

\* The foreign key to (team, category) refuses a category of another team.
SetServerCategory(s, c) ==
    /\ s.team = c.team /\ s.cat # c.id /\ s.id \notin Doomed
    /\ srv' = (srv \ {s}) \cup {[s EXCEPT !.cat = c.id]}
    /\ UNCHANGED <<cats, keys, lastId, worker, retry, start, stop, export, file, import, lost>>

AddKey(t) ==
    /\ lastId < MaxId
    /\ keys' = keys \cup {[id |-> lastId + 1, team |-> t, val |-> lastId + 1,
                           seal |-> lastId + 1]}
    /\ lastId' = lastId + 1
    /\ UNCHANGED <<cats, srv, worker, retry, start, stop, export, file, import, lost>>

\* No foreign key protects a key that servers use.
DeleteKey(k) ==
    /\ keys' = keys \ {k}
    /\ lost' = [lost EXCEPT !.keys = @ \cup {k.id}]
    /\ UNCHANGED <<cats, srv, lastId, worker, retry, start, stop, export, file, import>>

-----------------------------------------------------------------------------
(* Servers and their workers *)

\* add: the key was decrypted and tried out before the transaction;
\* ReconcileServer follows.
AddServer(t, c, kind, k) ==
    /\ lastId < MaxId
    /\ c.team = t
    /\ k.team = t /\ k.seal = k.id /\ (kind # 0 => k.id = 0)
    /\ LET id == lastId + 1
       IN  /\ srv' = srv \cup {Server(id, t, c.id, kind, k.id, k.val,
                                      IF kind = 1 THEN id ELSE 0)}
           /\ lastId' = id
           /\ start' = start \cup {id}
    /\ UNCHANGED <<cats, keys, worker, retry, stop, export, file, import, lost>>

\* stopServer under the lock, the retry cancelled.
Stopped(id) == worker' = worker \ {id} /\ retry' = retry \ {id}

\* reconcileServer under the lock, an earlier retry cancelled: a start that
\* fails leaves no worker and is tried again later; without a row, or without
\* the agent's, there is nothing to run or to retry.
Reconciled(id) ==
    /\ worker' = IF id \in Monitored THEN worker \cup {id} ELSE worker \ {id}
    /\ retry' = IF id \in Unstartable THEN retry \cup {id} ELSE retry \ {id}

\* del stops the worker, deletes the row and stops the worker again; another
\* handler may have started it in between.
DeleteServer(s) ==
    /\ s.id \notin Doomed
    /\ srv' = srv \ {s}
    /\ \/ UNCHANGED <<worker, retry>>
       \/ Stopped(s.id)
    /\ stop' = stop \cup {s.id}
    /\ UNCHANGED <<cats, keys, lastId, start, export, file, import, lost>>

\* ReconcileServer and StopServer, as the other handlers call them.
ReconcileServer(id) ==
    /\ id \in start
    /\ start' = start \ {id}
    /\ Reconciled(id)
    /\ UNCHANGED <<rows, stop, export, file, import, lost>>
StopServer(id) ==
    /\ id \in stop
    /\ stop' = stop \ {id}
    /\ Stopped(id)
    /\ UNCHANGED <<rows, start, export, file, import, lost>>

\* startReconcileRetry: the timer of a pending retry fires.
RetryReconcile(id) ==
    /\ id \in retry
    /\ Reconciled(id)
    /\ UNCHANGED <<rows, start, stop, export, file, import, lost>>

-----------------------------------------------------------------------------
(* buildTeamExport: one read after the other, no transaction *)

ExportCategories(t, skip) ==
    /\ export = Idle
    /\ export' = [step |-> "keys", team |-> t, skip |-> skip, bad |-> {},
                  out |-> [NoFile EXCEPT !.ok = TRUE, !.cats = Ids(Of(cats, t))]]
    /\ UNCHANGED <<rows, worker, retry, start, stop, file, import, lost>>

\* A damaged key is skipped, or ends the export.
exportKeys ==
    /\ export.step = "keys"
    /\ LET mine == Of(keys, export.team)
           bad == {k \in mine : k.seal # k.id}
       IN  export' = IF bad # {} /\ ~export.skip THEN Done
                     ELSE [export EXCEPT !.step = "servers", !.bad = Ids(bad),
                              !.out.keys = {[ref |-> k.id, val |-> k.val] : k \in mine \ bad}]
    /\ UNCHANGED <<rows, worker, retry, start, stop, file, import, lost>>

\* The list of servers, and later the connection of each: by then an SSH
\* server may be gone, which ends the export, and so may an agent's row.
ListServers ==
    /\ export.step = "servers"
    /\ export' = [export EXCEPT !.step = "connections", !.out.srv = Of(srv, export.team)]
    /\ UNCHANGED <<rows, worker, retry, start, stop, file, import, lost>>

\* exportServerConnection: what the file says of a server, whose row may have
\* gone since it was listed.
Found(s) == \E x \in srv : x.id = s.id
Damaged(s) == s.kind # 2 /\ Found(s) /\ s.seal # s.id
exportServerConnection(s) ==
    [cat |-> s.cat, kind |-> s.kind, key |-> s.key, wants |-> s.wants,
     uid |-> IF Found(s) THEN s.uid ELSE 0, pinned |-> s.pinned, ref |-> s.id]

\* exportServers: a server with a damaged secret or key is left out, or ends
\* the export.
exportServers ==
    /\ export.step = "connections"
    /\ LET listed == export.out.srv
           skipped == {s \in listed : Damaged(s) \/ (s.kind = 0 /\ s.key \in export.bad)}
           fails == \E s \in listed : \/ s.kind = 0 /\ ~Found(s)
                                      \/ Damaged(s) /\ ~export.skip
       IN  file' = IF fails THEN file
                   ELSE [export.out EXCEPT
                            !.srv = {exportServerConnection(s) : s \in listed \ skipped}]
    /\ export' = Done
    /\ UNCHANGED <<rows, worker, retry, start, stop, import, lost>>

-----------------------------------------------------------------------------
(* importTeam *)

Uids(S) == {s.uid : s \in S} \ {0}

\* SSH servers without a pinned host key.
inspectImportedSSHHostKeys(S) == {s \in S : s.kind = 0 /\ ~s.pinned}

\* Agents' uids must be different, and new to the other teams.
preflightImportedAgentUIDs(S, t) ==
    /\ \A s, r \in S : s # r /\ s.uid # 0 => s.uid # r.uid
    /\ Uids(S) \cap Uids({s \in srv : s.team # t}) = {}

\* The checks before the transaction; without a pinned host key the owner has
\* to trust the server.  A file that does not parse changes nothing.
preflight(i, t, trust) ==
    /\ import[i] = Idle /\ file.ok
    /\ inspectImportedSSHHostKeys(file.srv) # {} => trust
    /\ preflightImportedAgentUIDs(file.srv, t)
    /\ import' = [import EXCEPT ![i] = [step |-> "checked", team |-> t, data |-> file]]
    /\ UNCHANGED <<rows, worker, retry, start, stop, export, file, lost>>

\* The transaction lists the servers of the team first ...
ListOld(i) ==
    /\ import[i].step = "checked"
    /\ import' = [import EXCEPT ![i] =
           [step |-> "listed", team |-> import[i].team, data |-> import[i].data,
            old |-> Ids(Of(srv, import[i].team))]]
    /\ UNCHANGED <<rows, worker, retry, start, stop, export, file, lost>>

\* ... then takes the row of the team, which another import may hold, and
\* deletes the servers it finds now.
clearServers(i) ==
    /\ import[i].step = "listed"
    /\ \A j \in Import : ~(import[j].step = "cleared" /\ import[j].team = import[i].team)
    /\ import' = [import EXCEPT ![i] =
           [step |-> "cleared", team |-> import[i].team, data |-> import[i].data,
            old |-> import[i].old, dropped |-> Ids(Of(srv, import[i].team))]]
    /\ UNCHANGED <<rows, worker, retry, start, stop, export, file, lost>>

\* The n-th new id for the n-th reference, in any order.
NewIds(refs, base) == CHOOSE f \in [refs -> (base + 1) .. (base + Cardinality(refs))] :
                          \A a, b \in refs : a # b => f[a] # f[b]

\* A category is made when the file has none.
importKeys(data, base) == NewIds({k.ref : k \in data.keys}, base)
importCategories(data, base) == NewIds(IF data.cats = {} THEN {0} ELSE data.cats, base)

\* Variant for mutation: the key's old id is kept when the file has no key for
\* it.
ImportedServerKeepsKey(s, id, t, cmap, kmap) ==
    [Server(id, t, IF s.cat \in DOMAIN cmap THEN cmap[s.cat]
                   ELSE cmap[CHOOSE r \in DOMAIN cmap : TRUE],
            s.kind, IF s.key \in DOMAIN kmap THEN kmap[s.key] ELSE s.key, s.wants, s.uid)
     EXCEPT !.pinned = s.pinned]

\* A row of importServers with its connection: an unknown category becomes the
\* default one, an unknown key none.
ImportedServer(s, id, t, cmap, kmap) ==
    [Server(id, t, IF s.cat \in DOMAIN cmap THEN cmap[s.cat]
                   ELSE cmap[CHOOSE r \in DOMAIN cmap : TRUE],
            s.kind, IF s.key \in DOMAIN kmap THEN kmap[s.key] ELSE 0, s.wants, s.uid)
     EXCEPT !.pinned = s.pinned]

importServers(S, t, cmap, kmap, base) ==
    LET id == NewIds(S, base)
    IN  {ImportedServer(s, id[s], t, cmap, kmap) : s \in S}

\* clearTeamConfig: the rest of what a team has.
Cleared(table, t) == table \ Of(table, t)

\* The rest of the transaction and its commit.  It is rolled back when a
\* server was added since (its category cannot be deleted) and when a uid is
\* taken by now.
CommitImport(i) ==
    /\ import[i].step = "cleared"
    /\ LET m == import[i]
           t == m.team
           left == {s \in srv : s.id \notin m.dropped}
           kmap == importKeys(m.data, lastId)
           cmap == importCategories(m.data, lastId + Cardinality(m.data.keys))
           base == lastId + Cardinality(m.data.keys) + Cardinality(DOMAIN cmap)
           made == importServers(m.data.srv, t, cmap, kmap, base)
           refused == Of(left, t) # {} \/ Uids(m.data.srv) \cap Uids(left) # {}
       IN  /\ base + Cardinality(m.data.srv) <= MaxId
           /\ IF refused
              THEN /\ import' = [import EXCEPT ![i] = Done]
                   /\ UNCHANGED <<rows, lost>>
              ELSE /\ keys' = Cleared(keys, t) \cup
                         {[id |-> kmap[k.ref], team |-> t, val |-> k.val,
                           seal |-> kmap[k.ref]] : k \in m.data.keys}
                   /\ cats' = Cleared(cats, t) \cup
                         {[id |-> cmap[r], team |-> t] : r \in DOMAIN cmap}
                   /\ srv' = left \cup made
                   /\ lastId' = base + Cardinality(m.data.srv)
                   /\ import' = [import EXCEPT ![i] =
                         [step |-> "after", stop |-> m.old, start |-> Ids(made)]]
                   /\ lost' = [lost EXCEPT !.srv = @ \cup (m.dropped \ m.old)]
    /\ UNCHANGED <<worker, retry, start, stop, export, file>>

\* The transaction fails at any statement, or because the file's alerts,
\* notifications or public page are refused.
AbortImport(i) ==
    /\ import[i].step \in {"checked", "listed", "cleared"}
    /\ import' = [import EXCEPT ![i] = Done]
    /\ UNCHANGED <<rows, worker, retry, start, stop, export, file, lost>>

\* StopServer for the servers it had listed, then, even when the caches or
\* the stored statuses could not be refreshed, ReconcileServer for the new.
AfterImport(i) ==
    /\ import[i].step = "after"
    /\ LET m == import[i]
       IN  \/ \E id \in m.stop :
                  /\ Stopped(id)
                  /\ import' = [import EXCEPT ![i].stop = @ \ {id}]
           \/ \E id \in m.start :
                  /\ m.stop = {}
                  /\ Reconciled(id)
                  /\ import' = [import EXCEPT ![i].start = @ \ {id}]
           \/ /\ m.stop = {} /\ m.start = {}
              /\ import' = [import EXCEPT ![i] = Done]
              /\ UNCHANGED <<worker, retry>>
    /\ UNCHANGED <<rows, start, stop, export, file, lost>>

-----------------------------------------------------------------------------
\* A request that was running when the hub stopped is over.
Ended(r) == IF r = Idle THEN Idle ELSE Done

\* The hub restarts and reconciles every server (connect.Init).
Restart ==
    /\ worker' = Monitored /\ retry' = Unstartable
    /\ start' = {} /\ stop' = {}
    /\ export' = Ended(export)
    /\ import' = [i \in Import |-> Ended(import[i])]
    /\ lost' = [lost EXCEPT !.srv = {}]
    /\ UNCHANGED <<rows, file>>

\* A file nobody exported: no categories, a key that is missing, a server
\* without a pinned host key.
HandMade == [ok |-> TRUE, cats |-> {}, keys |-> {},
             srv |-> {[cat |-> 90, kind |-> 0, key |-> 91, wants |-> 91, uid |-> 0,
                       pinned |-> FALSE, ref |-> 92]}]

Init ==
    /\ cats = {[id |-> t, team |-> t] : t \in Team}
              \cup {[id |-> Cardinality(Team) + 3, team |-> 1]}
    /\ LET n == Cardinality(Team)
       IN  \E s1 \in {0, n + 1}, s2 \in {0, n + 2}, kind \in 0..2 :
               /\ s1 # 0 \/ s2 # 0
               /\ keys = {[id |-> n + 1, team |-> 1, val |-> n + 1, seal |-> s1]}
               /\ srv = {[Server(n + 2, 1, n + 3, kind, IF kind = 0 THEN n + 1 ELSE 0,
                                 IF kind = 0 THEN n + 1 ELSE 0,
                                 IF kind = 0 THEN 0 ELSE n + 2) EXCEPT !.seal = s2]}
               /\ lastId = n + 3
    /\ worker = Monitored /\ retry = Unstartable
    /\ start = {} /\ stop = {}
    /\ export = Idle
    /\ file \in {NoFile, HandMade}
    /\ import = [i \in Import |-> Idle]
    /\ edits = 0
    /\ lost = [keys |-> {}, srv |-> {}]

NoKey(t) == [id |-> 0, team |-> t, val |-> 0, seal |-> 0]

Edit ==
    \/ \E t \in Team : CreateCategory(t) \/ AddKey(t)
    \/ \E c \in cats : DeleteCategory(c)
    \/ \E s \in srv : DeleteServer(s) \/ \E c \in cats : SetServerCategory(s, c)
    \/ \E k \in keys : DeleteKey(k)
    \/ \E c \in cats, kind \in 0..2 : \E k \in Of(keys, c.team) \cup {NoKey(c.team)} :
           AddServer(c.team, c, kind, k)

Follow ==
    \/ \E id \in start : ReconcileServer(id)
    \/ \E id \in stop : StopServer(id)
    \/ \E id \in retry : RetryReconcile(id)

Export ==
    \/ \E t \in Team, skip \in BOOLEAN : ExportCategories(t, skip)
    \/ exportKeys \/ ListServers \/ exportServers

ImportStep(i) ==
    \/ \E t \in Team, trust \in BOOLEAN : preflight(i, t, trust)
    \/ ListOld(i) \/ clearServers(i) \/ CommitImport(i) \/ AbortImport(i)
    \/ AfterImport(i)

Next ==
    \/ Edit /\ edits < MaxEdits /\ edits' = edits + 1
    \/ (Follow \/ Export \/ Restart \/ \E i \in Import : ImportStep(i)) /\ UNCHANGED edits

Spec == Init /\ [][Next]_teamVars

-----------------------------------------------------------------------------
(* Properties *)

\* Every team keeps a category, and every server one of its own team.
CategoriesHold ==
    /\ \A t \in Team : Of(cats, t) # {}
    /\ \A s \in srv : \E c \in Of(cats, s.team) : c.id = s.cat

\* A server uses the SSH key it was configured with, a key of its team, or
\* none; only DeleteKey leaves it with a key that is gone.
KeysHold ==
    \A s \in srv :
        \/ s.key \in {0} \cup lost.keys
        \/ \E k \in Of(keys, s.team) : k.id = s.key /\ k.val = s.wants

\* What was readable when it was exported is readable after the import.
SecretsHold == \A r \in srv \cup keys : r.id > Cardinality(Team) + 2 => r.seal = r.id

\* Every server that has a connection has a worker or a pending retry, never
\* both; a worker runs only for a server that is there and whose secrets can
\* be read, and a retry is only pending for a server that is there; unless a
\* handler is about to see to it.
WorkersHold ==
    LET after == {i \in Import : import[i].step = "after"}
        starts == start \cup UNION {import[i].start : i \in after}
        stops == stop \cup lost.srv \cup UNION {import[i].stop : i \in after}
    IN  /\ Monitored \cup Unstartable \subseteq worker \cup retry \cup starts
        /\ worker \subseteq Monitored \cup stops
        /\ retry \subseteq Monitored \cup Unstartable \cup stops
        /\ worker \cap retry = {}

\* Whatever edits an export or an import overlaps with, whatever the file
\* holds and wherever the import stops, teams are whole: categories, keys,
\* secrets and workers belong to the servers that are there.  The one gap is
\* a server that is added between the import's listing and its deletion: its
\* row goes, and its worker stays.
TeamStaysWhole == CategoriesHold /\ KeysHold /\ SecretsHold /\ WorkersHold
=============================================================================
