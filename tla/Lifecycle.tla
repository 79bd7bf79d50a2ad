----------------------------- MODULE Lifecycle -----------------------------
(***************************************************************************)
(* The connection lifecycle of the hub's outbound servers                  *)
(* (internal/connect/conn), with the API handlers that drive it: which     *)
(* monitoring worker runs for which server, with which settings, while     *)
(* requests add, edit, reinstall and delete servers, database reads fail   *)
(* and are retried, workers end by themselves, and the hub restarts.       *)
(*                                                                         *)
(* A step is what one goroutine does between two accesses to shared state: *)
(* one SQL statement or transaction, one critical section of mu or         *)
(* retryMu, the acquisition of a lifecycle lock, or the end of a wait.     *)
(* Only types 0 (SSH) and 1 (active agent) have outbound workers; the      *)
(* connections of passive agents are inbound and not part of this module.  *)
(***************************************************************************)
EXTENDS Naturals, Sequences, FiniteSets

CONSTANTS Servers,    \* server ids
          Active,     \* the servers of type 1; the others are of type 0
          Stripes,    \* indices of lifecycleLocks
          StripeOf,   \* server id -> stripe, the hash of lifecycleLock
          Callers,    \* handler goroutines and connect.Init's goroutines
          Retries,    \* identities of retry goroutines alive at a time
          Workers,    \* identities of worker goroutines alive at a time
          None,       \* no goroutine, no server
          MaxOps,     \* bound: API requests in one behaviour
          MaxFaults,  \* bound: database reads that fail
          MaxCrashes  \* bound: restarts of the hub

ASSUME LifecycleAssumption ==
    /\ Active \subseteq Servers
    /\ StripeOf \in [Servers -> Stripes]
    /\ Callers \cap Retries = {}
    /\ None \notin Callers \cup Retries \cup Workers \cup Servers
    /\ MaxOps \in Nat /\ MaxFaults \in Nat /\ MaxCrashes \in Nat

VARIABLES
    \* PostgreSQL
    exists,   \* server -> "new" (never inserted), "live" or "gone"
    allow,    \* server -> servers.allow_monitor
    cfg,      \* server -> version of its connection settings; for an active
              \*   server, the number of its agent installation
    pinned,   \* active server -> installation whose key is pinned, 0 for none
    \* package conn
    lock,     \* stripe -> the goroutine that holds it
    pool,     \* connectPool: server -> worker
    retryOf,  \* reconcileRetries: server -> retry
    rcancel,  \* retry -> its context is canceled
    \* worker goroutines
    wst,      \* what the worker does next; "off" when there is none
    wsrv,     \* its server
    wset,     \* the settings it was started with: allowMonitor, the version
              \*   of its connection settings, its copy of public_key
    wcancel,  \* its context is canceled
    \* goroutines in StopServer or reconcileServer
    pc,       \* what the goroutine does next
    srv,      \* the server it works on
    goal,     \* what follows stopOutboundServer
    got,      \* settings it has read: [allow, cfg, key]
    victim,   \* the worker it waits for
    err,      \* reconcileServer is to return an error
    \* API handlers
    todo,     \* the calls the handler still has to make, the current one first
    toBoot,   \* servers connect.Init has listed and not yet reconciled
    \* bounds and history
    ops, faults, crashes,
    purged,   \* servers whose delete handler has removed their statuses
    excused   \* server -> why it may lack an up-to-date worker: it "ended" by
              \*   itself, a failing "edit" or a failing edit of a "key"

db       == <<exists, allow, cfg, pinned>>
workers  == <<wst, wsrv, wset, wcancel>>
retries  == <<retryOf, rcancel>>
locals   == <<goal, got, victim, err>>
bounds   == <<ops, faults, crashes>>
vars     == <<db, lock, pool, retries, workers, pc, srv, locals, todo,
              toBoot, bounds, purged, excused>>

Threads == Callers \cup Retries
NoSettings == [allow |-> FALSE, cfg |-> 0, key |-> 0]
LockOf(s) == StripeOf[s]
Live(w) == wst[w] \notin {"off", "done"}

(* A call of a handler; db.EditServer's carries the requested              *)
(* allow_monitor and edit's lastAllowMonitor.                              *)
Call(name) == [call |-> name, want |-> FALSE, last |-> FALSE]
EditCall(want, last) == [call |-> "edit", want |-> want, last |-> last]

(* Where a handler goes on: the first step of its next call.               *)
Entry(calls) == IF calls = <<>> THEN "idle"
                ELSE IF Head(calls).call \in {"stop", "reconcile"} THEN "lock"
                ELSE Head(calls).call

(* connect.Init's query.                                                   *)
ListedAtBoot == {s \in Servers : exists[s] = "live" /\ (allow[s] \/ s \in Active)}

Init ==
    /\ exists \in [Servers -> {"new", "live"}]
    /\ allow \in [Servers -> BOOLEAN]
    /\ \A s \in Servers : exists[s] = "new" => ~allow[s]
    /\ cfg = [s \in Servers |-> 1]
    /\ pinned = [s \in Servers |-> 0]
    /\ lock = [i \in Stripes |-> None]
    /\ pool = [s \in Servers |-> None]
    /\ retryOf = [s \in Servers |-> None]
    /\ rcancel = [r \in Retries |-> FALSE]
    /\ wst = [w \in Workers |-> "off"]
    /\ wsrv = [w \in Workers |-> None]
    /\ wset = [w \in Workers |-> NoSettings]
    /\ wcancel = [w \in Workers |-> FALSE]
    /\ pc = [t \in Threads |-> IF t \in Callers THEN "idle" ELSE "off"]
    /\ srv = [t \in Threads |-> None]
    /\ goal = [t \in Threads |-> "return"]
    /\ got = [t \in Threads |-> NoSettings]
    /\ victim = [t \in Threads |-> None]
    /\ err = [t \in Threads |-> FALSE]
    /\ todo = [c \in Callers |-> <<>>]
    /\ toBoot = ListedAtBoot
    /\ ops = 0 /\ faults = 0 /\ crashes = 0
    /\ purged = {}
    /\ excused = [s \in Servers |-> {}]

-----------------------------------------------------------------------------
(* The API handlers.  A handler is the list of calls it still has to make. *)

(* Caller c takes up a request for server s that makes the given calls.    *)
Serve(c, s, calls) ==
    /\ pc[c] = "idle"
    /\ ops < MaxOps
    /\ ops' = ops + 1
    /\ srv' = [srv EXCEPT ![c] = s]
    /\ todo' = [todo EXCEPT ![c] = calls]
    /\ pc' = [pc EXCEPT ![c] = Entry(calls)]
    /\ UNCHANGED <<lock, pool, retries, workers, locals, toBoot, faults, crashes,
                   purged, excused>>

(* The caller's current call is done; the remaining ones are calls.        *)
GoOn(c, calls) ==
    /\ todo' = [todo EXCEPT ![c] = calls]
    /\ pc' = [pc EXCEPT ![c] = Entry(calls)]
    /\ srv' = [srv EXCEPT ![c] = IF calls = <<>> THEN None ELSE @]

(* add: the committed transaction; whether or not the stale statuses can   *)
(* be cleared, the new server is reconciled.                               *)
Add(c, s, monitor) ==
    /\ exists[s] = "new"
    /\ exists' = [exists EXCEPT ![s] = "live"]
    /\ allow' = [allow EXCEPT ![s] = monitor]
    /\ Serve(c, s, <<Call("reconcile")>>)
    /\ UNCHANGED <<cfg, pinned>>

(* edit: reads the row, then stops the server first if monitoring is to be *)
(* off.                                                                    *)
Edit(c, s, monitor) ==
    /\ exists[s] = "live"
    /\ Serve(c, s, (IF monitor THEN <<>> ELSE <<Call("stop")>>)
                   \o <<EditCall(monitor, allow[s]), Call("reconcile")>>)
    /\ UNCHANGED db

(* Variant for mutation: del stops the server only before the delete.      *)
DeleteStopsOnce(c, s) ==
    /\ exists[s] = "live"
    /\ Serve(c, s, <<Call("stop"), Call("delete"), Call("purge")>>)
    /\ UNCHANGED db

(* del: finds the server, stops it, deletes the row, stops it again and    *)
(* removes its statuses.                                                   *)
Delete(c, s) ==
    /\ exists[s] = "live"
    /\ Serve(c, s, <<Call("stop"), Call("delete"), Call("stop"), Call("purge")>>)
    /\ UNCHANGED db

(* reinstall: commits a new, unpaired agent row, then stops and restarts.  *)
Reinstall(c, s) ==
    /\ exists[s] = "live"
    /\ s \in Active
    /\ cfg' = [cfg EXCEPT ![s] = @ + 1]
    /\ pinned' = [pinned EXCEPT ![s] = 0]
    /\ Serve(c, s, <<Call("stop"), Call("reconcile")>>)
    /\ UNCHANGED <<exists, allow>>

(* The edit of an SSH key that server s uses: its goroutine lists the      *)
(* monitored servers of the key and reconciles them.                       *)
EditKey(c, s) ==
    /\ exists[s] = "live"
    /\ s \notin Active
    /\ cfg' = [cfg EXCEPT ![s] = @ + 1]
    /\ Serve(c, s, <<Call("list")>>)
    /\ UNCHANGED <<exists, allow, pinned>>

(* Variant for mutation: a key edit restarts no worker.                    *)
ListKeyServersOnly(c) ==
    /\ pc[c] = "list"
    /\ GoOn(c, <<>>)
    /\ UNCHANGED <<db, lock, pool, retries, workers, locals, toBoot, bounds, purged, excused>>

ListKeyServers(c) ==
    /\ pc[c] = "list"
    /\ \/ /\ faults < MaxFaults
          /\ faults' = faults + 1
          /\ excused' = [excused EXCEPT ![srv[c]] = @ \cup {"key"}]
          /\ GoOn(c, <<>>)
       \/ /\ GoOn(c, IF exists[srv[c]] = "live" /\ allow[srv[c]]
                     THEN <<Call("reconcile")>> ELSE <<>>)
          /\ UNCHANGED <<faults, excused>>
    /\ UNCHANGED <<db, lock, pool, retries, workers, locals, toBoot, ops, crashes,
                   purged>>

(* db.EditServer commits.  Without a row, the update of an SSH server is   *)
(* an error and that of an agent server changes nothing.                   *)
EditServer(c) ==
    LET s == srv[c] IN
    /\ pc[c] = "edit"
    /\ exists[s] = "live" \/ s \in Active
    /\ IF exists[s] = "live"
       THEN /\ allow' = [allow EXCEPT ![s] = Head(todo[c]).want]
            /\ cfg' = IF s \in Active THEN cfg ELSE [cfg EXCEPT ![s] = @ + 1]
       ELSE UNCHANGED <<allow, cfg>>
    /\ GoOn(c, Tail(todo[c]))
    /\ UNCHANGED <<exists, pinned, lock, pool, retries, workers, locals, toBoot,
                   bounds, purged, excused>>

(* db.EditServer fails (a category of another team, a host key changed     *)
(* meanwhile, a database error): the server is reconciled again if the     *)
(* handler had stopped it and the row it read at its start was monitored.  *)
EditServerFails(c) ==
    LET edit == Head(todo[c]) IN
    /\ pc[c] = "edit"
    /\ GoOn(c, IF ~edit.want /\ edit.last THEN <<Call("reconcile")>> ELSE <<>>)
    /\ excused' = [excused EXCEPT ![srv[c]] =
                       IF ~edit.want /\ ~edit.last THEN @ \cup {"edit"} ELSE @]
    /\ UNCHANGED <<db, lock, pool, retries, workers, locals, toBoot, bounds, purged>>

(* db.DeleteServer, and the reconciliation when it fails.                  *)
DeleteServer(c) ==
    /\ pc[c] = "delete"
    /\ \/ /\ exists' = [exists EXCEPT ![srv[c]] = "gone"]
          /\ GoOn(c, Tail(todo[c]))
       \/ /\ GoOn(c, <<Call("reconcile")>>)
          /\ UNCHANGED exists
    /\ UNCHANGED <<allow, cfg, pinned, lock, pool, retries, workers, locals, toBoot,
                   bounds, purged, excused>>

RemoveServerStatus(c) ==
    /\ pc[c] = "purge"
    /\ purged' = purged \cup {srv[c]}
    /\ GoOn(c, Tail(todo[c]))
    /\ UNCHANGED <<db, lock, pool, retries, workers, locals, toBoot, bounds, excused>>

(* One of connect.Init's goroutines, at most five at a time.               *)
Boot(c, s) ==
    /\ pc[c] = "idle"
    /\ s \in toBoot
    /\ toBoot' = toBoot \ {s}
    /\ srv' = [srv EXCEPT ![c] = s]
    /\ todo' = [todo EXCEPT ![c] = <<Call("reconcile")>>]
    /\ pc' = [pc EXCEPT ![c] = "lock"]
    /\ UNCHANGED <<db, lock, pool, retries, workers, locals, bounds, purged, excused>>

-----------------------------------------------------------------------------
(* StopServer and ReconcileServer.                                         *)

(* cancelReconcileRetry.                                                   *)
cancelReconcileRetry(s) ==
    /\ rcancel' = IF retryOf[s] = None THEN rcancel ELSE [rcancel EXCEPT ![retryOf[s]] = TRUE]
    /\ retryOf' = [retryOf EXCEPT ![s] = None]

(* Variant for mutation: the lifecycle lock is not awaited.                *)
EnterLifecycleUnlocked(c) ==
    /\ pc[c] = "lock"
    /\ c \in Callers
    /\ cancelReconcileRetry(srv[c])
    /\ pc' = [pc EXCEPT ![c] = IF Head(todo[c]).call = "stop" THEN "take" ELSE "read"]
    /\ UNCHANGED <<db, lock, pool, workers, srv, locals, todo, toBoot, bounds, purged,
                   excused>>

(* The lock is taken, the pending retry canceled.                          *)
EnterLifecycle(c) ==
    LET s == srv[c] IN
    /\ pc[c] = "lock"
    /\ c \in Callers
    /\ lock[LockOf(s)] = None
    /\ lock' = [lock EXCEPT ![LockOf(s)] = c]
    /\ cancelReconcileRetry(s)
    /\ pc' = [pc EXCEPT ![c] = IF Head(todo[c]).call = "stop" THEN "take" ELSE "read"]
    /\ UNCHANGED <<db, pool, workers, srv, locals, todo, toBoot,
                   bounds, purged, excused>>

(* Variant for mutation: the retry does not look whether it is current.    *)
EnterRetryUnchecked(r) ==
    /\ pc[r] = "lock"
    /\ r \in Retries
    /\ lock[LockOf(srv[r])] = None
    /\ lock' = [lock EXCEPT ![LockOf(srv[r])] = r]
    /\ pc' = [pc EXCEPT ![r] = "read"]
    /\ UNCHANGED <<db, pool, retries, workers, srv, locals, todo, toBoot, bounds, purged,
                   excused>>

(* startReconcileRetry's goroutine, its timer has fired and it has the     *)
(* lock: it gives up if it was canceled or replaced.                       *)
EnterRetry(r) ==
    LET s == srv[r] IN
    /\ pc[r] = "lock"
    /\ r \in Retries
    /\ lock[LockOf(s)] = None
    /\ IF rcancel[r] \/ retryOf[s] # r
       THEN /\ pc' = [pc EXCEPT ![r] = "off"]
            /\ srv' = [srv EXCEPT ![r] = None]
            /\ rcancel' = [rcancel EXCEPT ![r] = FALSE]
            /\ UNCHANGED lock
       ELSE /\ lock' = [lock EXCEPT ![LockOf(s)] = r]
            /\ pc' = [pc EXCEPT ![r] = "read"]
            /\ UNCHANGED <<srv, rcancel>>
    /\ UNCHANGED <<db, pool, retryOf, workers, locals, todo, toBoot,
                   bounds, purged, excused>>

(* The retry's select: the timer, or its cancellation.                     *)
RetryTimer(r) ==
    /\ pc[r] = "timer"
    /\ \/ /\ pc' = [pc EXCEPT ![r] = "lock"]
          /\ UNCHANGED <<srv, rcancel>>
       \/ /\ rcancel[r]
          /\ pc' = [pc EXCEPT ![r] = "off"]
          /\ srv' = [srv EXCEPT ![r] = None]
          /\ rcancel' = [rcancel EXCEPT ![r] = FALSE]
    /\ UNCHANGED <<db, lock, pool, retryOf, workers, locals, todo, toBoot,
                   bounds, purged, excused>>

(* A database read of t may fail; a caller's failure needs a free retry.   *)
ReadMayFail(t) ==
    /\ faults < MaxFaults
    /\ t \in Callers => \E r \in Retries : pc[r] = "off"

(* reconcileServer's query of the server row.                              *)
ReadServer(t) ==
    LET s == srv[t] IN
    /\ pc[t] = "read"
    /\ \/ /\ ReadMayFail(t)
          /\ faults' = faults + 1
          /\ err' = [err EXCEPT ![t] = TRUE]
          /\ pc' = [pc EXCEPT ![t] = "take"]
          /\ UNCHANGED <<goal, got, excused>>
       \/ /\ got' = [got EXCEPT ![t].allow = allow[s] /\ exists[s] = "live"]
          /\ goal' = [goal EXCEPT ![t] = IF exists[s] = "live" /\ allow[s] THEN "load" ELSE "return"]
          /\ pc' = [pc EXCEPT ![t] = IF exists[s] = "live" /\ ~allow[s] /\ s \in Active
                                     THEN "readKey" ELSE "take"]
          /\ excused' = [excused EXCEPT ![s] = {}]
          /\ UNCHANGED <<faults, err>>
    /\ UNCHANGED <<db, lock, pool, retries, workers, srv, victim, todo, toBoot,
                   ops, crashes, purged>>

(* An unmonitored active server still runs while its agent is not paired.  *)
ReadPublicKey(t) ==
    LET s == srv[t] IN
    /\ pc[t] = "readKey"
    /\ pc' = [pc EXCEPT ![t] = "take"]
    /\ \/ /\ ReadMayFail(t)
          /\ faults' = faults + 1
          /\ err' = [err EXCEPT ![t] = TRUE]
          /\ UNCHANGED goal
       \/ /\ goal' = [goal EXCEPT ![t] = IF exists[s] = "live" /\ pinned[s] = 0
                                         THEN "load" ELSE "return"]
          /\ UNCHANGED <<faults, err>>
    /\ UNCHANGED <<db, lock, pool, retries, workers, srv, got, victim, todo,
                   toBoot, ops, crashes, purged, excused>>

(* Variant for mutation: a mere stop has no way out.                       *)
AfterStopNoReturn(t) == goal[t]

(* What follows stopOutboundServer.                                        *)
AfterStop(t) == IF goal[t] = "return" THEN "finish" ELSE goal[t]

(* Variant for mutation: the entry is canceled, its goroutine not awaited. *)
TakeEntryNoWait(t) ==
    LET w == pool[srv[t]] IN
    /\ pc[t] = "take"
    /\ pool' = [pool EXCEPT ![srv[t]] = None]
    /\ wcancel' = IF w = None THEN wcancel ELSE [wcancel EXCEPT ![w] = TRUE]
    /\ pc' = [pc EXCEPT ![t] = AfterStop(t)]
    /\ UNCHANGED <<db, lock, retries, wst, wsrv, wset, srv, locals, todo, toBoot, bounds,
                   purged, excused>>

(* stopOutboundServer: take the entry out of the pool and cancel it ...    *)
TakeEntry(t) ==
    LET s == srv[t]
        w == pool[s]
    IN  /\ pc[t] = "take"
        /\ IF w = None
           THEN /\ pc' = [pc EXCEPT ![t] = AfterStop(t)]
                /\ UNCHANGED <<pool, victim, wcancel>>
           ELSE /\ pool' = [pool EXCEPT ![s] = None]
                /\ wcancel' = [wcancel EXCEPT ![w] = TRUE]
                /\ victim' = [victim EXCEPT ![t] = w]
                /\ pc' = [pc EXCEPT ![t] = "wait"]
        /\ UNCHANGED <<db, lock, retries, wst, wsrv, wset, srv, goal,
                       got, err, todo, toBoot, bounds, purged, excused>>

(* ... and wait until its goroutine has closed done.                       *)
AwaitDone(t) ==
    /\ pc[t] = "wait"
    /\ wst[victim[t]] = "done"
    /\ wst' = [wst EXCEPT ![victim[t]] = "off"]
    /\ wsrv' = [wsrv EXCEPT ![victim[t]] = None]
    /\ wset' = [wset EXCEPT ![victim[t]] = NoSettings]
    /\ wcancel' = [wcancel EXCEPT ![victim[t]] = FALSE]
    /\ victim' = [victim EXCEPT ![t] = None]
    /\ pc' = [pc EXCEPT ![t] = AfterStop(t)]
    /\ UNCHANGED <<db, lock, pool, retries, srv, goal, got, err, todo, toBoot, bounds, purged, excused>>

(* startServer's query of the connection settings; no row is no error.     *)
LoadSettings(t) ==
    LET s == srv[t] IN
    /\ pc[t] = "load"
    /\ \/ /\ ReadMayFail(t)
          /\ faults' = faults + 1
          /\ err' = [err EXCEPT ![t] = TRUE]
          /\ pc' = [pc EXCEPT ![t] = "finish"]
          /\ UNCHANGED <<goal, got>>
       \/ /\ exists[s] # "live"
          /\ pc' = [pc EXCEPT ![t] = "finish"]
          /\ UNCHANGED <<faults, err, goal, got>>
       \/ /\ exists[s] = "live"
          /\ got' = [got EXCEPT ![t].cfg = cfg[s], ![t].key = pinned[s]]
          /\ goal' = [goal EXCEPT ![t] = "register"]
          /\ pc' = [pc EXCEPT ![t] = "take"]
          /\ UNCHANGED <<faults, err>>
    /\ UNCHANGED <<db, lock, pool, retries, workers, srv, victim, todo, toBoot,
                   ops, crashes, purged, excused>>

(* startServer registers an entry and starts its goroutine.                *)
Register(t) ==
    /\ pc[t] = "register"
    /\ \E w \in Workers :
          /\ wst[w] = "off"
          /\ pool' = [pool EXCEPT ![srv[t]] = w]
          /\ wst' = [wst EXCEPT ![w] = "delay"]
          /\ wsrv' = [wsrv EXCEPT ![w] = srv[t]]
          /\ wset' = [wset EXCEPT ![w] = got[t]]
    /\ pc' = [pc EXCEPT ![t] = "finish"]
    /\ excused' = [excused EXCEPT ![srv[t]] = @ \ {"ended", "edit"}]
    /\ UNCHANGED <<db, lock, retries, wcancel, srv, locals, todo, toBoot, bounds, purged>>

(* The lock is released and the handler goes on; an error, possible only   *)
(* in ReconcileServer, every handler's last call, leaves a retry behind.   *)
LeaveLifecycle(c) ==
    LET s == srv[c] IN
    /\ pc[c] = "finish"
    /\ c \in Callers
    /\ \/ /\ ~err[c]
          /\ GoOn(c, Tail(todo[c]))
          /\ UNCHANGED retryOf
       \/ /\ err[c]
          /\ \E r \in Retries :
                /\ pc[r] = "off"
                /\ retryOf' = [retryOf EXCEPT ![s] = r]
                /\ srv' = [srv EXCEPT ![r] = s, ![c] = None]
                /\ pc' = [pc EXCEPT ![r] = "timer", ![c] = "idle"]
          /\ todo' = [todo EXCEPT ![c] = <<>>]
    /\ lock' = [lock EXCEPT ![LockOf(s)] = None]
    /\ err' = [err EXCEPT ![c] = FALSE]
    /\ goal' = [goal EXCEPT ![c] = "return"]
    /\ got' = [got EXCEPT ![c] = NoSettings]
    /\ UNCHANGED <<db, pool, rcancel, workers, victim, toBoot, bounds, purged,
                   excused>>

(* The retry's round is over: done, or another delay.                      *)
LeaveRetry(r) ==
    LET s == srv[r] IN
    /\ pc[r] = "finish"
    /\ r \in Retries
    /\ \/ /\ ~err[r]
          /\ retryOf' = IF retryOf[s] = r THEN [retryOf EXCEPT ![s] = None] ELSE retryOf
          /\ pc' = [pc EXCEPT ![r] = "off"]
          /\ srv' = [srv EXCEPT ![r] = None]
       \/ /\ err[r]
          /\ pc' = [pc EXCEPT ![r] = "timer"]
          /\ UNCHANGED <<retryOf, srv>>
    /\ lock' = [lock EXCEPT ![LockOf(s)] = None]
    /\ err' = [err EXCEPT ![r] = FALSE]
    /\ goal' = [goal EXCEPT ![r] = "return"]
    /\ got' = [got EXCEPT ![r] = NoSettings]
    /\ UNCHANGED <<db, pool, rcancel, workers, victim, todo, toBoot,
                   bounds, purged, excused>>

-----------------------------------------------------------------------------
(* The worker goroutines.                                                  *)

WorkerKeeps == <<exists, allow, cfg, lock, retries, wcancel, pc, srv, locals, todo,
                 toBoot, bounds, purged>>

(* The select on the retry delay.                                          *)
WorkerDelay(w) ==
    /\ wst[w] = "delay"
    /\ \/ wst' = [wst EXCEPT ![w] = "dial"]
       \/ wcancel[w] /\ wst' = [wst EXCEPT ![w] = "exit"]
    /\ UNCHANGED <<WorkerKeeps, pinned, pool, wsrv, wset, excused>>

(* The first contact with an active agent: pinActiveAgentPublicKey, whose  *)
(* update is keyed by the server and looks at no context.  The agent that  *)
(* answers is the one installed with the settings the worker holds.        *)
PinActiveAgent(w) ==
    LET s == wsrv[w] IN
    /\ wst[w] = "dial"
    /\ s \in Active
    /\ wset[w].key = 0
    /\ exists[s] = "live"
    /\ pinned[s] \in {0, wset[w].cfg}
    /\ pinned' = [pinned EXCEPT ![s] = wset[w].cfg]
    /\ wst' = [wst EXCEPT ![w] = "paired"]
    /\ UNCHANGED <<WorkerKeeps, pool, wsrv, wset, excused>>

(* The agent's key is not the pinned one: the worker ends for good.        *)
IdentityMismatch(w) ==
    LET s == wsrv[w] IN
    /\ wst[w] = "dial"
    /\ s \in Active
    /\ IF wset[w].key = 0 THEN exists[s] = "live" /\ pinned[s] \notin {0, wset[w].cfg}
                          ELSE wset[w].key # wset[w].cfg
    /\ wst' = [wst EXCEPT ![w] = "exit"]
    /\ UNCHANGED <<WorkerKeeps, pinned, pool, wsrv, wset, excused>>

(* The connection is established: an unmonitored active server is done     *)
(* once its agent is paired, any other worker collects statuses.  (The     *)
(* fallback to the legacy handshake of version 1, which collects without a *)
(* pinned key, is left out: the worker's life is the same.)                *)
WorkerConnects(w) ==
    /\ \/ wst[w] = "paired"
       \/ wst[w] = "dial" /\ (wsrv[w] \in Active => wset[w].key = wset[w].cfg)
    /\ wst' = [wst EXCEPT ![w] = IF wset[w].allow THEN "online" ELSE "exit"]
    /\ UNCHANGED <<WorkerKeeps, pinned, pool, wsrv, wset, excused>>

(* An SSH worker meets an untrusted host key or a system it does not know. *)
WorkerGivesUp(w) ==
    /\ wst[w] = "dial"
    /\ wsrv[w] \notin Active
    /\ wst' = [wst EXCEPT ![w] = "exit"]
    /\ UNCHANGED <<WorkerKeeps, pinned, pool, wsrv, wset, excused>>

(* The attempt or the connection fails, or ends because it was canceled.   *)
WorkerDisconnects(w) ==
    /\ wst[w] \in {"dial", "paired", "online"}
    /\ wst' = [wst EXCEPT ![w] = IF wcancel[w] THEN "exit"
                                 ELSE IF wsrv[w] \in Active THEN "reload" ELSE "delay"]
    /\ UNCHANGED <<WorkerKeeps, pinned, pool, wsrv, wset, excused>>

(* The loop reloads the agent's identity; without it, it keeps the old one.*)
WorkerReloads(w) ==
    LET s == wsrv[w] IN
    /\ wst[w] = "reload"
    /\ wst' = [wst EXCEPT ![w] = "delay"]
    /\ \/ UNCHANGED wset
       \/ exists[s] = "live" /\ wset' = [wset EXCEPT ![w].key = pinned[s]]
    /\ UNCHANGED <<WorkerKeeps, pinned, pool, wsrv, excused>>

(* Variant for mutation: done is closed only by a worker still in the pool.*)
finishPooledServer(w) ==
    /\ wst[w] = "exit"
    /\ pool[wsrv[w]] = w
    /\ pool' = [pool EXCEPT ![wsrv[w]] = None]
    /\ wst' = [wst EXCEPT ![w] = "off"]
    /\ wsrv' = [wsrv EXCEPT ![w] = None]
    /\ wset' = [wset EXCEPT ![w] = NoSettings]
    /\ excused' = [excused EXCEPT ![wsrv[w]] = @ \cup {"ended"}]
    /\ UNCHANGED <<WorkerKeeps, pinned>>

(* finishOutboundServer: leave the pool if still in it, close done.  A     *)
(* worker that is out of the pool is awaited by whoever took it out.       *)
finishOutboundServer(w) ==
    LET s == wsrv[w] IN
    /\ wst[w] = "exit"
    /\ IF pool[s] = w
       THEN /\ pool' = [pool EXCEPT ![s] = None]
            /\ wst' = [wst EXCEPT ![w] = "off"]
            /\ wsrv' = [wsrv EXCEPT ![w] = None]
            /\ wset' = [wset EXCEPT ![w] = NoSettings]
            /\ excused' = [excused EXCEPT ![s] = @ \cup {"ended"}]
       ELSE /\ wst' = [wst EXCEPT ![w] = "done"]
            /\ UNCHANGED <<pool, wsrv, wset, excused>>
    /\ UNCHANGED <<WorkerKeeps, pinned>>

-----------------------------------------------------------------------------
(* The hub stops at any instant and starts again: only the database stays. *)
Restart ==
    /\ crashes < MaxCrashes
    /\ crashes' = crashes + 1
    /\ lock' = [i \in Stripes |-> None]
    /\ pool' = [s \in Servers |-> None]
    /\ retryOf' = [s \in Servers |-> None]
    /\ rcancel' = [r \in Retries |-> FALSE]
    /\ wst' = [w \in Workers |-> "off"]
    /\ wsrv' = [w \in Workers |-> None]
    /\ wset' = [w \in Workers |-> NoSettings]
    /\ wcancel' = [w \in Workers |-> FALSE]
    /\ pc' = [t \in Threads |-> IF t \in Callers THEN "idle" ELSE "off"]
    /\ srv' = [t \in Threads |-> None]
    /\ goal' = [t \in Threads |-> "return"]
    /\ got' = [t \in Threads |-> NoSettings]
    /\ victim' = [t \in Threads |-> None]
    /\ err' = [t \in Threads |-> FALSE]
    /\ todo' = [c \in Callers |-> <<>>]
    /\ toBoot' = ListedAtBoot
    /\ excused' = [s \in Servers |-> {}]
    /\ UNCHANGED <<db, ops, faults, purged>>

Request(c) ==
    \E s \in Servers :
        \/ \E monitor \in BOOLEAN : Add(c, s, monitor) \/ Edit(c, s, monitor)
        \/ Delete(c, s) \/ Reinstall(c, s) \/ EditKey(c, s)

BootStep(c) == \E s \in Servers : Boot(c, s)

HandlerStep(c) ==
    \/ ListKeyServers(c) \/ EditServer(c) \/ EditServerFails(c)
    \/ DeleteServer(c) \/ RemoveServerStatus(c)

EnterStep(t) == EnterLifecycle(t) \/ EnterRetry(t)

LifecycleStep(t) ==
    \/ RetryTimer(t) \/ ReadServer(t) \/ ReadPublicKey(t) \/ TakeEntry(t)
    \/ AwaitDone(t) \/ LoadSettings(t) \/ Register(t) \/ LeaveLifecycle(t) \/ LeaveRetry(t)

WorkerStep(w) ==
    \/ WorkerDelay(w) \/ PinActiveAgent(w) \/ IdentityMismatch(w) \/ WorkerConnects(w)
    \/ WorkerGivesUp(w) \/ WorkerDisconnects(w) \/ WorkerReloads(w) \/ finishOutboundServer(w)

Next ==
    \/ \E c \in Callers : Request(c) \/ BootStep(c) \/ HandlerStep(c)
    \/ \E t \in Threads : EnterStep(t) \/ LifecycleStep(t)
    \/ \E w \in Workers : WorkerStep(w)
    \/ Restart

Spec == Init /\ [][Next]_vars
(* sync.Mutex is starvation-free, so a goroutine that asks for a lock      *)
(* again and again free gets it; goroutines run; timers fire; a canceled   *)
(* worker returns, because every wait of its connection ends with its      *)
(* context or a deadline.  Nothing makes an online worker go offline, a    *)
(* request arrive or the hub restart.                                      *)
Fairness ==
    /\ \A c \in Callers : WF_vars(BootStep(c)) /\ WF_vars(HandlerStep(c))
    /\ \A t \in Threads : SF_vars(EnterStep(t)) /\ WF_vars(LifecycleStep(t))
    /\ \A w \in Workers : WF_vars(WorkerStep(w) /\ (wcancel[w] \/ wst[w] # "online"))

FairSpec == Spec /\ Fairness

-----------------------------------------------------------------------------
(* Properties.                                                             *)

DatabaseType ==
    /\ exists \in [Servers -> {"new", "live", "gone"}]
    /\ allow \in [Servers -> BOOLEAN]
    /\ cfg \in [Servers -> Nat]
    /\ pinned \in [Servers -> Nat]

PoolType ==
    /\ lock \in [Stripes -> Threads \cup {None}]
    /\ pool \in [Servers -> Workers \cup {None}]
    /\ retryOf \in [Servers -> Retries \cup {None}]
    /\ rcancel \in [Retries -> BOOLEAN]

WorkerType ==
    /\ wst \in [Workers -> {"off", "delay", "dial", "paired", "online", "reload", "exit", "done"}]
    /\ wsrv \in [Workers -> Servers \cup {None}]
    /\ wset \in [Workers -> [allow : BOOLEAN, cfg : Nat, key : Nat]]
    /\ wcancel \in [Workers -> BOOLEAN]

ThreadType ==
    /\ pc \in [Threads -> {"idle", "off", "timer", "lock", "read", "readKey", "take", "wait",
                           "load", "register", "finish", "edit", "delete", "purge", "list"}]
    /\ srv \in [Threads -> Servers \cup {None}]
    /\ goal \in [Threads -> {"return", "load", "register"}]
    /\ got \in [Threads -> [allow : BOOLEAN, cfg : Nat, key : Nat]]
    /\ victim \in [Threads -> Workers \cup {None}]
    /\ err \in [Threads -> BOOLEAN]

HandlerType ==
    /\ todo \in [Callers -> Seq([call : {"stop", "reconcile", "edit", "delete", "purge", "list"},
                                 want : BOOLEAN, last : BOOLEAN])]
    /\ toBoot \subseteq Servers
    /\ ops \in Nat /\ faults \in Nat /\ crashes \in Nat
    /\ purged \subseteq Servers
    /\ excused \in [Servers -> SUBSET {"ended", "edit", "key"}]

(* Every variable holds a value of its kind.                               *)
TypeOK == DatabaseType /\ PoolType /\ WorkerType /\ ThreadType /\ HandlerType

(* "replace duplicate monitoring connections": two workers never run for   *)
(* one server at the same time, whatever requests, retries and boot        *)
(* goroutines reconcile it concurrently.                                   *)
OneWorkerPerServer ==
    \A v, w \in Workers : Live(v) /\ Live(w) /\ wsrv[v] = wsrv[w] => v = w

(* "wait for old connections to stop on edit/delete/reinstall": when no    *)
(* goroutine is inside the lifecycle of a server, a worker that is out of  *)
(* the pool is gone, so StopServer never returns ahead of the worker.      *)
StopWaitsForWorker ==
    \A w \in Workers :
        Live(w) /\ lock[LockOf(wsrv[w])] = None => pool[wsrv[w]] = w

(* A retry that was canceled, or replaced by a newer one, never touches    *)
(* the server: whatever it does under the lock, it is the registered one.  *)
StaleRetryNeverActs ==
    \A r \in Retries :
        pc[r] \notin {"off", "timer", "lock"} => retryOf[srv[r]] = r /\ ~rcancel[r]

(* Once del has removed the statuses of a deleted server, no worker that   *)
(* could write new ones runs, and none ever starts again: not from a       *)
(* reconciliation that had read the row before the delete, nor from a      *)
(* retry, nor from a concurrent edit or reinstall.                         *)
DeletedStaysDown ==
    \A s \in purged : \A w \in Workers : Live(w) => wsrv[w] # s

(* No goroutine has server s in hand and no retry of it is registered.     *)
Quiescent(s) ==
    /\ \A c \in Callers : srv[c] # s
    /\ retryOf[s] = None
    /\ s \notin toBoot

(* A server that should have a worker.                                     *)
Monitored(s) ==
    exists[s] = "live" /\ (allow[s] \/ (s \in Active /\ pinned[s] = 0))

(* When the dust has settled, the pool agrees with the database: a worker  *)
(* in it belongs to a server that may have one and runs with the committed *)
(* settings, and a server that should have one has one.  Excused is only a *)
(* server whose worker ended by itself and a server that a failing request *)
(* left behind (an edit that restores nothing, a key edit that could not   *)
(* list its servers).                                                      *)
Settled ==
    \A s \in Servers : Quiescent(s) =>
        /\ pool[s] # None =>
              /\ exists[s] = "live"
              /\ allow[s] \/ s \in Active
              /\ wset[pool[s]].allow = allow[s]
              /\ wset[pool[s]].cfg = cfg[s] \/ "key" \in excused[s]
        /\ Monitored(s) /\ excused[s] \subseteq {"key"} => pool[s] # None

(* After finitely many requests, faults and restarts every server becomes  *)
(* quiescent for good, and then the pool agrees with the database: each    *)
(* request returns, because nobody waits for a lock or a worker for ever,  *)
(* each retry succeeds or is canceled, and each server listed at boot is   *)
(* reconciled.                                                             *)
Converges == <>[](Settled /\ \A s \in Servers : Quiescent(s))

(* "Unpaired Active Agent servers pair in the background": an active       *)
(* server without a pinned identity has a pairing worker.                  *)
PairsInBackground ==
    \A s \in Active :
        Quiescent(s) /\ exists[s] = "live" /\ pinned[s] = 0 => pool[s] # None

(* "the server must be reinstalled to re-pair": after a reinstall, the     *)
(* pinned identity is none or that of the agent installed by it, never     *)
(* the replaced agent's.                                                   *)
ReinstallRepairs ==
    \A s \in Active : Quiescent(s) => pinned[s] \in {0, cfg[s]}
=============================================================================
