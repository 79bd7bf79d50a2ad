---------------------------- MODULE PassiveConn ----------------------------
(***************************************************************************)
(* The inbound side of one passive-agent server: agents enroll and connect *)
(* (internal/app/agent), each connection registers itself as the server's  *)
(* main connection and closes the one it replaces                          *)
(* (internal/app/agent/connection/main.go), and the handlers that disable, *)
(* delete or reinstall the server close it through the connection          *)
(* lifecycle (internal/connect/conn).                                      *)
(*                                                                         *)
(* Servers do not interact here but for the locks of Lifecycle, so one is  *)
(* enough.  An agent is named by the enrollment token it was installed     *)
(* with; a reinstall issues the next token.                                *)
(***************************************************************************)
EXTENDS Naturals, Sequences, FiniteSets

CONSTANTS Conns,       \* identities of websocket connections alive at a time
          Callers,     \* API handler goroutines
          None,        \* no connection, no handler
          MaxOps,      \* bound: API requests in one behaviour
          MaxFaults    \* bound: failing database reads

ASSUME PassiveAssumption ==
    /\ None \notin Conns
    /\ None \notin Callers
    /\ MaxOps \in Nat /\ MaxFaults \in Nat

VARIABLES
    \* PostgreSQL
    exists,    \* the servers row is there
    allow,     \* servers.allow_monitor
    token,     \* the number of the enrollment token in enroll_tokens
    agent,     \* the agents row: the token its agent enrolled with, 0 for none
    \* the registry
    main,      \* mainConnections[server]
    closed,    \* connection -> ManagedConn.closed; TRUE where there is none
    \* one goroutine per connection, in passiveWS
    kpc,       \* what it does next; "off" when there is no connection
    kagent,    \* the agent that the middleware authenticated
    old,       \* the connection it replaces
    \* API handlers, in the lifecycle of the server
    lock,      \* the handler that holds the lifecycle lock
    pc,
    victim,    \* the connection MainClose closes
    todo,      \* the calls the handler still has to make
    retry,     \* a failed reconciliation is to be repeated
    \* bounds and history
    ops, faults,
    purged     \* del has removed the server's statuses

db       == <<exists, allow, token, agent>>
registry == <<main, closed>>
conns    == <<kpc, kagent, old>>
handlers == <<lock, pc, victim, todo, retry>>
history  == <<ops, faults, purged>>
vars     == <<db, registry, conns, handlers, history>>

Enabled == exists /\ allow

Init ==
    /\ exists = TRUE
    /\ allow \in BOOLEAN
    /\ token = 1
    /\ agent \in {0, 1}
    /\ main = None
    /\ closed = [k \in Conns |-> TRUE]
    /\ kpc = [k \in Conns |-> "off"]
    /\ kagent = [k \in Conns |-> 0]
    /\ old = [k \in Conns |-> None]
    /\ lock = None
    /\ pc = [c \in Callers |-> "idle"]
    /\ victim = [c \in Callers |-> None]
    /\ todo = [c \in Callers |-> <<>>]
    /\ retry = FALSE
    /\ ops = 0 /\ faults = 0
    /\ purged = FALSE

-----------------------------------------------------------------------------
(* enroll: the transaction inserts the agent, whose primary key is the     *)
(* server, and revokes the token.  The token was valid when the request    *)
(* looked it up, outside the transaction: it is the server's current one   *)
(* or one that a reinstall has replaced since.                             *)
Enroll(t) ==
    /\ exists
    /\ agent = 0
    /\ agent' = t
    /\ UNCHANGED <<exists, allow, token, registry, conns, handlers, history>>

-----------------------------------------------------------------------------
(* A connection.                                                           *)

(* A connection that ended and that nobody is about to close.              *)
Forgotten(k) == /\ kpc[k] = "off"
                /\ \A j \in Conns : old[j] # k
                /\ \A c \in Callers : victim[c] # k

(* passiveAuth: the agents row of a monitored server answers for the uid.  *)
Authenticate(k) ==
    /\ Forgotten(k)
    /\ Enabled
    /\ agent # 0
    /\ kagent' = [kagent EXCEPT ![k] = agent]
    /\ kpc' = [kpc EXCEPT ![k] = "set"]
    /\ closed' = [closed EXCEPT ![k] = FALSE]
    /\ UNCHANGED <<db, main, old, handlers, history>>

(* Variant for mutation: the replaced connection is not closed.            *)
mainSetNoClose(k) ==
    /\ kpc[k] = "set"
    /\ main' = k
    /\ kpc' = [kpc EXCEPT ![k] = "check"]
    /\ UNCHANGED <<db, closed, kagent, old, handlers, history>>

(* mainSetManaged: swap the registered connection ...                      *)
mainSetManaged(k) ==
    /\ kpc[k] = "set"
    /\ main' = k
    /\ old' = [old EXCEPT ![k] = main]
    /\ kpc' = [kpc EXCEPT ![k] = IF main = None THEN "check" ELSE "closeOld"]
    /\ UNCHANGED <<db, closed, kagent, handlers, history>>

(* ... and close the old one outside the lock: ManagedConn.Close ...       *)
CloseOld(k) ==
    /\ kpc[k] = "closeOld"
    /\ closed' = [closed EXCEPT ![old[k]] = TRUE]
    /\ kpc' = [kpc EXCEPT ![k] = "awaitOld"]
    /\ UNCHANGED <<db, main, kagent, old, handlers, history>>

(* ... waits for the status being added under stateMu.                     *)
AwaitOld(k) ==
    /\ kpc[k] = "awaitOld"
    /\ kpc[old[k]] # "write"
    /\ old' = [old EXCEPT ![k] = None]
    /\ kpc' = [kpc EXCEPT ![k] = "check"]
    /\ UNCHANGED <<db, registry, kagent, handlers, history>>

(* Variant for mutation: the middleware's check is taken for good.         *)
CheckMonitoringTrusting(k) ==
    /\ kpc[k] = "check"
    /\ kpc' = [kpc EXCEPT ![k] = "read"]
    /\ UNCHANGED <<db, registry, kagent, old, handlers, history>>

(* passiveWS looks again whether the server is monitored.                  *)
CheckMonitoring(k) ==
    /\ kpc[k] = "check"
    /\ \/ /\ faults < MaxFaults
          /\ faults' = faults + 1
          /\ kpc' = [kpc EXCEPT ![k] = "remove"]
       \/ /\ kpc' = [kpc EXCEPT ![k] = IF Enabled THEN "read" ELSE "remove"]
          /\ UNCHANGED faults
    /\ UNCHANGED <<db, registry, kagent, old, handlers, ops, purged>>

(* A status frame arrives: WhileOpen adds it unless the connection is      *)
(* closed.                                                                 *)
WhileOpen(k) ==
    /\ kpc[k] = "read"
    /\ kpc' = [kpc EXCEPT ![k] = IF closed[k] THEN "remove" ELSE "write"]
    /\ UNCHANGED <<db, registry, kagent, old, handlers, history>>

StatusAdded(k) ==
    /\ kpc[k] = "write"
    /\ kpc' = [kpc EXCEPT ![k] = "read"]
    /\ UNCHANGED <<db, registry, kagent, old, handlers, history>>

(* ReadMessage fails: the hub closed the connection or the agent is gone.  *)
ReadFails(k) ==
    /\ kpc[k] = "read"
    /\ kpc' = [kpc EXCEPT ![k] = "remove"]
    /\ UNCHANGED <<db, registry, kagent, old, handlers, history>>

(* Variant for mutation: whichever connection is registered is removed.    *)
MainRemoveAny(k) ==
    /\ kpc[k] = "remove"
    /\ main' = None
    /\ kpc' = [kpc EXCEPT ![k] = "close"]
    /\ UNCHANGED <<db, closed, kagent, old, handlers, history>>

(* passiveWS's deferred MainRemove ...                                     *)
MainRemove(k) ==
    /\ kpc[k] = "remove"
    /\ main' = IF main = k THEN None ELSE main
    /\ kpc' = [kpc EXCEPT ![k] = "close"]
    /\ UNCHANGED <<db, closed, kagent, old, handlers, history>>

(* ... and Close, after which the handler returns.                         *)
CloseSelf(k) ==
    /\ kpc[k] = "close"
    /\ closed' = [closed EXCEPT ![k] = TRUE]
    /\ kagent' = [kagent EXCEPT ![k] = 0]
    /\ kpc' = [kpc EXCEPT ![k] = "off"]
    /\ UNCHANGED <<db, main, old, handlers, history>>

-----------------------------------------------------------------------------
(* The handlers and the lifecycle calls they make.                         *)

(* Variant for mutation: a lifecycle call forgets to ask for the lock.     *)
EntryUnlocked(calls) == IF calls = <<>> THEN "idle" ELSE Head(calls)

(* Where a handler goes on: the first step of its next call.               *)
Entry(calls) == IF calls = <<>> THEN "idle"
                ELSE IF Head(calls) \in {"stop", "reconcile"} THEN "lock" ELSE Head(calls)

Serve(c, calls) ==
    /\ pc[c] = "idle"
    /\ exists
    /\ ops < MaxOps
    /\ ops' = ops + 1
    /\ todo' = [todo EXCEPT ![c] = calls]
    /\ pc' = [pc EXCEPT ![c] = Entry(calls)]
    /\ UNCHANGED <<registry, conns, lock, victim, retry, faults, purged>>

GoOn(c, calls) ==
    /\ todo' = [todo EXCEPT ![c] = calls]
    /\ pc' = [pc EXCEPT ![c] = Entry(calls)]

(* edit with monitoring off, edit with monitoring on, del.  The first      *)
(* remembers whether the row it has read was monitored.                    *)
Disable(c) == /\ Serve(c, <<"stop", IF allow THEN "disable" ELSE "keepOff", "reconcile">>)
              /\ UNCHANGED db
Enable(c) == Serve(c, <<"enable", "reconcile">>) /\ UNCHANGED db
Delete(c) == Serve(c, <<"stop", "delete", "stop", "purge">>) /\ UNCHANGED db

(* reinstall: the transaction drops the agent and issues a new token.      *)
Reinstall(c) ==
    /\ Serve(c, <<"stop", "reconcile">>)
    /\ agent' = 0
    /\ token' = token + 1
    /\ UNCHANGED <<exists, allow>>

(* The committed change of edit or del, or its failure: del, and edit if   *)
(* it turns monitoring off, then reconcile; any other edit returns.        *)
Commit(c) ==
    /\ pc[c] \in {"disable", "keepOff", "enable", "delete"}
    /\ \/ /\ allow' = IF pc[c] = "delete" \/ ~exists THEN allow ELSE pc[c] = "enable"
          /\ exists' = (exists /\ pc[c] # "delete")
          /\ agent' = IF pc[c] = "delete" THEN 0 ELSE agent
          /\ GoOn(c, Tail(todo[c]))
       \/ /\ GoOn(c, IF pc[c] \in {"disable", "delete"} THEN <<"reconcile">> ELSE <<>>)
          /\ UNCHANGED <<allow, exists, agent>>
    /\ UNCHANGED <<token, registry, conns, lock, victim, retry, history>>

RemoveServerStatus(c) ==
    /\ pc[c] = "purge"
    /\ purged' = TRUE
    /\ GoOn(c, Tail(todo[c]))
    /\ UNCHANGED <<db, registry, conns, lock, victim, retry, ops, faults>>

(* StopServer and ReconcileServer take the lifecycle lock and cancel a     *)
(* pending retry.                                                          *)
EnterLifecycle(c) ==
    /\ pc[c] = "lock"
    /\ lock = None
    /\ lock' = c
    /\ retry' = FALSE
    /\ pc' = [pc EXCEPT ![c] = IF Head(todo[c]) = "stop" THEN "take" ELSE "query"]
    /\ UNCHANGED <<db, registry, conns, victim, todo, history>>

(* reconcileServer of a passive server: a monitored one is left alone, any *)
(* other and one whose row cannot be read is stopped.                      *)
reconcileServer(c) ==
    /\ pc[c] = "query"
    /\ \/ /\ faults < MaxFaults
          /\ faults' = faults + 1
          /\ retry' = TRUE
          /\ pc' = [pc EXCEPT ![c] = "take"]
       \/ /\ pc' = [pc EXCEPT ![c] = IF Enabled THEN "unlock" ELSE "take"]
          /\ UNCHANGED <<faults, retry>>
    /\ UNCHANGED <<db, registry, conns, lock, victim, todo, ops, purged>>

(* A caller without a request does the retry's work.                       *)
RetryReconcile(c) ==
    /\ pc[c] = "idle"
    /\ retry
    /\ lock = None
    /\ lock' = c
    /\ retry' = FALSE
    /\ todo' = [todo EXCEPT ![c] = <<"reconcile">>]
    /\ pc' = [pc EXCEPT ![c] = "query"]
    /\ UNCHANGED <<db, registry, conns, victim, history>>

(* MainClose, the inbound stopper: unregister the connection ...           *)
MainClose(c) ==
    /\ pc[c] = "take"
    /\ victim' = [victim EXCEPT ![c] = main]
    /\ main' = None
    /\ pc' = [pc EXCEPT ![c] = IF main = None THEN "unlock" ELSE "close"]
    /\ UNCHANGED <<db, closed, conns, lock, todo, retry, history>>

(* ... close it ...                                                        *)
CloseMain(c) ==
    /\ pc[c] = "close"
    /\ closed' = [closed EXCEPT ![victim[c]] = TRUE]
    /\ pc' = [pc EXCEPT ![c] = "await"]
    /\ UNCHANGED <<db, main, conns, lock, victim, todo, retry, history>>

(* Variant for mutation: Close does not wait for the status being added.   *)
AwaitMainNoWait(c) ==
    /\ pc[c] = "await"
    /\ victim' = [victim EXCEPT ![c] = None]
    /\ pc' = [pc EXCEPT ![c] = "unlock"]
    /\ UNCHANGED <<db, registry, conns, lock, todo, retry, history>>

(* ... and wait for the status being added, under stateMu.                 *)
AwaitMain(c) ==
    /\ pc[c] = "await"
    /\ kpc[victim[c]] # "write"
    /\ victim' = [victim EXCEPT ![c] = None]
    /\ pc' = [pc EXCEPT ![c] = "unlock"]
    /\ UNCHANGED <<db, registry, conns, lock, todo, retry, history>>

LeaveLifecycle(c) ==
    /\ pc[c] = "unlock"
    /\ lock' = None
    /\ GoOn(c, Tail(todo[c]))
    /\ UNCHANGED <<db, registry, conns, victim, retry, history>>

-----------------------------------------------------------------------------
ConnStep(k) ==
    \/ mainSetManaged(k) \/ CloseOld(k) \/ AwaitOld(k) \/ CheckMonitoring(k)
    \/ WhileOpen(k) \/ StatusAdded(k) \/ ReadFails(k) \/ MainRemove(k) \/ CloseSelf(k)

Request(c) == Disable(c) \/ Enable(c) \/ Delete(c) \/ Reinstall(c)

HandlerStep(c) ==
    \/ Commit(c) \/ RemoveServerStatus(c) \/ EnterLifecycle(c) \/ reconcileServer(c)
    \/ RetryReconcile(c) \/ MainClose(c) \/ CloseMain(c) \/ AwaitMain(c) \/ LeaveLifecycle(c)

Next ==
    \/ \E t \in 1..token : Enroll(t)
    \/ \E k \in Conns : Authenticate(k) \/ ConnStep(k)
    \/ \E c \in Callers : Request(c) \/ HandlerStep(c)

Spec == Init /\ [][Next]_vars

(* The goroutine of each connection runs, a closed connection makes        *)
(* ReadMessage fail, and the handlers do not all stand still while one of  *)
(* them can go on.  Nothing makes an agent connect, send a frame or go     *)
(* away, or a request arrive.                                              *)
Fairness ==
    /\ \A k \in Conns : WF_vars(ConnStep(k) /\ (closed[k] \/ kpc[k] # "read"))
    /\ WF_vars(\E c \in Callers : HandlerStep(c))

FairSpec == Spec /\ Fairness

-----------------------------------------------------------------------------
(* Properties.                                                             *)

(* Every variable holds a value of its kind.                               *)
TypeOK ==
    /\ exists \in BOOLEAN /\ allow \in BOOLEAN
    /\ token \in Nat /\ agent \in Nat
    /\ main \in Conns \cup {None}
    /\ closed \in [Conns -> BOOLEAN]
    /\ kpc \in [Conns -> {"off", "set", "closeOld", "awaitOld", "check", "read", "write",
                          "remove", "close"}]
    /\ kagent \in [Conns -> Nat]
    /\ old \in [Conns -> Conns \cup {None}]
    /\ lock \in Callers \cup {None}
    /\ pc \in [Callers -> {"idle", "lock", "take", "query", "close", "await", "unlock",
                           "disable", "keepOff", "enable", "delete", "purge"}]
    /\ victim \in [Callers -> Conns \cup {None}]
    /\ todo \in [Callers -> Seq({"stop", "reconcile", "disable", "keepOff", "enable",
                                 "delete", "purge"})]
    /\ retry \in BOOLEAN
    /\ ops \in Nat /\ faults \in Nat
    /\ purged \in BOOLEAN

(* A connection that may still add statuses: it is inside WhileOpen, where *)
(* closing it comes too late for the status in hand, or may yet enter it.  *)
Collects(k) == kpc[k] = "write" \/ (kpc[k] = "read" /\ ~closed[k])

(* k has been replaced, and its successor has not come back from closing   *)
(* it.                                                                     *)
Replaced(k) == \E j \in Conns : old[j] = k /\ kpc[j] \in {"closeOld", "awaitOld"}

(* Somebody has taken k out of the registry and has not come back from     *)
(* closing it.                                                             *)
BeingClosed(k) ==
    Replaced(k) \/ \E c \in Callers : victim[c] = k /\ pc[c] \in {"close", "await"}

(* "replace duplicate monitoring connections": a connection collects only  *)
(* while it is the registered one, or until the goroutine that took it out *)
(* of the registry returns from Close, which waits for the status that is  *)
(* just being added.  No race of connecting agents and stopping handlers   *)
(* leaves a connection that nobody can stop or wait for any more.          *)
NoUnmanagedConnection == \A k \in Conns : Collects(k) => main = k \/ BeingClosed(k)

(* No handler has the server in hand.                                      *)
Quiescent == lock = None /\ ~retry /\ \A c \in Callers : pc[c] = "idle"

(* "close agent connections when access is revoked": when the requests are *)
(* over, the registered connection of a server that is disabled or deleted *)
(* collects nothing, even if its agent was authenticated just before the   *)
(* change and registered just after the stop.                              *)
RevokedMeansClosed ==
    Quiescent /\ ~Enabled => \A k \in Conns : main = k => ~Collects(k)

(* Once the requests are over, every connection of a disabled or deleted   *)
(* server comes to an end unless monitoring is enabled again.              *)
RevokedConnectionsEnd ==
    (Quiescent /\ ~Enabled) ~> (Enabled \/ \A k \in Conns : kpc[k] = "off")

(* Once del has stopped the server and removed its statuses, no connection *)
(* adds one, not even the status it was adding when it was closed: del has *)
(* waited for that under stateMu.  The exception is a connection that      *)
(* another one has replaced: MainClose can not see it any more, so only    *)
(* its successor waits for it.                                             *)
DeletedCollectsNothing == purged => \A k \in Conns : Collects(k) => Replaced(k)

(* "wait for old connections to stop on edit/delete/reinstall": when a     *)
(* reinstall has returned, an agent that still collects was installed with *)
(* the new token.                                                          *)
ReinstallStopsOldAgent ==
    Quiescent => \A k \in Conns : main = k /\ Collects(k) => kagent[k] = token
=============================================================================
