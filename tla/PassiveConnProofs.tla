------------------------- MODULE PassiveConnProofs -------------------------
(***************************************************************************)
(* For any number of agents, connections and handlers: no race of          *)
(* connecting agents and stopping handlers leaves a connection that nobody *)
(* can stop, and none collects for a server that is disabled or deleted.   *)
(***************************************************************************)
EXTENDS PassiveConn, TLAPS

(* What a handler may still have to do: the tails of the handlers' calls.  *)
Calls == {<<>>, <<"reconcile">>, <<"stop", "reconcile">>, <<"enable", "reconcile">>,
          <<"disable", "reconcile">>, <<"stop", "disable", "reconcile">>,
          <<"keepOff", "reconcile">>, <<"stop", "keepOff", "reconcile">>,
          <<"purge">>, <<"stop", "purge">>, <<"delete", "stop", "purge">>,
          <<"stop", "delete", "stop", "purge">>}

(* The types of a handler's place and of its remaining calls.              *)
HandlerTypes ==
    /\ pc \in [Callers -> {"idle", "lock", "take", "query", "close", "await", "unlock",
                           "disable", "keepOff", "enable", "delete", "purge"}]
    /\ todo \in [Callers -> Seq({"stop", "reconcile", "disable", "keepOff", "enable",
                                 "delete", "purge"})]

(* A handler is inside a lifecycle call.                                   *)
Inside(c) == pc[c] \in {"take", "query", "close", "await", "unlock"}

(* A handler's place fits the call it is at; inside the lifecycle it holds *)
(* the lock.                                                               *)
HandlerInv ==
    \A c \in Callers :
        /\ todo[c] \in Calls
        /\ Inside(c) => /\ lock = c
                        /\ todo[c] # <<>> /\ Head(todo[c]) \in {"stop", "reconcile"}
        /\ pc[c] = "query" => Head(todo[c]) = "reconcile"
        /\ ~Inside(c) => pc[c] = Entry(todo[c])

(* The registered connection has passed mainSetManaged and not MainRemove. *)
MainIsLive == \A k \in Conns : main = k => kpc[k] \notin {"off", "set", "close"}

(* Somebody has taken k out of the registry and is about to close it.      *)
ToBeClosed(k) ==
    \/ \E j \in Conns : old[j] = k /\ kpc[j] = "closeOld"
    \/ \E c \in Callers : victim[c] = k /\ pc[c] = "close"

(* From mainSetManaged to the deferred MainRemove, an open connection is   *)
(* registered or about to be closed.                                       *)
OpenIsManaged ==
    \A k \in Conns : ~closed[k] /\ kpc[k] \notin {"off", "set", "close"}
                         => main = k \/ ToBeClosed(k)

(* While the server is off and its registered connection has passed the    *)
(* check of passiveWS, somebody is still to stop it.                       *)
StopIsPending ==
    ~Enabled /\ (\E k \in Conns : main = k /\ kpc[k] \in {"read", "write"})
        => retry \/ \E c \in Callers : pc[c] \in {"lock", "query", "take"}

(* A connection that is adding a status is registered, or whoever closes   *)
(* it is yet to wait for it.                                               *)
WriterIsManaged == \A k \in Conns : kpc[k] = "write" => main = k \/ BeingClosed(k)

(* del has closed the connection of the deleted server and waited for it.  *)
StopDone(c) == \/ todo[c] = <<"purge">>
               \/ todo[c] = <<"stop", "purge">> /\ pc[c] = "unlock"

(* A handler purges only what it has deleted; once it has stopped the      *)
(* deleted server, only a replaced connection may collect, and while it    *)
(* does so, only that and the one it has in hand.                          *)
PurgeInv ==
    /\ purged => ~exists
    /\ \A c \in Callers : todo[c] \in {<<"purge">>, <<"stop", "purge">>} => ~exists
    /\ purged \/ (\E c \in Callers : StopDone(c))
           => \A k \in Conns : Collects(k) => Replaced(k)
    /\ \A c \in Callers : todo[c] = <<"stop", "purge">> /\ pc[c] \in {"close", "await"}
           => \A k \in Conns : Collects(k) => victim[c] = k \/ Replaced(k)

(* Whoever waits for a connection has one, and has closed it.              *)
AwaitedIsClosed ==
    /\ \A j \in Conns : kpc[j] \in {"closeOld", "awaitOld"}
           => old[j] \in Conns /\ (kpc[j] = "awaitOld" => closed[old[j]])
    /\ \A c \in Callers : pc[c] \in {"close", "await"}
           => victim[c] \in Conns /\ (pc[c] = "await" => closed[victim[c]])

(* The inductive invariant: what the registry, the handlers and a purge    *)
(* rely on, and what Close waits for.                                      *)
CoreInv == /\ TypeOK /\ HandlerInv /\ MainIsLive /\ OpenIsManaged
           /\ StopIsPending /\ PurgeInv
IInv == CoreInv /\ WriterIsManaged /\ AwaitedIsClosed

-----------------------------------------------------------------------------
(* A handler's remaining calls are calls, and so are those after the first *)
(* one; a lifecycle call follows every change of the row.                  *)
LEMMA CallsShape ==
    ASSUME NEW s \in Calls
    PROVE  /\ s \in Seq({"stop", "reconcile", "disable", "keepOff", "enable", "delete", "purge"})
           /\ s # <<>> => Tail(s) \in Calls
           /\ s # <<>> /\ Head(s) \in {"disable", "keepOff", "enable"} => Tail(s) = <<"reconcile">>
           /\ s # <<>> /\ Head(s) = "delete" => Tail(s) = <<"stop", "purge">>
           /\ s # <<>> /\ Head(s) = "purge" => s = <<"purge">> /\ Tail(s) = <<>>
           /\ s # <<>> /\ Tail(s) = <<"purge">> => s = <<"stop", "purge">>
           /\ s # <<>> /\ Tail(s) = <<"stop", "purge">> => Head(s) = "delete"
<1>1. CASE s = <<>>
  BY <1>1
<1>2. CASE s = <<"reconcile">>
  <2>1. Head(s) = "reconcile" /\ Tail(s) = <<>>
    BY <1>2
  <2> QED  BY <1>2, <2>1 DEF Calls
<1>3. CASE s = <<"stop", "reconcile">>
  <2>1. Head(s) = "stop" /\ Tail(s) = <<"reconcile">>
    BY <1>3
  <2> QED  BY <1>3, <2>1 DEF Calls
<1>4. CASE s = <<"enable", "reconcile">>
  <2>1. Head(s) = "enable" /\ Tail(s) = <<"reconcile">>
    BY <1>4
  <2> QED  BY <1>4, <2>1 DEF Calls
<1>5. CASE s = <<"disable", "reconcile">>
  <2>1. Head(s) = "disable" /\ Tail(s) = <<"reconcile">>
    BY <1>5
  <2> QED  BY <1>5, <2>1 DEF Calls
<1>6. CASE s = <<"stop", "disable", "reconcile">>
  <2>1. Head(s) = "stop" /\ Tail(s) = <<"disable", "reconcile">>
    BY <1>6
  <2> QED  BY <1>6, <2>1 DEF Calls
<1>7. CASE s = <<"keepOff", "reconcile">>
  <2>1. Head(s) = "keepOff" /\ Tail(s) = <<"reconcile">>
    BY <1>7
  <2> QED  BY <1>7, <2>1 DEF Calls
<1>8. CASE s = <<"stop", "keepOff", "reconcile">>
  <2>1. Head(s) = "stop" /\ Tail(s) = <<"keepOff", "reconcile">>
    BY <1>8
  <2> QED  BY <1>8, <2>1 DEF Calls
<1>9. CASE s = <<"purge">>
  <2>1. Head(s) = "purge" /\ Tail(s) = <<>>
    BY <1>9
  <2> QED  BY <1>9, <2>1 DEF Calls
<1>10. CASE s = <<"stop", "purge">>
  <2>1. Head(s) = "stop" /\ Tail(s) = <<"purge">>
    BY <1>10
  <2> QED  BY <1>10, <2>1 DEF Calls
<1>11. CASE s = <<"delete", "stop", "purge">>
  <2>1. Head(s) = "delete" /\ Tail(s) = <<"stop", "purge">>
    BY <1>11
  <2> QED  BY <1>11, <2>1 DEF Calls
<1>12. CASE s = <<"stop", "delete", "stop", "purge">>
  <2>1. Head(s) = "stop" /\ Tail(s) = <<"delete", "stop", "purge">>
    BY <1>12
  <2> QED  BY <1>12, <2>1 DEF Calls
<1> QED  BY <1>1, <1>2, <1>3, <1>4, <1>5, <1>6, <1>7, <1>8, <1>9, <1>10, <1>11, <1>12 DEF Calls

(* Where a handler goes on is never inside a lifecycle call.               *)
LEMMA EntryPlaces ==
    ASSUME NEW s \in Calls
    PROVE  /\ Entry(s) \in {"idle", "lock", "disable", "keepOff", "enable", "delete", "purge"}
           /\ Entry(s) = "lock" <=> (s # <<>> /\ Head(s) \in {"stop", "reconcile"})
           /\ Entry(s) \in {"disable", "keepOff", "enable", "delete", "purge"}
                  => s # <<>> /\ Head(s) = Entry(s)
BY DEF Calls, Entry

(* The initial state satisfies the invariant.                              *)
LEMMA InitIInv == Init => IInv
<1> SUFFICES ASSUME Init PROVE IInv
  OBVIOUS
<1> USE PassiveAssumption
<1>1. TypeOK
  <2>1. todo \in [Callers -> Seq({"stop", "reconcile", "disable", "keepOff", "enable",
                                 "delete", "purge"})]
    BY DEF Init
  <2>2. exists \in BOOLEAN /\ retry \in BOOLEAN /\ purged \in BOOLEAN /\ allow \in BOOLEAN
    BY DEF Init
  <2> QED  BY <2>1, <2>2 DEF Init, TypeOK
<1>2. HandlerInv
  BY DEF Init, HandlerInv, Inside, Calls, Entry
<1>3. MainIsLive /\ OpenIsManaged /\ StopIsPending
  BY DEF Init, MainIsLive, OpenIsManaged, StopIsPending
<1>4. PurgeInv
  BY DEF Init, PurgeInv, StopDone, Collects
<1>5. WriterIsManaged /\ AwaitedIsClosed
  BY DEF Init, WriterIsManaged, AwaitedIsClosed
<1> QED  BY <1>1, <1>2, <1>3, <1>4, <1>5 DEF IInv, CoreInv

(* What a step may do to the connections without disturbing a purge: on a    *)
(* deleted server no connection starts to collect, and one that collects   *)
(* stays replaced.                                                         *)
LEMMA PurgeKept ==
    ASSUME PurgeInv, UNCHANGED <<exists, purged, pc, todo, victim>>,
           ~exists => \A j \in Conns :
               Collects(j)' => Collects(j) /\ (Replaced(j) => Replaced(j)')
    PROVE  PurgeInv'
BY DEF PurgeInv, StopDone

(* A connection that collects is registered or being closed.               *)
LEMMA CollectorIsManaged ==
    ASSUME IInv, NEW k \in Conns, Collects(k)
    PROVE  main = k \/ BeingClosed(k)
<1>1. CASE kpc[k] = "write"
  BY <1>1 DEF IInv, WriterIsManaged
<1>2. CASE kpc[k] = "read" /\ ~closed[k]
  BY <1>2 DEF IInv, CoreInv, OpenIsManaged, ToBeClosed, BeingClosed, Replaced
<1> QED  BY <1>1, <1>2 DEF Collects

(* A connection's steps preserve the invariant.                            *)
LEMMA ConnIInv ==
    ASSUME IInv, NEW k \in Conns, Authenticate(k) \/ ConnStep(k)
    PROVE  CoreInv'
<1> USE PassiveAssumption
<1>0. TypeOK /\ HandlerInv /\ MainIsLive /\ OpenIsManaged /\ StopIsPending /\ PurgeInv
  BY DEF IInv, CoreInv
<1>a. UNCHANGED <<exists, allow, token, agent, purged, ops, lock, pc, victim, todo, retry>>
  BY DEF Authenticate, ConnStep, mainSetManaged, CloseOld, AwaitOld, CheckMonitoring, WhileOpen,
         StatusAdded, ReadFails, MainRemove, CloseSelf, db, handlers, history
<1>b. HandlerInv'
  BY <1>0, <1>a DEF HandlerInv, Inside
<1>1. CASE Authenticate(k)
  <2>1. TypeOK'
    BY <1>0, <1>a, <1>1 DEF Authenticate, Forgotten, TypeOK, history
  <2>2. MainIsLive'
    BY <1>0, <1>a, <1>1 DEF Authenticate, Forgotten, TypeOK, MainIsLive, history
  <2>3. OpenIsManaged'
    BY <1>0, <1>a, <1>1 DEF Authenticate, Forgotten, TypeOK, MainIsLive, OpenIsManaged,
                          ToBeClosed, history
  <2>4. StopIsPending'
    BY <1>0, <1>a, <1>1 DEF Authenticate, Forgotten, TypeOK, StopIsPending, Enabled, history
  <2>5. ~exists => \A j \in Conns :
            Collects(j)' => Collects(j) /\ (Replaced(j) => Replaced(j)')
    BY <1>0, <1>a, <1>1 DEF Authenticate, Forgotten, TypeOK, Collects, Replaced, Enabled, history
  <2> QED  BY <1>0, <1>a, <1>b, <2>1, <2>2, <2>3, <2>4, <2>5, PurgeKept DEF CoreInv
<1>2. CASE mainSetManaged(k)
  <2>1. TypeOK'
    BY <1>0, <1>a, <1>2 DEF mainSetManaged, TypeOK, history
  <2>2. MainIsLive'
    BY <1>0, <1>a, <1>2 DEF mainSetManaged, TypeOK, MainIsLive, history
  <2>3. OpenIsManaged'
    BY <1>0, <1>a, <1>2 DEF mainSetManaged, TypeOK, MainIsLive, OpenIsManaged,
                          ToBeClosed, history
  <2>4. StopIsPending'
    BY <1>0, <1>a, <1>2 DEF mainSetManaged, TypeOK, StopIsPending, Enabled, history
  <2>5. ~exists => \A j \in Conns :
            Collects(j)' => Collects(j) /\ (Replaced(j) => Replaced(j)')
    BY <1>0, <1>a, <1>2 DEF mainSetManaged, TypeOK, Collects, Replaced, Enabled, history
  <2> QED  BY <1>0, <1>a, <1>b, <2>1, <2>2, <2>3, <2>4, <2>5, PurgeKept DEF CoreInv
<1>3. CASE CloseOld(k)
  <2>1. TypeOK'
    BY <1>0, <1>a, <1>3 DEF CloseOld, TypeOK, history
  <2>2. MainIsLive'
    BY <1>0, <1>a, <1>3 DEF CloseOld, TypeOK, MainIsLive, history
  <2>3. OpenIsManaged'
    BY <1>0, <1>a, <1>3 DEF CloseOld, TypeOK, MainIsLive, OpenIsManaged,
                          ToBeClosed, history
  <2>4. StopIsPending'
    BY <1>0, <1>a, <1>3 DEF CloseOld, TypeOK, StopIsPending, Enabled, history
  <2>5. ~exists => \A j \in Conns :
            Collects(j)' => Collects(j) /\ (Replaced(j) => Replaced(j)')
    BY <1>0, <1>a, <1>3 DEF CloseOld, TypeOK, Collects, Replaced, Enabled, history
  <2> QED  BY <1>0, <1>a, <1>b, <2>1, <2>2, <2>3, <2>4, <2>5, PurgeKept DEF CoreInv
<1>4. CASE AwaitOld(k)
  <2>1. TypeOK'
    BY <1>0, <1>a, <1>4 DEF AwaitOld, TypeOK, registry, history
  <2>2. MainIsLive'
    BY <1>0, <1>a, <1>4 DEF AwaitOld, TypeOK, MainIsLive, registry, history
  <2>3. OpenIsManaged'
    BY <1>0, <1>a, <1>4 DEF AwaitOld, TypeOK, MainIsLive, OpenIsManaged,
                          ToBeClosed, registry, history
  <2>4. StopIsPending'
    BY <1>0, <1>a, <1>4 DEF AwaitOld, TypeOK, StopIsPending, Enabled, registry, history
  <2>5. ~exists => \A j \in Conns :
            Collects(j)' => Collects(j) /\ (Replaced(j) => Replaced(j)')
    <3>1. closed[old[k]] /\ kpc[old[k]] # "write"
      BY <1>4 DEF AwaitOld, IInv, AwaitedIsClosed
    <3> QED  BY <1>0, <1>a, <1>4, <3>1 DEF AwaitOld, TypeOK, Collects, Replaced, registry
  <2> QED  BY <1>0, <1>a, <1>b, <2>1, <2>2, <2>3, <2>4, <2>5, PurgeKept DEF CoreInv
<1>5. CASE CheckMonitoring(k)
  <2>0. /\ UNCHANGED <<main, closed, kagent, old>>
        /\ faults' \in Nat
        /\ kpc[k] = "check"
        /\ \/ kpc' = [kpc EXCEPT ![k] = "remove"]
           \/ Enabled /\ kpc' = [kpc EXCEPT ![k] = "read"]
    BY <1>0, <1>5 DEF CheckMonitoring, TypeOK, registry
  <2>1. TypeOK'
    BY <1>0, <1>a, <2>0 DEF TypeOK
  <2>2. MainIsLive'
    BY <1>0, <1>a, <2>0 DEF TypeOK, MainIsLive
  <2>3. OpenIsManaged'
    <3>1. CASE kpc' = [kpc EXCEPT ![k] = "remove"]
      BY <1>0, <1>a, <2>0, <3>1, ZenonT(60) DEF TypeOK, OpenIsManaged, ToBeClosed
    <3>2. CASE kpc' = [kpc EXCEPT ![k] = "read"]
      BY <1>0, <1>a, <2>0, <3>2 DEF TypeOK, OpenIsManaged, ToBeClosed
    <3> QED  BY <2>0, <3>1, <3>2
  <2>4. StopIsPending'
    BY <1>0, <1>a, <2>0 DEF TypeOK, StopIsPending, Enabled
  <2>5. ~exists => \A j \in Conns :
            Collects(j)' => Collects(j) /\ (Replaced(j) => Replaced(j)')
    BY <1>0, <1>a, <2>0 DEF TypeOK, Collects, Replaced, Enabled
  <2> QED  BY <1>0, <1>a, <1>b, <2>1, <2>2, <2>3, <2>4, <2>5, PurgeKept DEF CoreInv
<1>6. CASE WhileOpen(k)
  <2>1. TypeOK'
    BY <1>0, <1>a, <1>6 DEF WhileOpen, TypeOK, registry, history
  <2>2. MainIsLive'
    BY <1>0, <1>a, <1>6 DEF WhileOpen, TypeOK, MainIsLive, registry, history
  <2>3. OpenIsManaged'
    BY <1>0, <1>a, <1>6, ZenonT(60) DEF WhileOpen, TypeOK, MainIsLive, OpenIsManaged,
                          ToBeClosed, registry, history
  <2>4. StopIsPending'
    BY <1>0, <1>a, <1>6 DEF WhileOpen, TypeOK, StopIsPending, Enabled, registry, history
  <2>5. ~exists => \A j \in Conns :
            Collects(j)' => Collects(j) /\ (Replaced(j) => Replaced(j)')
    BY <1>0, <1>a, <1>6 DEF WhileOpen, TypeOK, Collects, Replaced, Enabled, registry, history
  <2> QED  BY <1>0, <1>a, <1>b, <2>1, <2>2, <2>3, <2>4, <2>5, PurgeKept DEF CoreInv
<1>7. CASE StatusAdded(k)
  <2>1. TypeOK'
    BY <1>0, <1>a, <1>7 DEF StatusAdded, TypeOK, registry, history
  <2>2. MainIsLive'
    BY <1>0, <1>a, <1>7 DEF StatusAdded, TypeOK, MainIsLive, registry, history
  <2>3. OpenIsManaged'
    BY <1>0, <1>a, <1>7 DEF StatusAdded, TypeOK, MainIsLive, OpenIsManaged,
                          ToBeClosed, registry, history
  <2>4. StopIsPending'
    BY <1>0, <1>a, <1>7 DEF StatusAdded, TypeOK, StopIsPending, Enabled, registry, history
  <2>5. ~exists => \A j \in Conns :
            Collects(j)' => Collects(j) /\ (Replaced(j) => Replaced(j)')
    BY <1>0, <1>a, <1>7 DEF StatusAdded, TypeOK, Collects, Replaced, Enabled, registry, history
  <2> QED  BY <1>0, <1>a, <1>b, <2>1, <2>2, <2>3, <2>4, <2>5, PurgeKept DEF CoreInv
<1>8. CASE ReadFails(k)
  <2>1. TypeOK'
    BY <1>0, <1>a, <1>8 DEF ReadFails, TypeOK, registry, history
  <2>2. MainIsLive'
    BY <1>0, <1>a, <1>8 DEF ReadFails, TypeOK, MainIsLive, registry, history
  <2>3. OpenIsManaged'
    BY <1>0, <1>a, <1>8 DEF ReadFails, TypeOK, MainIsLive, OpenIsManaged,
                          ToBeClosed, registry, history
  <2>4. StopIsPending'
    BY <1>0, <1>a, <1>8 DEF ReadFails, TypeOK, StopIsPending, Enabled, registry, history
  <2>5. ~exists => \A j \in Conns :
            Collects(j)' => Collects(j) /\ (Replaced(j) => Replaced(j)')
    BY <1>0, <1>a, <1>8 DEF ReadFails, TypeOK, Collects, Replaced, Enabled, registry, history
  <2> QED  BY <1>0, <1>a, <1>b, <2>1, <2>2, <2>3, <2>4, <2>5, PurgeKept DEF CoreInv
<1>9. CASE MainRemove(k)
  <2>1. TypeOK'
    BY <1>0, <1>a, <1>9 DEF MainRemove, TypeOK, history
  <2>2. MainIsLive'
    BY <1>0, <1>a, <1>9 DEF MainRemove, TypeOK, MainIsLive, history
  <2>3. OpenIsManaged'
    BY <1>0, <1>a, <1>9 DEF MainRemove, TypeOK, MainIsLive, OpenIsManaged,
                          ToBeClosed, history
  <2>4. StopIsPending'
    BY <1>0, <1>a, <1>9 DEF MainRemove, TypeOK, StopIsPending, Enabled, history
  <2>5. ~exists => \A j \in Conns :
            Collects(j)' => Collects(j) /\ (Replaced(j) => Replaced(j)')
    BY <1>0, <1>a, <1>9 DEF MainRemove, TypeOK, Collects, Replaced, Enabled, history
  <2> QED  BY <1>0, <1>a, <1>b, <2>1, <2>2, <2>3, <2>4, <2>5, PurgeKept DEF CoreInv
<1>10. CASE CloseSelf(k)
  <2>1. TypeOK'
    BY <1>0, <1>a, <1>10 DEF CloseSelf, TypeOK, history
  <2>2. MainIsLive'
    BY <1>0, <1>a, <1>10 DEF CloseSelf, TypeOK, MainIsLive, history
  <2>3. OpenIsManaged'
    BY <1>0, <1>a, <1>10, ZenonT(60) DEF CloseSelf, TypeOK, MainIsLive, OpenIsManaged,
                          ToBeClosed, history
  <2>4. StopIsPending'
    BY <1>0, <1>a, <1>10 DEF CloseSelf, TypeOK, StopIsPending, Enabled, history
  <2>5. ~exists => \A j \in Conns :
            Collects(j)' => Collects(j) /\ (Replaced(j) => Replaced(j)')
    BY <1>0, <1>a, <1>10 DEF CloseSelf, TypeOK, Collects, Replaced, Enabled, history
  <2> QED  BY <1>0, <1>a, <1>b, <2>1, <2>2, <2>3, <2>4, <2>5, PurgeKept DEF CoreInv
<1> QED  BY <1>1, <1>2, <1>3, <1>4, <1>5, <1>6, <1>7, <1>8, <1>9, <1>10 DEF ConnStep

(* A handler that goes on with its next call fits it                         *)
LEMMA GoOnFits ==
    ASSUME TypeOK, HandlerInv, NEW c \in Callers, NEW calls \in Calls, GoOn(c, calls),
           (lock' = lock /\ ~Inside(c)) \/ (lock' = None /\ Inside(c))
    PROVE  /\ HandlerInv'
           /\ HandlerTypes'
           /\ todo'[c] = calls /\ pc'[c] = Entry(calls)
           /\ \A d \in Callers \ {c} : todo'[d] = todo[d] /\ pc'[d] = pc[d]
<1>1. todo' = [todo EXCEPT ![c] = calls] /\ pc' = [pc EXCEPT ![c] = Entry(calls)]
  BY DEF GoOn
<1>2. /\ Entry(calls) \in {"idle", "lock", "disable", "keepOff", "enable", "delete", "purge"}
      /\ calls \in Seq({"stop", "reconcile", "disable", "keepOff", "enable", "delete", "purge"})
  BY EntryPlaces, CallsShape
<1>3. /\ todo'[c] = calls /\ pc'[c] = Entry(calls)
      /\ \A d \in Callers \ {c} : todo'[d] = todo[d] /\ pc'[d] = pc[d]
  BY <1>1 DEF TypeOK
<1>4. HandlerTypes'
  BY <1>1, <1>2 DEF TypeOK, HandlerTypes
<1>5. HandlerInv'
  <2> SUFFICES ASSUME NEW d \in Callers
               PROVE  /\ todo'[d] \in Calls
                      /\ Inside(d)' => /\ lock' = d /\ todo'[d] # <<>>
                                       /\ Head(todo'[d]) \in {"stop", "reconcile"}
                      /\ pc'[d] = "query" => Head(todo'[d]) = "reconcile"
                      /\ ~Inside(d)' => pc'[d] = Entry(todo'[d])
    BY DEF HandlerInv, Entry
  <2>1. CASE d = c
    BY <1>2, <1>3, <2>1 DEF Inside
  <2>2. CASE d # c
    BY <1>3, <2>2 DEF HandlerInv, Inside
  <2> QED  BY <2>1, <2>2
<1> QED  BY <1>3, <1>4, <1>5

(* A request that arrives preserves the invariant.                         *)
LEMMA RequestIInv ==
    ASSUME IInv, NEW c \in Callers, Request(c)
    PROVE  CoreInv'
<1> USE PassiveAssumption
<1>0. TypeOK /\ HandlerInv /\ MainIsLive /\ OpenIsManaged /\ StopIsPending /\ PurgeInv
  BY DEF IInv, CoreInv
<1>1. PICK calls \in {<<"stop", "disable", "reconcile">>, <<"stop", "keepOff", "reconcile">>,
                      <<"enable", "reconcile">>, <<"stop", "delete", "stop", "purge">>,
                      <<"stop", "reconcile">>} : Serve(c, calls)
  BY DEF Request, Disable, Enable, Delete, Reinstall
<1>2. exists' = exists /\ allow' = allow /\ token' \in Nat /\ agent' \in Nat
  BY <1>0 DEF Request, Disable, Enable, Delete, Reinstall, TypeOK, db
<1>3. /\ calls \in Calls /\ calls \notin {<<"purge">>, <<"stop", "purge">>}
  BY DEF Calls
<1>4. /\ pc[c] = "idle" /\ GoOn(c, calls) /\ ops' \in Nat
      /\ UNCHANGED <<main, closed, kpc, kagent, old, lock, victim, retry, faults, purged>>
  BY <1>0, <1>1 DEF Serve, GoOn, TypeOK, registry, conns
<1>5. (lock' = lock /\ ~Inside(c)) \/ (lock' = None /\ Inside(c))
  BY <1>4 DEF Inside
<1>6. /\ HandlerInv'
      /\ HandlerTypes'
      /\ todo'[c] = calls /\ pc'[c] = Entry(calls)
      /\ \A d \in Callers \ {c} : todo'[d] = todo[d] /\ pc'[d] = pc[d]
  BY <1>0, <1>3, <1>4, <1>5, GoOnFits
<1>7. TypeOK'
  BY <1>0, <1>2, <1>4, <1>6 DEF TypeOK, HandlerTypes
<1>8. MainIsLive'
  BY <1>0, <1>4 DEF MainIsLive
<1>9. OpenIsManaged'
  <2>1. \A k \in Conns : ToBeClosed(k) => ToBeClosed(k)'
    BY <1>4, <1>6 DEF ToBeClosed
  <2> QED  BY <1>0, <1>4, <2>1 DEF OpenIsManaged
<1>10. StopIsPending'
  BY <1>0, <1>2, <1>4, <1>6 DEF StopIsPending, Enabled
<1>11. PurgeInv'
  <2>1. \A d \in Callers : (StopDone(d)' => StopDone(d))
    BY <1>3, <1>4, <1>6 DEF StopDone
  <2>2. \A d \in Callers : todo'[d] \in {<<"purge">>, <<"stop", "purge">>}
                             => todo'[d] = todo[d] /\ pc'[d] = pc[d]
    BY <1>3, <1>6
  <2>3. \A k \in Conns : (Collects(k)' <=> Collects(k)) /\ (Replaced(k)' <=> Replaced(k))
    BY <1>4 DEF Collects, Replaced
  <2> QED  BY <1>0, <1>2, <1>4, <2>1, <2>2, <2>3 DEF PurgeInv
<1> QED  BY <1>6, <1>7, <1>8, <1>9, <1>10, <1>11 DEF CoreInv

(* The committed change or its failure, and the purge, preserve the invariant. *)
LEMMA CommitIInv ==
    ASSUME IInv, NEW c \in Callers, Commit(c) \/ RemoveServerStatus(c)
    PROVE  CoreInv'
<1> USE PassiveAssumption
<1>0. TypeOK /\ HandlerInv /\ MainIsLive /\ OpenIsManaged /\ StopIsPending /\ PurgeInv
  BY DEF IInv, CoreInv
<1>a. /\ UNCHANGED <<token, main, closed, kpc, kagent, old, lock, victim, retry, ops, faults>>
      /\ pc[c] \in {"disable", "keepOff", "enable", "delete", "purge"}
  BY DEF Commit, RemoveServerStatus, registry, conns, history, db
<1>b. /\ (lock' = lock /\ ~Inside(c)) \/ (lock' = None /\ Inside(c))
      /\ todo[c] \in Calls /\ todo[c] # <<>> /\ Head(todo[c]) = pc[c]
  BY <1>0, <1>a, EntryPlaces DEF HandlerInv, Inside
<1>c. MainIsLive'
  BY <1>0, <1>a DEF MainIsLive
<1>d. \A k \in Conns : (Collects(k)' <=> Collects(k)) /\ (Replaced(k)' <=> Replaced(k))
  BY <1>a DEF Collects, Replaced
<1>1. ASSUME NEW calls \in Calls, GoOn(c, calls),
             exists' \in BOOLEAN, allow' \in BOOLEAN, agent' \in Nat, purged' \in BOOLEAN
      PROVE  /\ TypeOK' /\ HandlerInv' /\ OpenIsManaged'
             /\ todo'[c] = calls /\ pc'[c] = Entry(calls)
             /\ \A d \in Callers \ {c} : todo'[d] = todo[d] /\ pc'[d] = pc[d]
  <2>1. /\ HandlerInv'
        /\ HandlerTypes'
        /\ todo'[c] = calls /\ pc'[c] = Entry(calls)
        /\ \A d \in Callers \ {c} : todo'[d] = todo[d] /\ pc'[d] = pc[d]
    BY <1>0, <1>b, <1>1, GoOnFits
  <2>2. TypeOK'
    BY <1>0, <1>a, <1>1, <2>1 DEF TypeOK, HandlerTypes
  <2>3. \A k \in Conns : ToBeClosed(k) => ToBeClosed(k)'
    BY <1>a, <2>1 DEF ToBeClosed
  <2>4. OpenIsManaged'
    BY <1>0, <1>a, <2>3 DEF OpenIsManaged
  <2> QED  BY <2>1, <2>2, <2>4
<1>2. ASSUME pc[c] # "purge", GoOn(c, Tail(todo[c])), purged' = purged,
             allow' = (IF pc[c] = "delete" \/ ~exists THEN allow ELSE pc[c] = "enable"),
             exists' = (exists /\ pc[c] # "delete"),
             agent' = (IF pc[c] = "delete" THEN 0 ELSE agent)
      PROVE  CoreInv'
  <2>1. \/ Tail(todo[c]) = <<"reconcile">>
        \/ pc[c] = "delete" /\ Tail(todo[c]) = <<"stop", "purge">>
    BY <1>a, <1>b, <1>2, CallsShape
  <2>2. /\ Tail(todo[c]) \in Calls /\ Entry(Tail(todo[c])) = "lock"
        /\ Tail(todo[c]) # <<"purge">>
        /\ Tail(todo[c]) = <<"stop", "purge">> => pc[c] = "delete"
    <3>1. /\ <<"reconcile">> \in Calls /\ Entry(<<"reconcile">>) = "lock"
          /\ <<"reconcile">> # <<"purge">> /\ <<"reconcile">> # <<"stop", "purge">>
      BY DEF Calls, Entry
    <3>2. /\ <<"stop", "purge">> \in Calls /\ Entry(<<"stop", "purge">>) = "lock"
          /\ <<"stop", "purge">> # <<"purge">>
      BY DEF Calls, Entry
    <3> QED  BY <2>1, <3>1, <3>2, Zenon
  <2>3. exists' \in BOOLEAN /\ allow' \in BOOLEAN /\ agent' \in Nat /\ purged' \in BOOLEAN
    BY <1>0, <1>2 DEF TypeOK
  <2>4. /\ TypeOK' /\ HandlerInv' /\ OpenIsManaged'
        /\ todo'[c] = Tail(todo[c]) /\ pc'[c] = "lock"
        /\ \A d \in Callers \ {c} : todo'[d] = todo[d] /\ pc'[d] = pc[d]
    BY <1>1, <1>2, <2>2, <2>3
  <2>5. StopIsPending'
    BY <2>4 DEF StopIsPending
  <2>6. PurgeInv'
    <3>1. ~exists => ~exists'
      BY <1>2
    <3>2. todo'[c] # <<"purge">> /\ (todo'[c] = <<"stop", "purge">> => ~exists')
      BY <1>2, <2>2, <2>4
    <3>3. \A d \in Callers : StopDone(d)' => StopDone(d)
      BY <2>4, <3>2 DEF StopDone
    <3> QED  BY <1>0, <1>2, <1>a, <1>d, <2>4, <3>1, <3>2, <3>3 DEF PurgeInv
  <2> QED  BY <1>c, <2>4, <2>5, <2>6 DEF CoreInv
<1>3. ASSUME pc[c] # "purge", UNCHANGED <<allow, exists, agent, purged>>,
             GoOn(c, IF pc[c] \in {"disable", "delete"} THEN <<"reconcile">> ELSE <<>>)
      PROVE  CoreInv'
  <2> DEFINE calls == IF pc[c] \in {"disable", "delete"} THEN <<"reconcile">> ELSE <<>>
  <2>1. calls \in Calls /\ calls # <<"purge">> /\ calls # <<"stop", "purge">>
    BY DEF Calls
  <2>2. exists' \in BOOLEAN /\ allow' \in BOOLEAN /\ agent' \in Nat /\ purged' \in BOOLEAN
    BY <1>0, <1>3 DEF TypeOK
  <2>3. /\ TypeOK' /\ HandlerInv' /\ OpenIsManaged'
        /\ todo'[c] = calls
        /\ \A d \in Callers \ {c} : todo'[d] = todo[d] /\ pc'[d] = pc[d]
    BY <1>1, <1>3, <2>1, <2>2
  <2>4. StopIsPending'
    BY <1>0, <1>3, <1>a, <2>3 DEF StopIsPending, Enabled
  <2>5. PurgeInv'
    <3>1. \A d \in Callers : StopDone(d)' => StopDone(d)
      BY <2>1, <2>3 DEF StopDone
    <3> HIDE DEF calls
    <3> QED  BY <1>0, <1>3, <1>a, <1>d, <2>1, <2>3, <3>1 DEF PurgeInv
  <2> QED  BY <1>c, <2>3, <2>4, <2>5 DEF CoreInv
<1>4. CASE Commit(c)
  BY <1>2, <1>3, <1>4 DEF Commit, history
<1>5. CASE RemoveServerStatus(c)
  <2>1. todo[c] = <<"purge">> /\ Tail(todo[c]) = <<>>
    BY <1>5, <1>b, CallsShape DEF RemoveServerStatus
  <2>2. UNCHANGED <<exists, allow, agent>> /\ purged' = TRUE /\ GoOn(c, <<>>)
    BY <1>5, <2>1 DEF RemoveServerStatus, db
  <2>3. <<>> \in Calls
    BY DEF Calls
  <2>4. exists' \in BOOLEAN /\ allow' \in BOOLEAN /\ agent' \in Nat /\ purged' \in BOOLEAN
    BY <1>0, <2>2 DEF TypeOK
  <2>5. /\ TypeOK' /\ HandlerInv' /\ OpenIsManaged'
        /\ todo'[c] = <<>>
        /\ \A d \in Callers \ {c} : todo'[d] = todo[d] /\ pc'[d] = pc[d]
    BY <1>1, <2>2, <2>3, <2>4
  <2>6. StopIsPending'
    BY <1>0, <1>a, <2>2, <2>5 DEF StopIsPending, Enabled
  <2>7. PurgeInv'
    <3>1. ~exists /\ \A k \in Conns : Collects(k) => Replaced(k)
      BY <1>0, <2>1 DEF PurgeInv, StopDone
    <3>2. todo'[c] # <<"purge">> /\ todo'[c] # <<"stop", "purge">>
      BY <2>5
    <3> QED  BY <1>d, <2>2, <3>1, <3>2 DEF PurgeInv
  <2> QED  BY <1>c, <2>5, <2>6, <2>7 DEF CoreInv
<1> QED  BY <1>4, <1>5

(* A handler step carries a purge over when it neither ends a purging       *)
(* handler's stop nor changes what that handler is closing.                *)
LEMMA PurgeCarried ==
    ASSUME PurgeInv, UNCHANGED <<exists, purged>>,
           \A k \in Conns : (Collects(k)' <=> Collects(k)) /\ (Replaced(k)' <=> Replaced(k)),
           \A d \in Callers :
               /\ StopDone(d)' => StopDone(d)
               /\ todo'[d] \in {<<"purge">>, <<"stop", "purge">>} => todo'[d] = todo[d]
               /\ todo'[d] = <<"stop", "purge">> /\ pc'[d] \in {"close", "await"}
                      => pc[d] \in {"close", "await"} /\ victim'[d] = victim[d]
    PROVE  PurgeInv'
<1>1. \A d \in Callers : todo'[d] = <<"stop", "purge">> => todo[d] = <<"stop", "purge">>
  OBVIOUS
<1>2. ASSUME NEW d \in Callers, todo'[d] \in {<<"purge">>, <<"stop", "purge">>}
      PROVE  ~exists'
  BY <1>2 DEF PurgeInv
<1>3. ASSUME purged' \/ \E d \in Callers : StopDone(d)', NEW k \in Conns, Collects(k)'
      PROVE  Replaced(k)'
  BY <1>3 DEF PurgeInv
<1>4. ASSUME NEW d \in Callers, todo'[d] = <<"stop", "purge">>, pc'[d] \in {"close", "await"},
             NEW k \in Conns, Collects(k)'
      PROVE  victim'[d] = k \/ Replaced(k)'
  BY <1>1, <1>4 DEF PurgeInv
<1>5. purged' => ~exists'
  BY DEF PurgeInv
<1> QED  BY <1>2, <1>3, <1>4, <1>5 DEF PurgeInv

(* The steps of a lifecycle call preserve the invariant.                   *)
LEMMA LifecycleIInv ==
    ASSUME IInv, NEW c \in Callers,
           \/ EnterLifecycle(c) \/ reconcileServer(c) \/ RetryReconcile(c)
           \/ MainClose(c) \/ CloseMain(c) \/ AwaitMain(c) \/ LeaveLifecycle(c)
    PROVE  CoreInv'
<1> USE PassiveAssumption
<1>0. TypeOK /\ HandlerInv /\ MainIsLive /\ OpenIsManaged /\ StopIsPending /\ PurgeInv
  BY DEF IInv, CoreInv
<1>a. UNCHANGED <<exists, allow, token, agent, kpc, kagent, old, ops, purged>>
  BY DEF EnterLifecycle, reconcileServer, RetryReconcile, MainClose, CloseMain, AwaitMain,
         LeaveLifecycle, db, conns, history
<1>b. closed' = closed =>
          \A k \in Conns : (Collects(k)' <=> Collects(k)) /\ (Replaced(k)' <=> Replaced(k))
  BY <1>a DEF Collects, Replaced
<1>c. /\ todo[c] \in Calls
      /\ Inside(c) => lock = c /\ todo[c] # <<>> /\ \A d \in Callers \ {c} : ~Inside(d)
  BY <1>0 DEF HandlerInv
<1>1. CASE EnterLifecycle(c)
  <2>1. /\ pc[c] = "lock" /\ lock = None /\ lock' = c /\ retry' = FALSE
        /\ UNCHANGED <<main, closed, victim, todo, faults>>
        /\ pc' = [pc EXCEPT ![c] = IF Head(todo[c]) = "stop" THEN "take" ELSE "query"]
    BY <1>1 DEF EnterLifecycle, registry, history
  <2>2. /\ pc'[c] = IF Head(todo[c]) = "stop" THEN "take" ELSE "query"
        /\ pc'[c] \in {"take", "query"}
        /\ \A d \in Callers \ {c} : pc'[d] = pc[d]
    BY <1>0, <2>1 DEF TypeOK
  <2>3. \A d \in Callers : ~Inside(d)
    BY <1>0, <2>1 DEF HandlerInv
  <2>4. TypeOK'
    BY <1>0, <1>a, <2>1, <2>2 DEF TypeOK
  <2>5. HandlerInv'
    <3>1. todo[c] # <<>> /\ Head(todo[c]) \in {"stop", "reconcile"}
      BY <1>0, <2>1, <2>3, EntryPlaces DEF HandlerInv
    <3> QED  BY <1>0, <2>1, <2>2, <2>3, <3>1 DEF HandlerInv, Inside
  <2>6. MainIsLive'
    BY <1>0, <1>a, <2>1 DEF MainIsLive
  <2>7. OpenIsManaged'
    <3>1. \A k \in Conns : ToBeClosed(k) => ToBeClosed(k)'
      BY <1>a, <2>1, <2>2 DEF ToBeClosed
    <3> QED  BY <1>0, <1>a, <2>1, <3>1 DEF OpenIsManaged
  <2>8. StopIsPending'
    BY <2>2 DEF StopIsPending
  <2>9. PurgeInv'
    <3>1. \A d \in Callers :
            /\ StopDone(d)' => StopDone(d)
            /\ todo'[d] \in {<<"purge">>, <<"stop", "purge">>} => todo'[d] = todo[d]
            /\ todo'[d] = <<"stop", "purge">> /\ pc'[d] \in {"close", "await"}
                   => pc[d] \in {"close", "await"} /\ victim'[d] = victim[d]
      BY <2>1, <2>2 DEF StopDone
    <3>2. \A k \in Conns : (Collects(k)' <=> Collects(k)) /\ (Replaced(k)' <=> Replaced(k))
      BY <1>b, <2>1
    <3>3. UNCHANGED <<exists, purged>>
      BY <1>a
    <3> QED  BY <1>0, <3>1, <3>2, <3>3, PurgeCarried
  <2> QED  BY <2>4, <2>5, <2>6, <2>7, <2>8, <2>9 DEF CoreInv
<1>2. CASE reconcileServer(c)
  <2>1. /\ pc[c] = "query" /\ faults' \in Nat /\ retry' \in BOOLEAN /\ (retry => retry')
        /\ UNCHANGED <<main, closed, lock, victim, todo>>
        /\ \/ pc' = [pc EXCEPT ![c] = "take"]
           \/ Enabled /\ pc' = [pc EXCEPT ![c] = "unlock"]
    <3>1. faults' \in Nat
      BY <1>0, <1>2 DEF reconcileServer, TypeOK
    <3>2. retry' \in BOOLEAN /\ (retry => retry')
      BY <1>0, <1>2 DEF reconcileServer, TypeOK
    <3>3. CASE pc' = [pc EXCEPT ![c] = "take"]
      BY <1>2, <3>1, <3>2, <3>3 DEF reconcileServer, registry
    <3>4. CASE pc' # [pc EXCEPT ![c] = "take"]
      BY <1>2, <3>1, <3>2, <3>4 DEF reconcileServer, registry
    <3> QED  BY <3>3, <3>4
  <2>2. /\ pc' \in [Callers -> {"idle", "lock", "take", "query", "close", "await", "unlock",
                                "disable", "keepOff", "enable", "delete", "purge"}]
        /\ pc'[c] \in {"take", "unlock"} /\ (pc'[c] = "take" \/ Enabled)
        /\ \A d \in Callers \ {c} : pc'[d] = pc[d]
    BY <1>0, <2>1 DEF TypeOK
  <2>3. todo[c] # <<"stop", "purge">> /\ Head(todo[c]) = "reconcile"
    BY <1>0, <2>1 DEF HandlerInv
  <2>4. TypeOK'
    BY <1>0, <1>a, <2>1, <2>2 DEF TypeOK
  <2>5. HandlerInv'
    BY <1>0, <2>1, <2>2, <2>3 DEF HandlerInv, Inside
  <2>6. MainIsLive'
    BY <1>0, <1>a, <2>1 DEF MainIsLive
  <2>7. OpenIsManaged'
    <3>1. \A k \in Conns : ToBeClosed(k) => ToBeClosed(k)'
      BY <1>a, <2>1, <2>2 DEF ToBeClosed
    <3> QED  BY <1>0, <1>a, <2>1, <3>1 DEF OpenIsManaged
  <2>8. StopIsPending'
    BY <1>0, <1>a, <2>1, <2>2 DEF StopIsPending, Enabled
  <2>9. PurgeInv'
    <3>1. \A d \in Callers :
            /\ StopDone(d)' => StopDone(d)
            /\ todo'[d] \in {<<"purge">>, <<"stop", "purge">>} => todo'[d] = todo[d]
            /\ todo'[d] = <<"stop", "purge">> /\ pc'[d] \in {"close", "await"}
                   => pc[d] \in {"close", "await"} /\ victim'[d] = victim[d]
      BY <2>1, <2>2, <2>3 DEF StopDone
    <3>2. \A k \in Conns : (Collects(k)' <=> Collects(k)) /\ (Replaced(k)' <=> Replaced(k))
      BY <1>b, <2>1
    <3>3. UNCHANGED <<exists, purged>>
      BY <1>a
    <3> QED  BY <1>0, <3>1, <3>2, <3>3, PurgeCarried
  <2> QED  BY <2>4, <2>5, <2>6, <2>7, <2>8, <2>9 DEF CoreInv
<1>3. CASE RetryReconcile(c)
  <2>1. /\ pc[c] = "idle" /\ lock = None /\ lock' = c /\ retry' = FALSE
        /\ UNCHANGED <<main, closed, victim, faults>>
        /\ todo' = [todo EXCEPT ![c] = <<"reconcile">>]
        /\ pc' = [pc EXCEPT ![c] = "query"]
    BY <1>3 DEF RetryReconcile, registry, history
  <2>2. /\ pc'[c] = "query" /\ todo'[c] = <<"reconcile">>
        /\ \A d \in Callers \ {c} : pc'[d] = pc[d] /\ todo'[d] = todo[d]
    BY <1>0, <2>1 DEF TypeOK
  <2>3. \A d \in Callers : ~Inside(d)
    BY <1>0, <2>1 DEF HandlerInv
  <2>4. TypeOK'
    <3>1. HandlerTypes'
      BY <1>0, <2>1 DEF TypeOK, HandlerTypes
    <3> QED  BY <1>0, <1>a, <2>1, <3>1 DEF TypeOK, HandlerTypes
  <2>5. /\ <<"reconcile">> \in Calls /\ <<"reconcile">> # <<>>
        /\ <<"reconcile">> # <<"purge">> /\ <<"reconcile">> # <<"stop", "purge">>
        /\ Head(<<"reconcile">>) = "reconcile"
    BY DEF Calls
  <2>6. HandlerInv'
    BY <1>0, <2>1, <2>2, <2>3, <2>5 DEF HandlerInv, Inside
  <2>7. MainIsLive'
    BY <1>0, <1>a, <2>1 DEF MainIsLive
  <2>8. OpenIsManaged'
    <3>1. \A k \in Conns : ToBeClosed(k) => ToBeClosed(k)'
      BY <1>a, <2>1, <2>2 DEF ToBeClosed
    <3> QED  BY <1>0, <1>a, <2>1, <3>1 DEF OpenIsManaged
  <2>9. StopIsPending'
    BY <2>2 DEF StopIsPending
  <2>10. PurgeInv'
    <3>1. \A d \in Callers :
            /\ StopDone(d)' => StopDone(d)
            /\ todo'[d] \in {<<"purge">>, <<"stop", "purge">>} => todo'[d] = todo[d]
            /\ todo'[d] = <<"stop", "purge">> /\ pc'[d] \in {"close", "await"}
                   => pc[d] \in {"close", "await"} /\ victim'[d] = victim[d]
      BY <2>1, <2>2, <2>5 DEF StopDone
    <3>2. \A k \in Conns : (Collects(k)' <=> Collects(k)) /\ (Replaced(k)' <=> Replaced(k))
      BY <1>b, <2>1
    <3>3. UNCHANGED <<exists, purged>>
      BY <1>a
    <3> QED  BY <1>0, <3>1, <3>2, <3>3, PurgeCarried
  <2> QED  BY <2>4, <2>6, <2>7, <2>8, <2>9, <2>10 DEF CoreInv
<1>4. CASE MainClose(c)
  <2>1. /\ pc[c] = "take" /\ main' = None /\ UNCHANGED <<closed, lock, todo, retry, faults>>
        /\ victim' = [victim EXCEPT ![c] = main]
        /\ pc' = [pc EXCEPT ![c] = IF main = None THEN "unlock" ELSE "close"]
    BY <1>4 DEF MainClose, history
  <2>2. /\ pc'[c] \in {"unlock", "close"} /\ (main # None => pc'[c] = "close")
        /\ victim'[c] = main
        /\ \A d \in Callers \ {c} : pc'[d] = pc[d] /\ victim'[d] = victim[d]
    BY <1>0, <2>1 DEF TypeOK
  <2>3. Inside(c) /\ Inside(c)' /\ lock = c
    BY <1>c, <2>1, <2>2 DEF Inside
  <2>4. TypeOK'
    BY <1>0, <1>a, <2>1 DEF TypeOK
  <2>5. HandlerInv'
    BY <1>0, <2>1, <2>2, <2>3 DEF HandlerInv, Inside
  <2>6. MainIsLive'
    BY <2>1 DEF MainIsLive
  <2>7. \A k \in Conns : main = k \/ ToBeClosed(k) => ToBeClosed(k)'
    BY <1>a, <2>1, <2>2 DEF ToBeClosed
  <2>8. OpenIsManaged'
    BY <1>0, <1>a, <2>1, <2>7 DEF OpenIsManaged
  <2>9. StopIsPending'
    BY <2>1 DEF StopIsPending
  <2>10. PurgeInv'
    <3>1. \A k \in Conns : Collects(k) => victim'[c] = k \/ Replaced(k)
      <4>1. \A k \in Conns : Collects(k) => main = k \/ BeingClosed(k)
        BY CollectorIsManaged
      <4>2. \A d \in Callers : pc[d] \notin {"close", "await"}
        BY <1>c, <2>1, <2>3 DEF Inside
      <4> QED  BY <2>2, <4>1, <4>2 DEF BeingClosed
    <3>2. (\E d \in Callers : StopDone(d)') =>
              (\E d \in Callers : StopDone(d)) \/ \A k \in Conns : Collects(k) => Replaced(k)
      <4>1. \A d \in Callers \ {c} : StopDone(d)' <=> StopDone(d)
        BY <2>1, <2>2 DEF StopDone
      <4>2. pc'[c] = "unlock" => main = None
        BY <2>2
      <4>3. pc'[c] = "unlock" => \A k \in Conns : Collects(k) => Replaced(k)
        BY <2>2, <3>1, <4>2
      <4>4. pc'[c] = "close" => (StopDone(c)' <=> StopDone(c))
        BY <2>1 DEF StopDone
      <4> QED  BY <2>2, <4>1, <4>3, <4>4
    <3> QED  BY <1>0, <1>a, <1>b, <2>1, <2>2, <3>1, <3>2 DEF PurgeInv
  <2> QED  BY <2>4, <2>5, <2>6, <2>8, <2>9, <2>10 DEF CoreInv
<1>5. CASE CloseMain(c)
  <2>1. /\ pc[c] = "close" /\ UNCHANGED <<main, lock, victim, todo, retry, faults>>
        /\ closed' = [closed EXCEPT ![victim[c]] = TRUE]
        /\ pc' = [pc EXCEPT ![c] = "await"]
    BY <1>5 DEF CloseMain, history
  <2>2. pc'[c] = "await" /\ \A d \in Callers \ {c} : pc'[d] = pc[d]
    BY <1>0, <2>1 DEF TypeOK
  <2>3. \A k \in Conns : ~closed'[k] => ~closed[k] /\ victim[c] # k
    BY <1>0, <2>1 DEF TypeOK
  <2>4. TypeOK'
    BY <1>0, <1>a, <2>1 DEF TypeOK
  <2>5. HandlerInv'
    BY <1>0, <2>1, <2>2 DEF HandlerInv, Inside
  <2>6. MainIsLive'
    BY <1>0, <1>a, <2>1 DEF MainIsLive
  <2>7. OpenIsManaged'
    <3>1. \A k \in Conns : ToBeClosed(k) /\ victim[c] # k => ToBeClosed(k)'
      BY <1>a, <2>1, <2>2 DEF ToBeClosed
    <3> QED  BY <1>0, <1>a, <2>1, <2>3, <3>1 DEF OpenIsManaged
  <2>8. StopIsPending'
    BY <1>0, <1>a, <2>1, <2>2 DEF StopIsPending, Enabled
  <2>9. PurgeInv'
    <3>1. \A k \in Conns : (Collects(k)' => Collects(k)) /\ (Replaced(k)' <=> Replaced(k))
      BY <1>a, <2>3 DEF Collects, Replaced
    <3>2. \A d \in Callers : StopDone(d)' => StopDone(d)
      BY <2>1, <2>2 DEF StopDone
    <3>3. \A d \in Callers : pc'[d] \in {"close", "await"} => pc[d] \in {"close", "await"}
      BY <2>1, <2>2
    <3> QED  BY <1>0, <1>a, <2>1, <3>1, <3>2, <3>3 DEF PurgeInv
  <2> QED  BY <2>4, <2>5, <2>6, <2>7, <2>8, <2>9 DEF CoreInv
<1>6. CASE AwaitMain(c)
  <2>1. /\ pc[c] = "await" /\ UNCHANGED <<main, closed, lock, todo, retry, faults>>
        /\ victim' = [victim EXCEPT ![c] = None]
        /\ pc' = [pc EXCEPT ![c] = "unlock"]
    BY <1>6 DEF AwaitMain, registry, history
  <2>2. pc'[c] = "unlock" /\ \A d \in Callers \ {c} : pc'[d] = pc[d] /\ victim'[d] = victim[d]
    BY <1>0, <2>1 DEF TypeOK
  <2>3. TypeOK'
    BY <1>0, <1>a, <2>1 DEF TypeOK
  <2>4. HandlerInv'
    BY <1>0, <2>1, <2>2 DEF HandlerInv, Inside
  <2>5. MainIsLive'
    BY <1>0, <1>a, <2>1 DEF MainIsLive
  <2>6. OpenIsManaged'
    <3>1. \A k \in Conns : ToBeClosed(k) => ToBeClosed(k)'
      BY <1>a, <2>1, <2>2 DEF ToBeClosed
    <3> QED  BY <1>0, <1>a, <2>1, <3>1 DEF OpenIsManaged
  <2>7. StopIsPending'
    BY <1>0, <1>a, <2>1, <2>2 DEF StopIsPending, Enabled
  <2>8. PurgeInv'
    <3>1. \A k \in Conns : (Collects(k)' <=> Collects(k)) /\ (Replaced(k)' <=> Replaced(k))
      BY <1>b, <2>1
    <3>2. ~Collects(victim[c])
      <4>1. closed[victim[c]] /\ kpc[victim[c]] # "write"
        BY <1>6 DEF AwaitMain, IInv, AwaitedIsClosed
      <4> QED  BY <4>1 DEF Collects
    <3>3. todo[c] = <<"stop", "purge">> => \A k \in Conns : Collects(k) => Replaced(k)
      BY <1>0, <2>1, <3>2 DEF PurgeInv
    <3>4. \A d \in Callers \ {c} : StopDone(d)' => StopDone(d)
      BY <2>1, <2>2 DEF StopDone
    <3>5. StopDone(c)' => StopDone(c) \/ todo[c] = <<"stop", "purge">>
      BY <2>1 DEF StopDone
    <3>6. purged' \/ (\E d \in Callers : StopDone(d)')
              => \A k \in Conns : Collects(k)' => Replaced(k)'
      BY <1>0, <1>a, <3>1, <3>3, <3>4, <3>5 DEF PurgeInv
    <3> QED  BY <1>0, <1>a, <2>1, <2>2, <3>1, <3>6 DEF PurgeInv
  <2> QED  BY <2>3, <2>4, <2>5, <2>6, <2>7, <2>8 DEF CoreInv
<1>7. CASE LeaveLifecycle(c)
  <2>1. /\ pc[c] = "unlock" /\ lock' = None /\ GoOn(c, Tail(todo[c]))
        /\ UNCHANGED <<main, closed, victim, retry, faults>>
    BY <1>7 DEF LeaveLifecycle, registry, history
  <2>2. Inside(c) /\ Tail(todo[c]) \in Calls
    BY <1>c, <2>1, CallsShape DEF Inside
  <2>3. (lock' = lock /\ ~Inside(c)) \/ (lock' = None /\ Inside(c))
    BY <2>1, <2>2
  <2>4. /\ HandlerInv'
        /\ HandlerTypes'
        /\ todo'[c] = Tail(todo[c]) /\ pc'[c] = Entry(Tail(todo[c]))
        /\ \A d \in Callers \ {c} : todo'[d] = todo[d] /\ pc'[d] = pc[d]
    BY <1>0, <2>1, <2>2, <2>3, GoOnFits
  <2>5. TypeOK'
    BY <1>0, <1>a, <2>1, <2>4 DEF TypeOK, HandlerTypes
  <2>6. MainIsLive'
    BY <1>0, <1>a, <2>1 DEF MainIsLive
  <2>7. OpenIsManaged'
    <3>1. \A k \in Conns : ToBeClosed(k) => ToBeClosed(k)'
      BY <1>a, <2>1, <2>4 DEF ToBeClosed
    <3> QED  BY <1>0, <1>a, <2>1, <3>1 DEF OpenIsManaged
  <2>8. StopIsPending'
    BY <1>0, <1>a, <2>1, <2>4 DEF StopIsPending, Enabled
  <2>9. PurgeInv'
    <3>1. /\ todo'[c] = <<"purge">> => todo[c] = <<"stop", "purge">>
          /\ todo'[c] # <<"stop", "purge">>
          /\ pc'[c] \notin {"close", "await"}
      <4>1. Head(todo[c]) # "delete"
        BY <1>0, <2>2 DEF HandlerInv
      <4>2. Entry(Tail(todo[c])) \notin {"close", "await"}
        BY <2>2, EntryPlaces
      <4> QED  BY <1>c, <2>2, <2>4, <4>1, <4>2, CallsShape
    <3>2. \A d \in Callers : StopDone(d)' => StopDone(d)
      BY <2>1, <2>4, <3>1 DEF StopDone
    <3> QED  BY <1>0, <1>a, <1>b, <2>1, <2>4, <3>1, <3>2 DEF PurgeInv
  <2> QED  BY <2>4, <2>5, <2>6, <2>7, <2>8, <2>9 DEF CoreInv
<1> QED  BY <1>1, <1>2, <1>3, <1>4, <1>5, <1>6, <1>7

-----------------------------------------------------------------------------
(* Enrollment, and a step of nobody, preserve the invariant.               *)
LEMMA EnrollIInv ==
    ASSUME IInv, (\E t \in 1..token : Enroll(t)) \/ UNCHANGED vars
    PROVE  CoreInv'
<1>1. CASE \E t \in 1..token : Enroll(t)
  <2>1. /\ UNCHANGED <<exists, allow, token, main, closed, kpc, kagent, old, lock, pc, victim,
                       todo, retry, ops, faults, purged>>
        /\ TypeOK => agent' \in Nat
    BY <1>1 DEF Enroll, TypeOK, registry, conns, handlers, history
  <2>2. TypeOK'
    BY <2>1 DEF IInv, CoreInv, TypeOK
  <2>3. HandlerInv' /\ MainIsLive' /\ OpenIsManaged'
    BY <2>1 DEF IInv, CoreInv, HandlerInv, Inside, MainIsLive, OpenIsManaged, ToBeClosed
  <2>4. StopIsPending' /\ PurgeInv'
    BY <2>1 DEF IInv, CoreInv, StopIsPending, Enabled, PurgeInv, StopDone, Collects, Replaced
  <2> QED  BY <2>2, <2>3, <2>4 DEF CoreInv
<1>2. CASE UNCHANGED vars
  <2>1. UNCHANGED <<exists, allow, token, agent, main, closed, kpc, kagent, old, lock, pc,
                    victim, todo, retry, ops, faults, purged>>
    BY <1>2 DEF vars, db, registry, conns, handlers, history
  <2>2. TypeOK'
    BY <2>1 DEF IInv, CoreInv, TypeOK
  <2>3. HandlerInv' /\ MainIsLive' /\ OpenIsManaged'
    BY <2>1 DEF IInv, CoreInv, HandlerInv, Inside, MainIsLive, OpenIsManaged, ToBeClosed
  <2>4. StopIsPending' /\ PurgeInv'
    BY <2>1 DEF IInv, CoreInv, StopIsPending, Enabled, PurgeInv, StopDone, Collects, Replaced
  <2> QED  BY <2>2, <2>3, <2>4 DEF CoreInv
<1> QED  BY <1>1, <1>2

(* A connection's steps keep whatever Close waits for in hand.             *)
LEMMA ConnWaits ==
    ASSUME IInv, NEW k \in Conns, Authenticate(k) \/ ConnStep(k)
    PROVE  WriterIsManaged' /\ AwaitedIsClosed'
<1> USE PassiveAssumption
<1>0. TypeOK /\ MainIsLive /\ OpenIsManaged /\ WriterIsManaged /\ AwaitedIsClosed
  BY DEF IInv, CoreInv
<1>a. UNCHANGED <<pc, victim>>
  BY DEF Authenticate, ConnStep, mainSetManaged, CloseOld, AwaitOld, CheckMonitoring, WhileOpen,
         StatusAdded, ReadFails, MainRemove, CloseSelf, handlers
<1>1. CASE Authenticate(k)
  BY <1>0, <1>a, <1>1 DEF Authenticate, Forgotten, TypeOK, WriterIsManaged, AwaitedIsClosed,
                          BeingClosed, Replaced
<1>2. CASE mainSetManaged(k)
  <2>1. /\ kpc[k] = "set" /\ main' = k /\ closed' = closed
        /\ old'[k] = main /\ \A j \in Conns \ {k} : old'[j] = old[j] /\ kpc'[j] = kpc[j]
        /\ kpc'[k] = IF main = None THEN "check" ELSE "closeOld"
    BY <1>0, <1>2 DEF mainSetManaged, TypeOK
  <2>2. \A j \in Conns : BeingClosed(j) \/ main = j => BeingClosed(j)'
    BY <1>a, <2>1 DEF BeingClosed, Replaced
  <2>3. WriterIsManaged'
    BY <1>0, <2>1, <2>2 DEF WriterIsManaged
  <2>4. AwaitedIsClosed'
    BY <1>0, <1>a, <2>1 DEF AwaitedIsClosed, TypeOK
  <2> QED  BY <2>3, <2>4
<1>3. CASE CloseOld(k)
  BY <1>0, <1>a, <1>3 DEF CloseOld, TypeOK, WriterIsManaged, AwaitedIsClosed,
                          BeingClosed, Replaced
<1>4. CASE AwaitOld(k)
  <2>1. /\ kpc[old[k]] # "write" /\ UNCHANGED <<main, closed>>
        /\ kpc'[k] = "check"
        /\ \A j \in Conns \ {k} : old'[j] = old[j] /\ kpc'[j] = kpc[j]
    BY <1>0, <1>4 DEF AwaitOld, TypeOK, registry
  <2>2. \A j \in Conns : BeingClosed(j) /\ j # old[k] => BeingClosed(j)'
    BY <1>a, <2>1 DEF BeingClosed, Replaced
  <2>3. WriterIsManaged'
    BY <1>0, <2>1, <2>2 DEF WriterIsManaged
  <2>4. AwaitedIsClosed'
    BY <1>0, <1>a, <2>1 DEF AwaitedIsClosed
  <2> QED  BY <2>3, <2>4
<1>5. CASE WhileOpen(k)
  <2>1. ~closed[k] => main = k \/ BeingClosed(k)
    BY <1>0, <1>5 DEF WhileOpen, OpenIsManaged, ToBeClosed, BeingClosed, Replaced
  <2>2. /\ kpc[k] = "read" /\ UNCHANGED <<main, closed, old>>
        /\ kpc'[k] = IF closed[k] THEN "remove" ELSE "write"
        /\ \A j \in Conns \ {k} : kpc'[j] = kpc[j]
    BY <1>0, <1>5 DEF WhileOpen, TypeOK, registry
  <2>3. \A j \in Conns : BeingClosed(j) => BeingClosed(j)'
    BY <1>a, <2>2 DEF BeingClosed, Replaced
  <2>4. WriterIsManaged'
    BY <1>0, <2>1, <2>2, <2>3 DEF WriterIsManaged
  <2>5. AwaitedIsClosed'
    BY <1>0, <1>a, <2>2 DEF AwaitedIsClosed
  <2> QED  BY <2>4, <2>5
<1>6. CASE CheckMonitoring(k) \/ StatusAdded(k) \/ ReadFails(k) \/ MainRemove(k) \/ CloseSelf(k)
  <2>1. /\ kpc[k] \notin {"closeOld", "awaitOld"}
        /\ old' = old
        /\ kpc'[k] \notin {"write", "closeOld", "awaitOld"}
        /\ \A j \in Conns \ {k} : kpc'[j] = kpc[j] /\ (main = j => main' = j)
        /\ \A j \in Conns : closed[j] => closed'[j]
    BY <1>0, <1>6 DEF CheckMonitoring, StatusAdded, ReadFails, MainRemove, CloseSelf, TypeOK,
                      registry
  <2>2. \A j \in Conns : BeingClosed(j) => BeingClosed(j)'
    BY <1>a, <2>1 DEF BeingClosed, Replaced
  <2>3. WriterIsManaged'
    BY <1>0, <2>1, <2>2 DEF WriterIsManaged
  <2> QED  BY <1>0, <1>a, <2>1, <2>3 DEF AwaitedIsClosed
<1> QED  BY <1>1, <1>2, <1>3, <1>4, <1>5, <1>6 DEF ConnStep

(* So do the steps of a handler.                                           *)
LEMMA HandlerWaits ==
    ASSUME IInv, NEW c \in Callers, Request(c) \/ HandlerStep(c)
    PROVE  WriterIsManaged' /\ AwaitedIsClosed'
<1> USE PassiveAssumption
<1>0. TypeOK /\ HandlerInv /\ WriterIsManaged /\ AwaitedIsClosed
  BY DEF IInv, CoreInv
<1>a. UNCHANGED <<kpc, old>>
  BY DEF Request, Disable, Enable, Delete, Reinstall, Serve, HandlerStep, Commit,
         RemoveServerStatus, EnterLifecycle, reconcileServer, RetryReconcile, MainClose,
         CloseMain, AwaitMain, LeaveLifecycle, conns
<1>1. CASE MainClose(c)
  BY <1>0, <1>a, <1>1 DEF MainClose, TypeOK, WriterIsManaged, AwaitedIsClosed, BeingClosed, Replaced
<1>2. CASE CloseMain(c)
  BY <1>0, <1>a, <1>2 DEF CloseMain, TypeOK, WriterIsManaged, AwaitedIsClosed, BeingClosed, Replaced
<1>3. CASE AwaitMain(c)
  <2>1. /\ kpc[victim[c]] # "write" /\ UNCHANGED <<main, closed>>
        /\ pc'[c] = "unlock"
        /\ \A d \in Callers \ {c} : pc'[d] = pc[d] /\ victim'[d] = victim[d]
    BY <1>0, <1>3 DEF AwaitMain, TypeOK, registry
  <2>2. \A k \in Conns : BeingClosed(k) /\ k # victim[c] => BeingClosed(k)'
    BY <1>a, <2>1 DEF BeingClosed, Replaced
  <2>3. WriterIsManaged'
    BY <1>0, <1>a, <2>1, <2>2 DEF WriterIsManaged
  <2>4. AwaitedIsClosed'
    BY <1>0, <1>a, <2>1 DEF AwaitedIsClosed
  <2> QED  BY <2>3, <2>4
<1>4. ASSUME UNCHANGED <<main, closed, victim>>,
             pc[c] \notin {"close", "await"}, pc'[c] \notin {"close", "await"},
             \A d \in Callers \ {c} : pc'[d] = pc[d]
      PROVE  WriterIsManaged' /\ AwaitedIsClosed'
  <2>1. \A d \in Callers : pc'[d] \in {"close", "await"} <=> pc[d] \in {"close", "await"}
    BY <1>4
  <2>2. \A k \in Conns : BeingClosed(k) => BeingClosed(k)'
    BY <1>a, <1>4, <2>1 DEF BeingClosed, Replaced
  <2>3. WriterIsManaged'
    BY <1>0, <1>a, <1>4, <2>2 DEF WriterIsManaged
  <2>4. AwaitedIsClosed'
    BY <1>0, <1>a, <1>4 DEF AwaitedIsClosed
  <2> QED  BY <2>3, <2>4
<1>5. CASE Request(c) \/ Commit(c) \/ RemoveServerStatus(c) \/ LeaveLifecycle(c)
  <2>1. pc[c] # "idle" /\ pc[c] # "lock" => todo[c] # <<>> /\ Tail(todo[c]) \in Calls
    BY <1>0, EntryPlaces, CallsShape DEF HandlerInv
  <2>2. PICK s \in Calls : pc' = [pc EXCEPT ![c] = Entry(s)]
    <3>1. CASE Request(c)
      BY <3>1 DEF Request, Disable, Enable, Delete, Reinstall, Serve, Calls
    <3>2. CASE Commit(c)
      <4>1. <<"reconcile">> \in Calls /\ <<>> \in Calls
        BY DEF Calls
      <4> QED  BY <2>1, <3>2, <4>1 DEF Commit, GoOn
    <3>3. CASE RemoveServerStatus(c) \/ LeaveLifecycle(c)
      BY <2>1, <3>3 DEF RemoveServerStatus, LeaveLifecycle, GoOn
    <3> QED  BY <1>5, <3>1, <3>2, <3>3
  <2>3. /\ UNCHANGED <<main, closed, victim>>
        /\ pc[c] \notin {"close", "await"}
    BY <1>5 DEF Request, Disable, Enable, Delete, Reinstall, Serve, Commit, RemoveServerStatus,
                LeaveLifecycle, registry
  <2>4. pc'[c] \notin {"close", "await"} /\ \A d \in Callers \ {c} : pc'[d] = pc[d]
    BY <1>0, <2>2, EntryPlaces DEF TypeOK
  <2> QED  BY <1>4, <2>3, <2>4
<1>6. CASE EnterLifecycle(c) \/ reconcileServer(c) \/ RetryReconcile(c)
  <2>1. /\ UNCHANGED <<main, closed, victim>>
        /\ pc[c] \notin {"close", "await"} /\ pc'[c] \notin {"close", "await"}
        /\ \A d \in Callers \ {c} : pc'[d] = pc[d]
    BY <1>0, <1>6 DEF EnterLifecycle, reconcileServer, RetryReconcile, TypeOK, registry
  <2> QED  BY <1>4, <2>1
<1> QED  BY <1>1, <1>2, <1>3, <1>5, <1>6 DEF HandlerStep

(* Every step preserves the invariant.                                     *)
LEMMA NextIInv == IInv /\ [Next]_vars => IInv'
<1> SUFFICES ASSUME IInv, [Next]_vars PROVE IInv'
  OBVIOUS
<1>1. CASE (\E t \in 1..token : Enroll(t)) \/ UNCHANGED vars
  <2>1. UNCHANGED <<main, closed, kpc, old, pc, victim>>
    BY <1>1 DEF Enroll, vars, registry, conns, handlers
  <2>2. WriterIsManaged' /\ AwaitedIsClosed'
    BY <2>1 DEF IInv, WriterIsManaged, AwaitedIsClosed, BeingClosed, Replaced
  <2> QED  BY <1>1, <2>2, EnrollIInv DEF IInv
<1>2. CASE \E k \in Conns : Authenticate(k) \/ ConnStep(k)
  BY <1>2, ConnIInv, ConnWaits DEF IInv
<1>3. CASE \E c \in Callers : Request(c) \/ HandlerStep(c)
  <2>1. PICK c \in Callers : Request(c) \/ HandlerStep(c)
    BY <1>3
  <2>2. CoreInv'
    BY <2>1, RequestIInv, CommitIInv, LifecycleIInv DEF HandlerStep
  <2> QED  BY <2>1, <2>2, HandlerWaits DEF IInv
<1> QED  BY <1>1, <1>2, <1>3 DEF Next

(* The invariant holds of every behaviour of the specification.            *)
THEOREM Invariance == Spec => []IInv
BY InitIInv, NextIInv, PTL DEF Spec

-----------------------------------------------------------------------------
(* Every variable of the passive side always holds a value of its kind.    *)
THEOREM TypeCorrect == Spec => []TypeOK
<1>1. IInv => TypeOK
  BY DEF IInv, CoreInv
<1> QED  BY <1>1, Invariance, PTL

(* mainSetManaged, MainClose and MainRemove race for the registry, and yet *)
(* a connection that collects, the status it is just adding included, is   *)
(* registered or in the hands of a goroutine that has not come back from   *)
(* closing it.                                                             *)
THEOREM ConnectionsManaged == Spec => []NoUnmanagedConnection
<1>1. IInv => NoUnmanagedConnection
  BY CollectorIsManaged DEF NoUnmanagedConnection
<1> QED  BY <1>1, Invariance, PTL

(* The check of passiveWS after it has registered and the handlers' stop   *)
(* and reconcile around the change leave no connection to a revoked server *)
(* between them.                                                           *)
THEOREM RevocationCloses == Spec => []RevokedMeansClosed
<1>1. IInv => RevokedMeansClosed
  BY DEF IInv, CoreInv, StopIsPending, RevokedMeansClosed, Quiescent, Collects
<1> QED  BY <1>1, Invariance, PTL

(* The second stop of del closes and waits for the connection of the       *)
(* deleted server: after the purge only one that another connection has    *)
(* replaced, and still waits for, can add a status.                        *)
THEOREM DeletionCollectsNothing == Spec => []DeletedCollectsNothing
<1>1. IInv => DeletedCollectsNothing
  BY DEF IInv, CoreInv, PurgeInv, DeletedCollectsNothing
<1> QED  BY <1>1, Invariance, PTL
=============================================================================
