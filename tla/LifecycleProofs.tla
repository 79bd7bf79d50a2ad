-------------------------- MODULE LifecycleProofs --------------------------
(***************************************************************************)
(* For any number of servers, locks, handlers, retries and workers, and    *)
(* any assignment of servers to locks: no server has two workers, no stop  *)
(* returns ahead of its worker, no stale retry acts, no worker of a        *)
(* deleted server comes back, and when nobody has a server in hand the     *)
(* pool agrees with its row.                                               *)
(***************************************************************************)
EXTENDS Lifecycle, SequenceTheorems, TLAPS

(* Inside StopServer or reconcileServer, under the lifecycle lock.         *)
InsidePlaces == {"read", "readKey", "take", "wait", "load", "register", "finish"}
Inside(t) == pc[t] \in InsidePlaces

(* The calls of the handlers.                                              *)
CallRecords == [call : {"stop", "reconcile", "edit", "delete", "purge", "list"},
                want : BOOLEAN, last : BOOLEAN]

(* What a handler may still have to do: the tails of the handlers' calls.  *)
LastPurge == <<Call("purge")>>
LastStop  == <<Call("stop"), Call("purge")>>
Edits     == {<<EditCall(b, a), Call("reconcile")>> : b \in BOOLEAN, a \in BOOLEAN}
StopEdits == {<<Call("stop"), EditCall(b, a), Call("reconcile")>> : b \in BOOLEAN, a \in BOOLEAN}
Programs  == {<<>>, <<Call("reconcile")>>, <<Call("stop"), Call("reconcile")>>, <<Call("list")>>,
              <<Call("stop"), Call("delete"), Call("stop"), Call("purge")>>,
              <<Call("delete"), Call("stop"), Call("purge")>>, LastStop, LastPurge}
             \cup Edits \cup StopEdits

(* Every goroutine is at a place of its kind, with a server in hand unless *)
(* it is at rest; a handler's place fits the call it is at; what a         *)
(* reconciliation aims at is forgotten when it leaves the lifecycle, and a *)
(* mere stop aims at nothing.                                              *)
PlaceInv ==
    /\ \A c \in Callers :
          /\ pc[c] \in {"idle", "lock", "edit", "delete", "purge", "list"} \cup InsidePlaces
          /\ pc[c] # "idle" => srv[c] \in Servers
          /\ todo[c] \in Programs
          /\ ~Inside(c) => pc[c] = Entry(todo[c])
          /\ Inside(c) => todo[c] # <<>> /\ Head(todo[c]).call \in {"stop", "reconcile"}
          /\ Inside(c) /\ Head(todo[c]).call = "stop"
                => pc[c] \in {"take", "wait", "finish"} /\ goal[c] = "return"
    /\ \A r \in Retries :
          /\ pc[r] \in {"off", "timer", "lock"} \cup InsidePlaces
          /\ pc[r] # "off" => srv[r] \in Servers
    /\ \A t \in Threads :
          /\ ~Inside(t) => goal[t] = "return"
          /\ pc[t] = "load" => goal[t] = "load"
          /\ pc[t] = "register" => goal[t] = "register"

(* Whoever is inside the lifecycle of a server holds its lock.             *)
LockInv == \A t \in Threads : Inside(t) => lock[LockOf(srv[t])] = t

(* A worker is in the pool or somebody who took it out waits for it; while *)
(* it does, and when it is about to register another, the pool has none.   *)
WorkerInv ==
    /\ \A w \in Workers : wst[w] # "off" =>
          /\ wsrv[w] \in Servers
          /\ \/ pool[wsrv[w]] = w
             \/ \E t \in Threads : pc[t] = "wait" /\ victim[t] = w /\ srv[t] = wsrv[w]
    /\ \A s \in Servers, w \in Workers : pool[s] = w => Live(w) /\ wsrv[w] = s
    /\ \A t \in Threads : pc[t] = "wait" =>
          victim[t] \in Workers /\ wst[victim[t]] # "off" /\ wsrv[victim[t]] = srv[t]
    /\ \A t \in Threads : pc[t] \in {"wait", "register"} => pool[srv[t]] = None

(* A registered retry is alive and current; one that acts is registered.   *)
RetryInv ==
    /\ \A s \in Servers, r \in Retries :
          retryOf[s] = r => pc[r] # "off" /\ srv[r] = s /\ ~rcancel[r]
    /\ \A r \in Retries : pc[r] = "off" => ~rcancel[r]
    /\ \A r \in Retries : Inside(r) => retryOf[srv[r]] = r

(* del has stopped the deleted server s for the second time.               *)
Downed(s) ==
    \/ s \in purged
    \/ \E c \in Callers : /\ srv[c] = s
                          /\ todo[c] = LastPurge \/ (todo[c] = LastStop /\ pc[c] = "finish")

(* A handler purges only what it has deleted; from its second stop on the  *)
(* server has no worker and nobody is on the way to start one.             *)
PurgeInv ==
    /\ \A c \in Callers : todo[c] \in {LastStop, LastPurge} => exists[srv[c]] = "gone"
    /\ \A s \in Servers : Downed(s) =>
          /\ exists[s] = "gone"
          /\ pool[s] = None
          /\ \A t \in Threads : srv[t] = s => pc[t] # "wait" /\ goal[t] = "return"

(* The inductive invariant.                                                *)
IInv == TypeOK /\ PlaceInv /\ LockInv /\ WorkerInv /\ RetryInv /\ PurgeInv

-----------------------------------------------------------------------------
(* Calls are told apart by their names.                                    *)
LEMMA CallNames ==
    /\ \A name : Call(name).call = name
    /\ \A b, a : EditCall(b, a).call = "edit"
BY DEF Call, EditCall

(* Every call of a handler is of the calls' type.                          *)
LEMMA CallTypes ==
    /\ Call("stop") \in CallRecords /\ Call("reconcile") \in CallRecords
    /\ Call("delete") \in CallRecords /\ Call("purge") \in CallRecords
    /\ Call("list") \in CallRecords
    /\ \A b, a \in BOOLEAN : EditCall(b, a) \in CallRecords
BY DEF Call, EditCall, CallRecords

(* What each program is: its first call and the program after it.          *)
LEMMA ProgramCases ==
    ASSUME NEW p \in Programs
    PROVE  \/ p = <<>>
           \/ p = <<Call("reconcile")>> /\ Head(p) = Call("reconcile") /\ Tail(p) = <<>>
           \/ /\ p = <<Call("stop"), Call("reconcile")>>
              /\ Head(p) = Call("stop") /\ Tail(p) = <<Call("reconcile")>>
           \/ p = <<Call("list")>> /\ Head(p) = Call("list") /\ Tail(p) = <<>>
           \/ /\ p = <<Call("stop"), Call("delete"), Call("stop"), Call("purge")>>
              /\ Head(p) = Call("stop") /\ Tail(p) = <<Call("delete"), Call("stop"), Call("purge")>>
           \/ /\ p = <<Call("delete"), Call("stop"), Call("purge")>>
              /\ Head(p) = Call("delete") /\ Tail(p) = LastStop
           \/ p = LastStop /\ Head(p) = Call("stop") /\ Tail(p) = LastPurge
           \/ p = LastPurge /\ Head(p) = Call("purge") /\ Tail(p) = <<>>
           \/ \E b, a \in BOOLEAN : /\ p = <<EditCall(b, a), Call("reconcile")>>
                                    /\ Head(p) = EditCall(b, a) /\ Tail(p) = <<Call("reconcile")>>
           \/ \E b, a \in BOOLEAN : /\ p = <<Call("stop"), EditCall(b, a), Call("reconcile")>>
                                    /\ Head(p) = Call("stop")
                                    /\ Tail(p) = <<EditCall(b, a), Call("reconcile")>>
<1>1. \A a : Head(<<a>>) = a /\ Tail(<<a>>) = <<>>
  OBVIOUS
<1>2. \A a, b : Head(<<a, b>>) = a /\ Tail(<<a, b>>) = <<b>>
  OBVIOUS
<1>3. \A a, b, c : Head(<<a, b, c>>) = a /\ Tail(<<a, b, c>>) = <<b, c>>
  OBVIOUS
<1>4. \A a, b, c, d : Head(<<a, b, c, d>>) = a /\ Tail(<<a, b, c, d>>) = <<b, c, d>>
  OBVIOUS
<1>5. CASE p \in Edits
  <2>1. PICK b \in BOOLEAN, a \in BOOLEAN : p = <<EditCall(b, a), Call("reconcile")>>
    BY <1>5 DEF Edits
  <2>2. Head(p) = EditCall(b, a) /\ Tail(p) = <<Call("reconcile")>>
    BY <1>2, <2>1, Zenon
  <2> QED  BY <2>1, <2>2, Zenon
<1>6. CASE p \in StopEdits
  <2>1. PICK b \in BOOLEAN, a \in BOOLEAN : p = <<Call("stop"), EditCall(b, a), Call("reconcile")>>
    BY <1>6 DEF StopEdits
  <2>2. Head(p) = Call("stop") /\ Tail(p) = <<EditCall(b, a), Call("reconcile")>>
    BY <1>3, <2>1, Zenon
  <2> QED  BY <2>1, <2>2, Zenon
<1>7. CASE p \notin Edits /\ p \notin StopEdits
  <2>1. p \in {<<>>, <<Call("reconcile")>>, <<Call("stop"), Call("reconcile")>>, <<Call("list")>>,
              <<Call("stop"), Call("delete"), Call("stop"), Call("purge")>>,
              <<Call("delete"), Call("stop"), Call("purge")>>, LastStop, LastPurge}
    BY <1>7, Zenon DEF Programs
  <2>2. CASE p = <<>>
    BY <2>2, Zenon
  <2>3. CASE p = <<Call("reconcile")>>
    BY <1>1, <2>3, Zenon DEF LastStop, LastPurge
  <2>4. CASE p = <<Call("stop"), Call("reconcile")>>
    BY <1>2, <2>4, Zenon DEF LastStop, LastPurge
  <2>5. CASE p = <<Call("list")>>
    BY <1>1, <2>5, Zenon DEF LastStop, LastPurge
  <2>6. CASE p = <<Call("stop"), Call("delete"), Call("stop"), Call("purge")>>
    BY <1>4, <2>6, Zenon DEF LastStop, LastPurge
  <2>7. CASE p = <<Call("delete"), Call("stop"), Call("purge")>>
    BY <1>3, <2>7, ZenonT(60) DEF LastStop, LastPurge
  <2>8. CASE p = LastStop
    BY <1>2, <2>8, Zenon DEF LastStop, LastPurge
  <2>9. CASE p = LastPurge
    BY <1>1, <2>9, Zenon DEF LastStop, LastPurge
  <2> QED  BY <2>1, <2>2, <2>3, <2>4, <2>5, <2>6, <2>7, <2>8, <2>9, Zenon
<1> QED  BY <1>5, <1>6, <1>7

(* The ends of del's program are unlike any other.                         *)
LEMMA LastsDiffer ==
    /\ <<>> # LastStop /\ <<>> # LastPurge /\ LastStop # LastPurge
    /\ \A c : c.call # "stop" => \A d : <<c, d>> # LastStop
    /\ \A c : c.call # "purge" => <<c>> # LastPurge
    /\ \A c : <<c>> # LastStop
    /\ \A c, d : <<c, d>> # LastPurge
    /\ \A c, d, e : <<c, d, e>> # LastStop /\ <<c, d, e>> # LastPurge
    /\ \A c, d, e, f : <<c, d, e, f>> # LastStop /\ <<c, d, e, f>> # LastPurge
    /\ Head(LastStop).call = "stop" /\ Head(LastPurge).call = "purge"
<1>1. \A c, d, e, f : <<c, d>> = <<e, f>> => c = e
  OBVIOUS
<1>2. \A c, e : <<c>> = <<e>> => c = e
  OBVIOUS
<1>3. \A c, d : Head(<<c, d>>) = c /\ Head(<<c>>) = c
  OBVIOUS
<1>4. /\ \A c : c.call # "stop" => \A d : <<c, d>> # LastStop
      /\ \A c : c.call # "purge" => <<c>> # LastPurge
  BY <1>1, <1>2, CallNames, Zenon DEF LastStop, LastPurge
<1>5. Head(LastStop).call = "stop" /\ Head(LastPurge).call = "purge"
  BY <1>3, CallNames, Zenon DEF LastStop, LastPurge
<1>6. /\ <<>> # LastStop /\ <<>> # LastPurge /\ LastStop # LastPurge
      /\ \A c : <<c>> # LastStop
      /\ \A c, d : <<c, d>> # LastPurge
      /\ \A c, d, e : <<c, d, e>> # LastStop /\ <<c, d, e>> # LastPurge
      /\ \A c, d, e, f : <<c, d, e, f>> # LastStop /\ <<c, d, e, f>> # LastPurge
  BY DEF LastStop, LastPurge
<1> QED  BY <1>4, <1>5, <1>6

(* A program is a sequence of calls.                                       *)
LEMMA ProgramType ==
    ASSUME NEW p \in Programs
    PROVE  p \in Seq(CallRecords)
<1>1. \A a, b, c, d \in CallRecords :
          /\ <<>> \in Seq(CallRecords) /\ <<a>> \in Seq(CallRecords) /\ <<a, b>> \in Seq(CallRecords)
          /\ <<a, b, c>> \in Seq(CallRecords) /\ <<a, b, c, d>> \in Seq(CallRecords)
  OBVIOUS
<1>2. /\ Call("stop") \in CallRecords /\ Call("reconcile") \in CallRecords
      /\ Call("delete") \in CallRecords /\ Call("purge") \in CallRecords
      /\ Call("list") \in CallRecords
      /\ \A b, a \in BOOLEAN : EditCall(b, a) \in CallRecords
  BY CallTypes
<1>3. CASE p \in Edits
  <2>1. PICK b \in BOOLEAN, a \in BOOLEAN : p = <<EditCall(b, a), Call("reconcile")>>
    BY <1>3 DEF Edits
  <2> QED  BY <1>1, <1>2, <2>1, Zenon
<1>4. CASE p \in StopEdits
  <2>1. PICK b \in BOOLEAN, a \in BOOLEAN : p = <<Call("stop"), EditCall(b, a), Call("reconcile")>>
    BY <1>4 DEF StopEdits
  <2> QED  BY <1>1, <1>2, <2>1, Zenon
<1>5. CASE p \notin Edits /\ p \notin StopEdits
  <2>1. /\ <<>> \in Seq(CallRecords) /\ <<Call("reconcile")>> \in Seq(CallRecords) /\ <<Call("list")>> \in Seq(CallRecords)
        /\ <<Call("stop"), Call("reconcile")>> \in Seq(CallRecords)
        /\ <<Call("stop"), Call("delete"), Call("stop"), Call("purge")>> \in Seq(CallRecords)
        /\ <<Call("delete"), Call("stop"), Call("purge")>> \in Seq(CallRecords)
        /\ LastStop \in Seq(CallRecords) /\ LastPurge \in Seq(CallRecords)
    BY <1>1, <1>2, ZenonT(60) DEF LastStop, LastPurge
  <2> QED  BY <1>5, <2>1, Zenon DEF Programs
<1> QED  BY <1>3, <1>4, <1>5

(* The programs of the handlers and their tails are programs.              *)
LEMMA ProgramMembers ==
    /\ <<>> \in Programs /\ <<Call("reconcile")>> \in Programs /\ LastStop \in Programs
    /\ LastPurge \in Programs /\ <<Call("delete"), Call("stop"), Call("purge")>> \in Programs
    /\ \A b, a \in BOOLEAN : <<EditCall(b, a), Call("reconcile")>> \in Programs
    /\ \A b, a \in BOOLEAN : <<Call("stop"), EditCall(b, a), Call("reconcile")>> \in Programs
<1>1. \A b, a \in BOOLEAN : <<EditCall(b, a), Call("reconcile")>> \in Programs
  BY DEF Programs, Edits
<1>2. \A b, a \in BOOLEAN : <<Call("stop"), EditCall(b, a), Call("reconcile")>> \in Programs
  BY DEF Programs, StopEdits
<1> QED  BY <1>1, <1>2 DEF Programs

(* A call before an edit's two is a program of three.                      *)
LEMMA PrependCall ==
    ASSUME NEW a \in CallRecords, NEW b \in CallRecords, NEW d \in CallRecords
    PROVE  <<a>> \o <<b, d>> = <<a, b, d>>
<1> DEFINE p == <<a>> \o <<b, d>>
           q == <<a, b, d>>
<1>1. p \in Seq(CallRecords) /\ q \in Seq(CallRecords)
  OBVIOUS
<1>2. Len(p) = 3 /\ Len(q) = 3
  OBVIOUS
<1>3. \A i \in 1..3 : p[i] = q[i]
  OBVIOUS
<1> HIDE DEF p, q
<1>4. p = q
  BY <1>1, <1>2, <1>3, SeqEqual
<1> QED  BY <1>4 DEF p, q

(* What follows the first call of a program.                               *)
LEMMA ProgramShape ==
    ASSUME NEW p \in Programs, p # <<>>
    PROVE  /\ Head(p).call \in {"stop", "reconcile", "edit", "delete", "purge", "list"}
           /\ Tail(p) \in Programs
           /\ Head(p).call = "edit" => /\ Tail(p) = <<Call("reconcile")>>
                                       /\ \E b, a \in BOOLEAN : Head(p) = EditCall(b, a)
           /\ Head(p).call = "delete" => Tail(p) = LastStop
           /\ Head(p).call = "purge" => p = LastPurge /\ Tail(p) = <<>>
           /\ Tail(p) = LastPurge => p = LastStop
           /\ Tail(p) = LastStop => Head(p).call = "delete"
<1> USE CallNames, LastsDiffer
<1>1. CASE p = <<Call("reconcile")>> /\ Head(p) = Call("reconcile") /\ Tail(p) = <<>>
  <2>1. Head(p).call = "reconcile"
    BY <1>1, Zenon
  <2> QED  BY ProgramMembers, <1>1, <2>1, Zenon
<1>2. CASE /\ p = <<Call("stop"), Call("reconcile")>>
           /\ Head(p) = Call("stop") /\ Tail(p) = <<Call("reconcile")>>
  <2>1. Head(p).call = "stop"
    BY <1>2, Zenon
  <2> QED  BY ProgramMembers, <1>2, <2>1, Zenon
<1>3. CASE p = <<Call("list")>> /\ Head(p) = Call("list") /\ Tail(p) = <<>>
  <2>1. Head(p).call = "list"
    BY <1>3, Zenon
  <2> QED  BY ProgramMembers, <1>3, <2>1, Zenon
<1>4. CASE /\ p = <<Call("stop"), Call("delete"), Call("stop"), Call("purge")>>
           /\ Head(p) = Call("stop") /\ Tail(p) = <<Call("delete"), Call("stop"), Call("purge")>>
  <2>1. Head(p).call = "stop"
    BY <1>4, Zenon
  <2> QED  BY ProgramMembers, <1>4, <2>1, ZenonT(60)
<1>5. CASE /\ p = <<Call("delete"), Call("stop"), Call("purge")>>
           /\ Head(p) = Call("delete") /\ Tail(p) = LastStop
  <2>1. Head(p).call = "delete"
    BY <1>5, Zenon
  <2> QED  BY ProgramMembers, <1>5, <2>1, Zenon
<1>6. CASE p = LastStop /\ Head(p) = Call("stop") /\ Tail(p) = LastPurge
  <2>1. Head(p).call = "stop"
    BY <1>6, Zenon
  <2> QED  BY ProgramMembers, <1>6, <2>1, Zenon
<1>7. CASE p = LastPurge /\ Head(p) = Call("purge") /\ Tail(p) = <<>>
  <2>1. Head(p).call = "purge"
    BY <1>7, Zenon
  <2> QED  BY ProgramMembers, <1>7, <2>1, Zenon
<1>8. CASE \E b, a \in BOOLEAN : /\ p = <<EditCall(b, a), Call("reconcile")>>
                                 /\ Head(p) = EditCall(b, a) /\ Tail(p) = <<Call("reconcile")>>
  <2>1. Head(p).call = "edit"
    BY <1>8, ZenonT(60)
  <2> QED  BY ProgramMembers, <1>8, <2>1, Zenon
<1>9. CASE \E b, a \in BOOLEAN : /\ p = <<Call("stop"), EditCall(b, a), Call("reconcile")>>
                                 /\ Head(p) = Call("stop")
                                 /\ Tail(p) = <<EditCall(b, a), Call("reconcile")>>
  <2>1. Head(p).call = "stop"
    BY <1>9, Zenon
  <2> QED  BY ProgramMembers, <1>9, <2>1, Zenon
<1> QED  BY ProgramCases, <1>1, <1>2, <1>3, <1>4, <1>5, <1>6, <1>7, <1>8, <1>9, Zenon

(* Where a handler goes on is never inside the lifecycle.                  *)
LEMMA EntryPlaces ==
    ASSUME NEW p \in Programs
    PROVE  /\ Entry(p) \in {"idle", "lock", "edit", "delete", "purge", "list"}
           /\ Entry(p) = "idle" <=> p = <<>>
           /\ Entry(p) = "lock" <=> p # <<>> /\ Head(p).call \in {"stop", "reconcile"}
           /\ Entry(p) \in {"edit", "delete", "purge", "list"}
                  => p # <<>> /\ Head(p).call = Entry(p)
BY ProgramShape DEF Entry

(* A handler with something left to do has a server in hand.               *)
LEMMA BusyHasServer ==
    ASSUME PlaceInv, NEW c \in Callers, todo[c] # <<>>
    PROVE  srv[c] \in Servers
<1>1. ~Inside(c) => pc[c] = Entry(todo[c]) /\ Entry(todo[c]) # "idle"
  BY EntryPlaces DEF PlaceInv
<1> QED  BY <1>1 DEF PlaceInv, Inside, InsidePlaces

(* So has a goroutine inside the lifecycle.                                *)
LEMMA InsideHasServer ==
    ASSUME PlaceInv, NEW t \in Threads, Inside(t)
    PROVE  srv[t] \in Servers
BY DEF PlaceInv, Threads, Inside, InsidePlaces

-----------------------------------------------------------------------------
(* The initial state satisfies the invariant.                              *)
LEMMA InitIInv == Init => IInv
<1> SUFFICES ASSUME Init PROVE IInv
  OBVIOUS
<1> USE LifecycleAssumption
<1>1. TypeOK
  <2>1. DatabaseType
    BY DEF Init, DatabaseType
  <2>2. PoolType
    BY DEF Init, PoolType
  <2>3. WorkerType
    BY DEF Init, WorkerType, NoSettings
  <2>4. ThreadType
    BY DEF Init, ThreadType, NoSettings
  <2>5. HandlerType
    <3>1. todo \in [Callers -> Seq([call : {"stop", "reconcile", "edit", "delete", "purge", "list"},
                                    want : BOOLEAN, last : BOOLEAN])]
      BY DEF Init
    <3> QED  BY <3>1 DEF Init, HandlerType, ListedAtBoot
  <2> QED  BY <2>1, <2>2, <2>3, <2>4, <2>5 DEF TypeOK
<1>2. PlaceInv
  <2>1. <<>> \in Programs /\ Entry(<<>>) = "idle"
    BY DEF Programs, Entry
  <2> QED  BY <2>1 DEF Init, PlaceInv, Inside, InsidePlaces, Threads
<1>3. LockInv /\ WorkerInv /\ RetryInv
  BY DEF Init, LockInv, WorkerInv, RetryInv, Inside, InsidePlaces, Threads
<1>4. PurgeInv
  BY LastsDiffer DEF Init, PurgeInv, Downed, Threads
<1> QED  BY <1>1, <1>2, <1>3, <1>4 DEF IInv

-----------------------------------------------------------------------------
(* A handler outside the lifecycle that takes up server s with the given   *)
(* calls, or goes on with them, preserves the invariant if it may change   *)
(* the rows as it does: a deleted server stays deleted, and only a handler *)
(* that has stopped it for the second time purges it.                      *)
LEMMA OutsideStep ==
    ASSUME IInv, NEW c \in Callers, ~Inside(c),
           NEW calls \in Programs, NEW s \in Servers \cup {None}, calls # <<>> => s \in Servers,
           todo' = [todo EXCEPT ![c] = calls],
           pc' = [pc EXCEPT ![c] = Entry(calls)],
           srv' = [srv EXCEPT ![c] = s],
           UNCHANGED <<lock, pool, retryOf, rcancel, wst, wsrv, wset, wcancel, goal, got, victim,
                       err>>,
           DatabaseType', toBoot' \subseteq Servers, purged' \subseteq Servers,
           ops' \in Nat, faults' \in Nat, crashes' \in Nat,
           excused' \in [Servers -> SUBSET {"ended", "edit", "key"}],
           \A x \in Servers : exists[x] = "gone" => exists'[x] = "gone",
           calls # LastPurge, calls = LastStop => exists'[s] = "gone",
           \A x \in purged' : x \in purged \/ (todo[c] = LastPurge /\ srv[c] = x)
    PROVE  IInv'
<1> USE LifecycleAssumption
<1>0. TypeOK /\ PlaceInv /\ LockInv /\ WorkerInv /\ RetryInv /\ PurgeInv
  BY DEF IInv
<1>1. /\ Entry(calls) \in {"idle", "lock", "edit", "delete", "purge", "list"}
      /\ Entry(calls) = "idle" <=> calls = <<>>
  BY EntryPlaces
<1>2. /\ c \in Threads /\ c \notin Retries
      /\ todo'[c] = calls /\ pc'[c] = Entry(calls) /\ srv'[c] = s
      /\ \A t \in Threads \ {c} : pc'[t] = pc[t] /\ srv'[t] = srv[t]
      /\ \A d \in Callers \ {c} : todo'[d] = todo[d]
  BY <1>0 DEF TypeOK, ThreadType, HandlerType, Threads
<1>3. /\ ~Inside(c)'
      /\ \A t \in Threads : Inside(t)' <=> Inside(t)
      /\ pc[c] # "wait" /\ pc'[c] # "wait"
  BY <1>1, <1>2 DEF Inside, InsidePlaces
<1>4. TypeOK'
  <2>1. todo' \in [Callers -> Seq([call : {"stop", "reconcile", "edit", "delete", "purge", "list"},
                                   want : BOOLEAN, last : BOOLEAN])]
    BY <1>0, ProgramType DEF TypeOK, HandlerType, CallRecords
  <2>2. HandlerType'
    BY <2>1 DEF HandlerType
  <2>3. ThreadType'
    BY <1>0, <1>1 DEF TypeOK, ThreadType
  <2>4. PoolType' /\ WorkerType'
    BY <1>0 DEF TypeOK, PoolType, WorkerType
  <2> QED  BY <2>2, <2>3, <2>4 DEF TypeOK
<1>5. PlaceInv'
  BY <1>0, <1>1, <1>2, <1>3 DEF PlaceInv, Threads
<1>6. LockInv'
  BY <1>0, <1>2, <1>3 DEF LockInv
<1>7. WorkerInv'
  BY <1>0, <1>1, <1>2, <1>3 DEF WorkerInv, Live
<1>8. RetryInv'
  BY <1>0, <1>2, <1>3 DEF RetryInv, Threads
<1>9. PurgeInv'
  <2>1. ASSUME NEW d \in Callers, todo'[d] \in {LastStop, LastPurge}
        PROVE  exists'[srv'[d]] = "gone"
    <3>1. CASE d = c
      BY <1>2, <2>1, <3>1
    <3>2. CASE d # c
      <4>1. d \in Threads /\ todo[d] \in {LastStop, LastPurge} /\ srv'[d] = srv[d]
        BY <1>2, <2>1, <3>2 DEF Threads
      <4>2. srv[d] \in Servers
        BY <1>0, <4>1, BusyHasServer, LastsDiffer
      <4> QED  BY <1>0, <4>1, <4>2 DEF PurgeInv
    <3> QED  BY <3>1, <3>2
  <2>2. ASSUME NEW x \in Servers, Downed(x)'
        PROVE  Downed(x)
    <3>1. pc'[c] # "finish"
      BY <1>3 DEF Inside, InsidePlaces
    <3>2. CASE x \in purged'
      BY <3>2 DEF Downed
    <3>3. CASE \E d \in Callers : /\ srv'[d] = x
                                  /\ todo'[d] = LastPurge \/ (todo'[d] = LastStop /\ pc'[d] = "finish")
      BY <1>2, <3>1, <3>3 DEF Downed, Threads
    <3> QED  BY <2>2, <3>2, <3>3 DEF Downed
  <2>3. goal[c] = "return"
    BY <1>0, <1>2 DEF PlaceInv
  <2> QED  BY <1>0, <1>2, <1>3, <2>1, <2>2, <2>3 DEF PurgeInv
<1> QED  BY <1>4, <1>5, <1>6, <1>7, <1>8, <1>9 DEF IInv

(* A request that arrives preserves the invariant.                         *)
LEMMA ServeIInv ==
    ASSUME IInv, NEW c \in Callers, NEW s \in Servers, NEW calls \in Programs,
           Serve(c, s, calls), DatabaseType', calls # LastPurge, calls # LastStop,
           \A x \in Servers : exists[x] = "gone" => exists'[x] = "gone"
    PROVE  IInv'
<1>1. ~Inside(c)
  BY DEF Serve, Inside, InsidePlaces
<1>2. /\ todo' = [todo EXCEPT ![c] = calls]
      /\ pc' = [pc EXCEPT ![c] = Entry(calls)]
      /\ srv' = [srv EXCEPT ![c] = s]
      /\ UNCHANGED <<lock, pool, retryOf, rcancel, wst, wsrv, wset, wcancel, goal, got, victim, err>>
      /\ UNCHANGED <<toBoot, faults, crashes, purged, excused>>
      /\ ops' = ops + 1
  BY DEF Serve, retries, workers, locals
<1>3. /\ toBoot' \subseteq Servers /\ purged' \subseteq Servers
      /\ ops' \in Nat /\ faults' \in Nat /\ crashes' \in Nat
      /\ excused' \in [Servers -> SUBSET {"ended", "edit", "key"}]
      /\ \A x \in purged' : x \in purged \/ (todo[c] = LastPurge /\ srv[c] = x)
  BY <1>2 DEF IInv, TypeOK, HandlerType
<1> QED  BY <1>1, <1>2, <1>3, OutsideStep

(* Every request preserves the invariant: its calls are a program, and no  *)
(* request brings a deleted row back.                                      *)
LEMMA RequestIInv ==
    ASSUME IInv, NEW c \in Callers, Request(c)
    PROVE  IInv'
<1> USE LifecycleAssumption
<1>0. DatabaseType /\ ThreadType
  BY DEF IInv, TypeOK
<1>1. PICK s \in Servers :
          \/ \E monitor \in BOOLEAN : Add(c, s, monitor) \/ Edit(c, s, monitor)
          \/ Delete(c, s) \/ Reinstall(c, s) \/ EditKey(c, s)
  BY DEF Request
<1>a. /\ <<Call("reconcile")>> \in Programs /\ <<Call("reconcile")>> # LastPurge
      /\ <<Call("reconcile")>> # LastStop
  BY LastsDiffer, CallNames DEF Programs
<1>2. ASSUME NEW monitor \in BOOLEAN, Add(c, s, monitor)
      PROVE  IInv'
  <2>1. /\ DatabaseType' /\ Serve(c, s, <<Call("reconcile")>>)
        /\ \A x \in Servers : exists[x] = "gone" => exists'[x] = "gone"
    BY <1>0, <1>2 DEF Add, DatabaseType
  <2> QED  BY <1>a, <2>1, ServeIInv
<1>3. ASSUME NEW monitor \in BOOLEAN, Edit(c, s, monitor)
      PROVE  IInv'
  <2>1. DatabaseType' /\ UNCHANGED exists /\ allow[s] \in BOOLEAN
    BY <1>0, <1>3 DEF Edit, DatabaseType, db
  <2>2. CASE monitor
    <3> DEFINE calls == <<EditCall(TRUE, allow[s]), Call("reconcile")>>
    <3>1. Serve(c, s, calls)
      BY <1>3, <2>2 DEF Edit
    <3>2. calls \in Programs
      BY <2>1, ProgramMembers
    <3>3. calls # LastPurge /\ calls # LastStop
      BY LastsDiffer, CallNames
    <3> HIDE DEF calls
    <3> QED  BY <2>1, <3>1, <3>2, <3>3, ServeIInv
  <2>3. CASE ~monitor
    <3> DEFINE calls == <<Call("stop"), EditCall(FALSE, allow[s]), Call("reconcile")>>
    <3>1. Serve(c, s, calls)
      <4>1. <<Call("stop")>> \o <<EditCall(FALSE, allow[s]), Call("reconcile")>> = calls
        <5>1. /\ Call("stop") \in CallRecords /\ Call("reconcile") \in CallRecords
              /\ EditCall(FALSE, allow[s]) \in CallRecords
          BY <2>1, CallTypes
        <5> QED  BY <5>1, PrependCall, Zenon
      <4>2. monitor = FALSE
        BY <2>3
      <4>3. Serve(c, s, <<Call("stop")>> \o <<EditCall(FALSE, allow[s]), Call("reconcile")>>)
        BY <1>3, <4>2 DEF Edit
      <4> QED  BY <4>1, <4>3
    <3>2. calls \in Programs
      BY <2>1, ProgramMembers
    <3>3. calls # LastPurge /\ calls # LastStop
      BY LastsDiffer
    <3> HIDE DEF calls
    <3> QED  BY <2>1, <3>1, <3>2, <3>3, ServeIInv
  <2> QED  BY <2>2, <2>3
<1>4. CASE Delete(c, s)
  <2> DEFINE calls == <<Call("stop"), Call("delete"), Call("stop"), Call("purge")>>
  <2>1. /\ DatabaseType' /\ Serve(c, s, calls)
        /\ \A x \in Servers : exists[x] = "gone" => exists'[x] = "gone"
    BY <1>0, <1>4 DEF Delete, DatabaseType, db
  <2>2. calls \in Programs /\ calls # LastPurge /\ calls # LastStop
    BY LastsDiffer DEF Programs
  <2> HIDE DEF calls
  <2> QED  BY <2>1, <2>2, ServeIInv
<1>5. CASE Reinstall(c, s)
  <2> DEFINE calls == <<Call("stop"), Call("reconcile")>>
  <2>1. /\ DatabaseType' /\ Serve(c, s, calls)
        /\ \A x \in Servers : exists[x] = "gone" => exists'[x] = "gone"
    BY <1>0, <1>5 DEF Reinstall, DatabaseType
  <2>2. calls \in Programs /\ calls # LastPurge
    BY LastsDiffer DEF Programs
  <2>3. calls # LastStop
    <3>1. \A a, b, d, e : <<a, b>> = <<d, e>> => b = e
      OBVIOUS
    <3>2. Call("reconcile") # Call("purge")
      BY CallNames
    <3> QED  BY <3>1, <3>2, Zenon DEF LastStop
  <2> HIDE DEF calls
  <2> QED  BY <2>1, <2>2, <2>3, ServeIInv
<1>6. CASE EditKey(c, s)
  <2>1. /\ DatabaseType' /\ Serve(c, s, <<Call("list")>>)
        /\ \A x \in Servers : exists[x] = "gone" => exists'[x] = "gone"
    BY <1>0, <1>6 DEF EditKey, DatabaseType
  <2>2. <<Call("list")>> \in Programs /\ <<Call("list")>> # LastPurge /\ <<Call("list")>> # LastStop
    BY LastsDiffer, CallNames DEF Programs
  <2> QED  BY <2>1, <2>2, ServeIInv
<1> QED  BY <1>1, <1>2, <1>3, <1>4, <1>5, <1>6

(* A handler outside the lifecycle that goes on with the given calls.      *)
LEMMA GoOnIInv ==
    ASSUME IInv, NEW c \in Callers, pc[c] \in {"edit", "delete", "purge", "list"},
           NEW calls \in Programs, GoOn(c, calls),
           UNCHANGED <<lock, pool, retries, workers, locals, toBoot, ops, crashes>>,
           DatabaseType', purged' \subseteq Servers, faults' \in Nat,
           excused' \in [Servers -> SUBSET {"ended", "edit", "key"}],
           \A x \in Servers : exists[x] = "gone" => exists'[x] = "gone",
           calls # LastPurge, calls = LastStop => exists'[srv[c]] = "gone",
           \A x \in purged' : x \in purged \/ (todo[c] = LastPurge /\ srv[c] = x)
    PROVE  IInv'
<1>1. ~Inside(c)
  BY DEF Inside, InsidePlaces
<1>2. srv[c] \in Servers
  BY DEF IInv, PlaceInv
<1>3. /\ todo' = [todo EXCEPT ![c] = calls]
      /\ pc' = [pc EXCEPT ![c] = Entry(calls)]
      /\ srv' = [srv EXCEPT ![c] = IF calls = <<>> THEN None ELSE srv[c]]
      /\ UNCHANGED <<lock, pool, retryOf, rcancel, wst, wsrv, wset, wcancel, goal, got, victim, err>>
  BY DEF GoOn, retries, workers, locals
<1>4. toBoot' \subseteq Servers /\ ops' \in Nat /\ crashes' \in Nat
  BY DEF IInv, TypeOK, HandlerType
<1>5. CASE calls = <<>>
  <2>1. srv' = [srv EXCEPT ![c] = None] /\ None \in Servers \cup {None}
    BY <1>3, <1>5
  <2>2. calls # LastStop /\ (calls # <<>> => None \in Servers)
    BY <1>5, LastsDiffer
  <2> QED  BY <1>1, <1>3, <1>4, <2>1, <2>2, OutsideStep
<1>6. CASE calls # <<>>
  <2>1. srv' = [srv EXCEPT ![c] = srv[c]] /\ srv[c] \in Servers \cup {None}
    BY <1>2, <1>3, <1>6
  <2> QED  BY <1>1, <1>2, <1>3, <1>4, <2>1, OutsideStep
<1> QED  BY <1>5, <1>6

(* The steps of a handler between its lifecycle calls preserve the         *)
(* invariant.                                                              *)
LEMMA HandlerIInv ==
    ASSUME IInv, NEW c \in Callers, HandlerStep(c)
    PROVE  IInv'
<1> USE LifecycleAssumption
<1>0. DatabaseType /\ HandlerType /\ PlaceInv /\ PurgeInv
  BY DEF IInv, TypeOK
<1>a. /\ pc[c] \in {"edit", "delete", "purge", "list"}
      /\ UNCHANGED <<lock, pool, retries, workers, locals, toBoot, ops, crashes>>
  BY DEF HandlerStep, ListKeyServers, EditServer, EditServerFails, DeleteServer,
         RemoveServerStatus, bounds
<1>b. /\ todo[c] \in Programs /\ todo[c] # <<>> /\ Head(todo[c]).call = pc[c]
      /\ srv[c] \in Servers
  <2>1. ~Inside(c)
    BY <1>a DEF Inside, InsidePlaces
  <2> QED  BY <1>0, <1>a, <2>1, EntryPlaces DEF PlaceInv
<1>c. /\ <<>> \in Programs /\ <<>> # LastPurge /\ <<>> # LastStop
      /\ <<Call("reconcile")>> \in Programs /\ <<Call("reconcile")>> # LastPurge
      /\ <<Call("reconcile")>> # LastStop
  BY ProgramMembers, LastsDiffer, CallNames
<1>1. CASE ListKeyServers(c)
  <2>1. /\ DatabaseType' /\ UNCHANGED <<exists, purged>>
        /\ purged' \subseteq Servers /\ faults' \in Nat
        /\ excused' \in [Servers -> SUBSET {"ended", "edit", "key"}]
    <3>1. excused' = excused \/ excused' = [excused EXCEPT ![srv[c]] = @ \cup {"key"}]
      BY <1>1 DEF ListKeyServers
    <3>2. excused' \in [Servers -> SUBSET {"ended", "edit", "key"}]
      BY <1>0, <3>1 DEF HandlerType
    <3>3. faults' \in Nat
      BY <1>0, <1>1 DEF ListKeyServers, HandlerType
    <3>4. UNCHANGED <<exists, allow, cfg, pinned, purged>>
      BY <1>1 DEF ListKeyServers, db
    <3> QED  BY <1>0, <3>2, <3>3, <3>4 DEF DatabaseType, HandlerType
  <2>2. GoOn(c, <<>>) \/ GoOn(c, <<Call("reconcile")>>)
    BY <1>1 DEF ListKeyServers
  <2> QED  BY <1>a, <1>c, <2>1, <2>2, GoOnIInv
<1>2. CASE EditServer(c)
  <2>1. /\ Tail(todo[c]) = <<Call("reconcile")>>
        /\ Head(todo[c]).want \in BOOLEAN
    BY <1>2, <1>b, ProgramShape DEF EditServer, EditCall
  <2>2. /\ UNCHANGED <<exists, purged>> /\ purged' \subseteq Servers /\ faults' \in Nat
        /\ excused' \in [Servers -> SUBSET {"ended", "edit", "key"}]
    BY <1>0, <1>2 DEF EditServer, HandlerType, bounds
  <2>3. DatabaseType'
    <3>0. allow \in [Servers -> BOOLEAN] /\ cfg \in [Servers -> Nat]
      BY <1>0 DEF DatabaseType
    <3>1. PICK want \in BOOLEAN : allow' = allow \/ allow' = [allow EXCEPT ![srv[c]] = want]
      BY <1>2, <2>1 DEF EditServer
    <3>2. cfg' = cfg \/ cfg' = [cfg EXCEPT ![srv[c]] = @ + 1]
      BY <1>2 DEF EditServer
    <3>3. allow' \in [Servers -> BOOLEAN]
      BY <3>0, <3>1
    <3>4. cfg' \in [Servers -> Nat]
      BY <3>0, <3>2
    <3>5. UNCHANGED <<exists, pinned>>
      BY <1>2 DEF EditServer
    <3> QED  BY <1>0, <3>3, <3>4, <3>5 DEF DatabaseType
  <2>4. GoOn(c, <<Call("reconcile")>>)
    BY <1>2, <2>1 DEF EditServer
  <2> QED  BY <1>a, <1>c, <2>2, <2>3, <2>4, GoOnIInv
<1>3. CASE EditServerFails(c)
  <2>1. /\ DatabaseType' /\ UNCHANGED <<exists, purged>>
        /\ purged' \subseteq Servers /\ faults' \in Nat
        /\ excused' \in [Servers -> SUBSET {"ended", "edit", "key"}]
    BY <1>0, <1>3, <1>b DEF EditServerFails, DatabaseType, HandlerType, db, bounds
  <2>2. GoOn(c, <<>>) \/ GoOn(c, <<Call("reconcile")>>)
    BY <1>3 DEF EditServerFails
  <2> QED  BY <1>a, <1>c, <2>1, <2>2, GoOnIInv
<1>4. CASE DeleteServer(c)
  <2>1. Tail(todo[c]) = LastStop /\ LastStop \in Programs /\ LastStop # LastPurge
    BY <1>4, <1>b, ProgramShape, ProgramMembers, LastsDiffer DEF DeleteServer
  <2>2. /\ DatabaseType' /\ UNCHANGED purged
        /\ purged' \subseteq Servers /\ faults' \in Nat
        /\ excused' \in [Servers -> SUBSET {"ended", "edit", "key"}]
        /\ \A x \in Servers : exists[x] = "gone" => exists'[x] = "gone"
    BY <1>0, <1>4, <1>b DEF DeleteServer, DatabaseType, HandlerType, bounds
  <2>3. \/ GoOn(c, LastStop) /\ exists'[srv[c]] = "gone"
        \/ GoOn(c, <<Call("reconcile")>>)
    BY <1>0, <1>4, <1>b, <2>1 DEF DeleteServer, DatabaseType
  <2> QED  BY <1>a, <1>c, <2>1, <2>2, <2>3, GoOnIInv
<1>5. CASE RemoveServerStatus(c)
  <2>1. todo[c] = LastPurge /\ Tail(todo[c]) = <<>>
    BY <1>5, <1>b, ProgramShape DEF RemoveServerStatus
  <2>2. /\ DatabaseType' /\ UNCHANGED exists /\ faults' \in Nat
        /\ excused' \in [Servers -> SUBSET {"ended", "edit", "key"}]
        /\ purged' = purged \cup {srv[c]} /\ purged' \subseteq Servers
        /\ GoOn(c, <<>>)
    BY <1>0, <1>5, <1>b, <2>1 DEF RemoveServerStatus, DatabaseType, HandlerType, db, bounds
  <2> QED  BY <1>a, <1>c, <2>1, <2>2, GoOnIInv
<1> QED  BY <1>1, <1>2, <1>3, <1>4, <1>5 DEF HandlerStep

(* A goroutine of connect.Init that takes up a server preserves it.        *)
LEMMA BootIInv ==
    ASSUME IInv, NEW c \in Callers, BootStep(c)
    PROVE  IInv'
<1>1. PICK s \in Servers : Boot(c, s)
  BY DEF BootStep
<1>2. ~Inside(c) /\ UNCHANGED <<exists, purged>>
  BY <1>1 DEF Boot, Inside, InsidePlaces, db
<1>3. /\ <<Call("reconcile")>> \in Programs /\ <<Call("reconcile")>> # LastPurge
      /\ <<Call("reconcile")>> # LastStop /\ Entry(<<Call("reconcile")>>) = "lock"
  BY ProgramMembers, LastsDiffer, CallNames DEF Entry
<1>4. /\ todo' = [todo EXCEPT ![c] = <<Call("reconcile")>>]
      /\ pc' = [pc EXCEPT ![c] = Entry(<<Call("reconcile")>>)]
      /\ srv' = [srv EXCEPT ![c] = s]
      /\ UNCHANGED <<lock, pool, retryOf, rcancel, wst, wsrv, wset, wcancel, goal, got, victim, err>>
  BY <1>1, <1>3 DEF Boot, retries, workers, locals
<1>5. /\ DatabaseType' /\ toBoot' \subseteq Servers /\ purged' \subseteq Servers
      /\ ops' \in Nat /\ faults' \in Nat /\ crashes' \in Nat
      /\ excused' \in [Servers -> SUBSET {"ended", "edit", "key"}]
  BY <1>1 DEF Boot, IInv, TypeOK, DatabaseType, HandlerType, db, bounds
<1> QED  BY <1>2, <1>3, <1>4, <1>5, OutsideStep

-----------------------------------------------------------------------------
(* A worker that goes on and does not end preserves the invariant.         *)
LEMMA WorkerMoves ==
    ASSUME IInv, NEW w \in Workers, Live(w),
           NEW x \in {"delay", "dial", "paired", "online", "reload", "exit"},
           wst' = [wst EXCEPT ![w] = x],
           pinned' \in [Servers -> Nat],
           wset' \in [Workers -> [allow : BOOLEAN, cfg : Nat, key : Nat]],
           UNCHANGED <<WorkerKeeps, pool, wsrv, excused>>
    PROVE  IInv'
<1> USE LifecycleAssumption
<1>0. TypeOK /\ PlaceInv /\ LockInv /\ WorkerInv /\ RetryInv /\ PurgeInv
  BY DEF IInv
<1>1. UNCHANGED <<exists, allow, cfg, lock, retryOf, rcancel, wcancel, pc, srv, goal, got, victim, err,
                  todo, toBoot, ops, faults, crashes, purged, pool, wsrv, excused>>
  BY DEF WorkerKeeps, retries, locals, bounds
<1>2. TypeOK'
  <2>1. DatabaseType' /\ PoolType' /\ ThreadType' /\ HandlerType'
    BY <1>0, <1>1 DEF TypeOK, DatabaseType, PoolType, ThreadType, HandlerType
  <2>2. WorkerType'
    BY <1>0, <1>1 DEF TypeOK, WorkerType
  <2> QED  BY <2>1, <2>2 DEF TypeOK
<1>3. PlaceInv' /\ LockInv' /\ RetryInv'
  BY <1>0, <1>1 DEF PlaceInv, LockInv, RetryInv, Inside
<1>4. WorkerInv'
  <2>1. \A v \in Workers : /\ wst'[v] = "off" <=> wst[v] = "off"
                           /\ wst'[v] = "done" <=> wst[v] = "done"
    BY <1>0 DEF TypeOK, WorkerType, Live
  <2> QED  BY <1>0, <1>1, <2>1 DEF WorkerInv, Live
<1>5. PurgeInv'
  BY <1>0, <1>1 DEF PurgeInv, Downed
<1> QED  BY <1>2, <1>3, <1>4, <1>5 DEF IInv

(* A worker's steps preserve the invariant.                                *)
LEMMA WorkerIInv ==
    ASSUME IInv, NEW w \in Workers, WorkerStep(w)
    PROVE  IInv'
<1> USE LifecycleAssumption
<1>0. TypeOK /\ PlaceInv /\ LockInv /\ WorkerInv /\ RetryInv /\ PurgeInv
  BY DEF IInv
<1>a. wst[w] # "off" /\ wst[w] # "done" /\ wsrv[w] \in Servers
  <2>1. wst[w] # "off" /\ wst[w] # "done"
    BY DEF WorkerStep, WorkerDelay, PinActiveAgent, IdentityMismatch, WorkerConnects,
           WorkerGivesUp, WorkerDisconnects, WorkerReloads, finishOutboundServer
  <2> QED  BY <1>0, <2>1 DEF WorkerInv
<1>b. /\ pinned \in [Servers -> Nat]
      /\ wset \in [Workers -> [allow : BOOLEAN, cfg : Nat, key : Nat]]
  BY <1>0 DEF TypeOK, DatabaseType, WorkerType
<1>1. CASE WorkerDelay(w) \/ IdentityMismatch(w) \/ WorkerConnects(w) \/ WorkerGivesUp(w)
           \/ WorkerDisconnects(w)
  <2>1. PICK x \in {"delay", "dial", "paired", "online", "reload", "exit"} :
            wst' = [wst EXCEPT ![w] = x]
    BY <1>1 DEF WorkerDelay, IdentityMismatch, WorkerConnects, WorkerGivesUp, WorkerDisconnects
  <2>2. UNCHANGED <<WorkerKeeps, pinned, pool, wsrv, wset, excused>>
    BY <1>1 DEF WorkerDelay, IdentityMismatch, WorkerConnects, WorkerGivesUp, WorkerDisconnects
  <2> QED  BY <1>a, <1>b, <2>1, <2>2, WorkerMoves DEF Live
<1>2. CASE PinActiveAgent(w)
  <2>1. pinned' \in [Servers -> Nat]
    BY <1>2, <1>b DEF PinActiveAgent
  <2>2. wst' = [wst EXCEPT ![w] = "paired"] /\ UNCHANGED <<WorkerKeeps, pool, wsrv, wset, excused>>
    BY <1>2 DEF PinActiveAgent
  <2> QED  BY <1>a, <1>b, <2>1, <2>2, WorkerMoves DEF Live
<1>3. CASE WorkerReloads(w)
  <2>1. wset' \in [Workers -> [allow : BOOLEAN, cfg : Nat, key : Nat]]
    <3>1. pinned[wsrv[w]] \in Nat
      BY <1>a, <1>b
    <3> QED  BY <1>3, <1>b, <3>1 DEF WorkerReloads
  <2>2. wst' = [wst EXCEPT ![w] = "delay"] /\ UNCHANGED <<WorkerKeeps, pinned, pool, wsrv, excused>>
    BY <1>3 DEF WorkerReloads
  <2> QED  BY <1>a, <1>b, <2>1, <2>2, WorkerMoves DEF Live
<1>4. CASE finishOutboundServer(w)
  <2>1. UNCHANGED <<exists, allow, cfg, pinned, lock, retryOf, rcancel, wcancel, pc, srv, goal, got,
                    victim, err, todo, toBoot, ops, faults, crashes, purged>>
    BY <1>4 DEF finishOutboundServer, WorkerKeeps, retries, locals, bounds
  <2>2. DatabaseType' /\ ThreadType' /\ PlaceInv' /\ LockInv' /\ RetryInv'
    BY <1>0, <2>1 DEF TypeOK, DatabaseType, ThreadType, PlaceInv, LockInv, RetryInv, Inside
  <2>3. CASE pool[wsrv[w]] = w
    <3>1. /\ pool' = [pool EXCEPT ![wsrv[w]] = None]
          /\ wst' = [wst EXCEPT ![w] = "off"]
          /\ wsrv' = [wsrv EXCEPT ![w] = None]
          /\ wset' = [wset EXCEPT ![w] = NoSettings]
          /\ excused' = [excused EXCEPT ![wsrv[w]] = @ \cup {"ended"}]
      BY <1>4, <2>3 DEF finishOutboundServer
    <3>2. TypeOK'
      <4>1. PoolType' /\ WorkerType'
        BY <1>0, <2>1, <3>1 DEF TypeOK, PoolType, WorkerType, NoSettings
      <4>2. HandlerType'
        BY <1>0, <1>a, <2>1, <3>1 DEF TypeOK, HandlerType
      <4> QED  BY <2>2, <4>1, <4>2 DEF TypeOK
    <3>3. /\ \A v \in Workers \ {w} : wst'[v] = wst[v] /\ wsrv'[v] = wsrv[v]
          /\ wst'[w] = "off"
          /\ pool'[wsrv[w]] = None
          /\ \A s \in Servers \ {wsrv[w]} : pool'[s] = pool[s]
      BY <1>0, <1>a, <3>1 DEF TypeOK, PoolType, WorkerType
    <3>4. \A t \in Threads : pc[t] = "wait" => victim[t] # w
      BY <1>0, <2>3 DEF WorkerInv
    <3>5. WorkerInv'
      <4>1. \A v \in Workers \ {w} : pool[wsrv[v]] = v => wsrv[v] # wsrv[w]
        BY <2>3
      <4>2. \A v \in Workers : wst'[v] # "off" =>
                /\ wsrv'[v] \in Servers
                /\ \/ pool'[wsrv'[v]] = v
                   \/ \E t \in Threads : pc'[t] = "wait" /\ victim'[t] = v /\ srv'[t] = wsrv'[v]
        BY <1>0, <2>1, <3>3, <4>1 DEF WorkerInv
      <4>3. \A s \in Servers, v \in Workers : pool'[s] = v => Live(v)' /\ wsrv'[v] = s
        BY <1>0, <3>3 DEF WorkerInv, Live
      <4>4. \A t \in Threads : pc[t] \in {"wait", "register"} => pool'[srv[t]] = None
        <5>1. \A t \in Threads : pc[t] \in {"wait", "register"} => srv[t] \in Servers
          BY <1>0, InsideHasServer DEF Inside, InsidePlaces
        <5> QED  BY <1>0, <3>3, <5>1 DEF WorkerInv
      <4> QED  BY <1>0, <2>1, <3>3, <3>4, <4>2, <4>3, <4>4 DEF WorkerInv
    <3>6. PurgeInv'
      BY <1>0, <1>a, <2>1, <3>3 DEF PurgeInv, Downed
    <3> QED  BY <2>2, <3>2, <3>5, <3>6 DEF IInv
  <2>4. CASE pool[wsrv[w]] # w
    <3>1. wst' = [wst EXCEPT ![w] = "done"] /\ UNCHANGED <<pool, wsrv, wset, excused>>
      BY <1>4, <2>4 DEF finishOutboundServer
    <3>2. TypeOK'
      <4>1. PoolType' /\ WorkerType' /\ HandlerType'
        BY <1>0, <2>1, <3>1 DEF TypeOK, PoolType, WorkerType, HandlerType
      <4> QED  BY <2>2, <4>1 DEF TypeOK
    <3>3. (\A v \in Workers \ {w} : wst'[v] = wst[v]) /\ wst'[w] = "done"
      BY <1>0, <3>1 DEF TypeOK, WorkerType
    <3>4. \A s \in Servers : pool[s] # w
      BY <1>0, <2>4 DEF WorkerInv
    <3>5. WorkerInv'
      BY <1>0, <1>a, <2>1, <3>1, <3>3, <3>4 DEF WorkerInv, Live
    <3>6. PurgeInv'
      BY <1>0, <2>1, <3>1 DEF PurgeInv, Downed
    <3> QED  BY <2>2, <3>2, <3>5, <3>6 DEF IInv
  <2> QED  BY <2>3, <2>4
<1> QED  BY <1>1, <1>2, <1>3, <1>4 DEF WorkerStep

-----------------------------------------------------------------------------
(* Two goroutines inside the lifecycle of one server are the same one.     *)
LEMMA Exclusion ==
    ASSUME LockInv, NEW t \in Threads, NEW u \in Threads, Inside(t), Inside(u), srv[t] = srv[u]
    PROVE  t = u
BY DEF LockInv

(* Taking the lifecycle lock preserves the invariant: nobody else is       *)
(* inside, and the retry that is canceled was the server's own.            *)
LEMMA EnterLifecycleIInv ==
    ASSUME IInv, NEW c \in Threads, EnterLifecycle(c)
    PROVE  IInv'
<1> USE LifecycleAssumption
<1>0. TypeOK /\ PlaceInv /\ LockInv /\ WorkerInv /\ RetryInv /\ PurgeInv
  BY DEF IInv
<1> DEFINE s == srv[c]
           p == IF Head(todo[c]).call = "stop" THEN "take" ELSE "read"
<1>1. /\ c \in Callers /\ pc[c] = "lock" /\ lock[LockOf(s)] = None
      /\ lock' = [lock EXCEPT ![LockOf(s)] = c]
      /\ pc' = [pc EXCEPT ![c] = p]
      /\ retryOf' = [retryOf EXCEPT ![s] = None]
      /\ rcancel' = IF retryOf[s] = None THEN rcancel ELSE [rcancel EXCEPT ![retryOf[s]] = TRUE]
      /\ UNCHANGED <<exists, allow, cfg, pinned, pool, wst, wsrv, wset, wcancel, srv, goal, got,
                     victim, err, todo, toBoot, ops, faults, crashes, purged, excused>>
  BY DEF EnterLifecycle, cancelReconcileRetry, db, workers, locals, bounds
<1>2. s \in Servers /\ c \notin Retries /\ LockOf(s) \in Stripes
  BY <1>0, <1>1 DEF PlaceInv, LockOf
<1>3. /\ pc'[c] = p /\ p \in {"take", "read"}
      /\ \A t \in Threads \ {c} : pc'[t] = pc[t]
      /\ ~Inside(c) /\ Inside(c)'
      /\ \A t \in Threads \ {c} : Inside(t)' <=> Inside(t)
  BY <1>0, <1>1 DEF TypeOK, ThreadType, Inside, InsidePlaces
<1>4. \A t \in Threads : Inside(t) => LockOf(srv[t]) # LockOf(s) /\ srv[t] # s
  BY <1>0, <1>1 DEF LockInv, Threads
<1>5. /\ retryOf'[s] = None /\ \A x \in Servers \ {s} : retryOf'[x] = retryOf[x]
      /\ \A r \in Retries : retryOf[s] # r => rcancel'[r] = rcancel[r]
  BY <1>0, <1>1, <1>2 DEF TypeOK, PoolType
<1>6. TypeOK'
  <2>1. DatabaseType' /\ WorkerType' /\ HandlerType'
    BY <1>0, <1>1 DEF TypeOK, DatabaseType, WorkerType, HandlerType
  <2>2. ThreadType'
    BY <1>0, <1>1, <1>3 DEF TypeOK, ThreadType
  <2>3. PoolType'
    BY <1>0, <1>1 DEF TypeOK, PoolType
  <2> QED  BY <2>1, <2>2, <2>3 DEF TypeOK
<1>7. PlaceInv'
  <2>1. todo[c] # <<>> /\ Head(todo[c]).call \in {"stop", "reconcile"}
    BY <1>0, <1>1, <1>3, EntryPlaces DEF PlaceInv
  <2>2. goal[c] = "return"
    BY <1>0, <1>3 DEF PlaceInv
  <2> QED  BY <1>0, <1>1, <1>2, <1>3, <2>1, <2>2 DEF PlaceInv, Threads, InsidePlaces
<1>8. LockInv'
  <2>1. lock'[LockOf(s)] = c /\ \A i \in Stripes \ {LockOf(s)} : lock'[i] = lock[i]
    BY <1>0, <1>1, <1>2 DEF TypeOK, PoolType
  <2>2. \A t \in Threads : Inside(t) => LockOf(srv[t]) \in Stripes
    BY <1>0, InsideHasServer DEF LockOf
  <2> QED  BY <1>0, <1>1, <1>3, <1>4, <2>1, <2>2 DEF LockInv
<1>9. WorkerInv'
  BY <1>0, <1>1, <1>3 DEF WorkerInv, Live
<1>10. RetryInv'
  <2>1. ASSUME NEW x \in Servers, NEW r \in Retries, retryOf'[x] = r
        PROVE  pc'[r] # "off" /\ srv'[r] = x /\ ~rcancel'[r]
    <3>1. x # s /\ retryOf[x] = r
      BY <1>5, <2>1
    <3>2. retryOf[s] # r
      BY <1>0, <1>2, <3>1 DEF RetryInv
    <3> QED  BY <1>0, <1>1, <1>2, <1>3, <1>5, <3>1, <3>2 DEF RetryInv, Threads
  <2>2. \A r \in Retries : pc'[r] = "off" => ~rcancel'[r]
    BY <1>0, <1>2, <1>3, <1>5 DEF RetryInv, Threads
  <2>3. \A r \in Retries : Inside(r)' => retryOf'[srv'[r]] = r
    <3>1. \A r \in Retries : Inside(r) => srv[r] \in Servers
      BY <1>0, InsideHasServer DEF Threads
    <3> QED  BY <1>0, <1>1, <1>2, <1>3, <1>4, <1>5, <3>1 DEF RetryInv, Threads
  <2> QED  BY <2>1, <2>2, <2>3 DEF RetryInv
<1>11. PurgeInv'
  <2>1. \A x \in Servers : Downed(x)' => Downed(x)
    BY <1>1, <1>3 DEF Downed, Threads
  <2> QED  BY <1>0, <1>1, <1>3, <2>1 DEF PurgeInv
<1> QED  BY <1>6, <1>7, <1>8, <1>9, <1>10, <1>11 DEF IInv

(* A retry outside the lifecycle that gives up, because it was canceled or *)
(* replaced, preserves the invariant.                                      *)
LEMMA RetryEnds ==
    ASSUME IInv, NEW r \in Retries, pc[r] \in {"timer", "lock"}, rcancel[r] \/ retryOf[srv[r]] # r,
           pc' = [pc EXCEPT ![r] = "off"],
           srv' = [srv EXCEPT ![r] = None],
           rcancel' = [rcancel EXCEPT ![r] = FALSE],
           UNCHANGED <<db, lock, pool, retryOf, workers, locals, todo, toBoot, bounds, purged, excused>>
    PROVE  IInv'
<1> USE LifecycleAssumption
<1>0. TypeOK /\ PlaceInv /\ LockInv /\ WorkerInv /\ RetryInv /\ PurgeInv
  BY DEF IInv
<1>1. UNCHANGED <<exists, allow, cfg, pinned, lock, pool, retryOf, wst, wsrv, wset, wcancel, goal, got,
                  victim, err, todo, toBoot, ops, faults, crashes, purged, excused>>
  BY DEF db, workers, locals, bounds
<1>2. /\ r \in Threads /\ r \notin Callers
      /\ pc'[r] = "off" /\ srv'[r] = None /\ rcancel'[r] = FALSE
      /\ \A t \in Threads \ {r} : pc'[t] = pc[t] /\ srv'[t] = srv[t]
      /\ \A q \in Retries \ {r} : rcancel'[q] = rcancel[q]
      /\ ~Inside(r) /\ ~Inside(r)'
      /\ \A t \in Threads \ {r} : Inside(t)' <=> Inside(t)
  BY <1>0 DEF TypeOK, ThreadType, PoolType, Threads, Inside, InsidePlaces
<1>3. \A s \in Servers : retryOf[s] # r
  BY <1>0 DEF RetryInv
<1>4. TypeOK'
  <2>1. DatabaseType' /\ WorkerType' /\ HandlerType'
    BY <1>0, <1>1 DEF TypeOK, DatabaseType, WorkerType, HandlerType
  <2>2. ThreadType' /\ PoolType'
    BY <1>0, <1>1 DEF TypeOK, ThreadType, PoolType
  <2> QED  BY <2>1, <2>2 DEF TypeOK
<1>5. PlaceInv'
  BY <1>0, <1>1, <1>2 DEF PlaceInv, Threads
<1>6. LockInv'
  BY <1>0, <1>1, <1>2 DEF LockInv
<1>7. WorkerInv'
  BY <1>0, <1>1, <1>2 DEF WorkerInv, Live
<1>8. RetryInv'
  BY <1>0, <1>1, <1>2, <1>3 DEF RetryInv, Threads
<1>9. PurgeInv'
  <2>1. \A d \in Callers : pc'[d] = pc[d] /\ srv'[d] = srv[d]
    BY <1>2 DEF Threads
  <2>2. \A x \in Servers : Downed(x)' <=> Downed(x)
    BY <1>1, <2>1 DEF Downed
  <2>3. goal[r] = "return"
    BY <1>0, <1>2 DEF PlaceInv
  <2> QED  BY <1>0, <1>1, <1>2, <2>1, <2>2, <2>3 DEF PurgeInv
<1> QED  BY <1>4, <1>5, <1>6, <1>7, <1>8, <1>9 DEF IInv

(* The timer of a retry and its acquisition of the lock preserve it.       *)
LEMMA EnterRetryIInv ==
    ASSUME IInv, NEW r \in Threads, EnterRetry(r) \/ RetryTimer(r)
    PROVE  IInv'
<1> USE LifecycleAssumption
<1>0. TypeOK /\ PlaceInv /\ LockInv /\ WorkerInv /\ RetryInv /\ PurgeInv
  BY DEF IInv
<1>1. r \in Retries /\ r \notin Callers /\ pc[r] \in {"timer", "lock"} /\ srv[r] \in Servers
  <2>1. r \in Retries
    BY <1>0 DEF EnterRetry, RetryTimer, PlaceInv, Threads, InsidePlaces
  <2>2. pc[r] \in {"timer", "lock"}
    BY DEF EnterRetry, RetryTimer
  <2> QED  BY <1>0, <2>1, <2>2 DEF PlaceInv
<1>2. UNCHANGED <<exists, allow, cfg, pinned, pool, retryOf, wst, wsrv, wset, wcancel, goal, got,
                  victim, err, todo, toBoot, ops, faults, crashes, purged, excused>>
  BY DEF EnterRetry, RetryTimer, db, workers, locals, bounds
<1>3. CASE /\ pc' = [pc EXCEPT ![r] = "off"]
           /\ srv' = [srv EXCEPT ![r] = None]
           /\ rcancel' = [rcancel EXCEPT ![r] = FALSE]
           /\ UNCHANGED lock
           /\ rcancel[r] \/ retryOf[srv[r]] # r
  <2>1. UNCHANGED <<db, lock, pool, retryOf, workers, locals, todo, toBoot, bounds, purged, excused>>
    BY <1>2, <1>3 DEF db, workers, locals, bounds
  <2> QED  BY <1>1, <1>3, <2>1, RetryEnds
<1>4. CASE /\ pc[r] = "timer" /\ pc' = [pc EXCEPT ![r] = "lock"]
           /\ UNCHANGED <<lock, srv, rcancel>>
  <2>1. /\ pc'[r] = "lock" /\ \A t \in Threads \ {r} : pc'[t] = pc[t]
        /\ \A t \in Threads : Inside(t)' <=> Inside(t)
    BY <1>0, <1>1, <1>4 DEF TypeOK, ThreadType, Inside, InsidePlaces
  <2>2. TypeOK'
    <3>1. DatabaseType' /\ WorkerType' /\ HandlerType' /\ PoolType'
      BY <1>0, <1>2, <1>4 DEF TypeOK, DatabaseType, WorkerType, HandlerType, PoolType
    <3>2. ThreadType'
      BY <1>0, <1>2, <1>4 DEF TypeOK, ThreadType
    <3> QED  BY <3>1, <3>2 DEF TypeOK
  <2>3. PlaceInv'
    BY <1>0, <1>1, <1>2, <1>4, <2>1 DEF PlaceInv, Threads
  <2>4. LockInv' /\ WorkerInv'
    BY <1>0, <1>2, <1>4, <2>1 DEF LockInv, WorkerInv, Live
  <2>5. RetryInv'
    BY <1>0, <1>2, <1>4, <2>1 DEF RetryInv, Threads
  <2>6. PurgeInv'
    <3>1. \A d \in Callers : pc'[d] = pc[d]
      BY <1>1, <2>1 DEF Threads
    <3>2. \A x \in Servers : Downed(x)' <=> Downed(x)
      BY <1>2, <1>4, <3>1 DEF Downed
    <3> QED  BY <1>0, <1>2, <1>4, <2>1, <3>2 DEF PurgeInv
  <2> QED  BY <2>2, <2>3, <2>4, <2>5, <2>6 DEF IInv
<1>5. CASE /\ pc[r] = "lock" /\ lock[LockOf(srv[r])] = None /\ retryOf[srv[r]] = r
           /\ lock' = [lock EXCEPT ![LockOf(srv[r])] = r]
           /\ pc' = [pc EXCEPT ![r] = "read"]
           /\ UNCHANGED <<srv, rcancel>>
  <2>1. /\ pc'[r] = "read" /\ \A t \in Threads \ {r} : pc'[t] = pc[t]
        /\ ~Inside(r) /\ Inside(r)'
        /\ \A t \in Threads \ {r} : Inside(t)' <=> Inside(t)
    BY <1>0, <1>5 DEF TypeOK, ThreadType, Inside, InsidePlaces
  <2>2. TypeOK'
    <3>1. DatabaseType' /\ WorkerType' /\ HandlerType' /\ PoolType'
      BY <1>0, <1>2, <1>5 DEF TypeOK, DatabaseType, WorkerType, HandlerType, PoolType
    <3>2. ThreadType'
      BY <1>0, <1>2, <1>5 DEF TypeOK, ThreadType
    <3> QED  BY <3>1, <3>2 DEF TypeOK
  <2>3. PlaceInv'
    BY <1>0, <1>1, <1>2, <1>5, <2>1 DEF PlaceInv, Threads, InsidePlaces
  <2>4. LockInv'
    <3>1. \A t \in Threads : Inside(t) => LockOf(srv[t]) \in Stripes /\ LockOf(srv[t]) # LockOf(srv[r])
      BY <1>0, <1>5, InsideHasServer DEF LockInv, LockOf, Threads
    <3>2. lock'[LockOf(srv[r])] = r /\ \A i \in Stripes \ {LockOf(srv[r])} : lock'[i] = lock[i]
      BY <1>0, <1>1, <1>5 DEF TypeOK, PoolType, LockOf
    <3> QED  BY <1>0, <1>5, <2>1, <3>1, <3>2 DEF LockInv
  <2>5. WorkerInv'
    BY <1>0, <1>2, <1>5, <2>1 DEF WorkerInv, Live
  <2>6. RetryInv'
    BY <1>0, <1>2, <1>5, <2>1 DEF RetryInv, Threads
  <2>7. PurgeInv'
    <3>1. \A d \in Callers : pc'[d] = pc[d]
      BY <1>1, <2>1 DEF Threads
    <3>2. \A x \in Servers : Downed(x)' <=> Downed(x)
      BY <1>2, <1>5, <3>1 DEF Downed
    <3> QED  BY <1>0, <1>2, <1>5, <2>1, <3>2 DEF PurgeInv
  <2> QED  BY <2>2, <2>3, <2>4, <2>5, <2>6, <2>7 DEF IInv
<1>6. CASE EnterRetry(r)
  BY <1>3, <1>5, <1>6 DEF EnterRetry
<1>7. CASE RetryTimer(r)
  BY <1>3, <1>4, <1>7 DEF RetryTimer
<1> QED  BY <1>6, <1>7

-----------------------------------------------------------------------------
(* A read of the database inside the lifecycle preserves the invariant, if *)
(* it aims at no worker for a server that has been taken down.             *)
LEMMA ReadMoves ==
    ASSUME IInv, NEW t \in Threads, pc[t] \in {"read", "readKey", "load"},
           NEW p \in {"readKey", "take", "finish"}, NEW g \in {"return", "load", "register"},
           Downed(srv[t]) => g = "return",
           pc' = [pc EXCEPT ![t] = p],
           goal' = [goal EXCEPT ![t] = g],
           got' \in [Threads -> [allow : BOOLEAN, cfg : Nat, key : Nat]],
           err' \in [Threads -> BOOLEAN], faults' \in Nat,
           excused' \in [Servers -> SUBSET {"ended", "edit", "key"}],
           UNCHANGED <<exists, allow, cfg, pinned, lock, pool, retryOf, rcancel, wst, wsrv, wset,
                       wcancel, srv, victim, todo, toBoot, ops, crashes, purged>>
    PROVE  IInv'
<1> USE LifecycleAssumption
<1>0. TypeOK /\ PlaceInv /\ LockInv /\ WorkerInv /\ RetryInv /\ PurgeInv
  BY DEF IInv
<1>1. /\ pc'[t] = p /\ goal'[t] = g
      /\ \A u \in Threads \ {t} : pc'[u] = pc[u] /\ goal'[u] = goal[u]
      /\ Inside(t) /\ Inside(t)'
      /\ \A u \in Threads : Inside(u)' <=> Inside(u)
  BY <1>0 DEF TypeOK, ThreadType, Inside, InsidePlaces
<1>2. /\ t \in Callers => Head(todo[t]).call # "stop"
      /\ srv[t] \in Servers
  BY <1>0, <1>1, InsideHasServer DEF PlaceInv
<1>3. TypeOK'
  <2>1. DatabaseType' /\ WorkerType' /\ HandlerType' /\ PoolType'
    BY <1>0 DEF TypeOK, DatabaseType, WorkerType, HandlerType, PoolType
  <2>2. ThreadType'
    BY <1>0 DEF TypeOK, ThreadType
  <2> QED  BY <2>1, <2>2 DEF TypeOK
<1>4. PlaceInv'
  BY <1>0, <1>1, <1>2 DEF PlaceInv, Threads, InsidePlaces
<1>5. LockInv' /\ RetryInv'
  BY <1>0, <1>1 DEF LockInv, RetryInv, Threads
<1>6. WorkerInv'
  BY <1>0, <1>1 DEF WorkerInv, Live
<1>7. PurgeInv'
  <2>1. t \in Callers => todo[t] # LastStop
    BY <1>2, LastsDiffer
  <2>2. \A x \in Servers : Downed(x)' => Downed(x)
    BY <1>1, <2>1 DEF Downed, Threads
  <2> QED  BY <1>0, <1>1, <1>2, <2>2 DEF PurgeInv
<1> QED  BY <1>3, <1>4, <1>5, <1>6, <1>7 DEF IInv

(* The reads of reconcileServer and startServer preserve it: they find no  *)
(* live row of a deleted server.                                           *)
LEMMA ReadIInv ==
    ASSUME IInv, NEW t \in Threads, ReadServer(t) \/ ReadPublicKey(t) \/ LoadSettings(t)
    PROVE  IInv'
<1> USE LifecycleAssumption
<1>0. TypeOK /\ PlaceInv /\ PurgeInv
  BY DEF IInv
<1>1. pc[t] \in {"read", "readKey", "load"} /\ srv[t] \in Servers
  <2>1. pc[t] \in {"read", "readKey", "load"}
    BY DEF ReadServer, ReadPublicKey, LoadSettings
  <2> QED  BY <1>0, <2>1, InsideHasServer DEF Inside, InsidePlaces
<1>2. Downed(srv[t]) => exists[srv[t]] = "gone" /\ goal[t] = "return"
  BY <1>0, <1>1 DEF PurgeInv
<1>3. UNCHANGED <<exists, allow, cfg, pinned, lock, pool, retryOf, rcancel, wst, wsrv, wset,
                  wcancel, srv, victim, todo, toBoot, ops, crashes, purged>>
  BY DEF ReadServer, ReadPublicKey, LoadSettings, db, retries, workers
<1>4. goal = [goal EXCEPT ![t] = goal[t]] /\ goal[t] \in {"return", "load", "register"}
  BY <1>0 DEF TypeOK, ThreadType
<1>5. CASE ReadServer(t)
  <2>1. faults' \in Nat
    BY <1>0, <1>5 DEF ReadServer, TypeOK, HandlerType
  <2>2. err' \in [Threads -> BOOLEAN]
    BY <1>0, <1>5 DEF ReadServer, TypeOK, ThreadType
  <2>3. got' \in [Threads -> [allow : BOOLEAN, cfg : Nat, key : Nat]]
    <3>1. (allow[srv[t]] /\ exists[srv[t]] = "live") \in BOOLEAN
      OBVIOUS
    <3>2. \A b \in BOOLEAN : [got EXCEPT ![t].allow = b]
                               \in [Threads -> [allow : BOOLEAN, cfg : Nat, key : Nat]]
      BY <1>0 DEF TypeOK, ThreadType
    <3>3. got' = got \/ got' = [got EXCEPT ![t].allow = allow[srv[t]] /\ exists[srv[t]] = "live"]
      BY <1>5 DEF ReadServer
    <3> QED  BY <1>0, <3>1, <3>2, <3>3 DEF TypeOK, ThreadType
  <2>4. excused' \in [Servers -> SUBSET {"ended", "edit", "key"}]
    BY <1>0, <1>5 DEF ReadServer, TypeOK, HandlerType
  <2>5. PICK p \in {"readKey", "take", "finish"} : pc' = [pc EXCEPT ![t] = p]
    BY <1>5 DEF ReadServer
  <2>6. PICK g \in {"return", "load", "register"} :
            goal' = [goal EXCEPT ![t] = g] /\ (g = goal[t] \/ exists[srv[t]] = "live" \/ g = "return")
    BY <1>4, <1>5 DEF ReadServer
  <2>7. Downed(srv[t]) => g = "return"
    BY <1>2, <2>6
  <2> QED  BY <1>1, <1>3, <2>1, <2>2, <2>3, <2>4, <2>5, <2>6, <2>7, ReadMoves
<1>6. CASE ReadPublicKey(t)
  <2>1. faults' \in Nat
    BY <1>0, <1>6 DEF ReadPublicKey, TypeOK, HandlerType
  <2>2. err' \in [Threads -> BOOLEAN]
    BY <1>0, <1>6 DEF ReadPublicKey, TypeOK, ThreadType
  <2>3. /\ got' \in [Threads -> [allow : BOOLEAN, cfg : Nat, key : Nat]]
        /\ excused' \in [Servers -> SUBSET {"ended", "edit", "key"}]
        /\ pc' = [pc EXCEPT ![t] = "take"]
    BY <1>0, <1>6 DEF ReadPublicKey, TypeOK, ThreadType, HandlerType
  <2>4. PICK g \in {"return", "load", "register"} :
            goal' = [goal EXCEPT ![t] = g] /\ (g = goal[t] \/ exists[srv[t]] = "live" \/ g = "return")
    BY <1>4, <1>6 DEF ReadPublicKey
  <2>5. Downed(srv[t]) => g = "return"
    BY <1>2, <2>4
  <2> QED  BY <1>1, <1>3, <2>1, <2>2, <2>3, <2>4, <2>5, ReadMoves
<1>7. CASE LoadSettings(t)
  <2>1. faults' \in Nat
    BY <1>0, <1>7 DEF LoadSettings, TypeOK, HandlerType
  <2>2. err' \in [Threads -> BOOLEAN]
    BY <1>0, <1>7 DEF LoadSettings, TypeOK, ThreadType
  <2>3. got' \in [Threads -> [allow : BOOLEAN, cfg : Nat, key : Nat]]
    <3>1. cfg[srv[t]] \in Nat /\ pinned[srv[t]] \in Nat
      BY <1>0, <1>1 DEF TypeOK, DatabaseType
    <3>2. \A m, n \in Nat : [got EXCEPT ![t].cfg = m, ![t].key = n]
                             \in [Threads -> [allow : BOOLEAN, cfg : Nat, key : Nat]]
      BY <1>0, ZenonT(60) DEF TypeOK, ThreadType
    <3>3. got' = got \/ got' = [got EXCEPT ![t].cfg = cfg[srv[t]], ![t].key = pinned[srv[t]]]
      BY <1>7 DEF LoadSettings
    <3>4. CASE got' = got
      BY <1>0, <3>4 DEF TypeOK, ThreadType
    <3>5. CASE got' = [got EXCEPT ![t].cfg = cfg[srv[t]], ![t].key = pinned[srv[t]]]
      <4>1. [got EXCEPT ![t].cfg = cfg[srv[t]], ![t].key = pinned[srv[t]]]
                \in [Threads -> [allow : BOOLEAN, cfg : Nat, key : Nat]]
        BY <3>1, <3>2, Zenon
      <4> QED  BY <3>5, <4>1, Zenon
    <3> QED  BY <3>3, <3>4, <3>5
  <2>4. excused' \in [Servers -> SUBSET {"ended", "edit", "key"}]
    BY <1>0, <1>7 DEF LoadSettings, TypeOK, HandlerType
  <2>5. PICK p \in {"readKey", "take", "finish"} : pc' = [pc EXCEPT ![t] = p]
    BY <1>7 DEF LoadSettings
  <2>6. PICK g \in {"return", "load", "register"} : goal' = [goal EXCEPT ![t] = g]
    BY <1>4, <1>7 DEF LoadSettings
  <2>7. ~Downed(srv[t])
    BY <1>0, <1>2, <1>7 DEF LoadSettings, PlaceInv
  <2> QED  BY <1>1, <1>3, <2>1, <2>2, <2>3, <2>4, <2>5, <2>6, <2>7, ReadMoves
<1> QED  BY <1>5, <1>6, <1>7

-----------------------------------------------------------------------------
(* A goroutine whose stop is over, with no worker of its server left, may  *)
(* have taken a deleted server down; then nobody starts it again.          *)
LEMMA StopOver ==
    ASSUME IInv, NEW t \in Threads, pc[t] \in {"take", "wait"},
           pc' = [pc EXCEPT ![t] = AfterStop(t)],
           pool[srv[t]] = None,
           UNCHANGED <<exists, pool, srv, goal, todo, purged>>
    PROVE  PlaceInv' /\ PurgeInv' /\ pc'[t] \in {"load", "register", "finish"}
<1> USE LifecycleAssumption
<1>0. TypeOK /\ PlaceInv /\ LockInv /\ WorkerInv /\ RetryInv /\ PurgeInv
  BY DEF IInv
<1>1. /\ AfterStop(t) \in {"load", "register", "finish"}
      /\ AfterStop(t) = "finish" <=> goal[t] = "return"
      /\ AfterStop(t) = "load" <=> goal[t] = "load"
      /\ AfterStop(t) = "register" <=> goal[t] = "register"
  BY <1>0 DEF TypeOK, ThreadType, AfterStop
<1>2. /\ pc'[t] = AfterStop(t)
      /\ \A u \in Threads \ {t} : pc'[u] = pc[u]
      /\ Inside(t)
      /\ \A u \in Threads : Inside(u)' <=> Inside(u)
  BY <1>0, <1>1 DEF TypeOK, ThreadType, Inside, InsidePlaces
<1>3. PlaceInv'
  BY <1>0, <1>1, <1>2 DEF PlaceInv, Threads, InsidePlaces
<1>4. srv[t] \in Servers
  BY <1>0, <1>2, InsideHasServer
<1>5. PurgeInv'
  <2>1. \A c \in Callers : todo'[c] \in {LastStop, LastPurge} => exists'[srv'[c]] = "gone"
    BY <1>0 DEF PurgeInv
  <2>2. ASSUME NEW s \in Servers, Downed(s)
        PROVE  /\ exists'[s] = "gone" /\ pool'[s] = None
               /\ \A u \in Threads : srv'[u] = s => pc'[u] # "wait" /\ goal'[u] = "return"
    BY <1>0, <1>1, <1>2, <2>2 DEF PurgeInv
  <2>3. ASSUME NEW s \in Servers, Downed(s)', ~Downed(s)
        PROVE  /\ exists'[s] = "gone" /\ pool'[s] = None
               /\ \A u \in Threads : srv'[u] = s => pc'[u] # "wait" /\ goal'[u] = "return"
    <3>1. t \in Callers /\ todo[t] = LastStop /\ srv[t] = s /\ pc'[t] = "finish"
      BY <1>2, <2>3 DEF Downed, Threads
    <3>2. goal[t] = "return" /\ exists[s] = "gone"
      BY <1>0, <1>1, <1>2, <3>1 DEF PurgeInv
    <3>3. ASSUME NEW u \in Threads, srv[u] = s, u # t
          PROVE  pc'[u] # "wait" /\ goal[u] = "return"
      <4>1. ~Inside(u)
        BY <1>0, <1>2, <3>1, <3>3, Exclusion
      <4> QED  BY <1>0, <1>2, <3>3, <4>1 DEF PlaceInv, Inside, InsidePlaces
    <3> QED  BY <1>1, <1>2, <3>1, <3>2, <3>3
  <2> QED  BY <2>1, <2>2, <2>3 DEF PurgeInv
<1> QED  BY <1>1, <1>2, <1>3, <1>5

(* Taking the worker out of the pool preserves the invariant.              *)
LEMMA TakeEntryIInv ==
    ASSUME IInv, NEW t \in Threads, TakeEntry(t)
    PROVE  IInv'
<1> USE LifecycleAssumption
<1>0. TypeOK /\ PlaceInv /\ LockInv /\ WorkerInv /\ RetryInv /\ PurgeInv
  BY DEF IInv
<1>1. /\ pc[t] = "take"
      /\ UNCHANGED <<exists, allow, cfg, pinned, lock, retryOf, rcancel, wst, wsrv, wset, srv, goal,
                     got, err, todo, toBoot, ops, faults, crashes, purged, excused>>
  BY DEF TakeEntry, db, retries, bounds
<1>2. Inside(t) /\ srv[t] \in Servers
  BY <1>0, <1>1, InsideHasServer DEF Inside, InsidePlaces
<1>3. DatabaseType' /\ HandlerType'
  BY <1>0, <1>1 DEF TypeOK, DatabaseType, HandlerType
<1>4. CASE pool[srv[t]] = None
  <2>1. pc' = [pc EXCEPT ![t] = AfterStop(t)] /\ UNCHANGED <<pool, victim, wcancel>>
    BY <1>4 DEF TakeEntry
  <2>2. PlaceInv' /\ PurgeInv' /\ pc'[t] \in {"load", "register", "finish"}
    BY <1>1, <1>4, <2>1, StopOver
  <2>3. /\ \A u \in Threads \ {t} : pc'[u] = pc[u]
        /\ \A u \in Threads : Inside(u)' <=> Inside(u)
    BY <1>0, <1>2, <2>1, <2>2 DEF TypeOK, ThreadType, Inside, InsidePlaces
  <2>4. TypeOK'
    <3>1. AfterStop(t) \in {"load", "register", "finish"}
      BY <1>0 DEF TypeOK, ThreadType, AfterStop
    <3>2. PoolType' /\ WorkerType'
      BY <1>0, <1>1, <2>1 DEF TypeOK, PoolType, WorkerType
    <3>3. ThreadType'
      BY <1>0, <1>1, <2>1, <3>1 DEF TypeOK, ThreadType
    <3> QED  BY <1>3, <3>2, <3>3 DEF TypeOK
  <2>5. LockInv'
    BY <1>0, <1>1, <2>3 DEF LockInv
  <2>6. WorkerInv'
    BY <1>0, <1>1, <1>4, <2>1, <2>2, <2>3 DEF WorkerInv, Live
  <2>7. RetryInv'
    BY <1>0, <1>1, <2>2, <2>3 DEF RetryInv, Threads
  <2> QED  BY <2>2, <2>4, <2>5, <2>6, <2>7 DEF IInv
<1>5. CASE pool[srv[t]] # None
  <2> DEFINE w == pool[srv[t]]
             s == srv[t]
  <2>1. /\ pool' = [pool EXCEPT ![s] = None]
        /\ wcancel' = [wcancel EXCEPT ![w] = TRUE]
        /\ victim' = [victim EXCEPT ![t] = w]
        /\ pc' = [pc EXCEPT ![t] = "wait"]
    BY <1>5 DEF TakeEntry
  <2>2. w \in Workers /\ Live(w) /\ wsrv[w] = s
    BY <1>0, <1>2, <1>5 DEF TypeOK, PoolType, WorkerInv
  <2>3. /\ pc'[t] = "wait" /\ victim'[t] = w /\ pool'[s] = None
        /\ \A u \in Threads \ {t} : pc'[u] = pc[u] /\ victim'[u] = victim[u]
        /\ \A x \in Servers \ {s} : pool'[x] = pool[x]
        /\ \A u \in Threads : Inside(u)' <=> Inside(u)
    BY <1>0, <1>2, <2>1 DEF TypeOK, PoolType, ThreadType, Inside, InsidePlaces
  <2>4. TypeOK'
    <3>1. PoolType' /\ WorkerType'
      BY <1>0, <1>1, <2>1, <2>2 DEF TypeOK, PoolType, WorkerType
    <3>2. ThreadType'
      BY <1>0, <1>1, <2>1, <2>2 DEF TypeOK, ThreadType
    <3> QED  BY <1>3, <3>1, <3>2 DEF TypeOK
  <2>5. PlaceInv'
    BY <1>0, <1>1, <1>2, <2>3 DEF PlaceInv, Threads, InsidePlaces
  <2>6. LockInv'
    BY <1>0, <1>1, <2>3 DEF LockInv
  <2>7. WorkerInv'
    <3>1. ASSUME NEW v \in Workers, wst[v] # "off"
          PROVE  /\ wsrv[v] \in Servers
                 /\ \/ pool'[wsrv[v]] = v
                    \/ \E u \in Threads : pc'[u] = "wait" /\ victim'[u] = v /\ srv[u] = wsrv[v]
      <4>1. CASE v = w
        BY <1>2, <2>2, <2>3, <4>1
      <4>2. CASE v # w /\ pool[wsrv[v]] = v
        BY <1>0, <2>3, <3>1, <4>2 DEF WorkerInv
      <4>3. CASE pool[wsrv[v]] # v
        <5>1. PICK u \in Threads : pc[u] = "wait" /\ victim[u] = v /\ srv[u] = wsrv[v]
          BY <1>0, <3>1, <4>3 DEF WorkerInv
        <5>2. u # t
          BY <1>1, <5>1
        <5> QED  BY <1>0, <2>3, <3>1, <5>1, <5>2 DEF WorkerInv
      <4> QED  BY <4>1, <4>2, <4>3
    <3>2. \A x \in Servers, v \in Workers : pool'[x] = v => Live(v)' /\ wsrv'[v] = x
      BY <1>0, <1>1, <2>3 DEF WorkerInv, Live
    <3>3. \A u \in Threads : pc'[u] = "wait" =>
              victim'[u] \in Workers /\ wst'[victim'[u]] # "off" /\ wsrv'[victim'[u]] = srv'[u]
      BY <1>0, <1>1, <2>2, <2>3 DEF WorkerInv, Live
    <3>4. \A u \in Threads : pc'[u] \in {"wait", "register"} => pool'[srv'[u]] = None
      <4>1. \A u \in Threads : pc'[u] \in {"wait", "register"} => srv[u] \in Servers
        BY <1>0, <1>2, <2>3, InsideHasServer DEF Inside, InsidePlaces
      <4> QED  BY <1>0, <1>1, <2>3, <4>1 DEF WorkerInv
    <3> QED  BY <1>1, <3>1, <3>2, <3>3, <3>4 DEF WorkerInv
  <2>8. RetryInv'
    BY <1>0, <1>1, <2>3 DEF RetryInv, Threads
  <2>9. PurgeInv'
    <3>1. \A x \in Servers : Downed(x)' => Downed(x)
      BY <1>1, <2>3 DEF Downed, Threads
    <3>2. ~Downed(s)
      BY <1>0, <1>2, <1>5 DEF PurgeInv
    <3> QED  BY <1>0, <1>1, <2>3, <3>1, <3>2 DEF PurgeInv
  <2> QED  BY <2>4, <2>5, <2>6, <2>7, <2>8, <2>9 DEF IInv
<1> QED  BY <1>4, <1>5

(* The end of the wait preserves it: nobody else waits for the worker.     *)
LEMMA AwaitDoneIInv ==
    ASSUME IInv, NEW t \in Threads, AwaitDone(t)
    PROVE  IInv'
<1> USE LifecycleAssumption
<1>0. TypeOK /\ PlaceInv /\ LockInv /\ WorkerInv /\ RetryInv /\ PurgeInv
  BY DEF IInv
<1> DEFINE w == victim[t]
<1>1. /\ pc[t] = "wait" /\ wst[w] = "done"
      /\ wst' = [wst EXCEPT ![w] = "off"]
      /\ wsrv' = [wsrv EXCEPT ![w] = None]
      /\ wset' = [wset EXCEPT ![w] = NoSettings]
      /\ wcancel' = [wcancel EXCEPT ![w] = FALSE]
      /\ victim' = [victim EXCEPT ![t] = None]
      /\ pc' = [pc EXCEPT ![t] = AfterStop(t)]
      /\ UNCHANGED <<exists, allow, cfg, pinned, lock, pool, retryOf, rcancel, srv, goal,
                     got, err, todo, toBoot, ops, faults, crashes, purged, excused>>
  BY DEF AwaitDone, db, retries, bounds
<1>2. Inside(t) /\ srv[t] \in Servers
  BY <1>0, <1>1, InsideHasServer DEF Inside, InsidePlaces
<1>3. w \in Workers /\ wsrv[w] = srv[t] /\ pool[srv[t]] = None
  BY <1>0, <1>1 DEF WorkerInv
<1>4. PlaceInv' /\ PurgeInv' /\ pc'[t] \in {"load", "register", "finish"}
  BY <1>1, <1>3, StopOver
<1>5. /\ \A u \in Threads \ {t} : pc'[u] = pc[u] /\ victim'[u] = victim[u]
      /\ \A u \in Threads : Inside(u)' <=> Inside(u)
      /\ wst'[w] = "off"
      /\ \A v \in Workers \ {w} : wst'[v] = wst[v] /\ wsrv'[v] = wsrv[v]
  BY <1>0, <1>1, <1>2, <1>3, <1>4 DEF TypeOK, ThreadType, WorkerType, Inside, InsidePlaces
<1>6. TypeOK'
  <2>1. DatabaseType' /\ HandlerType' /\ PoolType'
    BY <1>0, <1>1 DEF TypeOK, DatabaseType, HandlerType, PoolType
  <2>2. WorkerType'
    BY <1>0, <1>1 DEF TypeOK, WorkerType, NoSettings
  <2>3. AfterStop(t) \in {"load", "register", "finish"}
    BY <1>0 DEF TypeOK, ThreadType, AfterStop
  <2>4. ThreadType'
    BY <1>0, <1>1, <2>3 DEF TypeOK, ThreadType
  <2> QED  BY <2>1, <2>2, <2>4 DEF TypeOK
<1>7. LockInv'
  BY <1>0, <1>1, <1>5 DEF LockInv
<1>8. WorkerInv'
  <2>1. \A u \in Threads \ {t} : pc[u] = "wait" => victim[u] # w
    <3> SUFFICES ASSUME NEW u \in Threads, pc[u] = "wait", victim[u] = w
                 PROVE  u = t
      OBVIOUS
    <3>1. srv[u] = srv[t] /\ Inside(u)
      BY <1>0, <1>3 DEF WorkerInv, Inside, InsidePlaces
    <3> QED  BY <1>0, <1>2, <3>1, Exclusion
  <2>2. \A x \in Servers : pool[x] # w
    BY <1>0, <1>1, <1>3 DEF WorkerInv, Live
  <2>3. ASSUME NEW v \in Workers, wst'[v] # "off"
        PROVE  /\ wsrv'[v] \in Servers
               /\ \/ pool'[wsrv'[v]] = v
                  \/ \E u \in Threads : pc'[u] = "wait" /\ victim'[u] = v /\ srv'[u] = wsrv'[v]
    <3>1. v # w /\ wst[v] # "off" /\ wsrv'[v] = wsrv[v] /\ wsrv[v] \in Servers
      BY <1>0, <1>5, <2>3 DEF WorkerInv
    <3>2. CASE pool[wsrv[v]] = v
      BY <1>1, <3>1, <3>2
    <3>3. CASE pool[wsrv[v]] # v
      <4>1. PICK u \in Threads : pc[u] = "wait" /\ victim[u] = v /\ srv[u] = wsrv[v]
        BY <1>0, <3>1, <3>3 DEF WorkerInv
      <4>2. u # t
        BY <3>1, <4>1
      <4> QED  BY <1>1, <1>5, <3>1, <4>1, <4>2
    <3> QED  BY <3>2, <3>3
  <2>4. \A x \in Servers, v \in Workers : pool'[x] = v => Live(v)' /\ wsrv'[v] = x
    BY <1>0, <1>1, <1>5, <2>2 DEF WorkerInv, Live
  <2>5. \A u \in Threads : pc'[u] = "wait" =>
            victim'[u] \in Workers /\ wst'[victim'[u]] # "off" /\ wsrv'[victim'[u]] = srv'[u]
    BY <1>0, <1>1, <1>4, <1>5, <2>1 DEF WorkerInv
  <2>6. \A u \in Threads : pc'[u] \in {"wait", "register"} => pool'[srv'[u]] = None
    BY <1>0, <1>1, <1>3, <1>5 DEF WorkerInv
  <2> QED  BY <2>3, <2>4, <2>5, <2>6 DEF WorkerInv
<1>9. RetryInv'
  BY <1>0, <1>1, <1>4, <1>5 DEF RetryInv, Threads
<1> QED  BY <1>4, <1>6, <1>7, <1>8, <1>9 DEF IInv

(* startServer's registration preserves it: whoever registers a worker     *)
(* holds the lock and has found the pool empty.                            *)
LEMMA RegisterIInv ==
    ASSUME IInv, NEW t \in Threads, Register(t)
    PROVE  IInv'
<1> USE LifecycleAssumption
<1>0. TypeOK /\ PlaceInv /\ LockInv /\ WorkerInv /\ RetryInv /\ PurgeInv
  BY DEF IInv
<1> DEFINE s == srv[t]
<1>1. PICK w \in Workers :
          /\ wst[w] = "off"
          /\ pool' = [pool EXCEPT ![s] = w]
          /\ wst' = [wst EXCEPT ![w] = "delay"]
          /\ wsrv' = [wsrv EXCEPT ![w] = s]
          /\ wset' = [wset EXCEPT ![w] = got[t]]
  BY DEF Register
<1>2. /\ pc[t] = "register"
      /\ pc' = [pc EXCEPT ![t] = "finish"]
      /\ excused' = [excused EXCEPT ![s] = @ \ {"ended", "edit"}]
      /\ UNCHANGED <<exists, allow, cfg, pinned, lock, retryOf, rcancel, wcancel, srv, goal, got, victim,
                     err, todo, toBoot, ops, faults, crashes, purged>>
  BY DEF Register, db, retries, locals, bounds
<1>3. Inside(t) /\ s \in Servers /\ goal[t] = "register" /\ pool[s] = None
  BY <1>0, <1>2, InsideHasServer DEF Inside, InsidePlaces, PlaceInv, WorkerInv
<1>4. /\ pc'[t] = "finish" /\ pool'[s] = w /\ wst'[w] = "delay" /\ wsrv'[w] = s
      /\ \A u \in Threads \ {t} : pc'[u] = pc[u]
      /\ \A x \in Servers \ {s} : pool'[x] = pool[x]
      /\ \A v \in Workers \ {w} : wst'[v] = wst[v] /\ wsrv'[v] = wsrv[v]
      /\ \A u \in Threads : Inside(u)' <=> Inside(u)
  BY <1>0, <1>1, <1>2, <1>3 DEF TypeOK, PoolType, WorkerType, ThreadType, Inside, InsidePlaces
<1>5. TypeOK'
  <2>1. DatabaseType' /\ HandlerType'
    BY <1>0, <1>2, <1>3 DEF TypeOK, DatabaseType, HandlerType
  <2>2. PoolType'
    BY <1>0, <1>1, <1>2 DEF TypeOK, PoolType
  <2>3. WorkerType'
    <3>1. got[t] \in [allow : BOOLEAN, cfg : Nat, key : Nat]
      BY <1>0 DEF TypeOK, ThreadType
    <3> QED  BY <1>0, <1>1, <1>2, <1>3, <3>1 DEF TypeOK, WorkerType
  <2>4. ThreadType'
    BY <1>0, <1>2 DEF TypeOK, ThreadType
  <2> QED  BY <2>1, <2>2, <2>3, <2>4 DEF TypeOK
<1>6. PlaceInv'
  BY <1>0, <1>2, <1>3, <1>4 DEF PlaceInv, Threads, InsidePlaces
<1>7. LockInv'
  BY <1>0, <1>2, <1>4 DEF LockInv
<1>8. WorkerInv'
  <2>1. \A u \in Threads \ {t} : pc[u] \in {"wait", "register"} => srv[u] \in Servers \ {s}
    BY <1>0, <1>3, Exclusion, InsideHasServer DEF Inside, InsidePlaces
  <2>2. ASSUME NEW v \in Workers, wst'[v] # "off"
        PROVE  /\ wsrv'[v] \in Servers
               /\ \/ pool'[wsrv'[v]] = v
                  \/ \E u \in Threads : pc'[u] = "wait" /\ victim'[u] = v /\ srv'[u] = wsrv'[v]
    <3>1. CASE v = w
      BY <1>3, <1>4, <3>1
    <3>2. CASE v # w
      <4>1. wst[v] # "off" /\ wsrv'[v] = wsrv[v] /\ wsrv[v] \in Servers
        BY <1>0, <1>4, <2>2, <3>2 DEF WorkerInv
      <4>2. CASE pool[wsrv[v]] = v
        BY <1>3, <1>4, <4>1, <4>2
      <4>3. CASE pool[wsrv[v]] # v
        <5>1. PICK u \in Threads : pc[u] = "wait" /\ victim[u] = v /\ srv[u] = wsrv[v]
          BY <1>0, <4>1, <4>3 DEF WorkerInv
        <5> QED  BY <1>2, <1>4, <4>1, <5>1
      <4> QED  BY <4>2, <4>3
    <3> QED  BY <3>1, <3>2
  <2>3. \A x \in Servers, v \in Workers : pool'[x] = v => Live(v)' /\ wsrv'[v] = x
    <3>1. \A x \in Servers : pool[x] # w
      BY <1>0, <1>1 DEF WorkerInv, Live
    <3> QED  BY <1>0, <1>4, <3>1 DEF WorkerInv, Live
  <2>4. \A u \in Threads : pc'[u] = "wait" =>
            victim'[u] \in Workers /\ wst'[victim'[u]] # "off" /\ wsrv'[victim'[u]] = srv'[u]
    BY <1>0, <1>1, <1>2, <1>4 DEF WorkerInv
  <2>5. \A u \in Threads : pc'[u] \in {"wait", "register"} => pool'[srv'[u]] = None
    BY <1>0, <1>2, <1>4, <2>1 DEF WorkerInv
  <2> QED  BY <2>2, <2>3, <2>4, <2>5 DEF WorkerInv
<1>9. RetryInv'
  BY <1>0, <1>2, <1>4 DEF RetryInv, Threads
<1>10. PurgeInv'
  <2>1. t \in Callers => todo[t] # LastStop
    BY <1>0, <1>2, <1>3, LastsDiffer DEF PlaceInv
  <2>2. \A x \in Servers : Downed(x)' => Downed(x)
    BY <1>2, <1>4, <2>1 DEF Downed, Threads
  <2>3. ~Downed(s)
    BY <1>0, <1>3 DEF PurgeInv
  <2> QED  BY <1>0, <1>2, <1>4, <2>2, <2>3 DEF PurgeInv
<1> QED  BY <1>5, <1>6, <1>7, <1>8, <1>9, <1>10 DEF IInv

-----------------------------------------------------------------------------
(* The lifecycle lock that t releases is nobody else's.                    *)
LEMMA Unlock ==
    ASSUME IInv, NEW t \in Threads, Inside(t), lock' = [lock EXCEPT ![LockOf(srv[t])] = None]
    PROVE  /\ lock' \in [Stripes -> Threads \cup {None}]
           /\ \A u \in Threads \ {t} : Inside(u) => lock'[LockOf(srv[u])] = u
<1> USE LifecycleAssumption
<1>0. TypeOK /\ PlaceInv /\ LockInv
  BY DEF IInv
<1>1. \A u \in Threads : Inside(u) => LockOf(srv[u]) \in Stripes /\ lock[LockOf(srv[u])] = u
  BY <1>0, InsideHasServer DEF LockInv, LockOf
<1> QED  BY <1>0, <1>1 DEF TypeOK, PoolType

(* A handler that leaves the lifecycle and goes on preserves the           *)
(* invariant: if it is about to purge, it has just taken the server down.  *)
LEMMA LeaveAndGoOn ==
    ASSUME IInv, NEW c \in Callers, LeaveLifecycle(c), ~err[c]
    PROVE  IInv'
<1> USE LifecycleAssumption
<1>0. TypeOK /\ PlaceInv /\ LockInv /\ WorkerInv /\ RetryInv /\ PurgeInv
  BY DEF IInv
<1> DEFINE calls == Tail(todo[c])
           s == IF calls = <<>> THEN None ELSE srv[c]
<1>1. /\ pc[c] = "finish"
      /\ todo' = [todo EXCEPT ![c] = calls]
      /\ pc' = [pc EXCEPT ![c] = Entry(calls)]
      /\ srv' = [srv EXCEPT ![c] = s]
      /\ lock' = [lock EXCEPT ![LockOf(srv[c])] = None]
      /\ err' = [err EXCEPT ![c] = FALSE]
      /\ goal' = [goal EXCEPT ![c] = "return"]
      /\ got' = [got EXCEPT ![c] = NoSettings]
      /\ UNCHANGED <<exists, allow, cfg, pinned, pool, retryOf, rcancel, wst, wsrv, wset, wcancel, victim,
                     toBoot, ops, faults, crashes, purged, excused>>
  BY DEF LeaveLifecycle, GoOn, db, workers, bounds
<1>2. /\ c \in Threads /\ c \notin Retries /\ Inside(c) /\ srv[c] \in Servers
      /\ todo[c] \in Programs /\ todo[c] # <<>> /\ Head(todo[c]).call \in {"stop", "reconcile"}
  BY <1>0, <1>1 DEF PlaceInv, Threads, Inside, InsidePlaces
<1>3. /\ calls \in Programs
      /\ calls = LastPurge => todo[c] = LastStop
      /\ calls # LastStop
      /\ Entry(calls) \in {"idle", "lock", "edit", "delete", "purge", "list"}
      /\ Entry(calls) = "idle" <=> calls = <<>>
  BY <1>2, ProgramShape, EntryPlaces
<1>4. s \in Servers \cup {None} /\ (calls # <<>> => s = srv[c]) /\ (calls = <<>> => s = None)
  BY <1>2
<1> HIDE DEF calls, s
<1>5. /\ todo'[c] = calls /\ pc'[c] = Entry(calls) /\ srv'[c] = s /\ goal'[c] = "return"
      /\ \A t \in Threads \ {c} : pc'[t] = pc[t] /\ srv'[t] = srv[t] /\ goal'[t] = goal[t]
      /\ \A d \in Callers \ {c} : todo'[d] = todo[d]
      /\ ~Inside(c)'
      /\ \A t \in Threads \ {c} : Inside(t)' <=> Inside(t)
      /\ pc[c] # "wait" /\ pc'[c] # "wait" /\ pc'[c] # "register"
  <2>1. /\ todo'[c] = calls /\ pc'[c] = Entry(calls) /\ srv'[c] = s /\ goal'[c] = "return"
        /\ \A t \in Threads \ {c} : pc'[t] = pc[t] /\ srv'[t] = srv[t] /\ goal'[t] = goal[t]
        /\ \A d \in Callers \ {c} : todo'[d] = todo[d]
    BY <1>0, <1>1, <1>2 DEF TypeOK, ThreadType, HandlerType
  <2> QED  BY <1>1, <1>3, <2>1 DEF Inside, InsidePlaces
<1>6. TypeOK'
  <2>1. DatabaseType' /\ WorkerType'
    BY <1>0, <1>1 DEF TypeOK, DatabaseType, WorkerType
  <2>2. HandlerType'
    <3>1. todo' \in [Callers -> Seq([call : {"stop", "reconcile", "edit", "delete", "purge", "list"},
                                     want : BOOLEAN, last : BOOLEAN])]
      BY <1>0, <1>1, <1>3, ProgramType DEF TypeOK, HandlerType, CallRecords
    <3> QED  BY <1>0, <1>1, <3>1 DEF TypeOK, HandlerType
  <2>3. PoolType'
    BY <1>0, <1>1, <1>2, Unlock DEF TypeOK, PoolType
  <2>4. ThreadType'
    BY <1>0, <1>1, <1>3, <1>4 DEF TypeOK, ThreadType, NoSettings
  <2> QED  BY <2>1, <2>2, <2>3, <2>4 DEF TypeOK
<1>7. PlaceInv'
  BY <1>0, <1>2, <1>3, <1>4, <1>5 DEF PlaceInv, Threads
<1>8. LockInv'
  <2>1. \A u \in Threads \ {c} : Inside(u) => lock'[LockOf(srv[u])] = u
    BY <1>1, <1>2, Unlock
  <2> QED  BY <1>5, <2>1 DEF LockInv, LockOf
<1>9. WorkerInv'
  <2>1. \A w \in Workers, t \in Threads :
            pc[t] = "wait" /\ victim[t] = w /\ srv[t] = wsrv[w]
            => pc'[t] = "wait" /\ victim'[t] = w /\ srv'[t] = wsrv'[w]
    BY <1>1, <1>5
  <2> QED  BY <1>0, <1>1, <1>5, <2>1 DEF WorkerInv, Live
<1>10. RetryInv'
  BY <1>0, <1>1, <1>2, <1>5 DEF RetryInv, Threads
<1>11. PurgeInv'
  <2>1. ASSUME NEW d \in Callers, todo'[d] \in {LastStop, LastPurge}
        PROVE  exists'[srv'[d]] = "gone"
    <3>1. CASE d = c
      <4>1. calls = LastPurge /\ todo[c] = LastStop /\ s = srv[c]
        BY <1>3, <1>4, <1>5, <2>1, <3>1, LastsDiffer
      <4> QED  BY <1>0, <1>1, <1>5, <3>1, <4>1 DEF PurgeInv
    <3>2. CASE d # c
      BY <1>0, <1>1, <1>5, <2>1, <3>2 DEF PurgeInv, Threads
    <3> QED  BY <3>1, <3>2
  <2>2. ASSUME NEW x \in Servers, Downed(x)'
        PROVE  Downed(x)
    <3>1. CASE x \in purged'
      BY <1>1, <3>1 DEF Downed
    <3>2. ASSUME NEW d \in Callers, srv'[d] = x,
                 todo'[d] = LastPurge \/ (todo'[d] = LastStop /\ pc'[d] = "finish")
          PROVE  Downed(x)
      <4>1. CASE d = c
        <5>1. calls = LastPurge /\ todo[c] = LastStop /\ s = srv[c]
          BY <1>3, <1>4, <1>5, <3>2, <4>1, LastsDiffer
        <5> QED  BY <1>1, <1>5, <3>2, <4>1, <5>1 DEF Downed
      <4>2. CASE d # c
        BY <1>5, <3>2, <4>2 DEF Downed, Threads
      <4> QED  BY <4>1, <4>2
    <3> QED  BY <2>2, <3>1, <3>2 DEF Downed
  <2> QED  BY <1>0, <1>1, <1>5, <2>1, <2>2 DEF PurgeInv
<1> QED  BY <1>6, <1>7, <1>8, <1>9, <1>10, <1>11 DEF IInv

(* A handler whose reconciliation has failed preserves it: the retry it    *)
(* leaves behind is the server's only one, as the pending one was canceled *)
(* and only the holder of the lock registers another.                      *)
LEMMA LeaveWithRetry ==
    ASSUME IInv, NEW c \in Callers, LeaveLifecycle(c), err[c]
    PROVE  IInv'
<1> USE LifecycleAssumption
<1>0. TypeOK /\ PlaceInv /\ LockInv /\ WorkerInv /\ RetryInv /\ PurgeInv
  BY DEF IInv
<1> DEFINE s == srv[c]
<1>1. PICK r \in Retries :
          /\ pc[r] = "off"
          /\ retryOf' = [retryOf EXCEPT ![s] = r]
          /\ srv' = [srv EXCEPT ![r] = s, ![c] = None]
          /\ pc' = [pc EXCEPT ![r] = "timer", ![c] = "idle"]
  BY DEF LeaveLifecycle
<1>2. /\ pc[c] = "finish"
      /\ todo' = [todo EXCEPT ![c] = <<>>]
      /\ lock' = [lock EXCEPT ![LockOf(srv[c])] = None]
      /\ err' = [err EXCEPT ![c] = FALSE]
      /\ goal' = [goal EXCEPT ![c] = "return"]
      /\ got' = [got EXCEPT ![c] = NoSettings]
      /\ UNCHANGED <<exists, allow, cfg, pinned, pool, rcancel, wst, wsrv, wset, wcancel, victim,
                     toBoot, ops, faults, crashes, purged, excused>>
  BY DEF LeaveLifecycle, db, workers, bounds
<1>3. /\ c \in Threads /\ r \in Threads /\ c # r /\ c \notin Retries /\ r \notin Callers
      /\ Inside(c) /\ ~Inside(r) /\ s \in Servers
      /\ goal[r] = "return" /\ ~rcancel[r]
  BY <1>0, <1>1, <1>2 DEF PlaceInv, RetryInv, Threads, Inside, InsidePlaces
<1>4. /\ todo'[c] = <<>> /\ pc'[c] = "idle" /\ srv'[c] = None /\ goal'[c] = "return"
      /\ pc'[r] = "timer" /\ srv'[r] = s
      /\ retryOf'[s] = r /\ \A x \in Servers \ {s} : retryOf'[x] = retryOf[x]
      /\ \A t \in Threads \ {c, r} : pc'[t] = pc[t] /\ srv'[t] = srv[t]
      /\ \A t \in Threads \ {c} : goal'[t] = goal[t]
      /\ \A d \in Callers \ {c} : todo'[d] = todo[d]
  BY <1>0, <1>1, <1>2, <1>3 DEF TypeOK, ThreadType, HandlerType, PoolType
<1>5. /\ ~Inside(c)' /\ ~Inside(r)'
      /\ \A t \in Threads \ {c, r} : Inside(t)' <=> Inside(t)
  BY <1>4 DEF Inside, InsidePlaces
<1>6. TypeOK'
  <2>1. DatabaseType' /\ WorkerType'
    BY <1>0, <1>2 DEF TypeOK, DatabaseType, WorkerType
  <2>2. HandlerType'
    <3>1. todo' \in [Callers -> Seq([call : {"stop", "reconcile", "edit", "delete", "purge", "list"},
                                     want : BOOLEAN, last : BOOLEAN])]
      BY <1>0, <1>2 DEF TypeOK, HandlerType
    <3> QED  BY <1>0, <1>2, <3>1 DEF TypeOK, HandlerType
  <2>3. PoolType'
    BY <1>0, <1>1, <1>2, <1>3, Unlock DEF TypeOK, PoolType
  <2>4. ThreadType'
    <3>1. srv' \in [Threads -> Servers \cup {None}]
      BY <1>0, <1>1, <1>3 DEF TypeOK, ThreadType
    <3> QED  BY <1>0, <1>1, <1>2, <3>1 DEF TypeOK, ThreadType, NoSettings
  <2> QED  BY <2>1, <2>2, <2>3, <2>4 DEF TypeOK
<1>7. PlaceInv'
  <2>1. <<>> \in Programs /\ Entry(<<>>) = "idle"
    BY ProgramMembers DEF Entry
  <2>2. \A d \in Callers \ {c} : pc'[d] = pc[d] /\ srv'[d] = srv[d] /\ goal'[d] = goal[d]
                                 /\ todo'[d] = todo[d] /\ (Inside(d)' <=> Inside(d))
    BY <1>3, <1>4, <1>5 DEF Threads
  <2>3. \A q \in Retries \ {r} : pc'[q] = pc[q] /\ srv'[q] = srv[q]
    BY <1>3, <1>4 DEF Threads
  <2>4. \A d \in Callers :
            /\ pc'[d] \in {"idle", "lock", "edit", "delete", "purge", "list"} \cup InsidePlaces
            /\ pc'[d] # "idle" => srv'[d] \in Servers
            /\ todo'[d] \in Programs
            /\ ~Inside(d)' => pc'[d] = Entry(todo'[d])
            /\ Inside(d)' => todo'[d] # <<>> /\ Head(todo'[d]).call \in {"stop", "reconcile"}
            /\ Inside(d)' /\ Head(todo'[d]).call = "stop"
                  => pc'[d] \in {"take", "wait", "finish"} /\ goal'[d] = "return"
    BY <1>0, <1>4, <1>5, <2>1, <2>2 DEF PlaceInv
  <2>5. \A q \in Retries : /\ pc'[q] \in {"off", "timer", "lock"} \cup InsidePlaces
                           /\ pc'[q] # "off" => srv'[q] \in Servers
    BY <1>0, <1>3, <1>4, <2>3 DEF PlaceInv
  <2>6. \A t \in Threads :
            /\ ~Inside(t)' => goal'[t] = "return"
            /\ pc'[t] = "load" => goal'[t] = "load"
            /\ pc'[t] = "register" => goal'[t] = "register"
    BY <1>0, <1>3, <1>4, <1>5 DEF PlaceInv
  <2> QED  BY <2>4, <2>5, <2>6 DEF PlaceInv
<1>8. LockInv'
  <2>1. \A u \in Threads \ {c} : Inside(u) => lock'[LockOf(srv[u])] = u
    BY <1>2, <1>3, Unlock
  <2> QED  BY <1>3, <1>4, <1>5, <2>1 DEF LockInv, LockOf
<1>9. WorkerInv'
  <2>1. \A w \in Workers, t \in Threads :
            pc[t] = "wait" /\ victim[t] = w /\ srv[t] = wsrv[w]
            => pc'[t] = "wait" /\ victim'[t] = w /\ srv'[t] = wsrv'[w]
    BY <1>1, <1>2, <1>4
  <2>2. \A w \in Workers : wst'[w] # "off" =>
            /\ wsrv'[w] \in Servers
            /\ \/ pool'[wsrv'[w]] = w
               \/ \E t \in Threads : pc'[t] = "wait" /\ victim'[t] = w /\ srv'[t] = wsrv'[w]
    BY <1>0, <1>2, <2>1 DEF WorkerInv
  <2>3. \A x \in Servers, w \in Workers : pool'[x] = w => Live(w)' /\ wsrv'[w] = x
    BY <1>0, <1>2 DEF WorkerInv, Live
  <2>4. \A t \in Threads : pc'[t] \in {"wait", "register"} =>
            t # c /\ t # r /\ pc'[t] = pc[t] /\ srv'[t] = srv[t] /\ victim'[t] = victim[t]
    BY <1>2, <1>4
  <2> QED  BY <1>0, <1>2, <2>2, <2>3, <2>4 DEF WorkerInv
<1>10. RetryInv'
  <2>1. \A q \in Retries \ {r} : /\ pc'[q] = pc[q] /\ srv'[q] = srv[q]
                                 /\ Inside(q)' => Inside(q) /\ srv[q] \in Servers /\ srv[q] # s
    <3>1. \A q \in Retries \ {r} : pc'[q] = pc[q] /\ srv'[q] = srv[q] /\ (Inside(q)' => Inside(q))
      BY <1>3, <1>4, <1>5 DEF Threads
    <3>2. \A q \in Retries : Inside(q) => srv[q] \in Servers /\ srv[q] # s
      BY <1>0, <1>3, Exclusion, InsideHasServer DEF Threads
    <3> QED  BY <3>1, <3>2
  <2>2. \A x \in Servers : retryOf[x] # r
    BY <1>0, <1>1 DEF RetryInv
  <2>3. \A x \in Servers, q \in Retries :
            retryOf'[x] = q => pc'[q] # "off" /\ srv'[q] = x /\ ~rcancel'[q]
    BY <1>0, <1>2, <1>3, <1>4, <2>1, <2>2 DEF RetryInv
  <2>4. \A q \in Retries : pc'[q] = "off" => ~rcancel'[q]
    BY <1>0, <1>2, <1>3, <2>1 DEF RetryInv
  <2>5. \A q \in Retries : Inside(q)' => retryOf'[srv'[q]] = q
    BY <1>0, <1>4, <1>5, <2>1 DEF RetryInv
  <2> QED  BY <2>3, <2>4, <2>5 DEF RetryInv
<1>11. PurgeInv'
  <2>1. \A d \in Callers \ {c} : pc'[d] = pc[d] /\ srv'[d] = srv[d] /\ todo'[d] = todo[d]
    BY <1>3, <1>4 DEF Threads
  <2>2. \A x \in Servers : Downed(x)' => Downed(x)
    BY <1>2, <1>4, <2>1, LastsDiffer DEF Downed
  <2>3. \A d \in Callers : todo'[d] \in {LastStop, LastPurge} => exists'[srv'[d]] = "gone"
    BY <1>0, <1>2, <1>4, <2>1, LastsDiffer DEF PurgeInv
  <2>4. \A x \in Servers, t \in Threads :
            srv'[t] = x /\ Downed(x) => pc'[t] # "wait" /\ goal'[t] = "return"
    BY <1>0, <1>3, <1>4 DEF PurgeInv
  <2> QED  BY <1>0, <1>2, <2>2, <2>3, <2>4 DEF PurgeInv
<1> QED  BY <1>6, <1>7, <1>8, <1>9, <1>10, <1>11 DEF IInv

(* The end of a retry's round preserves it.                                *)
LEMMA LeaveRetryIInv ==
    ASSUME IInv, NEW r \in Threads, LeaveRetry(r)
    PROVE  IInv'
<1> USE LifecycleAssumption
<1>0. TypeOK /\ PlaceInv /\ LockInv /\ WorkerInv /\ RetryInv /\ PurgeInv
  BY DEF IInv
<1>1. /\ pc[r] = "finish" /\ r \in Retries
      /\ lock' = [lock EXCEPT ![LockOf(srv[r])] = None]
      /\ err' = [err EXCEPT ![r] = FALSE]
      /\ goal' = [goal EXCEPT ![r] = "return"]
      /\ got' = [got EXCEPT ![r] = NoSettings]
      /\ UNCHANGED <<exists, allow, cfg, pinned, pool, rcancel, wst, wsrv, wset, wcancel, victim,
                     todo, toBoot, ops, faults, crashes, purged, excused>>
  BY DEF LeaveRetry, db, workers, bounds
<1>2. /\ r \notin Callers /\ Inside(r) /\ srv[r] \in Servers
      /\ retryOf[srv[r]] = r /\ ~rcancel[r]
  BY <1>0, <1>1, InsideHasServer DEF RetryInv, Inside, InsidePlaces
<1>3. PICK p \in {"off", "timer"} :
          /\ pc' = [pc EXCEPT ![r] = p]
          /\ \/ /\ p = "off" /\ srv' = [srv EXCEPT ![r] = None]
                /\ retryOf' = [retryOf EXCEPT ![srv[r]] = None]
             \/ p = "timer" /\ UNCHANGED <<srv, retryOf>>
  BY <1>2 DEF LeaveRetry
<1>4. /\ pc'[r] = p /\ goal'[r] = "return"
      /\ \A t \in Threads \ {r} : pc'[t] = pc[t] /\ srv'[t] = srv[t] /\ goal'[t] = goal[t]
      /\ \A x \in Servers \ {srv[r]} : retryOf'[x] = retryOf[x]
      /\ (p = "off" /\ srv'[r] = None /\ retryOf'[srv[r]] = None)
         \/ (p = "timer" /\ srv'[r] = srv[r] /\ retryOf'[srv[r]] = retryOf[srv[r]])
  BY <1>0, <1>1, <1>2, <1>3 DEF TypeOK, ThreadType, PoolType
<1>5. /\ ~Inside(r)'
      /\ \A t \in Threads \ {r} : Inside(t)' <=> Inside(t)
  BY <1>4 DEF Inside, InsidePlaces
<1>6. TypeOK'
  <2>1. DatabaseType' /\ WorkerType' /\ HandlerType'
    BY <1>0, <1>1 DEF TypeOK, DatabaseType, WorkerType, HandlerType
  <2>2. PoolType'
    <3>1. retryOf' \in [Servers -> Retries \cup {None}]
      BY <1>0, <1>3 DEF TypeOK, PoolType
    <3> QED  BY <1>0, <1>1, <1>2, <3>1, Unlock DEF TypeOK, PoolType
  <2>3. ThreadType'
    <3>1. srv' \in [Threads -> Servers \cup {None}]
      BY <1>0, <1>3 DEF TypeOK, ThreadType
    <3> QED  BY <1>0, <1>1, <1>3, <3>1 DEF TypeOK, ThreadType, NoSettings
  <2> QED  BY <2>1, <2>2, <2>3 DEF TypeOK
<1>7. PlaceInv'
  BY <1>0, <1>1, <1>2, <1>4, <1>5 DEF PlaceInv, Threads
<1>8. LockInv'
  <2>1. \A u \in Threads \ {r} : Inside(u) => lock'[LockOf(srv[u])] = u
    BY <1>1, <1>2, Unlock
  <2> QED  BY <1>4, <1>5, <2>1 DEF LockInv, LockOf
<1>9. WorkerInv'
  <2>1. \A w \in Workers, t \in Threads :
            pc[t] = "wait" /\ victim[t] = w /\ srv[t] = wsrv[w]
            => pc'[t] = "wait" /\ victim'[t] = w /\ srv'[t] = wsrv'[w]
    BY <1>1, <1>4
  <2> QED  BY <1>0, <1>1, <1>4, <2>1 DEF WorkerInv, Live
<1>10. RetryInv'
  <2>1. \A q \in Retries \ {r} : Inside(q) => srv[q] \in Servers /\ srv[q] # srv[r]
    BY <1>0, <1>1, <1>2, Exclusion, InsideHasServer DEF Threads
  <2>2. \A x \in Servers, q \in Retries :
            retryOf'[x] = q => pc'[q] # "off" /\ srv'[q] = x /\ ~rcancel'[q]
    <3>1. \A x \in Servers : retryOf'[x] = r => x = srv[r] /\ p = "timer"
      BY <1>0, <1>1, <1>2, <1>4 DEF RetryInv
    <3>2. \A x \in Servers, q \in Retries : retryOf'[x] = q => retryOf[x] = q
      BY <1>2, <1>4, LifecycleAssumption
    <3> QED  BY <1>0, <1>1, <1>2, <1>4, <3>1, <3>2 DEF RetryInv, Threads
  <2>3. \A q \in Retries : pc'[q] = "off" => ~rcancel'[q]
    BY <1>0, <1>1, <1>2, <1>4 DEF RetryInv, Threads
  <2>4. \A q \in Retries : Inside(q)' => retryOf'[srv'[q]] = q
    BY <1>0, <1>4, <1>5, <2>1 DEF RetryInv, Threads
  <2> QED  BY <2>2, <2>3, <2>4 DEF RetryInv
<1>11. PurgeInv'
  <2>1. \A d \in Callers : pc'[d] = pc[d] /\ srv'[d] = srv[d]
    BY <1>2, <1>4 DEF Threads
  <2>2. \A x \in Servers : Downed(x)' <=> Downed(x)
    BY <1>1, <2>1 DEF Downed
  <2> QED  BY <1>0, <1>1, <1>4, <2>1, <2>2 DEF PurgeInv
<1> QED  BY <1>6, <1>7, <1>8, <1>9, <1>10, <1>11 DEF IInv

-----------------------------------------------------------------------------
(* A restart of the hub preserves the invariant: only the rows and what    *)
(* was purged outlive it.                                                  *)
LEMMA RestartIInv ==
    ASSUME IInv, Restart
    PROVE  IInv'
<1> USE LifecycleAssumption
<1>0. TypeOK /\ PurgeInv
  BY DEF IInv
<1>1. UNCHANGED <<exists, allow, cfg, pinned, ops, faults, purged>> /\ crashes' = crashes + 1
  BY DEF Restart, db
<1>2. TypeOK'
  <2>1. DatabaseType' /\ PoolType'
    BY <1>0, <1>1 DEF Restart, TypeOK, DatabaseType, PoolType
  <2>2. WorkerType'
    BY DEF Restart, WorkerType, NoSettings
  <2>3. ThreadType'
    BY DEF Restart, ThreadType, NoSettings
  <2>4. HandlerType'
    <3>1. todo' \in [Callers -> Seq([call : {"stop", "reconcile", "edit", "delete", "purge", "list"},
                                     want : BOOLEAN, last : BOOLEAN])]
      BY DEF Restart
    <3>2. toBoot' \subseteq Servers
      BY DEF Restart, ListedAtBoot
    <3> QED  BY <1>0, <1>1, <3>1, <3>2 DEF Restart, TypeOK, HandlerType
  <2> QED  BY <2>1, <2>2, <2>3, <2>4 DEF TypeOK
<1>3. PlaceInv'
  <2>1. <<>> \in Programs /\ Entry(<<>>) = "idle"
    BY ProgramMembers DEF Entry
  <2> QED  BY <2>1 DEF Restart, PlaceInv, Inside, InsidePlaces, Threads
<1>4. LockInv' /\ WorkerInv' /\ RetryInv'
  BY DEF Restart, LockInv, WorkerInv, RetryInv, Inside, InsidePlaces, Threads
<1>5. PurgeInv'
  <2>1. \A c \in Callers : todo'[c] = <<>>
    BY DEF Restart
  <2>2. \A s \in Servers : Downed(s)' => s \in purged
    BY <1>1, <2>1, LastsDiffer DEF Downed
  <2>3. \A s \in purged : exists[s] = "gone"
    BY <1>0 DEF PurgeInv, Downed, TypeOK, HandlerType
  <2>4. \A t \in Threads : pc'[t] # "wait" /\ goal'[t] = "return"
    BY DEF Restart
  <2>5. \A s \in Servers : pool'[s] = None
    BY DEF Restart
  <2> QED  BY <1>1, <2>1, <2>2, <2>3, <2>4, <2>5, LastsDiffer DEF PurgeInv
<1> QED  BY <1>2, <1>3, <1>4, <1>5 DEF IInv

(* Every step preserves the invariant.                                     *)
LEMMA NextIInv == IInv /\ [Next]_vars => IInv'
<1> SUFFICES ASSUME IInv, [Next]_vars PROVE IInv'
  OBVIOUS
<1>1. ASSUME NEW c \in Callers, Request(c) \/ BootStep(c) \/ HandlerStep(c)
      PROVE  IInv'
  BY <1>1, RequestIInv, BootIInv, HandlerIInv
<1>2. ASSUME NEW t \in Threads, EnterStep(t)
      PROVE  IInv'
  BY <1>2, EnterLifecycleIInv, EnterRetryIInv DEF EnterStep
<1>3. ASSUME NEW t \in Threads, LifecycleStep(t)
      PROVE  IInv'
  <2>1. CASE RetryTimer(t)
    BY <2>1, EnterRetryIInv
  <2>2. CASE ReadServer(t) \/ ReadPublicKey(t) \/ LoadSettings(t)
    BY <2>2, ReadIInv
  <2>3. CASE TakeEntry(t)
    BY <2>3, TakeEntryIInv
  <2>4. CASE AwaitDone(t)
    BY <2>4, AwaitDoneIInv
  <2>5. CASE Register(t)
    BY <2>5, RegisterIInv
  <2>6. CASE LeaveLifecycle(t)
    <3>1. t \in Callers
      BY <2>6 DEF LeaveLifecycle
    <3> QED  BY <2>6, <3>1, LeaveAndGoOn, LeaveWithRetry
  <2>7. CASE LeaveRetry(t)
    BY <2>7, LeaveRetryIInv
  <2> QED  BY <1>3, <2>1, <2>2, <2>3, <2>4, <2>5, <2>6, <2>7 DEF LifecycleStep
<1>4. ASSUME NEW w \in Workers, WorkerStep(w)
      PROVE  IInv'
  BY <1>4, WorkerIInv
<1>5. CASE Restart
  BY <1>5, RestartIInv
<1>6. CASE UNCHANGED vars
  <2>1. UNCHANGED <<exists, allow, cfg, pinned, lock, pool, retryOf, rcancel, wst, wsrv, wset, wcancel,
                    pc, srv, goal, got, victim, err, todo, toBoot, ops, faults, crashes, purged,
                    excused>>
    BY <1>6 DEF vars, db, workers, retries, locals, bounds
  <2>2. TypeOK'
    BY <2>1 DEF IInv, TypeOK, DatabaseType, PoolType, WorkerType, ThreadType, HandlerType
  <2>3. PlaceInv' /\ LockInv' /\ WorkerInv' /\ RetryInv'
    BY <2>1 DEF IInv, PlaceInv, LockInv, WorkerInv, RetryInv, Inside, Live, LockOf
  <2>4. PurgeInv'
    BY <2>1 DEF IInv, PurgeInv, Downed
  <2> QED  BY <2>2, <2>3, <2>4 DEF IInv
<1> QED  BY <1>1, <1>2, <1>3, <1>4, <1>5, <1>6 DEF Next

-----------------------------------------------------------------------------
(* The inductive invariant holds in every reachable state, of any number   *)
(* of servers, locks, handlers, retries and workers.                       *)
THEOREM Invariance == Spec => []IInv
BY InitIInv, NextIInv, PTL DEF Spec

(* Every variable holds a value of its kind.                               *)
THEOREM TypeCorrect == Spec => []TypeOK
<1>1. IInv => TypeOK
  BY DEF IInv
<1> QED  BY <1>1, Invariance, PTL

(* The workers of one server that have not closed done are one: each is in *)
(* the pool, which holds one, or awaited by the one holder of the lock,    *)
(* while the pool is empty.                                                *)
THEOREM OneWorker == Spec => []OneWorkerPerServer
<1>1. IInv => OneWorkerPerServer
  <2> SUFFICES ASSUME IInv, NEW v \in Workers, NEW w \in Workers, Live(v), Live(w), wsrv[v] = wsrv[w]
               PROVE  v = w
    BY DEF OneWorkerPerServer
  <2>0. PlaceInv /\ LockInv /\ WorkerInv /\ wsrv[v] \in Servers
    BY DEF IInv, WorkerInv, Live
  <2>1. CASE pool[wsrv[v]] = v /\ pool[wsrv[w]] = w
    BY <2>1
  <2>2. CASE pool[wsrv[v]] # v /\ pool[wsrv[w]] # w
    <3>1. PICK t \in Threads : pc[t] = "wait" /\ victim[t] = v /\ srv[t] = wsrv[v]
      BY <2>0, <2>2 DEF WorkerInv, Live
    <3>2. PICK u \in Threads : pc[u] = "wait" /\ victim[u] = w /\ srv[u] = wsrv[w]
      BY <2>0, <2>2 DEF WorkerInv, Live
    <3>3. t = u
      BY <2>0, <3>1, <3>2, Exclusion DEF Inside, InsidePlaces
    <3> QED  BY <3>1, <3>2, <3>3
  <2>3. CASE pool[wsrv[v]] # v /\ pool[wsrv[w]] = w
    BY <2>0, <2>3, LifecycleAssumption DEF WorkerInv, Live
  <2>4. CASE pool[wsrv[v]] = v /\ pool[wsrv[w]] # w
    BY <2>0, <2>4, LifecycleAssumption DEF WorkerInv, Live
  <2> QED  BY <2>1, <2>2, <2>3, <2>4
<1> QED  BY <1>1, Invariance, PTL

(* While nobody holds the lifecycle lock of its server, a worker that has  *)
(* not closed done is the one in the pool: a stop has waited for every     *)
(* other one before it released the lock.                                  *)
THEOREM StopsWait == Spec => []StopWaitsForWorker
<1>1. IInv => StopWaitsForWorker
  <2> SUFFICES ASSUME IInv, NEW w \in Workers, Live(w), lock[LockOf(wsrv[w])] = None,
                      pool[wsrv[w]] # w
               PROVE  FALSE
    BY DEF StopWaitsForWorker
  <2>1. PICK t \in Threads : pc[t] = "wait" /\ srv[t] = wsrv[w]
    BY DEF IInv, WorkerInv, Live
  <2>2. lock[LockOf(wsrv[w])] = t
    BY <2>1 DEF IInv, LockInv, Inside, InsidePlaces
  <2> QED  BY <2>2, LifecycleAssumption DEF Threads
<1> QED  BY <1>1, Invariance, PTL

(* A retry that was canceled or replaced never acts under the lock.        *)
THEOREM RetriesAreCurrent == Spec => []StaleRetryNeverActs
<1>1. IInv => StaleRetryNeverActs
  <2> SUFFICES ASSUME IInv, NEW r \in Retries, pc[r] \notin {"off", "timer", "lock"}
               PROVE  retryOf[srv[r]] = r /\ ~rcancel[r]
    BY DEF StaleRetryNeverActs
  <2>1. Inside(r) /\ srv[r] \in Servers
    BY DEF IInv, PlaceInv, Inside
  <2> QED  BY <2>1 DEF IInv, RetryInv
<1> QED  BY <1>1, Invariance, PTL

(* No worker of a deleted server runs once its statuses are removed: its   *)
(* delete has emptied the pool after the row was gone, so no later         *)
(* reconciliation, retry, edit or restart finds a row to start it from.    *)
THEOREM DeletedServersStayDown == Spec => []DeletedStaysDown
<1>1. IInv => DeletedStaysDown
  <2> SUFFICES ASSUME IInv, NEW s \in purged, NEW w \in Workers, Live(w), wsrv[w] = s
               PROVE  FALSE
    BY DEF DeletedStaysDown
  <2>1. s \in Servers /\ Downed(s)
    BY DEF IInv, TypeOK, HandlerType, Downed
  <2>2. pool[s] = None /\ \A t \in Threads : srv[t] = s => pc[t] # "wait"
    BY <2>1 DEF IInv, PurgeInv
  <2> QED  BY <2>2, LifecycleAssumption DEF IInv, WorkerInv, Live
<1> QED  BY <1>1, Invariance, PTL

-----------------------------------------------------------------------------
(* The pool settles: what is to be shown of each server beyond IInv.       *)

(* What a reconciliation and a stop with one after it have left to do.     *)
LastReconcile == <<Call("reconcile")>>
StopReconcile == <<Call("stop"), Call("reconcile")>>

(* A request stops its server, or has stopped it, and the outcome is open: *)
(* a deletion, or an edit that turns monitoring off.                       *)
OpenEnds ==
    {<<Call("stop"), Call("delete"), Call("stop"), Call("purge")>>,
     <<Call("delete"), Call("stop"), Call("purge")>>}
    \cup {<<EditCall(FALSE, a), Call("reconcile")>> : a \in BOOLEAN}
    \cup {<<Call("stop"), EditCall(FALSE, a), Call("reconcile")>> : a \in BOOLEAN}

(* The goroutine will read the row of its server again, or leave a retry   *)
(* behind that does.                                                       *)
Due(t) ==
    \/ t \in Callers /\ todo[t] = StopReconcile
    \/ t \in Callers /\ todo[t] = LastReconcile /\ (pc[t] \in {"lock", "read"} \/ err[t])
    \/ t \in Retries /\ retryOf[srv[t]] = t /\ (pc[t] \in {"timer", "lock", "read"} \/ err[t])

(* Somebody still has to reconcile server s from its row.                  *)
Owed(s) == s \in toBoot \/ \E t \in Threads : srv[t] = s /\ Due(t)

(* Somebody is about to take the entry of s out of the pool.               *)
Emptying(s) == \E t \in Threads : srv[t] = s /\ pc[t] \in {"read", "readKey", "take"}

(* del has deleted the row and waits to stop s again.                      *)
Deleting(s) == \E c \in Callers : srv[c] = s /\ todo[c] = LastStop /\ pc[c] = "lock"

(* A key edit has still to list its servers.                               *)
Listing(s) == \E c \in Callers : srv[c] = s /\ pc[c] = "list"

Open(s) == \E c \in Callers : srv[c] = s /\ todo[c] \in OpenEnds

(* A goroutine on its way to register a worker.                            *)
Heading(t) ==
    /\ ~err[t]
    /\ \/ pc[t] = "readKey"
       \/ pc[t] \in {"take", "wait", "load", "register"} /\ goal[t] # "return"

(* A reconciliation that has found that its server is to have no worker.   *)
Stopping(t) ==
    /\ pc[t] = "take" /\ goal[t] = "return" /\ ~err[t]
    /\ t \in Retries \/ todo[t] = LastReconcile

(* Settings that a worker of s may have, and connection settings that are  *)
(* those of the row or that a key edit still sees to, or failed to.        *)
Suits(set, s) == exists[s] = "live" /\ (allow[s] \/ s \in Active) /\ set.allow = allow[s]
UpToDate(set, s) == set.cfg = cfg[s] \/ "key" \in excused[s] \/ Listing(s)

(* The entry of the pool suits the row unless it is about to be taken out. *)
PoolAgrees(s) ==
    pool[s] # None /\ ~Emptying(s) =>
        Deleting(s) \/ (Suits(wset[pool[s]], s) /\ UpToDate(wset[pool[s]], s))

(* A server that should have a worker has one, or somebody sees to it.     *)
HasWorker(s) ==
    Monitored(s) /\ excused[s] \subseteq {"key"} =>
        pool[s] # None \/ Open(s) \/ \E t \in Threads : srv[t] = s /\ Heading(t)

(* Who is on its way to register a worker holds settings that suit the     *)
(* row; who empties the pool for good has a server that is to have none.   *)
ActsRight(t, s) ==
    /\ Heading(t) =>
          Deleting(s) \/ (Suits(got[t], s) /\ (goal[t] = "register" => UpToDate(got[t], s)))
    /\ Stopping(t) => ~Monitored(s)

(* Server s is to be reconciled, or all of this is so.                     *)
Fine(s) ==
    ~Owed(s) => /\ PoolAgrees(s)
                /\ HasWorker(s)
                /\ \A t \in Threads : srv[t] = s => ActsRight(t, s)

(* Only a reconciliation fails; a row that is read for its key is not      *)
(* monitored; who is at rest has no server; only SSH servers have keys; an *)
(* edit that stops first turns monitoring off.                             *)
Local(t) ==
    /\ err[t] => Inside(t) /\ (t \in Callers => todo[t] = LastReconcile)
    /\ pc[t] = "readKey" => ~got[t].allow
    /\ pc[t] \in {"idle", "off"} => srv[t] = None
    /\ pc[t] = "list" => srv[t] \notin Active
    /\ t \in Callers /\ todo[t] # <<>> /\ Head(todo[t]).call = "stop"
          => todo[t] \in {StopReconcile, LastStop} \cup OpenEnds

SettleInv ==
    /\ \A t \in Threads : Local(t)
    /\ \A s \in Servers : Fine(s)

-----------------------------------------------------------------------------
(* The programs that matter here, told apart by their first calls.         *)
LEMMA ProgramKinds ==
    /\ Head(LastReconcile).call = "reconcile" /\ Tail(LastReconcile) = <<>> /\ LastReconcile # <<>>
    /\ Head(StopReconcile).call = "stop" /\ Tail(StopReconcile) = LastReconcile /\ StopReconcile # <<>>
    /\ Tail(LastStop) = LastPurge
    /\ \A p \in Programs : p # <<>> /\ Head(p).call = "reconcile" => p = LastReconcile
    /\ <<>> \notin OpenEnds /\ <<Call("list")>> \notin OpenEnds
    /\ Head(<<Call("list")>>).call = "list" /\ <<Call("list")>> # <<>>
    /\ \A p \in OpenEnds :
          /\ Head(p).call \in {"stop", "delete", "edit"}
          /\ Head(p).call = "stop" => Tail(p) \in OpenEnds
          /\ Head(p).call = "edit" => ~Head(p).want
<1>1. \A a : Head(<<a>>) = a /\ Tail(<<a>>) = <<>> /\ <<a>> # <<>>
  OBVIOUS
<1>2. \A a, b : Head(<<a, b>>) = a /\ Tail(<<a, b>>) = <<b>> /\ <<a, b>> # <<>>
  OBVIOUS
<1>3. \A a, b, c : Head(<<a, b, c>>) = a /\ Tail(<<a, b, c>>) = <<b, c>> /\ <<a, b, c>> # <<>>
  OBVIOUS
<1>4. \A a, b, c, d : Head(<<a, b, c, d>>) = a /\ Tail(<<a, b, c, d>>) = <<b, c, d>> /\ <<a, b, c, d>> # <<>>
  OBVIOUS
<1>5. Head(LastReconcile).call = "reconcile" /\ Tail(LastReconcile) = <<>> /\ LastReconcile # <<>>
  BY <1>1, CallNames, Zenon DEF LastReconcile
<1>6. Head(StopReconcile).call = "stop" /\ Tail(StopReconcile) = LastReconcile /\ StopReconcile # <<>>
  BY <1>2, CallNames, Zenon DEF StopReconcile, LastReconcile
<1>7. Tail(LastStop) = LastPurge
  BY <1>2, Zenon DEF LastStop, LastPurge
<1>8. Head(<<Call("list")>>).call = "list" /\ <<Call("list")>> # <<>>
  BY <1>1, CallNames, Zenon
<1>9. ASSUME NEW p \in Programs, p # <<>>, Head(p).call = "reconcile"
      PROVE  p = LastReconcile
  BY <1>9, ProgramCases, CallNames, LastsDiffer DEF LastReconcile
<1>10. ASSUME NEW p \in OpenEnds
       PROVE  /\ p # <<>>
              /\ Head(p).call \in {"stop", "delete", "edit"}
              /\ Head(p).call = "stop" => Tail(p) \in OpenEnds
              /\ Head(p).call = "edit" => ~Head(p).want
  <2>1. CASE p = <<Call("stop"), Call("delete"), Call("stop"), Call("purge")>>
    <3>1. Head(p) = Call("stop") /\ Tail(p) = <<Call("delete"), Call("stop"), Call("purge")>> /\ p # <<>>
      BY <1>4, <2>1, Zenon
    <3>2. Tail(p) \in OpenEnds
      BY <3>1, Zenon DEF OpenEnds
    <3>3. Head(p).call = "stop"
      BY <3>1, CallNames, Zenon
    <3> QED  BY <3>1, <3>2, <3>3
  <2>2. CASE p = <<Call("delete"), Call("stop"), Call("purge")>>
    <3>1. Head(p) = Call("delete") /\ p # <<>>
      BY <1>3, <2>2, Zenon
    <3>2. Head(p).call = "delete"
      BY <3>1, CallNames, Zenon
    <3> QED  BY <3>1, <3>2
  <2>3. ASSUME NEW a \in BOOLEAN, p = <<EditCall(FALSE, a), Call("reconcile")>>
        PROVE  p # <<>> /\ Head(p).call = "edit" /\ ~Head(p).want
    <3>1. Head(p) = EditCall(FALSE, a) /\ p # <<>>
      BY <1>2, <2>3, Zenon
    <3> QED  BY <3>1 DEF EditCall
  <2>4. ASSUME NEW a \in BOOLEAN, p = <<Call("stop"), EditCall(FALSE, a), Call("reconcile")>>
        PROVE  p # <<>> /\ Head(p).call = "stop" /\ Tail(p) \in OpenEnds
    <3>1. Head(p) = Call("stop") /\ Tail(p) = <<EditCall(FALSE, a), Call("reconcile")>> /\ p # <<>>
      BY <1>3, <2>4, Zenon
    <3>2. Tail(p) \in OpenEnds
      BY <3>1, Zenon DEF OpenEnds
    <3> QED  BY <3>1, <3>2, CallNames, Zenon
  <2>5. \/ p = <<Call("stop"), Call("delete"), Call("stop"), Call("purge")>>
        \/ p = <<Call("delete"), Call("stop"), Call("purge")>>
        \/ \E a \in BOOLEAN : p = <<EditCall(FALSE, a), Call("reconcile")>>
        \/ \E a \in BOOLEAN : p = <<Call("stop"), EditCall(FALSE, a), Call("reconcile")>>
    BY <1>10, Zenon DEF OpenEnds
  <2> QED  BY <2>1, <2>2, <2>3, <2>4, <2>5
<1>11. <<>> \notin OpenEnds /\ <<Call("list")>> \notin OpenEnds
  BY <1>8, <1>10
<1> QED  BY <1>5, <1>6, <1>7, <1>8, <1>9, <1>10, <1>11, Zenon

(* What a handler inside the lifecycle, or about to enter it, is at.       *)
LEMMA LifecyclePrograms ==
    ASSUME IInv, NEW c \in Callers, Local(c), Inside(c) \/ pc[c] = "lock"
    PROVE  /\ todo[c] # <<>> /\ todo[c] \in Programs
           /\ Head(todo[c]).call = "reconcile" <=> todo[c] = LastReconcile
           /\ Head(todo[c]).call # "reconcile" =>
                 Head(todo[c]).call = "stop" /\ todo[c] \in {StopReconcile, LastStop} \cup OpenEnds
           /\ pc[c] \in {"read", "readKey", "load", "register"} => todo[c] = LastReconcile
           /\ Inside(c) /\ goal[c] # "return" => todo[c] = LastReconcile
<1>0. PlaceInv
  BY DEF IInv
<1>1. todo[c] \in Programs
  BY <1>0 DEF PlaceInv
<1>2. todo[c] # <<>> /\ Head(todo[c]).call \in {"stop", "reconcile"}
  <2>1. CASE Inside(c)
    BY <1>0, <2>1 DEF PlaceInv
  <2>2. CASE ~Inside(c)
    BY <1>0, <1>1, <2>2, EntryPlaces DEF PlaceInv
  <2> QED  BY <2>1, <2>2
<1>3. Head(todo[c]).call = "reconcile" <=> todo[c] = LastReconcile
  BY <1>1, <1>2, ProgramKinds
<1>4. Inside(c) /\ Head(todo[c]).call = "stop" => pc[c] \in {"take", "wait", "finish"} /\ goal[c] = "return"
  BY <1>0 DEF PlaceInv
<1>5. pc[c] \in {"read", "readKey", "load", "register"} => Inside(c)
  BY DEF Inside, InsidePlaces
<1> QED  BY <1>1, <1>2, <1>3, <1>4, <1>5 DEF Local

(* Nothing about server x changes: neither its row, its entries, nor the   *)
(* goroutines that have it in hand.                                        *)
SameAt(x) ==
    /\ exists'[x] = exists[x] /\ allow'[x] = allow[x] /\ cfg'[x] = cfg[x] /\ pinned'[x] = pinned[x]
    /\ pool'[x] = pool[x] /\ retryOf'[x] = retryOf[x] /\ excused'[x] = excused[x]
    /\ x \in toBoot' <=> x \in toBoot
    /\ pool[x] # None => /\ wset'[pool[x]].allow = wset[pool[x]].allow
                         /\ wset'[pool[x]].cfg = wset[pool[x]].cfg
    /\ \A u \in Threads : srv'[u] = x <=> srv[u] = x
    /\ \A u \in Threads : srv[u] = x =>
          /\ pc'[u] = pc[u] /\ goal'[u] = goal[u] /\ got'[u] = got[u] /\ err'[u] = err[u]
          /\ u \in Callers => todo'[u] = todo[u]

(* Then what is to be shown of x stays so.                                 *)
LEMMA SameFine ==
    ASSUME NEW x \in Servers, SameAt(x), Fine(x)
    PROVE  Fine(x)'
<1> USE LifecycleAssumption
<1>0. \A u \in Threads : srv[u] = x => (u \in Callers => u \notin Retries)
  OBVIOUS
<1>1. \A u \in Threads : srv[u] = x => srv'[u] = x /\ (Due(u)' <=> Due(u))
  BY DEF SameAt, Due
<1>2. Owed(x)' <=> Owed(x)
  BY <1>1 DEF SameAt, Owed
<1>3. Emptying(x)' <=> Emptying(x)
  BY DEF SameAt, Emptying
<1>4. Deleting(x)' <=> Deleting(x)
  BY DEF SameAt, Deleting, Threads
<1>5. Listing(x)' <=> Listing(x)
  BY DEF SameAt, Listing, Threads
<1>6. Open(x)' <=> Open(x)
  BY DEF SameAt, Open, Threads
<1>7. \A u \in Threads : srv[u] = x => (Heading(u)' <=> Heading(u))
  BY DEF SameAt, Heading
<1>8. \A u \in Threads : srv[u] = x => (Stopping(u)' <=> Stopping(u))
  BY DEF SameAt, Stopping, Threads
<1>9. Monitored(x)' <=> Monitored(x)
  BY DEF SameAt, Monitored
<1>10. PoolAgrees(x) => PoolAgrees(x)'
  BY <1>3, <1>4, <1>5 DEF SameAt, PoolAgrees, Suits, UpToDate
<1>11. HasWorker(x) => HasWorker(x)'
  BY <1>6, <1>7, <1>9 DEF SameAt, HasWorker
<1>12. \A u \in Threads : srv[u] = x /\ ActsRight(u, x) => ActsRight(u, x)'
  BY <1>4, <1>5, <1>7, <1>8, <1>9 DEF SameAt, ActsRight, Suits, UpToDate
<1>13. \A u \in Threads : srv'[u] = x => srv[u] = x
  BY DEF SameAt
<1> QED  BY <1>2, <1>10, <1>11, <1>12, <1>13 DEF Fine

(* A step of the goroutines of T, all at server s or at rest before it and *)
(* after it, that touches no other server.                                 *)
OnlyAt(T, s) ==
    /\ \A u \in Threads \ T :
          /\ pc'[u] = pc[u] /\ srv'[u] = srv[u] /\ goal'[u] = goal[u] /\ got'[u] = got[u]
          /\ err'[u] = err[u] /\ (u \in Callers => todo'[u] = todo[u])
    /\ \A u \in T : srv[u] \in {s, None} /\ srv'[u] \in {s, None}
    /\ \A x \in Servers \ {s} :
          /\ exists'[x] = exists[x] /\ allow'[x] = allow[x] /\ cfg'[x] = cfg[x]
          /\ pinned'[x] = pinned[x] /\ pool'[x] = pool[x] /\ retryOf'[x] = retryOf[x]
          /\ excused'[x] = excused[x] /\ (x \in toBoot' <=> x \in toBoot)
          /\ pool[x] # None => /\ wset'[pool[x]].allow = wset[pool[x]].allow
                               /\ wset'[pool[x]].cfg = wset[pool[x]].cfg

(* Of such a step it is enough to look at them and at s.                   *)
LEMMA StepAt ==
    ASSUME SettleInv, NEW s \in Servers, NEW T \in SUBSET Threads, OnlyAt(T, s),
           \A u \in T : Local(u)',
           Fine(s)'
    PROVE  SettleInv'
<1> USE LifecycleAssumption
<1>1. \A u \in Threads \ T : Local(u)'
  BY DEF OnlyAt, SettleInv, Local, Inside
<1>2. ASSUME NEW x \in Servers \ {s} PROVE Fine(x)'
  <2>1. x # None /\ x \in Servers /\ Fine(x)
    BY DEF SettleInv
  <2>2. \A u \in Threads : srv'[u] = x <=> srv[u] = x
    BY <2>1 DEF OnlyAt
  <2>3. \A u \in Threads : srv[u] = x =>
          /\ pc'[u] = pc[u] /\ goal'[u] = goal[u] /\ got'[u] = got[u] /\ err'[u] = err[u]
          /\ u \in Callers => todo'[u] = todo[u]
    BY <2>1 DEF OnlyAt
  <2>4. SameAt(x)
    BY <2>2, <2>3 DEF SameAt, OnlyAt
  <2> QED  BY <2>1, <2>4, SameFine
<1> QED  BY <1>1, <1>2 DEF SettleInv

(* Outside the lifecycle nobody heads for a worker, stops one or fails.    *)
LEMMA OutsideIdle ==
    ASSUME NEW u \in Threads, ~Inside(u), Local(u)
    PROVE  ~err[u] /\ ~Heading(u) /\ ~Stopping(u) /\ pc[u] \notin {"read", "readKey", "take"}
BY DEF Local, Inside, InsidePlaces, Heading, Stopping

(* Who waits to stop a server for the second time has deleted it.          *)
LEMMA DeletingIsGone ==
    ASSUME IInv, NEW s \in Servers, Deleting(s)
    PROVE  exists[s] = "gone" /\ ~Monitored(s)
BY DEF IInv, PurgeInv, Deleting, Monitored

(* A step of goroutine t inside the lifecycle of its server, no row        *)
(* changes.                                                                *)
InsideStep(t) ==
    /\ Inside(t) /\ Inside(t)'
    /\ \A u \in Threads \ {t} :
          pc'[u] = pc[u] /\ goal'[u] = goal[u] /\ got'[u] = got[u] /\ err'[u] = err[u]
    /\ UNCHANGED <<exists, allow, cfg, pinned, srv, todo, retryOf, toBoot>>
    /\ \A x \in Servers \ {srv[t]} :
          /\ pool'[x] = pool[x] /\ excused'[x] = excused[x]
          /\ pool[x] # None => /\ wset'[pool[x]].allow = wset[pool[x]].allow
                               /\ wset'[pool[x]].cfg = wset[pool[x]].cfg

(* The others at the server are outside, and what they stand for stays.    *)
LEMMA InsideFacts ==
    ASSUME IInv, SettleInv, NEW t \in Threads, InsideStep(t), NEW s, s = srv[t]
    PROVE  /\ s \in Servers /\ Fine(s) /\ Local(t) /\ s # None
           /\ \A u \in Threads \ {t} : srv[u] = s =>
                 /\ ~Inside(u) /\ ~err[u] /\ ~Heading(u) /\ ~Stopping(u)
                 /\ pc[u] \notin {"read", "readKey", "take"}
           /\ Deleting(s)' <=> Deleting(s)
           /\ Listing(s)' <=> Listing(s)
           /\ Open(s)' <=> Open(s)
           /\ Monitored(s)' <=> Monitored(s)
           /\ Deleting(s) => ~Monitored(s)
           /\ t \in Callers /\ todo[t] \in OpenEnds => Open(s)
           /\ Due(t)' => Owed(s)'
           /\ Due(t) => Owed(s)
           /\ Owed(s) /\ ~Owed(s)' => Due(t)
           /\ pc'[t] \in {"read", "readKey", "take"} => Emptying(s)'
           /\ Emptying(s) => pc[t] \in {"read", "readKey", "take"}
           /\ t \in Callers => /\ pc[t] \in {"read", "readKey", "load", "register"} => todo[t] = LastReconcile
                               /\ todo[t] # LastReconcile =>
                                     todo[t] \in {StopReconcile, LastStop} \cup OpenEnds
           /\ t \in Retries => retryOf[s] = t
<1> USE LifecycleAssumption
<1>0. PlaceInv /\ LockInv /\ RetryInv /\ Inside(t) /\ Inside(t)'
  BY DEF IInv, InsideStep
<1>1. s \in Servers /\ Fine(s) /\ Local(t) /\ s # None
  BY <1>0, InsideHasServer DEF SettleInv
<1>2. ASSUME NEW u \in Threads \ {t}, srv[u] = s
      PROVE  /\ ~Inside(u) /\ ~err[u] /\ ~Heading(u) /\ ~Stopping(u)
             /\ pc[u] \notin {"read", "readKey", "take"}
  <2>1. ~Inside(u)
    BY <1>0, <1>2, Exclusion
  <2> QED  BY <2>1, OutsideIdle DEF SettleInv
<1>3. Deleting(s)' <=> Deleting(s)
  BY <1>0 DEF InsideStep, Deleting, Inside, InsidePlaces, Threads
<1>4. Listing(s)' <=> Listing(s)
  BY <1>0 DEF InsideStep, Listing, Inside, InsidePlaces, Threads
<1>5. (Open(s)' <=> Open(s)) /\ (Monitored(s)' <=> Monitored(s))
  BY DEF InsideStep, Open, Monitored
<1>6. Deleting(s) => ~Monitored(s)
  BY <1>1, DeletingIsGone
<1>7. (Due(t)' => Owed(s)') /\ (Due(t) => Owed(s))
  BY DEF InsideStep, Owed
<1>8. \A u \in Threads \ {t} : srv[u] = s => (Due(u)' <=> Due(u))
  BY DEF InsideStep, Due
<1>9. Owed(s) /\ ~Owed(s)' => Due(t)
  BY <1>8 DEF InsideStep, Owed
<1>10. pc'[t] \in {"read", "readKey", "take"} => Emptying(s)'
  BY DEF InsideStep, Emptying
<1>11. Emptying(s) => pc[t] \in {"read", "readKey", "take"}
  BY <1>2 DEF Emptying
<1>12. t \in Callers => /\ pc[t] \in {"read", "readKey", "load", "register"} => todo[t] = LastReconcile
                        /\ todo[t] # LastReconcile =>
                              todo[t] \in {StopReconcile, LastStop} \cup OpenEnds
  BY <1>0, <1>1, LifecyclePrograms
<1>13. t \in Retries => retryOf[s] = t
  BY <1>0 DEF RetryInv
<1>14. t \in Callers /\ todo[t] \in OpenEnds => Open(s)
  BY DEF Open
<1> QED  BY <1>1, <1>2, <1>3, <1>4, <1>5, <1>6, <1>7, <1>9, <1>10, <1>11, <1>12, <1>13, <1>14

(* Such a step settles all if it leaves its goroutine and its server right.*)
LEMMA InsideSettles ==
    ASSUME IInv, SettleInv, NEW t \in Threads, InsideStep(t), NEW s, s = srv[t],
           Local(t)',
           ~Owed(s)' => PoolAgrees(s)' /\ HasWorker(s)' /\ ActsRight(t, s)'
    PROVE  SettleInv'
<1>1. s \in Servers /\ srv'[t] = s
  BY InsideFacts DEF InsideStep
<1>2. \A u \in Threads \ {t} : srv'[u] = s => ~Heading(u)' /\ ~Stopping(u)'
  <2>1. \A u \in Threads \ {t} : srv[u] = s => ~Heading(u) /\ ~Stopping(u)
    BY InsideFacts
  <2> QED  BY <2>1 DEF InsideStep, Heading, Stopping
<1>3. \A u \in Threads : srv'[u] = s /\ ~Owed(s)' => ActsRight(u, s)'
  BY <1>2 DEF ActsRight
<1>4. Fine(s)'
  BY <1>3 DEF Fine
<1>5. {t} \in SUBSET Threads
  OBVIOUS
<1>6. OnlyAt({t}, s)
  BY <1>1 DEF OnlyAt, InsideStep
<1>7. \A u \in {t} : Local(u)'
  OBVIOUS
<1> QED  BY <1>1, <1>4, <1>5, <1>6, <1>7, StepAt, Zenon

-----------------------------------------------------------------------------
(* A failing read leaves its server owed a reconciliation.                 *)
LEMMA FailingRead ==
    ASSUME IInv, SettleInv, NEW t \in Threads, InsideStep(t), NEW s, s = srv[t],
           pc[t] \in {"read", "readKey", "load"}, pc'[t] \in {"take", "finish"}, err'[t]
    PROVE  SettleInv'
<1>1. t \in Callers => todo'[t] = LastReconcile
  BY InsideFacts DEF InsideStep
<1>2. t \in Retries => retryOf'[srv'[t]] = t
  BY InsideFacts DEF InsideStep
<1>3. Due(t)'
  BY <1>1, <1>2 DEF Due, Threads
<1>4. Owed(s)'
  BY <1>3, InsideFacts
<1>5. Local(t)'
  BY <1>1, ProgramKinds DEF InsideStep, Local
<1> QED  BY <1>4, <1>5, InsideSettles

(* A reconciliation acts on the row it has just read.                      *)
LEMMA ReadServerSettles ==
    ASSUME IInv, SettleInv, NEW t \in Threads, ReadServer(t)
    PROVE  SettleInv'
<1> USE LifecycleAssumption
<1>0. ThreadType /\ HandlerType /\ Inside(t)
  BY DEF IInv, TypeOK, ReadServer, Inside, InsidePlaces
<1>1. PICK s \in Servers : s = srv[t]
  BY <1>0, InsideHasServer DEF IInv
<1> USE <1>1
<1>2. UNCHANGED <<exists, allow, cfg, pinned, srv, todo, retryOf, toBoot, pool, wset>>
  BY DEF ReadServer, db, retries, workers
<1>3. CASE ReadMayFail(t) /\ err' = [err EXCEPT ![t] = TRUE] /\ pc' = [pc EXCEPT ![t] = "take"]
           /\ UNCHANGED <<goal, got, excused>>
  <2>1. pc'[t] = "take" /\ err'[t]
    BY <1>0, <1>3 DEF ThreadType
  <2>2. InsideStep(t)
    BY <1>0, <1>2, <1>3, <2>1 DEF ThreadType, InsideStep, Inside, InsidePlaces
  <2> QED  BY <2>1, <2>2, FailingRead DEF ReadServer
<1>4. CASE /\ got' = [got EXCEPT ![t].allow = allow[s] /\ exists[s] = "live"]
           /\ goal' = [goal EXCEPT ![t] = IF exists[s] = "live" /\ allow[s] THEN "load" ELSE "return"]
           /\ pc' = [pc EXCEPT ![t] = IF exists[s] = "live" /\ ~allow[s] /\ s \in Active
                                      THEN "readKey" ELSE "take"]
           /\ excused' = [excused EXCEPT ![s] = {}]
           /\ UNCHANGED err
  <2>1. /\ goal'[t] = IF exists[s] = "live" /\ allow[s] THEN "load" ELSE "return"
        /\ pc'[t] = IF exists[s] = "live" /\ ~allow[s] /\ s \in Active THEN "readKey" ELSE "take"
        /\ \A u \in Threads \ {t} : pc'[u] = pc[u] /\ goal'[u] = goal[u]
    BY <1>0, <1>4 DEF ThreadType
  <2>2. got'[t].allow = (allow[s] /\ exists[s] = "live") /\ \A u \in Threads \ {t} : got'[u] = got[u]
    BY <1>0, <1>4 DEF ThreadType
  <2>3. \A x \in Servers \ {s} : excused'[x] = excused[x]
    BY <1>0, <1>4 DEF HandlerType
  <2>4. InsideStep(t)
    BY <1>0, <1>2, <1>4, <2>1, <2>2, <2>3 DEF InsideStep, Inside, InsidePlaces
  <2>5. allow[s] \in BOOLEAN
    BY <1>1 DEF IInv, TypeOK, DatabaseType
  <2>6. Local(t)'
    <3>1. Local(t)
      BY DEF SettleInv
    <3>2. pc'[t] = "readKey" => ~got'[t].allow
      BY <2>1, <2>2
    <3> QED  BY <1>2, <1>4, <2>1, <2>4, <3>1, <3>2 DEF Local, InsideStep
  <2>7. PoolAgrees(s)'
    BY <2>1, <2>4, InsideFacts DEF PoolAgrees
  <2>8. Suits(got'[t], s) <=> Suits(got[t], s)'
    BY <1>2 DEF Suits
  <2>9. CASE err[t]
    <3>1. t \in Callers => todo'[t] = LastReconcile
      BY <2>4, <2>6, <2>9, <1>4 DEF Local
    <3>2. t \in Retries => retryOf'[srv'[t]] = t
      BY <1>2, <2>4, InsideFacts
    <3>3. Due(t)'
      BY <1>4, <2>9, <3>1, <3>2 DEF Due, Threads
    <3> QED  BY <2>4, <2>6, <3>3, InsideFacts, InsideSettles
  <2>10. CASE ~err[t]
    <3>1. Monitored(s)' => Heading(t)'
      BY <1>2, <1>4, <2>1, <2>10 DEF Monitored, Heading
    <3>2. HasWorker(s)'
      BY <1>2, <3>1 DEF HasWorker
    <3>3. Stopping(t)' => ~Monitored(s)'
      BY <1>2, <2>1 DEF Monitored, Stopping
    <3>4. Heading(t)' => /\ exists'[s] = "live" /\ (allow'[s] \/ s \in Active)
                         /\ got'[t].allow = allow'[s]
                         /\ goal'[t] # "register"
      BY <1>2, <2>1, <2>2, <2>5 DEF Heading
    <3>5. ActsRight(t, s)'
      BY <3>3, <3>4 DEF ActsRight, Suits
    <3> QED  BY <2>4, <2>6, <2>7, <3>2, <3>5, InsideSettles
  <2> QED  BY <2>9, <2>10
<1> QED  BY <1>3, <1>4 DEF ReadServer

(* An unmonitored agent server that is not paired is to have a worker.     *)
LEMMA ReadPublicKeySettles ==
    ASSUME IInv, SettleInv, NEW t \in Threads, ReadPublicKey(t)
    PROVE  SettleInv'
<1> USE LifecycleAssumption
<1>0. ThreadType /\ Inside(t) /\ Local(t)
  BY DEF IInv, TypeOK, ReadPublicKey, Inside, InsidePlaces, SettleInv
<1>1. PICK s \in Servers : s = srv[t]
  BY <1>0, InsideHasServer DEF IInv
<1> USE <1>1
<1>2. UNCHANGED <<exists, allow, cfg, pinned, srv, todo, retryOf, toBoot, pool, wset, got, excused>>
  BY DEF ReadPublicKey, db, retries, workers
<1>3. pc'[t] = "take" /\ pc[t] = "readKey" /\ \A u \in Threads \ {t} : pc'[u] = pc[u]
  BY <1>0 DEF ReadPublicKey, ThreadType
<1>4. CASE ReadMayFail(t) /\ err' = [err EXCEPT ![t] = TRUE] /\ UNCHANGED goal
  <2>1. err'[t] /\ \A u \in Threads \ {t} : err'[u] = err[u]
    BY <1>0, <1>4 DEF ThreadType
  <2>2. InsideStep(t)
    BY <1>0, <1>2, <1>3, <1>4, <2>1 DEF InsideStep, Inside, InsidePlaces
  <2> QED  BY <1>3, <2>1, <2>2, FailingRead
<1>5. CASE /\ goal' = [goal EXCEPT ![t] = IF exists[s] = "live" /\ pinned[s] = 0 THEN "load" ELSE "return"]
           /\ UNCHANGED err
  <2>1. /\ goal'[t] = IF exists[s] = "live" /\ pinned[s] = 0 THEN "load" ELSE "return"
        /\ \A u \in Threads \ {t} : goal'[u] = goal[u]
    BY <1>0, <1>5 DEF ThreadType
  <2>2. InsideStep(t)
    BY <1>0, <1>2, <1>3, <1>5, <2>1 DEF InsideStep, Inside, InsidePlaces
  <2>3. Local(t)'
    BY <1>0, <1>2, <1>3, <1>5 DEF Local, Inside, InsidePlaces
  <2>4. SUFFICES ASSUME ~Owed(s)' PROVE PoolAgrees(s)' /\ HasWorker(s)' /\ ActsRight(t, s)'
    BY <2>2, <2>3, InsideSettles
  <2>5. PoolAgrees(s)'
    BY <1>3, <2>2, InsideFacts DEF PoolAgrees
  <2>6. ~Due(t)'
    BY <2>2, <2>4, InsideFacts
  <2>7. ~Due(t) /\ ~err[t]
    <3>1. Due(t) => err[t]
      <4>1. t \in Callers => todo[t] # StopReconcile
        BY <1>3, <2>2, InsideFacts, ProgramKinds
      <4> QED  BY <1>3, <4>1 DEF Due
    <3>2. err[t] => Due(t)'
      <4>1. t \in Callers => todo[t] = LastReconcile
        BY <1>3, <2>2, InsideFacts
      <4>2. t \in Retries => retryOf[srv[t]] = t
        BY <2>2, InsideFacts
      <4> QED  BY <1>2, <1>5, <4>1, <4>2 DEF Due, Threads
    <3> QED  BY <2>6, <3>1, <3>2
  <2>8. ~Owed(s)
    BY <2>2, <2>4, <2>7, InsideFacts
  <2>9. Heading(t) /\ (Deleting(s) \/ Suits(got[t], s))
    <3>1. Heading(t)
      BY <1>3, <2>7 DEF Heading
    <3> QED  BY <2>2, <2>8, <3>1, InsideFacts DEF Fine, ActsRight
  <2>10. Monitored(s) => pinned[s] = 0 /\ exists[s] = "live"
    <3>1. Deleting(s) => ~Monitored(s)
      BY <2>2, InsideFacts
    <3>2. ~got[t].allow
      BY <1>0, <1>3 DEF Local
    <3> QED  BY <2>9, <3>1, <3>2 DEF Monitored, Suits
  <2>11. Monitored(s)' => Monitored(s) /\ Heading(t)'
    BY <1>2, <1>3, <1>5, <2>1, <2>7, <2>10 DEF Monitored, Heading
  <2>12. HasWorker(s)'
    BY <1>2, <2>11 DEF HasWorker
  <2>13. Stopping(t)' => ~Monitored(s)'
    BY <2>1, <2>10, <2>11 DEF Stopping
  <2>14. Deleting(s)' \/ Suits(got[t], s)'
    <3>1. Suits(got[t], s) => Suits(got[t], s)'
      BY <1>2 DEF Suits
    <3> QED  BY <2>2, <2>9, <3>1, InsideFacts
  <2>15. goal'[t] # "register"
    BY <2>1
  <2>16. ActsRight(t, s)'
    BY <2>13, <2>14, <2>15 DEF ActsRight
  <2> QED  BY <2>5, <2>12, <2>16
<1> QED  BY <1>4, <1>5 DEF ReadPublicKey

(* Inside, a goroutine that may still fail its reconciliation is due.      *)
LEMMA ErrIsDue ==
    ASSUME IInv, SettleInv, NEW t \in Threads, Inside(t), err[t]
    PROVE  Due(t)
<1>1. t \in Callers => todo[t] = LastReconcile
  BY DEF SettleInv, Local
<1>2. t \in Retries => retryOf[srv[t]] = t
  BY DEF IInv, RetryInv
<1> QED  BY <1>1, <1>2 DEF Due, Threads

(* The entry is taken out: by a reconciliation that puts one back or whose *)
(* server is to have none, or by a stop that something follows.            *)
LEMMA TakeEntrySettles ==
    ASSUME IInv, SettleInv, NEW t \in Threads, TakeEntry(t)
    PROVE  SettleInv'
<1> USE LifecycleAssumption
<1>0. ThreadType /\ PoolType /\ Inside(t) /\ Local(t) /\ pc[t] = "take"
  BY DEF IInv, TypeOK, TakeEntry, Inside, InsidePlaces, SettleInv
<1>1. PICK s \in Servers : s = srv[t]
  BY <1>0, InsideHasServer DEF IInv
<1> USE <1>1
<1>2. UNCHANGED <<exists, allow, cfg, pinned, srv, todo, retryOf, toBoot, wset, goal, got, err, excused>>
  BY DEF TakeEntry, db, retries
<1>3. /\ pc'[t] \in {"wait", "finish", "load", "register"}
      /\ goal[t] # "return" => pc'[t] \in {"wait", "load", "register"}
      /\ \A u \in Threads \ {t} : pc'[u] = pc[u]
  <2>1. goal[t] \in {"return", "load", "register"}
    BY <1>0 DEF ThreadType
  <2> QED  BY <1>0, <2>1 DEF TakeEntry, ThreadType, AfterStop
<1>4. pool'[s] = None /\ \A x \in Servers \ {s} : pool'[x] = pool[x]
  BY <1>0 DEF TakeEntry, PoolType
<1>5. InsideStep(t)
  BY <1>0, <1>2, <1>3, <1>4 DEF InsideStep, Inside, InsidePlaces
<1>6. Local(t)'
  BY <1>0, <1>2, <1>3 DEF Local, Inside, InsidePlaces
<1>7. SUFFICES ASSUME ~Owed(s)' PROVE PoolAgrees(s)' /\ HasWorker(s)' /\ ActsRight(t, s)'
  BY <1>5, <1>6, InsideSettles
<1>8. Due(t)' <=> Due(t)
  BY <1>0, <1>2, <1>3 DEF Due
<1>9. ~Due(t) /\ ~Owed(s) /\ ~err[t]
  BY <1>0, <1>5, <1>7, <1>8, InsideFacts, ErrIsDue
<1>10. HasWorker(s) /\ ActsRight(t, s)
  BY <1>5, <1>9, InsideFacts DEF Fine
<1>11. PoolAgrees(s)'
  BY <1>4 DEF PoolAgrees
<1>12. Heading(t)' <=> Heading(t)
  BY <1>0, <1>2, <1>3 DEF Heading
<1>13. Monitored(s) => Open(s) \/ Heading(t)
  <2> SUFFICES ASSUME Monitored(s), ~Heading(t) PROVE Open(s)
    OBVIOUS
  <2>1. goal[t] = "return"
    BY <1>0, <1>9 DEF Heading
  <2>2. ~Stopping(t)
    BY <1>10 DEF ActsRight
  <2>3. t \in Callers /\ todo[t] # LastReconcile
    BY <1>0, <1>9, <2>1, <2>2 DEF Stopping, Threads
  <2>4. todo[t] # StopReconcile
    BY <1>9, <2>3 DEF Due
  <2>5. todo[t] # LastStop
    BY <2>3 DEF IInv, PurgeInv, Monitored
  <2> QED  BY <1>5, <2>3, <2>4, <2>5, InsideFacts
<1>14. HasWorker(s)'
  BY <1>2, <1>5, <1>12, <1>13, InsideFacts DEF HasWorker
<1>15. ActsRight(t, s)'
  <2>1. ~Stopping(t)'
    BY <1>3 DEF Stopping
  <2>2. Suits(got[t], s) => Suits(got[t], s)'
    BY <1>2 DEF Suits
  <2>3. UpToDate(got[t], s) => UpToDate(got[t], s)'
    BY <1>2, <1>5, InsideFacts DEF UpToDate
  <2>4. goal'[t] = goal[t]
    BY <1>2
  <2> QED  BY <1>5, <1>10, <1>12, <2>1, <2>2, <2>3, <2>4, InsideFacts DEF ActsRight
<1> QED  BY <1>11, <1>14, <1>15

(* The worker that was awaited is gone; its server has none meanwhile.     *)
LEMMA AwaitDoneSettles ==
    ASSUME IInv, SettleInv, NEW t \in Threads, AwaitDone(t)
    PROVE  SettleInv'
<1> USE LifecycleAssumption
<1>0. ThreadType /\ WorkerType /\ WorkerInv /\ Inside(t) /\ Local(t) /\ pc[t] = "wait"
  BY DEF IInv, TypeOK, AwaitDone, Inside, InsidePlaces, SettleInv
<1>1. PICK s \in Servers : s = srv[t]
  BY <1>0, InsideHasServer DEF IInv
<1> USE <1>1
<1>2. UNCHANGED <<exists, allow, cfg, pinned, srv, todo, retryOf, toBoot, pool, goal, got, err, excused>>
  BY DEF AwaitDone, db, retries
<1>3. /\ pc'[t] \in {"finish", "load", "register"}
      /\ goal[t] # "return" => pc'[t] \in {"load", "register"}
      /\ \A u \in Threads \ {t} : pc'[u] = pc[u]
  <2>1. goal[t] \in {"return", "load", "register"}
    BY <1>0 DEF ThreadType
  <2> QED  BY <1>0, <2>1 DEF AwaitDone, ThreadType, AfterStop
<1>4. /\ pool[s] = None
      /\ \A x \in Servers \ {s} : pool[x] # None => wset'[pool[x]] = wset[pool[x]]
  <2>1. pool[s] = None /\ victim[t] \in Workers /\ wsrv[victim[t]] = s
    BY <1>0 DEF WorkerInv
  <2>2. \A x \in Servers \ {s} : pool[x] # None => pool[x] \in Workers /\ pool[x] # victim[t]
    BY <1>0, <2>1 DEF WorkerInv, IInv, TypeOK, PoolType
  <2>3. wset' = [wset EXCEPT ![victim[t]] = NoSettings]
    BY DEF AwaitDone
  <2> QED  BY <1>0, <2>1, <2>2, <2>3 DEF WorkerType
<1>5. InsideStep(t)
  BY <1>0, <1>2, <1>3, <1>4 DEF InsideStep, Inside, InsidePlaces
<1>6. Local(t)'
  BY <1>0, <1>2, <1>3 DEF Local, Inside, InsidePlaces
<1>7. SUFFICES ASSUME ~Owed(s)' PROVE PoolAgrees(s)' /\ HasWorker(s)' /\ ActsRight(t, s)'
  BY <1>5, <1>6, InsideSettles
<1>8. Due(t)' <=> Due(t)
  BY <1>0, <1>2, <1>3 DEF Due
<1>9. ~Owed(s)
  BY <1>5, <1>7, <1>8, InsideFacts
<1>10. HasWorker(s) /\ ActsRight(t, s)
  BY <1>5, <1>9, InsideFacts DEF Fine
<1>11. PoolAgrees(s)'
  BY <1>2, <1>4 DEF PoolAgrees
<1>12. Heading(t)' <=> Heading(t)
  BY <1>0, <1>2, <1>3 DEF Heading
<1>13. Monitored(s) /\ excused[s] \subseteq {"key"} => Open(s) \/ Heading(t)
  BY <1>4, <1>5, <1>10, InsideFacts DEF HasWorker
<1>14. HasWorker(s)'
  BY <1>2, <1>5, <1>12, <1>13, InsideFacts DEF HasWorker
<1>15. ActsRight(t, s)'
  <2>1. ~Stopping(t)'
    BY <1>3 DEF Stopping
  <2>2. Suits(got[t], s) => Suits(got[t], s)'
    BY <1>2 DEF Suits
  <2>3. UpToDate(got[t], s) => UpToDate(got[t], s)'
    BY <1>2, <1>5, InsideFacts DEF UpToDate
  <2>4. goal'[t] = goal[t]
    BY <1>2
  <2> QED  BY <1>5, <1>10, <1>12, <2>1, <2>2, <2>3, <2>4, InsideFacts DEF ActsRight
<1> QED  BY <1>11, <1>14, <1>15

(* startServer loads the settings of a row that is still as it was read,   *)
(* or finds that it is gone.                                               *)
LEMMA LoadSettingsSettles ==
    ASSUME IInv, SettleInv, NEW t \in Threads, LoadSettings(t)
    PROVE  SettleInv'
<1> USE LifecycleAssumption
<1>0. ThreadType /\ Inside(t) /\ Local(t) /\ pc[t] = "load" /\ goal[t] = "load"
  BY DEF IInv, TypeOK, PlaceInv, LoadSettings, Inside, InsidePlaces, SettleInv
<1>1. PICK s \in Servers : s = srv[t]
  BY <1>0, InsideHasServer DEF IInv
<1> USE <1>1
<1>2. UNCHANGED <<exists, allow, cfg, pinned, srv, todo, retryOf, toBoot, pool, wset, excused>>
  BY DEF LoadSettings, db, retries, workers
<1>3. CASE /\ ReadMayFail(t) /\ err' = [err EXCEPT ![t] = TRUE] /\ pc' = [pc EXCEPT ![t] = "finish"]
           /\ UNCHANGED <<goal, got>>
  <2>1. /\ err'[t] /\ \A u \in Threads \ {t} : err'[u] = err[u]
        /\ pc'[t] = "finish" /\ \A u \in Threads \ {t} : pc'[u] = pc[u]
    BY <1>0, <1>3 DEF ThreadType
  <2>2. InsideStep(t)
    BY <1>0, <1>2, <1>3, <2>1 DEF InsideStep, Inside, InsidePlaces
  <2> QED  BY <1>0, <2>1, <2>2, FailingRead
<1>4. CASE /\ exists[s] # "live" /\ pc' = [pc EXCEPT ![t] = "finish"]
           /\ UNCHANGED <<err, goal, got>>
  <2>1. pc'[t] = "finish" /\ \A u \in Threads \ {t} : pc'[u] = pc[u]
    BY <1>0, <1>4 DEF ThreadType
  <2>2. InsideStep(t)
    BY <1>0, <1>2, <1>4, <2>1 DEF InsideStep, Inside, InsidePlaces
  <2>3. Local(t)'
    BY <1>0, <1>2, <1>4, <2>1 DEF Local, Inside, InsidePlaces
  <2>4. SUFFICES ASSUME ~Owed(s)' PROVE PoolAgrees(s)' /\ HasWorker(s)' /\ ActsRight(t, s)'
    BY <2>2, <2>3, InsideSettles
  <2>5. Due(t)' <=> Due(t)
    BY <1>0, <1>2, <1>4, <2>1 DEF Due
  <2>6. ~Owed(s)
    BY <2>2, <2>4, <2>5, InsideFacts
  <2>7. ~Emptying(s) /\ PoolAgrees(s)
    BY <1>0, <2>2, <2>6, InsideFacts DEF Fine
  <2>8. PoolAgrees(s)'
    <3>1. pool[s] # None => Deleting(s)
      BY <1>4, <2>7 DEF PoolAgrees, Suits
    <3> QED  BY <1>2, <2>2, <3>1, InsideFacts DEF PoolAgrees
  <2>9. ~Monitored(s)'
    BY <1>2, <1>4 DEF Monitored
  <2>10. ~Heading(t)'
    BY <2>1 DEF Heading
  <2> QED  BY <2>8, <2>9, <2>10 DEF HasWorker, ActsRight
<1>5. CASE /\ exists[s] = "live"
           /\ got' = [got EXCEPT ![t].cfg = cfg[s], ![t].key = pinned[s]]
           /\ goal' = [goal EXCEPT ![t] = "register"]
           /\ pc' = [pc EXCEPT ![t] = "take"]
           /\ UNCHANGED err
  <2>1. /\ pc'[t] = "take" /\ goal'[t] = "register"
        /\ \A u \in Threads \ {t} : pc'[u] = pc[u] /\ goal'[u] = goal[u]
    BY <1>0, <1>5 DEF ThreadType
  <2>2. got'[t].cfg = cfg[s] /\ got'[t].allow = got[t].allow /\ \A u \in Threads \ {t} : got'[u] = got[u]
    BY <1>0, <1>5 DEF ThreadType
  <2>3. InsideStep(t)
    BY <1>0, <1>2, <1>5, <2>1, <2>2 DEF InsideStep, Inside, InsidePlaces
  <2>4. Local(t)'
    BY <1>0, <1>2, <1>5, <2>1 DEF Local, Inside, InsidePlaces
  <2>5. SUFFICES ASSUME ~Owed(s)' PROVE PoolAgrees(s)' /\ HasWorker(s)' /\ ActsRight(t, s)'
    BY <2>3, <2>4, InsideSettles
  <2>6. Due(t)' <=> Due(t)
    BY <1>0, <1>2, <1>5, <2>1 DEF Due
  <2>7. ~Owed(s) /\ ~err[t]
    BY <1>0, <2>3, <2>5, <2>6, InsideFacts, ErrIsDue
  <2>8. Heading(t) /\ ActsRight(t, s)
    BY <1>0, <2>3, <2>7, InsideFacts DEF Fine, Heading
  <2>9. PoolAgrees(s)'
    BY <2>1, <2>3, InsideFacts DEF PoolAgrees
  <2>10. Heading(t)' /\ ~Stopping(t)'
    BY <1>5, <2>1, <2>7 DEF Heading, Stopping
  <2>11. HasWorker(s)'
    BY <1>2, <2>10 DEF HasWorker
  <2>12. Suits(got[t], s) => Suits(got[t], s)'
    BY <1>2, <2>2 DEF Suits
  <2>13. UpToDate(got[t], s)'
    BY <1>2, <2>2 DEF UpToDate
  <2>14. Deleting(s) \/ Suits(got[t], s)
    BY <2>8 DEF ActsRight
  <2>15. ActsRight(t, s)'
    BY <2>3, <2>10, <2>12, <2>13, <2>14, InsideFacts DEF ActsRight
  <2> QED  BY <2>9, <2>11, <2>15
<1> QED  BY <1>3, <1>4, <1>5 DEF LoadSettings

(* The worker is registered with the settings its goroutine holds.         *)
LEMMA RegisterSettles ==
    ASSUME IInv, SettleInv, NEW t \in Threads, Register(t)
    PROVE  SettleInv'
<1> USE LifecycleAssumption
<1>0. /\ ThreadType /\ PoolType /\ WorkerType /\ HandlerType /\ WorkerInv
      /\ Inside(t) /\ Local(t) /\ pc[t] = "register" /\ goal[t] = "register"
  BY DEF IInv, TypeOK, PlaceInv, Register, Inside, InsidePlaces, SettleInv
<1>1. PICK s \in Servers : s = srv[t]
  BY <1>0, InsideHasServer DEF IInv
<1> USE <1>1
<1>2. UNCHANGED <<exists, allow, cfg, pinned, srv, todo, retryOf, toBoot, goal, got, err>>
  BY DEF Register, db, retries, locals
<1>3. /\ pc'[t] = "finish" /\ \A u \in Threads \ {t} : pc'[u] = pc[u]
      /\ excused'[s] = excused[s] \ {"ended", "edit"}
      /\ \A x \in Servers \ {s} : excused'[x] = excused[x]
  BY <1>0 DEF Register, ThreadType, HandlerType
<1>4. PICK w \in Workers : /\ wst[w] = "off"
                           /\ pool' = [pool EXCEPT ![s] = w]
                           /\ wset' = [wset EXCEPT ![w] = got[t]]
  BY DEF Register
<1>5. /\ pool'[s] = w /\ w # None /\ wset'[w] = got[t]
      /\ \A x \in Servers \ {s} : pool'[x] = pool[x]
      /\ \A x \in Servers \ {s} : pool[x] # None => wset'[pool[x]] = wset[pool[x]]
  <2>1. \A x \in Servers : pool[x] # None => pool[x] \in Workers /\ pool[x] # w
    BY <1>0, <1>4 DEF WorkerInv, Live, PoolType
  <2> QED  BY <1>0, <1>4, <2>1 DEF PoolType, WorkerType
<1>6. InsideStep(t)
  BY <1>0, <1>2, <1>3, <1>5 DEF InsideStep, Inside, InsidePlaces
<1>7. Local(t)'
  BY <1>0, <1>2, <1>3 DEF Local, Inside, InsidePlaces
<1>8. SUFFICES ASSUME ~Owed(s)' PROVE PoolAgrees(s)' /\ HasWorker(s)' /\ ActsRight(t, s)'
  BY <1>6, <1>7, InsideSettles
<1>9. Due(t)' <=> Due(t)
  BY <1>0, <1>2, <1>3 DEF Due
<1>10. ~Owed(s) /\ ~err[t]
  BY <1>0, <1>6, <1>8, <1>9, InsideFacts, ErrIsDue
<1>11. Heading(t) /\ ActsRight(t, s)
  BY <1>0, <1>6, <1>10, InsideFacts DEF Fine, Heading
<1>12. Deleting(s) \/ (Suits(got[t], s) /\ UpToDate(got[t], s))
  BY <1>0, <1>11 DEF ActsRight
<1>13. PoolAgrees(s)'
  <2>1. Suits(got[t], s) => Suits(wset[pool[s]], s)'
    BY <1>2, <1>5 DEF Suits
  <2>2. UpToDate(got[t], s) => UpToDate(wset[pool[s]], s)'
    BY <1>2, <1>3, <1>5, <1>6, InsideFacts DEF UpToDate
  <2> QED  BY <1>6, <1>12, <2>1, <2>2, InsideFacts DEF PoolAgrees
<1>14. HasWorker(s)'
  BY <1>5 DEF HasWorker
<1>15. ~Heading(t)' /\ ~Stopping(t)'
  BY <1>3 DEF Heading, Stopping
<1> QED  BY <1>13, <1>14, <1>15 DEF ActsRight

-----------------------------------------------------------------------------
(* A step after which the server is owed a reconciliation settles all.     *)
LEMMA OwedSettles ==
    ASSUME SettleInv, NEW s \in Servers, NEW T \in SUBSET Threads, OnlyAt(T, s),
           \A u \in T : Local(u)',
           Owed(s)'
    PROVE  SettleInv'
<1>1. Fine(s)'
  BY DEF Fine
<1> QED  BY <1>1, StepAt

(* A goroutine outside the lifecycle takes its server up or lets it go, or *)
(* changes its row: what it stood for must not be needed any more.         *)
LEMMA OutsideSettles ==
    ASSUME IInv, SettleInv, NEW s \in Servers, NEW t \in Threads, OnlyAt({t}, s), Local(t)',
           ~Inside(t), ~Inside(t)',
           pool'[s] = pool[s], s \in toBoot' <=> s \in toBoot,
           UNCHANGED wset,
           retryOf'[s] = retryOf[s],
           srv[t] = s => ~Due(t) \/ (Due(t)' /\ srv'[t] = s),
           t \in Callers => pc[t] # "lock",
           Monitored(s)' => Monitored(s),
           \A set : Suits(set, s) => Deleting(s)' \/ Suits(set, s)',
           \A set : Suits(set, s) /\ UpToDate(set, s) => Deleting(s)' \/ UpToDate(set, s)',
           Monitored(s)' /\ excused'[s] \subseteq {"key"} =>
              /\ excused[s] \subseteq {"key"}
              /\ t \in Callers /\ srv[t] = s /\ todo[t] \in OpenEnds =>
                    srv'[t] = s /\ todo'[t] \in OpenEnds
    PROVE  SettleInv'
<1> USE LifecycleAssumption
<1>0. Fine(s) /\ Local(t)
  BY DEF SettleInv
<1>1. ~Heading(t) /\ ~Stopping(t) /\ ~Heading(t)' /\ ~Stopping(t)'
      /\ pc[t] \notin {"read", "readKey", "take"} /\ pc'[t] \notin {"read", "readKey", "take"}
  BY <1>0 DEF Local, Inside, InsidePlaces, Heading, Stopping
<1>2. \A u \in Threads \ {t} :
          /\ pc'[u] = pc[u] /\ srv'[u] = srv[u] /\ goal'[u] = goal[u] /\ got'[u] = got[u]
          /\ err'[u] = err[u] /\ (u \in Callers => todo'[u] = todo[u])
  BY DEF OnlyAt
<1>3. \A u \in Threads \ {t} : srv[u] = s => (Due(u)' <=> Due(u))
  BY <1>2 DEF Due
<1>4. Owed(s) => Owed(s)'
  BY <1>2, <1>3 DEF Owed
<1>5. SUFFICES ASSUME ~Owed(s)' PROVE PoolAgrees(s)' /\ HasWorker(s)' /\
                                      \A u \in Threads : srv'[u] = s => ActsRight(u, s)'
  <2>1. Fine(s)'
    BY <1>5 DEF Fine
  <2>2. {t} \in SUBSET Threads /\ \A u \in {t} : Local(u)'
    OBVIOUS
  <2> QED  BY <2>1, <2>2, StepAt
<1>6. PoolAgrees(s) /\ HasWorker(s) /\ \A u \in Threads : srv[u] = s => ActsRight(u, s)
  BY <1>0, <1>4, <1>5 DEF Fine
<1>7. Emptying(s)' <=> Emptying(s)
  BY <1>1, <1>2 DEF Emptying
<1>8. Deleting(s) => Deleting(s)'
  BY <1>2 DEF Deleting, Threads
<1>9. PoolAgrees(s)'
  <2>1. wset'[pool'[s]] = wset[pool[s]]
    OBVIOUS
  <2>2. PICK set : set = wset[pool[s]]
    OBVIOUS
  <2>3. pool[s] # None /\ ~Emptying(s) => Deleting(s) \/ (Suits(set, s) /\ UpToDate(set, s))
    BY <1>6, <2>2 DEF PoolAgrees
  <2>4. Deleting(s)' \/ (Suits(set, s)' /\ UpToDate(set, s)') =>
            Deleting(s)' \/ (Suits(wset[pool[s]], s)' /\ UpToDate(wset[pool[s]], s)')
    BY <2>1, <2>2 DEF Suits, UpToDate
  <2> QED  BY <1>7, <1>8, <2>3, <2>4 DEF PoolAgrees
<1>10. HasWorker(s)'
  <2> SUFFICES ASSUME Monitored(s)', excused'[s] \subseteq {"key"}, pool'[s] = None
               PROVE  Open(s)' \/ \E u \in Threads : srv'[u] = s /\ Heading(u)'
    BY DEF HasWorker
  <2>1. Open(s) \/ \E u \in Threads : srv[u] = s /\ Heading(u)
    BY <1>6 DEF HasWorker
  <2>2. Open(s) => Open(s)'
    BY <1>2 DEF Open, Threads
  <2>3. \A u \in Threads \ {t} : Heading(u)' <=> Heading(u)
    BY <1>2 DEF Heading
  <2> QED  BY <1>1, <1>2, <2>1, <2>2, <2>3
<1>11. ASSUME NEW u \in Threads, srv'[u] = s PROVE ActsRight(u, s)'
  <2>1. CASE u = t
    BY <1>1, <2>1 DEF ActsRight
  <2>2. CASE u # t
    <3>1. ActsRight(u, s)
      BY <1>2, <1>6, <1>11, <2>2
    <3>2. (Heading(u)' <=> Heading(u)) /\ (Stopping(u)' <=> Stopping(u))
      BY <1>2, <2>2 DEF Heading, Stopping, Threads
    <3>3. goal'[u] = goal[u] /\ got'[u] = got[u]
      BY <1>2, <2>2
    <3>4. PICK set : set = got[u]
      OBVIOUS
    <3>5. Heading(u) => Deleting(s) \/ (Suits(set, s) /\ (goal[u] = "register" => UpToDate(set, s)))
      BY <3>1, <3>4 DEF ActsRight
    <3>6. Suits(set, s)' => Suits(got[u], s)'
      BY <3>3, <3>4 DEF Suits
    <3>7. UpToDate(set, s)' => UpToDate(got[u], s)'
      BY <3>3, <3>4 DEF UpToDate
    <3>8. Stopping(u) => ~Monitored(s)
      BY <3>1 DEF ActsRight
    <3> QED  BY <1>8, <3>2, <3>3, <3>5, <3>6, <3>7, <3>8 DEF ActsRight
  <2> QED  BY <2>1, <2>2
<1> QED  BY <1>9, <1>10, <1>11

(* What the first step of a request does to its goroutine.                 *)
LEMMA ServeFacts ==
    ASSUME IInv, SettleInv, NEW c \in Callers, NEW s \in Servers, NEW calls \in Programs, calls # <<>>,
           Serve(c, s, calls),
           \A x \in Servers \ {s} : /\ exists'[x] = exists[x] /\ allow'[x] = allow[x]
                                    /\ cfg'[x] = cfg[x] /\ pinned'[x] = pinned[x]
    PROVE  /\ c \in Threads /\ OnlyAt({c}, s) /\ ~Inside(c) /\ ~Inside(c)'
           /\ pc[c] = "idle" /\ srv[c] = None /\ ~err'[c]
           /\ pc'[c] = Entry(calls) /\ srv'[c] = s /\ todo'[c] = calls
           /\ UNCHANGED <<pool, retryOf, wset, toBoot, excused>>
<1> USE LifecycleAssumption
<1>0. ThreadType /\ HandlerType /\ c \in Threads /\ Local(c)
  BY DEF IInv, TypeOK, SettleInv, Threads
<1>1. /\ todo' = [todo EXCEPT ![c] = calls] /\ pc' = [pc EXCEPT ![c] = Entry(calls)]
      /\ srv' = [srv EXCEPT ![c] = s] /\ pc[c] = "idle"
      /\ UNCHANGED <<pool, retryOf, wset, toBoot, excused, goal, got, err>>
  BY DEF Serve, retries, workers, locals
<1>2. /\ pc'[c] = Entry(calls) /\ srv'[c] = s /\ todo'[c] = calls
      /\ \A u \in Threads \ {c} : pc'[u] = pc[u] /\ srv'[u] = srv[u]
      /\ \A u \in Callers \ {c} : todo'[u] = todo[u]
  BY <1>0, <1>1 DEF ThreadType, HandlerType
<1>3. ~Inside(c) /\ ~Inside(c)'
  BY <1>1, <1>2, EntryPlaces DEF Inside, InsidePlaces
<1>4. srv[c] = None /\ ~err'[c]
  BY <1>0, <1>1, <1>3 DEF Local
<1>5. OnlyAt({c}, s)
  BY <1>0, <1>1, <1>2, <1>4 DEF OnlyAt
<1> QED  BY <1>0, <1>1, <1>2, <1>3, <1>4, <1>5

(* A request that begins with a reconciliation, or with a stop that one    *)
(* follows, leaves its server owed.                                        *)
LEMMA ServeOwed ==
    ASSUME IInv, SettleInv, NEW c \in Callers, NEW s \in Servers,
           NEW calls \in {LastReconcile, StopReconcile},
           Serve(c, s, calls),
           \A x \in Servers \ {s} : /\ exists'[x] = exists[x] /\ allow'[x] = allow[x]
                                    /\ cfg'[x] = cfg[x] /\ pinned'[x] = pinned[x]
    PROVE  SettleInv'
<1>1. calls \in Programs /\ calls # <<>> /\ Entry(calls) = "lock"
  <2>1. calls \in Programs /\ calls # <<>>
    BY ProgramKinds DEF Programs, LastReconcile, StopReconcile
  <2> QED  BY <2>1, ProgramKinds DEF Entry
<1>2. /\ c \in Threads /\ OnlyAt({c}, s) /\ ~err'[c]
      /\ pc'[c] = "lock" /\ srv'[c] = s /\ todo'[c] = calls
  BY <1>1, ServeFacts
<1>3. Local(c)'
  BY <1>2, ProgramKinds DEF Local
<1>4. Owed(s)'
  <2>1. Due(c)'
    BY <1>2 DEF Due
  <2> QED  BY <1>2, <2>1 DEF Owed
<1>5. {c} \in SUBSET Threads /\ \A u \in {c} : Local(u)'
  BY <1>2, <1>3
<1> QED  BY <1>2, <1>4, <1>5, OwedSettles

(* A request that changes no row leaves what its server has.               *)
LEMMA ServeJoins ==
    ASSUME IInv, SettleInv, NEW c \in Callers, NEW s \in Servers, NEW calls \in Programs, calls # <<>>,
           Serve(c, s, calls), UNCHANGED db,
           Head(calls).call # "list",
           Head(calls).call = "stop" => calls \in {StopReconcile, LastStop} \cup OpenEnds
    PROVE  SettleInv'
<1> USE LifecycleAssumption
<1>0. UNCHANGED <<exists, allow, cfg, pinned>>
  BY DEF db
<1>1. /\ c \in Threads /\ OnlyAt({c}, s) /\ ~Inside(c) /\ ~Inside(c)'
      /\ pc[c] = "idle" /\ srv[c] = None /\ ~err'[c]
      /\ pc'[c] = Entry(calls) /\ srv'[c] = s /\ todo'[c] = calls
      /\ UNCHANGED <<pool, retryOf, wset, toBoot, excused>>
  BY <1>0, ServeFacts
<1>2. Local(c)'
  <2>1. pc'[c] \notin {"idle", "off", "list", "readKey"}
    BY <1>1, EntryPlaces
  <2> QED  BY <1>1, <2>1 DEF Local
<1>3. Monitored(s)' => Monitored(s)
  BY <1>0 DEF Monitored
<1>4. \A set : Suits(set, s) => Suits(set, s)'
  BY <1>0 DEF Suits
<1>5. Listing(s) => Listing(s)'
  BY <1>1 DEF Listing, OnlyAt, Threads
<1>6. \A set : UpToDate(set, s) => UpToDate(set, s)'
  BY <1>0, <1>1, <1>5 DEF UpToDate
<1> QED  BY <1>1, <1>2, <1>3, <1>4, <1>6, OutsideSettles

(* The requests settle all.                                                *)
LEMMA RequestSettles ==
    ASSUME IInv, SettleInv, NEW c \in Callers, Request(c)
    PROVE  SettleInv'
<1> USE LifecycleAssumption
<1>0. DatabaseType
  BY DEF IInv, TypeOK
<1>1. PICK s \in Servers :
          \/ \E monitor \in BOOLEAN : Add(c, s, monitor) \/ Edit(c, s, monitor)
          \/ Delete(c, s) \/ Reinstall(c, s) \/ EditKey(c, s)
  BY DEF Request
<1>2. ASSUME NEW monitor \in BOOLEAN, Add(c, s, monitor) PROVE SettleInv'
  <2>1. Serve(c, s, LastReconcile)
    BY <1>2 DEF Add, LastReconcile
  <2>2. \A x \in Servers \ {s} : /\ exists'[x] = exists[x] /\ allow'[x] = allow[x]
                                 /\ cfg'[x] = cfg[x] /\ pinned'[x] = pinned[x]
    BY <1>0, <1>2 DEF Add, DatabaseType
  <2> QED  BY <2>1, <2>2, ServeOwed
<1>3. CASE Reinstall(c, s)
  <2>1. Serve(c, s, StopReconcile)
    BY <1>3 DEF Reinstall, StopReconcile
  <2>2. \A x \in Servers \ {s} : /\ exists'[x] = exists[x] /\ allow'[x] = allow[x]
                                 /\ cfg'[x] = cfg[x] /\ pinned'[x] = pinned[x]
    BY <1>0, <1>3 DEF Reinstall, DatabaseType
  <2> QED  BY <2>1, <2>2, ServeOwed
<1>4. CASE Delete(c, s)
  <2> DEFINE calls == <<Call("stop"), Call("delete"), Call("stop"), Call("purge")>>
  <2>1. calls \in OpenEnds /\ calls \in Programs
    BY DEF OpenEnds, Programs
  <2>2. Serve(c, s, calls) /\ UNCHANGED db
    BY <1>4 DEF Delete
  <2> HIDE DEF calls
  <2>3. calls # <<>> /\ Head(calls).call # "list"
    BY <2>1, ProgramKinds
  <2> QED  BY <2>1, <2>2, <2>3, ServeJoins
<1>5. ASSUME Edit(c, s, TRUE) PROVE SettleInv'
  <2>0. UNCHANGED db /\ allow[s] \in BOOLEAN
    BY <1>0, <1>5 DEF Edit, DatabaseType
  <2> DEFINE calls == <<EditCall(TRUE, allow[s]), Call("reconcile")>>
  <2>1. Serve(c, s, calls)
    <3>1. Serve(c, s, <<>> \o calls)
      BY <1>5 DEF Edit
    <3>2. calls \in Seq(CallRecords)
      BY <2>0, ProgramMembers, ProgramType
    <3>3. <<>> \o calls = calls
      BY <3>2
    <3> QED  BY <3>1, <3>3
  <2>2. calls \in Programs /\ calls # <<>>
    BY <2>0, ProgramMembers
  <2>3. Head(calls).call = "edit"
    <3>1. Head(calls) = EditCall(TRUE, allow[s])
      OBVIOUS
    <3>2. EditCall(TRUE, allow[s]).call = "edit"
      BY DEF EditCall
    <3> HIDE DEF calls
    <3> QED  BY <3>1, <3>2
  <2> HIDE DEF calls
  <2> QED  BY <2>0, <2>1, <2>2, <2>3, ServeJoins
<1>6. ASSUME Edit(c, s, FALSE) PROVE SettleInv'
  <2>0. UNCHANGED db /\ allow[s] \in BOOLEAN
    BY <1>0, <1>6 DEF Edit, DatabaseType
  <2> DEFINE calls == <<Call("stop"), EditCall(FALSE, allow[s]), Call("reconcile")>>
  <2>1. Serve(c, s, calls)
    <3>1. Serve(c, s, <<Call("stop")>> \o <<EditCall(FALSE, allow[s]), Call("reconcile")>>)
      BY <1>6 DEF Edit
    <3>2. <<Call("stop")>> \o <<EditCall(FALSE, allow[s]), Call("reconcile")>> = calls
      BY <2>0, CallTypes, PrependCall
    <3> QED  BY <3>1, <3>2
  <2>2. calls \in OpenEnds /\ calls \in Programs
    BY <2>0, ProgramMembers DEF OpenEnds
  <2> HIDE DEF calls
  <2>3. calls # <<>> /\ Head(calls).call # "list"
    BY <2>2, ProgramKinds
  <2> QED  BY <2>0, <2>1, <2>2, <2>3, ServeJoins
<1>7. CASE EditKey(c, s)
  <2> DEFINE calls == <<Call("list")>>
  <2>1. calls \in Programs /\ calls # <<>> /\ Entry(calls) = "list"
    BY ProgramKinds DEF Programs, Entry
  <2>2. Serve(c, s, calls) /\ UNCHANGED <<exists, allow, pinned>> /\ s \notin Active
    BY <1>7 DEF EditKey
  <2>3. \A x \in Servers \ {s} : cfg'[x] = cfg[x]
    BY <1>0, <1>7 DEF EditKey, DatabaseType
  <2> HIDE DEF calls
  <2>a. \A x \in Servers \ {s} : /\ exists'[x] = exists[x] /\ allow'[x] = allow[x]
                                 /\ cfg'[x] = cfg[x] /\ pinned'[x] = pinned[x]
    BY <2>2, <2>3
  <2>b. OnlyAt({c}, s) /\ ~Inside(c) /\ ~Inside(c)' /\ ~err'[c] /\ srv[c] = None
    BY <2>1, <2>2, <2>a, ServeFacts
  <2>c. /\ c \in Threads /\ pc[c] = "idle" /\ pc'[c] = "list" /\ srv'[c] = s /\ todo'[c] = calls
        /\ UNCHANGED <<pool, retryOf, wset, toBoot, excused>>
    BY <2>1, <2>2 DEF Serve, IInv, TypeOK, ThreadType, HandlerType, Threads, retries, workers
  <2>4. /\ c \in Threads /\ OnlyAt({c}, s) /\ ~Inside(c) /\ ~Inside(c)'
        /\ pc[c] = "idle" /\ srv[c] = None /\ ~err'[c]
        /\ pc'[c] = "list" /\ srv'[c] = s /\ todo'[c] = calls
        /\ UNCHANGED <<pool, retryOf, wset, toBoot, excused>>
    BY <2>b, <2>c
  <2>5. Local(c)'
    <3>1. Head(calls).call # "stop"
      BY ProgramKinds DEF calls
    <3> QED  BY <2>2, <2>4, <3>1 DEF Local
  <2>6. Monitored(s)' => Monitored(s)
    BY <2>2 DEF Monitored
  <2>7. \A set : Suits(set, s) => Suits(set, s)'
    BY <2>2 DEF Suits
  <2>8. Listing(s)'
    BY <2>4 DEF Listing
  <2>9. \A set : UpToDate(set, s)'
    BY <2>8 DEF UpToDate
  <2> QED  BY <2>4, <2>5, <2>6, <2>7, <2>9, OutsideSettles
<1> QED  BY <1>1, <1>2, <1>3, <1>4, <1>5, <1>6, <1>7

(* What a handler's step does to its goroutine when it goes on.            *)
LEMMA GoOnFacts ==
    ASSUME IInv, SettleInv, NEW c \in Callers, NEW s \in Servers, s = srv[c],
           pc[c] \in {"edit", "delete", "purge", "list"},
           NEW calls \in Programs, GoOn(c, calls),
           UNCHANGED <<pool, retryOf, wset, toBoot, goal, got, err>>,
           \A x \in Servers \ {s} : /\ exists'[x] = exists[x] /\ allow'[x] = allow[x]
                                    /\ cfg'[x] = cfg[x] /\ pinned'[x] = pinned[x]
                                    /\ excused'[x] = excused[x]
    PROVE  /\ c \in Threads /\ OnlyAt({c}, s) /\ ~Inside(c) /\ ~Inside(c)' /\ ~err'[c]
           /\ pc'[c] = Entry(calls) /\ todo'[c] = calls
           /\ calls = <<>> => srv'[c] = None /\ pc'[c] = "idle"
           /\ calls # <<>> => srv'[c] = s
           /\ todo[c] \in Programs /\ todo[c] # <<>> /\ Head(todo[c]).call = pc[c]
           /\ ~Due(c)
<1> USE LifecycleAssumption
<1>0. ThreadType /\ HandlerType /\ c \in Threads /\ Local(c) /\ PlaceInv
  BY DEF IInv, TypeOK, SettleInv, Threads
<1>1. /\ todo' = [todo EXCEPT ![c] = calls] /\ pc' = [pc EXCEPT ![c] = Entry(calls)]
      /\ srv' = [srv EXCEPT ![c] = IF calls = <<>> THEN None ELSE @]
  BY DEF GoOn
<1>2. /\ pc'[c] = Entry(calls) /\ todo'[c] = calls
      /\ srv'[c] = IF calls = <<>> THEN None ELSE s
      /\ \A u \in Threads \ {c} : pc'[u] = pc[u] /\ srv'[u] = srv[u]
      /\ \A u \in Callers \ {c} : todo'[u] = todo[u]
  BY <1>0, <1>1 DEF ThreadType, HandlerType
<1>3. ~Inside(c) /\ ~Inside(c)'
  BY <1>2, EntryPlaces DEF Inside, InsidePlaces
<1>4. ~err'[c]
  BY <1>0, <1>3 DEF Local
<1>5. OnlyAt({c}, s)
  BY <1>0, <1>2 DEF OnlyAt
<1>6. todo[c] \in Programs /\ todo[c] # <<>> /\ Head(todo[c]).call = pc[c]
  BY <1>0, <1>3, EntryPlaces DEF PlaceInv
<1>7. ~Due(c)
  BY <1>6, ProgramKinds DEF Due
<1> QED  BY <1>0, <1>2, <1>3, <1>4, <1>5, <1>6, <1>7, EntryPlaces

(* A handler that goes on to a reconciliation leaves its server owed.      *)
LEMMA GoOnOwed ==
    ASSUME IInv, SettleInv, NEW c \in Callers, NEW s \in Servers, s = srv[c],
           pc[c] \in {"edit", "delete", "purge", "list"},
           GoOn(c, LastReconcile),
           UNCHANGED <<pool, retryOf, wset, toBoot, goal, got, err>>,
           \A x \in Servers \ {s} : /\ exists'[x] = exists[x] /\ allow'[x] = allow[x]
                                    /\ cfg'[x] = cfg[x] /\ pinned'[x] = pinned[x]
                                    /\ excused'[x] = excused[x]
    PROVE  SettleInv'
<1>1. LastReconcile \in Programs /\ LastReconcile # <<>> /\ Entry(LastReconcile) = "lock"
  <2>1. LastReconcile \in Programs /\ LastReconcile # <<>>
    BY ProgramKinds, ProgramMembers DEF LastReconcile
  <2> QED  BY <2>1, ProgramKinds DEF Entry
<1>a. OnlyAt({c}, s) /\ ~err'[c] /\ ~Due(c)
  BY <1>1, GoOnFacts
<1>b. c \in Threads /\ pc'[c] = "lock" /\ srv'[c] = s /\ todo'[c] = LastReconcile
  BY <1>1 DEF GoOn, IInv, TypeOK, ThreadType, HandlerType, Threads
<1>2. /\ c \in Threads /\ OnlyAt({c}, s) /\ ~err'[c]
      /\ pc'[c] = "lock" /\ srv'[c] = s /\ todo'[c] = LastReconcile
  BY <1>a, <1>b
<1>3. Local(c)'
  BY <1>2, ProgramKinds DEF Local
<1>4. Owed(s)'
  <2>1. Due(c)'
    BY <1>2 DEF Due
  <2> QED  BY <1>2, <2>1 DEF Owed
<1>5. {c} \in SUBSET Threads /\ \A u \in {c} : Local(u)'
  BY <1>2, <1>3
<1> QED  BY <1>2, <1>4, <1>5, OwedSettles

(* A handler that is done, no row has changed, if nothing hangs on it.     *)
LEMMA GoOnEnds ==
    ASSUME IInv, SettleInv, NEW c \in Callers, NEW s \in Servers, s = srv[c],
           pc[c] \in {"edit", "delete", "purge", "list"},
           GoOn(c, <<>>),
           UNCHANGED <<pool, retryOf, wset, toBoot, goal, got, err>>,
           UNCHANGED <<exists, allow, cfg, pinned>>,
           \A x \in Servers \ {s} : excused'[x] = excused[x],
           excused[s] \subseteq excused'[s],
           pc[c] = "list" => "key" \in excused'[s] \/ exists[s] # "live" \/ ~allow[s],
           todo[c] \in OpenEnds => "edit" \in excused'[s]
    PROVE  SettleInv'
<1> USE LifecycleAssumption
<1>0. \A x \in Servers \ {s} : /\ exists'[x] = exists[x] /\ allow'[x] = allow[x]
                               /\ cfg'[x] = cfg[x] /\ pinned'[x] = pinned[x]
                               /\ excused'[x] = excused[x]
  OBVIOUS
<1>1. <<>> \in Programs
  BY ProgramMembers
<1>a. OnlyAt({c}, s) /\ ~Inside(c) /\ ~Inside(c)' /\ ~err'[c] /\ ~Due(c)
  BY <1>0, <1>1, GoOnFacts
<1>b. pc'[c] = "idle" /\ srv'[c] = None /\ todo'[c] = <<>> /\ c \in Threads
  BY DEF GoOn, IInv, TypeOK, ThreadType, HandlerType, Threads, Entry
<1>2. /\ c \in Threads /\ OnlyAt({c}, s) /\ ~Inside(c) /\ ~Inside(c)' /\ ~err'[c]
      /\ pc'[c] = "idle" /\ srv'[c] = None /\ todo'[c] = <<>>
      /\ ~Due(c)
  BY <1>a, <1>b
<1>3. Local(c)'
  BY <1>2 DEF Local
<1>4. Monitored(s)' => Monitored(s)
  BY DEF Monitored
<1>5. \A set : Suits(set, s) => Suits(set, s)'
  BY DEF Suits
<1>6. \A set : Suits(set, s) /\ UpToDate(set, s) => UpToDate(set, s)'
  <2>1. CASE pc[c] = "list"
    <3>1. s \notin Active
      BY <1>2, <2>1 DEF SettleInv, Local
    <3>2. CASE "key" \in excused'[s]
      BY <3>2 DEF UpToDate
    <3>3. CASE "key" \notin excused'[s]
      BY <2>1, <3>1, <3>3 DEF Suits
    <3> QED  BY <3>2, <3>3
  <2>2. CASE pc[c] # "list"
    <3>1. Listing(s) => Listing(s)'
      BY <1>2, <2>2 DEF Listing, OnlyAt, Threads
    <3> QED  BY <3>1 DEF UpToDate
  <2> QED  BY <2>1, <2>2
<1>7. excused'[s] \subseteq {"key"} => excused[s] \subseteq {"key"} /\ todo[c] \notin OpenEnds
  OBVIOUS
<1> QED  BY <1>2, <1>3, <1>4, <1>5, <1>6, <1>7, OutsideSettles

(* The handlers' steps between their calls of the lifecycle settle all.    *)
LEMMA HandlerSettles ==
    ASSUME IInv, SettleInv, NEW c \in Callers, HandlerStep(c)
    PROVE  SettleInv'
<1> USE LifecycleAssumption
<1>0. DatabaseType /\ HandlerType /\ PlaceInv /\ c \in Threads
  BY DEF IInv, TypeOK, Threads
<1>1. /\ pc[c] \in {"edit", "delete", "purge", "list"}
      /\ UNCHANGED <<pool, retryOf, wset, toBoot, goal, got, err>>
  BY DEF HandlerStep, ListKeyServers, EditServer, EditServerFails, DeleteServer,
         RemoveServerStatus, bounds, retries, workers, locals
<1>2. PICK s \in Servers : s = srv[c]
  BY <1>0, <1>1 DEF PlaceInv
<1> USE <1>2
<1>3. todo[c] \in Programs /\ todo[c] # <<>> /\ Head(todo[c]).call = pc[c]
  <2>1. ~Inside(c)
    BY <1>1 DEF Inside, InsidePlaces
  <2> QED  BY <1>0, <1>1, <2>1, EntryPlaces DEF PlaceInv
<1>4. CASE ListKeyServers(c)
  <2>1. UNCHANGED <<exists, allow, cfg, pinned>> /\ pc[c] = "list"
    BY <1>4 DEF ListKeyServers, db
  <2>2. CASE excused' = [excused EXCEPT ![srv[c]] = @ \cup {"key"}] /\ GoOn(c, <<>>)
    <3>1. excused'[s] = excused[s] \cup {"key"} /\ \A x \in Servers \ {s} : excused'[x] = excused[x]
      BY <1>0, <2>2 DEF HandlerType
    <3>2. todo[c] \notin OpenEnds
      BY <1>3, <2>1, ProgramKinds
    <3> QED  BY <1>1, <2>1, <2>2, <3>1, <3>2, GoOnEnds
  <2>3. CASE UNCHANGED excused /\ GoOn(c, IF exists[srv[c]] = "live" /\ allow[srv[c]]
                                          THEN <<Call("reconcile")>> ELSE <<>>)
    <3>1. CASE exists[s] = "live" /\ allow[s]
      <4>1. GoOn(c, LastReconcile)
        BY <2>3, <3>1 DEF LastReconcile
      <4> QED  BY <1>1, <2>1, <2>3, <4>1, GoOnOwed
    <3>2. CASE ~(exists[s] = "live" /\ allow[s])
      <4>1. GoOn(c, <<>>)
        BY <2>3, <3>2
      <4>2. todo[c] \notin OpenEnds
        BY <1>3, <2>1, ProgramKinds
      <4> QED  BY <1>1, <2>1, <2>3, <3>2, <4>1, <4>2, GoOnEnds
    <3> QED  BY <3>1, <3>2
  <2> QED  BY <1>4, <2>2, <2>3 DEF ListKeyServers
<1>5. CASE EditServer(c)
  <2>1. Tail(todo[c]) = LastReconcile
    BY <1>3, <1>5, ProgramShape DEF EditServer, LastReconcile
  <2>2. GoOn(c, LastReconcile) /\ UNCHANGED <<exists, pinned, excused>>
    BY <1>5, <2>1 DEF EditServer
  <2>3. \A x \in Servers \ {s} : allow'[x] = allow[x] /\ cfg'[x] = cfg[x]
    BY <1>0, <1>5 DEF EditServer, DatabaseType
  <2> QED  BY <1>1, <2>2, <2>3, GoOnOwed
<1>6. CASE EditServerFails(c)
  <2>1. UNCHANGED <<exists, allow, cfg, pinned>> /\ pc[c] = "edit"
    BY <1>6 DEF EditServerFails, db
  <2>2. /\ excused'[s] = IF ~Head(todo[c]).want /\ ~Head(todo[c]).last
                         THEN excused[s] \cup {"edit"} ELSE excused[s]
        /\ \A x \in Servers \ {s} : excused'[x] = excused[x]
    BY <1>0, <1>6 DEF EditServerFails, HandlerType
  <2>3. CASE ~Head(todo[c]).want /\ Head(todo[c]).last
    <3>1. GoOn(c, LastReconcile)
      BY <1>6, <2>3 DEF EditServerFails, LastReconcile
    <3> QED  BY <1>1, <2>1, <2>2, <3>1, GoOnOwed
  <2>4. CASE ~(~Head(todo[c]).want /\ Head(todo[c]).last)
    <3>1. GoOn(c, <<>>)
      BY <1>6, <2>4 DEF EditServerFails
    <3>2. todo[c] \in OpenEnds => "edit" \in excused'[s]
      BY <1>3, <2>1, <2>2, <2>4, ProgramKinds
    <3>3. excused[s] \subseteq excused'[s]
      BY <2>2
    <3> QED  BY <1>1, <2>1, <2>2, <3>1, <3>2, <3>3, GoOnEnds
  <2> QED  BY <2>3, <2>4
<1>7. CASE DeleteServer(c)
  <2>1. UNCHANGED <<allow, cfg, pinned, excused>> /\ pc[c] = "delete"
    BY <1>7 DEF DeleteServer
  <2>2. CASE GoOn(c, <<Call("reconcile")>>) /\ UNCHANGED exists
    <3>1. GoOn(c, LastReconcile)
      BY <2>2 DEF LastReconcile
    <3> QED  BY <1>1, <2>1, <2>2, <3>1, GoOnOwed
  <2>3. CASE exists' = [exists EXCEPT ![srv[c]] = "gone"] /\ GoOn(c, Tail(todo[c]))
    <3>1. GoOn(c, LastStop) /\ LastStop \in Programs /\ LastStop # <<>> /\ Entry(LastStop) = "lock"
      BY <1>3, <2>1, <2>3, ProgramShape, ProgramMembers, LastsDiffer DEF Entry
    <3>2. exists'[s] = "gone" /\ \A x \in Servers \ {s} : exists'[x] = exists[x]
      BY <1>0, <2>3 DEF DatabaseType
    <3>a. \A x \in Servers \ {s} : /\ exists'[x] = exists[x] /\ allow'[x] = allow[x]
                                   /\ cfg'[x] = cfg[x] /\ pinned'[x] = pinned[x]
                                   /\ excused'[x] = excused[x]
      BY <2>1, <3>2
    <3>b. OnlyAt({c}, s) /\ ~Inside(c) /\ ~Inside(c)' /\ ~err'[c] /\ ~Due(c)
      BY <1>1, <3>1, <3>a, GoOnFacts
    <3>c. pc'[c] = "lock" /\ srv'[c] = s /\ todo'[c] = LastStop
      BY <1>0, <3>1 DEF GoOn, IInv, TypeOK, ThreadType, HandlerType
    <3>3. /\ OnlyAt({c}, s) /\ ~Inside(c) /\ ~Inside(c)' /\ ~err'[c]
          /\ pc'[c] = "lock" /\ srv'[c] = s /\ todo'[c] = LastStop /\ ~Due(c)
      BY <3>b, <3>c
    <3>4. Local(c)'
      BY <3>3 DEF Local
    <3>5. Deleting(s)' /\ ~Monitored(s)'
      BY <3>2, <3>3 DEF Deleting, Monitored
    <3> QED  BY <1>0, <1>1, <2>1, <3>3, <3>4, <3>5, OutsideSettles
  <2> QED  BY <1>7, <2>2, <2>3 DEF DeleteServer
<1>8. CASE RemoveServerStatus(c)
  <2>1. UNCHANGED <<exists, allow, cfg, pinned, excused>> /\ pc[c] = "purge"
    BY <1>8 DEF RemoveServerStatus, db
  <2>2. GoOn(c, <<>>)
    BY <1>3, <1>8, <2>1, ProgramShape DEF RemoveServerStatus
  <2>3. todo[c] \notin OpenEnds
    BY <1>3, <2>1, ProgramKinds
  <2> QED  BY <1>1, <2>1, <2>2, <2>3, GoOnEnds
<1> QED  BY <1>4, <1>5, <1>6, <1>7, <1>8 DEF HandlerStep

(* connect.Init's goroutines take over what they were owed.                *)
LEMMA BootSettles ==
    ASSUME IInv, SettleInv, NEW c \in Callers, BootStep(c)
    PROVE  SettleInv'
<1> USE LifecycleAssumption
<1>0. ThreadType /\ HandlerType /\ c \in Threads /\ Local(c)
  BY DEF IInv, TypeOK, SettleInv, Threads
<1>1. PICK s \in Servers : Boot(c, s)
  BY DEF BootStep
<1>2. /\ toBoot' = toBoot \ {s}
      /\ srv' = [srv EXCEPT ![c] = s] /\ pc' = [pc EXCEPT ![c] = "lock"]
      /\ todo' = [todo EXCEPT ![c] = LastReconcile] /\ pc[c] = "idle"
      /\ UNCHANGED <<exists, allow, cfg, pinned, pool, retryOf, wset, goal, got, err, excused>>
  BY <1>1 DEF Boot, db, retries, workers, locals, LastReconcile
<1>3. /\ pc'[c] = "lock" /\ srv'[c] = s /\ todo'[c] = LastReconcile
      /\ \A u \in Threads \ {c} : pc'[u] = pc[u] /\ srv'[u] = srv[u]
      /\ \A u \in Callers \ {c} : todo'[u] = todo[u]
  BY <1>0, <1>2 DEF ThreadType, HandlerType
<1>4. srv[c] = None /\ ~err'[c]
  BY <1>0, <1>2 DEF Local, Inside, InsidePlaces
<1>5. OnlyAt({c}, s)
  BY <1>0, <1>2, <1>3, <1>4 DEF OnlyAt
<1>6. Local(c)'
  BY <1>3, <1>4, ProgramKinds DEF Local
<1>7. Owed(s)'
  <2>1. Due(c)'
    BY <1>3 DEF Due
  <2> QED  BY <1>0, <1>3, <2>1 DEF Owed
<1>8. {c} \in SUBSET Threads /\ \A u \in {c} : Local(u)'
  BY <1>0, <1>6
<1> QED  BY <1>5, <1>7, <1>8, OwedSettles

(* A stop or a reconciliation begins.  The retry it cancels is not missed: *)
(* a reconciliation reads the row itself, and what follows a stop sees to  *)
(* the server.                                                             *)
LEMMA EnterLifecycleSettles ==
    ASSUME IInv, SettleInv, NEW c \in Callers, EnterLifecycle(c)
    PROVE  SettleInv'
<1> USE LifecycleAssumption
<1>0. /\ ThreadType /\ PoolType /\ PlaceInv /\ LockInv /\ PurgeInv /\ c \in Threads /\ Local(c)
      /\ pc[c] = "lock" /\ ~Inside(c)
  BY DEF IInv, TypeOK, SettleInv, Threads, EnterLifecycle, Inside, InsidePlaces
<1>1. PICK s \in Servers : s = srv[c]
  BY <1>0 DEF PlaceInv
<1> USE <1>1
<1>2. /\ retryOf' = [retryOf EXCEPT ![s] = None]
      /\ pc' = [pc EXCEPT ![c] = IF Head(todo[c]).call = "stop" THEN "take" ELSE "read"]
      /\ UNCHANGED <<exists, allow, cfg, pinned, pool, wset, srv, goal, got, err, todo, toBoot, excused>>
  BY DEF EnterLifecycle, cancelReconcileRetry, db, workers, locals
<1>3. /\ pc'[c] = IF Head(todo[c]).call = "stop" THEN "take" ELSE "read"
      /\ \A u \in Threads \ {c} : pc'[u] = pc[u]
      /\ \A x \in Servers \ {s} : retryOf'[x] = retryOf[x]
  BY <1>0, <1>2 DEF ThreadType, PoolType
<1>4. OnlyAt({c}, s)
  BY <1>2, <1>3 DEF OnlyAt
<1>5. ~err[c] /\ goal[c] = "return"
  BY <1>0 DEF Local, PlaceInv
<1>6. Local(c)'
  BY <1>0, <1>2, <1>3, <1>5 DEF Local
<1>7. {c} \in SUBSET Threads /\ \A u \in {c} : Local(u)'
  BY <1>0, <1>6
<1>8. CASE todo[c] \in {LastReconcile, StopReconcile}
  <2>1. Due(c)'
    BY <1>2, <1>3, <1>8, ProgramKinds DEF Due
  <2>2. Owed(s)'
    BY <1>0, <1>2, <2>1 DEF Owed
  <2> QED  BY <1>4, <1>7, <2>2, OwedSettles
<1>9. CASE todo[c] \notin {LastReconcile, StopReconcile}
  <2>1. Head(todo[c]).call = "stop" /\ todo[c] \in {LastStop} \cup OpenEnds
    BY <1>0, <1>9, LifecyclePrograms
  <2>2. \A u \in Threads : srv[u] = s => ~Inside(u)
    BY <1>0 DEF EnterLifecycle, LockInv, Threads
  <2>3. \A u \in Threads : srv'[u] = s => ~Heading(u)' /\ ~Stopping(u)'
    <3>1. ~Heading(c)' /\ ~Stopping(c)'
      BY <1>0, <1>2, <1>5, <1>9 DEF Heading, Stopping
    <3>2. \A u \in Threads \ {c} : srv[u] = s => ~Heading(u) /\ ~Stopping(u)
      BY <2>2, OutsideIdle DEF SettleInv
    <3>3. \A u \in Threads \ {c} : srv'[u] = s => ~Heading(u)' /\ ~Stopping(u)'
      BY <1>2, <1>3, <3>2 DEF Heading, Stopping
    <3> QED  BY <3>1, <3>3
  <2>4. Emptying(s)'
    BY <1>0, <1>2, <1>3, <2>1 DEF Emptying
  <2>5. Open(s)' \/ ~Monitored(s)'
    <3>1. CASE todo[c] = LastStop
      BY <1>0, <1>2, <3>1 DEF PurgeInv, Monitored
    <3>2. CASE todo[c] \in OpenEnds
      BY <1>2, <3>2 DEF Open
    <3> QED  BY <2>1, <3>1, <3>2
  <2>6. Fine(s)'
    BY <2>3, <2>4, <2>5 DEF Fine, PoolAgrees, HasWorker, ActsRight
  <2> QED  BY <1>4, <1>7, <2>6, StepAt
<1> QED  BY <1>8, <1>9

(* A retry that waits, gives up or enters: only a stale one gives up.      *)
LEMMA RetrySettles ==
    ASSUME IInv, SettleInv, NEW r \in Retries, EnterRetry(r) \/ RetryTimer(r)
    PROVE  SettleInv'
<1> USE LifecycleAssumption
<1>0. /\ ThreadType /\ PlaceInv /\ RetryInv /\ r \in Threads /\ r \notin Callers /\ Local(r)
      /\ pc[r] \in {"lock", "timer"} /\ ~Inside(r) /\ ~err[r]
  <2>1. r \in Threads /\ Local(r) /\ r \notin Callers
    BY DEF SettleInv, Threads
  <2>2. pc[r] \in {"lock", "timer"}
    BY DEF EnterRetry, RetryTimer
  <2> QED  BY <2>1, <2>2 DEF IInv, TypeOK, Inside, InsidePlaces, Local
<1>1. PICK s \in Servers : s = srv[r]
  BY <1>0 DEF PlaceInv
<1> USE <1>1
<1>2. UNCHANGED <<exists, allow, cfg, pinned, pool, retryOf, wset, goal, got, err, todo, toBoot, excused>>
  BY DEF EnterRetry, RetryTimer, db, workers, locals
<1>3. CASE /\ retryOf[s] = r /\ pc' = [pc EXCEPT ![r] = "read"] /\ UNCHANGED srv
  <2>1. pc'[r] = "read" /\ \A u \in Threads \ {r} : pc'[u] = pc[u]
    BY <1>0, <1>3 DEF ThreadType
  <2>2. OnlyAt({r}, s)
    BY <1>2, <1>3, <2>1 DEF OnlyAt
  <2>3. Local(r)'
    BY <1>0, <1>2, <2>1 DEF Local
  <2>4. Owed(s)'
    <3>1. Due(r)'
      BY <1>2, <1>3, <2>1 DEF Due
    <3> QED  BY <1>0, <1>3, <3>1 DEF Owed
  <2>5. {r} \in SUBSET Threads /\ \A u \in {r} : Local(u)'
    BY <1>0, <2>3
  <2> QED  BY <2>2, <2>4, <2>5, OwedSettles
<1>4. ASSUME /\ pc'[r] \in {"off", "lock"} /\ \A u \in Threads \ {r} : pc'[u] = pc[u] /\ srv'[u] = srv[u]
             /\ pc'[r] = "off" => srv'[r] = None /\ retryOf[s] # r
             /\ pc'[r] = "lock" => srv'[r] = s
      PROVE  SettleInv'
  <2>1. OnlyAt({r}, s)
    BY <1>2, <1>4 DEF OnlyAt
  <2>2. Local(r)' /\ ~Inside(r)'
    BY <1>0, <1>2, <1>4 DEF Local, Inside, InsidePlaces
  <2>3. ~Due(r) \/ (Due(r)' /\ srv'[r] = s)
    BY <1>0, <1>2, <1>4 DEF Due
  <2>4. Monitored(s)' => Monitored(s)
    BY <1>2 DEF Monitored
  <2>5. \A set : Suits(set, s) => Suits(set, s)'
    BY <1>2 DEF Suits
  <2>6. Listing(s) => Listing(s)'
    BY <1>0, <1>4 DEF Listing, Threads
  <2>7. \A set : UpToDate(set, s) => UpToDate(set, s)'
    BY <1>2, <2>6 DEF UpToDate
  <2>8. excused'[s] = excused[s] /\ pool'[s] = pool[s] /\ retryOf'[s] = retryOf[s] /\ wset' = wset /\ toBoot' = toBoot
    BY <1>2
  <2> QED  BY <1>0, <2>1, <2>2, <2>3, <2>4, <2>5, <2>7, <2>8, OutsideSettles
<1>5. CASE RetryTimer(r)
  <2>1. CASE pc' = [pc EXCEPT ![r] = "lock"] /\ UNCHANGED srv
    BY <1>0, <1>4, <2>1 DEF ThreadType
  <2>2. CASE rcancel[r] /\ pc' = [pc EXCEPT ![r] = "off"] /\ srv' = [srv EXCEPT ![r] = None]
    <3>1. retryOf[s] # r
      BY <1>0, <2>2 DEF RetryInv
    <3>2. /\ pc'[r] = "off" /\ srv'[r] = None
          /\ \A u \in Threads \ {r} : pc'[u] = pc[u] /\ srv'[u] = srv[u]
      BY <1>0, <2>2 DEF ThreadType
    <3> QED  BY <1>4, <3>1, <3>2
  <2> QED  BY <1>5, <2>1, <2>2 DEF RetryTimer
<1>6. CASE EnterRetry(r)
  <2>1. CASE rcancel[r] \/ retryOf[s] # r
    <3>1. retryOf[s] # r
      BY <1>0, <2>1 DEF RetryInv
    <3>2. /\ pc'[r] = "off" /\ srv'[r] = None
          /\ \A u \in Threads \ {r} : pc'[u] = pc[u] /\ srv'[u] = srv[u]
      BY <1>0, <1>6, <2>1 DEF EnterRetry, ThreadType
    <3> QED  BY <1>4, <3>1, <3>2
  <2>2. CASE ~(rcancel[r] \/ retryOf[s] # r)
    BY <1>3, <1>6, <2>2 DEF EnterRetry
  <2> QED  BY <2>1, <2>2
<1> QED  BY <1>5, <1>6

(* A stop or a reconciliation that is over leaves what its server has.     *)
LEMMA LeavingSettles ==
    ASSUME IInv, SettleInv, NEW t \in Threads, NEW s \in Servers, s = srv[t],
           pc[t] = "finish", ~Inside(t)', OnlyAt({t}, s), Local(t)',
           UNCHANGED <<exists, allow, cfg, pinned, pool, wset, toBoot, excused>>,
           retryOf'[s] = retryOf[s] \/ (t \in Retries /\ retryOf[s] = t),
           Due(t) => Due(t)' /\ srv'[t] = s,
           t \in Callers /\ todo[t] \in OpenEnds => srv'[t] = s /\ todo'[t] \in OpenEnds
    PROVE  SettleInv'
<1> USE LifecycleAssumption
<1>0. Inside(t) /\ LockInv /\ Fine(s)
  BY DEF IInv, SettleInv, Inside, InsidePlaces
<1>1. \A u \in Threads \ {t} :
          /\ pc'[u] = pc[u] /\ srv'[u] = srv[u] /\ goal'[u] = goal[u] /\ got'[u] = got[u]
          /\ err'[u] = err[u] /\ (u \in Callers => todo'[u] = todo[u])
  BY DEF OnlyAt
<1>2. \A u \in Threads \ {t} : srv[u] = s =>
          ~Heading(u) /\ ~Stopping(u) /\ pc[u] \notin {"read", "readKey", "take"}
  <2>1. \A u \in Threads \ {t} : srv[u] = s => ~Inside(u)
    BY <1>0, Exclusion
  <2> QED  BY <2>1, OutsideIdle DEF SettleInv
<1>3. \A u \in Threads : srv'[u] = s => ~Heading(u)' /\ ~Stopping(u)'
  <2>1. ~Heading(t)' /\ ~Stopping(t)'
    BY DEF Heading, Stopping, Inside, InsidePlaces
  <2>2. \A u \in Threads \ {t} : srv'[u] = s => ~Heading(u)' /\ ~Stopping(u)'
    BY <1>1, <1>2 DEF Heading, Stopping
  <2> QED  BY <2>1, <2>2
<1>4. \A u \in Threads \ {t} : srv[u] = s => (Due(u) => Due(u)')
  BY <1>1 DEF Due
<1>5. Owed(s) => Owed(s)'
  BY <1>1, <1>4 DEF Owed
<1>6. ~Emptying(s) /\ ~Heading(t)
  BY <1>2 DEF Emptying, Heading
<1>7. Deleting(s) => Deleting(s)'
  BY <1>1 DEF Deleting, Threads
<1>8. Listing(s) => Listing(s)'
  BY <1>1 DEF Listing, Threads
<1>9. Open(s) => Open(s)'
  BY <1>1 DEF Open, Threads
<1>10. PoolAgrees(s) => PoolAgrees(s)'
  BY <1>6, <1>7, <1>8 DEF PoolAgrees, Suits, UpToDate
<1>11. HasWorker(s) => HasWorker(s)'
  BY <1>2, <1>6, <1>9 DEF HasWorker, Monitored
<1>12. Fine(s)'
  BY <1>0, <1>3, <1>5, <1>10, <1>11 DEF Fine, ActsRight
<1>13. {t} \in SUBSET Threads /\ \A u \in {t} : Local(u)'
  OBVIOUS
<1> QED  BY <1>12, <1>13, StepAt

(* A handler leaves the lifecycle; a reconciliation that failed leaves a   *)
(* retry behind.                                                           *)
LEMMA LeaveLifecycleSettles ==
    ASSUME IInv, SettleInv, NEW c \in Callers, LeaveLifecycle(c)
    PROVE  SettleInv'
<1> USE LifecycleAssumption
<1>0. /\ ThreadType /\ PoolType /\ HandlerType /\ PlaceInv /\ c \in Threads /\ Local(c)
      /\ pc[c] = "finish" /\ Inside(c) /\ c \notin Retries
  BY DEF IInv, TypeOK, SettleInv, Threads, LeaveLifecycle, Inside, InsidePlaces
<1>1. PICK s \in Servers : s = srv[c]
  BY <1>0, InsideHasServer
<1> USE <1>1
<1>2. /\ err' = [err EXCEPT ![c] = FALSE] /\ goal' = [goal EXCEPT ![c] = "return"]
      /\ got' = [got EXCEPT ![c] = NoSettings]
      /\ UNCHANGED <<exists, allow, cfg, pinned, pool, wset, toBoot, excused>>
  BY DEF LeaveLifecycle, db, workers
<1>3. /\ ~err'[c]
      /\ \A u \in Threads \ {c} : err'[u] = err[u] /\ goal'[u] = goal[u] /\ got'[u] = got[u]
  BY <1>0, <1>2 DEF ThreadType
<1>4. /\ todo[c] # <<>> /\ todo[c] \in Programs
      /\ Head(todo[c]).call = "reconcile" <=> todo[c] = LastReconcile
      /\ Head(todo[c]).call # "reconcile" =>
            Head(todo[c]).call = "stop" /\ todo[c] \in {StopReconcile, LastStop} \cup OpenEnds
  BY <1>0, LifecyclePrograms
<1>5. CASE ~err[c] /\ GoOn(c, Tail(todo[c])) /\ UNCHANGED retryOf
  <2> DEFINE calls == Tail(todo[c])
  <2>1. calls \in Programs
    BY <1>4, ProgramShape
  <2>2. /\ pc' = [pc EXCEPT ![c] = Entry(calls)] /\ todo' = [todo EXCEPT ![c] = calls]
        /\ srv' = [srv EXCEPT ![c] = IF calls = <<>> THEN None ELSE @]
    BY <1>5 DEF GoOn
  <2>3. CASE calls = <<>>
    <3>1. todo[c] = LastReconcile
      <4>1. LastReconcile # <<>> /\ LastPurge # <<>> /\ <<>> \notin OpenEnds
        BY ProgramKinds, LastsDiffer
      <4>2. Tail(StopReconcile) = LastReconcile /\ Tail(LastStop) = LastPurge
        BY ProgramKinds
      <4>3. todo[c] \in OpenEnds /\ Head(todo[c]).call = "stop" => calls \in OpenEnds
        BY ProgramKinds
      <4> HIDE DEF calls
      <4>4. calls = Tail(todo[c])
        BY DEF calls
      <4> QED  BY <1>4, <2>3, <4>1, <4>2, <4>3, <4>4
    <3>2. /\ pc'[c] = "idle" /\ srv'[c] = None /\ todo'[c] = <<>>
          /\ \A u \in Threads \ {c} : pc'[u] = pc[u] /\ srv'[u] = srv[u]
          /\ \A u \in Callers \ {c} : todo'[u] = todo[u]
      BY <1>0, <2>2, <2>3 DEF ThreadType, HandlerType, Entry
    <3>3. OnlyAt({c}, s)
      BY <1>2, <1>3, <1>5, <3>2 DEF OnlyAt, Threads
    <3>4. Local(c)' /\ ~Inside(c)'
      BY <1>3, <3>2 DEF Local, Inside, InsidePlaces
    <3>5. ~Due(c)
      BY <1>0, <1>5, <3>1, ProgramKinds DEF Due
    <3>6. todo[c] \notin OpenEnds
      BY <3>1, ProgramKinds
    <3>7. retryOf'[s] = retryOf[s]
      BY <1>5
    <3> QED  BY <1>0, <1>2, <3>3, <3>4, <3>5, <3>6, <3>7, LeavingSettles
  <2>4. CASE calls # <<>>
    <3>1. /\ pc'[c] = Entry(calls) /\ srv'[c] = s /\ todo'[c] = calls
          /\ \A u \in Threads \ {c} : pc'[u] = pc[u] /\ srv'[u] = srv[u]
          /\ \A u \in Callers \ {c} : todo'[u] = todo[u]
      BY <1>0, <2>2, <2>4 DEF ThreadType, HandlerType
    <3>2. OnlyAt({c}, s)
      BY <1>2, <1>3, <1>5, <3>1 DEF OnlyAt, Threads
    <3>3. \/ todo[c] = StopReconcile /\ calls = LastReconcile
          \/ todo[c] = LastStop /\ calls = LastPurge
          \/ todo[c] \in OpenEnds /\ calls \in OpenEnds
      <4>1. todo[c] # LastReconcile
        BY <2>4, ProgramKinds
      <4> QED  BY <1>4, <4>1, ProgramKinds
    <3>4. ~Inside(c)' /\ pc'[c] \in {"lock", "edit", "delete", "purge", "list"}
      BY <2>1, <2>4, <3>1, EntryPlaces DEF Inside, InsidePlaces
    <3>5. Head(calls).call # "list" /\ (Head(calls).call = "stop" => calls \in OpenEnds)
      <4>1. Head(LastReconcile).call = "reconcile" /\ Head(LastPurge).call = "purge"
        BY ProgramKinds, LastsDiffer
      <4>2. \A p \in OpenEnds : Head(p).call # "list"
        BY ProgramKinds
      <4> HIDE DEF calls
      <4> QED  BY <3>3, <4>1, <4>2
    <3>6. pc'[c] # "list"
      BY <2>1, <3>1, <3>5, EntryPlaces
    <3> HIDE DEF calls
    <3>7. Local(c)'
      BY <1>3, <3>1, <3>4, <3>5, <3>6 DEF Local
    <3>8. Due(c) => Due(c)' /\ srv'[c] = s
      <4> SUFFICES ASSUME Due(c) PROVE Due(c)'
        BY <3>1
      <4>1. todo[c] = StopReconcile \/ todo[c] = LastReconcile
        BY <1>0 DEF Due
      <4>2. calls = LastReconcile
        BY <3>3, <4>1, ProgramKinds, LastsDiffer DEF StopReconcile, LastReconcile, OpenEnds
      <4>3. pc'[c] = "lock"
        BY <3>1, <4>2, ProgramKinds DEF Entry
      <4> QED  BY <3>1, <4>2, <4>3 DEF Due
    <3>9. todo[c] \in OpenEnds => todo'[c] \in OpenEnds
      BY <3>1, <3>3, ProgramKinds, LastsDiffer
    <3>10. retryOf'[s] = retryOf[s]
      BY <1>5
    <3> QED  BY <1>0, <1>2, <3>1, <3>2, <3>4, <3>7, <3>8, <3>9, <3>10, LeavingSettles
  <2> QED  BY <2>3, <2>4
<1>6. CASE /\ err[c]
           /\ \E r \in Retries :
                 /\ pc[r] = "off"
                 /\ retryOf' = [retryOf EXCEPT ![s] = r]
                 /\ srv' = [srv EXCEPT ![r] = s, ![c] = None]
                 /\ pc' = [pc EXCEPT ![r] = "timer", ![c] = "idle"]
           /\ todo' = [todo EXCEPT ![c] = <<>>]
  <2>1. PICK r \in Retries : /\ pc[r] = "off"
                             /\ retryOf' = [retryOf EXCEPT ![s] = r]
                             /\ srv' = [srv EXCEPT ![r] = s, ![c] = None]
                             /\ pc' = [pc EXCEPT ![r] = "timer", ![c] = "idle"]
    BY <1>6
  <2>2. r \in Threads /\ r # c /\ srv[r] = None /\ ~err[r]
    BY <1>0, <2>1 DEF SettleInv, Local, Threads, Inside, InsidePlaces
  <2>3. /\ pc'[r] = "timer" /\ srv'[r] = s /\ pc'[c] = "idle" /\ srv'[c] = None /\ todo'[c] = <<>>
        /\ retryOf'[s] = r
        /\ \A u \in Threads \ {c, r} : pc'[u] = pc[u] /\ srv'[u] = srv[u]
        /\ \A u \in Callers \ {c} : todo'[u] = todo[u]
        /\ \A x \in Servers \ {s} : retryOf'[x] = retryOf[x]
    BY <1>0, <1>6, <2>1, <2>2 DEF ThreadType, HandlerType, PoolType
  <2>4. OnlyAt({c, r}, s)
    BY <1>2, <1>3, <2>2, <2>3 DEF OnlyAt, Threads
  <2>5. Local(c)' /\ Local(r)'
    BY <1>3, <2>2, <2>3 DEF Local
  <2>6. Owed(s)'
    <3>1. Due(r)'
      BY <2>3 DEF Due
    <3> QED  BY <2>2, <2>3, <3>1 DEF Owed
  <2>7. {c, r} \in SUBSET Threads /\ \A u \in {c, r} : Local(u)'
    BY <1>0, <2>2, <2>5
  <2> QED  BY <2>4, <2>6, <2>7, OwedSettles
<1> QED  BY <1>5, <1>6 DEF LeaveLifecycle

(* A retry ends when it has succeeded, or goes round again.                *)
LEMMA LeaveRetrySettles ==
    ASSUME IInv, SettleInv, NEW r \in Retries, LeaveRetry(r)
    PROVE  SettleInv'
<1> USE LifecycleAssumption
<1>0. /\ ThreadType /\ PoolType /\ PlaceInv /\ RetryInv /\ r \in Threads /\ Local(r)
      /\ pc[r] = "finish" /\ Inside(r) /\ r \notin Callers
  BY DEF IInv, TypeOK, SettleInv, Threads, LeaveRetry, Inside, InsidePlaces
<1>1. PICK s \in Servers : s = srv[r]
  BY <1>0, InsideHasServer
<1> USE <1>1
<1>2. /\ err' = [err EXCEPT ![r] = FALSE] /\ goal' = [goal EXCEPT ![r] = "return"]
      /\ got' = [got EXCEPT ![r] = NoSettings]
      /\ UNCHANGED <<exists, allow, cfg, pinned, pool, wset, todo, toBoot, excused>>
  BY DEF LeaveRetry, db, workers
<1>3. /\ ~err'[r]
      /\ \A u \in Threads \ {r} : err'[u] = err[u] /\ goal'[u] = goal[u] /\ got'[u] = got[u]
  BY <1>0, <1>2 DEF ThreadType
<1>4. retryOf[s] = r
  BY <1>0 DEF RetryInv
<1>5. CASE /\ ~err[r]
           /\ retryOf' = IF retryOf[s] = r THEN [retryOf EXCEPT ![s] = None] ELSE retryOf
           /\ pc' = [pc EXCEPT ![r] = "off"]
           /\ srv' = [srv EXCEPT ![r] = None]
  <2>1. /\ pc'[r] = "off" /\ srv'[r] = None
        /\ \A u \in Threads \ {r} : pc'[u] = pc[u] /\ srv'[u] = srv[u]
        /\ \A x \in Servers \ {s} : retryOf'[x] = retryOf[x]
    BY <1>0, <1>5 DEF ThreadType, PoolType
  <2>2. OnlyAt({r}, s)
    BY <1>2, <1>3, <2>1 DEF OnlyAt
  <2>3. Local(r)' /\ ~Inside(r)' /\ ~Due(r)
    BY <1>0, <1>3, <1>5, <2>1 DEF Local, Inside, InsidePlaces, Due
  <2> QED  BY <1>0, <1>2, <1>4, <2>2, <2>3, LeavingSettles
<1>6. CASE err[r] /\ pc' = [pc EXCEPT ![r] = "timer"] /\ UNCHANGED <<retryOf, srv>>
  <2>1. pc'[r] = "timer" /\ \A u \in Threads \ {r} : pc'[u] = pc[u]
    BY <1>0, <1>6 DEF ThreadType
  <2>2. OnlyAt({r}, s)
    BY <1>2, <1>3, <1>6, <2>1 DEF OnlyAt
  <2>3. Local(r)'
    BY <1>0, <1>3, <2>1 DEF Local
  <2>4. Owed(s)'
    <3>1. Due(r)'
      BY <1>4, <1>6, <2>1 DEF Due
    <3> QED  BY <1>0, <1>6, <3>1 DEF Owed
  <2>5. {r} \in SUBSET Threads /\ \A u \in {r} : Local(u)'
    BY <1>0, <2>3
  <2> QED  BY <2>2, <2>4, <2>5, OwedSettles
<1> QED  BY <1>5, <1>6 DEF LeaveRetry

-----------------------------------------------------------------------------
(* A worker of s moves: it may pin its agent's identity, which only makes  *)
(* a server less in need of a worker, or leave the pool, which excuses it. *)
LEMMA WorkerMovesSettle ==
    ASSUME IInv, SettleInv, NEW s \in Servers, UNCHANGED WorkerKeeps,
           \A x \in Servers \ {s} : /\ pinned'[x] = pinned[x] /\ pool'[x] = pool[x]
                                    /\ excused'[x] = excused[x],
           \A x \in Servers : pool'[x] # None => /\ wset'[pool[x]].allow = wset[pool[x]].allow
                                                 /\ wset'[pool[x]].cfg = wset[pool[x]].cfg,
           Monitored(s)' => Monitored(s),
           excused[s] \subseteq excused'[s],
           pool'[s] = pool[s] \/ (pool'[s] = None /\ "ended" \in excused'[s])
    PROVE  SettleInv'
<1> USE LifecycleAssumption
<1>1. UNCHANGED <<exists, allow, cfg, retryOf, pc, srv, goal, got, err, todo, toBoot>>
  BY DEF WorkerKeeps, retries, locals
<1>2. OnlyAt({}, s)
  BY <1>1 DEF OnlyAt
<1>3. /\ Owed(s)' <=> Owed(s)
      /\ Emptying(s)' <=> Emptying(s)
      /\ Deleting(s)' <=> Deleting(s)
      /\ Listing(s)' <=> Listing(s)
      /\ Open(s)' <=> Open(s)
      /\ \A u \in Threads : (Heading(u)' <=> Heading(u)) /\ (Stopping(u)' <=> Stopping(u))
  BY <1>1 DEF Owed, Due, Emptying, Deleting, Listing, Open, Heading, Stopping
<1>4. Fine(s)
  BY DEF SettleInv
<1>5. PoolAgrees(s) => PoolAgrees(s)'
  BY <1>1, <1>3 DEF PoolAgrees, Suits, UpToDate
<1>6. HasWorker(s) => HasWorker(s)'
  <2>1. CASE pool'[s] = pool[s]
    BY <1>1, <1>3, <2>1 DEF HasWorker
  <2>2. CASE "ended" \in excused'[s]
    BY <2>2 DEF HasWorker
  <2> QED  BY <2>1, <2>2
<1>7. \A u \in Threads : ActsRight(u, s) => ActsRight(u, s)'
  BY <1>1, <1>3 DEF ActsRight, Suits, UpToDate
<1>8. Fine(s)'
  BY <1>1, <1>3, <1>4, <1>5, <1>6, <1>7 DEF Fine
<1>9. {} \in SUBSET Threads /\ \A u \in {} : Local(u)'
  OBVIOUS
<1> QED  BY <1>2, <1>8, <1>9, StepAt

(* The steps of the workers settle all.                                    *)
LEMMA WorkerSettles ==
    ASSUME IInv, SettleInv, NEW w \in Workers, WorkerStep(w)
    PROVE  SettleInv'
<1> USE LifecycleAssumption
<1>0. /\ DatabaseType /\ PoolType /\ WorkerType /\ HandlerType /\ WorkerInv
  BY DEF IInv, TypeOK
<1>1. /\ wst[w] # "off" /\ UNCHANGED WorkerKeeps
  BY DEF WorkerStep, WorkerDelay, PinActiveAgent, IdentityMismatch, WorkerConnects, WorkerGivesUp,
         WorkerDisconnects, WorkerReloads, finishOutboundServer
<1>2. PICK s \in Servers : s = wsrv[w]
  BY <1>0, <1>1 DEF WorkerInv
<1> USE <1>2
<1>3. UNCHANGED <<exists, allow>>
  BY <1>1 DEF WorkerKeeps
<1>4. CASE WorkerDelay(w) \/ IdentityMismatch(w) \/ WorkerConnects(w) \/ WorkerGivesUp(w) \/ WorkerDisconnects(w)
  <2>1. UNCHANGED <<pinned, pool, wset, excused>>
    BY <1>4 DEF WorkerDelay, IdentityMismatch, WorkerConnects, WorkerGivesUp, WorkerDisconnects
  <2>2. Monitored(s)' => Monitored(s)
    BY <1>3, <2>1 DEF Monitored
  <2> QED  BY <1>1, <2>1, <2>2, WorkerMovesSettle
<1>5. CASE WorkerReloads(w)
  <2>1. UNCHANGED <<pinned, pool, excused>>
    BY <1>5 DEF WorkerReloads
  <2>2. \A v \in Workers : wset'[v].allow = wset[v].allow /\ wset'[v].cfg = wset[v].cfg
    <3>1. CASE wset' = wset
      BY <3>1
    <3>2. CASE wset' = [wset EXCEPT ![w].key = pinned[s]]
      BY <1>0, <3>2 DEF WorkerType
    <3> QED  BY <1>5, <3>1, <3>2 DEF WorkerReloads
  <2>3. \A x \in Servers : pool'[x] # None => pool[x] \in Workers
    BY <1>0, <2>1 DEF PoolType
  <2>4. Monitored(s)' => Monitored(s)
    BY <1>3, <2>1 DEF Monitored
  <2> QED  BY <1>1, <2>1, <2>2, <2>3, <2>4, WorkerMovesSettle
<1>6. CASE PinActiveAgent(w)
  <2>1. UNCHANGED <<pool, wset, excused>>
    BY <1>6 DEF PinActiveAgent
  <2>2. /\ pinned[s] \in {0, wset[w].cfg} /\ pinned'[s] = wset[w].cfg
        /\ \A x \in Servers \ {s} : pinned'[x] = pinned[x]
    BY <1>0, <1>6 DEF PinActiveAgent, DatabaseType
  <2>3. Monitored(s)' => Monitored(s)
    BY <1>3, <2>2 DEF Monitored
  <2> QED  BY <1>1, <2>1, <2>2, <2>3, WorkerMovesSettle
<1>7. CASE finishOutboundServer(w)
  <2>1. UNCHANGED pinned
    BY <1>7 DEF finishOutboundServer
  <2>2. Monitored(s)' => Monitored(s)
    BY <1>3, <2>1 DEF Monitored
  <2>3. CASE pool[s] = w
    <3>1. /\ pool'[s] = None /\ excused'[s] = excused[s] \cup {"ended"}
          /\ \A x \in Servers \ {s} : pool'[x] = pool[x] /\ excused'[x] = excused[x]
      BY <1>0, <1>7, <2>3 DEF finishOutboundServer, PoolType, HandlerType
    <3>2. wset' = [wset EXCEPT ![w] = NoSettings]
      BY <1>7, <2>3 DEF finishOutboundServer
    <3>3. \A x \in Servers : pool'[x] # None => x # s /\ pool[x] \in Workers /\ pool[x] # w
      BY <1>0, <3>1 DEF PoolType, WorkerInv
    <3>4. \A x \in Servers : pool'[x] # None => wset'[pool[x]] = wset[pool[x]]
      BY <1>0, <3>2, <3>3 DEF WorkerType
    <3>5. \A x \in Servers : pool'[x] # None => /\ wset'[pool[x]].allow = wset[pool[x]].allow
                                                /\ wset'[pool[x]].cfg = wset[pool[x]].cfg
      BY <3>4
    <3>6. \A x \in Servers \ {s} : /\ pinned'[x] = pinned[x] /\ pool'[x] = pool[x]
                                   /\ excused'[x] = excused[x]
      BY <2>1, <3>1
    <3>7. excused[s] \subseteq excused'[s] /\ "ended" \in excused'[s] /\ pool'[s] = None
      BY <3>1
    <3> QED  BY <1>1, <2>2, <3>5, <3>6, <3>7, WorkerMovesSettle
  <2>4. CASE pool[s] # w
    <3>1. UNCHANGED <<pool, wset, excused>>
      BY <1>7, <2>4 DEF finishOutboundServer
    <3> QED  BY <1>1, <2>1, <2>2, <3>1, WorkerMovesSettle
  <2> QED  BY <2>3, <2>4
<1> QED  BY <1>4, <1>5, <1>6, <1>7 DEF WorkerStep

(* At boot every server that should have a worker is listed.               *)
LEMMA BootState ==
    /\ Init => SettleInv
    /\ Restart => SettleInv'
<1> USE LifecycleAssumption
<1>1. ASSUME Init PROVE SettleInv
  <2>1. /\ pc = [t \in Threads |-> IF t \in Callers THEN "idle" ELSE "off"]
        /\ srv = [t \in Threads |-> None] /\ err = [t \in Threads |-> FALSE]
        /\ pool = [s \in Servers |-> None] /\ toBoot = ListedAtBoot
        /\ todo = [c \in Callers |-> <<>>]
    BY <1>1 DEF Init
  <2>2. \A t \in Threads : Local(t)
    BY <2>1 DEF Local
  <2>3. ASSUME NEW s \in Servers PROVE Fine(s)
    <3>1. \A t \in Threads : srv[t] # s
      BY <2>1
    <3>2. Monitored(s) => Owed(s)
      BY <2>1 DEF Monitored, Owed, ListedAtBoot
    <3>3. pool[s] = None
      BY <2>1
    <3> QED  BY <3>1, <3>2, <3>3 DEF Fine, PoolAgrees, HasWorker
  <2> QED  BY <2>2, <2>3 DEF SettleInv
<1>2. ASSUME Restart PROVE SettleInv'
  <2>1. /\ pc' = [t \in Threads |-> IF t \in Callers THEN "idle" ELSE "off"]
        /\ srv' = [t \in Threads |-> None] /\ err' = [t \in Threads |-> FALSE]
        /\ pool' = [s \in Servers |-> None] /\ toBoot' = ListedAtBoot
        /\ todo' = [c \in Callers |-> <<>>]
        /\ UNCHANGED <<exists, allow, cfg, pinned>>
    BY <1>2 DEF Restart, db
  <2>2. \A t \in Threads : Local(t)'
    BY <2>1 DEF Local
  <2>3. ASSUME NEW s \in Servers PROVE Fine(s)'
    <3>1. \A t \in Threads : srv'[t] # s
      BY <2>1
    <3>2. Monitored(s)' => Owed(s)'
      BY <2>1 DEF Monitored, Owed, ListedAtBoot
    <3>3. pool'[s] = None
      BY <2>1
    <3> QED  BY <3>1, <3>2, <3>3 DEF Fine, PoolAgrees, HasWorker
  <2> QED  BY <2>2, <2>3 DEF SettleInv
<1> QED  BY <1>1, <1>2

(* Every step settles all.                                                 *)
LEMMA NextSettles == IInv /\ SettleInv /\ [Next]_vars => SettleInv'
<1> SUFFICES ASSUME IInv, SettleInv, [Next]_vars PROVE SettleInv'
  OBVIOUS
<1> USE LifecycleAssumption
<1>1. ASSUME NEW c \in Callers, Request(c) \/ BootStep(c) \/ HandlerStep(c)
      PROVE  SettleInv'
  BY <1>1, RequestSettles, BootSettles, HandlerSettles
<1>2. ASSUME NEW t \in Threads, EnterStep(t)
      PROVE  SettleInv'
  BY <1>2, EnterLifecycleSettles, RetrySettles DEF EnterStep, EnterLifecycle, EnterRetry
<1>3. ASSUME NEW t \in Threads, LifecycleStep(t)
      PROVE  SettleInv'
  <2>1. CASE RetryTimer(t)
    <3>1. t \in Retries
      BY <2>1 DEF RetryTimer, IInv, PlaceInv, Threads, InsidePlaces
    <3> QED  BY <2>1, <3>1, RetrySettles
  <2>2. CASE ReadServer(t) \/ ReadPublicKey(t) \/ TakeEntry(t) \/ AwaitDone(t) \/ LoadSettings(t) \/ Register(t)
    BY <2>2, ReadServerSettles, ReadPublicKeySettles, TakeEntrySettles, AwaitDoneSettles,
       LoadSettingsSettles, RegisterSettles
  <2>3. CASE LeaveLifecycle(t)
    BY <2>3, LeaveLifecycleSettles DEF LeaveLifecycle
  <2>4. CASE LeaveRetry(t)
    BY <2>4, LeaveRetrySettles DEF LeaveRetry
  <2> QED  BY <1>3, <2>1, <2>2, <2>3, <2>4 DEF LifecycleStep
<1>4. ASSUME NEW w \in Workers, WorkerStep(w)
      PROVE  SettleInv'
  BY <1>4, WorkerSettles
<1>5. CASE Restart
  BY <1>5, BootState
<1>6. CASE UNCHANGED vars
  <2>1. UNCHANGED <<exists, allow, cfg, pinned, pool, retryOf, wset, pc, srv, goal, got, err, todo,
                    toBoot, excused>>
    BY <1>6 DEF vars, db, workers, retries, locals
  <2>2. \A t \in Threads : Local(t)'
    BY <2>1 DEF SettleInv, Local, Inside
  <2>3. \A s \in Servers : SameAt(s)
    BY <2>1 DEF SameAt
  <2>4. \A s \in Servers : Fine(s)'
    BY <2>3, SameFine DEF SettleInv
  <2> QED  BY <2>2, <2>4 DEF SettleInv
<1> QED  BY <1>1, <1>2, <1>3, <1>4, <1>5, <1>6 DEF Next

(* When no goroutine has a server in hand, no retry of it is registered    *)
(* and it is not waiting for boot, the pool agrees with its row: the       *)
(* worker in it may be there and runs with the committed settings, and a   *)
(* server that should have one has one, except after a worker ended by     *)
(* itself or a failing request left it behind.                             *)
THEOREM PoolSettles == Spec => []Settled
<1>1. IInv /\ SettleInv => Settled
  <2> SUFFICES ASSUME IInv, SettleInv, NEW s \in Servers, Quiescent(s)
               PROVE  /\ pool[s] # None =>
                            /\ exists[s] = "live"
                            /\ allow[s] \/ s \in Active
                            /\ wset[pool[s]].allow = allow[s]
                            /\ wset[pool[s]].cfg = cfg[s] \/ "key" \in excused[s]
                      /\ Monitored(s) /\ excused[s] \subseteq {"key"} => pool[s] # None
    BY DEF Settled
  <2> USE LifecycleAssumption
  <2>1. \A c \in Callers : srv[c] # s
    BY DEF Quiescent
  <2>2. ASSUME NEW t \in Threads, srv[t] = s PROVE ~Inside(t) /\ ~Due(t) /\ t \notin Callers
    <3>1. t \in Retries /\ t \notin Callers
      BY <2>1, <2>2 DEF Threads
    <3>2. retryOf[s] # t
      BY <3>1 DEF Quiescent
    <3> QED  BY <2>2, <3>1, <3>2 DEF Due, IInv, RetryInv
  <2>3. ~Owed(s)
    BY <2>2 DEF Owed, Quiescent
  <2>4. PoolAgrees(s) /\ HasWorker(s)
    BY <2>3 DEF SettleInv, Fine
  <2>5. \A t \in Threads : srv[t] = s => ~Heading(t) /\ pc[t] \notin {"read", "readKey", "take"}
    BY <2>2, OutsideIdle DEF SettleInv
  <2>6. ~Emptying(s) /\ ~Deleting(s) /\ ~Listing(s) /\ ~Open(s)
    BY <2>1, <2>5 DEF Emptying, Deleting, Listing, Open
  <2> QED  BY <2>4, <2>5, <2>6 DEF PoolAgrees, HasWorker, Suits, UpToDate
<1>2. Init => SettleInv
  BY BootState
<1>3. IInv /\ SettleInv /\ [Next]_vars => SettleInv'
  BY NextSettles
<1> QED  BY <1>1, <1>2, <1>3, Invariance, PTL DEF Spec
=============================================================================
