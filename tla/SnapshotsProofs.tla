--------------------------- MODULE SnapshotsProofs ---------------------------
(***************************************************************************)
(* Proofs about Snapshots: the readers of a team share one source, one     *)
(* query and one loop, for any number of readers, sources and loops.       *)
(***************************************************************************)
EXTENDS MCStatuses, FiniteSetTheorems, WellFoundedInduction, NaturalsInduction, TLAPS

SourceIds == P!SourceIds
Loops == P!Loops
Procs == P!Procs

ReaderPlaces == {"off", "get", "join", "load", "got", "open", "release"}
LoopPlaces == {"off", "wait", "get", "join", "load", "got", "exit"}
Results == {"none", "ok", "err"}
ProcRecords ==
    [pc : ReaderPlaces \cup LoopPlaces, src : 0 .. MaxSources,
     res : Results \cup {"canceled"}, stop : BOOLEAN, stream : BOOLEAN]
SourceRecords ==
    [subs : SUBSET Readers, loopRunning : BOOLEAN, loopStop : Loops \cup {Nobody},
     load : Procs \cup {Nobody}, canceled : BOOLEAN, cache : Results]

-----------------------------------------------------------------------------
(* The inductive invariant *)

SnapType ==
    /\ kind \in {"public", "monitor"} /\ current \in 0 .. MaxSources
    /\ source \in [SourceIds -> SourceRecords] /\ proc \in [Procs -> ProcRecords]
    /\ updates \in [Readers -> Results]

\* A goroutine that is gone is as new; a stream of the monitor subscribes first
\* of all and leaves last; a reader is never stopped and never gets the result
\* of a canceled query.
ReaderOK(c) ==
    /\ c.pc \in ReaderPlaces /\ ~c.stop /\ c.res # "canceled"
    /\ kind = "monitor" /\ c.pc # "off" => c.stream /\ c.pc # "release"
    /\ c.pc \in {"open", "release"} => c.stream

LoopOK(c) == c.pc \in LoopPlaces /\ ~c.stream

\* The public source stays the team's source; the result of a canceled query
\* is that of a source that the monitor has forgotten.
ProcOK(c) ==
    /\ c.pc = "off" => c = P!Off
    /\ c.pc # "off" => c.src \in SourceIds
    /\ kind = "public" /\ c.pc # "off" => c.src = current
    /\ c.res = "canceled" => kind = "monitor" /\ c.src # current

ProcsInv ==
    /\ \A g \in Procs : ProcOK(proc[g])
    /\ \A s \in Readers : ReaderOK(proc[s])
    /\ \A l \in Loops : LoopOK(proc[l])

\* c is subscribed to source i.
Subscribed(c, i) ==
    c.src = i /\ (c.pc = "open" \/ (kind = "monitor" /\ c.pc # "off"))

SubsInv ==
    /\ \A i \in SourceIds, s \in Readers :
          s \in source[i].subs <=> Subscribed(proc[s], i)
    /\ \A i \in SourceIds : source[i].subs # {} => source[i].loopRunning /\ current = i
    /\ \A i \in SourceIds : kind = "monitor" /\ current = i => source[i].subs # {}

\* c is a loop of source i that has not ended.
Runs(c, i) == c.pc # "off" /\ c.src = i

\* loopRunning says whether a loop lives, stopped or not; loopStop is the stop
\* channel of that loop until it is closed, and it is closed while nobody
\* subscribes.
LoopsInv ==
    /\ \A i \in SourceIds, l \in Loops : Runs(proc[l], i) => source[i].loopRunning
    /\ \A i \in SourceIds : source[i].loopRunning => \E l \in Loops : Runs(proc[l], i)
    /\ \A i \in SourceIds, k, l \in Loops :
          Runs(proc[k], i) /\ Runs(proc[l], i) => k = l
    /\ \A i \in SourceIds, l \in Loops :
          Runs(proc[l], i) /\ ~proc[l].stop => source[i].loopStop = l
    /\ \A i \in SourceIds, l \in Loops : source[i].loopStop = l => Runs(proc[l], i)
    /\ \A i \in SourceIds : source[i].subs = {} => source[i].loopStop = Nobody

\* Who queries is entered as the one; only a source that the monitor has
\* forgotten has its query canceled.
LoadsInv ==
    /\ \A g \in Procs : proc[g].pc = "load" => source[proc[g].src].load = g
    /\ \A i \in SourceIds : source[i].canceled => kind = "monitor" /\ current # i

Places == {s \in Readers : kind = "public" /\ proc[s].stream}
PlacesInv == byIP = Cardinality(Places)

CoreInv == SnapType /\ ProcsInv /\ SubsInv /\ LoopsInv /\ LoadsInv
SnapInv == CoreInv /\ PlacesInv

-----------------------------------------------------------------------------
(* Names *)

LEMMA Names ==
    /\ SourceIds = 1 .. MaxSources /\ Loops = 1 .. MaxLoops /\ Procs = Readers \cup Loops
    /\ 0 \notin SourceIds /\ Nobody \notin Procs
    /\ \A s \in Readers : s \notin Loops
    /\ SourceIds \subseteq 0 .. MaxSources
BY SnapshotsAssumption DEF SourceIds, Loops, Procs, P!SourceIds, P!Loops, P!Procs

LEMMA CardinalityIs == \A S : P!Cardinality(S) = Cardinality(S)
BY Zenon DEF Cardinality, P!Cardinality

\* A set without two members.
LEMMA AtMostOne ==
    ASSUME NEW S, \A x, y \in S : x = y
    PROVE  Cardinality(S) <= 1
<1>1. CASE S = {}
  BY <1>1, FS_EmptySet
<1>2. CASE S # {}
  <2>1. PICK x \in S : S = {x}
    BY <1>2
  <2> QED  BY <2>1, FS_Singleton
<1> QED  BY <1>1, <1>2

LessThan == {ss \in Nat \X Nat : ss[1] < ss[2]}

LEMMA LessThanWellFounded == IsWellFoundedOn(LessThan, Nat)
<1>1. LessThan = OpToRel(<, Nat)
  BY Zenon DEF OpToRel, LessThan
<1> QED  BY <1>1, NatLessThanWellFounded, Zenon

\* A name that is free can be had.
LEMMA MinIn ==
    ASSUME NEW S \in SUBSET Nat, S # {}
    PROVE  P!Min(S) \in S
<1>1. PICK a \in S : \A b \in S : ~(<<b, a>> \in LessThan)
  BY LessThanWellFounded, WFMin
<1>2. ASSUME NEW b \in S
      PROVE  a <= b
  <2>1. <<b, a>> \in Nat \X Nat /\ ~(<<b, a>> \in LessThan)
    BY <1>1
  <2> QED  BY <2>1 DEF LessThan
<1> QED  BY <1>2 DEF P!Min

LEMMA OffIs ==
    /\ P!Off \in ProcRecords /\ P!Off.pc = "off" /\ P!Off.src = 0
    /\ ~P!Off.stop /\ ~P!Off.stream /\ P!Off.res = "none"
BY SnapshotsAssumption DEF P!Off, ProcRecords, ReaderPlaces, LoopPlaces, Results

LEMMA NewSourceIs ==
    /\ P!NewSource \in SourceRecords /\ P!NewSource.subs = {} /\ ~P!NewSource.loopRunning
    /\ P!NewSource.loopStop = Nobody /\ P!NewSource.load = Nobody
    /\ ~P!NewSource.canceled
BY DEF P!NewSource, SourceRecords, Results

LEMMA SnapInit == P!Init => SnapInv
<1> SUFFICES ASSUME P!Init PROVE SnapInv
  OBVIOUS
<1>1. /\ kind \in {"public", "monitor"} /\ current = 0 /\ byIP = 0
      /\ source = [i \in SourceIds |-> P!NewSource]
      /\ proc = [g \in Procs |-> P!Off]
      /\ updates = [s \in Readers |-> "none"]
  BY DEF P!Init, SourceIds, Procs
<1>2. SnapType
  BY <1>1, OffIs, NewSourceIs, SnapshotsAssumption DEF SnapType, Results
<1>3. ProcsInv
  BY <1>1, OffIs, Names DEF ProcsInv, ProcOK, ReaderOK, LoopOK, ReaderPlaces, LoopPlaces
<1>4. SubsInv /\ LoopsInv /\ LoadsInv
  BY <1>1, OffIs, NewSourceIs, Names DEF SubsInv, LoopsInv, LoadsInv, Subscribed, Runs
<1>5. Places = {}
  BY <1>1, OffIs, Names DEF Places
<1> QED
  BY <1>1, <1>2, <1>3, <1>4, <1>5, FS_EmptySet DEF SnapInv, CoreInv, PlacesInv

\* What the invariant says of the property.
LEMMA SnapShares == SnapInv => SourceIsShared
<1> SUFFICES ASSUME SnapInv PROVE SourceIsShared
  OBVIOUS
<1>0. CoreInv /\ PlacesInv /\ SnapType
  BY DEF SnapInv, CoreInv
<1>1. ASSUME NEW i \in SourceIds
      PROVE  /\ P!Cardinality(P!LoopsOf(i)) <= 1 /\ P!Cardinality(P!LoadsOf(i)) <= 1
             /\ source[i].subs # {} => P!LoopsOf(i) # {} /\ current = i
             /\ source[i].subs = {} => /\ \A l \in P!LoopsOf(i) : proc[l].stop
                                       /\ kind = "monitor" => current # i
             /\ \A s \in source[i].subs : "canceled" \notin {proc[s].res, updates[s]}
  <2>1. P!LoopsOf(i) = {l \in Loops : Runs(proc[l], i)}
    BY DEF P!LoopsOf, P!Alive, Loops, Runs
  <2>2. P!LoadsOf(i) = {g \in Procs : proc[g].pc = "load" /\ proc[g].src = i}
    BY DEF P!LoadsOf, Procs
  <2>3. Cardinality(P!LoopsOf(i)) <= 1
    <3>1. \A k, l \in P!LoopsOf(i) : k = l
      BY <1>0, <2>1 DEF CoreInv, LoopsInv
    <3> QED
      BY <3>1, AtMostOne
  <2>4. Cardinality(P!LoadsOf(i)) <= 1
    <3>1. \A k, l \in P!LoadsOf(i) : k = l
      BY <1>0, <2>2 DEF CoreInv, LoadsInv
    <3> QED
      BY <3>1, AtMostOne
  <2>5. source[i].subs # {} => P!LoopsOf(i) # {} /\ current = i
    BY <1>0, <2>1 DEF CoreInv, SubsInv, LoopsInv
  <2>6. source[i].subs = {} => /\ \A l \in P!LoopsOf(i) : proc[l].stop
                               /\ kind = "monitor" => current # i
    BY <1>0, <2>1, Names DEF CoreInv, SubsInv, LoopsInv
  <2>7. \A s \in source[i].subs : "canceled" \notin {proc[s].res, updates[s]}
    BY <1>0 DEF CoreInv, SnapType, SourceRecords, ProcsInv, ReaderOK, Results
  <2> QED
    BY <2>3, <2>4, <2>5, <2>6, <2>7, CardinalityIs
<1>2. byIP = P!Cardinality({s \in Readers : kind = "public" /\ proc[s].stream})
  BY <1>0, CardinalityIs DEF PlacesInv, Places
<1> QED
  BY <1>1, <1>2 DEF SourceIsShared, P!SourceIsShared, SourceIds

-----------------------------------------------------------------------------
(* Steps that change no subscription and no loop *)

\* Everyone stays subscribed, every loop goes on and nobody is stopped.
Quiet ==
    /\ SnapType' /\ kind' = kind /\ current' = current
    /\ \A i \in SourceIds : /\ source'[i].subs = source[i].subs
                            /\ source'[i].loopRunning = source[i].loopRunning
                            /\ source'[i].loopStop = source[i].loopStop
    /\ \A s \in Readers, i \in SourceIds : Subscribed(proc'[s], i) <=> Subscribed(proc[s], i)
    /\ \A l \in Loops, i \in SourceIds : Runs(proc'[l], i) <=> Runs(proc[l], i)
    /\ \A l \in Loops : proc'[l].stop = proc[l].stop

LEMMA QuietKeeps == CoreInv /\ Quiet => SubsInv' /\ LoopsInv'
<1> SUFFICES ASSUME CoreInv, Quiet PROVE SubsInv' /\ LoopsInv'
  OBVIOUS
<1>1. SubsInv'
  BY DEF CoreInv, SubsInv, Quiet, Subscribed
<1>2. LoopsInv'
  BY DEF CoreInv, LoopsInv, Quiet, Runs
<1> QED  BY <1>1, <1>2

\* Goroutine g goes on as c and the sources stay as they are.
LEMMA OneMoves ==
    ASSUME CoreInv, NEW g \in Procs, NEW c \in ProcRecords,
           proc' = [proc EXCEPT ![g] = c],
           kind' = kind, current' = current, source' = source,
           updates' \in [Readers -> Results],
           ProcOK(c), g \in Readers => ReaderOK(c), g \in Loops => LoopOK(c),
           g \in Readers => \A i \in SourceIds : Subscribed(c, i) <=> Subscribed(proc[g], i),
           g \in Loops => \A i \in SourceIds : Runs(c, i) <=> Runs(proc[g], i),
           g \in Loops => c.stop = proc[g].stop,
           c.pc = "load" => source[c.src].load = g
    PROVE  CoreInv'
<1>0. SnapType /\ ProcsInv /\ LoadsInv /\ DOMAIN proc = Procs
  BY DEF CoreInv, SnapType
<1>1. proc'[g] = c /\ \A h \in Procs \ {g} : proc'[h] = proc[h]
  BY <1>0
<1>2. SnapType'
  BY <1>0 DEF SnapType
<1>3. \A s \in Readers : s \in Procs
  BY Names
<1>4. \A l \in Loops : l \in Procs
  BY Names
<1>5. Quiet
  BY <1>1, <1>2, <1>3, <1>4 DEF Quiet
<1>6. ProcsInv'
  <2>1. \A h \in Procs : ProcOK(proc[h])'
    BY <1>0, <1>1 DEF ProcsInv, ProcOK
  <2>2. \A s \in Readers : ReaderOK(proc[s])'
    BY <1>0, <1>1, <1>3 DEF ProcsInv, ReaderOK
  <2>3. \A l \in Loops : LoopOK(proc[l])'
    BY <1>0, <1>1, <1>4 DEF ProcsInv, LoopOK
  <2> QED  BY <2>1, <2>2, <2>3 DEF ProcsInv
<1>7. LoadsInv'
  BY <1>0, <1>1 DEF LoadsInv
<1> QED
  BY <1>2, <1>5, <1>6, <1>7, QuietKeeps DEF CoreInv

\* The goroutine at hand.
LEMMA ProcFacts ==
    ASSUME CoreInv, NEW g \in Procs
    PROVE  /\ proc[g] \in ProcRecords /\ ProcOK(proc[g])
           /\ g \in Readers => ReaderOK(proc[g])
           /\ g \in Loops => LoopOK(proc[g])
           /\ proc[g].pc = "load" => source[proc[g].src].load = g
           /\ proc[g].pc # "off" => proc[g].src \in SourceIds /\ source[proc[g].src] \in SourceRecords
BY DEF CoreInv, SnapType, ProcsInv, ProcOK, LoadsInv

\* Goroutine g, that waits or reads, goes on to another place.
LEMMA Moves ==
    ASSUME CoreInv, NEW g \in Procs, NEW c \in ProcRecords,
           proc' = [proc EXCEPT ![g] = c],
           kind' = kind, current' = current, source' = source,
           updates' \in [Readers -> Results],
           proc[g].pc \notin {"off", "open"}, c.pc \notin {"off", "load"},
           c.src = proc[g].src, c.stop = proc[g].stop, c.stream = proc[g].stream,
           c.res \in Results \/ c.res = proc[g].res,
           g \in Readers => c.pc \in ReaderPlaces, g \in Loops => c.pc \in LoopPlaces,
           c.pc = "open" => kind = "monitor",
           c.pc = "release" => kind = "public" /\ proc[g].stream
    PROVE  CoreInv'
<1>1. ProcOK(c) /\ (g \in Readers => ReaderOK(c)) /\ (g \in Loops => LoopOK(c))
  BY ProcFacts DEF ProcOK, ReaderOK, LoopOK, Results
<1>2. \A i \in SourceIds : /\ Subscribed(c, i) <=> Subscribed(proc[g], i)
                           /\ Runs(c, i) <=> Runs(proc[g], i)
  BY DEF Subscribed, Runs
<1> QED
  BY <1>1, <1>2, OneMoves

LEMMA GetCachedKeeps ==
    ASSUME CoreInv, NEW g \in Procs, P!GetCached(g)
    PROVE  CoreInv'
<1> DEFINE c == [proc[g] EXCEPT !.pc = "got", !.res = source[proc[g].src].cache]
<1>1. /\ proc[g].pc = "get" /\ proc' = [proc EXCEPT ![g] = c]
      /\ kind' = kind /\ current' = current /\ source' = source /\ updates' = updates
  BY DEF P!GetCached
<1>2. source[proc[g].src].cache \in Results
  BY <1>1, ProcFacts DEF SourceRecords
<1>3. c \in ProcRecords
  BY <1>2, ProcFacts DEF ProcRecords, ReaderPlaces
<1>4. c.pc = "got" /\ c.src = proc[g].src /\ c.stop = proc[g].stop
      /\ c.stream = proc[g].stream /\ c.res \in Results
  BY <1>2, ProcFacts DEF ProcRecords
<1> HIDE DEF c
<1>5. updates' \in [Readers -> Results]
  BY <1>1 DEF CoreInv, SnapType
<1> QED
  BY <1>1, <1>3, <1>4, <1>5, Moves DEF ReaderPlaces, LoopPlaces

LEMMA GetLoadKeeps ==
    ASSUME CoreInv, NEW g \in Procs, P!GetLoad(g)
    PROVE  CoreInv'
<1> DEFINE i == proc[g].src
<1>1. /\ proc[g].pc = "get" /\ kind' = kind /\ current' = current /\ updates' = updates
      /\ i \in SourceIds /\ i \in DOMAIN source
  BY ProcFacts DEF P!GetLoad, CoreInv, SnapType
<1>2. SnapType /\ ProcsInv /\ LoadsInv
  BY DEF CoreInv
<1>3. CASE source[i].load # Nobody
  <2> DEFINE c == [proc[g] EXCEPT !.pc = "join"]
  <2>1. proc' = [proc EXCEPT ![g] = c] /\ source' = source
    BY <1>3 DEF P!GetLoad, P!Goto
  <2>2. c \in ProcRecords
    BY ProcFacts DEF ProcRecords, ReaderPlaces
  <2>3. c.pc = "join" /\ c.src = proc[g].src /\ c.stop = proc[g].stop
        /\ c.stream = proc[g].stream /\ c.res = proc[g].res
    BY ProcFacts DEF ProcRecords
  <2> HIDE DEF c
  <2>4. updates' \in [Readers -> Results]
    BY <1>1, <1>2 DEF SnapType
  <2> QED
    BY <1>1, <2>1, <2>2, <2>3, <2>4, Moves DEF ReaderPlaces, LoopPlaces
<1>4. CASE source[i].load = Nobody
  <2> DEFINE c == [proc[g] EXCEPT !.pc = "load"]
             r == [source[i] EXCEPT !.load = g, !.canceled = FALSE]
  <2>1. proc' = [proc EXCEPT ![g] = c] /\ source' = [source EXCEPT ![i] = r]
    BY <1>4 DEF P!GetLoad, P!Goto
  <2>2. c \in ProcRecords /\ r \in SourceRecords
    <3>1. proc[g] \in ProcRecords /\ source[i] \in SourceRecords
      BY <1>1, ProcFacts
    <3>2. c \in ProcRecords
      BY <3>1 DEF ProcRecords, ReaderPlaces
    <3>3. r \in SourceRecords
      BY <3>1 DEF SourceRecords
    <3> QED  BY <3>2, <3>3
  <2>3. c.pc = "load" /\ c.src = proc[g].src /\ c.stop = proc[g].stop
        /\ c.stream = proc[g].stream /\ c.res = proc[g].res
    BY ProcFacts DEF ProcRecords
  <2>4. r.load = g /\ r.canceled = FALSE /\ r.subs = source[i].subs
        /\ r.loopRunning = source[i].loopRunning /\ r.loopStop = source[i].loopStop
    BY <1>1, ProcFacts DEF SourceRecords
  <2> HIDE DEF c, r
  <2>5. proc'[g] = c /\ \A h \in Procs \ {g} : proc'[h] = proc[h]
    BY <2>1, <1>2 DEF SnapType
  <2>6. source'[i] = r /\ \A j \in SourceIds \ {i} : source'[j] = source[j]
    BY <2>1, <1>1, <1>2 DEF SnapType
  <2>7. SnapType'
    BY <1>1, <1>2, <2>1, <2>2 DEF SnapType
  <2>8. Quiet
    BY <1>1, <2>3, <2>4, <2>5, <2>6, <2>7, Names DEF Quiet, Subscribed, Runs
  <2>9. ProcsInv'
    BY <1>1, <1>2, <2>3, <2>5, Names
       DEF ProcsInv, ProcOK, ReaderOK, LoopOK, ReaderPlaces, LoopPlaces
  <2>10. LoadsInv'
    <3>1. \A h \in Procs : proc[h].pc = "load" => proc[h].src # i
      BY <1>2, <1>4, Names DEF LoadsInv
    <3>2. \A h \in Procs : proc'[h].pc = "load" => source'[proc'[h].src].load = h
      <4> SUFFICES ASSUME NEW h \in Procs, proc'[h].pc = "load"
                   PROVE  source'[proc'[h].src].load = h
        OBVIOUS
      <4>1. CASE h = g
        BY <4>1, <2>3, <2>4, <2>5, <2>6
      <4>2. CASE h # g
        <5>1. proc[h].src \in SourceIds \ {i} /\ proc'[h] = proc[h] /\ proc[h].pc = "load"
          BY <4>2, <3>1, <2>5, ProcFacts
        <5> QED  BY <5>1, <2>6, <1>2 DEF LoadsInv
      <4> QED  BY <4>1, <4>2
    <3> QED
      BY <1>1, <1>2, <2>4, <2>6, <3>2 DEF LoadsInv
  <2> QED
    BY <2>7, <2>8, <2>9, <2>10, QuietKeeps DEF CoreInv
<1> QED
  BY <1>3, <1>4

\* The query of a source that has subscribers was not canceled.
LEMMA LoadDoneKeeps ==
    ASSUME CoreInv, NEW g \in Procs, P!LoadDone(g)
    PROVE  CoreInv'
<1> DEFINE i == proc[g].src
           Told(h) == h = g \/ (proc[h].pc = "join" /\ proc[h].src = i)
<1>1. /\ proc[g].pc = "load" /\ kind' = kind /\ current' = current /\ updates' = updates
      /\ i \in SourceIds /\ source[i] \in SourceRecords
  BY ProcFacts DEF P!LoadDone
<1>2. SnapType /\ ProcsInv /\ SubsInv /\ LoadsInv
  BY DEF CoreInv
<1>3. PICK r \in P!Outcomes(i) :
         /\ source' = [source EXCEPT ![i].cache = P!Remembered(r, @),
                                     ![i].load = Nobody, ![i].canceled = FALSE]
         /\ proc' = [h \in Procs |-> IF Told(h) THEN [proc[h] EXCEPT !.pc = "got", !.res = r]
                                     ELSE proc[h]]
  BY DEF P!LoadDone, Procs
<1>4. r \in {"ok", "err", "canceled"} /\ (r = "canceled" => source[i].canceled)
  BY DEF P!Outcomes
<1>5. P!Remembered(r, source[i].cache) \in Results
  BY <1>1 DEF P!Remembered, Results, SourceRecords
<1> DEFINE n == [source[i] EXCEPT !.cache = P!Remembered(r, source[i].cache),
                                  !.load = Nobody, !.canceled = FALSE]
<1>6. source' = [source EXCEPT ![i] = n]
  BY <1>3
<1>7. /\ n \in SourceRecords /\ ~n.canceled /\ n.subs = source[i].subs
      /\ n.loopRunning = source[i].loopRunning /\ n.loopStop = source[i].loopStop
  BY <1>1, <1>5 DEF SourceRecords
<1> HIDE DEF n
<1>8. source'[i] = n /\ \A j \in SourceIds \ {i} : source'[j] = source[j]
  BY <1>1, <1>2, <1>6 DEF SnapType
<1>9. ASSUME NEW h \in Procs, Told(h)
      PROVE  /\ proc[h].pc \in {"load", "join"} /\ proc[h].src = i
             /\ proc'[h] \in ProcRecords /\ proc'[h].pc = "got" /\ proc'[h].res = r
             /\ proc'[h].src = i /\ proc'[h].stop = proc[h].stop
             /\ proc'[h].stream = proc[h].stream
  BY <1>1, <1>3, <1>4, <1>9, ProcFacts DEF ProcRecords, ReaderPlaces, Results
<1>10. \A h \in Procs : ~Told(h) => proc'[h] = proc[h]
  BY <1>3
<1>11. \A h \in Procs : proc'[h] \in ProcRecords
  BY <1>2, <1>9, <1>10 DEF SnapType
<1>12. SnapType'
  <2>1. proc' \in [Procs -> ProcRecords]
    BY <1>3, <1>11
  <2> QED
    BY <1>1, <1>2, <1>6, <1>7, <2>1 DEF SnapType
<1> HIDE DEF Told
<1>13. Quiet
  <2>1. \A h \in Procs, j \in SourceIds :
           /\ Subscribed(proc'[h], j) <=> Subscribed(proc[h], j)
           /\ Runs(proc'[h], j) <=> Runs(proc[h], j)
           /\ proc'[h].stop = proc[h].stop
    BY <1>9, <1>10 DEF Subscribed, Runs
  <2> QED
    BY <1>1, <1>7, <1>8, <1>9, <1>10, <1>12, <2>1, Names DEF Quiet
<1>14. ASSUME NEW s \in Readers, Told(s)
       PROVE  r # "canceled"
  <2>1. s \in Procs /\ ReaderOK(proc[s])
    BY <1>2, Names DEF ProcsInv
  <2>2. kind = "monitor" => s \in source[i].subs
    BY <1>1, <1>2, <1>9, <1>14, <2>1 DEF SubsInv, Subscribed
  <2> QED
    BY <1>1, <1>2, <1>4, <2>2 DEF LoadsInv, SubsInv
<1>15. r = "canceled" => kind = "monitor" /\ i # current
  BY <1>1, <1>2, <1>4 DEF LoadsInv
<1>16. ProcsInv'
  <2>1. \A h \in Procs : ProcOK(proc[h])'
    BY <1>1, <1>2, <1>9, <1>10, <1>15 DEF ProcsInv, ProcOK
  <2>2. \A s \in Readers : ReaderOK(proc[s])'
    <3> SUFFICES ASSUME NEW s \in Readers PROVE ReaderOK(proc[s])'
      OBVIOUS
    <3>1. s \in Procs /\ ReaderOK(proc[s])
      BY <1>2, Names DEF ProcsInv
    <3>2. CASE Told(s)
      BY <1>1, <1>9, <1>14, <3>1, <3>2 DEF ReaderOK, ReaderPlaces
    <3>3. CASE ~Told(s)
      BY <1>1, <1>10, <3>1, <3>3 DEF ReaderOK
    <3> QED  BY <3>2, <3>3
  <2>3. \A l \in Loops : LoopOK(proc[l])'
    BY <1>2, <1>9, <1>10, Names DEF ProcsInv, LoopOK, LoopPlaces
  <2> QED  BY <2>1, <2>2, <2>3 DEF ProcsInv
<1>17. LoadsInv'
  <2>1. ASSUME NEW h \in Procs, proc'[h].pc = "load"
        PROVE  source'[proc'[h].src].load = h
    <3>1. ~Told(h) /\ proc'[h] = proc[h] /\ proc[h].pc = "load"
      BY <1>9, <1>10, <2>1
    <3>2. h # g /\ source[proc[h].src].load = h /\ source[i].load = g
      BY <1>1, <1>2, <3>1 DEF LoadsInv, Told
    <3>3. proc[h].src \in SourceIds \ {i}
      BY <3>1, <3>2, ProcFacts
    <3> QED  BY <1>8, <3>1, <3>2, <3>3
  <2> QED
    BY <1>1, <1>2, <1>7, <1>8, <2>1 DEF LoadsInv
<1> QED
  BY <1>12, <1>13, <1>16, <1>17, QuietKeeps DEF CoreInv

LEMMA CacheExpiresKeeps ==
    ASSUME CoreInv, P!CacheExpires
    PROVE  CoreInv'
<1>1. SnapType /\ ProcsInv /\ LoadsInv
  BY DEF CoreInv
<1>2. /\ kind' = kind /\ current' = current /\ updates' = updates /\ proc' = proc
      /\ current # 0 /\ source' = [source EXCEPT ![current].cache = "none"]
  BY DEF P!CacheExpires
<1>3. current \in SourceIds /\ source[current] \in SourceRecords
  BY <1>1, <1>2, Names, SnapshotsAssumption DEF SnapType
<1> DEFINE n == [source[current] EXCEPT !.cache = "none"]
<1>4. source' = [source EXCEPT ![current] = n]
  BY <1>2
<1>5. /\ n \in SourceRecords /\ n.canceled = source[current].canceled
      /\ n.subs = source[current].subs /\ n.load = source[current].load
      /\ n.loopRunning = source[current].loopRunning /\ n.loopStop = source[current].loopStop
  BY <1>3 DEF SourceRecords, Results
<1> HIDE DEF n
<1>6. source'[current] = n /\ \A j \in SourceIds \ {current} : source'[j] = source[j]
  BY <1>1, <1>3, <1>4 DEF SnapType
<1>7. SnapType'
  BY <1>1, <1>2, <1>4, <1>5 DEF SnapType
<1>8. Quiet
  BY <1>2, <1>5, <1>6, <1>7 DEF Quiet
<1>9. ProcsInv'
  BY <1>1, <1>2 DEF ProcsInv, ProcOK, ReaderOK, LoopOK
<1>10. LoadsInv'
  <2>1. \A j \in SourceIds : source'[j].load = source[j].load /\ source'[j].canceled = source[j].canceled
    BY <1>5, <1>6
  <2>2. \A h \in Procs : proc[h].pc = "load" => proc[h].src \in SourceIds
    BY ProcFacts
  <2> QED
    BY <1>1, <1>2, <2>1, <2>2 DEF LoadsInv
<1> QED
  BY <1>7, <1>8, <1>9, <1>10, QuietKeeps DEF CoreInv

\* The loop, but for its end.
LEMMA LoopKeeps ==
    ASSUME CoreInv, NEW l \in Loops, P!Tick(l) \/ P!Stopped(l) \/ P!Broadcast(l)
    PROVE  CoreInv'
<1>1. l \in Procs /\ l \notin Readers
  BY Names
<1>2. updates \in [Readers -> Results] /\ SnapType
  BY DEF CoreInv, SnapType
<1>3. ASSUME NEW x \in {"get", "exit"}, proc[l].pc = "wait", P!Goto(l, x),
             UNCHANGED <<kind, current, source, updates, byIP>>
      PROVE  CoreInv'
  <2> DEFINE c == [proc[l] EXCEPT !.pc = x]
  <2>1. proc' = [proc EXCEPT ![l] = c]
    BY <1>3 DEF P!Goto
  <2>2. c \in ProcRecords /\ c.pc = x /\ c.src = proc[l].src /\ c.stop = proc[l].stop
        /\ c.stream = proc[l].stream /\ c.res = proc[l].res
    BY <1>1, ProcFacts DEF ProcRecords, ReaderPlaces, LoopPlaces
  <2> HIDE DEF c
  <2> QED
    BY <1>1, <1>2, <1>3, <2>1, <2>2, Moves DEF ReaderPlaces, LoopPlaces
<1>4. ASSUME P!Broadcast(l) PROVE CoreInv'
  <2> DEFINE x == IF kind = "monitor" /\ proc[l].stop THEN "exit" ELSE "wait"
             c == [proc[l] EXCEPT !.pc = x, !.res = "none"]
             i == proc[l].src
  <2>1. /\ proc[l].pc = "got" /\ proc' = [proc EXCEPT ![l] = c]
        /\ kind' = kind /\ current' = current /\ source' = source
        /\ \/ updates' = updates
           \/ updates' = [s \in Readers |-> IF s \in source[i].subs THEN proc[l].res ELSE updates[s]]
    BY <1>4 DEF P!Broadcast
  <2>2. c \in ProcRecords /\ c.pc \in {"exit", "wait"} /\ c.src = proc[l].src
        /\ c.stop = proc[l].stop /\ c.stream = proc[l].stream /\ c.res = "none"
    BY <1>1, ProcFacts DEF ProcRecords, ReaderPlaces, LoopPlaces, Results
  <2>3. source[i].subs # {} => proc[l].res \in Results
    <3>1. i \in SourceIds /\ proc[l].res \in Results \cup {"canceled"}
      BY <1>1, <2>1, ProcFacts DEF ProcRecords
    <3>2. source[i].subs # {} => current = i
      BY <3>1 DEF CoreInv, SubsInv
    <3> QED
      BY <1>1, <3>1, <3>2, ProcFacts DEF ProcOK
  <2>4. updates' \in [Readers -> Results]
    BY <1>2, <2>1, <2>3
  <2> HIDE DEF c
  <2> QED
    BY <1>1, <2>1, <2>2, <2>4, Moves DEF ReaderPlaces, LoopPlaces, Results
<1> QED
  BY <1>3, <1>4 DEF P!Tick, P!Stopped

\* The end of a loop: it starts over if somebody subscribes.
LEMMA ExitKeeps ==
    ASSUME CoreInv, NEW l \in Loops, P!Exit(l)
    PROVE  CoreInv'
<1> DEFINE i == proc[l].src
           again == source[i].subs # {}
           n == [source[i] EXCEPT !.loopRunning = again,
                                  !.loopStop = IF again THEN l ELSE source[i].loopStop]
           c == IF again THEN [P!Off EXCEPT !.pc = "wait", !.src = i] ELSE P!Off
<1>1. l \in Procs /\ l \notin Readers /\ \A s \in Readers : s \in Procs /\ s # l
  BY Names
<1>2. SnapType /\ ProcsInv /\ SubsInv /\ LoopsInv /\ LoadsInv
  BY DEF CoreInv
<1>3. /\ proc[l].pc = "exit" /\ kind' = kind /\ current' = current /\ updates' = updates
      /\ source' = [source EXCEPT ![i] = n] /\ proc' = [proc EXCEPT ![l] = c]
  BY DEF P!Exit
<1>4. i \in SourceIds /\ source[i] \in SourceRecords /\ Runs(proc[l], i)
  BY <1>1, <1>3, ProcFacts DEF Runs
<1>5. /\ n \in SourceRecords /\ n.canceled = source[i].canceled
      /\ n.subs = source[i].subs /\ n.load = source[i].load
      /\ n.loopRunning = again /\ n.loopStop = IF again THEN l ELSE source[i].loopStop
  BY <1>4 DEF SourceRecords
<1>6. /\ c \in ProcRecords /\ ~c.stop /\ ~c.stream /\ c.res = "none"
      /\ again => c.pc = "wait" /\ c.src = i
      /\ ~again => c = P!Off /\ c.pc = "off" /\ c.src = 0
  BY <1>4, OffIs, Names DEF P!Off, ProcRecords, ReaderPlaces, LoopPlaces, Results
<1> HIDE DEF n, c
<1>7. source'[i] = n /\ \A j \in SourceIds \ {i} : source'[j] = source[j]
  BY <1>2, <1>3, <1>4 DEF SnapType
<1>8. proc'[l] = c /\ \A h \in Procs \ {l} : proc'[h] = proc[h]
  BY <1>1, <1>2, <1>3 DEF SnapType
<1>9. SnapType'
  BY <1>2, <1>3, <1>5, <1>6 DEF SnapType
<1>10. ProcsInv'
  <2>1. ProcOK(proc[l])' /\ LoopOK(proc[l])'
    BY <1>1, <1>2, <1>3, <1>4, <1>6, <1>8 DEF ProcsInv, ProcOK, LoopOK, LoopPlaces
  <2>2. \A h \in Procs \ {l} : ProcOK(proc[h])'
    BY <1>2, <1>3, <1>8 DEF ProcsInv, ProcOK
  <2>3. \A s \in Readers : ReaderOK(proc[s])'
    BY <1>1, <1>2, <1>3, <1>8 DEF ProcsInv, ReaderOK
  <2>4. \A k \in Loops \ {l} : LoopOK(proc[k])'
    BY <1>2, <1>8, Names DEF ProcsInv, LoopOK
  <2> QED  BY <2>1, <2>2, <2>3, <2>4 DEF ProcsInv
<1>11. SubsInv'
  <2>1. \A j \in SourceIds : source'[j].subs = source[j].subs
    BY <1>5, <1>7
  <2>2. \A s \in Readers : proc'[s] = proc[s]
    BY <1>1, <1>8
  <2>3. \A j \in SourceIds : source[j].subs # {} => source'[j].loopRunning
    BY <1>2, <1>5, <1>7 DEF SubsInv
  <2> QED
    BY <1>2, <1>3, <2>1, <2>2, <2>3 DEF SubsInv, Subscribed
<1>12. LoopsInv'
  <2>1. \A k \in Loops \ {l} : proc'[k] = proc[k] /\ ~Runs(proc[k], i)
    BY <1>2, <1>4, <1>8, Names DEF LoopsInv
  <2>2. \A j \in SourceIds \ {i} : ~Runs(proc[l], j) /\ ~Runs(c, j)
    BY <1>6 DEF Runs
  <2>3. Runs(c, i) <=> again
    BY <1>6 DEF Runs
  <2>4. \A j \in SourceIds \ {i} : \A k \in Loops : Runs(proc'[k], j) <=> Runs(proc[k], j) /\ k # l
    BY <1>8, <2>1, <2>2
  <2>5. \A k \in Loops : Runs(proc'[k], i) <=> again /\ k = l
    BY <1>8, <2>1, <2>3
  <2>6. \A j \in SourceIds : \A k \in Loops : Runs(proc'[k], j) /\ ~proc'[k].stop => source'[j].loopStop = k
    BY <1>2, <1>5, <1>7, <2>1, <2>4, <2>5 DEF LoopsInv
  <2>8. ~again => source[i].loopStop = Nobody
    BY <1>2, <1>4 DEF LoopsInv
  <2>9. \A j \in SourceIds, k \in Loops : source'[j].loopStop = k => Runs(proc'[k], j)
    BY <1>2, <1>5, <1>7, <2>2, <2>4, <2>5, <2>8, Names DEF LoopsInv
  <2>10. \A j \in SourceIds : source'[j].subs = {} => source'[j].loopStop = Nobody
    BY <1>2, <1>5, <1>7 DEF LoopsInv
  <2>11. \A j \in SourceIds : source'[j].loopRunning => \E k \in Loops : Runs(proc'[k], j)
    <3>1. again => Runs(proc'[l], i)
      BY <2>5
    <3>2. \A j \in SourceIds \ {i} : source[j].loopRunning => \E k \in Loops : Runs(proc[k], j)
      BY <1>2 DEF LoopsInv
    <3>3. \A j \in SourceIds \ {i} : source'[j].loopRunning => \E k \in Loops : Runs(proc'[k], j)
      BY <1>7, <2>2, <2>4, <3>2
    <3> QED  BY <1>5, <1>7, <3>1, <3>3
  <2>12. \A j \in SourceIds, k \in Loops : Runs(proc'[k], j) => source'[j].loopRunning
    <3>1. \A j \in SourceIds \ {i}, k \in Loops : Runs(proc[k], j) => source[j].loopRunning
      BY <1>2 DEF LoopsInv
    <3>2. \A j \in SourceIds \ {i}, k \in Loops : Runs(proc'[k], j) => source'[j].loopRunning
      BY <1>7, <2>4, <3>1
    <3> QED  BY <1>5, <1>7, <2>5, <3>2
  <2>13. \A j \in SourceIds, k, m \in Loops : Runs(proc'[k], j) /\ Runs(proc'[m], j) => k = m
    BY <1>2, <2>4, <2>5 DEF LoopsInv
  <2> QED
    BY <2>6, <2>9, <2>10, <2>11, <2>12, <2>13 DEF LoopsInv, Runs
<1>13. LoadsInv'
  <2>1. \A j \in SourceIds : source'[j].load = source[j].load /\ source'[j].canceled = source[j].canceled
    BY <1>5, <1>7
  <2>2. \A h \in Procs : proc'[h].pc = "load" => proc'[h] = proc[h] /\ proc[h].src \in SourceIds
    BY <1>6, <1>8, ProcFacts
  <2> QED
    BY <1>2, <1>3, <2>1, <2>2 DEF LoadsInv
<1> QED
  BY <1>9, <1>10, <1>11, <1>12, <1>13 DEF CoreInv

-----------------------------------------------------------------------------
(* Requests that end without a subscription, and deliveries *)

LEMMA Ends ==
    ASSUME CoreInv, NEW s \in Readers, proc' = [proc EXCEPT ![s] = P!Off],
           kind = "public", proc[s].pc # "open",
           kind' = kind, current' = current, source' = source, updates' = updates
    PROVE  CoreInv'
<1>1. s \in Procs /\ s \notin Loops
  BY Names
<1>2. \A i \in SourceIds : Subscribed(P!Off, i) <=> Subscribed(proc[s], i)
  BY OffIs, Names DEF Subscribed
<1>3. ProcOK(P!Off) /\ ReaderOK(P!Off) /\ P!Off \in ProcRecords
  BY OffIs DEF ProcOK, ReaderOK, ReaderPlaces
<1>4. updates' \in [Readers -> Results]
  BY DEF CoreInv, SnapType
<1> QED
  BY <1>1, <1>2, <1>3, <1>4, OffIs, OneMoves

LEMMA Releasing ==
    ASSUME CoreInv, NEW s \in Readers, kind = "public",
           proc[s].pc \notin {"off", "open"}, proc[s].stream,
           NEW c \in ProcRecords, proc' = [proc EXCEPT ![s] = c],
           c.pc = "release", c.src = proc[s].src, c.stop = proc[s].stop,
           c.stream = proc[s].stream, c.res \in Results \/ c.res = proc[s].res,
           kind' = kind, current' = current, source' = source, updates' = updates
    PROVE  CoreInv'
<1>1. s \in Procs /\ s \notin Loops
  BY Names
<1>2. updates' \in [Readers -> Results]
  BY DEF CoreInv, SnapType
<1> QED
  BY <1>1, <1>2, Moves DEF ReaderPlaces

LEMMA ReleaseKeeps ==
    ASSUME CoreInv, NEW s \in Readers, P!Release(s)
    PROVE  CoreInv'
<1>1. ReaderOK(proc[s]) /\ kind \in {"public", "monitor"}
  BY DEF CoreInv, ProcsInv, SnapType
<1> QED
  BY <1>1, Ends DEF P!Release, ReaderOK

LEMMA DeliverKeeps ==
    ASSUME CoreInv, NEW s \in Readers, P!Deliver(s)
    PROVE  CoreInv'
<1>1. /\ kind' = kind /\ current' = current /\ source' = source /\ proc' = proc
      /\ updates' = [updates EXCEPT ![s] = "none"]
  BY DEF P!Deliver
<1>2. SnapType /\ ProcsInv /\ SubsInv /\ LoopsInv /\ LoadsInv
  BY DEF CoreInv
<1>3. SnapType'
  BY <1>1, <1>2 DEF SnapType, Results
<1>4. Quiet
  BY <1>1, <1>3 DEF Quiet
<1>5. ProcsInv' /\ LoadsInv'
  BY <1>1, <1>2 DEF ProcsInv, LoadsInv, ProcOK, ReaderOK, LoopOK
<1> QED
  BY <1>3, <1>4, <1>5, QuietKeeps DEF CoreInv

-----------------------------------------------------------------------------
(* Subscriptions *)

\* i is the source of the team, or becomes it, with the fields rec: they agree
\* with what the goroutines do, and no other source has subscribers.
Ready(i, rec) ==
    /\ i \in SourceIds /\ rec \in SourceRecords /\ ~rec.canceled
    /\ current \in {0, i}
    /\ kind = "public" => \A g \in Procs : proc[g].pc # "off" => proc[g].src = i
    /\ \A g \in Procs : proc[g].res = "canceled" => kind = "monitor" /\ proc[g].src # i
    /\ \A g \in Procs : proc[g].pc = "load" /\ proc[g].src = i => rec.load = g
    /\ \A s \in Readers : s \in rec.subs <=> Subscribed(proc[s], i)
    /\ \A j \in SourceIds \ {i} : source[j].subs = {} /\ source[j].loopStop = Nobody
    /\ rec.subs # {} => rec.loopRunning
    /\ rec.subs = {} => rec.loopStop = Nobody
    /\ \A l \in Loops : Runs(proc[l], i) => rec.loopRunning
    /\ rec.loopRunning => \E l \in Loops : Runs(proc[l], i)
    /\ \A l \in Loops : Runs(proc[l], i) /\ ~proc[l].stop => rec.loopStop = l
    /\ \A l \in Loops : rec.loopStop = l => Runs(proc[l], i)

LEMMA CurrentReady ==
    ASSUME CoreInv, current # 0
    PROVE  Ready(current, source[current])
<1>1. SnapType /\ ProcsInv /\ SubsInv /\ LoopsInv /\ LoadsInv
  BY DEF CoreInv
<1>2. current \in SourceIds /\ source[current] \in SourceRecords
  BY <1>1, Names, SnapshotsAssumption DEF SnapType
<1>3. \A j \in SourceIds \ {current} : source[j].subs = {} /\ source[j].loopStop = Nobody
  BY <1>1 DEF SubsInv, LoopsInv
<1>4. /\ ~source[current].canceled
      /\ \A g \in Procs : proc[g].pc = "load" /\ proc[g].src = current => source[current].load = g
  BY <1>1, <1>2 DEF LoadsInv
<1>5. /\ kind = "public" => \A g \in Procs : proc[g].pc # "off" => proc[g].src = current
      /\ \A g \in Procs : proc[g].res = "canceled" => kind = "monitor" /\ proc[g].src # current
  BY <1>1 DEF ProcsInv, ProcOK
<1> QED
  BY <1>1, <1>2, <1>3, <1>4, <1>5 DEF Ready, SubsInv, LoopsInv

LEMMA HomeReady ==
    ASSUME CoreInv, P!Found
    PROVE  Ready(P!Home, P!HomeSource)
<1>1. CASE current # 0
  BY <1>1, CurrentReady DEF P!Home, P!HomeSource
<1>2. CASE current = 0
  <2>1. SnapType /\ ProcsInv /\ SubsInv /\ LoopsInv
    BY DEF CoreInv
  <2>2. P!FreeSources \subseteq SourceIds /\ P!FreeSources # {} /\ P!FreeSources \in SUBSET Nat
    BY <1>2, Names, SnapshotsAssumption DEF P!FreeSources, P!Found, SourceIds
  <2> DEFINE i == P!Home
  <2>3. i \in P!FreeSources /\ P!HomeSource = P!NewSource
    BY <1>2, <2>2, MinIn DEF P!Home, P!HomeSource
  <2>4. i \in SourceIds /\ \A g \in Procs : proc[g].src # i
    BY <2>2, <2>3 DEF P!FreeSources, Procs
  <2> HIDE DEF i
  <2>5. kind = "public" => \A g \in Procs : proc[g].pc = "off"
    BY <1>2, <2>1, Names DEF ProcsInv, ProcOK
  <2>6. \A g \in Procs : proc[g].res = "canceled" => kind = "monitor"
    BY <2>1 DEF ProcsInv, ProcOK
  <2>7. \A j \in SourceIds : source[j].subs = {} /\ source[j].loopStop = Nobody
    BY <1>2, <2>1, Names DEF SubsInv, LoopsInv
  <2>8. \A g \in Procs : ~Subscribed(proc[g], i) /\ ~Runs(proc[g], i)
    BY <2>4 DEF Subscribed, Runs
  <2>9. Ready(i, P!NewSource)
    BY <1>2, <2>4, <2>5, <2>6, <2>7, <2>8, NewSourceIs, Names DEF Ready
  <2> QED
    BY <2>3, <2>9 DEF i
<1> QED
  BY <1>1, <1>2

\* A loop that is started is one that did not run.
LEMMA FreeLoop ==
    ASSUME CoreInv, P!FreeLoops # {}
    PROVE  P!Min(P!FreeLoops) \in Loops /\ proc[P!Min(P!FreeLoops)] = P!Off
<1>1. P!FreeLoops \in SUBSET Nat
  BY Names DEF P!FreeLoops, Loops
<1>2. P!Min(P!FreeLoops) \in P!FreeLoops
  BY <1>1, MinIn
<1> QED
  BY <1>2, Names DEF P!FreeLoops, P!Alive, CoreInv, ProcsInv, ProcOK, Loops

\* No loop starts, or the loop l does.
NoneStarts(s, i, rec, c, n) ==
    /\ n.loopRunning = rec.loopRunning /\ n.loopStop = rec.loopStop
    /\ Subscribed(c, i) => rec.loopRunning
    /\ \A g \in Procs \ {s} : proc'[g] = proc[g]
Starts(s, i, rec, c, n, l) ==
    /\ Subscribed(c, i) /\ ~rec.loopRunning
    /\ n.loopRunning /\ n.loopStop = l /\ proc[l] = P!Off
    /\ proc'[l] = [P!Off EXCEPT !.pc = "wait", !.src = i]
    /\ \A g \in Procs \ {s, l} : proc'[g] = proc[g]

\* Reader s becomes c on source i, whose fields rec become n.
Arrival(s, i, rec, c, n) ==
    /\ \A j \in SourceIds : ~Subscribed(proc[s], j)
    /\ proc[s].pc # "load"
    /\ c \in ProcRecords /\ c.pc \in {"get", "open"} /\ c.src = i /\ ~c.stop
    /\ c.res = "none" /\ (kind = "monitor" \/ c.pc = "open" => c.stream)
    /\ n \in SourceRecords /\ n.load = rec.load /\ n.canceled = rec.canceled
    /\ n.subs = IF Subscribed(c, i) THEN rec.subs \cup {s} ELSE rec.subs
    /\ kind' = kind /\ current' = i /\ updates' = updates
    /\ source' = [source EXCEPT ![i] = n]
    /\ proc' \in [Procs -> ProcRecords] /\ proc'[s] = c
    /\ NoneStarts(s, i, rec, c, n) \/ \E l \in Loops : Starts(s, i, rec, c, n, l)

LEMMA Arrives ==
    ASSUME CoreInv, NEW s \in Readers, NEW i, NEW rec, Ready(i, rec),
           NEW c, NEW n, Arrival(s, i, rec, c, n)
    PROVE  CoreInv'
<1> USE DEF Arrival
<1>0. SnapType /\ ProcsInv /\ SubsInv /\ LoopsInv /\ LoadsInv /\ i \in SourceIds
  BY DEF CoreInv, Ready
<1>1. source'[i] = n /\ \A j \in SourceIds \ {i} : source'[j] = source[j]
  BY <1>0 DEF SnapType
<1>2. s \in Procs /\ s \notin Loops /\ (\A l \in Loops : l \in Procs /\ l # s /\ l \notin Readers)
  BY Names
<1>3. SnapType'
  BY <1>0, Names DEF SnapType
<1> DEFINE w == [P!Off EXCEPT !.pc = "wait", !.src = i]
<1>4. /\ w \in ProcRecords /\ w.pc = "wait" /\ w.src = i /\ ~w.stop /\ ~w.stream
      /\ w.res = "none"
  BY <1>0, Names DEF P!Off, ProcRecords, ReaderPlaces, LoopPlaces, Results
<1>5. \A g \in Readers \ {s} : proc'[g] = proc[g]
  <2>1. \A g \in Readers : g \in Procs /\ g \notin Loops
    BY Names
  <2> QED  BY <2>1 DEF NoneStarts, Starts
<1>6. \A g \in Procs \ {s} : proc'[g] = proc[g] \/ (g \in Loops /\ proc'[g] = w /\ proc[g] = P!Off)
  BY <1>2 DEF NoneStarts, Starts
<1>7. current \in {0, i} /\ kind \in {"public", "monitor"}
  BY <1>0 DEF Ready, SnapType
<1> HIDE DEF w
<1>8. ProcsInv'
  <2>1. ASSUME NEW g \in Procs PROVE ProcOK(proc[g])'
    <3>1. CASE g = s
      BY <1>0, <3>1 DEF ProcOK
    <3>2. CASE g # s /\ proc'[g] = proc[g]
      <4>1. ProcOK(proc[g])
        BY <1>0 DEF ProcsInv
      <4>2. kind = "public" /\ proc[g].pc # "off" => proc[g].src = i
        BY DEF Ready
      <4>3. proc[g].res = "canceled" => kind = "monitor" /\ proc[g].src # i
        BY DEF Ready
      <4> QED
        BY <3>2, <4>1, <4>2, <4>3 DEF ProcOK
    <3>3. CASE g # s /\ proc'[g] = w
      BY <1>0, <1>4, <3>3 DEF ProcOK
    <3> QED  BY <1>6, <3>1, <3>2, <3>3
  <2>2. \A t \in Readers : ReaderOK(proc[t])'
    BY <1>0, <1>5 DEF ProcsInv, ReaderOK, ReaderPlaces
  <2>3. \A l \in Loops : LoopOK(proc[l])'
    BY <1>0, <1>2, <1>4, <1>6 DEF ProcsInv, LoopOK, LoopPlaces
  <2> QED  BY <2>1, <2>2, <2>3 DEF ProcsInv
<1>9. SubsInv'
  <2>1. \A j \in SourceIds \ {i} : ~Subscribed(c, j) /\ source'[j].subs = {}
    BY <1>1 DEF Subscribed, Ready
  <2>2. \A j \in SourceIds, t \in Readers : t \in source'[j].subs <=> Subscribed(proc'[t], j)
    <3> SUFFICES ASSUME NEW j \in SourceIds, NEW t \in Readers
                 PROVE  t \in source'[j].subs <=> Subscribed(proc'[t], j)
      OBVIOUS
    <3>1. CASE j = i
      BY <1>1, <1>5, <3>1 DEF Ready
    <3>2. CASE j # i
      BY <1>0, <1>1, <1>5, <2>1, <3>2 DEF SubsInv
    <3> QED  BY <3>1, <3>2
  <2>3. n.subs # {} => n.loopRunning
    BY DEF Ready, NoneStarts, Starts
  <2>4. kind = "monitor" => Subscribed(c, i)
    BY DEF Subscribed
  <2>5. kind = "monitor" => n.subs # {}
    BY <2>4
  <2> QED
    BY <1>1, <2>1, <2>2, <2>3, <2>5 DEF SubsInv, Subscribed
<1>10. LoopsInv'
  <2>0. \A j \in SourceIds \ {i} : \A l \in Loops : Runs(proc'[l], j) <=> Runs(proc[l], j)
    BY <1>2, <1>4, <1>6, OffIs DEF Runs
  <2>1. \A j \in SourceIds \ {i} : \A l \in Loops :
           /\ Runs(proc[l], j) => proc'[l] = proc[l] /\ proc[l].stop /\ source[j].loopRunning
           /\ source[j].loopStop # l
    BY <1>0, <1>2, <1>4, <1>6, OffIs, Names DEF Runs, Ready, LoopsInv
  <2>2. CASE NoneStarts(s, i, rec, c, n)
    <3>1. \A l \in Loops : proc'[l] = proc[l]
      BY <1>2, <2>2 DEF NoneStarts
    <3>2. n.subs = {} => n.loopStop = Nobody
      BY <2>2 DEF Ready, NoneStarts
    <3>3. \A j \in SourceIds : source'[j].loopRunning => \E l \in Loops : Runs(proc'[l], j)
      BY <1>0, <1>1, <2>2, <3>1 DEF Ready, LoopsInv, NoneStarts
    <3>4. \A j \in SourceIds, l \in Loops :
             /\ Runs(proc'[l], j) => source'[j].loopRunning
             /\ Runs(proc'[l], j) /\ ~proc'[l].stop => source'[j].loopStop = l
             /\ source'[j].loopStop = l => Runs(proc'[l], j)
      BY <1>0, <1>1, <2>2, <3>1 DEF Ready, LoopsInv, NoneStarts
    <3>5. \A j \in SourceIds, k, l \in Loops : Runs(proc'[k], j) /\ Runs(proc'[l], j) => k = l
      BY <1>0, <3>1 DEF LoopsInv
    <3>6. \A j \in SourceIds : source'[j].subs = {} => source'[j].loopStop = Nobody
      BY <1>0, <1>1, <3>2 DEF LoopsInv
    <3> QED
      BY <3>3, <3>4, <3>5, <3>6 DEF LoopsInv, Runs
  <2>3. CASE \E l \in Loops : Starts(s, i, rec, c, n, l)
    <3>1. PICK l \in Loops : /\ Subscribed(c, i) /\ ~rec.loopRunning
                             /\ n.loopRunning /\ n.loopStop = l /\ proc[l] = P!Off
                             /\ proc'[l] = w
                             /\ \A g \in Procs \ {s, l} : proc'[g] = proc[g]
      BY <2>3 DEF Starts, w
    <3>2. \A k \in Loops : Runs(proc'[k], i) <=> k = l
      <4>1. \A k \in Loops : ~Runs(proc[k], i)
        BY <3>1 DEF Ready
      <4>2. Runs(proc'[l], i)
        BY <1>4, <3>1 DEF Runs
      <4> QED  BY <1>2, <3>1, <4>1, <4>2
    <3>3. n.subs # {}
      BY <3>1
    <3>4. \A j \in SourceIds \ {i} : source[j].loopRunning => \E k \in Loops : Runs(proc'[k], j)
      BY <1>0, <2>0 DEF LoopsInv
    <3>5. \A j \in SourceIds \ {i}, k \in Loops :
             /\ Runs(proc'[k], j) => source[j].loopRunning
             /\ Runs(proc'[k], j) /\ ~proc'[k].stop => source[j].loopStop = k
             /\ source[j].loopStop = k => Runs(proc'[k], j)
      BY <2>0, <2>1
    <3>6. \A j \in SourceIds \ {i}, k, m \in Loops : Runs(proc'[k], j) /\ Runs(proc'[m], j) => k = m
      BY <1>0, <2>0 DEF LoopsInv
    <3>7. \A j \in SourceIds : source'[j].loopRunning => \E k \in Loops : Runs(proc'[k], j)
      BY <1>1, <3>2, <3>4
    <3>8. \A j \in SourceIds, k \in Loops :
             /\ Runs(proc'[k], j) => source'[j].loopRunning
             /\ Runs(proc'[k], j) /\ ~proc'[k].stop => source'[j].loopStop = k
             /\ source'[j].loopStop = k => Runs(proc'[k], j)
      BY <1>1, <3>1, <3>2, <3>5
    <3>9. \A j \in SourceIds, k, m \in Loops : Runs(proc'[k], j) /\ Runs(proc'[m], j) => k = m
      BY <3>2, <3>6
    <3>10. \A j \in SourceIds : source'[j].subs = {} => source'[j].loopStop = Nobody
      <4>1. \A j \in SourceIds : source[j].subs = {} => source[j].loopStop = Nobody
        BY <1>0 DEF LoopsInv
      <4> QED  BY <1>1, <3>3, <4>1
    <3> QED
      BY <3>7, <3>8, <3>9, <3>10 DEF LoopsInv, Runs
  <2> QED
    BY <2>2, <2>3
<1>11. LoadsInv'
  <2>1. ASSUME NEW g \in Procs, proc'[g].pc = "load"
        PROVE  source'[proc'[g].src].load = g
    <3>1. g # s /\ proc'[g] = proc[g]
      BY <1>4, <1>6, <2>1
    <3>2. proc[g].src \in SourceIds /\ source[proc[g].src].load = g
      BY <2>1, <3>1, ProcFacts
    <3>3. proc[g].src = i => n.load = g
      BY <2>1, <3>1 DEF Ready
    <3> QED  BY <1>1, <3>1, <3>2, <3>3
  <2>2. \A j \in SourceIds : source'[j].canceled => kind = "monitor" /\ j # i
    BY <1>0, <1>1 DEF LoadsInv, Ready
  <2> QED
    BY <2>1, <2>2 DEF LoadsInv
<1> QED
  BY <1>3, <1>8, <1>9, <1>10, <1>11 DEF CoreInv

\* A reader that comes.
LEMMA Newcomer ==
    ASSUME CoreInv, NEW s \in Readers, ~P!Alive(s)
    PROVE  proc[s] = P!Off /\ \A j \in SourceIds : ~Subscribed(proc[s], j)
<1>1. proc[s] = P!Off
  BY Names DEF P!Alive, CoreInv, ProcsInv, ProcOK
<1> QED
  BY <1>1, OffIs, Names DEF Subscribed

\* acquire and Preview: the source is there, or is made.
LEMMA ComesKeeps ==
    ASSUME CoreInv, NEW s \in Readers, P!acquire(s) \/ P!Preview(s)
    PROVE  CoreInv'
<1> DEFINE i == P!Home
           rec == P!HomeSource
           some(b) == IF b THEN [P!Off EXCEPT !.pc = "get", !.src = i, !.stream = TRUE]
                      ELSE [P!Off EXCEPT !.pc = "get", !.src = i]
<1>1. PICK b \in BOOLEAN :
         /\ kind = "public" /\ ~P!Alive(s) /\ P!Found /\ kind' = kind /\ current' = i
         /\ updates' = updates /\ source' = [source EXCEPT ![i] = rec]
         /\ proc' = [proc EXCEPT ![s] = some(b)]
  BY DEF P!acquire, P!Preview
<1>2. Ready(i, rec)
  BY <1>1, HomeReady
<1> HIDE DEF i, rec
<1> DEFINE c == some(b)
           h == [proc EXCEPT ![s] = c]
<1>3. i \in SourceIds /\ rec \in SourceRecords
  BY <1>2 DEF Ready
<1>4. /\ c \in ProcRecords /\ c.pc = "get" /\ c.src = i /\ ~c.stop /\ c.res = "none"
  BY <1>3, Names DEF P!Off, ProcRecords, ReaderPlaces, Results
<1>5. ~Subscribed(c, i)
  BY <1>1, <1>4 DEF Subscribed
<1> HIDE DEF c
<1>6. s \in Procs /\ proc \in [Procs -> ProcRecords]
  BY Names DEF CoreInv, SnapType
<1>7. h \in [Procs -> ProcRecords] /\ h[s] = c /\ \A g \in Procs \ {s} : h[g] = proc[g]
  BY <1>4, <1>6
<1>8. proc' = h
  BY <1>1 DEF c
<1> HIDE DEF h
<1>9. proc[s].pc # "load" /\ \A j \in SourceIds : ~Subscribed(proc[s], j)
  BY <1>1, Newcomer, OffIs
<1>10. NoneStarts(s, i, rec, c, rec)
  BY <1>5, <1>7, <1>8 DEF NoneStarts
<1>11. Arrival(s, i, rec, c, rec)
  BY <1>1, <1>3, <1>4, <1>5, <1>7, <1>8, <1>9, <1>10 DEF Arrival
<1> QED
  BY <1>2, <1>11, Arrives

\* subscribeLocked, from wherever it is called.
LEMMA SubscribeKeeps ==
    ASSUME CoreInv, NEW s \in Readers, NEW i, NEW rec, Ready(i, rec), NEW x \in {"get", "open"},
           P!subscribeLocked(s, i, rec, x), x = "open" \/ kind = "monitor",
           \A j \in SourceIds : ~Subscribed(proc[s], j), proc[s].pc # "load",
           kind' = kind, current' = i, updates' = updates
    PROVE  CoreInv' /\ proc'[s].stream /\ \A t \in Readers \ {s} : proc'[t] = proc[t]
<1> DEFINE c == [P!Off EXCEPT !.pc = x, !.src = i, !.stream = TRUE]
           w == [P!Off EXCEPT !.pc = "wait", !.src = i]
           l == P!Min(P!FreeLoops)
<1>1. i \in SourceIds /\ rec \in SourceRecords
  BY DEF Ready
<1>2. /\ c \in ProcRecords /\ c.pc = x /\ c.src = i /\ ~c.stop /\ c.res = "none" /\ c.stream
  BY <1>1, Names DEF P!Off, ProcRecords, ReaderPlaces, Results
<1>3. Subscribed(c, i)
  BY <1>2 DEF Subscribed
<1>4. w \in ProcRecords
  BY <1>1, Names DEF P!Off, ProcRecords, LoopPlaces, Results
<1>5. s \in Procs /\ proc \in [Procs -> ProcRecords] /\ s \notin Loops
      /\ \A t \in Readers : t \in Procs /\ t \notin Loops
  BY Names DEF CoreInv, SnapType
<1>6. CASE rec.loopRunning
  <2> DEFINE n == [rec EXCEPT !.subs = @ \cup {s}]
             h == [proc EXCEPT ![s] = c]
  <2>1. source' = [source EXCEPT ![i] = n] /\ proc' = h
    BY <1>6 DEF P!subscribeLocked
  <2>2. /\ n \in SourceRecords /\ n.subs = rec.subs \cup {s} /\ n.load = rec.load
        /\ n.canceled = rec.canceled /\ n.loopRunning = rec.loopRunning
        /\ n.loopStop = rec.loopStop
    BY <1>1 DEF SourceRecords
  <2> HIDE DEF c, n
  <2>3. h \in [Procs -> ProcRecords] /\ h[s] = c /\ \A g \in Procs \ {s} : h[g] = proc[g]
    BY <1>2, <1>5
  <2> HIDE DEF h
  <2>4. CoreInv'
    <3>1. NoneStarts(s, i, rec, c, n)
      BY <1>6, <2>1, <2>2, <2>3 DEF NoneStarts
    <3>2. Arrival(s, i, rec, c, n)
      BY <1>2, <1>3, <2>1, <2>2, <2>3, <3>1 DEF Arrival
    <3> QED  BY <3>2, Arrives
  <2> QED
    BY <1>2, <1>5, <2>1, <2>3, <2>4
<1>7. CASE ~rec.loopRunning
  <2> DEFINE n == [rec EXCEPT !.subs = @ \cup {s}, !.loopRunning = TRUE, !.loopStop = l]
             h == [[proc EXCEPT ![s] = c] EXCEPT ![l] = w]
  <2>1. source' = [source EXCEPT ![i] = n] /\ proc' = h /\ P!FreeLoops # {}
    BY <1>7 DEF P!subscribeLocked
  <2>2. l \in Loops /\ proc[l] = P!Off /\ l \in Procs /\ l # s
    BY <1>5, <2>1, FreeLoop, Names
  <2> HIDE DEF c, w, l
  <2>3. /\ n \in SourceRecords /\ n.subs = rec.subs \cup {s} /\ n.load = rec.load
        /\ n.canceled = rec.canceled /\ n.loopRunning /\ n.loopStop = l
    BY <1>1, <2>2 DEF SourceRecords
  <2> HIDE DEF n
  <2>4. /\ h \in [Procs -> ProcRecords] /\ h[s] = c /\ h[l] = w
        /\ \A g \in Procs \ {s, l} : h[g] = proc[g]
    BY <1>2, <1>4, <1>5, <2>2
  <2> HIDE DEF h
  <2>5. Starts(s, i, rec, c, n, l)
    BY <1>3, <1>7, <2>1, <2>2, <2>3, <2>4 DEF Starts, w
  <2>6. CoreInv'
    <3>1. Arrival(s, i, rec, c, n)
      BY <1>2, <1>3, <2>1, <2>2, <2>3, <2>4, <2>5 DEF Arrival
    <3> QED  BY <3>1, Arrives
  <2> QED
    BY <1>2, <1>5, <2>1, <2>2, <2>4, <2>6
<1> QED
  BY <1>6, <1>7

LEMMA MonitorStreamKeeps ==
    ASSUME CoreInv, NEW s \in Readers, P!MonitorStream(s)
    PROVE  CoreInv'
<1>1. /\ kind = "monitor" /\ ~P!Alive(s) /\ P!Found /\ kind' = kind
      /\ P!subscribeLocked(s, P!Home, P!HomeSource, "get")
      /\ current' = P!Home /\ updates' = updates
  BY DEF P!MonitorStream
<1>2. proc[s].pc # "load" /\ \A j \in SourceIds : ~Subscribed(proc[s], j)
  BY <1>1, Newcomer, OffIs
<1> QED
  BY <1>1, <1>2, HomeReady, SubscribeKeeps

LEMMA AnswerKeeps ==
    ASSUME CoreInv, NEW s \in Readers, P!Answer(s)
    PROVE  CoreInv'
<1>1. /\ proc[s].pc = "got" /\ kind' = kind /\ current' = current /\ updates' = updates
      /\ s \in Procs /\ s \notin Loops
  BY Names DEF P!Answer
<1>2. ReaderOK(proc[s]) /\ ProcOK(proc[s]) /\ proc[s] \in ProcRecords
      /\ kind \in {"public", "monitor"} /\ updates' \in [Readers -> Results]
  BY <1>1 DEF CoreInv, ProcsInv, SnapType
<1>3. ASSUME ~proc[s].stream, proc' = [proc EXCEPT ![s] = P!Off], source' = source
      PROVE  CoreInv'
  BY <1>1, <1>2, <1>3, Ends DEF ReaderOK
<1>4. ASSUME NEW x \in {"release", "open"},
             x = "release" => kind = "public" /\ proc[s].stream, x = "open" => kind = "monitor",
             proc' = [proc EXCEPT ![s].pc = x, ![s].res = "none"], source' = source
      PROVE  CoreInv'
  <2> DEFINE c == [proc[s] EXCEPT !.pc = x, !.res = "none"]
  <2>1. proc' = [proc EXCEPT ![s] = c]
    BY <1>4
  <2>2. c \in ProcRecords /\ c.pc = x /\ c.src = proc[s].src /\ c.stop = proc[s].stop
        /\ c.stream = proc[s].stream /\ c.res = "none"
    BY <1>2 DEF ProcRecords, ReaderPlaces, Results
  <2> HIDE DEF c
  <2> QED
    BY <1>1, <1>2, <1>4, <2>1, <2>2, Moves DEF ReaderPlaces, Results
<1>5. ASSUME kind = "public", P!subscribeLocked(s, proc[s].src, source[proc[s].src], "open")
      PROVE  CoreInv'
  <2>1. proc[s].src = current /\ current # 0
    BY <1>1, <1>2, <1>5, Names DEF ProcOK
  <2>2. \A j \in SourceIds : ~Subscribed(proc[s], j)
    BY <1>1, <1>5 DEF Subscribed
  <2> QED
    BY <1>1, <1>5, <2>1, <2>2, CurrentReady, SubscribeKeeps
<1> QED
  BY <1>3, <1>4, <1>5 DEF P!Answer

\* A subscriber leaves; the last one stops the loop.
LEMMA UnsubscribeKeeps ==
    ASSUME CoreInv, NEW s \in Readers, P!Unsubscribe(s),
           kind = "monitor" \/ proc[s].pc = "open", proc[s].pc # "off"
    PROVE  CoreInv' /\ (kind = "public" => proc'[s].stream = proc[s].stream)
           /\ \A t \in Readers \ {s} : proc'[t] = proc[t]
<1> DEFINE i == proc[s].src
           rec == source[i]
           n == P!Without(s, rec)
           last == n.subs = {}
           c == IF kind = "public" THEN [proc[s] EXCEPT !.pc = "release"] ELSE P!Off
           stopped == [proc EXCEPT ![s] = c]
<1>0. SnapType /\ ProcsInv /\ SubsInv /\ LoopsInv /\ LoadsInv
  BY DEF CoreInv
<1>1. s \in Procs /\ s \notin Loops /\ (\A l \in Loops : l \in Procs /\ l # s)
      /\ (\A t \in Readers : t \in Procs /\ t \notin Loops)
  BY Names
<1>2. i \in SourceIds /\ rec \in SourceRecords /\ proc[s] \in ProcRecords
      /\ ReaderOK(proc[s]) /\ ProcOK(proc[s]) /\ kind \in {"public", "monitor"}
  BY <1>0, <1>1, ProcFacts DEF SnapType
<1>3. s \in rec.subs /\ current = i /\ rec.loopRunning
  BY <1>0, <1>2 DEF SubsInv, Subscribed
<1>4. /\ n \in SourceRecords /\ n.subs = rec.subs \ {s} /\ n.load = rec.load
      /\ n.loopRunning = rec.loopRunning
      /\ n.loopStop = IF last THEN Nobody ELSE rec.loopStop
      /\ n.canceled => rec.canceled \/ (kind = "monitor" /\ last)
  BY <1>2 DEF P!Without, SourceRecords
<1>5. /\ kind' = kind /\ source' = [source EXCEPT ![i] = n]
      /\ current' = IF kind = "monitor" /\ last THEN 0 ELSE current
      /\ updates' = [updates EXCEPT ![s] = "none"]
      /\ proc' = IF last /\ rec.loopStop # Nobody
                 THEN [stopped EXCEPT ![rec.loopStop].stop = TRUE] ELSE stopped
  BY <1>3 DEF P!Unsubscribe, P!dropIdle
<1>6. /\ c \in ProcRecords /\ ~c.stop /\ c.res # "canceled"
      /\ kind = "public" => c.pc = "release" /\ c.src = i /\ c.stream = proc[s].stream
      /\ kind = "monitor" => c = P!Off /\ c.pc = "off" /\ c.src = 0
  BY <1>2, OffIs DEF ProcRecords, ReaderPlaces, ReaderOK
<1> HIDE DEF n, c
<1>7. /\ stopped \in [Procs -> ProcRecords] /\ stopped[s] = c
      /\ \A g \in Procs \ {s} : stopped[g] = proc[g]
  BY <1>0, <1>1, <1>6 DEF SnapType
<1> HIDE DEF stopped
<1>8. /\ proc' \in [Procs -> ProcRecords] /\ proc'[s] = c
      /\ \A t \in Readers \ {s} : proc'[t] = proc[t]
      /\ \A l \in Loops :
            /\ proc'[l].pc = proc[l].pc /\ proc'[l].src = proc[l].src
            /\ proc'[l].res = proc[l].res /\ proc'[l].stream = proc[l].stream
            /\ proc'[l].stop = (proc[l].stop \/ (last /\ rec.loopStop = l))
            /\ proc[l].pc = "off" => proc'[l] = proc[l]
  <2>1. CASE last /\ rec.loopStop # Nobody
    <3> DEFINE k == rec.loopStop
               d == [stopped[k] EXCEPT !.stop = TRUE]
    <3>1. k \in Loops /\ k \in Procs /\ k # s /\ Runs(proc[k], i)
      BY <1>0, <1>1, <1>2, <2>1 DEF SourceRecords, LoopsInv
    <3>2. proc' = [stopped EXCEPT ![k] = d]
      BY <1>5, <2>1
    <3>3. stopped[k] = proc[k] /\ proc[k] \in ProcRecords
      BY <1>0, <1>7, <3>1 DEF SnapType
    <3>4. d \in ProcRecords /\ d.pc = proc[k].pc /\ d.src = proc[k].src /\ d.res = proc[k].res
          /\ d.stream = proc[k].stream /\ d.stop
      BY <3>3 DEF ProcRecords
    <3> HIDE DEF d
    <3>5. proc' \in [Procs -> ProcRecords] /\ proc'[k] = d
          /\ \A g \in Procs \ {k} : proc'[g] = stopped[g]
      BY <1>7, <3>1, <3>2, <3>4
    <3>6. proc[k].pc # "off"
      BY <3>1 DEF Runs
    <3>7. \A l \in Loops : proc[l].stop \in BOOLEAN
      BY <1>0, <1>1 DEF SnapType, ProcRecords
    <3>8. \A l \in Loops \ {k} : proc'[l] = proc[l]
      BY <1>1, <1>7, <3>5
    <3>9. \A t \in Readers : t # k
      BY <1>1, <3>1
    <3>10. proc'[s] = c /\ \A t \in Readers \ {s} : proc'[t] = proc[t]
      BY <1>1, <1>7, <3>5, <3>9
    <3>11. \A l \in Loops \ {k} : proc'[l].stop = (proc[l].stop \/ (last /\ rec.loopStop = l))
      BY <3>7, <3>8
    <3>12. proc'[k].stop = (proc[k].stop \/ (last /\ rec.loopStop = k))
      BY <1>0, <2>1, <3>1, <3>4, <3>5 DEF SnapType, ProcRecords
    <3> HIDE DEF k
    <3> QED
      BY <3>1, <3>4, <3>5, <3>6, <3>8, <3>10, <3>11, <3>12
  <2>2. CASE ~(last /\ rec.loopStop # Nobody)
    <3>1. proc' = stopped
      BY <1>5, <2>2
    <3>2. \A l \in Loops : proc'[l] = proc[l] /\ ~(last /\ rec.loopStop = l)
      BY <1>1, <1>7, <2>2, <3>1, Names
    <3>3. \A l \in Loops : proc[l].stop \in BOOLEAN
      BY <1>0, <1>1 DEF SnapType, ProcRecords
    <3> QED
      BY <1>1, <1>7, <3>1, <3>2, <3>3
  <2> QED  BY <2>1, <2>2
<1>9. source'[i] = n /\ \A j \in SourceIds \ {i} : source'[j] = source[j]
  BY <1>0, <1>2, <1>5 DEF SnapType
<1>10. SnapType'
  <2>1. current' \in 0 .. MaxSources
    BY <1>0, <1>5, SnapshotsAssumption DEF SnapType
  <2>2. updates' \in [Readers -> Results]
    BY <1>0, <1>5 DEF SnapType, Results
  <2>3. source' \in [SourceIds -> SourceRecords]
    BY <1>0, <1>4, <1>5 DEF SnapType
  <2> QED  BY <1>2, <1>5, <1>8, <2>1, <2>2, <2>3 DEF SnapType
<1>11. \A g \in Procs : proc[g].res = "canceled" => proc[g].src # 0
  BY <1>0, OffIs, Names DEF ProcsInv, ProcOK
<1>12. ProcsInv'
  <2>1. ASSUME NEW g \in Procs, g # s PROVE ProcOK(proc[g])'
    <3>1. ProcOK(proc[g]) /\ (g \in Readers \/ g \in Loops)
      BY <1>0, Names DEF ProcsInv
    <3>2. proc'[g].pc = proc[g].pc /\ proc'[g].src = proc[g].src
          /\ proc'[g].res = proc[g].res /\ (proc[g].pc = "off" => proc'[g] = proc[g])
      BY <1>8, <2>1, <3>1
    <3> QED
      BY <1>5, <1>11, <3>1, <3>2 DEF ProcOK
  <2>2. ProcOK(proc[s])'
    BY <1>2, <1>3, <1>5, <1>6, <1>8 DEF ProcOK
  <2>3. \A t \in Readers \ {s} : ReaderOK(proc[t])'
    <3>1. \A t \in Readers : ReaderOK(proc[t])
      BY <1>0 DEF ProcsInv
    <3>2. kind' = kind /\ \A t \in Readers \ {s} : proc'[t] = proc[t]
      BY <1>5, <1>8
    <3> QED  BY <3>1, <3>2 DEF ReaderOK
  <2>4. ReaderOK(proc[s])'
    BY <1>2, <1>5, <1>6, <1>8 DEF ReaderOK, ReaderPlaces
  <2>5. \A l \in Loops : LoopOK(proc[l])'
    BY <1>0, <1>8 DEF ProcsInv, LoopOK
  <2> QED  BY <2>1, <2>2, <2>3, <2>4, <2>5 DEF ProcsInv
<1>13. SubsInv'
  <2>1. \A j \in SourceIds : ~Subscribed(c, j)
    BY <1>2, <1>6, Names DEF Subscribed
  <2>2. \A j \in SourceIds \ {i} : source[j].subs = {}
    BY <1>0, <1>3 DEF SubsInv
  <2>3. \A j \in SourceIds, t \in Readers : t \in source'[j].subs <=> Subscribed(proc'[t], j)
    <3> SUFFICES ASSUME NEW j \in SourceIds, NEW t \in Readers
                 PROVE  t \in source'[j].subs <=> Subscribed(proc'[t], j)
      OBVIOUS
    <3>1. t \in source[j].subs <=> Subscribed(proc[t], j)
      BY <1>0 DEF SubsInv
    <3>2. CASE t = s
      BY <1>4, <1>8, <1>9, <2>1, <2>2, <3>2
    <3>3. CASE t # s
      BY <1>4, <1>8, <1>9, <3>1, <3>3
    <3> QED  BY <3>2, <3>3
  <2>4. \A j \in SourceIds : source'[j].subs # {} => source'[j].loopRunning /\ current' = j
    BY <1>3, <1>4, <1>5, <1>9, <2>2
  <2>5. \A j \in SourceIds : kind = "monitor" /\ current' = j => source'[j].subs # {}
    BY <1>3, <1>5, <1>9, Names
  <2> QED
    BY <1>5, <2>3, <2>4, <2>5 DEF SubsInv, Subscribed
<1>14. LoopsInv'
  <2>1. \A j \in SourceIds, l \in Loops : Runs(proc'[l], j) <=> Runs(proc[l], j)
    BY <1>8 DEF Runs
  <2>2. \A j \in SourceIds : source'[j].loopRunning = source[j].loopRunning
    BY <1>4, <1>9
  <2>3. \A j \in SourceIds, l \in Loops : source'[j].loopStop = l => source[j].loopStop = l
    BY <1>4, <1>9, Names
  <2>4. ASSUME NEW j \in SourceIds, NEW l \in Loops, Runs(proc'[l], j), ~proc'[l].stop
        PROVE  source'[j].loopStop = l
    <3>1. ~proc[l].stop /\ ~(last /\ rec.loopStop = l)
      BY <1>8, <2>4
    <3>2. source[j].loopStop = l
      BY <1>0, <2>1, <2>4, <3>1 DEF LoopsInv
    <3> QED  BY <1>4, <1>9, <3>1, <3>2
  <2>5. \A j \in SourceIds : source'[j].subs = {} => source'[j].loopStop = Nobody
    <3>1. \A j \in SourceIds : source[j].subs = {} => source[j].loopStop = Nobody
      BY <1>0 DEF LoopsInv
    <3> QED  BY <1>4, <1>9, <3>1
  <2>6. \A j \in SourceIds, l \in Loops : source'[j].loopStop = l => Runs(proc'[l], j)
    BY <1>0, <2>1, <2>3 DEF LoopsInv
  <2>7. /\ \A j \in SourceIds, l \in Loops : Runs(proc'[l], j) => source'[j].loopRunning
        /\ \A j \in SourceIds : source'[j].loopRunning => \E l \in Loops : Runs(proc'[l], j)
        /\ \A j \in SourceIds, k, l \in Loops : Runs(proc'[k], j) /\ Runs(proc'[l], j) => k = l
    BY <1>0, <2>1, <2>2 DEF LoopsInv
  <2> QED
    BY <2>4, <2>5, <2>6, <2>7 DEF LoopsInv, Runs
<1>15. LoadsInv'
  <2>1. ASSUME NEW g \in Procs, proc'[g].pc = "load"
        PROVE  source'[proc'[g].src].load = g
    <3>1. g # s /\ (g \in Readers \/ g \in Loops)
      BY <1>2, <1>6, <1>8, <2>1, Names
    <3>2. proc[g].pc = "load" /\ proc'[g].src = proc[g].src
      BY <1>8, <2>1, <3>1
    <3>3. source[proc[g].src].load = g /\ proc[g].src \in SourceIds
      BY <3>2, ProcFacts
    <3> QED  BY <1>4, <1>9, <3>2, <3>3
  <2>2. \A j \in SourceIds : source'[j].canceled => kind = "monitor" /\ current' # j
    <3>1. \A j \in SourceIds : source[j].canceled => kind = "monitor" /\ current # j
      BY <1>0 DEF LoadsInv
    <3> QED  BY <1>2, <1>3, <1>4, <1>5, <1>9, <3>1, Names
  <2> QED  BY <1>5, <2>1, <2>2 DEF LoadsInv
<1> QED
  BY <1>6, <1>8, <1>10, <1>12, <1>13, <1>14, <1>15 DEF CoreInv

LEMMA LeaveKeeps ==
    ASSUME CoreInv, NEW s \in Readers, P!Leave(s)
    PROVE  CoreInv'
BY UnsubscribeKeeps DEF P!Leave

LEMMA GiveUpKeeps ==
    ASSUME CoreInv, NEW s \in Readers, P!GiveUp(s)
    PROVE  CoreInv'
<1>1. CASE kind = "monitor" /\ P!Unsubscribe(s)
  BY <1>1, UnsubscribeKeeps DEF P!GiveUp
<1>2. CASE kind = "public" /\ ~proc[s].stream
  BY <1>2, Ends DEF P!GiveUp
<1>3. CASE kind = "public" /\ proc[s].stream
  <2> DEFINE c == [proc[s] EXCEPT !.pc = "release"]
  <2>1. /\ proc[s].pc = "join" /\ proc' = [proc EXCEPT ![s] = c]
        /\ kind' = kind /\ current' = current /\ source' = source /\ updates' = updates
    BY <1>3 DEF P!GiveUp
  <2>2. c \in ProcRecords /\ c.pc = "release" /\ c.src = proc[s].src /\ c.stop = proc[s].stop
        /\ c.stream = proc[s].stream /\ c.res = proc[s].res
    BY ProcFacts, Names DEF ProcRecords, ReaderPlaces
  <2> HIDE DEF c
  <2> QED
    BY <1>3, <2>1, <2>2, Releasing
<1> QED
  BY <1>1, <1>2, <1>3 DEF P!GiveUp

-----------------------------------------------------------------------------
(* The places of an address *)

LEMMA PlacesStay ==
    ASSUME PlacesInv, kind' = kind, byIP' = byIP,
           kind = "public" => \A t \in Readers : proc'[t].stream = proc[t].stream
    PROVE  PlacesInv'
<1>1. Places' = Places
  BY DEF Places
<1> QED  BY <1>1 DEF PlacesInv

\* A goroutine that reads keeps its place.
LEMMA GetPlaces ==
    ASSUME CoreInv, PlacesInv, NEW g \in Procs, P!Get(g)
    PROVE  PlacesInv'
<1>1. kind' = kind /\ byIP' = byIP
  BY DEF P!Get, P!GetCached, P!GetLoad, P!LoadDone
<1>2. \A h \in Procs : h \in DOMAIN proc /\ proc[h] \in ProcRecords
  BY DEF CoreInv, SnapType
<1>3. ASSUME NEW h \in Procs PROVE proc'[h].stream = proc[h].stream
  <2>0. h \in DOMAIN proc /\ proc[h] \in ProcRecords /\ h \in P!Procs
    BY <1>2 DEF Procs
  <2>1. CASE P!GetCached(g)
    BY <2>0, <2>1 DEF P!GetCached, ProcRecords
  <2>2. CASE P!GetLoad(g)
    BY <2>0, <2>2 DEF P!GetLoad, P!Goto, ProcRecords
  <2>3. CASE P!LoadDone(g)
    <3>1. PICK r : proc'[h] = [proc[h] EXCEPT !.pc = "got", !.res = r] \/ proc'[h] = proc[h]
      BY <2>0, <2>3 DEF P!LoadDone
    <3> QED  BY <2>0, <3>1 DEF ProcRecords
  <2> QED  BY <2>1, <2>2, <2>3 DEF P!Get
<1> QED
  BY <1>1, <1>3, PlacesStay, Names

LEMMA LoopPlace ==
    ASSUME CoreInv, PlacesInv, NEW l \in Loops, P!LoopStep(l)
    PROVE  PlacesInv'
<1>1. kind' = kind /\ byIP' = byIP
  BY DEF P!LoopStep, P!Tick, P!Stopped, P!Broadcast, P!Exit
<1>2. \A t \in Readers : t # l /\ t \in DOMAIN proc
  BY Names DEF CoreInv, SnapType
<1>3. \A t \in Readers : proc'[t] = proc[t]
  BY <1>2 DEF P!LoopStep, P!Tick, P!Stopped, P!Broadcast, P!Exit, P!Goto
<1> QED  BY <1>1, <1>3, PlacesStay

\* A stream takes a place and gives it back; nothing else changes who has one.
LEMMA ReaderPlace ==
    ASSUME CoreInv, PlacesInv, NEW s \in Readers,
           \/ P!acquire(s) \/ P!Preview(s) \/ P!MonitorStream(s) \/ P!GiveUp(s)
           \/ P!Answer(s) \/ P!Deliver(s) \/ P!Leave(s) \/ P!Release(s)
    PROVE  PlacesInv'
<1>1. /\ s \in DOMAIN proc /\ proc[s] \in ProcRecords /\ ReaderOK(proc[s])
      /\ kind \in {"public", "monitor"} /\ \A t \in Readers : t \in DOMAIN proc
  BY Names DEF CoreInv, SnapType, ProcsInv
<1>2. IsFiniteSet(Places) /\ Cardinality(Places) \in Nat
  <2>1. Places \subseteq Readers
    BY DEF Places
  <2> QED  BY <2>1, SnapshotsAssumption, FS_Subset, FS_CardinalityType
<1>3. CASE P!acquire(s)
  <2> DEFINE c == [P!Off EXCEPT !.pc = "get", !.src = P!Home, !.stream = TRUE]
  <2>1. /\ kind = "public" /\ kind' = kind /\ byIP' = byIP + 1 /\ ~P!Alive(s)
        /\ proc' = [proc EXCEPT ![s] = c]
    BY <1>3 DEF P!acquire
  <2>2. ~proc[s].stream /\ c.stream
    BY <2>1, Newcomer, OffIs DEF P!Off
  <2> HIDE DEF c
  <2>3. proc'[s] = c /\ \A t \in Readers \ {s} : proc'[t] = proc[t]
    BY <1>1, <2>1
  <2>4. Places' = Places \cup {s} /\ s \notin Places
    BY <2>1, <2>2, <2>3 DEF Places
  <2> QED
    BY <1>2, <2>1, <2>4, FS_AddElement DEF PlacesInv
<1>4. CASE P!Release(s)
  <2>1. kind = "public" /\ proc[s].stream
    BY <1>1, <1>4 DEF P!Release, ReaderOK
  <2>2. kind' = kind /\ byIP' = byIP - 1 /\ proc' = [proc EXCEPT ![s] = P!Off]
    BY <1>4 DEF P!Release
  <2>3. proc'[s] = P!Off /\ \A t \in Readers \ {s} : proc'[t] = proc[t]
    BY <1>1, <2>2
  <2>4. Places' = Places \ {s} /\ s \in Places
    BY <2>1, <2>2, <2>3, OffIs DEF Places
  <2> QED
    BY <1>2, <2>2, <2>4, FS_RemoveElement DEF PlacesInv
<1>5. CASE P!Preview(s)
  <2> DEFINE c == [P!Off EXCEPT !.pc = "get", !.src = P!Home]
  <2>1. kind' = kind /\ byIP' = byIP /\ ~P!Alive(s) /\ proc' = [proc EXCEPT ![s] = c]
    BY <1>5 DEF P!Preview
  <2>2. c.stream = proc[s].stream
    BY <2>1, Newcomer DEF P!Off
  <2> HIDE DEF c
  <2>3. \A t \in Readers : proc'[t].stream = proc[t].stream
    BY <1>1, <2>1, <2>2
  <2> QED  BY <2>1, <2>3, PlacesStay
<1>6. CASE P!MonitorStream(s)
  BY <1>6, PlacesStay DEF P!MonitorStream
<1>7. CASE P!Deliver(s)
  BY <1>7, PlacesStay DEF P!Deliver
<1>8. ASSUME P!Unsubscribe(s), kind = "monitor" \/ proc[s].pc = "open", proc[s].pc # "off"
      PROVE  PlacesInv'
  <2>1. \A t \in Readers : kind = "public" => proc'[t].stream = proc[t].stream
    BY <1>8, UnsubscribeKeeps
  <2>2. kind' = kind /\ byIP' = byIP
    BY <1>8 DEF P!Unsubscribe
  <2> QED  BY <2>1, <2>2, PlacesStay
<1>9. CASE P!Leave(s)
  BY <1>8, <1>9 DEF P!Leave
<1>10. CASE P!GiveUp(s)
  <2>1. CASE kind = "public"
    <3>1. kind' = kind /\ byIP' = byIP
      BY <1>10, <2>1 DEF P!GiveUp
    <3>2. proc' = [proc EXCEPT ![s] = IF proc[s].stream THEN [proc[s] EXCEPT !.pc = "release"]
                                      ELSE P!Off]
      BY <1>10, <2>1 DEF P!GiveUp
    <3>3. proc'[s].stream = proc[s].stream
      BY <1>1, <3>2, OffIs DEF ProcRecords
    <3>4. \A t \in Readers : proc'[t].stream = proc[t].stream
      BY <1>1, <3>2, <3>3
    <3> QED  BY <3>1, <3>4, PlacesStay
  <2> QED  BY <1>1, <1>8, <1>10, <2>1 DEF P!GiveUp
<1>11. CASE P!Answer(s)
  <2>1. kind' = kind /\ byIP' = byIP /\ current' = current /\ updates' = updates
        /\ proc[s].pc = "got"
    BY <1>11 DEF P!Answer
  <2>2. CASE kind = "monitor"
    BY <2>1, <2>2, PlacesStay
  <2>3. CASE kind = "public"
    <3>1. ASSUME ~proc[s].stream, proc' = [proc EXCEPT ![s] = P!Off]
          PROVE  \A t \in Readers : proc'[t].stream = proc[t].stream
      BY <1>1, <3>1, OffIs DEF ProcRecords
    <3>2. ASSUME proc' = [proc EXCEPT ![s].pc = "release", ![s].res = "none"]
          PROVE  \A t \in Readers : proc'[t].stream = proc[t].stream
      BY <1>1, <3>2 DEF ProcRecords
    <3>3. ASSUME proc[s].stream, P!subscribeLocked(s, proc[s].src, source[proc[s].src], "open")
          PROVE  \A t \in Readers : proc'[t].stream = proc[t].stream
      <4>1. proc[s].src = current /\ current # 0
        BY <2>1, <2>3, Names DEF CoreInv, ProcsInv, ProcOK
      <4>2. \A j \in SourceIds : ~Subscribed(proc[s], j)
        BY <2>1, <2>3 DEF Subscribed
      <4>3. proc'[s].stream /\ \A t \in Readers \ {s} : proc'[t] = proc[t]
        BY <2>1, <2>3, <3>3, <4>1, <4>2, CurrentReady, SubscribeKeeps
      <4>4. proc'[s].stream \in BOOLEAN
        <5>1. CoreInv'
          BY <1>11, AnswerKeeps
        <5> QED  BY <5>1, Names DEF CoreInv, SnapType, ProcRecords
      <4> QED  BY <1>1, <3>3, <4>3, <4>4 DEF ProcRecords
    <3> QED
      BY <1>11, <2>1, <2>3, <3>1, <3>2, <3>3, PlacesStay DEF P!Answer
  <2> QED  BY <1>1, <2>2, <2>3
<1> QED
  BY <1>3, <1>4, <1>5, <1>6, <1>7, <1>9, <1>10, <1>11

-----------------------------------------------------------------------------
LEMMA SnapStep == SnapInv /\ [P!Next]_snapVars => SnapInv'
<1> SUFFICES ASSUME SnapInv, [P!Next]_snapVars PROVE SnapInv'
  OBVIOUS
<1>0. CoreInv /\ PlacesInv
  BY DEF SnapInv
<1>1. ASSUME NEW s \in Readers,
             \/ P!acquire(s) \/ P!Preview(s) \/ P!MonitorStream(s) \/ P!GiveUp(s)
             \/ P!Answer(s) \/ P!Deliver(s) \/ P!Leave(s) \/ P!Release(s)
      PROVE  SnapInv'
  <2>1. PlacesInv'
    BY <1>0, <1>1, ReaderPlace
  <2>2. CoreInv'
    BY <1>0, <1>1, ComesKeeps, MonitorStreamKeeps, GiveUpKeeps, AnswerKeeps, DeliverKeeps,
       LeaveKeeps, ReleaseKeeps
  <2> QED  BY <2>1, <2>2 DEF SnapInv
<1>2. ASSUME NEW l \in Loops, P!LoopStep(l) PROVE SnapInv'
  BY <1>0, <1>2, LoopPlace, LoopKeeps, ExitKeeps DEF SnapInv, P!LoopStep
<1>3. ASSUME NEW g \in Procs, P!Get(g) PROVE SnapInv'
  BY <1>0, <1>3, GetPlaces, GetCachedKeeps, GetLoadKeeps, LoadDoneKeeps DEF SnapInv, P!Get
<1>4. CASE P!CacheExpires
  <2>1. kind' = kind /\ byIP' = byIP /\ proc' = proc
    BY <1>4 DEF P!CacheExpires
  <2> QED  BY <1>0, <1>4, <2>1, CacheExpiresKeeps, PlacesStay DEF SnapInv
<1>5. CASE UNCHANGED snapVars
  <2>1. /\ kind' = kind /\ current' = current /\ source' = source /\ proc' = proc
        /\ updates' = updates /\ byIP' = byIP
    BY <1>5 DEF snapVars
  <2>2. CoreInv' = CoreInv /\ PlacesInv' = PlacesInv
    BY <2>1 DEF CoreInv, SnapType, ProcsInv, SubsInv, LoopsInv, LoadsInv, PlacesInv, Places,
                ProcOK, ReaderOK, LoopOK, Subscribed, Runs
  <2> QED  BY <1>0, <2>2 DEF SnapInv
<1> QED
  BY <1>1, <1>2, <1>3, <1>4, <1>5 DEF P!Next, Loops, Procs

\* The readers of a team share its source: one loop, one query, nobody left
\* without a loop or given a canceled result, and every place accounted for; for
\* any number of readers, sources and loops, of the public page and of the
\* monitor (subscribe, unsubscribe, run and get of both snapshot.go).
THEOREM SourcesAreShared == P!Spec => []SourceIsShared
<1>1. SnapInv /\ [P!Next]_(P!snapVars) => SnapInv'
  BY SnapStep DEF snapVars, P!snapVars
<1> QED
  BY SnapInit, SnapShares, <1>1, PTL DEF P!Spec

\* The same in the composition that the run explores.
THEOREM StatusesShareSources == MCSpec => []SourceIsShared
<1>1. MCInit => P!Init
  BY DEF MCInit
<1>2. [MCNext]_<<part, vars, snapVars>> => [P!Next]_(P!snapVars)
  BY DEF MCNext, snapVars, P!snapVars
<1>3. MCSpec => P!Spec
  BY <1>1, <1>2, PTL DEF MCSpec, P!Spec
<1> QED
  BY <1>3, SourcesAreShared, PTL
=============================================================================
