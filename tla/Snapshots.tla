----------------------------- MODULE Snapshots -----------------------------
(***************************************************************************)
(* The shared snapshots of a team: internal/app/api/public/snapshot.go     *)
(* with its streams (public/sse.go) and its one-off requests               *)
(* (public/preview.go), and internal/app/api/server/monitor/snapshot.go    *)
(* with its streams (monitor/list.go).  The two are near copies; kind says *)
(* which of them a behaviour runs.  Readers of one team share a source:    *)
(* one query at a time, and one loop that polls while anyone subscribes.   *)
(*                                                                         *)
(* Every section under the source's mu (and the manager's, which is taken  *)
(* around it) is a step.  A goroutine is a request (Readers) or a polling  *)
(* loop; both call get.  Snapshots are abstracted to how their query ended,*)
(* and names of loops and sources that are gone are used again.            *)
(***************************************************************************)
EXTENDS Integers, FiniteSets, FiniteSetsExt

CONSTANTS
    Readers,     \* requests served at one time, of one client address
    MaxSources,  \* bound: sources of the team that exist at one time
    MaxLoops,    \* bound: loops that run at one time
    StreamLimit, \* publicSSEIPLimit
    Nobody       \* the nil load, loopStop

SourceIds == 1 .. MaxSources
Loops == 1 .. MaxLoops
Procs == Readers \cup Loops

VARIABLES
    kind,    \* "public" or "monitor"
    current, \* manager.sources[teamID], 0 when absent
    source,  \* the fields of every source
    proc,    \* what every goroutine does: pc, src, the result it holds, the stop
             \* channel of a loop, and whether a request is a stream
    updates, \* the channel of each subscriber, one slot
    byIP     \* publicSSELimiter.byIP of the address

snapVars == <<kind, current, source, proc, updates, byIP>>

Off == [pc |-> "off", src |-> 0, res |-> "none", stop |-> FALSE, stream |-> FALSE]
NewSource == [subs |-> {}, loopRunning |-> FALSE, loopStop |-> Nobody,
              load |-> Nobody, canceled |-> FALSE, cache |-> "none"]

Init ==
    /\ kind \in {"public", "monitor"}
    /\ current = 0
    /\ source = [i \in SourceIds |-> NewSource]
    /\ proc = [g \in Procs |-> Off]
    /\ updates = [s \in Readers |-> "none"]
    /\ byIP = 0

-----------------------------------------------------------------------------
(* Names *)

Alive(g) == proc[g].pc # "off"
FreeSources == {i \in SourceIds : i # current /\ \A g \in Procs : proc[g].src # i}
FreeLoops == {l \in Loops : ~Alive(l)}

\* manager.source, sourceLocked: the source of the team, made when there is none.
Found == current # 0 \/ FreeSources # {}
Home == IF current # 0 THEN current ELSE Min(FreeSources)
HomeSource == IF current # 0 THEN source[current] ELSE NewSource

Goto(g, pc) == proc' = [proc EXCEPT ![g].pc = pc]

-----------------------------------------------------------------------------
(* get, refresh, loadResult *)

\* Only the loop of the monitor passes the cache by (refresh).
useCache(g) == g \in Readers \/ kind = "public"

\* The cached result is younger than the ttl.
GetCached(g) ==
    LET i == proc[g].src IN
    /\ proc[g].pc = "get" /\ useCache(g) /\ source[i].cache # "none"
    /\ proc' = [proc EXCEPT ![g].pc = "got", ![g].res = source[i].cache]
    /\ UNCHANGED <<kind, current, source, updates, byIP>>

\* Another goroutine's query is under way and is waited for, or the caller
\* becomes the one that queries.
GetLoad(g) ==
    LET i == proc[g].src IN
    /\ proc[g].pc = "get" /\ (useCache(g) => source[i].cache = "none")
    /\ IF source[i].load # Nobody
       THEN Goto(g, "join") /\ UNCHANGED source
       ELSE /\ source' = [source EXCEPT ![i].load = g, ![i].canceled = FALSE]
            /\ Goto(g, "load")
    /\ UNCHANGED <<kind, current, updates, byIP>>

\* How the query may end: slots taken, timeout and errors of the databases are
\* "err"; after loadCancel it may have been finished already.
Outcomes(i) == {"ok", "err"} \cup (IF source[i].canceled THEN {"canceled"} ELSE {})

\* The public source remembers a failure for the ttl too, the monitor's does not.
Remembered(r, old) == IF r = "ok" THEN "ok" ELSE IF kind = "public" THEN "err" ELSE old

\* The query has ended: its result is cached and handed to all who wait for it.
LoadDone(g) ==
    LET i == proc[g].src IN
    /\ proc[g].pc = "load"
    /\ \E r \in Outcomes(i) :
          /\ source' = [source EXCEPT ![i].cache = Remembered(r, @),
                                      ![i].load = Nobody, ![i].canceled = FALSE]
          /\ proc' = [h \in Procs |->
                        IF h = g \/ (proc[h].pc = "join" /\ proc[h].src = i)
                        THEN [proc[h] EXCEPT !.pc = "got", !.res = r]
                        ELSE proc[h]]
    /\ UNCHANGED <<kind, current, updates, byIP>>

\* time.Since(loadedAt) >= ttl.  Nobody reads the cache of a source that the
\* manager has forgotten.
CacheExpires ==
    /\ current # 0 /\ source[current].cache # "none"
    /\ source' = [source EXCEPT ![current].cache = "none"]
    /\ UNCHANGED <<kind, current, proc, updates, byIP>>

-----------------------------------------------------------------------------
(* Subscriptions *)

\* subscribeLocked on source i, whose fields are rec: starts the loop unless one
\* runs.  The subscriber goes on at pc.
subscribeLocked(s, i, rec, pc) ==
    LET l == Min(FreeLoops)
        mine == [proc EXCEPT ![s] = [Off EXCEPT !.pc = pc, !.src = i, !.stream = TRUE]]
    IN  /\ rec.loopRunning \/ FreeLoops # {}
        /\ IF rec.loopRunning
           THEN /\ source' = [source EXCEPT ![i] = [rec EXCEPT !.subs = @ \cup {s}]]
                /\ proc' = mine
           ELSE /\ source' = [source EXCEPT ![i] =
                     [rec EXCEPT !.subs = @ \cup {s}, !.loopRunning = TRUE, !.loopStop = l]]
                /\ proc' = [mine EXCEPT ![l] = [Off EXCEPT !.pc = "wait", !.src = i]]

\* Variant for mutation: the leaving subscriber also declares the loop ended.
WithoutLoop(s, rec) ==
    LET left == rec.subs \ {s} IN
    IF left # {} THEN [rec EXCEPT !.subs = left]
    ELSE [rec EXCEPT !.subs = left, !.loopStop = Nobody, !.loopRunning = FALSE,
                     !.canceled = @ \/ (kind = "monitor" /\ rec.load # Nobody)]

\* The subscriber leaves; the last one closes the stop channel of the loop, and
\* of the monitor also cancels the query.
Without(s, rec) ==
    LET left == rec.subs \ {s} IN
    IF left # {} THEN [rec EXCEPT !.subs = left]
    ELSE [rec EXCEPT !.subs = left, !.loopStop = Nobody,
                     !.canceled = @ \/ (kind = "monitor" /\ rec.load # Nobody)]

\* The manager of the monitor forgets an idle source.
dropIdle(i, left) ==
    current' = IF kind = "monitor" /\ left = {} /\ current = i THEN 0 ELSE current

\* The unsubscribe function, run once when the handler returns.
Unsubscribe(s) ==
    LET i == proc[s].src
        rec == source[i]
        left == Without(s, rec)
        stopped == [proc EXCEPT ![s] = IF kind = "public" THEN [@ EXCEPT !.pc = "release"] ELSE Off]
    IN  /\ source' = [source EXCEPT ![i] = left]
        /\ proc' = IF left.subs = {} /\ rec.loopStop # Nobody
                   THEN [stopped EXCEPT ![rec.loopStop].stop = TRUE] ELSE stopped
        /\ dropIdle(i, left.subs)
        /\ updates' = [updates EXCEPT ![s] = "none"]
        /\ UNCHANGED <<kind, byIP>>

-----------------------------------------------------------------------------
(* The polling loop: run and broadcast *)

\* A tick; select may choose it although the stop channel is closed as well.
Tick(l) ==
    /\ proc[l].pc = "wait"
    /\ Goto(l, "get")
    /\ UNCHANGED <<kind, current, source, updates, byIP>>

Stopped(l) ==
    /\ proc[l].pc = "wait" /\ proc[l].stop
    /\ Goto(l, "exit")
    /\ UNCHANGED <<kind, current, source, updates, byIP>>

\* The loop of the monitor looks at its stop channel again; a full slot of a
\* subscriber is emptied before the result is put in.
Broadcast(l) ==
    /\ l \in Loops /\ proc[l].pc = "got"
    /\ IF kind = "monitor" /\ proc[l].stop
       THEN proc' = [proc EXCEPT ![l].pc = "exit", ![l].res = "none"] /\ UNCHANGED updates
       ELSE /\ proc' = [proc EXCEPT ![l].pc = "wait", ![l].res = "none"]
            /\ updates' = [s \in Readers |-> IF s \in source[proc[l].src].subs
                                             THEN proc[l].res ELSE updates[s]]
    /\ UNCHANGED <<kind, current, source, byIP>>

\* Variant for mutation: a loop that was stopped does not look for subscribers.
ExitForGood(l) ==
    /\ proc[l].pc = "exit"
    /\ proc' = [proc EXCEPT ![l] = Off]
    /\ source' = [source EXCEPT ![proc[l].src].loopRunning = FALSE]
    /\ UNCHANGED <<kind, current, updates, byIP>>

\* The deferred end of run: whoever subscribed meanwhile gets another loop.
Exit(l) ==
    LET i == proc[l].src
        again == source[i].subs # {}
    IN  /\ proc[l].pc = "exit"
        /\ source' = [source EXCEPT ![i].loopRunning = again,
                                    ![i].loopStop = IF again THEN l ELSE @]
        /\ proc' = [proc EXCEPT ![l] = IF again THEN [Off EXCEPT !.pc = "wait", !.src = i]
                                       ELSE Off]
        /\ UNCHANGED <<kind, current, updates, byIP>>

LoopStep(l) == Tick(l) \/ Stopped(l) \/ Broadcast(l) \/ Exit(l)

-----------------------------------------------------------------------------
(* Requests *)

\* The public stream takes one of the address's places and asks for a first
\* snapshot before it subscribes.
acquire(s) ==
    /\ kind = "public" /\ ~Alive(s) /\ Found
    /\ byIP < StreamLimit
    /\ byIP' = byIP + 1
    /\ current' = Home
    /\ source' = [source EXCEPT ![Home] = HomeSource]
    /\ proc' = [proc EXCEPT ![s] = [Off EXCEPT !.pc = "get", !.src = Home, !.stream = TRUE]]
    /\ UNCHANGED <<kind, updates>>

\* The data of the public page, without a stream.
Preview(s) ==
    /\ kind = "public" /\ ~Alive(s) /\ Found
    /\ current' = Home
    /\ source' = [source EXCEPT ![Home] = HomeSource]
    /\ proc' = [proc EXCEPT ![s] = [Off EXCEPT !.pc = "get", !.src = Home]]
    /\ UNCHANGED <<kind, updates, byIP>>

\* The stream of the monitor, its session checked, subscribes first.
MonitorStream(s) ==
    /\ kind = "monitor" /\ ~Alive(s) /\ Found
    /\ subscribeLocked(s, Home, HomeSource, "get")
    /\ current' = Home
    /\ UNCHANGED <<kind, updates, byIP>>

\* The client goes away while its request waits for another's query.
GiveUp(s) ==
    /\ proc[s].pc = "join"
    /\ \/ kind = "monitor" /\ Unsubscribe(s)
       \/ /\ kind = "public"
          /\ proc' = [proc EXCEPT ![s] = IF @.stream THEN [@ EXCEPT !.pc = "release"] ELSE Off]
          /\ UNCHANGED <<kind, current, source, updates, byIP>>

\* A request with its first result: a preview is answered, a public stream ends
\* on an error and else subscribes, a stream of the monitor opens anyway.
Answer(s) ==
    /\ s \in Readers /\ proc[s].pc = "got"
    /\ \/ /\ ~proc[s].stream
          /\ proc' = [proc EXCEPT ![s] = Off]
          /\ UNCHANGED source
       \/ /\ kind = "public" /\ proc[s].stream /\ proc[s].res # "ok"
          /\ proc' = [proc EXCEPT ![s].pc = "release", ![s].res = "none"]
          /\ UNCHANGED source
       \/ /\ kind = "public" /\ proc[s].stream /\ proc[s].res = "ok"
          /\ subscribeLocked(s, proc[s].src, source[proc[s].src], "open")
       \/ /\ kind = "monitor"
          /\ proc' = [proc EXCEPT ![s].pc = "open", ![s].res = "none"]
          /\ UNCHANGED source
    /\ UNCHANGED <<kind, current, updates, byIP>>

\* An open stream writes an update to its client.
Deliver(s) ==
    /\ proc[s].pc = "open" /\ updates[s] # "none"
    /\ updates' = [updates EXCEPT ![s] = "none"]
    /\ UNCHANGED <<kind, current, source, proc, byIP>>

\* The client is gone, the stream's lifetime is over or its session was revoked.
Leave(s) ==
    /\ proc[s].pc = "open" \/ (kind = "monitor" /\ proc[s].pc = "got")
    /\ Unsubscribe(s)

\* The deferred release of the address's place.
Release(s) ==
    /\ proc[s].pc = "release"
    /\ byIP' = byIP - 1
    /\ proc' = [proc EXCEPT ![s] = Off]
    /\ UNCHANGED <<kind, current, source, updates>>

Get(g) == GetCached(g) \/ GetLoad(g) \/ LoadDone(g)

Next ==
    \/ \E s \in Readers : \/ acquire(s) \/ Preview(s) \/ MonitorStream(s) \/ GiveUp(s)
                          \/ Answer(s) \/ Deliver(s) \/ Leave(s) \/ Release(s)
    \/ \E l \in Loops : LoopStep(l)
    \/ \E g \in Procs : Get(g)
    \/ CacheExpires

\* Goroutines run, queries end (their context has a timeout), tickers tick, and
\* select, which chooses at random, does not pass a closed stop channel by for
\* ever.  No client has to come, to read or to leave.
Fairness ==
    /\ \A s \in Readers : WF_snapVars(Get(s) \/ Answer(s) \/ Release(s))
    /\ \A l \in Loops : WF_snapVars(Get(l) \/ LoopStep(l)) /\ SF_snapVars(Stopped(l))

Spec == Init /\ [][Next]_snapVars /\ Fairness

-----------------------------------------------------------------------------
(* Properties *)

LoopsOf(i) == {l \in Loops : Alive(l) /\ proc[l].src = i}
LoadsOf(i) == {g \in Procs : proc[g].pc = "load" /\ proc[g].src = i}

\* Readers of a team share its source: a source never has two loops or two
\* queries; one with subscribers has a loop and is the one the manager gives
\* out; one without has none that goes on, and the monitor has forgotten it; no
\* subscriber is handed the result of a query canceled because nobody listened;
\* and the places of the address are those of its streams.
SourceIsShared ==
    /\ \A i \in SourceIds :
          /\ Cardinality(LoopsOf(i)) <= 1 /\ Cardinality(LoadsOf(i)) <= 1
          /\ source[i].subs # {} => LoopsOf(i) # {} /\ current = i
          /\ source[i].subs = {} => /\ \A l \in LoopsOf(i) : proc[l].stop
                                    /\ kind = "monitor" => current # i
          /\ \A s \in source[i].subs : "canceled" \notin {proc[s].res, updates[s]}
    /\ byIP = Cardinality({s \in Readers : kind = "public" /\ proc[s].stream})

Waits(s) == proc[s].pc = "join" \/ (proc[s].pc = "open" /\ updates[s] = "none")

\* Whoever stays subscribed gets another update, though the loop may have been
\* stopped for others just before, and whoever waits for a query gets its result
\* or gives up; and a loop that was stopped ends.
SubscribersAreServed ==
    /\ \A s \in Readers : Waits(s) ~> ~Waits(s)
    /\ \A l \in Loops : proc[l].stop ~> ~proc[l].stop
=============================================================================
