----------------------------- MODULE AgentLogins -----------------------------
(***************************************************************************)
(* Login events of an agent: the watcher that scans the login records of   *)
(* its host (agent/logins), the events it sends while it is connected, and *)
(* the hub's AgentReporter, which takes a bounded number of them per       *)
(* window, queues them and notifies the team if the server has an          *)
(* ssh_login rule (internal/loginnotify).                                  *)
(*                                                                         *)
(* Logins are numbered; the number stands for a record's key (user, tty,   *)
(* address, time).  One record is one unit of the file; the layout of the  *)
(* records is known once enough of them are complete.                      *)
(***************************************************************************)
EXTENDS Integers, Sequences, Functions

CONSTANTS
    MaxLogins,      \* bound: logins on the host
    MaxClock,       \* bound: the host's clock, in seconds
    MaxInodes,      \* bound: replacements of the file
    MaxSeen,        \* maxSeenKeys
    EvictCount,     \* maxSeenKeys / 4
    MaxPerReport    \* MaxLoginEventsPerReport = MaxEventsPerReport

VARIABLES
    disk,       \* the record file, and the times of all logins
    watch,      \* watcher and scanState
    hub,        \* the connection and its AgentReporter
    news        \* how often each login was notified, which keys were evicted,
                \* which logins the file held at startup (history)

agentVars == <<disk, watch, hub, news>>

NewWatch == [started |-> FALSE, startup |-> 0, minTime |-> 0, seeded |-> FALSE,
             seen |-> << >>, offset |-> 0, inode |-> 0, layout |-> FALSE,
             baseline |-> 0]
NewHub == [link |-> FALSE, wire |-> << >>, accepted |-> 0, queue |-> << >>,
           batch |-> << >>, cache |-> "expired", rule |-> FALSE]
NewNews == [count |-> [l \in 1..MaxLogins |-> 0], evicted |-> {}, base |-> {}]

Init ==
    /\ \E n \in 1..2 :
           disk = [inode |-> 1, recs |-> << >>, writing |-> FALSE,
                   times |-> << >>, clock |-> 1, need |-> n]
    /\ watch = NewWatch
    /\ hub = NewHub
    /\ news = NewNews

-----------------------------------------------------------------------------
(* The host *)

LoginBegins ==
    /\ ~disk.writing /\ Len(disk.times) < MaxLogins
    /\ disk' = [disk EXCEPT !.writing = TRUE]
LoginEnds ==
    /\ disk.writing
    /\ disk' = [disk EXCEPT !.writing = FALSE,
                            !.recs = Append(@, Len(disk.times) + 1),
                            !.times = Append(@, disk.clock)]
Tick ==
    /\ disk.clock < MaxClock
    /\ disk' = [disk EXCEPT !.clock = @ + 1]

\* The file is truncated, or replaced by one that keeps its last n records.
Truncate ==
    /\ ~disk.writing /\ disk.recs # << >>
    /\ disk' = [disk EXCEPT !.recs = << >>]
Replace(n) ==
    /\ ~disk.writing /\ disk.inode < MaxInodes
    /\ disk' = [disk EXCEPT !.inode = @ + 1,
                            !.recs = SubSeq(@, Len(@) - n + 1, Len(@))]

Host == /\ \/ LoginBegins \/ LoginEnds \/ Tick \/ Truncate
           \/ \E n \in 0 .. Len(disk.recs) : Replace(n)
        /\ UNCHANGED <<watch, hub, news>>

-----------------------------------------------------------------------------
(* scanState *)

\* evictOldest and the rest of ingest, for one record.
Ingest1(acc, l) ==
    IF l \in Range(acc.seen) THEN acc
    ELSE LET full == Len(acc.seen) >= MaxSeen
         IN  [seen |-> Append(IF full THEN SubSeq(acc.seen, EvictCount + 1, Len(acc.seen))
                              ELSE acc.seen, l),
              fresh |-> Append(acc.fresh, l),
              evicted |-> acc.evicted \cup
                  IF full THEN Range(SubSeq(acc.seen, 1, EvictCount)) ELSE {}]

\* ingest: the records that were not seen before, of those since a time; only
\* the seeding call returns none.
ingest(seen, records, since) ==
    LET acc[n \in 0 .. Len(records)] ==
            IF n = 0 THEN [seen |-> seen, fresh |-> << >>, evicted |-> {}]
            ELSE IF disk.times[records[n]] < since THEN acc[n - 1]
            ELSE Ingest1(acc[n - 1], records[n])
    IN  acc[Len(records)]

-----------------------------------------------------------------------------
(* watcher *)

\* utmpRotated: another file, or one that has become shorter.
utmpRotated == watch.inode # disk.inode \/ Len(disk.recs) < watch.offset

\* Variant for mutation: a rotation before the baseline was read leaves no
\* boundary, so that the new file is reported from its beginning.
RotatedForgetsStart(w) ==
    [w EXCEPT !.offset = 0, !.layout = FALSE, !.baseline = 0,
              !.seeded = @ \/ w.started]

\* Rotation starts over.  Before the baseline was read, the time of the first
\* scan takes its place.
Rotated(w) ==
    LET early == w.started /\ ~w.seeded
    IN  [w EXCEPT !.offset = 0, !.layout = FALSE, !.baseline = 0,
                  !.minTime = IF early THEN w.startup ELSE @,
                  !.seeded = @ \/ early]

\* parseUtmpRecords: the logins in the complete records behind an offset; a
\* record that is just being appended waits for the next scan.
parseUtmpRecords(offset) == SubSeq(disk.recs, offset + 1, Len(disk.recs))

\* detectUtmpLayout: the layout of the records is known already, or the data
\* leaves only one that fits.
detectUtmpLayout(w, data) == w.layout \/ Len(data) >= disk.need

\* The first scan that can read the file.
Started(w, data) ==
    IF w.started THEN w
    ELSE [w EXCEPT !.started = TRUE, !.startup = disk.clock, !.baseline = Len(data)]

\* The capped events of a scan, sent while connected and dropped otherwise.
Emit(fresh) ==
    LET capped == SubSeq(fresh, 1, IF Len(fresh) < MaxPerReport THEN Len(fresh)
                                   ELSE MaxPerReport)
    IN  hub' = [hub EXCEPT !.wire = IF hub.link THEN @ \o capped ELSE @]

\* scanPath: a file that cannot be read is tried again later (no change).
scanPath ==
    LET w0 == [IF utmpRotated THEN Rotated(watch) ELSE watch EXCEPT !.inode = disk.inode]
        data == parseUtmpRecords(w0.offset)
        w1 == Started(w0, data)
        known == detectUtmpLayout(w1, data)
        base == SubSeq(data, 1, IF w1.baseline < Len(data) THEN w1.baseline ELSE Len(data))
        seed == IF w1.seeded THEN [seen |-> w1.seen, evicted |-> {}] ELSE ingest(w1.seen, base, 0)
        rest == IF w1.seeded THEN data ELSE SubSeq(data, Len(base) + 1, Len(data))
        got == ingest(seed.seen, rest, w1.minTime)
    IN  /\ IF known
           THEN /\ watch' = [w1 EXCEPT !.layout = TRUE, !.seeded = TRUE, !.seen = got.seen,
                                       !.offset = @ + Len(data)]
                /\ Emit(got.fresh)
           ELSE /\ watch' = [w1 EXCEPT !.seeded = @ \/ (data = << >> /\ ~disk.writing)]
                /\ UNCHANGED hub
        /\ news' = [news EXCEPT
               !.base = IF watch.started THEN @ ELSE Range(data),
               !.evicted = IF known THEN @ \cup seed.evicted \cup got.evicted ELSE @]
        /\ UNCHANGED disk

\* A new process has a new watcher; what the hub still holds is lost with the
\* connection.
RestartAgent ==
    /\ watch.started
    /\ watch' = NewWatch
    /\ news' = NewNews
    /\ hub' = [NewHub EXCEPT !.rule = hub.rule]
    /\ UNCHANGED disk

-----------------------------------------------------------------------------
(* AgentReporter, one for each connection *)

\* The end of a connection cancels its reporter: queue and batch are dropped.
Connect ==
    /\ ~hub.link
    /\ hub' = [NewHub EXCEPT !.rule = hub.rule, !.link = TRUE]
    /\ UNCHANGED <<disk, watch, news>>
Disconnect ==
    /\ hub.link
    /\ hub' = [NewHub EXCEPT !.rule = hub.rule]
    /\ UNCHANGED <<disk, watch, news>>

\* submitAt: at most MaxPerReport events in a window, and no more than fit
\* into the queue.
submitAt ==
    /\ hub.wire # << >>
    /\ LET ok == hub.accepted < MaxPerReport /\ Len(hub.queue) < MaxPerReport
       IN  hub' = [hub EXCEPT !.wire = Tail(@),
                              !.queue = IF ok THEN Append(@, Head(hub.wire)) ELSE @,
                              !.accepted = IF ok THEN @ + 1 ELSE @]
    /\ UNCHANGED <<disk, watch, news>>

\* LoginReportInterval passes: a new window, and the cached lookups expire.
WindowEnds ==
    /\ hub.accepted > 0
    /\ hub' = [hub EXCEPT !.accepted = 0]
    /\ UNCHANGED <<disk, watch, news>>
CacheExpires ==
    /\ hub.cache # "expired"
    /\ hub' = [hub EXCEPT !.cache = "expired"]
    /\ UNCHANGED <<disk, watch, news>>

SetRule ==
    /\ hub' = [hub EXCEPT !.rule = ~@]
    /\ UNCHANGED <<disk, watch, news>>

\* The worker takes the queued events and looks the team and the rule up once
\* per interval; a lookup that fails counts as no rule.  Without a rule the
\* batch is dropped.
Drain ==
    /\ hub.batch = << >> /\ hub.queue # << >>
    /\ \E found \in {hub.rule, FALSE} :
           LET cache == IF hub.cache # "expired" THEN hub.cache
                        ELSE IF found THEN "on" ELSE "off"
           IN  hub' = [hub EXCEPT !.queue = << >>, !.cache = cache,
                                  !.batch = IF cache = "on" THEN hub.queue ELSE << >>]
    /\ UNCHANGED <<disk, watch, news>>

\* reportEnabledEvents: one event of the batch, logged and notified.
NotifyLogin ==
    /\ hub.batch # << >>
    /\ hub' = [hub EXCEPT !.batch = Tail(@)]
    /\ news' = [news EXCEPT !.count[Head(hub.batch)] = @ + 1]
    /\ UNCHANGED <<disk, watch>>

Next ==
    \/ Host \/ scanPath \/ RestartAgent \/ Connect \/ Disconnect \/ submitAt
    \/ WindowEnds \/ CacheExpires \/ SetRule \/ Drain \/ NotifyLogin

Spec == Init /\ [][Next]_agentVars

-----------------------------------------------------------------------------
(* Properties *)

\* A watcher's login is notified at most once, and not at all when it was
\* complete in the file before the watcher's first scan, whatever rotations
\* make it read again and even when the layout was not yet known then; only a
\* key that left the bounded window of seen keys may come back.  A login of the
\* very second of the first scan passes the filter on re-read records (>=) and
\* may be notified although it was there.
AgentLoginOnce ==
    \A l \in (1 .. Len(disk.times)) \ news.evicted :
        /\ news.count[l] <= 1
        /\ (l \in news.base /\ disk.times[l] < watch.startup) => news.count[l] = 0
=============================================================================
