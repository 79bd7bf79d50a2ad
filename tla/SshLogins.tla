------------------------------ MODULE SshLogins ------------------------------
(***************************************************************************)
(* The login monitor of an SSH server (internal/connect/ssh/login.go): a   *)
(* connection of its own on which a script lists recent logins every       *)
(* interval.  The script reads the login records behind a cursor, or runs  *)
(* `last` when it cannot (no utmpdump, or a record is just being written). *)
(* What the previous listing did not hold is reported.                     *)
(*                                                                         *)
(* Logins are numbered in the order they happen; a login's key (user, tty, *)
(* address, time) is its number: the keys of both listings are comparable, *)
(* down to the minute at least.  The record file holds a run of numbers.   *)
(***************************************************************************)
EXTENDS Integers, FiniteSets, Sequences

CONSTANTS
    MaxLogins,      \* bound: logins on the server
    MaxClock,       \* bound: the server's clock, in units of the overlap
    Own,            \* logins that come from the hub itself
    WtmpOverlap,    \* loginWtmpOverlap
    WtmpTail,       \* records the script reads without a cursor
    LastLines       \* loginLastLines

VARIABLES
    host,       \* the server: tools, record file, times of its logins, clock
    prober,     \* loginProber and the state of loginMonitor.run
    report      \* how often each login was reported, the last login before
                \* the baseline, and the listings used (history)

sshVars == <<host, prober, report>>

SinceOverlap == 1       \* loginSinceOverlap, in ticks of the clock

\* client: the connection; cursor: wtmpRecords; poll: lastPollAt (0 if not
\* known); snapshot and seeded: the baseline; on: run has not returned.
NewProber == [on |-> TRUE, client |-> FALSE, cursor |-> 0, poll |-> 0,
              snapshot |-> {}, seeded |-> FALSE]
NewReport == [times |-> [l \in 1..MaxLogins |-> 0], base |-> 0,
              used |-> {}]

Init ==
    /\ \E u \in BOOLEAN, d \in BOOLEAN, c \in BOOLEAN :
           host = [utmpdump |-> u, last |-> d, date |-> c, first |-> 1,
                   times |-> << >>, writing |-> FALSE, clock |-> 1]
    /\ prober = [NewProber EXCEPT !.on = FALSE]
    /\ report = NewReport

-----------------------------------------------------------------------------
(* The server, outside the hub *)

Latest == Len(host.times)
Total == Latest - host.first + 1

\* A login appends a record in two writes; the clock ticks; the file is
\* replaced by an empty one.
LoginBegins ==
    /\ ~host.writing /\ Latest < MaxLogins
    /\ host' = [host EXCEPT !.writing = TRUE]
LoginEnds ==
    /\ host.writing
    /\ host' = [host EXCEPT !.writing = FALSE, !.times = Append(@, host.clock)]
Tick ==
    /\ host.clock < MaxClock
    /\ host' = [host EXCEPT !.clock = @ + 1]
Rotate ==
    /\ ~host.writing /\ Total > 0
    /\ host' = [host EXCEPT !.first = Latest + 1]

Server == /\ LoginBegins \/ LoginEnds \/ Tick \/ Rotate
          /\ UNCHANGED <<prober, report>>

-----------------------------------------------------------------------------
(* linux_logins.sh *)

Newest(L, n) == {l \in L : Cardinality({m \in L : m > l}) < n}

\* probe_wtmp: the records behind the cursor; without one, or with one beyond
\* the end of the file, the tail of the file.
probe_wtmp(since) ==
    LET skip == IF since <= 0 \/ since > Total
                THEN IF Total > WtmpTail THEN Total - WtmpTail ELSE 0
                ELSE since
    IN  (host.first + skip) .. Latest

\* probe_last: the newest lines, from a time on when one is given.  The script
\* tries `last` with fewer and fewer options until one works: a `last` that
\* does not know -s lists from the start each time, as on a host without
\* `date`.  That the same host changes from one to the other is left out.
probe_last(since) ==
    Newest({l \in host.first .. Latest : host.times[l] >= since}, LastLines)

CanReadWtmp == host.utmpdump /\ ~host.writing
Available == CanReadWtmp \/ host.last

-----------------------------------------------------------------------------
(* loginProber and loginMonitor.run *)

sinceRecords == IF prober.cursor <= WtmpOverlap THEN 0 ELSE prober.cursor - WtmpOverlap
sinceEpoch == IF prober.poll = 0 THEN 0 ELSE prober.poll - SinceOverlap

\* ConnectSSH starts a monitor with each connection; its context may end at
\* any time.
StartMonitor ==
    /\ ~prober.on
    /\ prober' = NewProber
    /\ report' = NewReport
    /\ UNCHANGED host

StopMonitor ==
    /\ prober.on
    /\ prober' = [prober EXCEPT !.on = FALSE, !.client = FALSE]
    /\ UNCHANGED <<host, report>>

\* A connection and the shell on it that runs the script; a failure is retried
\* later, a permanent host key error ends run.
Dial ==
    /\ prober.on /\ ~prober.client
    /\ prober' = [prober EXCEPT !.client = TRUE]
    /\ UNCHANGED <<host, report>>

\* probe fails or times out: the connection goes, baseline and cursors stay.
ProbeFails ==
    /\ prober.on /\ prober.client
    /\ prober' = [prober EXCEPT !.client = FALSE]
    /\ UNCHANGED <<host, report>>

ProbeUnavailable ==
    /\ prober.on /\ prober.client /\ ~Available
    /\ prober' = [prober EXCEPT !.on = FALSE, !.client = FALSE]
    /\ UNCHANGED <<host, report>>

\* Variant for mutation: the snapshot keeps only what was fresh.
diffForgetsKnown(prev, current) ==
    [fresh |-> current \ (prev \cup Own), snapshot |-> current \ prev]

\* diffLoginSessions: what the previous snapshot did not hold; the snapshot
\* is replaced.
diffLoginSessions(prev, current) ==
    [fresh |-> current \ (prev \cup Own), snapshot |-> current]

\* A cursor is kept when the script did not report one, a clock is not.
Probed(sessions, used) ==
    LET d == diffLoginSessions(prober.snapshot, sessions)
        fresh == IF prober.seeded THEN d.fresh ELSE {}
    IN  /\ prober' = [prober EXCEPT
               !.cursor = IF used = "wtmp" /\ Total > 0 THEN Total ELSE @,
               !.poll = IF host.date THEN host.clock ELSE 0,
               !.snapshot = d.snapshot, !.seeded = TRUE]
        /\ report' = [report EXCEPT
               !.times = [l \in 1..MaxLogins |-> IF l \in fresh THEN @[l] + 1 ELSE @[l]],
               !.base = IF prober.seeded THEN @ ELSE Latest,
               !.used = @ \cup {used}]
        /\ UNCHANGED host

\* A successful probe and the report it leads to.
Probe ==
    /\ prober.on /\ prober.client /\ Available
    /\ IF CanReadWtmp THEN Probed(probe_wtmp(sinceRecords), "wtmp")
       ELSE Probed(probe_last(sinceEpoch), "last")

Next ==
    \/ Server \/ StartMonitor \/ StopMonitor \/ Dial \/ Probe
    \/ ProbeFails \/ ProbeUnavailable

Spec == Init /\ [][Next]_sshVars

-----------------------------------------------------------------------------
(* Properties *)

Once == \A l \in 1..MaxLogins :
    /\ report.times[l] <= 1
    /\ l <= report.base => report.times[l] = 0

\* A monitor that lists logins in one way reports none of them twice, and
\* none that happened before its first listing, whatever the overlap of two
\* listings, the failures between them and the rotations of the file.
SshLoginOnce == Cardinality(report.used) <= 1 => Once

\* The same of every monitor, as the comments of the prober promise: "session
\* keys discard repeated entries".
SessionKeysDiscardRepeats == Once
=============================================================================
