--------------------------- MODULE TerminalSession ---------------------------
(***************************************************************************)
(* Web terminals: a browser's websocket on the hub, the hub's link to the  *)
(* server, the agent's (or sshd's) end of that link and the shell behind   *)
(* it.  An SSH or active server is dialled by the hub; a passive one is    *)
(* asked over its main connection to dial back, while the browser's        *)
(* connection waits in a slot (internal/app/agent/connection/user.go) from *)
(* which the agent's connection takes it or a timer removes it.            *)
(*                                                                         *)
(* The goroutines that copy data end when either of their connections      *)
(* fails; the first to end closes everything on its side, one thing after  *)
(* the other, while the handler returns as soon as it learns of it.  Data, *)
(* window sizes and keep-alive pings are left out: a broken connection     *)
(* fails at some later time.                                               *)
(***************************************************************************)
EXTENDS FiniteSets

CONSTANTS
    Terms,      \* terminals; also the random session ids of the passive ones
    Kinds       \* kinds of server: "ssh", "active", "passive"

VARIABLES
    term,       \* the hub's part of each terminal
    slot,       \* sessionConnections: the sessions waiting for their agent
    remote      \* the agent's or sshd's part

termVars == <<term, slot, remote>>

\* pc: the handler of the browser's request; user, link: the hub's ends of the
\* two connections; relay: the handler of the agent's connection (passive
\* only); timer: sessionTimeout is running; done: the channel the handler
\* waits for is closed; clean: what the cleanup of a dialled terminal closes
\* next; live: the request's context; gone: what has ended the terminal from
\* outside.
Closed == [kind |-> "none", pc |-> "done", user |-> "none", link |-> "none",
           relay |-> "none", timer |-> FALSE, done |-> FALSE, clean |-> "none",
           live |-> FALSE, gone |-> {}]
Nobody == [pc |-> "none", conn |-> "none", shell |-> "none"]

Init ==
    /\ term = [t \in Terms |-> Closed]
    /\ slot = {}
    /\ remote = [t \in Terms |-> Nobody]

At(t, pc) == term[t].pc = pc
ssh(t) == term[t].kind = "ssh"
End(s) == IF s = "open" THEN "closed" ELSE s

\* The handler returns: its deferred cancel ends the context.
Finished(v) == [v EXCEPT !.pc = "done", !.live = FALSE]

\* closeUserSession: once, stop the timer, close the connection, close done,
\* in this order: nobody who learns of done finds the connection open.
closeUserSession(v) ==
    [v EXCEPT !.timer = FALSE, !.user = End(@), !.done = TRUE]

UserFails(t) == term[t].user = "closed" \/ "browser" \in term[t].gone
LinkFails(t) == \/ term[t].link = "closed" \/ "network" \in term[t].gone
                \/ remote[t].conn = "closed"

-----------------------------------------------------------------------------
(* ws: the request of the browser *)

\* GetTerminalInfo found the server, the connection is upgraded and the access
\* watch runs.  The slot of the session id is free: ids are random.
Open(t, k) ==
    /\ term[t].kind = "none"
    /\ term' = [term EXCEPT ![t] = [Closed EXCEPT
                   !.kind = k, !.user = "open", !.live = TRUE,
                   !.pc = IF k = "passive" THEN "lookup" ELSE "dial"]]
    /\ UNCHANGED <<slot, remote>>

\* WatchTeamSession reports that access was revoked or could not be checked.
Revoke(t) ==
    /\ term[t].live
    /\ term' = [term EXCEPT ![t].live = FALSE, ![t].gone = @ \cup {"revoked"}]
    /\ UNCHANGED <<slot, remote>>

\* terminalSSH and ConnectShell: the server is dialled.
DialOk(t) ==
    /\ At(t, "dial")
    /\ term' = [term EXCEPT ![t].pc = IF ssh(t) THEN "setup" ELSE "copy",
                            ![t].link = "open"]
    /\ remote' = [remote EXCEPT ![t] =
           [pc |-> IF ssh(t) THEN "session" ELSE "start",
            conn |-> "open", shell |-> "none"]]
    /\ UNCHANGED slot

DialFails(t) ==
    /\ At(t, "dial")
    /\ term' = [term EXCEPT ![t] = Finished([@ EXCEPT !.user = "closed"])]
    /\ UNCHANGED <<slot, remote>>

\* terminalSSH asks sshd for a session, a pty and a shell.  Nothing but the
\* connection ends this: the context is watched only afterwards.
SetupOk(t) ==
    /\ At(t, "setup")
    /\ ~LinkFails(t)
    /\ term' = [term EXCEPT ![t].pc = "copy"]
    /\ remote' = [remote EXCEPT ![t].shell = "running"]
    /\ UNCHANGED slot

SetupFails(t) ==
    /\ At(t, "setup")
    /\ term' = [term EXCEPT ![t] =
                   Finished([@ EXCEPT !.user = "closed", !.link = "closed"])]
    /\ UNCHANGED <<slot, remote>>

\* Variant for mutation: no goroutine waits for the context.
CopyEndsNoContext(t) == UserFails(t) \/ LinkFails(t)

\* One of the goroutines of a dialled terminal ends: a copy in either direction
\* failed, or the context ended.
CopyEnds(t) == UserFails(t) \/ LinkFails(t) \/ ~term[t].live

\* cleanup, once: ConnectShell closes done, then the link, then the browser's
\* connection; terminalSSH closes done last.
Cleanup(t) ==
    /\ At(t, "copy")
    /\ term[t].clean = "none"
    /\ CopyEnds(t)
    /\ term' = [term EXCEPT ![t].clean = IF ssh(t) THEN "link" ELSE "done"]
    /\ UNCHANGED <<slot, remote>>

CleanupDone(t) ==
    /\ term[t].clean = "done"
    /\ term' = [term EXCEPT ![t].done = TRUE,
                            ![t].clean = IF ssh(t) THEN "over" ELSE "link"]
    /\ UNCHANGED <<slot, remote>>

CleanupLink(t) ==
    /\ term[t].clean = "link"
    /\ term' = [term EXCEPT ![t].link = "closed", ![t].clean = "user"]
    /\ UNCHANGED <<slot, remote>>

CleanupUser(t) ==
    /\ term[t].clean = "user"
    /\ term' = [term EXCEPT ![t].user = "closed",
                            ![t].clean = IF ssh(t) THEN "done" ELSE "over"]
    /\ UNCHANGED <<slot, remote>>

\* The handler of a dialled terminal learns of done and returns; the link is
\* closed by its deferred calls, the browser's connection by terminalSSH's only.
CopyReturns(t) ==
    /\ At(t, "copy")
    /\ term[t].done
    /\ term' = [term EXCEPT ![t] = Finished([@ EXCEPT !.link = "closed",
                   !.user = IF ssh(t) THEN "closed" ELSE term[t].user])]
    /\ UNCHANGED <<slot, remote>>

-----------------------------------------------------------------------------
(* terminalPassive and the session slots *)

\* MainGet: the agent is connected or not.
Lookup(t, found) ==
    /\ At(t, "lookup")
    /\ term' = [term EXCEPT ![t] =
           IF found THEN [@ EXCEPT !.pc = "set"]
           ELSE Finished([@ EXCEPT !.user = "closed"])]
    /\ UNCHANGED <<slot, remote>>

UserSet(t) ==
    /\ At(t, "set")
    /\ slot' = slot \cup {t}
    /\ term' = [term EXCEPT ![t].pc = "request", ![t].timer = TRUE]
    /\ UNCHANGED remote

\* Variant for mutation: the session is closed even if it was taken.
removeAnySession(t, v) == closeUserSession(v)

\* removeUserSession, by the timer or by the deferred remove: only a session
\* that still waits is closed.
removeUserSession(t, v) == IF t \in slot THEN closeUserSession(v) ELSE v

\* The agent is asked to dial back.  The write fails, or reaches an agent that
\* serves terminals, or one that does not answer.
Request(t, outcome) ==
    /\ At(t, "request")
    /\ IF outcome = "error"
       THEN /\ term' = [term EXCEPT ![t] = Finished(
                           removeUserSession(t, [@ EXCEPT !.user = "closed"]))]
            /\ slot' = slot \ {t}
            /\ UNCHANGED remote
       ELSE /\ term' = [term EXCEPT ![t].pc = "wait"]
            /\ remote' = IF outcome = "asked"
                         THEN [remote EXCEPT ![t].pc = "called"] ELSE remote
            /\ UNCHANGED slot

\* The context ended: the session is removed and, taken or not, the browser's
\* connection is closed.
WaitCancelled(t) ==
    /\ At(t, "wait")
    /\ ~term[t].live
    /\ term' = [term EXCEPT ![t] =
           Finished([removeUserSession(t, @) EXCEPT !.user = "closed"])]
    /\ slot' = slot \ {t}
    /\ UNCHANGED remote

WaitDone(t) ==
    /\ At(t, "wait")
    /\ term[t].done
    /\ term' = [term EXCEPT ![t] = Finished(@)]
    /\ UNCHANGED <<slot, remote>>

\* The timer's callback; Stop does not hold back one that already fired.
Timeout(t) ==
    /\ term[t].timer
    /\ term' = [term EXCEPT ![t] = removeUserSession(t, [@ EXCEPT !.timer = FALSE])]
    /\ slot' = slot \ {t}
    /\ UNCHANGED remote

-----------------------------------------------------------------------------
(* terminal: the agent's connection for a session *)

\* The agent dials the hub (a client that never reconnects) and the hub
\* upgrades its connection.
AgentConnects(t) ==
    /\ remote[t].pc = "called"
    /\ remote' = [remote EXCEPT ![t].pc = "start", ![t].conn = "open"]
    /\ term' = [term EXCEPT ![t].link = "open", ![t].relay = "take"]
    /\ UNCHANGED slot

AgentConnectFails(t) ==
    /\ remote[t].pc = "called"
    /\ remote' = [remote EXCEPT ![t].pc = "none"]
    /\ UNCHANGED <<term, slot>>

\* UserTake under sessionMu.  A timer that fired but has not got the lock yet
\* finds the session gone.  (An agent of another server that names the session
\* is refused and its connection closed: nothing here changes.)
UserTake(t) ==
    /\ term[t].relay = "take"
    /\ IF t \in slot
       THEN /\ slot' = slot \ {t}
            /\ \E fired \in {FALSE, term[t].timer} :
                  term' = [term EXCEPT ![t].relay = "copy", ![t].timer = fired]
       ELSE /\ term' = [term EXCEPT ![t].relay = "done", ![t].link = "closed"]
            /\ UNCHANGED slot
    /\ UNCHANGED remote

\* A copying goroutine failed: close the agent's connection ...
RelayCleanup(t) ==
    /\ term[t].relay = "copy"
    /\ UserFails(t) \/ LinkFails(t)
    /\ term' = [term EXCEPT ![t].relay = "finish", ![t].link = "closed"]
    /\ UNCHANGED <<slot, remote>>

\* ... and finish the session, for which terminalPassive waits.
RelayFinish(t) ==
    /\ term[t].relay = "finish"
    /\ term' = [term EXCEPT ![t] = closeUserSession([@ EXCEPT !.relay = "done"])]
    /\ UNCHANGED <<slot, remote>>

-----------------------------------------------------------------------------
(* The agent: terminal (passive), handleTerminalWebSocket (active), sshd *)

RemoteFails(t) == \/ remote[t].conn = "closed" \/ "network" \in term[t].gone
                  \/ term[t].link = "closed"

StartShell(t, ok) ==
    /\ remote[t].pc = "start"
    /\ remote' = [remote EXCEPT ![t] =
           IF ok THEN [@ EXCEPT !.pc = "session", !.shell = "running"]
           ELSE [@ EXCEPT !.pc = "none", !.conn = "closed"]]
    /\ UNCHANGED <<term, slot>>

\* cleanup: the shell ended or the connection failed; session.Close kills the
\* shell and waits for it.
RemoteCleanup(t) ==
    /\ remote[t].pc = "session"
    /\ RemoteFails(t) \/ remote[t].shell = "exited"
    /\ remote' = [remote EXCEPT ![t] =
                     [pc |-> "none", conn |-> "closed", shell |-> "exited"]]
    /\ UNCHANGED <<term, slot>>

-----------------------------------------------------------------------------
(* What may happen to a terminal from outside *)

BrowserLeaves(t) ==
    /\ term[t].user = "open"
    /\ "browser" \notin term[t].gone
    /\ term' = [term EXCEPT ![t].gone = @ \cup {"browser"}]
    /\ UNCHANGED <<slot, remote>>

LinkBreaks(t) ==
    /\ term[t].link = "open"
    /\ "network" \notin term[t].gone
    /\ term' = [term EXCEPT ![t].gone = @ \cup {"network"}]
    /\ UNCHANGED <<slot, remote>>

\* The user leaves the shell, or the agent dies with all it runs.
ShellExits(t) ==
    /\ remote[t].shell = "running"
    /\ remote' = [remote EXCEPT ![t].shell = "exited"]
    /\ UNCHANGED <<term, slot>>

AgentDies(t) ==
    /\ remote[t].conn = "open"
    /\ remote' = [remote EXCEPT ![t] = [pc |-> "none", conn |-> "closed",
                    shell |-> IF @.shell = "none" THEN "none" ELSE "exited"]]
    /\ UNCHANGED <<term, slot>>

-----------------------------------------------------------------------------

\* The cleanup of a dialled terminal runs in a goroutine of its own.
CleanupGoesOn(t) == CleanupDone(t) \/ CleanupLink(t) \/ CleanupUser(t)

DialledStep(t) ==
    \/ DialOk(t) \/ DialFails(t) \/ SetupOk(t) \/ SetupFails(t)
    \/ Cleanup(t) \/ CopyReturns(t)

PassiveStep(t) ==
    \/ \E found \in BOOLEAN : Lookup(t, found)
    \/ UserSet(t)
    \/ \E o \in {"error", "asked", "unanswered"} : Request(t, o)
    \/ WaitCancelled(t) \/ WaitDone(t)

RelayStep(t) == UserTake(t) \/ RelayCleanup(t) \/ RelayFinish(t)

RemoteStep(t) ==
    \/ AgentConnects(t) \/ AgentConnectFails(t)
    \/ \E ok \in BOOLEAN : StartShell(t, ok)
    \/ RemoteCleanup(t)

\* What the hub and the agent do by themselves.
Step(t) == \/ DialledStep(t) \/ CleanupGoesOn(t) \/ PassiveStep(t)
           \/ RelayStep(t) \/ RemoteStep(t)

Next ==
    \E t \in Terms :
        \/ \E k \in Kinds : Open(t, k)
        \/ Step(t) \/ Timeout(t) \/ Revoke(t)
        \/ BrowserLeaves(t) \/ LinkBreaks(t) \/ ShellExits(t) \/ AgentDies(t)

\* Goroutines run, dials and writes end, a timer fires, and sshd answers the
\* requests that set up a session: terminalSSH gives them no deadline.
Fairness ==
    \A t \in Terms :
        /\ WF_termVars(DialledStep(t)) /\ WF_termVars(CleanupGoesOn(t))
        /\ WF_termVars(PassiveStep(t)) /\ WF_termVars(RelayStep(t))
        /\ WF_termVars(RemoteStep(t)) /\ WF_termVars(Timeout(t))

Spec == Init /\ [][Next]_termVars /\ Fairness

-----------------------------------------------------------------------------
(* Properties *)

Ends == {"none", "open", "closed"}

TypeOK ==
    /\ term \in [Terms -> [kind : Kinds \cup {"none"},
                           pc : {"dial", "setup", "copy", "lookup", "set", "request",
                                 "wait", "done"},
                           user : Ends, link : Ends,
                           relay : {"none", "take", "copy", "finish", "done"},
                           timer : BOOLEAN, done : BOOLEAN, live : BOOLEAN,
                           clean : {"none", "done", "link", "user", "over"},
                           gone : SUBSET {"revoked", "browser", "network"}]]
    /\ slot \subseteq Terms
    /\ remote \in [Terms -> [pc : {"none", "called", "start", "session"},
                             conn : Ends, shell : {"none", "running", "exited"}]]

\* A handler that has returned leaves no waiting session behind, and a browser
\* connection only to the cleanup that is about to close it (ConnectShell's,
\* which lets the handler return first), even when its session was taken by the
\* agent; and a terminal that is being relayed is closed only because access was
\* revoked, the browser left, the link broke or the agent's side ended, never by
\* the timer of the slot it was taken from.  (ConnectShell, terminalSSH,
\* terminalPassive, UserTake, removeUserSession.)
EndedOutside(t) == term[t].gone # {} \/ remote[t].conn = "closed"
CleanupCloses(t) == term[t].clean \in {"link", "user"}

TerminalOwned ==
    \A t \in Terms :
        /\ term[t].pc = "done" => t \notin slot
        /\ term[t].pc = "done" /\ term[t].user = "open" => CleanupCloses(t)
        /\ term[t].relay \in {"copy", "finish"} /\ term[t].user = "closed"
              => EndedOutside(t)

\* A terminal that ends at any of its ends ends at all of them: both
\* connections are closed, the shell is gone and the session waits no longer.
\* A session no agent takes is closed after its timeout.
Released(t) ==
    /\ term[t].pc = "done" /\ term[t].user # "open" /\ term[t].link # "open"
    /\ remote[t].conn # "open" /\ remote[t].shell # "running" /\ t \notin slot

Ending(t) ==
    \/ EndedOutside(t) \/ remote[t].shell = "exited"
    \/ term[t].user = "closed" \/ term[t].link = "closed" \/ t \in slot

TerminalEnds ==
    \A t \in Terms : []<>(Ending(t) => Released(t))
=============================================================================
