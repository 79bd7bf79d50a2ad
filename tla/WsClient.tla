------------------------------ MODULE WsClient ------------------------------
(***************************************************************************)
(* The reconnecting websocket client of pkg/ws/ws.go, with the callers the *)
(* agent gives it (agent/passive/run.go and terminal.go): a goroutine that *)
(* connects and then reads, one that sends, one that sends only while      *)
(* connected, and one that closes.                                         *)
(*                                                                         *)
(* Every section under c.mu is a step, and so is every dial, read, write   *)
(* and close of a connection, because they happen outside c.mu.            *)
(* Connections are pointers: only their identity counts, and a name nobody *)
(* holds any more is used again, so that the number of dials is not        *)
(* bounded.                                                                *)
(***************************************************************************)
EXTENDS Integers, FiniteSets

CONSTANTS
    Conns,      \* names for connections: more than can be held at one time
    None,       \* the nil pointer
    Reader,     \* the goroutine that calls Connect and then ReadMessage
    Sender,     \* the goroutine that calls SendMessage
    Watcher,    \* the goroutine that calls SendMessageIfConnected
    Closer,     \* any other goroutine that calls Close
    RetryLimits \* values of maxRetries a client may be configured with

Callers == {Reader, Sender, Watcher, Closer}

VARIABLES
    client,     \* the fields of Client
    caller,     \* what each goroutine is doing
    net         \* open: connections not closed on this side; dead: those that
                \* TCP knows to be broken; silent: those whose peer hangs while
                \* TCP is alive; refused: those the peer closed with a terminal
                \* close code

wsVars == <<client, caller, net>>

Rest == [pc |-> "idle", op |-> "none", conn |-> None, new |-> None,
         retries |-> 0, err |-> "ok"]

\* Only the hub's client of an active agent asks for pongs in time
\* (SetPongDeadline); the agent's own clients read without a deadline.
Init ==
    /\ \E n \in RetryLimits, pong \in BOOLEAN :
          /\ pong => n = 0
          /\ client = [conn |-> None, closed |-> FALSE, connecting |-> FALSE,
                       ctx |-> "nil", call |-> FALSE, terminalErr |-> "ok",
                       maxRetries |-> n, pongWait |-> pong, writeMu |-> None]
    /\ caller = [p \in Callers |-> Rest]
    /\ net = [open |-> {}, dead |-> {}, silent |-> {}, refused |-> {}]

-----------------------------------------------------------------------------
(* Pointers and small helpers *)

HeldConns == {client.conn} \cup {caller[p].conn : p \in Callers}
                           \cup {caller[p].new : p \in Callers} \cup net.open
NewConn == CHOOSE c \in Conns : c \notin HeldConns

At(p, pc) == caller[p].pc = pc
Goto(p, pc) == caller' = [caller EXCEPT ![p].pc = pc]

\* conn.Close: idempotent, and closing nil is skipped.
Shut(c) == net' = [open |-> net.open \ {c}, dead |-> net.dead \ {c},
                   silent |-> net.silent \ {c}, refused |-> net.refused \ {c}]

\* A connection on which reads and writes fail.
Broken(c) == c \notin net.open \/ c \in net.dead

\* A connection on which the next read fails: it is broken, or its peer is
\* silent and no pong extends the read deadline (setPongDeadline).
Failing(c) == Broken(c) \/ (client.pongWait /\ c \in net.silent)

stateError ==
    IF client.closed THEN "closed"
    ELSE IF client.ctx = "live" THEN "ok" ELSE "cancelled"

\* A call returns err to its caller.  passive.Run closes the client when
\* ReadMessage fails, and so do both goroutines of a terminal, whose client
\* never reconnects; the monitoring loop only logs.
Returned(p, err) ==
    LET c == caller[p]
        closes == err # "ok" /\ (c.op = "read"
                                 \/ (c.op = "send" /\ client.maxRetries = 0))
    IN [Rest EXCEPT !.pc = IF closes THEN "close" ELSE "idle",
                    !.op = IF closes THEN c.op ELSE "none"]

Return(p, err) == caller' = [caller EXCEPT ![p] = Returned(p, err)]

-----------------------------------------------------------------------------
(* connection: wait for a connection to use *)

StartConnect ==
    /\ At(Reader, "idle")
    /\ ~client.closed /\ ~client.connecting /\ client.ctx = "nil"
    /\ client' = [client EXCEPT !.ctx = "live", !.connecting = TRUE]
    /\ caller' = [caller EXCEPT ![Reader].op = "connect", ![Reader].pc = "dial"]
    /\ UNCHANGED net

StartRead ==
    /\ At(Reader, "idle")
    /\ ~client.closed /\ client.ctx # "nil"
    /\ caller' = [caller EXCEPT ![Reader].op = "read",
                                ![Reader].pc = "connection"]
    /\ UNCHANGED <<client, net>>

\* On a closed client this and every other call returns at once.
StartSend ==
    /\ At(Sender, "idle")
    /\ ~client.closed /\ client.ctx # "nil"
    /\ caller' = [caller EXCEPT ![Sender].op = "send",
                                ![Sender].pc = "connection"]
    /\ UNCHANGED <<client, net>>

connection(p) ==
    /\ At(p, "connection")
    /\ IF client.closed THEN Return(p, "closed")
       ELSE IF client.conn # None
       THEN caller' = [caller EXCEPT ![p].pc = "use", ![p].conn = client.conn]
       ELSE IF client.terminalErr # "ok" THEN Return(p, client.terminalErr)
       ELSE IF ~client.call \/ client.ctx = "nil"
       THEN Return(p, "closeSent")
       ELSE caller' = [caller EXCEPT ![p].pc = "await", ![p].conn = None,
                                     ![p].err = "pending"]
    /\ UNCHANGED <<client, net>>

\* What a finished or abandoned reconnect means to its caller: SendMessage
\* returns its write error, everybody else looks for a connection again.
Reconnected(p, err) ==
    IF err # "ok" THEN Returned(p, err)
    ELSE IF caller[p].op = "send" /\ caller[p].conn # None
    THEN Returned(p, "writeError")
    ELSE [Rest EXCEPT !.pc = "connection", !.op = caller[p].op]

AfterReconnect(p, err) == caller' = [caller EXCEPT ![p] = Reconnected(p, err)]

waitForReconnect(p) ==
    /\ At(p, "await")
    /\ \/ /\ caller[p].err # "pending"
          /\ AfterReconnect(p, caller[p].err)
       \/ /\ client.ctx # "live"
          /\ AfterReconnect(p, stateError)
    /\ UNCHANGED <<client, net>>

-----------------------------------------------------------------------------
(* reconnect: one goroutine dials, the others wait for it *)

\* Variant for mutation: whoever saw a failure starts a reconnect, whatever
\* connection has been installed since.
reconnectAnyway(p) ==
    /\ At(p, "reconnect")
    /\ UNCHANGED net
    /\ IF stateError # "ok" THEN /\ Return(p, stateError)
                                 /\ UNCHANGED client
       ELSE IF client.call
       THEN /\ caller' = [caller EXCEPT ![p].pc = "await",
                                        ![p].err = "pending"]
            /\ UNCHANGED client
       ELSE /\ client' = [client EXCEPT !.call = TRUE, !.conn = None]
            /\ caller' = [caller EXCEPT ![p].pc = "closeFailed"]

reconnect(p) ==
    LET failed == caller[p].conn IN
    /\ At(p, "reconnect")
    /\ UNCHANGED net
    /\ IF client.closed THEN /\ Return(p, "closed")
                             /\ UNCHANGED client
       ELSE IF client.ctx = "nil" THEN /\ Return(p, "closeSent")
                                       /\ UNCHANGED client
       ELSE IF client.call
       THEN /\ caller' = [caller EXCEPT ![p].pc = "await",
                                        ![p].err = "pending"]
            /\ UNCHANGED client
       ELSE IF client.conn # failed THEN /\ AfterReconnect(p, "ok")
                                         /\ UNCHANGED client
       ELSE IF client.terminalErr # "ok"
       THEN /\ Return(p, client.terminalErr)
            /\ UNCHANGED client
       ELSE /\ client' = [client EXCEPT !.call = TRUE, !.conn = None]
            /\ caller' = [caller EXCEPT ![p].pc = "closeFailed"]

CloseFailed(p) ==
    /\ At(p, "closeFailed")
    /\ Shut(caller[p].conn)
    /\ Goto(p, "retry")
    /\ UNCHANGED client

Exhausted(p) ==
    client.maxRetries >= 0 /\ caller[p].retries >= client.maxRetries

\* runReconnect gives up: no attempt is left, or its context ended during the
\* delay, or the client was closed before the dial.
GiveUp(p) ==
    /\ At(p, "retry")
    /\ Exhausted(p) \/ stateError # "ok"
    /\ caller' = [caller EXCEPT ![p].pc = "settle",
                    ![p].err = IF Exhausted(p) THEN "exhausted" ELSE stateError]
    /\ UNCHANGED <<client, net>>

\* The delay is over, onReconnect has refreshed the headers.
RetryDial(p) ==
    /\ At(p, "retry")
    /\ ~Exhausted(p)
    /\ stateError = "ok"
    /\ Goto(p, "dial")
    /\ UNCHANGED <<client, net>>

\* Publish(p, err, told): the outcome goes to p and to the waiting callers
\* that are told; close(call.done) wakes them all.
Publish(p, err, told) ==
    caller' = [q \in Callers |->
        IF q = p THEN Reconnected(p, err)
        ELSE IF q \in told THEN [caller[q] EXCEPT !.err = err]
        ELSE caller[q]]

Waiting == {q \in Callers : At(q, "await") /\ caller[q].err = "pending"}

\* Variant for mutation: the waiting callers are not told when the reconnect
\* succeeded.
SettleSilent(p) ==
    LET err == IF client.closed THEN "closed" ELSE caller[p].err IN
    /\ At(p, "settle")
    /\ client' = [client EXCEPT !.call = FALSE, !.terminalErr = err]
    /\ Publish(p, err, IF err = "ok" THEN {} ELSE Waiting)
    /\ UNCHANGED net

\* The end of reconnect: the outcome is published under c.mu.
Settle(p) ==
    LET err == IF client.closed THEN "closed" ELSE caller[p].err IN
    /\ At(p, "settle")
    /\ client' = [client EXCEPT !.call = FALSE, !.terminalErr = err]
    /\ Publish(p, err, Waiting)
    /\ UNCHANGED net

-----------------------------------------------------------------------------
(* dial, shared by Connect and runReconnect *)

\* dial returns err: Connect ends with it, runReconnect counts an attempt.
DialReturns(p, err) ==
    LET c == [caller[p] EXCEPT !.new = None, !.err = err] IN
    caller' = [caller EXCEPT ![p] =
        IF c.op = "connect" THEN [c EXCEPT !.pc = "connected"]
        ELSE IF err = "ok" THEN [c EXCEPT !.pc = "settle"]
        ELSE [c EXCEPT !.pc = "retry",
                       !.retries = IF client.maxRetries < 0 THEN 0 ELSE @ + 1]]

DialFails(p) ==
    /\ At(p, "dial")
    /\ DialReturns(p, IF stateError # "ok" THEN stateError ELSE "dialError")
    /\ UNCHANGED <<client, net>>

DialOpens(p) ==
    LET c == NewConn IN
    /\ At(p, "dial")
    /\ net' = [open |-> net.open \cup {c}, dead |-> net.dead \ {c},
               silent |-> net.silent \ {c}, refused |-> net.refused \ {c}]
    /\ caller' = [caller EXCEPT ![p].pc = "install", ![p].new = c]
    /\ UNCHANGED client

\* Under c.mu the new connection is installed, unless the client was closed
\* or its context ended while it was dialled.
Install(p) ==
    /\ At(p, "install")
    /\ IF stateError # "ok"
       THEN /\ Goto(p, "discard")
            /\ UNCHANGED <<client, net>>
       ELSE /\ client' = [client EXCEPT !.conn = caller[p].new]
            /\ Shut(client.conn)
            /\ DialReturns(p, "ok")

Discard(p) ==
    /\ At(p, "discard")
    /\ Shut(caller[p].new)
    /\ DialReturns(p, stateError)
    /\ UNCHANGED client

\* The end of Connect.
Connected(p) ==
    LET failed == caller[p].err # "ok" IN
    /\ At(p, "connected")
    /\ client' = [client EXCEPT !.connecting = FALSE,
                     !.ctx = IF failed /\ ~client.closed THEN "nil" ELSE @]
    /\ Return(p, IF client.closed THEN "closed" ELSE caller[p].err)
    /\ UNCHANGED net

-----------------------------------------------------------------------------
(* ReadMessage and SendMessage on the connection they got *)

ReadOk(p) ==
    /\ At(p, "use") /\ caller[p].op = "read"
    /\ ~Broken(caller[p].conn) /\ caller[p].conn \notin net.refused \cup net.silent
    /\ Return(p, "ok")
    /\ UNCHANGED <<client, net>>

ReadFails(p) ==
    /\ At(p, "use") /\ caller[p].op = "read"
    /\ Failing(caller[p].conn)
    /\ Goto(p, "reconnect")
    /\ UNCHANGED <<client, net>>

\* The peer's close frame carries a terminal code: the stream is over.
ReadRefused(p) ==
    LET c == caller[p].conn IN
    /\ At(p, "use") /\ caller[p].op = "read"
    /\ c \in net.refused /\ ~Failing(c)
    /\ client' = IF client.conn = c
                 THEN [client EXCEPT !.conn = None, !.terminalErr = "refused"]
                 ELSE client
    /\ Goto(p, "closeRefused")
    /\ UNCHANGED net

CloseRefused(p) ==
    /\ At(p, "closeRefused")
    /\ Shut(caller[p].conn)
    /\ Return(p, "refused")
    /\ UNCHANGED client

\* writeMu is taken ...
SendLocks(p) ==
    /\ At(p, "use") /\ caller[p].op = "send"
    /\ client.writeMu = None
    /\ client' = [client EXCEPT !.writeMu = p]
    /\ Goto(p, "write")
    /\ UNCHANGED net

\* ... and held during WriteMessage.  A write to a peer that is gone may still
\* be accepted by the operating system, one to a silent peer may hang.
Writes(p) == At(p, "write") /\ client' = [client EXCEPT !.writeMu = None]
WriteFails(c) == Broken(c) \/ c \in net.refused

SendWrites(p) ==
    /\ Writes(p) /\ caller[p].op = "send"
    /\ \/ caller[p].conn \in net.open /\ Return(p, "ok")
       \/ WriteFails(caller[p].conn) /\ Goto(p, "reconnect")
    /\ UNCHANGED net

-----------------------------------------------------------------------------
(* SendMessageIfConnected *)

StartSendIfConnected ==
    /\ At(Watcher, "idle")
    /\ ~client.closed /\ client.conn # None /\ ~client.call
    /\ caller' = [caller EXCEPT ![Watcher].op = "sendIf",
                                ![Watcher].pc = "lock",
                                ![Watcher].conn = client.conn]
    /\ UNCHANGED <<client, net>>

\* writeMu is taken and the connection is looked at again.
Recheck(p) ==
    LET c == caller[p].conn IN
    /\ At(p, "lock")
    /\ client.writeMu = None
    /\ IF ~client.closed /\ client.conn = c /\ ~client.call
       THEN /\ client' = [client EXCEPT !.writeMu = p]
            /\ Goto(p, "write")
       ELSE /\ Return(p, "notConnected")
            /\ UNCHANGED client
    /\ UNCHANGED net

\* A failed write closes the connection, so that the reader wakes up.
WriteIfConnected(p) ==
    LET c == caller[p].conn IN
    /\ Writes(p) /\ caller[p].op = "sendIf"
    /\ \/ c \in net.open /\ UNCHANGED net
       \/ WriteFails(c) /\ Shut(c)
    /\ Return(p, "ok")

-----------------------------------------------------------------------------
(* Close, and what happens around the client *)

StartClose ==
    /\ At(Closer, "idle")
    /\ ~client.closed
    /\ caller' = [caller EXCEPT ![Closer].op = "close", ![Closer].pc = "close"]
    /\ UNCHANGED <<client, net>>

Close(p) ==
    /\ At(p, "close")
    /\ IF client.closed
       THEN /\ caller' = [caller EXCEPT ![p] = Rest]
            /\ UNCHANGED client
       ELSE /\ client' = [client EXCEPT !.closed = TRUE, !.connecting = FALSE,
                                        !.conn = None]
            /\ caller' = [caller EXCEPT ![p].pc = "closeConn",
                                        ![p].conn = client.conn]
    /\ UNCHANGED net

CloseConn(p) ==
    /\ At(p, "closeConn")
    /\ client' = [client EXCEPT !.ctx = IF @ = "live" THEN "cancelled" ELSE @]
    /\ Shut(caller[p].conn)
    /\ caller' = [caller EXCEPT ![p] = Rest]

\* The context given to Connect ends; the agent's main client, which reconnects
\* without a limit, is given one that never does.
ParentCancelled ==
    /\ client.ctx = "live"
    /\ client.maxRetries >= 0
    /\ client' = [client EXCEPT !.ctx = "cancelled"]
    /\ UNCHANGED <<caller, net>>

\* The network or the peer's host breaks a connection.
Break(c) ==
    /\ c \in net.open \ net.dead
    /\ net' = [net EXCEPT !.dead = @ \cup {c}, !.silent = @ \ {c}]
    /\ UNCHANGED <<client, caller>>

\* The peer of the installed connection hangs: it neither sends nor takes
\* anything any more.
Silence ==
    /\ client.conn \in net.open \ (net.dead \cup net.silent \cup net.refused)
    /\ net' = [net EXCEPT !.silent = @ \cup {client.conn}]
    /\ UNCHANGED <<client, caller>>

\* The peer closes the installed stream for good.  Only the hub's client of an
\* active agent's login stream has terminal close codes; it never reconnects.
Refuse ==
    /\ client.maxRetries = 0
    /\ client.conn \in net.open \ (net.dead \cup net.silent \cup net.refused)
    /\ net' = [net EXCEPT !.refused = @ \cup {client.conn}]
    /\ UNCHANGED <<client, caller>>

-----------------------------------------------------------------------------

\* The steps of a call under way, except a dial.
Step(p) ==
    \/ connection(p) \/ waitForReconnect(p) \/ reconnect(p) \/ CloseFailed(p)
    \/ GiveUp(p) \/ RetryDial(p) \/ Settle(p) \/ Install(p) \/ Discard(p)
    \/ Connected(p) \/ ReadOk(p) \/ ReadFails(p) \/ ReadRefused(p)
    \/ CloseRefused(p) \/ SendLocks(p) \/ SendWrites(p)
    \/ Recheck(p) \/ WriteIfConnected(p) \/ Close(p) \/ CloseConn(p)

Next ==
    \/ StartConnect \/ StartRead \/ StartSend \/ StartSendIfConnected
    \/ StartClose
    \/ \E p \in Callers : Step(p) \/ DialFails(p) \/ DialOpens(p)
    \/ ParentCancelled \/ Refuse \/ Silence
    \/ \E c \in Conns : Break(c)

\* Goroutines run, and Run's loop goes on reading; only a write to a silent
\* peer may never end.  A dial ends, and the hub is assumed to answer some dial
\* of a caller that never stops dialling.
Hung(p) == /\ At(p, "write")
           /\ caller[p].conn \in net.silent

Fairness ==
    /\ WF_wsVars(StartRead \/ Step(Reader))
    /\ \A p \in {Sender, Watcher, Closer} : WF_wsVars(Step(p) /\ ~Hung(p))
    /\ \A p \in {Reader, Sender} : SF_wsVars(DialOpens(p))

Spec == Init /\ [][Next]_wsVars /\ Fairness

-----------------------------------------------------------------------------
(* Properties *)

TypeOK ==
    /\ client \in [conn : Conns \cup {None}, closed : BOOLEAN,
                   connecting : BOOLEAN, ctx : {"nil", "live", "cancelled"},
                   call : BOOLEAN, maxRetries : RetryLimits,
                   terminalErr : {"ok", "closed", "cancelled", "exhausted",
                                  "refused"},
                   pongWait : BOOLEAN, writeMu : {None, Sender, Watcher}]
    /\ DOMAIN caller = Callers
    /\ \A p \in Callers : caller[p].conn \in Conns \cup {None}
                          /\ caller[p].new \in Conns \cup {None}
    /\ net.open \subseteq Conns

\* A connection that is open is the installed one or is in the hands of a
\* goroutine that will install or close it; in particular a client that was
\* closed, with no call under way, has left none open.  At most one goroutine
\* dials at a time.  (dial, reconnect, Close: ws.go.)
Dialling(p) == caller[p].pc \in {"dial", "install", "discard"}
Holds(p, c) ==
    \/ caller[p].new = c
    \/ caller[p].conn = c
       /\ caller[p].pc \in {"closeFailed", "closeRefused", "closeConn"}

ConnectionsOwned ==
    /\ \A c \in net.open : c = client.conn \/ \E p \in Callers : Holds(p, c)
    /\ client.closed => client.conn = None
    /\ Cardinality({p \in Callers : Dialling(p)}) <= 1

\* Once the client is closed, every call under way returns, a write that hangs
\* included, and every connection is closed for good.  While it is not closed,
\* a connection on which reads fail does not stay installed: one that TCP has
\* given up or, where pongs are asked for, one with a silent peer.  And an agent
\* that reconnects without a limit does not stay without a connection.  An
\* agent's connection to a hub that hangs while TCP is alive does stay: nothing
\* in the client notices it.  (waitForReconnect, SendMessageIfConnected's close
\* that wakes the reader, setPongDeadline, runReconnect: ws.go.)
Quiet == net.open = {} /\ \A p \in Callers : At(p, "idle")
Ended == client.closed \/ client.ctx # "live" \/ client.terminalErr # "ok"

ReconnectSettles ==
    /\ <>[](client.closed => Quiet)
    /\ []<>(client.conn # None => ~Failing(client.conn))
    /\ []<>(client.maxRetries = -1 => client.conn # None \/ Ended)
=============================================================================
