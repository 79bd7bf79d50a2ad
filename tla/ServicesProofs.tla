--------------------------- MODULE ServicesProofs ---------------------------
(***************************************************************************)
(* Proofs about the components that MCServices composes.  Each invariant   *)
(* speaks of the variables of one component, and every step of MCServices  *)
(* is a step of that component or leaves its variables alone.              *)
(***************************************************************************)
EXTENDS MCServices, FiniteSetTheorems, TLAPS

-----------------------------------------------------------------------------
(* Web terminals *)

HubSides == [kind : Kinds \cup {"none"},
             pc : {"dial", "setup", "copy", "lookup", "set", "request", "wait", "done"},
             user : T!Ends, link : T!Ends,
             relay : {"none", "take", "copy", "finish", "done"},
             timer : BOOLEAN, done : BOOLEAN, live : BOOLEAN,
             clean : {"none", "done", "link", "user", "over"},
             gone : SUBSET {"revoked", "browser", "network"}]
FarSides == [pc : {"none", "called", "start", "session"},
             conn : T!Ends, shell : {"none", "running", "exited"}]

\* What holds of one terminal whose hub side is v and far side m, and which
\* waits in its slot or not.
Sound(t, v, m, S) ==
    /\ v \in HubSides /\ m \in FarSides
    \* a name that was never used is at rest
    /\ v.kind = "none" => v.user = "none" /\ v.relay = "none" /\ v.pc = "done"
    \* before the agent is asked there is neither an agent nor a relay, and the
    \* hub's handler holds an open browser connection that nobody is closing
    /\ v.pc \in {"dial", "setup", "copy", "lookup", "set", "request"} => v.relay = "none"
    /\ v.pc \in {"dial", "setup", "lookup", "set"}
          => v.user = "open" /\ v.clean = "none" /\ t \notin S
    /\ (v.pc \in {"dial", "lookup", "set", "request"} \/ v.kind = "none") => m = T!Nobody
    /\ v.pc \in {"setup", "copy"} => m.pc # "called" /\ t \notin S
    \* a waiting session is open, unrelayed, and its handler is there to remove it
    /\ t \in S => v.pc \in {"request", "wait"} /\ v.user = "open" /\ v.clean = "none"
                /\ v.relay \in {"none", "take"}
    \* whoever closes done has emptied the slot, and has closed the browser's
    \* connection or is about to
    /\ v.done => t \notin S /\ (v.user = "open" => v.clean \in {"link", "user"})
    /\ v.clean = "done" /\ v.kind = "ssh" => v.user # "open"
    \* only a dialled terminal has a cleanup
    /\ v.clean # "none" => /\ v.kind # "none" /\ v.pc \in {"copy", "done"}
                           /\ v.relay = "none" /\ m.pc # "called"
    \* a running handler's context ends only by revocation
    /\ v.pc # "done" => v.live \/ "revoked" \in v.gone
    \* TerminalOwned
    /\ v.pc = "done" /\ v.user = "open" => v.clean \in {"link", "user"}
    /\ v.relay \in {"copy", "finish"} /\ v.user = "closed" => v.gone # {} \/ m.conn = "closed"

TermInv ==
    /\ term \in [Terms -> HubSides] /\ remote \in [Terms -> FarSides]
    /\ \A t \in Terms : Sound(t, term[t], remote[t], slot)

LEMMA TermInit == T!Init => TermInv
<1> SUFFICES ASSUME T!Init PROVE TermInv
    OBVIOUS
<1>1. ASSUME NEW t PROVE Sound(t, T!Closed, T!Nobody, {})
    BY DEF Sound, T!Closed, T!Nobody, HubSides, FarSides, T!Ends
<1>2. T!Closed \in HubSides /\ T!Nobody \in FarSides
    BY DEF T!Closed, T!Nobody, HubSides, FarSides, T!Ends
<1> QED
    BY <1>1, <1>2 DEF TermInv, T!Init

LEMMA TermOwned == TermInv => TerminalOwned
<1> SUFFICES ASSUME TermInv, NEW t \in Terms
             PROVE  /\ term[t].pc = "done" => t \notin slot
                    /\ term[t].pc = "done" /\ term[t].user = "open" => T!CleanupCloses(t)
                    /\ term[t].relay \in {"copy", "finish"} /\ term[t].user = "closed"
                          => T!EndedOutside(t)
    BY DEF TerminalOwned, T!TerminalOwned
<1>1. Sound(t, term[t], remote[t], slot)
    BY DEF TermInv
<1> QED
    BY <1>1 DEF Sound, T!EndedOutside, T!CleanupCloses

\* A step on one terminal leaves the others alone.
LEMMA OneTerminal ==
    ASSUME TermInv, NEW t \in Terms, NEW v, NEW m,
           term' = [term EXCEPT ![t] = v], remote' = [remote EXCEPT ![t] = m],
           slot' \in {slot, slot \cup {t}, slot \ {t}},
           Sound(t, v, m, slot')
    PROVE  TermInv'
<1>1. term' \in [Terms -> HubSides] /\ remote' \in [Terms -> FarSides]
    BY DEF TermInv, Sound
<1>2. ASSUME NEW u \in Terms PROVE Sound(u, term[u], remote[u], slot)'
    <2>1. CASE u = t
        BY <2>1 DEF TermInv
    <2>2. CASE u # t
        <3>1. term'[u] = term[u] /\ remote'[u] = remote[u] /\ (u \in slot) = (u \in slot')
            BY <2>2 DEF TermInv
        <3>2. Sound(u, term[u], remote[u], slot)
            BY DEF TermInv
        <3> QED BY <3>1, <3>2 DEF Sound
    <2> QED BY <2>1, <2>2
<1> QED BY <1>1, <1>2 DEF TermInv

\* A step of the hub that the far side does not notice.
LEMMA HubStep ==
    ASSUME TermInv, NEW t \in Terms, NEW v,
           term' = [term EXCEPT ![t] = v], remote' = remote,
           slot' \in {slot, slot \cup {t}, slot \ {t}},
           Sound(t, v, remote[t], slot')
    PROVE  TermInv'
<1>1. remote' = [remote EXCEPT ![t] = remote[t]]
    BY DEF TermInv
<1> QED BY <1>1, OneTerminal

\* A step of the far side that the hub does not notice.
LEMMA FarStep ==
    ASSUME TermInv, NEW t \in Terms, NEW m,
           remote' = [remote EXCEPT ![t] = m], term' = term, slot' = slot,
           Sound(t, term[t], m, slot)
    PROVE  TermInv'
<1>1. term' = [term EXCEPT ![t] = term[t]]
    BY DEF TermInv
<1> QED BY <1>1, OneTerminal

\* What removeUserSession leaves of a hub side.
LEMMA Removed ==
    ASSUME NEW t, NEW v \in HubSides
    PROVE  LET r == T!removeUserSession(t, v) IN
           /\ r \in HubSides
           /\ r.kind = v.kind /\ r.pc = v.pc /\ r.link = v.link /\ r.relay = v.relay
           /\ r.live = v.live /\ r.gone = v.gone /\ r.clean = v.clean
           /\ t \notin slot => r = v
           /\ t \in slot => r.user = T!End(v.user) /\ r.done
<1>1. CASE t \notin slot
    BY <1>1 DEF T!removeUserSession
<1>2. CASE t \in slot
    <2>1. T!removeUserSession(t, v) = [v EXCEPT !.timer = FALSE, !.user = T!End(@), !.done = TRUE]
        BY <1>2 DEF T!removeUserSession, T!closeUserSession
    <2>2. T!End(v.user) \in T!Ends
        BY DEF T!End, T!Ends, HubSides
    <2> QED
        BY <1>2, <2>1, <2>2 DEF HubSides
<1> QED
    BY <1>1, <1>2

LEMMA OpenStep ==
    ASSUME TermInv, NEW t \in Terms, NEW k \in Kinds, T!Open(t, k)
    PROVE  TermInv'
<1> DEFINE pc == IF k = "passive" THEN "lookup" ELSE "dial"
<1> DEFINE v == [T!Closed EXCEPT !.kind = k, !.user = "open", !.live = TRUE,
                                 !.pc = pc]
<1>1. Sound(t, term[t], remote[t], slot)
    BY DEF TermInv
<1>2. term[t].kind = "none" /\ term' = [term EXCEPT ![t] = v]
      /\ slot' = slot /\ remote' = remote
    BY DEF T!Open
<1>3. pc \in {"lookup", "dial"}
    OBVIOUS
<1> HIDE DEF pc
<1>4. Sound(t, v, remote[t], slot)
    BY <1>1, <1>2, <1>3, KindsAssumption
       DEF Sound, HubSides, FarSides, T!Closed, T!Nobody, T!Ends
<1> QED
    BY <1>2, <1>4, HubStep

LEMMA DialOkStep ==
    ASSUME TermInv, NEW t \in Terms, T!DialOk(t)
    PROVE  TermInv'
<1> DEFINE v == [term[t] EXCEPT !.pc = IF T!ssh(t) THEN "setup" ELSE "copy", !.link = "open"]
           m == [pc |-> IF T!ssh(t) THEN "session" ELSE "start",
                 conn |-> "open", shell |-> "none"]
<1>1. Sound(t, term[t], remote[t], slot)
    BY DEF TermInv
<1>2. term[t].pc = "dial" /\ term' = [term EXCEPT ![t] = v]
      /\ remote' = [remote EXCEPT ![t] = m] /\ slot' = slot
    BY DEF T!DialOk, TermInv, T!At
<1>3. Sound(t, v, m, slot)
    BY <1>1, <1>2 DEF Sound, HubSides, FarSides, T!Nobody, T!Ends
<1> QED
    BY <1>2, <1>3, OneTerminal

LEMMA DialFailsStep ==
    ASSUME TermInv, NEW t \in Terms, T!DialFails(t)
    PROVE  TermInv'
<1> DEFINE v == T!Finished([term[t] EXCEPT !.user = "closed"])
<1>1. Sound(t, term[t], remote[t], slot)
    BY DEF TermInv
<1>2. term[t].pc = "dial" /\ term' = [term EXCEPT ![t] = v]
      /\ slot' = slot /\ remote' = remote
    BY DEF T!DialFails, TermInv, T!At
<1>3. Sound(t, v, remote[t], slot)
    BY <1>1, <1>2 DEF Sound, HubSides, FarSides, T!Nobody, T!Ends, T!Finished
<1> QED
    BY <1>2, <1>3, HubStep

LEMMA SetupOkStep ==
    ASSUME TermInv, NEW t \in Terms, T!SetupOk(t)
    PROVE  TermInv'
<1> DEFINE v == [term[t] EXCEPT !.pc = "copy"]
           m == [remote[t] EXCEPT !.shell = "running"]
<1>1. Sound(t, term[t], remote[t], slot)
    BY DEF TermInv
<1>2. term[t].pc = "setup" /\ term' = [term EXCEPT ![t] = v]
      /\ remote' = [remote EXCEPT ![t] = m] /\ slot' = slot
    BY DEF T!SetupOk, TermInv, T!At
<1>3. Sound(t, v, m, slot)
    BY <1>1, <1>2 DEF Sound, HubSides, FarSides, T!Nobody, T!Ends
<1> QED
    BY <1>2, <1>3, OneTerminal

LEMMA SetupFailsStep ==
    ASSUME TermInv, NEW t \in Terms, T!SetupFails(t)
    PROVE  TermInv'
<1> DEFINE v == T!Finished([term[t] EXCEPT !.user = "closed", !.link = "closed"])
<1>1. Sound(t, term[t], remote[t], slot)
    BY DEF TermInv
<1>2. term[t].pc = "setup" /\ term' = [term EXCEPT ![t] = v]
      /\ slot' = slot /\ remote' = remote
    BY DEF T!SetupFails, TermInv, T!At
<1>3. Sound(t, v, remote[t], slot)
    BY <1>1, <1>2 DEF Sound, HubSides, FarSides, T!Nobody, T!Ends, T!Finished
<1> QED
    BY <1>2, <1>3, HubStep

\* cleanup, in either order, and the return it permits.
LEMMA CleanupStep ==
    ASSUME TermInv, NEW t \in Terms, T!Cleanup(t)
    PROVE  TermInv'
<1> DEFINE v == [term[t] EXCEPT !.clean = IF T!ssh(t) THEN "link" ELSE "done"]
<1>1. Sound(t, term[t], remote[t], slot)
    BY DEF TermInv
<1>2. term[t].pc = "copy" /\ term[t].clean = "none" /\ term' = [term EXCEPT ![t] = v]
      /\ slot' = slot /\ remote' = remote
    BY DEF T!Cleanup, TermInv, T!At
<1>3. Sound(t, v, remote[t], slot)
    BY <1>1, <1>2 DEF Sound, HubSides, FarSides, T!Nobody, T!Ends, T!ssh
<1> QED
    BY <1>2, <1>3, HubStep

LEMMA CleanupGoesOnStep ==
    ASSUME TermInv, NEW t \in Terms, T!CleanupGoesOn(t)
    PROVE  TermInv'
<1>1. Sound(t, term[t], remote[t], slot)
    BY DEF TermInv
<1>2. CASE T!CleanupDone(t)
    <2> DEFINE v == [term[t] EXCEPT !.done = TRUE,
                                    !.clean = IF T!ssh(t) THEN "over" ELSE "link"]
    <2>1. term[t].clean = "done" /\ term' = [term EXCEPT ![t] = v]
          /\ slot' = slot /\ remote' = remote
        BY <1>2 DEF T!CleanupDone, TermInv
    <2>2. Sound(t, v, remote[t], slot)
        BY <1>1, <2>1 DEF Sound, HubSides, FarSides, T!Nobody, T!Ends, T!ssh
    <2> QED
        BY <2>1, <2>2, HubStep
<1>3. CASE T!CleanupLink(t)
    <2> DEFINE v == [term[t] EXCEPT !.link = "closed", !.clean = "user"]
    <2>1. term[t].clean = "link" /\ term' = [term EXCEPT ![t] = v]
          /\ slot' = slot /\ remote' = remote
        BY <1>3 DEF T!CleanupLink, TermInv
    <2>2. /\ v \in HubSides /\ v.kind = term[t].kind /\ v.pc = term[t].pc
          /\ v.user = term[t].user /\ v.relay = term[t].relay /\ v.done = term[t].done
          /\ v.live = term[t].live /\ v.gone = term[t].gone /\ v.clean = "user"
        BY <1>1 DEF Sound, HubSides, T!Ends
    <2> HIDE DEF v
    <2>3. Sound(t, v, remote[t], slot)
        BY <1>1, <2>1, <2>2 DEF Sound
    <2> QED
        BY <2>1, <2>3, HubStep
<1>4. CASE T!CleanupUser(t)
    <2> DEFINE v == [term[t] EXCEPT !.user = "closed",
                                    !.clean = IF T!ssh(t) THEN "done" ELSE "over"]
    <2>1. term[t].clean = "user" /\ term' = [term EXCEPT ![t] = v]
          /\ slot' = slot /\ remote' = remote
        BY <1>4 DEF T!CleanupUser, TermInv
    <2>2. /\ v \in HubSides /\ v.kind = term[t].kind /\ v.pc = term[t].pc
          /\ v.user = "closed" /\ v.relay = term[t].relay /\ v.done = term[t].done
          /\ v.live = term[t].live /\ v.gone = term[t].gone /\ v.clean \in {"done", "over"}
        BY <1>1 DEF Sound, HubSides, T!Ends
    <2>3. term[t].kind # "none" /\ term[t].relay \notin {"copy", "finish"}
          /\ term[t].pc \in {"copy", "done"} /\ t \notin slot
        BY <1>1, <2>1 DEF Sound
    <2> HIDE DEF v
    <2>4. Sound(t, v, remote[t], slot)
        BY <1>1, <2>1, <2>2, <2>3 DEF Sound
    <2> QED
        BY <2>1, <2>4, HubStep
<1> QED
    BY <1>2, <1>3, <1>4 DEF T!CleanupGoesOn

LEMMA CopyReturnsStep ==
    ASSUME TermInv, NEW t \in Terms, T!CopyReturns(t)
    PROVE  TermInv'
<1> DEFINE user == IF T!ssh(t) THEN "closed" ELSE term[t].user
           v == [term[t] EXCEPT !.link = "closed", !.user = user, !.pc = "done", !.live = FALSE]
<1>1. Sound(t, term[t], remote[t], slot)
    BY DEF TermInv
<1>2. term[t].pc = "copy" /\ term[t].done /\ term' = [term EXCEPT ![t] = v]
      /\ slot' = slot /\ remote' = remote
    <2>1. term[t].pc = "copy" /\ term[t].done
          /\ slot' = slot /\ remote' = remote
        BY DEF T!CopyReturns, T!At
    <2>2. term' = [term EXCEPT ![t] = T!Finished([term[t] EXCEPT !.link = "closed",
                                                                !.user = user])]
        BY DEF T!CopyReturns, TermInv
    <2>3. term[t] \in HubSides
        BY DEF TermInv
    <2> HIDE DEF user
    <2>4. T!Finished([term[t] EXCEPT !.link = "closed", !.user = user]) = v
        BY <2>3 DEF T!Finished, HubSides
    <2> QED
        BY <2>1, <2>2, <2>4
<1>3. user \in {"closed", term[t].user}
    OBVIOUS
<1> HIDE DEF user
<1>4. Sound(t, v, remote[t], slot)
    BY <1>1, <1>2, <1>3 DEF Sound, HubSides, FarSides, T!Nobody, T!Ends
<1> QED
    BY <1>2, <1>4, HubStep

LEMMA LookupStep ==
    ASSUME TermInv, NEW t \in Terms, NEW found \in BOOLEAN, T!Lookup(t, found)
    PROVE  TermInv'
<1> DEFINE v == IF found THEN [term[t] EXCEPT !.pc = "set"]
                ELSE T!Finished([term[t] EXCEPT !.user = "closed"])
<1>1. Sound(t, term[t], remote[t], slot)
    BY DEF TermInv
<1>2. term[t].pc = "lookup" /\ term' = [term EXCEPT ![t] = v]
      /\ slot' = slot /\ remote' = remote
    BY DEF T!Lookup, TermInv, T!At
<1>3. Sound(t, v, remote[t], slot)
    BY <1>1, <1>2 DEF Sound, HubSides, FarSides, T!Nobody, T!Ends, T!Finished
<1> QED
    BY <1>2, <1>3, HubStep

LEMMA UserSetStep ==
    ASSUME TermInv, NEW t \in Terms, T!UserSet(t)
    PROVE  TermInv'
<1> DEFINE v == [term[t] EXCEPT !.pc = "request", !.timer = TRUE]
<1>1. Sound(t, term[t], remote[t], slot)
    BY DEF TermInv
<1>2. term[t].pc = "set" /\ term' = [term EXCEPT ![t] = v]
      /\ slot' = slot \cup {t} /\ remote' = remote
    BY DEF T!UserSet, TermInv, T!At
<1>3. Sound(t, v, remote[t], slot \cup {t})
    BY <1>1, <1>2 DEF Sound, HubSides, FarSides, T!Nobody, T!Ends
<1> QED
    BY <1>2, <1>3, HubStep

LEMMA WaitCancelledStep ==
    ASSUME TermInv, NEW t \in Terms, T!WaitCancelled(t)
    PROVE  TermInv'
<1> DEFINE v == T!Finished([T!removeUserSession(t, term[t]) EXCEPT !.user = "closed"])
<1>1. Sound(t, term[t], remote[t], slot)
    BY DEF TermInv
<1>2. term[t].pc = "wait" /\ ~term[t].live /\ term' = [term EXCEPT ![t] = v]
      /\ slot' = slot \ {t} /\ remote' = remote
    BY DEF T!WaitCancelled, TermInv, T!At
<1> DEFINE w == T!removeUserSession(t, term[t])
<1>3. /\ w \in HubSides /\ w.kind = term[t].kind /\ w.pc = term[t].pc
      /\ w.relay = term[t].relay /\ w.gone = term[t].gone /\ w.clean = term[t].clean
    BY <1>1, Removed DEF Sound
<1>4. v = [w EXCEPT !.user = "closed", !.pc = "done", !.live = FALSE]
    BY <1>3 DEF T!Finished, HubSides
<1> HIDE DEF v, w
<1>5. /\ v \in HubSides /\ v.kind = term[t].kind /\ v.pc = "done" /\ v.user = "closed"
      /\ v.relay = term[t].relay /\ v.gone = term[t].gone /\ v.clean = term[t].clean
    BY <1>3, <1>4 DEF HubSides, T!Ends
<1>6. term[t].clean = "none" /\ "revoked" \in term[t].gone
    BY <1>1, <1>2 DEF Sound
<1>7. Sound(t, v, remote[t], slot \ {t})
    BY <1>1, <1>2, <1>5, <1>6 DEF Sound
<1> QED
    BY <1>2, <1>7, HubStep

LEMMA WaitDoneStep ==
    ASSUME TermInv, NEW t \in Terms, T!WaitDone(t)
    PROVE  TermInv'
<1> DEFINE v == T!Finished(term[t])
<1>1. Sound(t, term[t], remote[t], slot)
    BY DEF TermInv
<1>2. term[t].pc = "wait" /\ term[t].done /\ term' = [term EXCEPT ![t] = v]
      /\ slot' = slot /\ remote' = remote
    BY DEF T!WaitDone, TermInv, T!At
<1>3. Sound(t, v, remote[t], slot)
    BY <1>1, <1>2, ZenonT(60) DEF Sound, HubSides, FarSides, T!Nobody, T!Ends, T!Finished
<1> QED
    BY <1>2, <1>3, HubStep

LEMMA TimeoutStep ==
    ASSUME TermInv, NEW t \in Terms, T!Timeout(t)
    PROVE  TermInv'
<1> DEFINE v == T!removeUserSession(t, [term[t] EXCEPT !.timer = FALSE])
<1>1. Sound(t, term[t], remote[t], slot)
    BY DEF TermInv
<1>2. term[t].timer /\ term' = [term EXCEPT ![t] = v]
      /\ slot' = slot \ {t} /\ remote' = remote
    BY DEF T!Timeout, TermInv, T!At
<1> DEFINE w == [term[t] EXCEPT !.timer = FALSE]
<1>3. /\ w \in HubSides /\ w.kind = term[t].kind /\ w.pc = term[t].pc
      /\ w.user = term[t].user /\ w.link = term[t].link /\ w.relay = term[t].relay
      /\ w.done = term[t].done /\ w.live = term[t].live /\ w.gone = term[t].gone
      /\ w.clean = term[t].clean
    BY <1>1 DEF Sound, HubSides
<1> HIDE DEF w
<1>4. Sound(t, v, remote[t], slot \ {t})
    <2>1. v = T!removeUserSession(t, w)
        BY DEF w
    <2> HIDE DEF v
    <2>2. CASE t \notin slot
        BY <1>1, <1>3, <2>1, <2>2, Removed DEF Sound
    <2>3. CASE t \in slot
        <3>1. /\ v \in HubSides /\ v.kind = term[t].kind /\ v.pc = term[t].pc
              /\ v.relay = term[t].relay /\ v.live = term[t].live
              /\ v.clean = term[t].clean /\ v.gone = term[t].gone /\ v.user = T!End(term[t].user) /\ v.done
            BY <1>3, <2>1, <2>3, Removed
        <3> QED
            BY <1>1, <2>3, <3>1 DEF Sound, T!End
    <2> QED BY <2>2, <2>3
<1> QED
    BY <1>2, <1>4, HubStep

LEMMA RelayCleanupStep ==
    ASSUME TermInv, NEW t \in Terms, T!RelayCleanup(t)
    PROVE  TermInv'
<1> DEFINE v == [term[t] EXCEPT !.relay = "finish", !.link = "closed"]
<1>1. Sound(t, term[t], remote[t], slot)
    BY DEF TermInv
<1>2. term[t].relay = "copy" /\ term' = [term EXCEPT ![t] = v]
      /\ slot' = slot /\ remote' = remote
    BY DEF T!RelayCleanup, TermInv
<1>3. Sound(t, v, remote[t], slot)
    BY <1>1, <1>2, ZenonT(60) DEF Sound, HubSides, FarSides, T!Nobody, T!Ends
<1> QED
    BY <1>2, <1>3, HubStep

LEMMA RelayFinishStep ==
    ASSUME TermInv, NEW t \in Terms, T!RelayFinish(t)
    PROVE  TermInv'
<1> DEFINE v == T!closeUserSession([term[t] EXCEPT !.relay = "done"])
<1>1. Sound(t, term[t], remote[t], slot)
    BY DEF TermInv
<1>2. term[t].relay = "finish" /\ term' = [term EXCEPT ![t] = v]
      /\ slot' = slot /\ remote' = remote
    BY DEF T!RelayFinish, TermInv
<1>3. Sound(t, v, remote[t], slot)
    BY <1>1, <1>2, ZenonT(60) DEF Sound, HubSides, FarSides, T!Nobody, T!Ends, T!closeUserSession, T!End
<1> QED
    BY <1>2, <1>3, HubStep

LEMMA RevokeStep ==
    ASSUME TermInv, NEW t \in Terms, T!Revoke(t)
    PROVE  TermInv'
<1> DEFINE v == [term[t] EXCEPT !.live = FALSE, !.gone = @ \cup {"revoked"}]
<1>1. Sound(t, term[t], remote[t], slot)
    BY DEF TermInv
<1>2. term[t].live /\ term' = [term EXCEPT ![t] = v]
      /\ slot' = slot /\ remote' = remote
    BY DEF T!Revoke, TermInv, T!At
<1>3. Sound(t, v, remote[t], slot)
    BY <1>1, <1>2, ZenonT(60) DEF Sound, HubSides, FarSides, T!Nobody, T!Ends
<1> QED
    BY <1>2, <1>3, HubStep

LEMMA BrowserLeavesStep ==
    ASSUME TermInv, NEW t \in Terms, T!BrowserLeaves(t)
    PROVE  TermInv'
<1> DEFINE v == [term[t] EXCEPT !.gone = @ \cup {"browser"}]
<1>1. Sound(t, term[t], remote[t], slot)
    BY DEF TermInv
<1>2. term[t].user = "open" /\ term' = [term EXCEPT ![t] = v]
      /\ slot' = slot /\ remote' = remote
    BY DEF T!BrowserLeaves, TermInv, T!At
<1>3. Sound(t, v, remote[t], slot)
    BY <1>1, <1>2 DEF Sound, HubSides, FarSides, T!Nobody, T!Ends
<1> QED
    BY <1>2, <1>3, HubStep

LEMMA LinkBreaksStep ==
    ASSUME TermInv, NEW t \in Terms, T!LinkBreaks(t)
    PROVE  TermInv'
<1> DEFINE v == [term[t] EXCEPT !.gone = @ \cup {"network"}]
<1>1. Sound(t, term[t], remote[t], slot)
    BY DEF TermInv
<1>2. term[t].link = "open" /\ term' = [term EXCEPT ![t] = v]
      /\ slot' = slot /\ remote' = remote
    BY DEF T!LinkBreaks, TermInv, T!At
<1>3. Sound(t, v, remote[t], slot)
    BY <1>1, <1>2 DEF Sound, HubSides, FarSides, T!Nobody, T!Ends
<1> QED
    BY <1>2, <1>3, HubStep

LEMMA RequestStep ==
    ASSUME TermInv, NEW t \in Terms, NEW o \in {"error", "asked", "unanswered"},
           T!Request(t, o)
    PROVE  TermInv'
<1>1. Sound(t, term[t], remote[t], slot) /\ term[t].pc = "request"
    BY DEF TermInv, T!Request, T!At
<1>2. CASE o = "error"
    <2> DEFINE v == T!Finished(T!removeUserSession(t, [term[t] EXCEPT !.user = "closed"]))
    <2>1. term' = [term EXCEPT ![t] = v] /\ slot' = slot \ {t} /\ remote' = remote
        BY <1>2 DEF T!Request, TermInv
    <2> DEFINE u == [term[t] EXCEPT !.user = "closed"]
               w == T!removeUserSession(t, u)
    <2>2. /\ u \in HubSides /\ u.kind = term[t].kind /\ u.pc = term[t].pc
          /\ u.relay = term[t].relay /\ u.gone = term[t].gone /\ u.user = "closed"
          /\ u.clean = term[t].clean
        BY <1>1 DEF Sound, HubSides, T!Ends
    <2>3. w = T!removeUserSession(t, u) /\ v = T!Finished(w)
        OBVIOUS
    <2> HIDE DEF u, v, w
    <2>4. /\ w \in HubSides /\ w.kind = term[t].kind /\ w.relay = term[t].relay
          /\ w.gone = term[t].gone /\ w.user = "closed" /\ w.clean = term[t].clean
        BY <2>2, <2>3, Removed DEF T!End
    <2>5. /\ v \in HubSides /\ v.kind = term[t].kind /\ v.relay = term[t].relay
          /\ v.gone = term[t].gone /\ v.user = "closed" /\ v.pc = "done"
          /\ v.clean = term[t].clean
        BY <2>3, <2>4 DEF T!Finished, HubSides
    <2>6. Sound(t, v, remote[t], slot \ {t})
        BY <1>1, <2>5 DEF Sound
    <2> QED
        BY <2>1, <2>6, HubStep
<1>3. CASE o # "error"
    <2> DEFINE v == [term[t] EXCEPT !.pc = "wait"]
               called == [remote[t] EXCEPT !.pc = "called"]
    <2>1. term' = [term EXCEPT ![t] = v] /\ slot' = slot
        BY <1>3 DEF T!Request, TermInv
    <2>2. remote' = [remote EXCEPT ![t] = called] \/ remote' = remote
        BY <1>3 DEF T!Request, TermInv
    <2>3. Sound(t, v, remote[t], slot) /\ Sound(t, v, called, slot)
        BY <1>1 DEF Sound, HubSides, FarSides, T!Nobody, T!Ends
    <2> QED
        BY <2>1, <2>2, <2>3, HubStep, OneTerminal
<1> QED
    BY <1>2, <1>3

LEMMA UserTakeStep ==
    ASSUME TermInv, NEW t \in Terms, T!UserTake(t)
    PROVE  TermInv'
<1>1. Sound(t, term[t], remote[t], slot) /\ term[t].relay = "take" /\ remote' = remote
    BY DEF TermInv, T!UserTake
<1>2. CASE t \in slot
    <2>1. PICK fired \in {FALSE, term[t].timer} :
              term' = [term EXCEPT ![t].relay = "copy", ![t].timer = fired]
        BY <1>2 DEF T!UserTake
    <2> DEFINE v == [term[t] EXCEPT !.relay = "copy", !.timer = fired]
    <2>2. term' = [term EXCEPT ![t] = v] /\ slot' = slot \ {t}
        BY <1>2, <2>1 DEF T!UserTake, TermInv
    <2>3. Sound(t, v, remote[t], slot \ {t})
        BY <1>1, <1>2 DEF Sound, HubSides, FarSides, T!Nobody, T!Ends
    <2> QED
        BY <1>1, <2>2, <2>3, HubStep
<1>3. CASE t \notin slot
    <2> DEFINE v == [term[t] EXCEPT !.relay = "done", !.link = "closed"]
    <2>2. term' = [term EXCEPT ![t] = v] /\ slot' = slot
        BY <1>3 DEF T!UserTake, TermInv
    <2>3. Sound(t, v, remote[t], slot)
        BY <1>1, <1>3 DEF Sound, HubSides, FarSides, T!Nobody, T!Ends
    <2> QED
        BY <1>1, <2>2, <2>3, HubStep
<1> QED
    BY <1>2, <1>3

LEMMA AgentConnectsStep ==
    ASSUME TermInv, NEW t \in Terms, T!AgentConnects(t)
    PROVE  TermInv'
<1> DEFINE v == [term[t] EXCEPT !.link = "open", !.relay = "take"]
           m == [remote[t] EXCEPT !.pc = "start", !.conn = "open"]
<1>1. Sound(t, term[t], remote[t], slot)
    BY DEF TermInv
<1>2. remote[t].pc = "called" /\ term' = [term EXCEPT ![t] = v]
      /\ remote' = [remote EXCEPT ![t] = m] /\ slot' = slot
    BY DEF T!AgentConnects, TermInv
<1>3. term[t].kind # "none" /\ term[t].pc \in {"wait", "done"}
    BY <1>1, <1>2 DEF Sound, HubSides, T!Nobody
<1>4. Sound(t, v, m, slot)
    <2>1. /\ v \in HubSides /\ v.kind = term[t].kind /\ v.pc = term[t].pc
          /\ v.user = term[t].user /\ v.relay = "take" /\ v.done = term[t].done
          /\ v.live = term[t].live /\ v.gone = term[t].gone /\ v.clean = term[t].clean
        BY <1>1 DEF Sound, HubSides, T!Ends
    <2>2. m \in FarSides /\ m.pc = "start"
        BY <1>1 DEF Sound, FarSides, T!Ends
    <2>3. term[t].clean = "none" /\ (t \in slot => term[t].pc = "wait")
        BY <1>1, <1>2, <1>3 DEF Sound
    <2> HIDE DEF v, m
    <2> QED
        BY <1>1, <1>3, <2>1, <2>2, <2>3 DEF Sound
<1> QED
    BY <1>2, <1>4, OneTerminal

LEMMA FarSteps ==
    ASSUME TermInv, NEW t \in Terms,
           \/ T!AgentConnectFails(t) \/ T!RemoteCleanup(t)
           \/ T!ShellExits(t) \/ T!AgentDies(t)
           \/ \E ok \in BOOLEAN : T!StartShell(t, ok)
    PROVE  TermInv'
<1>1. Sound(t, term[t], remote[t], slot)
    BY DEF TermInv
<1> DEFINE hangsUp == [remote[t] EXCEPT !.pc = "none"]
           dies == [pc |-> "none", conn |-> "closed",
                    shell |-> IF remote[t].shell = "none" THEN "none" ELSE "exited"]
           cleans == [pc |-> "none", conn |-> "closed", shell |-> "exited"]
           exits == [remote[t] EXCEPT !.shell = "exited"]
           runs == [remote[t] EXCEPT !.pc = "session", !.shell = "running"]
           fails == [remote[t] EXCEPT !.pc = "none", !.conn = "closed"]
<1>2. term' = term /\ slot' = slot /\ remote[t] # T!Nobody
    BY DEF T!AgentConnectFails, T!RemoteCleanup, T!ShellExits, T!AgentDies,
           T!StartShell, T!Nobody
<1>3. PICK m \in {hangsUp, dies, cleans, exits, runs, fails} :
          remote' = [remote EXCEPT ![t] = m]
    BY DEF T!AgentConnectFails, T!RemoteCleanup, T!ShellExits, T!AgentDies,
           T!StartShell, TermInv
<1>4. m \in FarSides /\ (m.pc = "called" => remote[t].pc = "called")
      /\ (remote[t].conn = "closed" => m.conn = "closed")
    <2>1. remote[t] \in FarSides
        BY DEF TermInv
    <2> DEFINE Fine(x) == /\ x \in FarSides
                          /\ x.pc = "called" => remote[t].pc = "called"
                          /\ remote[t].conn = "closed" => x.conn = "closed"
    <2>2. Fine(hangsUp)
        BY <2>1 DEF FarSides, T!Ends
    <2>3. Fine(dies)
        BY DEF FarSides, T!Ends
    <2>4. Fine(cleans)
        BY DEF FarSides, T!Ends
    <2>5. Fine(exits)
        BY <2>1 DEF FarSides, T!Ends
    <2>6. Fine(runs)
        BY <2>1 DEF FarSides, T!Ends
    <2>7. Fine(fails)
        BY <2>1 DEF FarSides, T!Ends
    <2> HIDE DEF Fine, hangsUp, dies, cleans, exits, runs, fails
    <2>8. Fine(m)
        BY <1>3, <2>2, <2>3, <2>4, <2>5, <2>6, <2>7
    <2> QED
        BY <2>8 DEF Fine
<1>5. Sound(t, term[t], m, slot)
    BY <1>1, <1>2, <1>4 DEF Sound
<1> QED
    BY <1>2, <1>3, <1>5, FarStep

LEMMA TermStep == TermInv /\ [T!Next]_termVars => TermInv'
<1> SUFFICES ASSUME TermInv, [T!Next]_termVars PROVE TermInv'
    OBVIOUS
<1>1. CASE UNCHANGED termVars
    BY <1>1 DEF TermInv, termVars
<1>2. CASE T!Next
    <2>1. PICK t \in Terms :
              \/ \E k \in Kinds : T!Open(t, k)
              \/ T!Step(t) \/ T!Timeout(t) \/ T!Revoke(t)
              \/ T!BrowserLeaves(t) \/ T!LinkBreaks(t) \/ T!ShellExits(t)
              \/ T!AgentDies(t)
        BY <1>2 DEF T!Next
    <2>2. CASE T!Step(t)
        <3>1. CASE T!DialledStep(t) \/ T!CleanupGoesOn(t)
            BY <3>1, DialOkStep, DialFailsStep, SetupOkStep, SetupFailsStep, CleanupStep,
               CopyReturnsStep, CleanupGoesOnStep DEF T!DialledStep
        <3>2. CASE T!PassiveStep(t)
            BY <3>2, LookupStep, UserSetStep, RequestStep, WaitCancelledStep, WaitDoneStep
               DEF T!PassiveStep
        <3>3. CASE T!RelayStep(t) \/ T!RemoteStep(t)
            BY <3>3, UserTakeStep, RelayCleanupStep, RelayFinishStep, AgentConnectsStep,
               FarSteps DEF T!RelayStep, T!RemoteStep
        <3> QED
            BY <2>2, <3>1, <3>2, <3>3 DEF T!Step
    <2>3. CASE ~T!Step(t)
        BY <2>1, <2>3, OpenStep, TimeoutStep, RevokeStep, BrowserLeavesStep,
           LinkBreaksStep, FarSteps
    <2> QED
        BY <2>2, <2>3
<1> QED
    BY <1>1, <1>2

\* No handler leaves a waiting session behind, or a browser connection that no
\* cleanup is about to close, and a relayed terminal is closed only for a cause
\* outside the hub: for any number of terminals of any kinds (ConnectShell,
\* terminalSSH, terminalPassive, UserTake, removeUserSession).
THEOREM TerminalsAreOwned == T!Spec => []TerminalOwned
<1>1. TermInv /\ [T!Next]_(T!termVars) => TermInv'
    BY TermStep DEF T!termVars, termVars
<1> QED
    BY TermInit, TermOwned, <1>1, PTL DEF T!Spec

-----------------------------------------------------------------------------
(* The websocket client *)

ClientFields == {"conn", "closed", "connecting", "ctx", "call", "terminalErr",
                 "maxRetries", "pongWait", "writeMu"}
CallFields == {"pc", "op", "conn", "new", "retries", "err"}

\* A call of Connect that has not installed a connection, the call that
\* reconnects, a call that has not got a connection, and the connections that
\* a call has to install or close.
Opening(c) == c.op = "connect" /\ (c.pc # "connected" \/ c.err # "ok")
Calling(c) ==
    \/ c.pc \in {"closeFailed", "retry", "settle"}
    \/ c.pc \in {"dial", "install", "discard"} /\ c.op # "connect"
Resting(c) == c.pc \in {"idle", "connection", "close", "closeConn"}
Grips(c, x) ==
    \/ c.pc \in {"install", "discard"} /\ c.new = x
    \/ c.pc \in {"closeFailed", "closeRefused", "closeConn"} /\ c.conn = x

\* Only the reader connects.
CallOK(p, c) ==
    /\ DOMAIN c = CallFields
    /\ c.op = "connect" => p = Reader /\ c.pc \in {"dial", "install", "discard", "connected"}
    /\ c.pc = "connected" => c.op = "connect"

\* Before the first connection is installed there is nothing to reconnect: no
\* connection, no call that reconnects, and nobody waits for or uses either.
Unconnected == client.ctx = "nil" \/ \E p \in W!Callers : Opening(caller[p])

Usable == ~client.closed /\ client.ctx = "live"

WsInv ==
    /\ DOMAIN client = ClientFields /\ DOMAIN caller = W!Callers
    /\ client.closed \in BOOLEAN /\ client.call \in BOOLEAN
    /\ \A p \in W!Callers : CallOK(p, caller[p])
    /\ \A p \in W!Callers : Calling(caller[p]) => client.call
    /\ \A p, q \in W!Callers : Calling(caller[p]) /\ Calling(caller[q]) => p = q
    /\ Unconnected => /\ client.conn = None /\ ~client.call
                      /\ \A p \in W!Callers :
                            Resting(caller[p]) \/ caller[p].op = "connect"
    /\ \A p \in W!Callers : caller[p].pc = "discard" => ~Usable
    /\ client.closed => client.conn = None
    /\ DOMAIN net = {"open", "dead", "silent", "refused"}
    /\ \A x \in net.open : x = client.conn \/ \E p \in W!Callers : Grips(caller[p], x)

LEMMA WsInit == W!Init => WsInv
<1> SUFFICES ASSUME W!Init PROVE WsInv
    OBVIOUS
<1>1. /\ DOMAIN client = ClientFields /\ client.closed = FALSE /\ client.call = FALSE
      /\ client.conn = None
    BY DEF W!Init, ClientFields
<1>2. DOMAIN caller = W!Callers /\ \A p \in W!Callers : caller[p] = W!Rest
    BY DEF W!Init
<1>3. DOMAIN W!Rest = CallFields /\ W!Rest.pc = "idle" /\ W!Rest.op = "none"
    BY DEF W!Rest, CallFields
<1>4. DOMAIN net = {"open", "dead", "silent", "refused"} /\ net.open = {}
    BY DEF W!Init
<1> QED
    BY <1>1, <1>2, <1>3, <1>4
       DEF WsInv, CallOK, Calling, Unconnected, Opening, Resting, Usable

\* At most one goroutine dials: the one that connects or the one that
\* reconnects, never both.
LEMMA WsOwned == WsInv => ConnectionsOwned
<1> SUFFICES ASSUME WsInv PROVE ConnectionsOwned
    OBVIOUS
<1>1. \A x \in net.open : x = client.conn \/ \E p \in W!Callers : W!Holds(p, x)
    BY DEF WsInv, Grips, W!Holds
<1>2. ASSUME NEW p \in W!Callers, NEW q \in W!Callers, W!Dialling(p), W!Dialling(q)
      PROVE  p = q
    <2>1. CASE caller[p].op = "connect" /\ caller[q].op = "connect"
        BY <2>1 DEF WsInv, CallOK
    <2>2. CASE caller[p].op # "connect" /\ caller[q].op # "connect"
        BY <1>2, <2>2 DEF WsInv, Calling, W!Dialling
    <2>3. CASE caller[p].op = "connect" /\ caller[q].op # "connect"
        <3>1. Unconnected /\ Calling(caller[q])
            BY <1>2, <2>3 DEF Unconnected, Opening, Calling, W!Dialling
        <3> QED BY <3>1 DEF WsInv
    <2>4. CASE caller[p].op # "connect" /\ caller[q].op = "connect"
        <3>1. Unconnected /\ Calling(caller[p])
            BY <1>2, <2>4 DEF Unconnected, Opening, Calling, W!Dialling
        <3> QED BY <3>1 DEF WsInv
    <2> QED BY <2>1, <2>2, <2>3, <2>4
<1>3. Cardinality({p \in W!Callers : W!Dialling(p)}) <= 1
    <2> DEFINE D == {p \in W!Callers : W!Dialling(p)}
    <2>1. CASE D = {}
        BY <2>1, FS_EmptySet
    <2>2. CASE D # {}
        <3>1. PICK p : D = {p}
            BY <2>2, <1>2
        <3> QED BY <3>1, FS_Singleton
    <2> QED BY <2>1, <2>2
<1>4. client.closed => client.conn = None
    BY DEF WsInv
<1>5. ASSUME NEW S PROVE W!Cardinality(S) = Cardinality(S)
    BY Zenon DEF Cardinality, W!Cardinality
<1> QED
    BY <1>1, <1>3, <1>4, <1>5 DEF ConnectionsOwned, W!ConnectionsOwned

\* The others are as they were, but for the outcome a waiting one is told.
Kept(c, d) ==
    /\ DOMAIN d = DOMAIN c
    /\ d.pc = c.pc /\ d.op = c.op /\ d.conn = c.conn /\ d.new = c.new
    /\ c.op = "connect" => d.err = c.err

\* A step of the goroutine p, after which its call is r.
LEMMA WsMove ==
    ASSUME WsInv, NEW p \in W!Callers, NEW r,
           DOMAIN caller' = W!Callers, caller'[p] = r,
           \A q \in W!Callers \ {p} : Kept(caller[q], caller'[q]),
           DOMAIN client' = ClientFields,
           client'.closed \in BOOLEAN, client'.call \in BOOLEAN,
           DOMAIN net' = {"open", "dead", "silent", "refused"},
           CallOK(p, r),
           Calling(r) => client'.call /\ (Calling(caller[p]) \/ ~client.call),
           client.call => client'.call \/ Calling(caller[p]),
           client'.ctx = "nil" \/ Opening(r)
               => client.ctx = "nil" \/ Opening(caller[p]),
           (/\ client'.ctx = "nil" \/ Opening(r) \/ caller[p].op # "connect"
            /\ client.conn = None /\ ~client.call
            /\ Resting(caller[p]) \/ caller[p].op = "connect")
               => /\ client'.conn = None /\ ~client'.call
                  /\ Resting(r) \/ r.op = "connect",
           r.pc = "discard" => ~Usable',
           Usable' => Usable \/ (client.ctx = "nil" /\ p = Reader),
           client'.closed => client'.conn = None,
           \A x \in net'.open :
               \/ x = client'.conn \/ Grips(r, x)
               \/ x \in net.open /\ x # client.conn /\ ~Grips(caller[p], x)
    PROVE  WsInv'
<1>1. ASSUME NEW q \in W!Callers, q # p
      PROVE  /\ CallOK(q, caller'[q])
             /\ Calling(caller'[q]) <=> Calling(caller[q])
             /\ Opening(caller'[q]) <=> Opening(caller[q])
             /\ Resting(caller'[q]) <=> Resting(caller[q])
             /\ caller'[q].op = caller[q].op /\ caller'[q].pc = caller[q].pc
    <2>1. CallOK(q, caller[q]) /\ Kept(caller[q], caller'[q])
        BY <1>1 DEF WsInv
    <2> QED
        BY <2>1 DEF Kept, CallOK, Calling, Opening, Resting
<1>2. ASSUME NEW q \in W!Callers, q # p, NEW x, Grips(caller[q], x)
      PROVE  Grips(caller'[q], x)
    BY <1>2 DEF Kept, Grips
<1>3. \A q \in W!Callers : CallOK(q, caller'[q])
    BY <1>1
<1>4. \A q \in W!Callers : Calling(caller'[q]) => client'.call
    BY <1>1 DEF WsInv
<1>5. \A q, u \in W!Callers : Calling(caller'[q]) /\ Calling(caller'[u]) => q = u
    BY <1>1 DEF WsInv
<1>6. Unconnected' => Unconnected
    BY <1>1 DEF Unconnected
<1>7. Unconnected' => /\ client'.conn = None /\ ~client'.call
                      /\ \A q \in W!Callers :
                            Resting(caller'[q]) \/ caller'[q].op = "connect"
    <2> SUFFICES ASSUME Unconnected'
                 PROVE  /\ client'.conn = None /\ ~client'.call
                        /\ \A q \in W!Callers :
                            Resting(caller'[q]) \/ caller'[q].op = "connect"
        OBVIOUS
    <2>1. /\ client.conn = None /\ ~client.call
          /\ \A q \in W!Callers : Resting(caller[q]) \/ caller[q].op = "connect"
        BY <1>6 DEF WsInv
    <2>2. client'.ctx = "nil" \/ Opening(r) \/ caller[p].op # "connect"
        <3>1. CASE caller[p].op = "connect" /\ client'.ctx # "nil" /\ ~Opening(r)
            <4>1. PICK q \in W!Callers : q # p /\ Opening(caller[q])
                BY <3>1, <1>1 DEF Unconnected
            <4>2. CallOK(q, caller[q]) /\ CallOK(p, caller[p])
                BY DEF WsInv
            <4> QED
                BY <3>1, <4>1, <4>2 DEF Opening, CallOK
        <3> QED BY <3>1
    <2>3. client'.conn = None /\ ~client'.call /\ (Resting(r) \/ r.op = "connect")
        BY <2>1, <2>2
    <2> QED
        BY <2>1, <2>3, <1>1
<1>8. \A q \in W!Callers : caller'[q].pc = "discard" => ~Usable'
    <2> SUFFICES ASSUME NEW q \in W!Callers, caller'[q].pc = "discard", Usable'
                 PROVE  FALSE
        OBVIOUS
    <2>1. q # p /\ caller[q].pc = "discard"
        BY <1>1
    <2>2. ~Usable
        BY <2>1 DEF WsInv
    <2>3. client.ctx = "nil" /\ p = Reader
        BY <2>2
    <2>4. Resting(caller[q]) \/ caller[q].op = "connect"
        BY <2>3 DEF WsInv, Unconnected
    <2> QED
        BY <2>1, <2>3, <2>4 DEF WsInv, CallOK, Resting
<1>9. \A x \in net'.open : x = client'.conn \/ \E q \in W!Callers : Grips(caller'[q], x)
    <2> SUFFICES ASSUME NEW x \in net'.open, x # client'.conn, ~Grips(r, x)
                 PROVE  \E q \in W!Callers : Grips(caller'[q], x)
        BY DEF WsInv
    <2>1. x \in net.open /\ x # client.conn /\ ~Grips(caller[p], x)
        OBVIOUS
    <2>2. PICK q \in W!Callers : Grips(caller[q], x)
        BY <2>1 DEF WsInv
    <2> QED
        BY <2>1, <2>2, <1>2
<1> QED
    BY <1>3, <1>4, <1>5, <1>7, <1>8, <1>9 DEF WsInv

\* A step of p that leaves the client alone and opens nothing.
LEMMA WsQuiet ==
    ASSUME WsInv, NEW p \in W!Callers, NEW r,
           DOMAIN caller' = W!Callers, caller'[p] = r,
           \A q \in W!Callers \ {p} : caller'[q] = caller[q],
           client' = client,
           DOMAIN net' = {"open", "dead", "silent", "refused"}, net'.open \subseteq net.open,
           CallOK(p, r),
           Calling(r) => Calling(caller[p]),
           Opening(r) => Opening(caller[p]),
           (/\ client.conn = None /\ ~client.call
            /\ Resting(caller[p]) \/ caller[p].op = "connect")
               => Resting(r) \/ r.op = "connect",
           r.pc = "discard" => ~Usable,
           \A x \in net'.open : Grips(caller[p], x) => Grips(r, x)
    PROVE  WsInv'
<1>1. \A q \in W!Callers \ {p} : Kept(caller[q], caller'[q])
    BY DEF Kept
<1>2. /\ DOMAIN client' = ClientFields
      /\ client'.closed \in BOOLEAN /\ client'.call \in BOOLEAN
      /\ client'.closed => client'.conn = None
      /\ Calling(caller[p]) => client.call
    BY DEF WsInv
<1>3. Usable' <=> Usable
    BY DEF Usable
<1>4. \A x \in net'.open : \/ x = client'.conn \/ Grips(r, x)
                           \/ x \in net.open /\ x # client.conn /\ ~Grips(caller[p], x)
    OBVIOUS
<1>5. Calling(r) => client'.call /\ (Calling(caller[p]) \/ ~client.call)
    BY <1>2
<1>6. client.call => client'.call \/ Calling(caller[p])
    OBVIOUS
<1>7. client'.ctx = "nil" \/ Opening(r) => client.ctx = "nil" \/ Opening(caller[p])
    OBVIOUS
<1>8. (/\ client'.ctx = "nil" \/ Opening(r) \/ caller[p].op # "connect"
       /\ client.conn = None /\ ~client.call
       /\ Resting(caller[p]) \/ caller[p].op = "connect")
          => /\ client'.conn = None /\ ~client'.call
             /\ Resting(r) \/ r.op = "connect"
    OBVIOUS
<1>9. /\ r.pc = "discard" => ~Usable'
      /\ Usable' => Usable \/ (client.ctx = "nil" /\ p = Reader)
    BY <1>3
<1> QED
    BY <1>1, <1>2, <1>4, <1>5, <1>6, <1>7, <1>8, <1>9, WsMove

\* A record of a goroutine that has no connection in its hands.
AtRest(r) == DOMAIN r = CallFields /\ r.pc \in {"idle", "close", "connection"}
             /\ r.op # "connect"

LEMMA RestFacts ==
    ASSUME NEW p, NEW r, AtRest(r)
    PROVE  /\ CallOK(p, r) /\ Resting(r) /\ ~Calling(r) /\ ~Opening(r)
           /\ r.pc # "discard" /\ \A x : ~Grips(r, x)
BY DEF AtRest, CallOK, Resting, Calling, Opening, Grips

LEMMA RestRests == AtRest(W!Rest) /\ W!Rest.pc = "idle" /\ W!Rest.op = "none"
BY DEF AtRest, W!Rest, CallFields

LEMMA ReturnedRests ==
    ASSUME NEW p \in W!Callers, NEW err
    PROVE  AtRest(W!Returned(p, err))
<1> DEFINE closes == err # "ok" /\ (caller[p].op = "read"
                       \/ (caller[p].op = "send" /\ client.maxRetries = 0))
<1>1. CASE closes
    BY <1>1 DEF W!Returned, W!Rest, AtRest, CallFields
<1>2. CASE ~closes
    BY <1>2 DEF W!Returned, W!Rest, AtRest, CallFields
<1> QED
    BY <1>1, <1>2

LEMMA ReconnectedRests ==
    ASSUME NEW p \in W!Callers, NEW err, caller[p].op # "connect"
    PROVE  AtRest(W!Reconnected(p, err))
<1>1. AtRest([W!Rest EXCEPT !.pc = "connection", !.op = caller[p].op])
    BY DEF W!Rest, AtRest, CallFields
<1> QED
    BY <1>1, ReturnedRests DEF W!Reconnected

\* A call of p comes to rest with nothing left open in its hands.
LEMMA WsRests ==
    ASSUME WsInv, NEW p \in W!Callers, NEW r, AtRest(r),
           caller' = [caller EXCEPT ![p] = r], client' = client,
           DOMAIN net' = {"open", "dead", "silent", "refused"}, net'.open \subseteq net.open,
           \A x \in net'.open : ~Grips(caller[p], x)
    PROVE  WsInv'
<1>1. DOMAIN caller' = W!Callers /\ caller'[p] = r
      /\ \A q \in W!Callers \ {p} : caller'[q] = caller[q]
    BY DEF WsInv
<1>2. /\ CallOK(p, r) /\ Resting(r) /\ ~Calling(r) /\ ~Opening(r)
      /\ r.pc # "discard"
    BY RestFacts
<1> QED
    BY <1>1, <1>2, WsQuiet

\* The record of p goes from pc to another one, and nothing else changes.
LEMMA WsGoes ==
    ASSUME WsInv, NEW p \in W!Callers, NEW pc, W!Goto(p, pc)
    PROVE  \E r : /\ DOMAIN caller' = W!Callers /\ caller'[p] = r
                  /\ \A q \in W!Callers \ {p} : caller'[q] = caller[q]
                  /\ DOMAIN r = CallFields /\ r.pc = pc /\ r.op = caller[p].op
                  /\ r.conn = caller[p].conn /\ r.new = caller[p].new
                  /\ r.err = caller[p].err
BY DEF WsInv, CallOK, CallFields, W!Goto

LEMMA ShutsOne ==
    ASSUME NEW x, W!Shut(x)
    PROVE  DOMAIN net' = {"open", "dead", "silent", "refused"} /\ net'.open = net.open \ {x}
BY DEF W!Shut

\* Calls that start.
LEMMA WsStarts ==
    ASSUME WsInv, W!StartRead \/ W!StartSend \/ W!StartClose
    PROVE  WsInv'
<1>1. PICK p \in W!Callers :
          /\ caller[p].pc = "idle" /\ client' = client /\ net' = net
          /\ \E r : AtRest(r) /\ caller' = [caller EXCEPT ![p] = r]
    <2>1. CASE W!StartRead
        <3> DEFINE r == [caller[Reader] EXCEPT !.op = "read", !.pc = "connection"]
        <3>1. Reader \in W!Callers /\ CallOK(Reader, caller[Reader])
            BY DEF W!Callers, WsInv
        <3>2. AtRest(r) /\ caller' = [caller EXCEPT ![Reader] = r]
            BY <2>1, <3>1 DEF W!StartRead, AtRest, CallOK, CallFields, WsInv
        <3> QED BY <2>1, <3>1, <3>2 DEF W!StartRead, W!At
    <2>2. CASE W!StartSend
        <3> DEFINE r == [caller[Sender] EXCEPT !.op = "send", !.pc = "connection"]
        <3>1. Sender \in W!Callers /\ CallOK(Sender, caller[Sender])
            BY DEF W!Callers, WsInv
        <3>2. AtRest(r) /\ caller' = [caller EXCEPT ![Sender] = r]
            BY <2>2, <3>1 DEF W!StartSend, AtRest, CallOK, CallFields, WsInv
        <3> QED BY <2>2, <3>1, <3>2 DEF W!StartSend, W!At
    <2>3. CASE W!StartClose
        <3> DEFINE r == [caller[Closer] EXCEPT !.op = "close", !.pc = "close"]
        <3>1. Closer \in W!Callers /\ CallOK(Closer, caller[Closer])
            BY DEF W!Callers, WsInv
        <3>2. AtRest(r) /\ caller' = [caller EXCEPT ![Closer] = r]
            BY <2>3, <3>1 DEF W!StartClose, AtRest, CallOK, CallFields, WsInv
        <3> QED BY <2>3, <3>1, <3>2 DEF W!StartClose, W!At
    <2> QED BY <2>1, <2>2, <2>3
<1>2. \A x : ~Grips(caller[p], x)
    BY <1>1 DEF Grips
<1>3. DOMAIN net' = {"open", "dead", "silent", "refused"} /\ net'.open \subseteq net.open
    BY <1>1 DEF WsInv
<1>4. PICK r : AtRest(r) /\ caller' = [caller EXCEPT ![p] = r]
    BY <1>1
<1> QED
    BY <1>1, <1>2, <1>3, <1>4, WsRests

\* Connect starts while there is neither a connection nor a context.
LEMMA WsStartConnect ==
    ASSUME WsInv, W!StartConnect
    PROVE  WsInv'
<1>1. Reader \in W!Callers /\ CallOK(Reader, caller[Reader])
    BY DEF W!Callers, WsInv
<1> DEFINE r == caller'[Reader]
<1>2. /\ DOMAIN caller' = W!Callers
      /\ \A q \in W!Callers \ {Reader} : caller'[q] = caller[q]
      /\ DOMAIN r = CallFields /\ r.pc = "dial" /\ r.op = "connect"
    BY <1>1 DEF W!StartConnect, WsInv, CallOK, CallFields
<1>3. /\ DOMAIN client' = ClientFields /\ client'.closed = client.closed
      /\ client'.call = client.call /\ client'.conn = client.conn
      /\ net' = net /\ client.ctx = "nil" /\ caller[Reader].pc = "idle"
    BY DEF W!StartConnect, WsInv, ClientFields, W!At
<1>4. CallOK(Reader, r) /\ ~Calling(r) /\ ~Calling(caller[Reader])
    BY <1>2, <1>3 DEF CallOK, Calling
<1>5. \A q \in W!Callers \ {Reader} : Kept(caller[q], caller'[q])
    BY <1>2 DEF Kept
<1>6. /\ client.closed \in BOOLEAN /\ client.call \in BOOLEAN
      /\ client.closed => client.conn = None
      /\ DOMAIN net = {"open", "dead", "silent", "refused"}
    BY DEF WsInv
<1>7. \A x \in net'.open :
          \/ x = client'.conn \/ Grips(r, x)
          \/ x \in net.open /\ x # client.conn /\ ~Grips(caller[Reader], x)
    <2>1. \A x : ~Grips(caller[Reader], x)
        BY <1>3 DEF Grips
    <2>2. net' = net /\ client'.conn = client.conn
        BY <1>3
    <2> QED BY <2>1, <2>2
<1> QED
    BY <1>1, <1>2, <1>3, <1>4, <1>5, <1>6, <1>7, WsMove

\* connection gives out the installed connection, or waits for the call that
\* reconnects, or fails.
LEMMA Wsconnection ==
    ASSUME WsInv, NEW p \in W!Callers, W!connection(p)
    PROVE  WsInv'
<1>1. caller[p].pc = "connection" /\ client' = client /\ net' = net
      /\ CallOK(p, caller[p]) /\ DOMAIN net = {"open", "dead", "silent", "refused"}
    BY DEF W!connection, W!At, WsInv
<1>2. caller[p].op # "connect" /\ (\A x : ~Grips(caller[p], x)) /\ ~Calling(caller[p])
    BY <1>1 DEF CallOK, Grips, Calling
<1>3. CASE \E e : W!Return(p, e)
    BY <1>1, <1>2, <1>3, ReturnedRests, WsRests DEF W!Return
<1>4. CASE ~\E e : W!Return(p, e)
    <2>1. client.conn # None \/ client.call
        BY <1>4 DEF W!connection
    <2> DEFINE r == caller'[p]
    <2>2. /\ DOMAIN caller' = W!Callers
          /\ \A q \in W!Callers \ {p} : caller'[q] = caller[q]
          /\ DOMAIN r = CallFields /\ r.pc \in {"use", "await"}
          /\ r.op = caller[p].op
        <3>1. \/ caller' = [caller EXCEPT ![p].pc = "use", ![p].conn = client.conn]
              \/ caller' = [caller EXCEPT ![p].pc = "await", ![p].conn = None,
                                         ![p].err = "pending"]
            BY <1>4 DEF W!connection
        <3> QED
            BY <1>1, <3>1 DEF WsInv, CallOK, CallFields
    <2>3. CallOK(p, r) /\ ~Calling(r) /\ ~Opening(r) /\ r.pc # "discard"
        BY <1>2, <2>2 DEF CallOK, Calling, Opening
    <2> QED
        BY <1>1, <1>2, <2>1, <2>2, <2>3, WsQuiet
<1> QED
    BY <1>3, <1>4

LEMMA WswaitForReconnect ==
    ASSUME WsInv, NEW p \in W!Callers, W!waitForReconnect(p)
    PROVE  WsInv'
<1>1. caller[p].pc = "await" /\ client' = client /\ net' = net
      /\ CallOK(p, caller[p]) /\ DOMAIN net = {"open", "dead", "silent", "refused"}
    BY DEF W!waitForReconnect, W!At, WsInv
<1>2. caller[p].op # "connect" /\ \A x : ~Grips(caller[p], x)
    BY <1>1 DEF CallOK, Grips
<1>3. PICK e : caller' = [caller EXCEPT ![p] = W!Reconnected(p, e)]
    BY DEF W!waitForReconnect, W!AfterReconnect
<1> QED
    BY <1>1, <1>2, <1>3, ReconnectedRests, WsRests

\* reconnect returns, waits for the call under way, or takes the failed
\* connection, which is the installed one, away from the client.
LEMMA Wsreconnect ==
    ASSUME WsInv, NEW p \in W!Callers, W!reconnect(p)
    PROVE  WsInv'
<1>1. caller[p].pc = "reconnect" /\ net' = net
      /\ CallOK(p, caller[p]) /\ DOMAIN net = {"open", "dead", "silent", "refused"}
    BY DEF W!reconnect, W!At, WsInv
<1>2. /\ caller[p].op # "connect" /\ \A x : ~Grips(caller[p], x)
      /\ ~Calling(caller[p]) /\ ~Opening(caller[p]) /\ ~Resting(caller[p])
    BY <1>1 DEF CallOK, Grips, Calling, Opening, Resting
<1>3. CASE \E e : W!Return(p, e) /\ client' = client
    BY <1>1, <1>2, <1>3, ReturnedRests, WsRests DEF W!Return
<1>4. CASE W!AfterReconnect(p, "ok") /\ client' = client
    BY <1>1, <1>2, <1>4, ReconnectedRests, WsRests DEF W!AfterReconnect
<1> DEFINE r == caller'[p]
<1>5. CASE caller' = [caller EXCEPT ![p].pc = "await", ![p].err = "pending"]
           /\ client' = client
    <2>1. /\ DOMAIN caller' = W!Callers
          /\ \A q \in W!Callers \ {p} : caller'[q] = caller[q]
          /\ DOMAIN r = CallFields /\ r.pc = "await" /\ r.op = caller[p].op
        BY <1>1, <1>5 DEF WsInv, CallOK, CallFields
    <2>2. CallOK(p, r) /\ ~Calling(r) /\ ~Opening(r) /\ r.pc # "discard"
        BY <1>2, <2>1 DEF CallOK, Calling, Opening
    <2> QED
        BY <1>1, <1>2, <1>5, <2>1, <2>2, WsQuiet
<1>6. CASE /\ client' = [client EXCEPT !.call = TRUE, !.conn = None]
           /\ caller' = [caller EXCEPT ![p].pc = "closeFailed"]
           /\ ~client.call /\ client.conn = caller[p].conn /\ ~client.closed
    <2>1. /\ DOMAIN caller' = W!Callers
          /\ \A q \in W!Callers \ {p} : Kept(caller[q], caller'[q])
          /\ DOMAIN r = CallFields /\ r.pc = "closeFailed" /\ r.op = caller[p].op
          /\ r.conn = caller[p].conn
        BY <1>1, <1>6 DEF WsInv, CallOK, CallFields, Kept
    <2>2. /\ DOMAIN client' = ClientFields /\ client'.call = TRUE
          /\ client'.conn = None /\ client'.ctx = client.ctx
        BY <1>6 DEF WsInv, ClientFields
    <2>3. client'.closed = client.closed /\ client.closed \in BOOLEAN
        BY <1>6 DEF WsInv, ClientFields
    <2>4. CallOK(p, r) /\ ~Opening(r) /\ r.pc # "discard"
        BY <1>2, <2>1 DEF CallOK, Opening
    <2>5. \A x \in net'.open :
              \/ x = client'.conn \/ Grips(r, x)
              \/ x \in net.open /\ x # client.conn /\ ~Grips(caller[p], x)
        <3>1. \A x : x = client.conn => Grips(r, x)
            BY <1>6, <2>1 DEF Grips
        <3> QED BY <1>1, <1>2, <3>1
    <2>6. Usable' <=> Usable
        BY <2>2, <2>3 DEF Usable
    <2> QED
        BY <1>1, <1>2, <1>6, <2>1, <2>2, <2>3, <2>4, <2>5, <2>6, WsMove
<1> QED
    BY <1>3, <1>4, <1>5, <1>6 DEF W!reconnect

\* The steps of the call that reconnects, without a dial.
LEMMA WsRetries ==
    ASSUME WsInv, NEW p \in W!Callers,
           W!CloseFailed(p) \/ W!GiveUp(p) \/ W!RetryDial(p)
    PROVE  WsInv'
<1> DEFINE r == caller'[p]
<1>1. /\ caller[p].pc \in {"closeFailed", "retry"} /\ client' = client
      /\ CallOK(p, caller[p]) /\ DOMAIN net = {"open", "dead", "silent", "refused"}
    BY DEF W!CloseFailed, W!GiveUp, W!RetryDial, W!At, WsInv
<1>2. /\ caller[p].op # "connect" /\ Calling(caller[p]) /\ client.call
    BY <1>1 DEF CallOK, Calling, WsInv
<1>3. /\ DOMAIN caller' = W!Callers
      /\ \A q \in W!Callers \ {p} : caller'[q] = caller[q]
      /\ DOMAIN r = CallFields /\ r.pc \in {"retry", "settle", "dial"}
      /\ r.op = caller[p].op
    BY <1>1 DEF W!CloseFailed, W!GiveUp, W!RetryDial, W!Goto, WsInv, CallOK, CallFields
<1>4. CallOK(p, r) /\ ~Opening(r) /\ r.pc # "discard"
    BY <1>2, <1>3 DEF CallOK, Opening
<1>5. /\ DOMAIN net' = {"open", "dead", "silent", "refused"} /\ net'.open \subseteq net.open
      /\ \A x \in net'.open : ~Grips(caller[p], x)
    <2>1. CASE W!CloseFailed(p)
        <3>1. W!Shut(caller[p].conn) /\ caller[p].pc = "closeFailed"
            BY <2>1 DEF W!CloseFailed, W!At
        <3> QED BY <3>1, ShutsOne DEF Grips
    <2>2. CASE W!GiveUp(p) \/ W!RetryDial(p)
        <3>1. net' = net /\ caller[p].pc = "retry"
            BY <2>2 DEF W!GiveUp, W!RetryDial, W!At
        <3> QED BY <1>1, <3>1 DEF Grips
    <2> QED BY <2>1, <2>2
<1> QED
    BY <1>1, <1>2, <1>3, <1>4, <1>5, WsQuiet

\* The outcome of a reconnect is published: the call is over, the waiting
\* goroutines learn how it went.
LEMMA WsSettle ==
    ASSUME WsInv, NEW p \in W!Callers, W!Settle(p)
    PROVE  WsInv'
<1> DEFINE r == caller'[p]
<1>1. /\ caller[p].pc = "settle" /\ net' = net
      /\ CallOK(p, caller[p]) /\ DOMAIN net = {"open", "dead", "silent", "refused"}
    BY DEF W!Settle, W!At, WsInv
<1>2. /\ caller[p].op # "connect" /\ Calling(caller[p]) /\ client.call
      /\ \A x : ~Grips(caller[p], x)
    BY <1>1 DEF CallOK, Calling, WsInv, Grips
<1>3. PICK e : /\ client' = [client EXCEPT !.call = FALSE, !.terminalErr = e]
               /\ W!Publish(p, e, W!Waiting)
    BY DEF W!Settle
<1>4. /\ DOMAIN client' = ClientFields /\ client'.call = FALSE
      /\ client'.conn = client.conn /\ client'.ctx = client.ctx
    BY <1>3 DEF WsInv, ClientFields
<1>5. /\ client'.closed = client.closed /\ client.closed \in BOOLEAN
      /\ client.closed => client.conn = None
    BY <1>3 DEF WsInv, ClientFields
<1>6. DOMAIN caller' = W!Callers /\ AtRest(r)
    BY <1>2, <1>3, ReconnectedRests DEF W!Publish
<1>7. CallOK(p, r) /\ Resting(r) /\ ~Calling(r) /\ ~Opening(r) /\ r.pc # "discard"
    BY <1>6, RestFacts
<1>8. ASSUME NEW q \in W!Callers, q # p PROVE Kept(caller[q], caller'[q])
    <2>1. CallOK(q, caller[q])
        BY DEF WsInv
    <2>2. CASE q \in W!Waiting
        <3>1. caller'[q] = [caller[q] EXCEPT !.err = e] /\ caller[q].pc = "await"
            BY <1>3, <1>8, <2>2 DEF W!Publish, W!Waiting, W!At
        <3> QED BY <2>1, <3>1 DEF Kept, CallOK, CallFields
    <2>3. CASE q \notin W!Waiting
        <3>1. caller'[q] = caller[q]
            BY <1>3, <1>8, <2>3 DEF W!Publish
        <3> QED BY <3>1 DEF Kept
    <2> QED BY <2>2, <2>3
<1>9. Usable' <=> Usable
    BY <1>4, <1>5 DEF Usable
<1> QED
    BY <1>1, <1>2, <1>4, <1>5, <1>6, <1>7, <1>8, <1>9, WsMove

\* What a dial's caller goes on to, whatever the outcome.
LEMMA DialReturnsTo ==
    ASSUME WsInv, NEW p \in W!Callers, NEW err, W!DialReturns(p, err),
           W!Dialling(p)
    PROVE  /\ DOMAIN caller' = W!Callers
           /\ \A q \in W!Callers \ {p} : caller'[q] = caller[q]
           /\ CallOK(p, caller'[p])
           /\ caller[p].op = "connect" =>
                 /\ caller'[p].op = "connect" /\ ~Calling(caller'[p])
                 /\ Opening(caller[p]) /\ (err # "ok" <=> Opening(caller'[p]))
           /\ caller[p].op # "connect" =>
                 Calling(caller[p]) /\ Calling(caller'[p]) /\ ~Opening(caller'[p])
           /\ caller'[p].pc # "discard" /\ \A x : ~Grips(caller'[p], x)
<1> DEFINE c == [caller[p] EXCEPT !.new = None, !.err = err]
           s == [c EXCEPT !.pc = "connected"]
           t == [c EXCEPT !.pc = "settle"]
           u == [c EXCEPT !.pc = "retry",
                          !.retries = IF client.maxRetries < 0 THEN 0 ELSE @ + 1]
<1>1. CallOK(p, caller[p]) /\ DOMAIN caller = W!Callers
      /\ caller[p].pc \in {"dial", "install", "discard"}
    BY DEF WsInv, W!Dialling
<1>2. DOMAIN c = CallFields /\ c.op = caller[p].op /\ c.err = err
    BY <1>1 DEF CallOK, CallFields
<1>3. caller' = [caller EXCEPT ![p] = IF c.op = "connect" THEN s
                                      ELSE IF err = "ok" THEN t ELSE u]
    BY DEF W!DialReturns
<1> HIDE DEF c
<1>4. DOMAIN s = CallFields /\ s.op = c.op /\ s.err = c.err /\ s.pc = "connected"
    BY <1>2 DEF CallFields
<1>5. DOMAIN t = CallFields /\ t.op = c.op /\ t.pc = "settle"
    BY <1>2 DEF CallFields
<1>6. DOMAIN u = CallFields /\ u.op = c.op /\ u.pc = "retry"
    BY <1>2 DEF CallFields
<1> HIDE DEF s, t, u
<1>7. /\ DOMAIN caller' = W!Callers
      /\ \A q \in W!Callers \ {p} : caller'[q] = caller[q]
      /\ c.op = "connect" => caller'[p] = s
      /\ c.op # "connect" => caller'[p] \in {t, u}
    BY <1>1, <1>3
<1>8. CASE c.op = "connect"
    BY <1>1, <1>2, <1>4, <1>7, <1>8 DEF CallOK, Calling, Opening, Grips
<1>9. CASE c.op # "connect"
    BY <1>1, <1>2, <1>5, <1>6, <1>7, <1>9 DEF CallOK, Calling, Opening, Grips
<1> QED
    BY <1>8, <1>9

\* A dial that ends without a connection: it failed, or the client was closed
\* or cancelled meanwhile and the connection is closed again.
LEMMA WsDialEnds ==
    ASSUME WsInv, NEW p \in W!Callers, W!DialFails(p) \/ W!Discard(p)
    PROVE  WsInv'
<1> DEFINE r == caller'[p]
<1>1. PICK e : W!DialReturns(p, e) /\ e # "ok"
    <2>1. CASE W!DialFails(p)
        BY <2>1 DEF W!DialFails
    <2>2. CASE W!Discard(p)
        <3>1. ~Usable
            BY <2>2 DEF W!Discard, W!At, WsInv
        <3>2. W!stateError # "ok"
            BY <3>1 DEF Usable, W!stateError
        <3> QED BY <2>2, <3>2 DEF W!Discard
    <2> QED BY <2>1, <2>2
<1>2. client' = client /\ W!Dialling(p) /\ DOMAIN net = {"open", "dead", "silent", "refused"}
    BY DEF W!DialFails, W!Discard, W!At, W!Dialling, WsInv
<1>3. /\ DOMAIN net' = {"open", "dead", "silent", "refused"} /\ net'.open \subseteq net.open
      /\ \A x \in net'.open : ~Grips(caller[p], x)
    <2>1. CASE W!Discard(p)
        <3>1. W!Shut(caller[p].new) /\ caller[p].pc = "discard"
            BY <2>1 DEF W!Discard, W!At
        <3> QED BY <3>1, ShutsOne DEF Grips
    <2>2. CASE W!DialFails(p)
        <3>1. net' = net /\ caller[p].pc = "dial"
            BY <2>2 DEF W!DialFails, W!At
        <3> QED BY <1>2, <3>1 DEF Grips
    <2> QED BY <2>1, <2>2
<1>4. /\ DOMAIN caller' = W!Callers
      /\ \A q \in W!Callers \ {p} : caller'[q] = caller[q]
      /\ CallOK(p, caller'[p]) /\ caller'[p].pc # "discard"
    BY <1>1, <1>2, DialReturnsTo
<1>5. /\ Calling(r) => Calling(caller[p])
      /\ Opening(r) => Opening(caller[p])
    BY <1>1, <1>2, DialReturnsTo
<1>6. (/\ client.conn = None /\ ~client.call
       /\ Resting(caller[p]) \/ caller[p].op = "connect")
          => Resting(r) \/ r.op = "connect"
    <2>1. caller[p].op = "connect" => r.op = "connect"
        BY <1>1, <1>2, DialReturnsTo
    <2> QED BY <1>2, <2>1 DEF Resting, W!Dialling
<1> QED
    BY <1>2, <1>3, <1>4, <1>5, <1>6, WsQuiet

LEMMA WsDialOpens ==
    ASSUME WsInv, NEW p \in W!Callers, W!DialOpens(p)
    PROVE  WsInv'
<1> DEFINE r == caller'[p]
<1>1. /\ caller[p].pc = "dial" /\ client' = client /\ CallOK(p, caller[p])
    BY DEF W!DialOpens, W!At, WsInv
<1>2. PICK c : /\ net' = [open |-> net.open \cup {c}, dead |-> net.dead \ {c},
                          silent |-> net.silent \ {c}, refused |-> net.refused \ {c}]
               /\ caller' = [caller EXCEPT ![p].pc = "install", ![p].new = c]
    BY DEF W!DialOpens
<1>3. /\ DOMAIN caller' = W!Callers
      /\ \A q \in W!Callers \ {p} : caller'[q] = caller[q]
      /\ DOMAIN r = CallFields /\ r.pc = "install" /\ r.op = caller[p].op /\ r.new = c
    BY <1>1, <1>2 DEF WsInv, CallOK, CallFields
<1>4. /\ CallOK(p, r) /\ r.pc # "discard"
      /\ Calling(r) => Calling(caller[p])
      /\ Opening(r) => Opening(caller[p])
    BY <1>1, <1>3 DEF CallOK, Calling, Opening
<1>5. \A q \in W!Callers \ {p} : Kept(caller[q], caller'[q])
    BY <1>3 DEF Kept
<1>6. DOMAIN net' = {"open", "dead", "silent", "refused"} /\ net'.open = net.open \cup {c}
    BY <1>2
<1>7. \A x \in net'.open :
          \/ x = client'.conn \/ Grips(r, x)
          \/ x \in net.open /\ x # client.conn /\ ~Grips(caller[p], x)
    <2>1. Grips(r, c) /\ \A x : ~Grips(caller[p], x)
        BY <1>1, <1>3 DEF Grips
    <2> QED BY <1>1, <1>6, <2>1
<1>8. /\ DOMAIN client' = ClientFields
      /\ client'.closed \in BOOLEAN /\ client'.call \in BOOLEAN
      /\ client'.closed => client'.conn = None
      /\ Calling(caller[p]) => client'.call
    BY <1>1 DEF WsInv
<1>9. Usable' <=> Usable
    BY <1>1 DEF Usable
<1>10. (/\ client'.ctx = "nil" \/ Opening(r) \/ caller[p].op # "connect"
        /\ client.conn = None /\ ~client.call
        /\ Resting(caller[p]) \/ caller[p].op = "connect")
          => /\ client'.conn = None /\ ~client'.call
             /\ Resting(r) \/ r.op = "connect"
    BY <1>1, <1>3 DEF Resting
<1>11. client'.ctx = "nil" \/ Opening(r) => client.ctx = "nil" \/ Opening(caller[p])
    BY <1>1, <1>4
<1> QED
    BY <1>1, <1>3, <1>4, <1>5, <1>6, <1>7, <1>8, <1>9, <1>10, <1>11, WsMove

\* A new connection is installed in place of the old one, which is closed.
LEMMA WsInstall ==
    ASSUME WsInv, NEW p \in W!Callers, W!Install(p)
    PROVE  WsInv'
<1> DEFINE r == caller'[p]
<1>1. /\ caller[p].pc = "install" /\ CallOK(p, caller[p]) /\ W!Dialling(p)
      /\ DOMAIN net = {"open", "dead", "silent", "refused"}
    BY DEF W!Install, W!At, WsInv, W!Dialling
<1>2. W!stateError = "ok" <=> Usable
    BY DEF W!stateError, Usable
<1>3. CASE ~Usable
    <2>1. W!Goto(p, "discard") /\ client' = client /\ net' = net
        BY <1>2, <1>3 DEF W!Install
    <2>2. PICK s : /\ DOMAIN caller' = W!Callers /\ caller'[p] = s
                   /\ \A q \in W!Callers \ {p} : caller'[q] = caller[q]
                   /\ DOMAIN s = CallFields /\ s.pc = "discard" /\ s.op = caller[p].op
                   /\ s.conn = caller[p].conn /\ s.new = caller[p].new
                   /\ s.err = caller[p].err
        BY <2>1, WsGoes
    <2>3. /\ CallOK(p, s)
          /\ Calling(s) => Calling(caller[p])
          /\ Opening(s) => Opening(caller[p])
          /\ Resting(caller[p]) \/ caller[p].op = "connect" => Resting(s) \/ s.op = "connect"
          /\ \A x : Grips(caller[p], x) => Grips(s, x)
        BY <1>1, <2>2 DEF CallOK, Calling, Opening, Resting, Grips
    <2> QED
        BY <1>1, <1>3, <2>1, <2>2, <2>3, WsQuiet
<1>4. CASE Usable
    <2>1. /\ client' = [client EXCEPT !.conn = caller[p].new]
          /\ W!Shut(client.conn) /\ W!DialReturns(p, "ok")
        BY <1>2, <1>4 DEF W!Install
    <2>2. /\ DOMAIN caller' = W!Callers
          /\ \A q \in W!Callers \ {p} : caller'[q] = caller[q]
          /\ CallOK(p, r) /\ r.pc # "discard" /\ ~Opening(r)
          /\ caller[p].op = "connect" => ~Calling(r)
          /\ caller[p].op # "connect" => Calling(caller[p])
        BY <1>1, <2>1, DialReturnsTo
    <2>3. \A q \in W!Callers \ {p} : Kept(caller[q], caller'[q])
        BY <2>2 DEF Kept
    <2>4. /\ DOMAIN client' = ClientFields /\ client'.conn = caller[p].new
          /\ client'.ctx = client.ctx
        BY <2>1 DEF WsInv, ClientFields
    <2>5. /\ client'.closed = client.closed /\ client'.call = client.call
          /\ client.closed \in BOOLEAN /\ client.call \in BOOLEAN
        BY <2>1 DEF WsInv, ClientFields
    <2>6. (Calling(caller[p]) => client.call) /\ client.ctx # "nil" /\ ~client.closed
        BY <1>4 DEF WsInv, Usable
    <2>7. DOMAIN net' = {"open", "dead", "silent", "refused"} /\ net'.open = net.open \ {client.conn}
        BY <2>1, ShutsOne
    <2>8. \A x \in net'.open :
              \/ x = client'.conn \/ Grips(r, x)
              \/ x \in net.open /\ x # client.conn /\ ~Grips(caller[p], x)
        <3>1. \A x : Grips(caller[p], x) => x = client'.conn
            BY <1>1, <2>4 DEF Grips
        <3> QED BY <2>7, <3>1
    <2>9. Usable' <=> Usable
        BY <2>4, <2>5 DEF Usable
    <2> QED
        BY <1>1, <2>2, <2>3, <2>4, <2>5, <2>6, <2>7, <2>8, <2>9, WsMove
<1> QED
    BY <1>3, <1>4

\* Connect ends; after a failure the client may be connected again.
LEMMA WsConnected ==
    ASSUME WsInv, NEW p \in W!Callers, W!Connected(p)
    PROVE  WsInv'
<1> DEFINE r == caller'[p]
           failed == caller[p].err # "ok"
<1>1. /\ caller[p].pc = "connected" /\ net' = net /\ CallOK(p, caller[p])
      /\ DOMAIN net = {"open", "dead", "silent", "refused"}
    BY DEF W!Connected, W!At, WsInv
<1>2. /\ caller[p].op = "connect" /\ ~Calling(caller[p])
      /\ failed => Opening(caller[p])
      /\ \A x : ~Grips(caller[p], x)
    BY <1>1 DEF CallOK, Calling, Opening, Grips
<1>3. client' = [client EXCEPT !.connecting = FALSE,
                     !.ctx = IF failed /\ ~client.closed THEN "nil" ELSE @]
      /\ \E e : W!Return(p, e)
    BY DEF W!Connected
<1>4. DOMAIN caller' = W!Callers /\ AtRest(r)
      /\ \A q \in W!Callers \ {p} : Kept(caller[q], caller'[q])
    BY <1>3, ReturnedRests DEF W!Return, WsInv, Kept
<1>5. CallOK(p, r) /\ Resting(r) /\ ~Calling(r) /\ ~Opening(r) /\ r.pc # "discard"
    BY <1>4, RestFacts
<1>6. /\ DOMAIN client' = ClientFields /\ client'.conn = client.conn
      /\ client'.ctx = client.ctx \/ (client'.ctx = "nil" /\ failed)
    BY <1>3 DEF WsInv, ClientFields
<1>7. /\ client'.closed = client.closed /\ client'.call = client.call
      /\ client.closed \in BOOLEAN /\ client.call \in BOOLEAN
      /\ client.closed => client.conn = None
    BY <1>3 DEF WsInv, ClientFields
<1>8. Usable' => Usable
    BY <1>6, <1>7 DEF Usable
<1> QED
    BY <1>1, <1>2, <1>4, <1>5, <1>6, <1>7, <1>8, WsMove

\* Reading and writing on the connection that connection gave out.
LEMMA WsUses ==
    ASSUME WsInv, NEW p \in W!Callers,
           W!ReadOk(p) \/ W!ReadFails(p)
    PROVE  WsInv'
<1>1. /\ caller[p].pc = "use" /\ client' = client /\ net' = net
      /\ CallOK(p, caller[p]) /\ DOMAIN net = {"open", "dead", "silent", "refused"}
    BY DEF W!ReadOk, W!ReadFails, W!At, WsInv
<1>2. /\ caller[p].op # "connect" /\ \A x : ~Grips(caller[p], x)
      /\ ~Resting(caller[p])
    BY <1>1 DEF CallOK, Grips, Resting
<1>3. CASE W!Return(p, "ok")
    BY <1>1, <1>2, <1>3, ReturnedRests, WsRests DEF W!Return
<1>4. CASE W!Goto(p, "reconnect")
    <2>1. PICK s : /\ DOMAIN caller' = W!Callers /\ caller'[p] = s
                   /\ \A q \in W!Callers \ {p} : caller'[q] = caller[q]
                   /\ DOMAIN s = CallFields /\ s.pc = "reconnect" /\ s.op = caller[p].op
        BY <1>4, WsGoes
    <2>2. CallOK(p, s) /\ ~Calling(s) /\ ~Opening(s) /\ s.pc # "discard"
        BY <1>2, <2>1 DEF CallOK, Calling, Opening
    <2> QED
        BY <1>1, <1>2, <2>1, <2>2, WsQuiet
<1> QED
    BY <1>3, <1>4 DEF W!ReadOk, W!ReadFails

\* A refused connection is taken from the client and then closed.
LEMMA WsReadRefused ==
    ASSUME WsInv, NEW p \in W!Callers, W!ReadRefused(p)
    PROVE  WsInv'
<1>1. /\ caller[p].pc = "use" /\ net' = net /\ W!Goto(p, "closeRefused")
      /\ CallOK(p, caller[p]) /\ DOMAIN net = {"open", "dead", "silent", "refused"}
    BY DEF W!ReadRefused, W!At, WsInv
<1>2. /\ caller[p].op # "connect" /\ \A x : ~Grips(caller[p], x)
      /\ ~Resting(caller[p]) /\ ~Calling(caller[p])
    BY <1>1 DEF CallOK, Grips, Resting, Calling
<1>3. PICK s : /\ DOMAIN caller' = W!Callers /\ caller'[p] = s
               /\ \A q \in W!Callers \ {p} : caller'[q] = caller[q]
               /\ DOMAIN s = CallFields /\ s.pc = "closeRefused" /\ s.op = caller[p].op
               /\ s.conn = caller[p].conn
    BY <1>1, WsGoes
<1>4. /\ CallOK(p, s) /\ ~Calling(s) /\ ~Opening(s) /\ s.pc # "discard"
      /\ Grips(s, caller[p].conn)
    BY <1>2, <1>3 DEF CallOK, Calling, Opening, Grips
<1>5. \A q \in W!Callers \ {p} : Kept(caller[q], caller'[q])
    BY <1>3 DEF Kept
<1>6. /\ DOMAIN client' = ClientFields /\ client'.ctx = client.ctx
      /\ \/ client'.conn = None /\ client.conn = caller[p].conn
         \/ client'.conn = client.conn
    BY DEF W!ReadRefused, WsInv, ClientFields
<1>7. /\ client'.closed = client.closed /\ client'.call = client.call
      /\ client.closed \in BOOLEAN /\ client.call \in BOOLEAN
      /\ client.closed => client.conn = None
    BY DEF W!ReadRefused, WsInv, ClientFields
<1>8. \A x \in net'.open :
          \/ x = client'.conn \/ Grips(s, x)
          \/ x \in net.open /\ x # client.conn /\ ~Grips(caller[p], x)
    BY <1>1, <1>2, <1>4, <1>6
<1>9. Usable' <=> Usable
    BY <1>6, <1>7 DEF Usable
<1> QED
    BY <1>1, <1>2, <1>3, <1>4, <1>5, <1>6, <1>7, <1>8, <1>9, WsMove

LEMMA WsCloseRefused ==
    ASSUME WsInv, NEW p \in W!Callers, W!CloseRefused(p)
    PROVE  WsInv'
<1>1. /\ caller[p].pc = "closeRefused" /\ client' = client
      /\ W!Shut(caller[p].conn) /\ W!Return(p, "refused")
    BY DEF W!CloseRefused, W!At
<1>2. /\ DOMAIN net' = {"open", "dead", "silent", "refused"} /\ net'.open \subseteq net.open
      /\ \A x \in net'.open : ~Grips(caller[p], x)
    BY <1>1, ShutsOne DEF Grips
<1> QED
    BY <1>1, <1>2, ReturnedRests, WsRests DEF W!Return

\* SendMessageIfConnected: nobody is unconnected while a connection is there.
LEMMA WsStartSendIfConnected ==
    ASSUME WsInv, W!StartSendIfConnected
    PROVE  WsInv'
<1> DEFINE r == caller'[Watcher]
<1>1. /\ Watcher \in W!Callers /\ CallOK(Watcher, caller[Watcher])
      /\ caller[Watcher].pc = "idle" /\ client' = client /\ net' = net
      /\ client.conn # None /\ DOMAIN net = {"open", "dead", "silent", "refused"}
    BY DEF W!StartSendIfConnected, W!At, W!Callers, WsInv
<1>2. /\ DOMAIN caller' = W!Callers
      /\ \A q \in W!Callers \ {Watcher} : caller'[q] = caller[q]
      /\ DOMAIN r = CallFields /\ r.pc = "lock" /\ r.op = "sendIf"
    BY <1>1 DEF W!StartSendIfConnected, WsInv, CallOK, CallFields
<1>3. /\ CallOK(Watcher, r) /\ ~Calling(r) /\ ~Opening(r) /\ r.pc # "discard"
      /\ \A x : ~Grips(caller[Watcher], x)
    BY <1>1, <1>2 DEF CallOK, Calling, Opening, Grips
<1> QED
    BY <1>1, <1>2, <1>3, WsQuiet

\* The goroutine that holds or takes writeMu, with whatever it closes.
LEMMA WsWriteMu ==
    ASSUME WsInv, NEW p \in W!Callers,
           \/ W!SendLocks(p) \/ W!SendWrites(p)
           \/ W!Recheck(p) \/ W!WriteIfConnected(p)
    PROVE  WsInv'
<1> DEFINE r == caller'[p]
<1>1. caller[p].pc \in {"use", "lock", "write"} /\ CallOK(p, caller[p])
    BY DEF W!SendLocks, W!SendWrites, W!Recheck, W!WriteIfConnected, W!Writes, W!At, WsInv
<1>2. /\ caller[p].op # "connect" /\ \A x : ~Grips(caller[p], x)
      /\ ~Resting(caller[p]) /\ ~Calling(caller[p])
    BY <1>1 DEF CallOK, Grips, Resting, Calling
<1>3. /\ DOMAIN caller' = W!Callers /\ DOMAIN r = CallFields
      /\ r.pc \in {"write", "reconnect", "idle", "close", "connection"} /\ r.op # "connect"
      /\ \A q \in W!Callers \ {p} : Kept(caller[q], caller'[q])
    <2>1. CASE \E e : W!Return(p, e)
        BY <2>1, ReturnedRests DEF W!Return, WsInv, Kept, AtRest
    <2>2. CASE W!Goto(p, "write") \/ W!Goto(p, "reconnect")
        BY <1>1, <1>2, <2>2 DEF W!Goto, WsInv, Kept, CallOK, CallFields
    <2> QED
        BY <2>1, <2>2 DEF W!SendLocks, W!SendWrites, W!Recheck, W!WriteIfConnected
<1>4. CallOK(p, r) /\ ~Calling(r) /\ ~Opening(r) /\ r.pc # "discard"
    BY <1>3 DEF CallOK, Calling, Opening
<1>w. client' = client \/ \E x : client' = [client EXCEPT !.writeMu = x]
    BY DEF W!SendLocks, W!SendWrites, W!Recheck, W!WriteIfConnected, W!Writes
<1>5. /\ DOMAIN client' = ClientFields /\ client'.ctx = client.ctx
      /\ client'.conn = client.conn
    BY <1>w DEF WsInv, ClientFields
<1>6. /\ client'.closed = client.closed /\ client'.call = client.call
      /\ client.closed \in BOOLEAN /\ client.call \in BOOLEAN
      /\ client.closed => client.conn = None
    BY <1>w DEF WsInv, ClientFields
<1>7. DOMAIN net' = {"open", "dead", "silent", "refused"} /\ net'.open \subseteq net.open
    <2>1. net' = net \/ \E x : W!Shut(x)
        BY DEF W!SendLocks, W!SendWrites, W!Recheck, W!WriteIfConnected
    <2> QED
        BY <2>1, ShutsOne DEF WsInv
<1>8. Usable' <=> Usable
    BY <1>5, <1>6 DEF Usable
<1>9. \A x \in net'.open :
          \/ x = client'.conn \/ Grips(r, x)
          \/ x \in net.open /\ x # client.conn /\ ~Grips(caller[p], x)
    BY <1>2, <1>5, <1>7
<1> QED
    BY <1>2, <1>3, <1>4, <1>5, <1>6, <1>7, <1>8, <1>9, WsMove

\* Close takes the connection from the client, marks it closed, and closes the
\* connection afterwards.
LEMMA WsClose ==
    ASSUME WsInv, NEW p \in W!Callers, W!Close(p)
    PROVE  WsInv'
<1> DEFINE r == caller'[p]
<1>1. /\ caller[p].pc = "close" /\ CallOK(p, caller[p]) /\ net' = net
      /\ DOMAIN net = {"open", "dead", "silent", "refused"}
    BY DEF W!Close, W!At, WsInv
<1>2. /\ caller[p].op # "connect" /\ \A x : ~Grips(caller[p], x)
      /\ ~Calling(caller[p])
    BY <1>1 DEF CallOK, Grips, Calling
<1>3. CASE client.closed
    BY <1>1, <1>2, <1>3, RestRests, WsRests DEF W!Close
<1>4. CASE ~client.closed
    <2>1. /\ DOMAIN caller' = W!Callers /\ DOMAIN r = CallFields
          /\ r.pc = "closeConn" /\ r.op = caller[p].op /\ r.conn = client.conn
          /\ \A q \in W!Callers \ {p} : Kept(caller[q], caller'[q])
        BY <1>1, <1>4 DEF W!Close, WsInv, Kept, CallOK, CallFields
    <2>2. /\ CallOK(p, r) /\ ~Calling(r) /\ ~Opening(r) /\ r.pc # "discard"
          /\ Resting(r) /\ Grips(r, client.conn)
        BY <1>2, <2>1 DEF CallOK, Calling, Opening, Grips, Resting
    <2>3. /\ DOMAIN client' = ClientFields /\ client'.ctx = client.ctx
          /\ client'.conn = None /\ client'.closed = TRUE
        BY <1>4 DEF W!Close, WsInv, ClientFields
    <2>4. client'.call = client.call /\ client.call \in BOOLEAN
        BY <1>4 DEF W!Close, WsInv, ClientFields
    <2>5. ~Usable'
        BY <2>3 DEF Usable
    <2>6. \A x \in net'.open :
              \/ x = client'.conn \/ Grips(r, x)
              \/ x \in net.open /\ x # client.conn /\ ~Grips(caller[p], x)
        BY <1>1, <1>2, <2>2
    <2> QED
        BY <1>1, <1>2, <2>1, <2>2, <2>3, <2>4, <2>5, <2>6, WsMove
<1> QED
    BY <1>3, <1>4

LEMMA WsCloseConn ==
    ASSUME WsInv, NEW p \in W!Callers, W!CloseConn(p)
    PROVE  WsInv'
<1> DEFINE r == caller'[p]
<1>1. /\ caller[p].pc = "closeConn" /\ CallOK(p, caller[p])
      /\ W!Shut(caller[p].conn) /\ caller' = [caller EXCEPT ![p] = W!Rest]
    BY DEF W!CloseConn, W!At, WsInv
<1>2. /\ DOMAIN net' = {"open", "dead", "silent", "refused"} /\ net'.open \subseteq net.open
      /\ \A x \in net'.open : ~Grips(caller[p], x)
      /\ ~Calling(caller[p]) /\ caller[p].op # "connect"
    BY <1>1, ShutsOne DEF Grips, CallOK, Calling
<1>3. /\ DOMAIN caller' = W!Callers /\ AtRest(r)
      /\ \A q \in W!Callers \ {p} : Kept(caller[q], caller'[q])
    BY <1>1, RestRests DEF WsInv, Kept
<1>4. CallOK(p, r) /\ ~Calling(r) /\ ~Opening(r) /\ r.pc # "discard" /\ Resting(r)
    BY <1>3, RestFacts
<1>5. /\ DOMAIN client' = ClientFields /\ client'.conn = client.conn
      /\ client'.ctx = client.ctx \/ client'.ctx = "cancelled"
    BY DEF W!CloseConn, WsInv, ClientFields
<1>6. /\ client'.closed = client.closed /\ client'.call = client.call
      /\ client.closed \in BOOLEAN /\ client.call \in BOOLEAN
      /\ client.closed => client.conn = None
    BY DEF W!CloseConn, WsInv, ClientFields
<1>7. Usable' => Usable
    BY <1>5, <1>6 DEF Usable
<1>8. \A x \in net'.open :
          \/ x = client'.conn \/ Grips(r, x)
          \/ x \in net.open /\ x # client.conn /\ ~Grips(caller[p], x)
    BY <1>2, <1>5
<1> QED
    BY <1>2, <1>3, <1>4, <1>5, <1>6, <1>7, <1>8, WsMove

\* What happens around the client opens and closes nothing.
LEMMA WsAround ==
    ASSUME WsInv,
           W!ParentCancelled \/ W!Refuse \/ W!Silence \/ (\E c \in Conns : W!Break(c))
           \/ UNCHANGED wsVars
    PROVE  WsInv'
<1>1. caller' = caller
    BY DEF W!ParentCancelled, W!Refuse, W!Silence, W!Break, wsVars
<1>2. DOMAIN net' = {"open", "dead", "silent", "refused"} /\ net'.open = net.open
    BY DEF W!ParentCancelled, W!Refuse, W!Silence, W!Break, wsVars, WsInv
<1>3. \/ client' = client
      \/ client' = [client EXCEPT !.ctx = "cancelled"]
    BY DEF W!ParentCancelled, W!Refuse, W!Silence, W!Break, wsVars
<1>4. /\ DOMAIN client' = ClientFields /\ client'.conn = client.conn
      /\ client'.ctx \in {client.ctx, "cancelled"}
    BY <1>3 DEF WsInv, ClientFields
<1>5. client'.closed = client.closed /\ client'.call = client.call
    BY <1>3 DEF WsInv, ClientFields
<1>6. (Usable' => Usable) /\ (Unconnected' => Unconnected)
    BY <1>1, <1>4, <1>5 DEF Usable, Unconnected
<1> QED
    BY <1>1, <1>2, <1>4, <1>5, <1>6 DEF WsInv

LEMMA WsStep == WsInv /\ [W!Next]_wsVars => WsInv'
<1> SUFFICES ASSUME WsInv, [W!Next]_wsVars PROVE WsInv'
    OBVIOUS
<1>1. CASE W!StartConnect \/ W!StartRead \/ W!StartSend \/ W!StartSendIfConnected
           \/ W!StartClose
    BY <1>1, WsStartConnect, WsStarts, WsStartSendIfConnected
<1>2. ASSUME NEW p \in W!Callers, W!Step(p) \/ W!DialFails(p) \/ W!DialOpens(p)
      PROVE  WsInv'
    BY <1>2, Wsconnection, WswaitForReconnect, Wsreconnect, WsRetries, WsSettle,
       WsDialEnds, WsDialOpens, WsInstall, WsConnected, WsUses, WsReadRefused,
       WsCloseRefused, WsWriteMu, WsClose, WsCloseConn DEF W!Step
<1>3. CASE W!ParentCancelled \/ W!Refuse \/ W!Silence \/ (\E c \in Conns : W!Break(c))
           \/ UNCHANGED wsVars
    BY <1>3, WsAround
<1> QED
    BY <1>1, <1>2, <1>3 DEF W!Next

\* Every open connection is installed or in the hands of a goroutine that will
\* install or close it, a closed client has none installed, and at most one
\* goroutine dials: for any set of connection names, with and without retries
\* (dial, reconnect, Close: pkg/ws/ws.go).
THEOREM ConnectionsAreOwned == W!Spec => []ConnectionsOwned
<1>1. WsInv /\ [W!Next]_(W!wsVars) => WsInv'
    BY WsStep DEF W!wsVars, wsVars
<1> QED
    BY WsInit, WsOwned, <1>1, PTL DEF W!Spec

-----------------------------------------------------------------------------
(* Alert rules *)

RowFields == {"id", "threshold", "duration", "last", "fresh"}
Tellings == [news : {"none", "alarm", "clear", "unaddressed"}, ahead : BOOLEAN]

\* RecordedWasTold for one rule, and more: a status rule that was never
\* recorded as down, and whose state does not lag behind, has not said so.
Right(k, last, t) ==
    \/ t.ahead /\ k[2] = "status"
    \/ /\ last = A!Alarm(k) => t.news \in {"alarm", "unaddressed"}
       /\ k[2] = "status" /\ last # "off" => t.news # "alarm"

\* What a row has told once the state queued for it is recorded.
AfterRecord(by, t) ==
    IF by = "delivered" THEN [t EXCEPT !.ahead = FALSE]
    ELSE IF by = "unaddressed" THEN [news |-> "unaddressed", ahead |-> FALSE]
    ELSE IF by = "over" THEN [news |-> "none", ahead |-> FALSE]
    ELSE t

Row(r, n) == DOMAIN r = RowFields /\ r.id \in 1..n

\* Rows have ids of their own, which are never used again.
RowsInv ==
    /\ told \in Seq(Tellings)
    /\ DOMAIN teamRules \subseteq Items
    /\ \A k \in DOMAIN rules : Row(rules[k], Len(told))
    /\ \A j, k \in DOMAIN rules : rules[j].id = rules[k].id => j = k
    /\ \A k \in DOMAIN rules : Right(k, rules[k].last, told[rules[k].id])

\* The rows a round has read and not yet evaluated have kept their states, if
\* they are still there.
SnapInv ==
    /\ \A k \in DOMAIN round.snap : Row(round.snap[k], Len(told))
    /\ \A j, k \in DOMAIN round.snap : round.snap[j].id = round.snap[k].id => j = k
    /\ \A k \in DOMAIN round.snap, j \in DOMAIN rules :
          rules[j].id = round.snap[k].id => j = k /\ rules[j].last = round.snap[k].last

\* A queued state is right for its row, once what was told on the way is
\* taken into account.
QueueInv ==
    /\ DOMAIN round.queue \subseteq 1..Len(told)
    /\ \A k \in DOMAIN round.snap : round.snap[k].id \notin DOMAIN round.queue
    /\ \A k \in DOMAIN rules : rules[k].id \in DOMAIN round.queue =>
          LET q == round.queue[rules[k].id]
          IN  Right(k, q.new.last, AfterRecord(q.by, told[rules[k].id]))

RoundInv ==
    /\ round.phase \in {"idle", "channels", "load", "check"}
    /\ round.phase # "idle" => SnapInv
    /\ round.phase = "load" =>
          DOMAIN round = {"phase", "snap", "channels", "plans", "loaded"}
    /\ round.phase = "check" =>
          /\ DOMAIN round = {"phase", "snap", "channels", "queue", "loaded"}
          /\ QueueInv

AlertInv == RowsInv /\ RoundInv

LEMMA AlertInit == A!Init => AlertInv
<1> SUFFICES ASSUME A!Init PROVE AlertInv
    OBVIOUS
<1>1. rules = << >> /\ teamRules = << >> /\ told = << >> /\ round.phase = "idle"
    BY DEF A!Init, A!Idle
<1>2. DOMAIN rules = {} /\ DOMAIN teamRules = {} /\ told \in Seq(Tellings)
    BY <1>1
<1> QED
    BY <1>1, <1>2 DEF AlertInv, RowsInv, RoundInv

LEMMA AlertRight == AlertInv => RecordedWasTold
<1> SUFFICES ASSUME AlertInv, NEW k \in DOMAIN rules
             PROVE  LET r == rules[k]  t == told[rules[k].id] IN
                    \/ t.ahead /\ k[2] = "status"
                    \/ /\ r.last = A!Alarm(k) => t.news \in {"alarm", "unaddressed"}
                       /\ (k[2] = "status" /\ r.last = "on") => t.news # "alarm"
    BY DEF RecordedWasTold, A!RecordedWasTold
<1>1. Right(k, rules[k].last, told[rules[k].id])
    BY DEF AlertInv, RowsInv
<1> QED
    BY <1>1 DEF Right

\* The evaluation of a rule whose state was right: what is told on the way is
\* compatible with the old state, and the queued state with what was told.
LEMMA Verdict ==
    ASSUME NEW k, NEW r, NEW v, NEW t \in Tellings, Right(k, r.last, t),
           NEW d \in {"none", "unaddressed", "delivered"},
           d = "none" <=> A!News(k[2], r, v) = "none",
           NEW u, u = IF d = "delivered"
                      THEN [news |-> A!News(k[2], r, v), ahead |-> TRUE] ELSE t
    PROVE  /\ u \in Tellings
           /\ Right(k, r.last, u)
           /\ Right(k, A!Outcome(k[2], r, v, d).last, AfterRecord(d, u))
<1> DEFINE c == A!currentStatus(k[2], r, v)
           news == A!News(k[2], r, v)
           last == A!Outcome(k[2], r, v, d).last
<1>1. last = A!AsLast(c)
    BY DEF A!Outcome
<1>2. c => last = "on"
    BY <1>1 DEF A!AsLast
<1>3. ~c => last = "off"
    BY <1>1 DEF A!AsLast
<1>4. CASE k[2] = "status"
    <2>1. news = A!statusNotificationFor(r.last, c)
        BY <1>4 DEF A!News
    <2> HIDE DEF c, news, last
    <2>2. /\ r.last = "unknown" /\ c => news = "none"
          /\ r.last = "unknown" /\ ~c => news = "alarm"
          /\ r.last = last => r.last = "unknown" \/ news = "none"
          /\ r.last # last /\ r.last # "unknown" /\ c => news = "clear"
          /\ r.last # last /\ r.last # "unknown" /\ ~c => news = "alarm"
        <3>1. CASE r.last = "unknown"
            BY <1>1, <1>2, <1>3, <2>1, <3>1 DEF A!statusNotificationFor
        <3>2. CASE r.last # "unknown" /\ r.last = A!AsLast(c)
            BY <1>1, <2>1, <3>2 DEF A!statusNotificationFor
        <3>3. CASE r.last # "unknown" /\ r.last # A!AsLast(c)
            BY <1>1, <2>1, <3>3 DEF A!statusNotificationFor
        <3> QED BY <3>1, <3>2, <3>3
    <2>3. A!Alarm(k) = "off"
        BY <1>4 DEF A!Alarm
    <2>4. CASE d = "delivered"
        <3>1. news \in {"alarm", "clear"} /\ u = [news |-> news, ahead |-> TRUE]
            BY <2>2, <2>4 DEF news
        <3>2. AfterRecord(d, u).news = news /\ AfterRecord(d, u).ahead = FALSE
            BY <2>4, <3>1 DEF AfterRecord
        <3>3. u \in Tellings /\ Right(k, r.last, u)
            BY <1>4, <3>1 DEF Tellings, Right
        <3>4. Right(k, last, AfterRecord(d, u))
            BY <1>2, <1>3, <2>2, <2>3, <3>1, <3>2 DEF Right
        <3> QED BY <3>3, <3>4 DEF last
    <2>5. CASE d = "unaddressed"
        <3>1. u = t /\ AfterRecord(d, u) = [news |-> "unaddressed", ahead |-> FALSE]
            BY <2>5 DEF AfterRecord
        <3>2. Right(k, last, AfterRecord(d, u))
            BY <3>1 DEF Right
        <3> QED BY <3>1, <3>2 DEF last
    <2>6. CASE d = "none"
        <3>1. u = t /\ AfterRecord(d, u) = t /\ news = "none"
            BY <2>6 DEF AfterRecord, news
        <3>2. Right(k, last, t)
            BY <1>2, <1>3, <2>2, <2>3, <3>1 DEF Right
        <3> QED BY <3>1, <3>2 DEF last
    <2> QED BY <2>4, <2>5, <2>6
<1>5. CASE k[2] # "status"
    <2>1. news \in {"alarm", "none"} /\ (c /\ news = "none" => r.last = "on")
        BY <1>5 DEF A!News, A!shouldNotify
    <2> HIDE DEF c, news, last
    <2>2. A!Alarm(k) = "on"
        BY <1>5 DEF A!Alarm
    <2>3. CASE d = "delivered"
        <3>1. news = "alarm" /\ u = [news |-> "alarm", ahead |-> TRUE]
            BY <2>1, <2>3 DEF news
        <3>2. AfterRecord(d, u).news = "alarm"
            BY <2>3, <3>1 DEF AfterRecord
        <3>3. u \in Tellings /\ Right(k, r.last, u)
            BY <1>5, <3>1 DEF Tellings, Right
        <3>4. Right(k, last, AfterRecord(d, u))
            BY <1>5, <3>2 DEF Right
        <3> QED BY <3>3, <3>4 DEF last
    <2>4. CASE d = "unaddressed"
        <3>1. u = t /\ AfterRecord(d, u) = [news |-> "unaddressed", ahead |-> FALSE]
            BY <2>4 DEF AfterRecord
        <3>2. Right(k, last, AfterRecord(d, u))
            BY <3>1 DEF Right
        <3> QED BY <3>1, <3>2 DEF last
    <2>5. CASE d = "none"
        <3>1. u = t /\ AfterRecord(d, u) = t /\ news = "none"
            BY <2>5 DEF AfterRecord, news
        <3>2. Right(k, last, t)
            BY <1>2, <1>3, <1>5, <2>1, <2>2, <3>1 DEF Right
        <3> QED BY <3>1, <3>2 DEF last
    <2> QED BY <2>3, <2>4, <2>5
<1> QED
    BY <1>4, <1>5

\* What an edit may do to the rows: take some away, keep others with their id
\* and state, and add rows with ids that no row ever had.
LEMMA EditStep ==
    ASSUME AlertInv, round' = round,
           told' \in Seq(Tellings), Len(told') >= Len(told),
           \A i \in 1..Len(told) : told'[i] = told[i],
           DOMAIN teamRules' \subseteq Items,
           \A k \in DOMAIN rules' :
               /\ Row(rules'[k], Len(told'))
               /\ \/ /\ k \in DOMAIN rules /\ rules'[k].id = rules[k].id
                     /\ rules'[k].last = rules[k].last
                  \/ /\ rules'[k].id > Len(told) /\ rules'[k].last = "unknown"
                     /\ told'[rules'[k].id].news = "none",
           \A j, k \in DOMAIN rules' :
               /\ rules'[j].id = rules'[k].id /\ rules'[k].id > Len(told)
               => j = k
    PROVE  AlertInv'
<1>1. Len(told) \in Nat /\ Len(told') \in Nat
    BY DEF AlertInv, RowsInv
<1>2. \A k \in DOMAIN rules : rules[k].id \in 1..Len(told)
    BY DEF AlertInv, RowsInv, Row
<1>3. ASSUME NEW k \in DOMAIN rules'
      PROVE  Right(k, rules'[k].last, told'[rules'[k].id])
    <2>1. CASE /\ k \in DOMAIN rules /\ rules'[k].id = rules[k].id
               /\ rules'[k].last = rules[k].last
        BY <1>2, <2>1 DEF AlertInv, RowsInv
    <2>2. CASE rules'[k].last = "unknown" /\ told'[rules'[k].id].news = "none"
        BY <2>2 DEF Right, A!Alarm
    <2> QED BY <2>1, <2>2
<1>4. ASSUME NEW j \in DOMAIN rules', NEW k \in DOMAIN rules',
             rules'[j].id = rules'[k].id
      PROVE  j = k
    <2>1. CASE rules'[k].id > Len(told)
        BY <1>4, <2>1
    <2>2. CASE ~(rules'[k].id > Len(told))
        BY <1>1, <1>2, <1>4, <2>2 DEF AlertInv, RowsInv
    <2> QED BY <2>1, <2>2
<1>5. RowsInv'
    BY <1>3, <1>4 DEF RowsInv
<1>6. ASSUME NEW k \in DOMAIN rules', rules'[k].id \in 1..Len(told)
      PROVE  k \in DOMAIN rules /\ rules'[k].id = rules[k].id
             /\ rules'[k].last = rules[k].last
    BY <1>1, <1>6
<1>7. SnapInv => SnapInv'
    <2> SUFFICES ASSUME SnapInv PROVE SnapInv'
        OBVIOUS
    <2>1. ASSUME NEW k \in DOMAIN round.snap PROVE Row(round.snap[k], Len(told'))
        BY <1>1 DEF SnapInv, Row
    <2>2. ASSUME NEW k \in DOMAIN round.snap, NEW j \in DOMAIN rules',
                 rules'[j].id = round.snap[k].id
          PROVE  j = k /\ rules'[j].last = round.snap[k].last
        BY <1>6, <2>2 DEF SnapInv, Row
    <2> QED
        BY <2>1, <2>2 DEF SnapInv
<1>8. QueueInv => QueueInv'
    <2> SUFFICES ASSUME QueueInv PROVE QueueInv'
        OBVIOUS
    <2>1. DOMAIN round.queue \subseteq 1..Len(told')
        BY <1>1 DEF QueueInv
    <2>2. ASSUME NEW k \in DOMAIN rules', rules'[k].id \in DOMAIN round.queue
          PROVE  LET q == round.queue[rules'[k].id]
                 IN  Right(k, q.new.last, AfterRecord(q.by, told'[rules'[k].id]))
        <3>1. rules'[k].id \in 1..Len(told)
            BY <2>2 DEF QueueInv
        <3> QED
            BY <1>6, <2>2, <3>1 DEF QueueInv
    <2> QED
        BY <2>1, <2>2 DEF QueueInv
<1> QED
    BY <1>5, <1>7, <1>8 DEF AlertInv, RoundInv

\* Rows change nothing but thresholds, durations and freshness, or go.
LEMMA KeepStep ==
    ASSUME AlertInv, round' = round, told' = told, DOMAIN teamRules' \subseteq Items,
           \A k \in DOMAIN rules' :
               /\ k \in DOMAIN rules /\ DOMAIN rules'[k] = RowFields
               /\ rules'[k].id = rules[k].id /\ rules'[k].last = rules[k].last
    PROVE  AlertInv'
<1>1. told \in Seq(Tellings) /\ Len(told) \in Nat
      /\ \A k \in DOMAIN rules : rules[k].id \in 1..Len(told)
    BY DEF AlertInv, RowsInv, Row
<1>2. \A k \in DOMAIN rules' : Row(rules'[k], Len(told))
    BY <1>1 DEF Row
<1>3. \A k \in DOMAIN rules' : ~(rules'[k].id > Len(told))
    BY <1>1
<1> QED
    BY <1>1, <1>2, <1>3, EditStep

\* The ids of new rows: CHOOSE finds distinct ones above all that were used.
LEMMA NewRows ==
    ASSUME NEW config, IsFiniteSet(DOMAIN config), told \in Seq(Tellings)
    PROVE  LET new == A!Inserted(config)
               n == Cardinality(DOMAIN config)
           IN  /\ n \in Nat /\ DOMAIN new = DOMAIN config
               /\ \A k \in DOMAIN config :
                     /\ DOMAIN new[k] = RowFields /\ new[k].last = "unknown"
                     /\ new[k].id \in Len(told) + 1 .. Len(told) + n
               /\ \A j, k \in DOMAIN config : new[j].id = new[k].id => j = k
<1> DEFINE N == DOMAIN config
           n == Cardinality(N)
           I == Len(told) + 1 .. Len(told) + n
           id == CHOOSE f \in [N -> I] : \A j, k \in N : j # k => f[j] # f[k]
<1>1. n \in Nat /\ Len(told) \in Nat
    BY FS_CardinalityType
<1>2. IsFiniteSet(I) /\ Cardinality(I) = n
    <2>1. Len(told) + 1 \in Int /\ Len(told) + n \in Int
        BY <1>1
    <2>2. IsFiniteSet(I) /\ Cardinality(I) =
              IF Len(told) + 1 > Len(told) + n THEN 0
              ELSE (Len(told) + n) - (Len(told) + 1) + 1
        BY <2>1, FS_Interval
    <2> HIDE DEF I
    <2> QED BY <1>1, <2>2
<1>3. ExistsBijection(N, I)
    BY <1>2, FS_SameCardinalityBij
<1>4. \E f \in [N -> I] : \A j, k \in N : j # k => f[j] # f[k]
    BY <1>3 DEF ExistsBijection, Bijection, Injection, IsInjective
<1>5. id \in [N -> I] /\ \A j, k \in N : j # k => id[j] # id[k]
    BY <1>4
<1> HIDE DEF id
<1>6. ASSUME NEW S PROVE A!Cardinality(S) = Cardinality(S)
    BY Zenon DEF Cardinality, A!Cardinality
<1>7. A!Inserted(config) = [k \in N |->
          [id |-> id[k], threshold |-> config[k].threshold,
           duration |-> config[k].duration, last |-> "unknown", fresh |-> TRUE]]
    BY <1>6 DEF A!Inserted, id
<1> QED
    BY <1>1, <1>5, <1>7 DEF RowFields

LEMMA InsertStep ==
    ASSUME AlertInv, NEW config, NEW others, IsFiniteSet(DOMAIN config),
           A!Insert(config, others), round' = round, DOMAIN teamRules' \subseteq Items,
           \A k \in DOMAIN others :
               /\ k \in DOMAIN rules /\ DOMAIN others[k] = RowFields
               /\ others[k].id = rules[k].id /\ others[k].last = rules[k].last
    PROVE  AlertInv'
<1> DEFINE new == A!Inserted(config)
           n == Cardinality(DOMAIN config)
           blank == [news |-> "none", ahead |-> FALSE]
<1>1. told \in Seq(Tellings) /\ Len(told) \in Nat
      /\ \A k \in DOMAIN rules : rules[k].id \in 1..Len(told)
    BY DEF AlertInv, RowsInv, Row
<1>2. /\ n \in Nat /\ DOMAIN new = DOMAIN config
      /\ \A k \in DOMAIN config :
            /\ DOMAIN new[k] = RowFields /\ new[k].last = "unknown"
            /\ new[k].id \in Len(told) + 1 .. Len(told) + n
      /\ \A j, k \in DOMAIN config : new[j].id = new[k].id => j = k
    BY <1>1, NewRows
<1>3. ASSUME NEW S PROVE A!Cardinality(S) = Cardinality(S)
    BY Zenon DEF Cardinality, A!Cardinality
<1>4. rules' = A!Over(new, others) /\ told' = told \o [i \in 1..n |-> blank]
    BY <1>3 DEF A!Insert
<1> HIDE DEF new, n
<1>5. blank \in Tellings
    BY DEF Tellings
<1>6. /\ told' \in Seq(Tellings) /\ Len(told') = Len(told) + n
      /\ \A i \in 1..Len(told) : told'[i] = told[i]
      /\ \A i \in Len(told) + 1 .. Len(told) + n : told'[i] = blank
    BY <1>1, <1>2, <1>4, <1>5
<1>7. /\ DOMAIN rules' = DOMAIN config \cup DOMAIN others
      /\ \A k \in DOMAIN config : rules'[k] = new[k]
      /\ \A k \in DOMAIN others : k \notin DOMAIN config => rules'[k] = others[k]
    BY <1>2, <1>4 DEF A!Over
<1>8. ASSUME NEW k \in DOMAIN rules'
      PROVE  /\ Row(rules'[k], Len(told'))
             /\ \/ /\ k \in DOMAIN rules /\ rules'[k].id = rules[k].id
                   /\ rules'[k].last = rules[k].last
                \/ /\ k \in DOMAIN config
                   /\ rules'[k].id > Len(told) /\ rules'[k].last = "unknown"
                   /\ told'[rules'[k].id].news = "none"
    <2>1. CASE k \in DOMAIN config
        BY <1>1, <1>2, <1>6, <1>7, <2>1 DEF Row
    <2>2. CASE k \notin DOMAIN config
        BY <1>1, <1>2, <1>6, <1>7, <2>2 DEF Row
    <2> QED BY <2>1, <2>2
<1>9. ASSUME NEW j \in DOMAIN rules', NEW k \in DOMAIN rules',
             rules'[j].id = rules'[k].id, rules'[k].id > Len(told)
      PROVE  j = k
    <2>1. j \in DOMAIN config /\ k \in DOMAIN config
        BY <1>1, <1>8, <1>9
    <2> QED
        BY <1>2, <1>7, <1>9, <2>1
<1> QED
    BY <1>1, <1>2, <1>6, <1>8, <1>9, EditStep

LEMMA RulesFacts ==
    AlertInv => /\ DOMAIN teamRules \subseteq Items
                /\ \A k \in DOMAIN rules : DOMAIN rules[k] = RowFields
BY DEF AlertInv, RowsInv, Row

LEMMA ReplacedKeeps ==
    ASSUME AlertInv, NEW K, NEW c
    PROVE  LET others == A!Replaced(K, c) IN
           \A k \in DOMAIN others :
               /\ k \in DOMAIN rules /\ DOMAIN others[k] = RowFields
               /\ others[k].id = rules[k].id /\ others[k].last = rules[k].last
<1> DEFINE others == A!Replaced(K, c)
<1> SUFFICES ASSUME NEW k \in DOMAIN others
             PROVE  /\ k \in DOMAIN rules /\ DOMAIN others[k] = RowFields
                    /\ others[k].id = rules[k].id /\ others[k].last = rules[k].last
    OBVIOUS
<1>1. k \in DOMAIN rules /\ DOMAIN rules[k] = RowFields
    BY RulesFacts DEF A!Replaced
<1>2. CASE k \in K
    <2>1. others[k] = [rules[k] EXCEPT !.threshold = c.threshold, !.duration = c.duration]
        BY <1>1, <1>2 DEF A!Replaced
    <2> HIDE DEF others
    <2> QED BY <1>1, <2>1 DEF RowFields
<1>3. CASE k \notin K
    BY <1>1, <1>3 DEF A!Replaced
<1> QED BY <1>2, <1>3

LEMMA EditKeeps == AlertInv /\ A!Edit => AlertInv'
<1> SUFFICES ASSUME AlertInv, A!Edit PROVE AlertInv'
    OBVIOUS
<1>0. /\ DOMAIN teamRules \subseteq Items
      /\ \A k \in DOMAIN rules : DOMAIN rules[k] = RowFields
    BY RulesFacts
<1>1. ASSUME NEW s \in Servers, NEW item \in Items, NEW t, NEW d,
             A!UpsertServerAlert(s, item, t, d)
      PROVE  AlertInv'
    <2> DEFINE c == A!normalizeAlertConfig(item, t, d)
               N == {<<s, item>>} \ DOMAIN rules
               config == [k \in N |-> c]
               others == A!Replaced({<<s, item>>}, c)
    <2>1. A!Insert(config, others) /\ teamRules' = teamRules /\ round' = round
        BY <1>1 DEF A!UpsertServerAlert
    <2>2. IsFiniteSet(DOMAIN config)
        <3>1. N \subseteq {<<s, item>>} /\ DOMAIN config = N
            OBVIOUS
        <3> HIDE DEF N, config
        <3> QED BY <3>1, FS_Singleton, FS_Subset
    <2> HIDE DEF config, others
    <2>3. \A k \in DOMAIN others :
              /\ k \in DOMAIN rules /\ DOMAIN others[k] = RowFields
              /\ others[k].id = rules[k].id /\ others[k].last = rules[k].last
        BY ReplacedKeeps DEF others
    <2> QED
        BY <1>0, <2>1, <2>2, <2>3, InsertStep
<1>2. ASSUME NEW item \in Items, NEW t, NEW d, NEW o,
             A!UpsertTeamAlert(item, t, d, o)
      PROVE  AlertInv'
    <2> DEFINE c == A!normalizeAlertConfig(item, t, d)
               K == A!Members \X {item}
               N == K \ DOMAIN rules
               config == [k \in N |-> c]
               others == IF o THEN A!Replaced(K, c) ELSE rules
    <2>1. A!Insert(config, others) /\ round' = round
        BY <1>2 DEF A!UpsertTeamAlert
    <2>2. DOMAIN teamRules' \subseteq Items
        BY <1>0, <1>2 DEF A!UpsertTeamAlert, A!Over, A!Only
    <2>3. IsFiniteSet(DOMAIN config)
        <3>1. N \subseteq Servers \X {item} /\ DOMAIN config = N
            BY DEF A!Members
        <3>2. IsFiniteSet(Servers \X {item})
            BY FiniteAssumption, FS_Singleton, FS_Product
        <3> HIDE DEF N, config
        <3> QED BY <3>1, <3>2, FS_Subset
    <2> HIDE DEF config, others, K
    <2>4. \A k \in DOMAIN others :
              /\ k \in DOMAIN rules /\ DOMAIN others[k] = RowFields
              /\ others[k].id = rules[k].id /\ others[k].last = rules[k].last
        <3>1. CASE o
            BY <3>1, ReplacedKeeps DEF others
        <3>2. CASE ~o
            BY <1>0, <3>2 DEF others
        <3> QED BY <3>1, <3>2
    <2> QED
        BY <2>1, <2>2, <2>3, <2>4, InsertStep
<1>3. ASSUME NEW s \in Servers, A!AddServer(s)
      PROVE  AlertInv'
    <2> DEFINE N == {s} \X DOMAIN teamRules
               config == [k \in N |-> teamRules[k[2]]]
    <2>1. A!Insert(config, rules) /\ teamRules' = teamRules /\ round' = round
        BY <1>3 DEF A!AddServer
    <2>2. IsFiniteSet(DOMAIN config)
        <3>1. IsFiniteSet(DOMAIN teamRules)
            BY <1>0, FiniteAssumption, FS_Subset
        <3>2. IsFiniteSet(N)
            BY <3>1, FS_Singleton, FS_Product
        <3> QED BY <3>2
    <2> HIDE DEF config
    <2> QED
        BY <1>0, <2>1, <2>2, InsertStep
<1>4. ASSUME NEW K, A!Delete(K), told' = told, round' = round,
             DOMAIN teamRules' \subseteq Items
      PROVE  AlertInv'
    <2>1. \A k \in DOMAIN rules' :
              /\ k \in DOMAIN rules /\ DOMAIN rules'[k] = RowFields
              /\ rules'[k].id = rules[k].id /\ rules'[k].last = rules[k].last
        BY <1>0, <1>4 DEF A!Delete
    <2> QED
        BY <1>4, <2>1, KeepStep
<1>5. ASSUME NEW s \in Servers, NEW item \in Items, A!DeleteServerAlert(s, item)
      PROVE  AlertInv'
    BY <1>0, <1>4, <1>5 DEF A!DeleteServerAlert
<1>6. ASSUME NEW item \in Items, NEW o, A!DeleteTeamAlert(item, o)
      PROVE  AlertInv'
    <2>1. DOMAIN teamRules' \subseteq Items
        BY <1>0, <1>6 DEF A!DeleteTeamAlert
    <2>2. (\E K : A!Delete(K)) /\ told' = told /\ round' = round
        BY <1>6 DEF A!DeleteTeamAlert
    <2> QED
        BY <1>4, <2>1, <2>2
<1>7. ASSUME NEW s \in Servers, A!DeleteServer(s)
      PROVE  AlertInv'
    BY <1>0, <1>4, <1>7 DEF A!DeleteServer
<1>8. CASE A!UpdateChannels
    BY <1>0, <1>8, KeepStep DEF A!UpdateChannels
<1> QED
    BY <1>1, <1>2, <1>3, <1>5, <1>6, <1>7, <1>8 DEF A!Edit

\* What happens outside the hub does not touch a row's state.
LEMMA WorldKeeps ==
    ASSUME AlertInv,
           \/ UNCHANGED alertVars
           \/ \E k \in A!Keys : A!HourPasses(k) \/ \E v \in 0..MaxLevel : A!WorldChanges(k, v)
    PROVE  AlertInv'
<1>0. /\ DOMAIN teamRules \subseteq Items
      /\ \A k \in DOMAIN rules : DOMAIN rules[k] = RowFields
    BY RulesFacts
<1>1. ASSUME NEW k \in A!Keys, A!HourPasses(k) PROVE AlertInv'
    <2>1. \A j \in DOMAIN rules' :
              /\ j \in DOMAIN rules /\ DOMAIN rules'[j] = RowFields
              /\ rules'[j].id = rules[j].id /\ rules'[j].last = rules[j].last
        BY <1>0, <1>1 DEF A!HourPasses, RowFields
    <2> QED
        BY <1>0, <1>1, <2>1, KeepStep DEF A!HourPasses
<1>2. ASSUME NEW k \in A!Keys, NEW v, A!WorldChanges(k, v) PROVE AlertInv'
    BY <1>0, <1>2, KeepStep DEF A!WorldChanges
<1>3. CASE UNCHANGED alertVars
    BY <1>0, <1>3, KeepStep DEF alertVars
<1> QED
    BY <1>1, <1>2, <1>3

\* A round reads, loads or ends; no row is touched.
LEMMA RoundKeeps ==
    ASSUME AlertInv,
           \/ A!ReadRules \/ A!ReadChannels \/ A!ReadChannelsFails
           \/ A!FinishLoading \/ A!Abandon
           \/ \E p : A!QueryOk(p) \/ A!QueryFails(p)
    PROVE  AlertInv'
<1>1. rules' = rules /\ teamRules' = teamRules /\ told' = told
    BY DEF A!ReadRules, A!ReadChannels, A!ReadChannelsFails, A!FinishLoading,
           A!Abandon, A!QueryOk, A!QueryFails
<1>2. RowsInv'
    BY <1>1 DEF AlertInv, RowsInv
<1>3. ASSUME round.phase # "idle", round'.snap = round.snap PROVE SnapInv'
    BY <1>1, <1>3 DEF AlertInv, RoundInv, SnapInv
<1>4. CASE A!ReadChannelsFails \/ A!Abandon
    <2>1. round'.phase = "idle"
        BY <1>4 DEF A!ReadChannelsFails, A!Abandon, A!Idle
    <2> QED BY <1>2, <2>1 DEF AlertInv, RoundInv
<1>5. CASE A!ReadRules
    <2>1. round'.phase = "channels" /\ round'.snap = rules
        BY <1>5 DEF A!ReadRules
    <2>2. SnapInv'
        BY <1>1, <2>1 DEF AlertInv, RowsInv, SnapInv
    <2> QED BY <1>2, <2>1, <2>2 DEF AlertInv, RoundInv
<1>6. CASE A!ReadChannels
    <2>1. /\ round.phase = "channels" /\ round'.phase = "load"
          /\ round'.snap = round.snap
          /\ DOMAIN round' = {"phase", "snap", "channels", "plans", "loaded"}
        BY <1>6 DEF A!ReadChannels
    <2> QED BY <1>2, <1>3, <2>1 DEF AlertInv, RoundInv
<1>7. CASE \E p : A!QueryOk(p) \/ A!QueryFails(p)
    <2>1. /\ round.phase = "load"
          /\ DOMAIN round = {"phase", "snap", "channels", "plans", "loaded"}
        BY <1>7 DEF A!QueryOk, A!QueryFails, AlertInv, RoundInv
    <2>2. /\ round'.phase = "load" /\ round'.snap = round.snap
          /\ DOMAIN round' = {"phase", "snap", "channels", "plans", "loaded"}
        BY <1>7, <2>1 DEF A!QueryOk, A!QueryFails
    <2> QED BY <1>2, <1>3, <2>1, <2>2 DEF AlertInv, RoundInv
<1>8. CASE A!FinishLoading
    <2>1. /\ round.phase = "load" /\ round'.phase = "check"
          /\ round'.snap = round.snap /\ round'.queue = << >>
          /\ DOMAIN round' = {"phase", "snap", "channels", "queue", "loaded"}
        BY <1>8 DEF A!FinishLoading
    <2>2. DOMAIN round'.queue = {}
        BY <2>1
    <2>3. QueueInv'
        BY <2>2 DEF QueueInv
    <2> QED BY <1>2, <1>3, <2>1, <2>3 DEF AlertInv, RoundInv
<1> QED
    BY <1>4, <1>5, <1>6, <1>7, <1>8

\* The queued states are recorded.
LEMMA RecordStep == AlertInv /\ A!updateRuleStatus => AlertInv'
<1> SUFFICES ASSUME AlertInv, A!updateRuleStatus PROVE AlertInv'
    OBVIOUS
<1>1. /\ round.phase = "check" /\ round'.phase = "idle" /\ teamRules' = teamRules
      /\ rules' = [k \in DOMAIN rules |-> A!Recorded(rules[k])]
    BY DEF A!updateRuleStatus, A!Idle
<1>2. RowsInv /\ QueueInv
    BY <1>1 DEF AlertInv, RoundInv
<1>3. told \in Seq(Tellings) /\ \A i \in DOMAIN told : told[i] \in Tellings
    BY <1>2 DEF RowsInv
<1>4. ASSUME NEW i \in DOMAIN told
      PROVE  /\ i \notin DOMAIN round.queue => told'[i] = told[i]
             /\ i \in DOMAIN round.queue =>
                   told'[i] = AfterRecord(round.queue[i].by, told[i])
    <2>1. told'[i] = IF i \notin DOMAIN round.queue THEN told[i]
                     ELSE CASE round.queue[i].by = "delivered" ->
                                 [told[i] EXCEPT !.ahead = FALSE]
                          [] round.queue[i].by = "unaddressed" ->
                                 [news |-> "unaddressed", ahead |-> FALSE]
                          [] round.queue[i].by = "over" ->
                                 [news |-> "none", ahead |-> FALSE]
                          [] OTHER -> told[i]
        BY DEF A!updateRuleStatus
    <2> QED
        BY <2>1 DEF AfterRecord
<1>5. ASSUME NEW t \in Tellings, NEW b PROVE AfterRecord(b, t) \in Tellings
    BY DEF AfterRecord, Tellings
<1>6. told' \in Seq(Tellings) /\ Len(told') = Len(told) /\ DOMAIN told' = DOMAIN told
    <2>1. DOMAIN told' = DOMAIN told
        BY DEF A!updateRuleStatus
    <2>2. \A i \in DOMAIN told : told'[i] \in Tellings
        BY <1>3, <1>4, <1>5
    <2>3. told' = [i \in DOMAIN told |-> told'[i]]
        BY DEF A!updateRuleStatus
    <2>4. told' \in [1..Len(told) -> Tellings]
        BY <1>3, <2>1, <2>2, <2>3
    <2> QED
        BY <1>3, <2>1, <2>4
<1>7. ASSUME NEW k \in DOMAIN rules
      PROVE  /\ DOMAIN rules'[k] = RowFields /\ rules'[k].id = rules[k].id
             /\ rules[k].id \notin DOMAIN round.queue => rules'[k].last = rules[k].last
             /\ rules[k].id \in DOMAIN round.queue =>
                   rules'[k].last = round.queue[rules[k].id].new.last
    <2>1. DOMAIN rules[k] = RowFields /\ rules'[k] = A!Recorded(rules[k])
        BY <1>1, <1>2 DEF RowsInv, Row
    <2>2. CASE rules[k].id \in DOMAIN round.queue
        <3>1. rules'[k] = [rules[k] EXCEPT !.last = round.queue[rules[k].id].new.last,
                                           !.fresh = round.queue[rules[k].id].new.fresh]
            BY <2>1, <2>2 DEF A!Recorded
        <3> QED BY <2>1, <2>2, <3>1 DEF RowFields
    <2>3. CASE rules[k].id \notin DOMAIN round.queue
        BY <2>1, <2>3 DEF A!Recorded
    <2> QED BY <2>2, <2>3
<1>8. DOMAIN rules' = DOMAIN rules
    BY <1>1
<1>9. ASSUME NEW k \in DOMAIN rules
      PROVE  Right(k, rules'[k].last, told'[rules'[k].id])
    <2>1. rules[k].id \in DOMAIN told /\ Right(k, rules[k].last, told[rules[k].id])
        BY <1>2 DEF RowsInv, Row
    <2>2. CASE rules[k].id \in DOMAIN round.queue
        <3>1. /\ told'[rules'[k].id] = AfterRecord(round.queue[rules[k].id].by, told[rules[k].id])
              /\ rules'[k].last = round.queue[rules[k].id].new.last
            BY <1>4, <1>7, <2>1, <2>2
        <3> QED BY <1>2, <2>2, <3>1 DEF QueueInv
    <2>3. CASE rules[k].id \notin DOMAIN round.queue
        <3>1. told'[rules'[k].id] = told[rules[k].id] /\ rules'[k].last = rules[k].last
            BY <1>4, <1>7, <2>1, <2>3
        <3> QED BY <2>1, <3>1
    <2> QED BY <2>2, <2>3
<1>10. RowsInv'
    BY <1>1, <1>2, <1>6, <1>7, <1>8, <1>9 DEF RowsInv, Row
<1> QED
    BY <1>1, <1>10 DEF AlertInv, RoundInv

LEMMA NewsType ==
    ASSUME NEW item, NEW r, NEW v
    PROVE  A!News(item, r, v) \in {"none", "alarm", "clear"}
<1> DEFINE c == A!currentStatus(item, r, v)
<1>1. A!statusNotificationFor(r.last, c) \in {"none", "alarm", "clear"}
    BY DEF A!statusNotificationFor
<1> QED
    BY <1>1 DEF A!News

\* One rule is evaluated: it leaves the rows to be evaluated, its news may be
\* delivered and its new state may be queued.
LEMMA CheckStep ==
    ASSUME AlertInv, NEW k, NEW d \in A!Outcomes, A!Check(k, d)
    PROVE  AlertInv'
<1> DEFINE r == round.snap[k]
           v == round.loaded[k]
           rest == [j \in DOMAIN round.snap \ {k} |-> round.snap[j]]
           new == A!Outcome(k[2], r, v, d)
           news == A!News(k[2], r, v)
           t == told[r.id]
           same == new = [last |-> r.last, fresh |-> r.fresh] /\ d # "delivered"
           by == A!Reason(k[2], new.last, d)
           more == A!Over(A!Only(r.id, [new |-> new, by |-> by]), round.queue)
           loaded == k \in DOMAIN round.loaded
           u == IF loaded /\ d = "delivered" THEN [news |-> news, ahead |-> TRUE] ELSE t
<1>1. /\ round.phase = "check" /\ k \in DOMAIN round.snap
      /\ rules' = rules /\ teamRules' = teamRules
    BY DEF A!Check
<1>2. /\ RowsInv /\ SnapInv /\ QueueInv
      /\ DOMAIN round = {"phase", "snap", "channels", "queue", "loaded"}
    BY <1>1 DEF AlertInv, RoundInv
<1>3. /\ told \in Seq(Tellings) /\ r.id \in DOMAIN told /\ t \in Tellings
      /\ r.id \in 1..Len(told) /\ r.id \notin DOMAIN round.queue
    BY <1>1, <1>2 DEF RowsInv, SnapInv, QueueInv, Row
<1>4. /\ round'.phase = "check" /\ round'.snap = rest
      /\ DOMAIN round' = {"phase", "snap", "channels", "queue", "loaded"}
    BY <1>1, <1>2 DEF A!Check
<1>5. \/ round'.queue = round.queue
      \/ round'.queue = more /\ loaded /\ ~same
    BY <1>2 DEF A!Check
<1>6. loaded => d \in A!Deliveries(news)
    BY DEF A!Check
<1>7. told' = IF loaded /\ d = "delivered"
              THEN [told EXCEPT ![r.id] = [news |-> news, ahead |-> TRUE]] ELSE told
    BY DEF A!Check
<1>8. news \in {"none", "alarm", "clear"}
    BY NewsType
<1>9. loaded => (d = "none" <=> news = "none")
    BY <1>6 DEF A!Deliveries
<1>10. loaded /\ d = "failed" => same
    BY DEF A!Outcome
<1>11. d \in {"none", "unaddressed", "delivered", "failed"}
    BY DEF A!Outcomes
<1>12. loaded /\ d # "failed" /\ Right(k, r.last, t) =>
           Right(k, r.last, u) /\ Right(k, new.last, AfterRecord(d, u))
    <2>1. loaded => u = IF d = "delivered" THEN [news |-> news, ahead |-> TRUE] ELSE t
        OBVIOUS
    <2> HIDE DEF u, loaded
    <2> SUFFICES ASSUME loaded, d # "failed", Right(k, r.last, t)
                 PROVE  Right(k, r.last, u) /\ Right(k, new.last, AfterRecord(d, u))
        OBVIOUS
    <2>2. d \in {"none", "unaddressed", "delivered"}
        BY <1>11
    <2>3. d = "none" <=> A!News(k[2], r, v) = "none"
        BY <1>9
    <2>4. u = IF d = "delivered" THEN [news |-> A!News(k[2], r, v), ahead |-> TRUE] ELSE t
        BY <2>1
    <2>5. t \in Tellings
        BY <1>3
    <2> HIDE DEF r, v, t
    <2> QED
        BY <2>2, <2>3, <2>4, <2>5, Verdict
<1>13. ~(loaded /\ d = "delivered") => u = t
    OBVIOUS
<1>14. u \in Tellings
    BY <1>3, <1>8 DEF Tellings
<1>15. /\ told' \in Seq(Tellings) /\ Len(told') = Len(told) /\ told'[r.id] = u
       /\ \A i \in DOMAIN told : i # r.id => told'[i] = told[i]
    BY <1>3, <1>7, <1>14
<1>16. \A j \in DOMAIN rest : j \in DOMAIN round.snap /\ j # k /\ rest[j] = round.snap[j]
    OBVIOUS
<1>17. new = [last |-> r.last, fresh |-> r.fresh] /\ d # "delivered" <=> same
    OBVIOUS
<1>18. \/ DOMAIN round'.queue = DOMAIN round.queue /\ round'.queue = round.queue
       \/ /\ loaded /\ ~same
          /\ DOMAIN round'.queue = DOMAIN round.queue \cup {r.id}
          /\ round'.queue[r.id] = [new |-> new, by |-> by]
          /\ \A i \in DOMAIN round.queue : i # r.id => round'.queue[i] = round.queue[i]
    <2>1. /\ DOMAIN more = DOMAIN round.queue \cup {r.id}
          /\ more[r.id] = [new |-> new, by |-> by]
          /\ \A i \in DOMAIN round.queue : i # r.id => more[i] = round.queue[i]
        BY DEF A!Over, A!Only
    <2> HIDE DEF more, same, loaded, new, by, r
    <2> QED BY <1>5, <2>1
<1> HIDE DEF u, more, same, rest, new, by, news, v, loaded
<1>19. ASSUME NEW j \in DOMAIN rules
       PROVE  Right(j, rules[j].last, told'[rules[j].id])
    <2>1. rules[j].id \in DOMAIN told /\ Right(j, rules[j].last, told[rules[j].id])
        BY <1>2 DEF RowsInv, Row
    <2>2. CASE rules[j].id # r.id
        BY <1>15, <2>1, <2>2
    <2>3. CASE rules[j].id = r.id
        <3>1. j = k /\ rules[j].last = r.last
            BY <1>1, <1>2, <2>3 DEF SnapInv
        <3>2. Right(k, r.last, t)
            BY <2>1, <2>3, <3>1
        <3>3. Right(k, r.last, u)
            BY <1>12, <1>13, <3>2
        <3> QED BY <1>15, <2>3, <3>1, <3>3
    <2> QED BY <2>2, <2>3
<1>20. RowsInv'
    BY <1>1, <1>2, <1>15, <1>19 DEF RowsInv
<1>21. SnapInv'
    BY <1>1, <1>2, <1>4, <1>15, <1>16 DEF SnapInv
<1>22. ASSUME NEW j \in DOMAIN rest PROVE rest[j].id \notin DOMAIN round'.queue
    <2>1. rest[j].id \notin DOMAIN round.queue /\ rest[j].id # r.id
        BY <1>1, <1>2, <1>16 DEF SnapInv, QueueInv
    <2> QED BY <1>18, <2>1
<1>23. ASSUME NEW j \in DOMAIN rules, rules[j].id \in DOMAIN round'.queue
       PROVE  Right(j, round'.queue[rules[j].id].new.last,
                    AfterRecord(round'.queue[rules[j].id].by, told'[rules[j].id]))
    <2>1. rules[j].id \in DOMAIN told /\ Right(j, rules[j].last, told[rules[j].id])
        BY <1>2 DEF RowsInv, Row
    <2>2. CASE rules[j].id # r.id
        <3>1. /\ rules[j].id \in DOMAIN round.queue
              /\ round'.queue[rules[j].id] = round.queue[rules[j].id]
            BY <1>18, <1>23, <2>2
        <3>2. told'[rules[j].id] = told[rules[j].id]
            BY <1>15, <2>1, <2>2
        <3> QED BY <1>2, <3>1, <3>2 DEF QueueInv
    <2>3. CASE rules[j].id = r.id
        <3>1. j = k /\ rules[j].last = r.last
            BY <1>1, <1>2, <2>3 DEF SnapInv
        <3>2. loaded /\ ~same /\ round'.queue[r.id] = [new |-> new, by |-> by]
            BY <1>3, <1>18, <1>23, <2>3
        <3>3. Right(k, new.last, AfterRecord(d, u))
            BY <1>10, <1>12, <2>1, <2>3, <3>1, <3>2
        <3>4. Right(k, new.last, AfterRecord(by, u))
            <4>1. CASE k[2] # "status" /\ new.last = "off"
                BY <4>1 DEF Right, A!Alarm
            <4>2. CASE ~(k[2] # "status" /\ new.last = "off")
                <5>1. by = d
                    BY <4>2 DEF by, A!Reason
                <5> QED BY <3>3, <5>1
            <4> QED BY <4>1, <4>2
        <3> QED BY <1>15, <2>3, <3>1, <3>2, <3>4
    <2> QED BY <2>2, <2>3
<1>24. QueueInv'
    <2>1. DOMAIN round'.queue \subseteq 1..Len(told')
        BY <1>2, <1>3, <1>15, <1>18 DEF QueueInv
    <2> QED
        BY <1>1, <1>4, <1>22, <1>23, <2>1 DEF QueueInv
<1> QED
    BY <1>4, <1>20, <1>21, <1>24 DEF AlertInv, RoundInv

LEMMA AlertStepKeeps == AlertInv /\ [A!Next]_alertVars => AlertInv'
<1> SUFFICES ASSUME AlertInv, [A!Next]_alertVars PROVE AlertInv'
    OBVIOUS
<1>1. CASE A!Run
    BY <1>1, RoundKeeps, CheckStep, RecordStep DEF A!Run
<1> QED
    BY <1>1, EditKeeps, RoundKeeps, WorldKeeps DEF A!Next

\* A recorded alarm was given, for any servers, items and levels, any sizes of
\* batches and slices and any number of edits and failures (Run and
\* updateRuleStatus of internal/task/alerts).
THEOREM RecordedWasToldAlways == A!Spec => []RecordedWasTold
<1>1. AlertInv /\ [A!Next]_(A!alertVars) => AlertInv'
    BY AlertStepKeeps DEF A!alertVars, alertVars
<1> QED
    BY AlertInit, AlertRight, <1>1, PTL DEF A!Spec

-----------------------------------------------------------------------------
\* The composition that the run explores keeps all three: its steps are steps
\* of the components, taken one component at a time.
THEOREM ServicesSound == Spec => [](ConnectionsOwned /\ TerminalOwned /\ RecordedWasTold)
<1>1. Init => W!Init /\ T!Init /\ A!Init
    BY DEF Init
<1>2. [Next]_vars => [W!Next]_(W!wsVars) /\ [T!Next]_(T!termVars) /\ [A!Next]_(A!alertVars)
    BY DEF Next, vars, wsVars, termVars, alertVars, AlertStep,
           W!wsVars, T!termVars, A!alertVars
<1>3. Spec => W!Spec /\ T!Spec /\ A!Spec
    BY <1>1, <1>2, PTL DEF Spec, W!Spec, T!Spec, A!Spec
<1> QED
    BY <1>3, ConnectionsAreOwned, TerminalsAreOwned, RecordedWasToldAlways, PTL
=============================================================================
