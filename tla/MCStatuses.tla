----------------------------- MODULE MCStatuses -----------------------------
(***************************************************************************)
(* The way of a status in and out: the delivery queue, with two producers, *)
(* a ring of two slots, batches of two and enough points to overflow the   *)
(* ring and wrap it around; and the snapshots of a team, with two readers. *)
(* They meet only in InfluxDB, so a behaviour explores one of them while   *)
(* the other rests: the snapshots before anyone has come, the queue with   *)
(* its worker waiting.  Neither then owes a fair step.                     *)
(***************************************************************************)
EXTENDS StatusQueue

CONSTANTS Readers, MaxSources, MaxLoops, StreamLimit, Nobody

\* Requests, loops and "nobody" are told apart.
ASSUME SnapshotsAssumption ==
    /\ IsFiniteSet(Readers) /\ MaxSources \in Nat /\ MaxLoops \in Nat
    /\ Readers \cap 1 .. MaxLoops = {}
    /\ Nobody \notin Readers /\ Nobody \notin 1 .. MaxLoops

VARIABLES part, kind, current, source, proc, updates, byIP

P == INSTANCE Snapshots
snapVars == <<kind, current, source, proc, updates, byIP>>

MCInit ==
    /\ part \in {"queue", "snapshots"}
    /\ Init /\ P!Init
    /\ part = "queue" => kind = "public"

MCNext ==
    /\ UNCHANGED part
    /\ \/ part = "queue" /\ Next /\ UNCHANGED snapVars
       \/ part = "snapshots" /\ wpc # "wait" /\ WorkerStep /\ UNCHANGED snapVars
       \/ part = "snapshots" /\ wpc = "wait" /\ P!Next /\ UNCHANGED vars

MCSpec == MCInit /\ [][MCNext]_<<part, vars, snapVars>> /\ Fairness /\ P!Fairness

\* The readers of a team share one source: see Snapshots.
SourceIsShared == P!SourceIsShared

\* A subscriber is never left with a source that no longer runs.
SubscribersAreServed == P!SubscribersAreServed
=============================================================================
