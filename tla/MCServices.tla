----------------------------- MODULE MCServices -----------------------------
(***************************************************************************)
(* Three components that share no state, checked by one run: the agent's   *)
(* websocket client, the web terminals and the alert rules.  A behaviour   *)
(* explores one of them and leaves the others as they are, so their state  *)
(* spaces add up.  No component can take a fair step from its initial      *)
(* state, so resting ones do not make a behaviour unfair.                  *)
(***************************************************************************)
EXTENDS Integers, FiniteSets, Sequences

CONSTANTS Conns, None, Reader, Sender, Watcher, Closer, Terms, Kinds,
          Servers, Items, Thresholds, Durations, MaxLevel, BatchSize,
          MaxBranches, MaxRows, MaxEdits, MaxFaults

\* The kinds of server that terminals are opened to.
ASSUME KindsAssumption == Kinds \subseteq {"ssh", "active", "passive"}

\* A database holds finitely many servers and knows finitely many items.
ASSUME FiniteAssumption == IsFiniteSet(Servers) /\ IsFiniteSet(Items)

VARIABLES part, client, caller, net, term, slot, remote,
          rules, teamRules, servers, channels, round, world, told, edits, faults

\* -1 is the agent's main client, 0 every client that never reconnects.
RetryLimits == {-1, 0}

W == INSTANCE WsClient
T == INSTANCE TerminalSession
A == INSTANCE AlertRules

wsVars == <<client, caller, net>>
termVars == <<term, slot, remote>>
alertVars == <<rules, teamRules, servers, channels, round, world, told, edits, faults>>
vars == <<part, wsVars, termVars, alertVars>>

\* The rows of a behaviour of the alert rules: one of each sort, and one of a
\* sort for every server, so that a round has several batches and slices.
Scopes == {{<<1, "status">>}, {<<1, "cpu_usage">>}, {<<1, "expiry_reminder">>},
           Servers \X {"cpu_usage"}}
Parts == {<<"client">>, <<"terminals">>} \cup ({"alerts"} \X Scopes)

Init ==
    /\ part \in Parts
    /\ W!Init /\ T!Init /\ A!Init
    /\ part[1] # "client" => client.maxRetries = 0 /\ ~client.pongWait
    /\ part[1] # "alerts" => ~channels
    /\ \A s \in Servers : servers[s] = "member" =>
          part[1] = "alerts" /\ \E k \in part[2] : k[1] = s
    /\ part[1] = "alerts" /\ Cardinality(part[2]) > 1 =>
          channels /\ \A s \in Servers : servers[s] = "member"

\* With one row, two edits and two insertions are enough for a rule that is
\* replaced.  With several rows, the team has a channel, the rows are inserted
\* first of all, the first batch with one or two durations; alarms only
\* come up, an hour passes between rounds, and the order of the servers is the
\* order of the insertions and of the evaluation.
AlertStep(scope) ==
    LET ordered(f) == \A j, k \in scope :
            j[1] < k[1] /\ k \in DOMAIN f => j \in DOMAIN f
    IN  /\ A!Next
        /\ DOMAIN rules' \subseteq scope
        /\ \A s \in Servers : servers'[s] # servers[s] => \E k \in scope : k[1] = s
        /\ \A k \in scope : k[2] # "expiry_reminder" => world'[k] <= 1
        /\ IF Cardinality(scope) = 1
           THEN edits' <= 2 /\ Len(told') <= 2
           ELSE /\ edits' # edits => Len(told') = Len(told) + 1 /\ teamRules' = teamRules
                /\ servers' = servers
                /\ DOMAIN rules # scope => edits' # edits
                /\ \A k \in scope : world'[k] >= world[k]
                /\ \A k \in DOMAIN rules : A!HourPasses(k) => round.phase = "idle"
                /\ ordered(rules')
                /\ \A k \in DOMAIN rules' :
                      k[1] # BatchSize => rules'[k].duration = 1
                /\ round'.phase = "check" =>
                      ordered([k \in scope \ DOMAIN round'.snap |-> 0])

Next ==
    /\ UNCHANGED part
    /\ \/ part[1] = "client" /\ W!Next /\ UNCHANGED <<termVars, alertVars>>
       \/ part[1] = "terminals" /\ T!Next /\ UNCHANGED <<wsVars, alertVars>>
       \/ part[1] = "alerts" /\ AlertStep(part[2]) /\ UNCHANGED <<wsVars, termVars>>

Spec == Init /\ [][Next]_vars /\ W!Fairness /\ T!Fairness /\ A!Fairness

\* No connection of the websocket client is lost track of: see WsClient.
ConnectionsOwned == W!ConnectionsOwned

\* The client heals after a break and releases its callers when closed.
ReconnectSettles == W!ReconnectSettles

\* No browser connection is left behind or closed without a cause.
TerminalOwned == T!TerminalOwned

\* A terminal that ends at one end ends at every end.
TerminalEnds == T!TerminalEnds

\* A recorded alarm was given: see AlertRules.
RecordedWasTold == A!RecordedWasTold

\* An alarm that lasts is given in the end.
AlarmAnnounced == A!AlarmAnnounced
=============================================================================
