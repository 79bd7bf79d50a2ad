------------------------------ MODULE AlertRules ------------------------------
(***************************************************************************)
(* Alert rules (internal/db/alert.go) and the task that evaluates them     *)
(* every five minutes (internal/task/alerts).  A round reads the rules and *)
(* the notification channels of a team, loads what the servers reported    *)
(* with batched queries that fail one by one, evaluates rule after rule    *)
(* (a due notification is delivered on the way), and writes the new states *)
(* in one transaction.  Meanwhile rules and servers are edited, servers    *)
(* change, an hour passes, and the hub may be restarted.                   *)
(*                                                                         *)
(* One team is modelled: rules, channels and the final transaction are per *)
(* team.  What a server reports is a level: 0 is nothing.  For an expiry   *)
(* reminder the level is the days left, 0 when there is no end date, it is *)
(* past, or the server is renewed automatically.                           *)
(***************************************************************************)
EXTENDS Integers, FiniteSets, Sequences

CONSTANTS
    Servers,        \* server ids, integers
    Items,          \* items of the rules: "status", "cpu_usage", ...
    Thresholds,     \* thresholds and durations that requests ask for
    Durations,
    MaxLevel,       \* levels are 0..MaxLevel
    BatchSize,      \* alertServerBatchSize
    MaxBranches,    \* alertMaxQueryBranches
    MaxRows,        \* bound: rows ever inserted into server_alerts
    MaxEdits,       \* bound: edits of rules, servers and channels
    MaxFaults       \* bound: failed calls and restarts of the hub

VARIABLES
    rules,          \* server_alerts: from <<server, item>> to the row
    teamRules,      \* team_alerts: from item to threshold and duration
    servers,        \* the team's servers: "new", "member" or "gone"
    channels,       \* the team has a notification channel
    round,          \* the running evaluation
    world,          \* what each server reports for each item
    told,           \* for each row ever inserted, the last news it gave and
                    \* whether its state in the table lags behind (history)
    edits, faults   \* edits made, failures met

alertVars == <<rules, teamRules, servers, channels, round, world, told, edits, faults>>

\* f where it is defined and g elsewhere; the function that maps x to v.
Over(f, g) ==
    [x \in DOMAIN f \cup DOMAIN g |-> IF x \in DOMAIN f THEN f[x] ELSE g[x]]
Only(x, v) == [y \in {x} |-> v]

Keys == Servers \X Items
Idle == [phase |-> "idle"]

Init ==
    /\ rules = << >>
    /\ teamRules = << >>
    /\ servers \in [Servers -> {"new", "member"}]
    /\ channels \in BOOLEAN
    /\ round = Idle
    /\ world = [k \in Keys |-> 0]
    /\ told = << >>
    /\ edits = 0 /\ faults = 0

-----------------------------------------------------------------------------
(* Editing rules: each operation is one statement or one transaction *)

Edited == edits < MaxEdits /\ edits' = edits + 1 /\ UNCHANGED faults
Members == {s \in Servers : servers[s] = "member"}

\* normalizeAlertConfig: a field the item does not use becomes 0, a field that
\* is out of its range refuses the request.
UsesThreshold(item) == item \notin {"status", "ssh_login"}
UsesDuration(item) == item \notin {"expiry_reminder", "ssh_login"}
normalizeAlertConfig(item, t, d) ==
    [ok |-> (UsesThreshold(item) => t >= 1) /\ (UsesDuration(item) => d >= 1),
     threshold |-> IF UsesThreshold(item) THEN t ELSE 0,
     duration |-> IF UsesDuration(item) THEN d ELSE 0]

\* Rows for the keys of config, which have none: a fresh id, last_status NULL
\* and last_notify_at now, whatever an earlier row of the key held.
Inserted(config) ==
    LET N == DOMAIN config
        id == CHOOSE f \in [N -> Len(told) + 1 .. Len(told) + Cardinality(N)] :
                  \A j, k \in N : j # k => f[j] # f[k]
    IN  [k \in N |-> [id |-> id[k], threshold |-> config[k].threshold,
                      duration |-> config[k].duration,
                      last |-> "unknown", fresh |-> TRUE]]

Insert(config, others) ==
    LET n == Cardinality(DOMAIN config) IN
    /\ Len(told) + n <= MaxRows
    /\ rules' = Over(Inserted(config), others)
    /\ told' = told \o [i \in 1..n |-> [news |-> "none", ahead |-> FALSE]]

\* ON CONFLICT DO UPDATE: threshold and duration change, the state stays.
Replaced(K, c) ==
    [k \in DOMAIN rules |-> IF k \in K
        THEN [rules[k] EXCEPT !.threshold = c.threshold, !.duration = c.duration]
        ELSE rules[k]]

UpsertServerAlert(s, item, t, d) ==
    LET c == normalizeAlertConfig(item, t, d) IN
    /\ s \in Members /\ c.ok /\ Edited
    /\ Insert([k \in {<<s, item>>} \ DOMAIN rules |-> c], Replaced({<<s, item>>}, c))
    /\ UNCHANGED <<teamRules, servers, channels, round, world>>

\* The team's rule, and a row for each of its servers; a server that has one
\* keeps it unless override is set.
UpsertTeamAlert(item, t, d, override) ==
    LET c == normalizeAlertConfig(item, t, d)
        K == Members \X {item}
    IN  /\ c.ok /\ Edited
        /\ teamRules' = Over(Only(item, [threshold |-> c.threshold,
                                         duration |-> c.duration]), teamRules)
        /\ Insert([k \in K \ DOMAIN rules |-> c],
                  IF override THEN Replaced(K, c) ELSE rules)
        /\ UNCHANGED <<servers, channels, round, world>>

Delete(K) == rules' = [k \in DOMAIN rules \ K |-> rules[k]]

DeleteServerAlert(s, item) ==
    /\ <<s, item>> \in DOMAIN rules /\ Edited
    /\ Delete({<<s, item>>})
    /\ UNCHANGED <<teamRules, servers, channels, round, world, told>>

\* Without override only the rows that still equal the team's rule go, and a
\* missing team rule refuses the request.
DeleteTeamAlert(item, override) ==
    LET same == {k \in DOMAIN rules :
                    /\ k[2] = item
                    /\ rules[k].threshold = teamRules[item].threshold
                    /\ rules[k].duration = teamRules[item].duration}
    IN  /\ override \/ item \in DOMAIN teamRules
        /\ Edited
        /\ teamRules' = [i \in DOMAIN teamRules \ {item} |-> teamRules[i]]
        /\ Delete(IF override THEN Servers \X {item} ELSE same)
        /\ UNCHANGED <<servers, channels, round, world, told>>

\* add: a new server gets the team's rules in the transaction that inserts it.
AddServer(s) ==
    /\ servers[s] = "new" /\ Edited
    /\ servers' = [servers EXCEPT ![s] = "member"]
    /\ Insert([k \in {s} \X DOMAIN teamRules |-> teamRules[k[2]]], rules)
    /\ UNCHANGED <<teamRules, channels, round, world>>

\* del: the rows of a deleted server go with it (ON DELETE CASCADE).
DeleteServer(s) ==
    /\ s \in Members /\ Edited
    /\ servers' = [servers EXCEPT ![s] = "gone"]
    /\ Delete({s} \X Items)
    /\ UNCHANGED <<teamRules, channels, round, world, told>>

\* The team's channels are saved: none or some.
UpdateChannels ==
    /\ Edited
    /\ channels' = ~channels
    /\ UNCHANGED <<rules, teamRules, servers, round, world, told>>

Edit ==
    \/ \E s \in Servers, item \in Items, t \in Thresholds, d \in Durations :
           UpsertServerAlert(s, item, t, d)
    \/ \E item \in Items, t \in Thresholds, d \in Durations, o \in BOOLEAN :
           UpsertTeamAlert(item, t, d, o)
    \/ \E s \in Servers, item \in Items : DeleteServerAlert(s, item)
    \/ \E item \in Items, o \in BOOLEAN : DeleteTeamAlert(item, o)
    \/ \E s \in Servers : AddServer(s) \/ DeleteServer(s)
    \/ UpdateChannels

-----------------------------------------------------------------------------
(* What happens outside the hub *)

\* A server reports something else.  Only the items that a rule watches are
\* followed.
WorldChanges(k, v) ==
    /\ k \in DOMAIN rules /\ world[k] # v
    /\ world' = [world EXCEPT ![k] = v]
    /\ UNCHANGED <<rules, teamRules, servers, channels, round, told, edits, faults>>

\* More than an hour has passed since last_notify_at.
HourPasses(k) ==
    /\ k \in DOMAIN rules /\ rules[k].fresh
    /\ rules' = [rules EXCEPT ![k].fresh = FALSE]
    /\ UNCHANGED <<teamRules, servers, channels, round, world, told, edits, faults>>

-----------------------------------------------------------------------------
(* The observation queries of a round *)

\* The n-th slice (from 0) of at most size elements of a sorted set.
Rank(x, S) == Cardinality({y \in S : y < x})
Slice(S, n, size) ==
    {x \in S : n * size <= Rank(x, S) /\ Rank(x, S) < (n + 1) * size}

\* Variant for mutation: the last, incomplete slice is not counted.
SliceCountFloor(S, size) == Cardinality(S) \div size

\* How many slices there are.
SliceCount(S, size) == (Cardinality(S) + size - 1) \div size

\* alertDurationGroups: the servers of a batch that have a rule for the item,
\* by duration; a rule without a positive duration is not asked for.
alertDurationGroups(batch, snap, item) ==
    {snap[<<s, item>>].duration :
        s \in {t \in batch : <<t, item>> \in DOMAIN snap}} \ {0}

\* loadAlertObservations and buildAlertItemQueries: a query for each batch of
\* servers, item, and slice of that batch's durations.
queryPlans(snap) ==
    LET all == {k[1] : k \in DOMAIN snap}
        influx == Items \ {"expiry_reminder", "ssh_login"}
        plan(b, i, c) ==
            LET batch == Slice(all, b, BatchSize)
                durations == Slice(alertDurationGroups(batch, snap, i), c, MaxBranches)
            IN  {k \in DOMAIN snap :
                    k[1] \in batch /\ k[2] = i /\ snap[k].duration \in durations}
    IN  {plan(b, i, c) :
            b \in 0 .. SliceCount(all, BatchSize) - 1, i \in influx,
            c \in 0 .. SliceCount({snap[k].duration : k \in DOMAIN snap}, MaxBranches) - 1}
        \ {{}}

-----------------------------------------------------------------------------
(* A round: Run *)

Fault == faults < MaxFaults /\ faults' = faults + 1

\* allServerAlerts: without a rule there is nothing to do.  The expiry dates
\* come with the rules.
ReadRules ==
    /\ round.phase = "idle"
    /\ rules # << >>
    /\ LET dated == {k \in DOMAIN rules : k[2] = "expiry_reminder"}
       IN  round' = [phase |-> "channels", snap |-> rules,
                     dates |-> [k \in dated |-> world[k]]]
    /\ UNCHANGED <<rules, teamRules, servers, channels, world, told, edits, faults>>

\* teamNotificationsByIds.
ReadChannels ==
    /\ round.phase = "channels"
    /\ round' = [phase |-> "load", snap |-> round.snap, channels |-> channels,
                 plans |-> queryPlans(round.snap), loaded |-> round.dates]
    /\ UNCHANGED <<rules, teamRules, servers, channels, world, told, edits, faults>>

\* An error ends the round.
ReadChannelsFails ==
    /\ round.phase = "channels" /\ Fault
    /\ round' = Idle
    /\ UNCHANGED <<rules, teamRules, servers, channels, world, told, edits>>

\* queryAlertItem succeeds: what it did not return is loaded as absent.
QueryOk(p) ==
    /\ round.phase = "load" /\ p \in round.plans
    /\ round' = [round EXCEPT !.plans = @ \ {p},
                              !.loaded = Over([k \in p |-> world[k]], @)]
    /\ UNCHANGED <<rules, teamRules, servers, channels, world, told, edits, faults>>

QueryFails(p) ==
    /\ round.phase = "load" /\ p \in round.plans /\ Fault
    /\ round' = [round EXCEPT !.plans = @ \ {p}]
    /\ UNCHANGED <<rules, teamRules, servers, channels, world, told, edits>>

\* The queries are done, or the time for all of them is over.
FinishLoading ==
    /\ round.phase = "load"
    /\ IF round.plans = {} THEN UNCHANGED faults ELSE Fault
    /\ round' = [phase |-> "check", channels |-> round.channels,
                 snap |-> round.snap, loaded |-> round.loaded, queue |-> << >>]
    /\ UNCHANGED <<rules, teamRules, servers, channels, world, told, edits>>

\* checkStatusAlert, checkMetricAlert, checkDiskUsageAlert and
\* checkExpiryReminderAlert: the current status of a rule.  A metric alarms
\* from its threshold up, an expiry from its threshold down.
currentStatus(item, r, v) ==
    CASE item = "status" -> v > 0
      [] item = "expiry_reminder" -> v > 0 /\ v <= r.threshold
      [] OTHER -> v > 0 /\ v >= r.threshold
AsLast(b) == IF b THEN "on" ELSE "off"

statusNotificationFor(last, current) ==
    CASE last = "unknown" -> IF current THEN "none" ELSE "alarm"
      [] last = AsLast(current) -> "none"
      [] OTHER -> IF current THEN "clear" ELSE "alarm"

shouldNotify(current, r) == current /\ (r.last # "on" \/ ~r.fresh)

\* The news a rule has to give.
News(item, r, v) ==
    LET current == currentStatus(item, r, v) IN
    CASE item = "status" -> statusNotificationFor(r.last, current)
      [] item = "expiry_reminder" ->
             IF current /\ r.last # "on" THEN "alarm" ELSE "none"
      [] OTHER -> IF shouldNotify(current, r) THEN "alarm" ELSE "none"

\* Variant for mutation: the new state is recorded although every channel
\* failed, so that the next round has nothing to announce.
OutcomeForgetsFailure(item, r, v, delivery) ==
    [last |-> AsLast(currentStatus(item, r, v)),
     fresh |-> IF delivery = "delivered" THEN TRUE ELSE r.fresh]

\* The state that is recorded after a delivery that was not due or not
\* possible, succeeded, or failed on every channel.
Outcome(item, r, v, delivery) ==
    CASE delivery = "delivered" ->
             [last |-> AsLast(currentStatus(item, r, v)), fresh |-> TRUE]
      [] delivery = "failed" -> [last |-> r.last, fresh |-> r.fresh]
      [] OTHER ->
             [last |-> AsLast(currentStatus(item, r, v)), fresh |-> r.fresh]

\* notifyAll: nothing is attempted without a channel, and one channel that
\* succeeds is a delivery.
Deliveries(news) ==
    IF news = "none" THEN {"none"}
    ELSE IF ~round.channels THEN {"unaddressed"} ELSE {"delivered", "failed"}

\* Why a state is recorded (history): what was delivered, or a metric or
\* expiry rule that no longer alarms.
Reason(item, last, delivery) ==
    IF item # "status" /\ last = "off" THEN "over" ELSE delivery

\* One rule of the loop.  A rule that was not loaded is skipped, an ssh_login
\* rule is left to the login monitors, a state that did not change is not
\* queued (alertStateEqual).
Check(k, delivery) ==
    /\ round.phase = "check" /\ k \in DOMAIN round.snap
    /\ IF delivery = "failed" THEN Fault ELSE UNCHANGED faults
    /\ LET r == round.snap[k]
           v == round.loaded[k]
           rest == [j \in DOMAIN round.snap \ {k} |-> round.snap[j]]
           new == Outcome(k[2], r, v, delivery)
       IN  IF k \notin DOMAIN round.loaded
           THEN /\ delivery = "none"
                /\ round' = [round EXCEPT !.snap = rest]
                /\ UNCHANGED told
           ELSE /\ delivery \in Deliveries(News(k[2], r, v))
                /\ round' = [round EXCEPT !.snap = rest,
                       !.queue = IF new = [last |-> r.last, fresh |-> r.fresh]
                                    /\ delivery # "delivered"
                                 THEN @ ELSE Over(Only(r.id, [new |-> new,
                                     by |-> Reason(k[2], new.last, delivery)]), @)]
                /\ told' = IF delivery = "delivered"
                           THEN [told EXCEPT ![r.id] =
                                    [news |-> News(k[2], r, v), ahead |-> TRUE]]
                           ELSE told
    /\ UNCHANGED <<rules, teamRules, servers, channels, world, edits>>

\* updateRuleStatus: rows are found by id; those deleted meanwhile are not.
Recorded(r) ==
    IF r.id \in DOMAIN round.queue
    THEN [r EXCEPT !.last = round.queue[r.id].new.last,
                   !.fresh = round.queue[r.id].new.fresh]
    ELSE r

\* A metric or expiry rule recorded as not alarming starts anew: the alarm it
\* gave before does not count for what comes later (told).
updateRuleStatus ==
    /\ round.phase = "check" /\ DOMAIN round.snap = {}
    /\ rules' = [k \in DOMAIN rules |-> Recorded(rules[k])]
    /\ told' = [i \in DOMAIN told |->
                   IF i \notin DOMAIN round.queue THEN told[i]
                   ELSE CASE round.queue[i].by = "delivered" ->
                                 [told[i] EXCEPT !.ahead = FALSE]
                          [] round.queue[i].by = "unaddressed" ->
                                 [news |-> "unaddressed", ahead |-> FALSE]
                          [] round.queue[i].by = "over" ->
                                 [news |-> "none", ahead |-> FALSE]
                          [] OTHER -> told[i]]
    /\ round' = Idle
    /\ UNCHANGED <<teamRules, servers, channels, world, edits, faults>>

\* The transaction fails, or the hub is restarted anywhere in a round.
Abandon ==
    /\ round.phase # "idle" /\ Fault
    /\ round' = Idle
    /\ UNCHANGED <<rules, teamRules, servers, channels, world, told, edits>>

Outcomes == {"none", "unaddressed", "delivered", "failed"}

Run ==
    \/ ReadRules \/ ReadChannels \/ ReadChannelsFails \/ FinishLoading
    \/ round.phase = "load" /\ \E p \in round.plans : QueryOk(p) \/ QueryFails(p)
    \/ \E k \in Keys, o \in Outcomes : Check(k, o)
    \/ updateRuleStatus

Next ==
    \/ Edit \/ Run \/ Abandon
    \/ \E k \in Keys : HourPasses(k) \/ \E v \in 0..MaxLevel : WorldChanges(k, v)

\* The ticker starts a round every five minutes and a round runs to its end;
\* time passes.  Only the MaxFaults failures keep a round from its work.
Fairness ==
    /\ WF_alertVars(Run)
    /\ WF_alertVars(\E k \in Keys : HourPasses(k))

Spec == Init /\ [][Next]_alertVars /\ Fairness

-----------------------------------------------------------------------------
(* Properties *)

Alarm(k) == IF k[2] = "status" THEN "off" ELSE "on"

\* A rule that is recorded as alarming has given the alarm, unless the team
\* had no channel to give it to; a status rule recorded as up has not left
\* "down" as its last word.  A failed delivery must leave the old state for
\* the next round, and a state computed for a deleted rule must not reach the
\* rule that replaced it.  Only a status rule whose news went out while its
\* new state was lost (failed transaction, restart) is exempt.
RecordedWasTold ==
    \A k \in DOMAIN rules :
        LET r == rules[k]  t == told[rules[k].id] IN
        \/ t.ahead /\ k[2] = "status"
        \/ /\ r.last = Alarm(k) => t.news \in {"alarm", "unaddressed"}
           /\ (k[2] = "status" /\ r.last = "on") => t.news # "alarm"

\* A condition that lasts is announced: a rule that exists for good, whose
\* server stays in the alarming state while the team has a channel, has given
\* the alarm in the end, however often queries, deliveries and updates fail
\* and whichever batch or slice the rule falls in.  A metric rule also catches
\* up, within the hour, when its alarm was recorded before there was a channel;
\* a status or expiry rule is not repeated.
Lasting(k) ==
    /\ k \in DOMAIN rules
    /\ channels
    /\ currentStatus(k[2], rules[k], world[k]) = (k[2] # "status")

Announced(k) ==
    /\ k \in DOMAIN rules
    /\ LET t == told[rules[k].id]
       IN  \/ t.news = "alarm"
           \/ k[2] \in {"status", "expiry_reminder"} /\ t.news = "unaddressed"
           \/ k[2] = "status" /\ t.ahead

AlarmAnnounced == \A k \in Keys : (<>[]Lasting(k)) => <>[]Announced(k)
=============================================================================
