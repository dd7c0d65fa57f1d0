--------------------------------- MODULE Metrics ---------------------------------
(***************************************************************************)
(* How a bot's activity reaches Prometheus: a worker counts in the bot's   *)
(* entry and publishes the running total to Redis (base-worker.ts,         *)
(* heartbeat.ts), and every scrape of the API turns totals into the growth *)
(* of a counter, against a baseline that survives the API in Redis         *)
(* (api/src/metrics/prometheus.ts, registry.ts).  One series stands for    *)
(* all; a heartbeat is kept as its age.                                    *)
(***************************************************************************)
EXTENDS Integers

CONSTANTS Instance,       \* worker processes of the platform
          HeartbeatTTL,   \* WORKER_HEARTBEAT_TTL_MS, in clock units
          MaxActivity     \* bound: actions counted

ASSUME MetricsAssumption == HeartbeatTTL \in Nat \ {0} /\ MaxActivity \in Nat

VARIABLES activity,  \* history: what the bot really did
          running,   \* the entry's counter: since the entry exists
          health,    \* bothive:health:<bot>, -1 when it has expired
          baseline,  \* the persisted baseline, -1 for none
          api,       \* [last, counter, loaded]: lastBotCounterValues, the
                     \* counter, and whether the baselines were loaded
          beat,      \* age of each instance's heartbeat, HeartbeatTTL once gone
          up         \* bothive_worker_up

metricsVars == <<activity, running, health, baseline, api, beat, up>>

None0 == -1
NewApi == [last |-> None0, counter |-> 0, loaded |-> FALSE]

MetricsInit ==
    /\ activity = 0 /\ running = 0 /\ health = None0 /\ baseline = None0 /\ api = NewApi
    /\ beat = [i \in Instance |-> HeartbeatTTL] /\ up = FALSE

(* The worker: one more action, a new entry, the periodic publishing.      *)
CountActivity == /\ activity < MaxActivity
                 /\ activity' = activity + 1 /\ running' = running + 1
                 /\ UNCHANGED <<health, baseline, api, beat, up>>

EntryDropped == running' = 0 /\ UNCHANGED <<activity, health, baseline, api, beat, up>>

PublishHealth == health' = running /\ UNCHANGED <<activity, running, baseline, api, beat, up>>

HealthExpires == health' = None0 /\ UNCHANGED <<activity, running, baseline, api, beat, up>>

(* startWorkerHeartbeat; a stop leaves the key to its TTL.                 *)
Beat(i) == /\ beat' = [beat EXCEPT ![i] = 0]
           /\ UNCHANGED <<activity, running, health, baseline, api, up>>

-----------------------------------------------------------------------------
(* Mutant of Grown: the baseline stays where the first scrape put it.      *)
GrownFromSeed(a, total) ==
    IF a.last = None0 THEN [a EXCEPT !.last = total, !.counter = @ + total]
    ELSE [a EXCEPT !.counter = @ + (IF total >= a.last THEN total - a.last ELSE total)]

(* incrementCounterFromCumulative: the first total seeds the counter, a    *)
(* later one adds its growth, and a smaller one is taken for a new start.  *)
Grown(a, total) ==
    [a EXCEPT !.last = total,
              !.counter = @ + (IF a.last # None0 /\ total >= a.last THEN total - a.last ELSE total)]

(* A scrape: collectBotHealth and collectWorkerHealth.  The baseline is    *)
(* written without waiting and may be lost.  A Redis that does not answer  *)
(* leaves the counters and reports the workers down.                       *)
Scrape ==
    /\ api' = IF health # None0 THEN Grown(api, health) ELSE api
    /\ baseline' \in IF health # None0 THEN {baseline, health} ELSE {baseline}
    /\ up' = \E i \in Instance : beat[i] < HeartbeatTTL
    /\ UNCHANGED <<activity, running, health, beat>>

ScrapeWithoutRedis == /\ up' = FALSE
                      /\ UNCHANGED <<activity, running, health, baseline, api, beat>>

(* A new API process begins to load the baselines and does not wait: a     *)
(* scrape may come first, and the load then sets its baseline back.        *)
LoadBaselines == /\ ~api.loaded
                 /\ api' = [api EXCEPT !.loaded = TRUE, !.last = IF baseline = None0 THEN @ ELSE baseline]
                 /\ UNCHANGED <<activity, running, health, baseline, beat, up>>

ApiRestarts == api' = NewApi /\ UNCHANGED <<activity, running, health, baseline, beat, up>>

MetricsTick == /\ beat' = [i \in Instance |-> IF beat[i] < HeartbeatTTL THEN beat[i] + 1 ELSE beat[i]]
               /\ UNCHANGED <<activity, running, health, baseline, api, up>>

MetricsNext ==
    \/ CountActivity \/ EntryDropped \/ PublishHealth \/ HealthExpires
    \/ \E i \in Instance : Beat(i)
    \/ Scrape \/ ScrapeWithoutRedis \/ LoadBaselines \/ ApiRestarts \/ MetricsTick

MetricsSpec == MetricsInit /\ [][MetricsNext]_metricsVars

-----------------------------------------------------------------------------
(* Restarts of workers and of the API, lost baselines and a scrape that    *)
(* overtakes the load never make a counter show more than twice what the   *)
(* bot did: a total is counted at most once as a seed and once as growth.  *)
(* The comment of lastBotCounterValues promises once.                      *)
CountedTwiceAtMost == api.counter <= 2 * activity
=================================================================================
