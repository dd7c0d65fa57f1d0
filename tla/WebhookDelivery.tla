--------------------------- MODULE WebhookDelivery ---------------------------
(***************************************************************************)
(* Outgoing webhooks: dispatchWebhooks matches an event against the        *)
(* enabled webhooks through a cache and adds one BullMQ job per match; the *)
(* job posts to the endpoint and records the outcome; a job that fails all *)
(* its attempts is copied to the dead-letter queue, from which the API can *)
(* replay it.                                                              *)
(*                                                                         *)
(* One bot and one event type: a single cache key.  The module has no      *)
(* Next of its own: the actions marked (fault) need a failing database,    *)
(* Redis or process, and EventPipeline decides when those happen.          *)
(***************************************************************************)
EXTENDS Naturals, FiniteSets

CONSTANTS Event,
          Hook,             \* rows of the webhook table
          WebhookAttempts,  \* WEBHOOK_ATTEMPTS, 5 in the code
          ReplayAttempts,   \* attempts of a replayed job, 3 in the code
          Concurrency,      \* WEBHOOK_CONCURRENCY, 5 in the code
          Operator          \* calls of the dead-letter replay route

VARIABLES hook,     \* the webhook row: enabled, disabled or deleted
          cache,    \* webhookMatchCache: the match it holds, if any
          lookups,  \* dispatches of an event waiting for findMany
          jobs,     \* the delivery jobs ever added, by id
          got,      \* <<hook, event>> the endpoint has received
          replays   \* the calls of replayDeadLetterJob

webhookVars == <<hook, cache, lookups, jobs, got, replays>>

HookState == {"enabled", "disabled", "deleted"}

(* A job id: which delivery of which event to which webhook (the nonce of  *)
(* dispatchWebhooks makes every add a job of its own).                     *)
JobId == Hook \X Event \X (Nat \ {0})

(* waiting -> posting -> recording -> done, back to waiting when an        *)
(* attempt fails; after the last attempt moving -> dead (in the DLQ), or   *)
(* lost; a dead job that was replayed is removed from the DLQ.             *)
JobState == {"waiting", "posting", "recording", "done", "moving", "dead", "lost", "removed"}
Job == [by : {"event", "operator"}, made : 0..WebhookAttempts, stalls : {0, 1}, state : JobState]

NewJob(by) == [by |-> by, made |-> 0, stalls |-> 0, state |-> "waiting"]

NoJob == <<>>
ReplayState == {"idle", "found", "added", "done"}

TypeOK ==
  /\ hook \in [Hook -> HookState]
  /\ cache \in [known : BOOLEAN, match : SUBSET Hook]
  /\ lookups \in [Event -> Nat]
  /\ DOMAIN jobs \subseteq JobId
  /\ \A j \in DOMAIN jobs : jobs[j] \in Job
  /\ got \subseteq Hook \X Event
  /\ \A o \in Operator : /\ replays[o].at \in ReplayState
                         /\ replays[o].job \in DOMAIN jobs \cup {NoJob}

Init ==
  /\ hook \in [Hook -> {"enabled", "disabled"}]
  /\ cache = [known |-> FALSE, match |-> {}]
  /\ lookups = [e \in Event |-> 0]
  /\ jobs = <<>>
  /\ got = {}
  /\ replays = [o \in Operator |-> [at |-> "idle", job |-> NoJob]]

InState(S) == {j \in DOMAIN jobs : jobs[j].state \in S}
Active == InState({"posting", "recording"})
Live == InState({"waiting", "posting", "recording", "moving"})

-----------------------------------------------------------------------------
(* Adding jobs.                                                            *)

CopiesOf(h, e) == {j \in DOMAIN jobs : j[1] = h /\ j[2] = e}
NextId(h, e) == <<h, e, Cardinality(CopiesOf(h, e)) + 1>>

(* queue.add for each of the webhooks.                                     *)
QueueJobs(hooks, e, by) ==
  LET new == {NextId(h, e) : h \in hooks}
  IN  jobs' = [j \in new \cup DOMAIN jobs |-> IF j \in new THEN NewJob(by) ELSE jobs[j]]

(* The jobs of a dispatch; Redis rejects the ones in `failed`.             *)
AddJobs(hooks, e, failed) == QueueJobs(hooks \ failed, e, "event")

Dispatch(e, failed) ==
  /\ \/ /\ cache.known
        /\ AddJobs(cache.match, e, failed)
        /\ UNCHANGED lookups
     \/ /\ ~cache.known /\ failed = {}
        /\ lookups' = [lookups EXCEPT ![e] = @ + 1]
        /\ UNCHANGED jobs
  /\ UNCHANGED <<hook, cache, got, replays>>

Enabled == {h \in Hook : hook[h] = "enabled"}

CacheMatch(match) == cache' = [known |-> TRUE, match |-> match]

LookupReply(e, failed) ==
  /\ lookups[e] > 0
  /\ lookups' = [lookups EXCEPT ![e] = @ - 1]
  /\ CacheMatch(Enabled)
  /\ AddJobs(Enabled, e, failed)
  /\ UNCHANGED <<hook, got, replays>>

(* (fault) findMany rejects: the dispatch is logged and given up.          *)
LookupFails(e) ==
  /\ lookups[e] > 0
  /\ lookups' = [lookups EXCEPT ![e] = @ - 1]
  /\ UNCHANGED <<hook, cache, jobs, got, replays>>

(* The match is evicted, or older than WEBHOOK_MATCH_CACHE_TTL_MS.         *)
CacheExpires ==
  /\ cache.known
  /\ cache' = [known |-> FALSE, match |-> {}]
  /\ UNCHANGED <<hook, lookups, jobs, got, replays>>

(* The routes that enable, disable and delete a webhook; none tells the    *)
(* workers, whose caches and queued jobs keep what they read.              *)
EditHook(h, s) ==
  /\ hook[h] # "deleted" /\ s # hook[h]
  /\ hook' = [hook EXCEPT ![h] = s]
  /\ UNCHANGED <<cache, lookups, jobs, got, replays>>

-----------------------------------------------------------------------------
(* Delivering: deliverWebhookJob under the BullMQ worker.                  *)

SetState(j, s) == jobs' = [jobs EXCEPT ![j].state = s]

Attempts(job) == IF job.by = "operator" THEN ReplayAttempts ELSE WebhookAttempts

(* The failed handler's test for copying the job to the dead-letter queue. *)
GoesToDlqLate(made) == made > WebhookAttempts
GoesToDlq(made) == made >= WebhookAttempts

(* Mutant of Retried: an attempt is not counted.                           *)
RetriedUncounted(job) == [job EXCEPT !.state = "waiting"]

(* A job after one more failed attempt.                                    *)
Retried(job) ==
  LET made == job.made + 1
  IN  [job EXCEPT !.made = made,
                  !.state = IF made < Attempts(job) THEN "waiting"
                            ELSE IF GoesToDlq(made) THEN "moving" ELSE "lost"]

AttemptFails(j) == jobs' = [jobs EXCEPT ![j] = Retried(@)]

StartAttempt(j) ==
  /\ jobs[j].state = "waiting" /\ Cardinality(Active) < Concurrency
  /\ SetState(j, "posting")
  /\ UNCHANGED <<hook, cache, lookups, got, replays>>

(* A replayed job carries the delivery nested under `data`: its url is     *)
(* undefined, and no request leaves the worker.                            *)
HasUrl(j) == jobs[j].by = "event"

PostSucceeds(j) ==
  /\ jobs[j].state = "posting" /\ HasUrl(j)
  /\ got' = got \cup {<<j[1], j[2]>>}
  /\ SetState(j, "recording")
  /\ UNCHANGED <<hook, cache, lookups, replays>>

(* The endpoint refuses, or takes the request and its answer is lost.      *)
PostFails(j, reached) ==
  /\ jobs[j].state = "posting"
  /\ reached => HasUrl(j)
  /\ got' = IF reached THEN got \cup {<<j[1], j[2]>>} ELSE got
  /\ AttemptFails(j)
  /\ UNCHANGED <<hook, cache, lookups, replays>>

(* webhook.update, and the history row whose failure is ignored.           *)
RecordSucceeds(j) ==
  /\ jobs[j].state = "recording" /\ hook[j[1]] # "deleted"
  /\ SetState(j, "done")
  /\ UNCHANGED <<hook, cache, lookups, got, replays>>

(* The update throws because the row is gone, or (fault) the database is:  *)
(* the attempt fails although the endpoint has the event.                  *)
RecordFails(j) ==
  /\ jobs[j].state = "recording"
  /\ AttemptFails(j)
  /\ UNCHANGED <<hook, cache, lookups, got, replays>>

MoveLands(j) ==
  /\ jobs[j].state = "moving"
  /\ SetState(j, "dead")
  /\ UNCHANGED <<hook, cache, lookups, got, replays>>

(* (fault) The add to the dead-letter queue is rejected, and logged.       *)
MoveFails(j) ==
  /\ jobs[j].state = "moving"
  /\ SetState(j, "lost")
  /\ UNCHANGED <<hook, cache, lookups, got, replays>>

(* The worker process ends.  BullMQ hands an active job out again once; a  *)
(* second stall fails it with attempts to spare.  A request, and a move to *)
(* the dead-letter queue, may or may not have got through.                 *)
Stalled(job) ==
  IF job.stalls = 0 THEN [job EXCEPT !.stalls = 1, !.state = "waiting"]
                    ELSE [job EXCEPT !.state = "lost"]

WorkerLost ==
  /\ \E reached \in SUBSET {j \in InState({"posting"}) : HasUrl(j)},
        moved \in SUBSET InState({"moving"}) :
       /\ got' = got \cup {<<j[1], j[2]>> : j \in reached}
       /\ jobs' = [j \in DOMAIN jobs |->
                     IF j \in Active THEN Stalled(jobs[j])
                     ELSE IF jobs[j].state = "moving"
                       THEN [jobs[j] EXCEPT !.state = IF j \in moved THEN "dead" ELSE "lost"]
                     ELSE jobs[j]]
  /\ cache' = [known |-> FALSE, match |-> {}]
  /\ lookups' = [e \in Event |-> 0]
  /\ UNCHANGED <<hook, replays>>

-----------------------------------------------------------------------------
(* replayDeadLetterJob in the API: find the dead job, add it to its queue, *)
(* remove it from the dead-letter queue.  Two calls may overlap.           *)

ReplayFinds(o, j) ==
  /\ replays[o].at = "idle" /\ jobs[j].state = "dead"
  /\ replays' = [replays EXCEPT ![o] = [at |-> "found", job |-> j]]
  /\ UNCHANGED <<hook, cache, lookups, jobs, got>>

ReplayAdds(o) ==
  /\ replays[o].at = "found"
  /\ replays' = [replays EXCEPT ![o].at = "added"]
  /\ LET j == replays[o].job
     IN  QueueJobs({j[1]}, j[2], "operator")
  /\ UNCHANGED <<hook, cache, lookups, got>>

(* The dead job may be gone already: the removal's failure is ignored.     *)
ReplayRemoves(o) ==
  /\ replays[o].at = "added"
  /\ replays' = [replays EXCEPT ![o].at = "done"]
  /\ SetState(replays[o].job, "removed")
  /\ UNCHANGED <<hook, cache, lookups, got>>

(* (fault) The API process or Redis fails between two of the calls.        *)
ReplayAborts(o) ==
  /\ replays[o].at \in {"found", "added"}
  /\ replays' = [replays EXCEPT ![o].at = "done"]
  /\ UNCHANGED <<hook, cache, lookups, jobs, got>>
=============================================================================
