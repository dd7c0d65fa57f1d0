---------------------------- MODULE EventPipeline ----------------------------
(***************************************************************************)
(* What happens to a platform event in a worker process: BaseWorker.emit   *)
(* claims its id, hands it to the handlers (webhooks, scripts, the AI      *)
(* reply) and to the batcher of the event store; the API replays stored    *)
(* events through the platform's queue; the process crashes, or shuts down *)
(* and flushes, and starts again.  Composes RowBatcher and WebhookDelivery *)
(* and decides, through the scenario, which faults they meet.              *)
(*                                                                         *)
(* emit awaits only settled promises between the claim and the enqueue of  *)
(* the row: RedisDedupStore calls ioredis's `set` without its receiver,    *)
(* which throws, so the claim is always the memory store's.  Nothing but   *)
(* microtasks comes between, and the whole of emit is one step.            *)
(***************************************************************************)
EXTENDS RowBatcher, FiniteSets

CONSTANTS Natural,          \* the event ids the platform assigned
          Hook, WebhookAttempts, ReplayAttempts, Concurrency, Operator,
          Rerun,            \* calls of the event replay route
          RerunAttempts,    \* attempts of the replay job, 3 in the code
          Scenarios

(* Bounds on what the environment still does: events the provider presents *)
(* (again), claims that expire, webhook edits, cache expiries, database or *)
(* Redis faults, requests the endpoint refuses, ends of the process, and   *)
(* calls of the routes that replay events and dead letters.                *)
Scenario == [deliveries : Nat, expiries : Nat, edits : Nat, evictions : Nat,
             faults : Nat, refusals : Nat, exits : Nat, reruns : Nat, salvages : Nat]

ASSUME PipelineAssumption ==
  /\ Natural \subseteq Event
  /\ {WebhookAttempts, ReplayAttempts, Concurrency, RerunAttempts} \subseteq Nat \ {0}
  /\ ReplayAttempts < WebhookAttempts
  /\ Scenarios \subseteq Scenario

VARIABLES hook, cache, lookups, jobs, got, replays,
          phase,     \* the process: "up", then the steps of its shutdown, "down"
          claimed,   \* ids the dedup store remembers
          answered,  \* history: AI replies begun since an id was last unclaimed
          fanouts,   \* history: how often an event was handed to the handlers
          reruns,    \* the replay jobs of stored events
          faulted,   \* history: something other than an endpoint has failed
          edited,    \* history: a webhook has been edited
          env

Webhooks == INSTANCE WebhookDelivery

hookVars == <<hook, cache, lookups, jobs, got, replays>>
eventVars == <<claimed, answered, fanouts>>
vars == <<storeVars, hookVars, phase, eventVars, reruns, faulted, edited, env>>

Phase == {"up", "closing", "flushing", "exiting", "down"}
RerunState == {"idle", "waiting", "active", "ending", "done", "failed"}

TypeOK ==
  /\ BatcherTypeOK /\ Webhooks!TypeOK
  /\ phase \in Phase
  /\ claimed \subseteq Natural
  /\ answered \in [Event -> Nat] /\ fanouts \in [Event -> Nat]
  /\ \A r \in Rerun : /\ reruns[r].at \in RerunState
                      /\ reruns[r].made \in 0..RerunAttempts
                      /\ reruns[r].at # "idle" => reruns[r].event \in Event
  /\ faulted \in BOOLEAN /\ edited \in BOOLEAN
  /\ env \in Scenario

NoEvent == "none"

Init ==
  /\ BatcherInit /\ Webhooks!Init
  /\ phase = "up" /\ claimed = {}
  /\ answered = [e \in Event |-> 0] /\ fanouts = [e \in Event |-> 0]
  /\ reruns = [r \in Rerun |-> [at |-> "idle", event |-> NoEvent, made |-> 0]]
  /\ faulted = FALSE /\ edited = FALSE
  /\ env \in Scenarios

Running == phase # "down"

Spend(bound) == env[bound] > 0 /\ env' = [env EXCEPT ![bound] = @ - 1]

Fault == Spend("faults") /\ faulted' = TRUE

-----------------------------------------------------------------------------
(* emit.                                                                   *)

(* The handlers of worker.onEvent, then enqueueEvent.  Only an event that  *)
(* is not a replay may be answered by the AI.                              *)
FanOut(e, replayed, failed) ==
  /\ Webhooks!Dispatch(e, failed)
  /\ EnqueueRow(e)
  /\ fanouts' = [fanouts EXCEPT ![e] = @ + 1]
  /\ answered' = IF replayed THEN answered ELSE [answered EXCEPT ![e] = @ + 1]

(* Rejected adds are faults.                                               *)
Rejecting(failed) ==
  IF failed = {} THEN UNCHANGED <<env, faulted>> ELSE Fault

(* The adapter hands over an event.  An id the platform assigned may come  *)
(* again (redelivery, reconnect); any other id is a fresh UUID.            *)
Fresh(e) == e \in Natural \/ e \notin accepted

Deliver(e) ==
  /\ phase = "up" /\ Fresh(e) /\ e \notin claimed
  /\ claimed' = claimed \cup ({e} \cap Natural)
  /\ FanOut(e, FALSE, {})
  /\ Spend("deliveries")
  /\ UNCHANGED <<phase, reruns, faulted, edited>>

(* The adapter hands over an event while Redis refuses some of the jobs.   *)
DeliverRejected(e, failed) ==
  /\ phase = "up" /\ Fresh(e) /\ e \notin claimed
  /\ failed # {} /\ failed \subseteq cache.match
  /\ claimed' = claimed \cup ({e} \cap Natural)
  /\ FanOut(e, FALSE, failed)
  /\ env.deliveries > 0 /\ env.faults > 0
  /\ env' = [env EXCEPT !.deliveries = @ - 1, !.faults = @ - 1]
  /\ faulted' = TRUE
  /\ UNCHANGED <<phase, reruns, edited>>

(* DEFAULT_DEDUP_TTL_SECONDS after the claim the id may be claimed again.  *)
ClaimExpires(e) ==
  /\ e \in claimed
  /\ claimed' = claimed \ {e}
  /\ answered' = [answered EXCEPT ![e] = 0]
  /\ Spend("expiries")
  /\ UNCHANGED <<storeVars, hookVars, phase, fanouts, reruns, faulted, edited>>

-----------------------------------------------------------------------------
(* Replays of stored events: POST /api/events/:id/replay and the worker's  *)
(* `event` job.                                                            *)

RequestRerun(r, e) ==
  /\ reruns[r].at = "idle" /\ e \in stored
  /\ reruns' = [reruns EXCEPT ![r] = [at |-> "waiting", event |-> e, made |-> 0]]
  /\ Spend("reruns")
  /\ UNCHANGED <<storeVars, hookVars, phase, eventVars, faulted, edited>>

RerunTo(r, s) == reruns' = [reruns EXCEPT ![r].at = s]

(* The job is taken and looks its bot up.                                  *)
StartRerun(r) ==
  /\ phase = "up" /\ reruns[r].at = "waiting"
  /\ RerunTo(r, "active")
  /\ UNCHANGED <<storeVars, hookVars, phase, eventVars, faulted, edited, env>>

RerunEmits(r, failed) ==
  /\ reruns[r].at = "active" /\ failed \subseteq cache.match
  /\ FanOut(reruns[r].event, TRUE, failed)
  /\ RerunTo(r, "ending")
  /\ Rejecting(failed)
  /\ UNCHANGED <<phase, claimed, edited>>

RerunDone(r) ==
  /\ reruns[r].at = "ending"
  /\ RerunTo(r, "done")
  /\ UNCHANGED <<storeVars, hookVars, phase, eventVars, faulted, edited, env>>

(* The lookup rejects, or the replica is not the leader.                   *)
RerunFails(r) ==
  /\ reruns[r].at = "active" /\ Fault
  /\ LET made == reruns[r].made + 1
     IN  reruns' = [reruns EXCEPT ![r].made = made,
                                  ![r].at = IF made < RerunAttempts THEN "waiting" ELSE "failed"]
  /\ UNCHANGED <<storeVars, hookVars, phase, eventVars, edited>>

-----------------------------------------------------------------------------
(* The batcher and the webhook worker at work.                             *)

(* A step of the batcher.  The shutdown waits for the flush it began or    *)
(* joined, and exits whatever the buffer holds by then.                    *)
FlushTimer ==
  /\ Running /\ TimerFires
  /\ UNCHANGED <<hookVars, phase, eventVars, reruns, faulted, edited, env>>

AfterFlush == phase' = IF phase = "flushing" THEN "exiting" ELSE phase

FlushEnds ==
  /\ WriteLands /\ AfterFlush
  /\ UNCHANGED <<hookVars, eventVars, reruns, faulted, edited, env>>

FlushFails ==
  /\ WriteFails /\ Fault /\ AfterFlush
  /\ UNCHANGED <<hookVars, eventVars, reruns, edited>>

(* The frame of a step of the webhooks alone.                              *)
HookStep == UNCHANGED <<storeVars, phase, eventVars, reruns, edited>>
Healthy == UNCHANGED <<faulted, env>>

Lookup(e, failed) ==
  /\ Webhooks!LookupReply(e, failed) /\ failed \subseteq Webhooks!Enabled
  /\ Rejecting(failed)
  /\ HookStep

LookupFails(e) == Webhooks!LookupFails(e) /\ Fault /\ HookStep

CacheExpires ==
  /\ Webhooks!CacheExpires /\ Spend("evictions")
  /\ UNCHANGED faulted /\ HookStep

EditHook(h, s) ==
  /\ Webhooks!EditHook(h, s) /\ Spend("edits") /\ edited' = TRUE
  /\ UNCHANGED <<storeVars, phase, eventVars, reruns, faulted>>

(* close() stops the worker from taking jobs.                              *)
StartAttempt(j) == phase = "up" /\ Webhooks!StartAttempt(j) /\ HookStep /\ Healthy

PostSucceeds(j) == Webhooks!PostSucceeds(j) /\ HookStep /\ Healthy

PostFails(j, reached) ==
  /\ Webhooks!PostFails(j, reached)
  /\ IF Webhooks!HasUrl(j) THEN Spend("refusals") ELSE UNCHANGED env
  /\ UNCHANGED faulted /\ HookStep

RecordSucceeds(j) == Webhooks!RecordSucceeds(j) /\ HookStep /\ Healthy

RecordFails(j) ==
  /\ Webhooks!RecordFails(j) /\ HookStep
  /\ IF hook[j[1]] = "deleted" THEN Healthy ELSE Fault

MoveLands(j) == Webhooks!MoveLands(j) /\ HookStep /\ Healthy
MoveFails(j) == Webhooks!MoveFails(j) /\ HookStep /\ Fault

ReplayFinds(o, j) ==
  Webhooks!ReplayFinds(o, j) /\ HookStep /\ Spend("salvages") /\ UNCHANGED faulted
ReplayAdds(o) == Webhooks!ReplayAdds(o) /\ HookStep /\ Healthy
ReplayRemoves(o) == Webhooks!ReplayRemoves(o) /\ HookStep /\ Healthy
ReplayAborts(o) == Webhooks!ReplayAborts(o) /\ HookStep /\ Fault

-----------------------------------------------------------------------------
(* The process ends and starts.                                            *)

(* manager.shutdown has returned: the bots are disconnected and the jobs   *)
(* of the platform queues have finished; the webhook worker is closing.    *)
Shutdown ==
  /\ phase = "up" /\ \A r \in Rerun : reruns[r].at \notin {"active", "ending"}
  /\ phase' = "closing"
  /\ Spend("exits")
  /\ UNCHANGED <<storeVars, hookVars, eventVars, reruns, faulted, edited>>

(* The deliveries in flight have finished; flush what is buffered.         *)
FlushAtExit ==
  /\ phase = "closing" /\ Webhooks!Active = {}
  /\ phase' = "flushing"
  /\ FlushRows
  /\ UNCHANGED <<hookVars, eventVars, reruns, faulted, edited, env>>

(* Everything in memory goes; jobs that were running are handed out again. *)
ProcessEnds ==
  /\ phase' = "down"
  /\ BatcherLost /\ Webhooks!WorkerLost
  /\ claimed' = {} /\ answered' = [e \in Event |-> 0]
  /\ reruns' = [r \in Rerun |->
                  IF reruns[r].at \in {"active", "ending"}
                  THEN [reruns[r] EXCEPT !.at = "waiting"] ELSE reruns[r]]
  /\ faulted' = TRUE
  /\ UNCHANGED <<fanouts, edited>>

Exit == phase = "exiting" /\ ProcessEnds /\ UNCHANGED env
Crash == Running /\ ProcessEnds /\ Spend("exits")

Restart ==
  /\ phase = "down" /\ phase' = "up"
  /\ UNCHANGED <<storeVars, hookVars, eventVars, reruns, faulted, edited, env>>

-----------------------------------------------------------------------------
Emission ==
  \/ \E e \in Event : Deliver(e) \/ ClaimExpires(e)
  \/ \E e \in Event, failed \in SUBSET Hook : DeliverRejected(e, failed)

Replaying ==
  \E r \in Rerun :
    \/ \E e \in Event : RequestRerun(r, e)
    \/ StartRerun(r) \/ RerunDone(r) \/ RerunFails(r)
    \/ \E failed \in SUBSET Hook : RerunEmits(r, failed)

Storing == FlushTimer \/ FlushEnds \/ FlushFails

Matching ==
  \/ \E e \in Event : LookupFails(e) \/ \E failed \in SUBSET Hook : Lookup(e, failed)
  \/ CacheExpires
  \/ \E h \in Hook, s \in Webhooks!HookState : EditHook(h, s)

Posting(j) == \/ StartAttempt(j) \/ PostSucceeds(j)
              \/ \E reached \in BOOLEAN : PostFails(j, reached)
              \/ RecordSucceeds(j) \/ RecordFails(j) \/ MoveLands(j) \/ MoveFails(j)

Salvaging ==
  \E o \in Operator :
    \/ \E j \in DOMAIN jobs : ReplayFinds(o, j)
    \/ ReplayAdds(o) \/ ReplayRemoves(o) \/ ReplayAborts(o)

Process == Shutdown \/ FlushAtExit \/ Exit \/ Crash \/ Restart

Next ==
  \/ Emission \/ Replaying \/ Storing \/ Matching
  \/ \E j \in DOMAIN jobs : Posting(j)
  \/ Salvaging \/ Process

Spec == Init /\ [][Next]_vars

(* Timers fire, databases and queues answer (if only with an error), the   *)
(* webhook worker takes waiting jobs, and a process that ended is started  *)
(* again.                                                                  *)
Fairness ==
  /\ WF_vars(FlushTimer) /\ WF_vars(FlushEnds \/ FlushFails)
  /\ WF_vars(\E e \in Event, failed \in SUBSET Hook : Lookup(e, failed))
  /\ WF_vars(\E j \in DOMAIN jobs : Posting(j))
  /\ WF_vars(\E r \in Rerun : StartRerun(r) \/ RerunEmits(r, {}) \/ RerunDone(r))
  /\ WF_vars(FlushAtExit) /\ WF_vars(Exit) /\ WF_vars(Restart)

FairSpec == Spec /\ Fairness

-----------------------------------------------------------------------------
EventJobs(h, e) == {j \in Webhooks!CopiesOf(h, e) : jobs[j].by = "event"}

(* A redelivered or replayed event is not answered by the AI again while   *)
(* the process remembers its claim ("must not send a NEW AI reply into a   *)
(* chat that already got one", index.ts).                                  *)
AnsweredOnce == \A e \in Event : answered[e] <= 1

(* No handing-over of an event queues more than one delivery per webhook,  *)
(* whether the match came from the cache or from the database.             *)
OneJobPerFanout ==
  \A h \in Hook, e \in Event : Cardinality(EventJobs(h, e)) + lookups[e] <= fanouts[e]

(* As long as nothing fails and no webhook is edited, every handing-over   *)
(* of an event queues a delivery for each enabled webhook: the match cache *)
(* hides none.                                                             *)
EveryFanoutQueued ==
  ~faulted /\ ~edited =>
    \A h \in Webhooks!Enabled, e \in Event :
      Cardinality(EventJobs(h, e)) + lookups[e] = fanouts[e]

(* A delivery is complete only if the endpoint has the event, and unless   *)
(* the database, Redis or the process failed, one the endpoint never took  *)
(* is still queued or in the dead-letter queue, until it is replayed.      *)
DeliveryKept ==
  \A j \in DOMAIN jobs :
    jobs[j].by = "event" /\ jobs[j].state \in (IF faulted THEN {"done"} ELSE {"done", "lost"})
      => <<j[1], j[2]>> \in got


(* An event is accounted for on its way out, with the types of every       *)
(* variable: no answer or delivery too many, none too few.                 *)
EventAccounted ==
  TypeOK /\ AnsweredOnce /\ OneJobPerFanout /\ EveryFanoutQueued /\ DeliveryKept

(* Every row is eventually written or given up.                            *)
RowsSettle == []<>(buffer = <<>> /\ batch = <<>>)

(* Every delivery ends: no job is retried for ever or left behind.         *)
JobsSettle == []<>(Webhooks!Live = {})

(* webhooks.ts: deliveries that exhausted all retries are preserved in the *)
(* DLQ "so the API can list and replay them": a delivery that was replayed *)
(* and not received is queued, or back in the dead-letter queue.           *)
ReplayKeepsDelivery ==
  \A j \in DOMAIN jobs :
    jobs[j].state = "removed" /\ ~faulted =>
      \/ <<j[1], j[2]>> \in got
      \/ \E k \in Webhooks!CopiesOf(j[1], j[2]) :
           jobs[k].state \in {"waiting", "posting", "recording", "moving", "dead"}

(* Whatever fails, the pipeline comes to rest again and again.             *)
PipelineSettles == RowsSettle /\ JobsSettle
=============================================================================
