----------------------------- MODULE BotControl -----------------------------
(***************************************************************************)
(* The life of one bot's connection on the leading worker replica: the API *)
(* routes that start, stop, restart and delete it, the BullMQ control jobs *)
(* they enqueue, BaseWorker's handlers of those jobs, its reconnect timers *)
(* and its reconcile sweep, and the connect/disconnect code of two         *)
(* adapters (Telegram long polling and Twitch).                            *)
(*                                                                         *)
(* JavaScript runs one handler at a time and switches only where a handler *)
(* awaits, so a handler is a task that advances one await at a time: each  *)
(* action below is the synchronous code between two awaits, and the tasks  *)
(* interleave at their awaits.  A database or provider call takes effect   *)
(* in the action that follows the await of it.                             *)
(***************************************************************************)
EXTENDS BreakerOps, FiniteSets

CONSTANTS MaxReconnectAttempts,  \* MAX_RECONNECT_ATTEMPTS, 10 in the code
          SweepTasks,            \* reconcile cycles that may overlap
          AttemptTasks,          \* attemptReconnect calls that may overlap
          Scenarios              \* the environments to consider, see Scenario

(* An environment: which adapter the bot has, how many API requests,       *)
(* faults and crashes are still to come and how many provider clients may  *)
(* exist at once (bounds), which requests users make and whether they wait *)
(* for the bot to settle first, whether setTimeout may fire before         *)
(* Date.now agrees, and whether the API's stale-transition watchdog runs.  *)
Scenario == [adapter     : {"telegram", "twitch"},
             calls       : Nat,
             faults      : Nat,
             crashes     : Nat,
             clients     : Nat \ {0},
             requests    : SUBSET {"start", "stop", "restart", "delete"},
             polite      : BOOLEAN,
             earlyTimers : BOOLEAN,
             watchdog    : BOOLEAN]

ASSUME BotControlAssumption ==
  /\ MaxReconnectAttempts \in Nat \ {0}
  /\ \A s \in Scenarios : s \in Scenario
  /\ IsFiniteSet(SweepTasks) /\ IsFiniteSet(AttemptTasks)
  /\ SweepTasks \cap AttemptTasks = {}
  /\ {"connectJob", "disconnectJob", "drop"} \cap (SweepTasks \cup AttemptTasks) = {}

VARIABLES db,        \* Bot.status, or "deleted" when the row is gone
          entry,     \* this.bots.get(botId)?.status, "none" without an entry
          attempts,  \* entry.reconnectAttempts
          inst,      \* the client in the adapter's `instances` map
          polling,   \* clients that hold a live provider connection
          timer,     \* what reconnectTimers holds for the bot
          breaker,   \* the bot's circuit breaker
          jobs,      \* the bot's connect and disconnect jobs in BullMQ
          task,      \* where each handler in flight is suspended
          request,   \* the API request between its update and its enqueue
          intent,    \* history: what the last API request asked for
          overlap,   \* history: two tasks have been working at once
          env        \* the scenario: its bounds count down

vars == <<db, entry, attempts, inst, polling, timer, breaker, jobs,
          task, request, intent, overlap, env>>

Status == {"idle", "connecting", "running", "reconnecting", "error", "deleted"}
(* Mutant of Active: a sweep that restarts only the bots marked running. *)
ActiveRunningOnly == {"running"}
Active == {"running", "connecting", "reconnecting"}

NoClient == 0
Clients == UNION {1..s.clients : s \in Scenarios}

(* reconnectTimers holds nothing, a timer armed for a backoff delay or for *)
(* the rest of a cooldown, or still the handle of a timer that has fired.  *)
TimerState == {"none", "backoff", "cooldown", "spent"}

Tasks == {"connectJob", "disconnectJob", "drop"} \cup SweepTasks \cup AttemptTasks

(* The await a task is suspended at: the status query is being answered    *)
(* ("read") or its answer is on its way ("guard"), buildCredentials, the    *)
(* stop of the old client, the provider handshake, a status update that     *)
(* was issued ("wrote..."), the stop of a client in disconnect().           *)
Await == {"idle", "read", "guard", "build", "stopOld", "handshake", "stop",
          "wroteRunning", "wroteError", "wroteAgain", "wroteGaveUp",
          "wroteIdle", "wroteReconnecting"}

(* `seen`: the status a task read; `old`: the client it is stopping.       *)
Idle == [at |-> "idle", seen |-> "none", old |-> NoClient]

JobState == {"none", "waiting", "active"}

TypeOK ==
  /\ db \in Status
  /\ entry \in {"none", "connecting", "running", "reconnecting", "error"}
  /\ attempts \in 0..MaxReconnectAttempts
  /\ inst \in Clients \cup {NoClient}
  /\ polling \subseteq Clients
  /\ timer \in TimerState
  /\ breaker \in Breaker
  /\ jobs \in [connect : JobState, disconnect : JobState]
  /\ task \in [Tasks -> [at   : Await,
                         seen : Status \cup {"none"},
                         old  : Clients \cup {NoClient}]]
  /\ request \in {"none", "start", "stop", "restart", "delete"}
  /\ intent \in {"run", "stop"}
  /\ overlap \in BOOLEAN
  /\ env \in Scenario

Init ==
  /\ db = "idle" /\ entry = "none" /\ attempts = 0
  /\ inst = NoClient /\ polling = {}
  /\ timer = "none"
  /\ breaker = NewBreaker
  /\ jobs = [connect |-> "none", disconnect |-> "none"]
  /\ task = [t \in Tasks |-> Idle]
  /\ request = "none" /\ intent = "stop" /\ overlap = FALSE
  /\ env \in Scenarios

-----------------------------------------------------------------------------
(* Helpers.                                                                *)
Connected == inst # NoClient

Quiet == /\ \A t \in Tasks : task[t] = Idle
         /\ jobs = [connect |-> "none", disconnect |-> "none"]
         /\ request = "none"

(* Task t is suspended at await a, and goes on to await b. *)
At(t, a) == task[t].at = a
Goto(t, b) == task' = [task EXCEPT ![t].at = b]

(* A handler that returns or throws ends its job; sweeps and timers have none. *)
EndJob(t) == jobs' = CASE t = "connectJob"    -> [jobs EXCEPT !.connect = "none"]
                       [] t = "disconnectJob" -> [jobs EXCEPT !.disconnect = "none"]
                       [] OTHER               -> jobs
Finish(t) == task' = [task EXCEPT ![t] = Idle] /\ EndJob(t)

(* prisma.bot.update throws when the row is gone; every caller catches it. *)
WriteStatus(s) == db' = IF db = "deleted" THEN db ELSE s

(* Mutant of SetEntry: only the database row is updated. *)
SetEntryNever(s) == UNCHANGED entry

(* if (entry) entry.status = s *)
SetEntry(s) == entry' = IF entry = "none" THEN entry ELSE s

Fault == env.faults > 0 /\ env' = [env EXCEPT !.faults = @ - 1]

FreeClients == (1..env.clients) \ (polling \cup {inst} \cup {task[t].old : t \in Tasks})

(* Tasks between the first await of a connect and its outcome. *)
Connecting == {t \in Tasks : task[t].at \in {"build", "stopOld", "handshake"}}

(* Tasks that are changing the connection, not merely reading the status. *)
Working == {t \in Tasks : task[t].at \notin {"idle", "read", "guard"}}
Track == overlap' = (overlap \/ Cardinality(Working') > 1)

-----------------------------------------------------------------------------
(* The API.  Each route updates the status first and enqueues afterwards.  *)

(* Users who wait until nothing is in flight and no retry is pending. *)
MayCall == /\ db # "deleted" /\ request = "none"
           /\ env.polite => Quiet /\ timer \notin {"backoff", "cooldown"}
           /\ env.calls > 0
           /\ env' = [env EXCEPT !.calls = @ - 1]

Request(r) ==
  /\ r \in env.requests /\ MayCall
  /\ request' = r
  /\ db' = CASE r = "start"   -> "connecting"
             [] r = "stop"    -> "idle"
             [] r = "restart" -> "reconnecting"
             [] r = "delete"  -> "deleted"
  /\ intent' = IF r \in {"start", "restart"} THEN "run" ELSE "stop"
  /\ UNCHANGED <<entry, attempts, inst, polling, timer, breaker, jobs, task, overlap>>

(* queue.add with a fixed jobId: ignored while a job of that id exists. *)
Enqueue ==
  /\ request # "none"
  /\ LET j == IF request \in {"start", "restart"} THEN "connect" ELSE "disconnect"
     IN  jobs' = [jobs EXCEPT ![j] = IF @ = "none" THEN "waiting" ELSE @]
  /\ request' = "none"
  /\ UNCHANGED <<db, entry, attempts, inst, polling, timer, breaker, task, intent, env, overlap>>

(* The queue is unreachable: the restart handler reverts the status, the   *)
(* start, stop and delete routes only report the error.                    *)
EnqueueFails ==
  /\ request # "none" /\ Fault
  /\ IF request = "restart" THEN WriteStatus("idle") ELSE UNCHANGED db
  /\ request' = "none"
  /\ UNCHANGED <<entry, attempts, inst, polling, timer, breaker, jobs, task, intent, overlap>>

(* The stale-transition watchdog of app.ts. *)
WatchdogResets ==
  /\ env.watchdog /\ db \in {"connecting", "reconnecting"}
  /\ db' = "idle"
  /\ UNCHANGED <<entry, attempts, inst, polling, timer, breaker, jobs, task,
                 request, intent, env, overlap>>
-----------------------------------------------------------------------------
(* The way to a connection, shared by connect jobs, the sweep and retries. *)

(* Mutant of BeginConnect: the registered client is not stopped first. *)
BeginConnectOver(t) == Goto(t, "handshake") /\ entry' = "connecting"

(* adapter.connect() up to its first await: stop the registered client, or *)
(* prepareConnect() and open a new one.                                    *)
BeginConnect(t) ==
  IF Connected
  THEN /\ task' = [task EXCEPT ![t].at = "stopOld", ![t].old = inst]
       /\ entry' = IF t \in SweepTasks \/ entry = "none" THEN "connecting" ELSE entry
  ELSE Goto(t, "handshake") /\ entry' = "connecting"

(* scheduleReconnect(), reached with the entry e (a connect job has made   *)
(* sure there is one) by task t.  writeLog awaits nothing, so the whole    *)
(* method up to the status update of giving up is one step.                *)
ScheduleReconnect(t, e) ==
  IF e = "none" THEN Finish(t) /\ UNCHANGED <<entry, attempts, timer, breaker>>
  ELSE IF attempts >= MaxReconnectAttempts
  THEN /\ breaker' = ResetCircuit(AfterFailure(breaker))
       /\ attempts' = 0 /\ timer' = "none"
       /\ entry' = "error"
       /\ Goto(t, "wroteGaveUp") /\ UNCHANGED jobs
  ELSE LET b == TryHalfOpen(AfterFailure(breaker))
       IN  /\ breaker' = b
           /\ attempts' = attempts + 1
           /\ timer' = IF b.state = "open" THEN "cooldown" ELSE "backoff"
           /\ entry' = e
           /\ Finish(t)

(* buildCredentials() resolved; it made an entry if there was none. *)
Build(t) ==
  /\ At(t, "build") /\ db # "deleted"
  /\ BeginConnect(t)
  /\ UNCHANGED <<db, attempts, inst, polling, timer, breaker, jobs, request, intent, env, overlap>>

(* buildCredentials() threw "not found".  The sweep does not catch it per  *)
(* bot; the two other callers feed it to scheduleReconnect.                *)
BuildFails(t) ==
  /\ At(t, "build") /\ db = "deleted"
  /\ IF t \in SweepTasks
     THEN Finish(t) /\ UNCHANGED <<entry, attempts, timer, breaker>>
     ELSE ScheduleReconnect(t, IF t = "connectJob" /\ entry = "none"
                               THEN "connecting" ELSE entry)
  /\ UNCHANGED <<db, inst, polling, request, intent, env, overlap>>

(* The old client has stopped and `instances` forgets the bot.  A Twitch   *)
(* client is still registered when it closes, so its own `disconnected`    *)
(* handler runs first and treats the replacement as a drop.                *)
StopOld(t) ==
  LET old   == task[t].old
      event == env.adapter = "twitch" /\ old \in polling /\ inst = old
  IN  /\ At(t, "stopOld")
      /\ event => task["drop"] = Idle
      /\ polling' = polling \ {old}
      /\ inst' = NoClient
      /\ entry' = "connecting"
      /\ task' = [task EXCEPT ![t] = [Idle EXCEPT !.at = "handshake"],
                              !["drop"].at = IF event THEN "wroteReconnecting" ELSE @]
      /\ Track
      /\ UNCHANGED <<db, attempts, timer, breaker, jobs, request, intent, env>>

(* The provider accepts; the client is registered and markConnected issues *)
(* its update.                                                             *)
HandshakeSucceeds(t) ==
  /\ At(t, "handshake")
  /\ \E c \in FreeClients :
       /\ \A d \in FreeClients : c <= d
       /\ inst' = c /\ polling' = polling \cup {c}
  /\ entry' = "running" /\ attempts' = 0
  /\ breaker' = AfterSuccess(breaker)
  /\ Goto(t, "wroteRunning")
  /\ UNCHANGED <<db, timer, jobs, request, intent, env, overlap>>

HandshakeFails(t) ==
  /\ At(t, "handshake") /\ Fault
  /\ SetEntry("error")
  /\ Goto(t, "wroteError")
  /\ UNCHANGED <<db, attempts, inst, polling, timer, breaker, jobs, request, intent, overlap>>

(* Mutant of ConnectedWritten: the pending timer is left in the map. *)
ConnectedWrittenKeepingTimer(t) ==
  /\ At(t, "wroteRunning")
  /\ WriteStatus("running") /\ Finish(t)
  /\ UNCHANGED <<entry, attempts, inst, polling, timer, breaker, request, intent, env, overlap>>

(* markConnected after its update: the pending reconnect timer is cleared. *)
ConnectedWritten(t) ==
  /\ At(t, "wroteRunning")
  /\ WriteStatus("running")
  /\ timer' = "none"
  /\ Finish(t)
  /\ UNCHANGED <<entry, attempts, inst, polling, breaker, request, intent, env, overlap>>

(* markDisconnected('Connect failed') after its update; the error reaches  *)
(* the caller.  The sweep records it a second time, the others schedule    *)
(* the retry.                                                              *)
ErrorWritten(t) ==
  /\ WriteStatus("error")
  /\ \/ /\ At(t, "wroteError") /\ t \in SweepTasks
        /\ SetEntry("error") /\ Goto(t, "wroteAgain")
        /\ UNCHANGED <<attempts, timer, breaker, jobs>>
     \/ /\ \/ At(t, "wroteError") /\ t \notin SweepTasks
           \/ At(t, "wroteAgain")
        /\ ScheduleReconnect(t, IF t = "connectJob" /\ entry = "none"
                                THEN "connecting" ELSE entry)
  /\ UNCHANGED <<inst, polling, request, intent, env, overlap>>

GaveUpWritten(t) ==
  /\ At(t, "wroteGaveUp")
  /\ WriteStatus("error") /\ Finish(t)
  /\ UNCHANGED <<entry, attempts, inst, polling, timer, breaker, request, intent, env, overlap>>

ConnectStep(t) ==
  \/ Build(t) \/ BuildFails(t) \/ StopOld(t)
  \/ HandshakeSucceeds(t) \/ HandshakeFails(t)
  \/ ConnectedWritten(t) \/ ErrorWritten(t) \/ GaveUpWritten(t)
-----------------------------------------------------------------------------
(* adapter.disconnect(), shared by disconnect jobs and the sweep.          *)

(* Up to its first await.  Twitch unregisters the client before it closes  *)
(* it, Telegram afterwards.                                                *)
BeginDisconnect(t) ==
  /\ timer' = "none"
  /\ IF Connected
     THEN /\ task' = [task EXCEPT ![t] = [Idle EXCEPT !.at = "stop", !.old = inst]]
          /\ inst' = IF env.adapter = "twitch" THEN NoClient ELSE inst
          /\ UNCHANGED <<entry, attempts>>
     ELSE /\ entry' = "none" /\ attempts' = 0
          /\ task' = [task EXCEPT ![t] = [Idle EXCEPT !.at = "wroteIdle"]]
          /\ UNCHANGED inst

Stopped(t) ==
  /\ At(t, "stop")
  /\ polling' = polling \ {task[t].old}
  /\ inst' = IF env.adapter = "telegram" THEN NoClient ELSE inst
  /\ entry' = "none" /\ attempts' = 0
  /\ task' = [task EXCEPT ![t] = [Idle EXCEPT !.at = "wroteIdle"]]
  /\ UNCHANGED <<db, timer, breaker, jobs, request, intent, env, overlap>>

(* Telegram's stop() ends the polling loop and then throws: the job is     *)
(* retried, the sweep logs and goes on.                                    *)
StopThrows(t) ==
  /\ At(t, "stop") /\ env.adapter = "telegram"
  /\ task[t].old \in polling /\ Fault
  /\ polling' = polling \ {task[t].old}
  /\ task' = [task EXCEPT ![t] = Idle]
  /\ jobs' = IF t = "disconnectJob" THEN [jobs EXCEPT !.disconnect = "waiting"] ELSE jobs
  /\ UNCHANGED <<db, entry, attempts, inst, timer, breaker, request, intent, overlap>>

DisconnectedWritten(t) ==
  /\ At(t, "wroteIdle")
  /\ WriteStatus("idle") /\ Finish(t)
  /\ UNCHANGED <<entry, attempts, inst, polling, timer, breaker, request, intent, env, overlap>>

DisconnectStep(t) == Stopped(t) \/ StopThrows(t) \/ DisconnectedWritten(t)
-----------------------------------------------------------------------------
(* processJob.                                                             *)

(* A connect already in flight ("connecting") owns the bot. *)
ConnectJobStarts ==
  /\ jobs.connect = "waiting" /\ task["connectJob"] = Idle
  /\ IF entry = "connecting"
     THEN jobs' = [jobs EXCEPT !.connect = "none"] /\ UNCHANGED task
     ELSE jobs' = [jobs EXCEPT !.connect = "active"] /\ Goto("connectJob", "read")
  /\ UNCHANGED <<db, entry, attempts, inst, polling, timer, breaker, request, intent, env, overlap>>

DisconnectJobStarts ==
  /\ jobs.disconnect = "waiting" /\ task["disconnectJob"] = Idle
  /\ jobs' = [jobs EXCEPT !.disconnect = "active"]
  /\ Goto("disconnectJob", "read")
  /\ UNCHANGED <<db, entry, attempts, inst, polling, timer, breaker, request, intent, env, overlap>>

(* The database answers a status query; the answer may be old when acted on. *)
ReadStatus(t) ==
  /\ At(t, "read")
  /\ task' = [task EXCEPT ![t].at = "guard", ![t].seen = db]
  /\ UNCHANGED <<db, entry, attempts, inst, polling, timer, breaker, jobs,
                 request, intent, env, overlap>>

(* Whether the connect job goes on, given the status it read: not for a    *)
(* stopped bot, and only a restart overrides a connection or a timer.      *)
ConnectWanted(seen) ==
  /\ seen \notin {"idle", "error"}
  /\ seen = "reconnecting" \/ (~Connected /\ timer = "none")

ConnectJobGuard ==
  /\ At("connectJob", "guard")
  /\ LET seen == task["connectJob"].seen
     IN  IF ConnectWanted(seen)
         THEN /\ task' = [task EXCEPT !["connectJob"] = [Idle EXCEPT !.at = "build"]]
              /\ timer' = "none"
              /\ UNCHANGED jobs
         ELSE Finish("connectJob") /\ UNCHANGED timer
  /\ Track
  /\ UNCHANGED <<db, entry, attempts, inst, polling, breaker, request, intent, env>>

(* A disconnect for a bot that is meant to run is stale. *)
DisconnectJobGuard ==
  /\ At("disconnectJob", "guard")
  /\ IF task["disconnectJob"].seen \in Active
     THEN Finish("disconnectJob") /\ UNCHANGED <<entry, attempts, inst, timer>>
     ELSE BeginDisconnect("disconnectJob") /\ UNCHANGED jobs
  /\ Track
  /\ UNCHANGED <<db, polling, breaker, request, intent, env>>
-----------------------------------------------------------------------------
(* autoStartBots, every RECONCILE_INTERVAL_MS and on becoming leader.      *)
SweepStarts(t) ==
  /\ t \in SweepTasks /\ task[t] = Idle
  /\ Goto(t, "read")
  /\ UNCHANGED <<db, entry, attempts, inst, polling, timer, breaker, jobs,
                 request, intent, env, overlap>>

(* The bot is in the list to stop: tear down a connection it should not have. *)
SweepStops(t) ==
  /\ t \in SweepTasks /\ At(t, "guard") /\ task[t].seen \in {"idle", "error"}
  /\ IF Connected THEN BeginDisconnect(t) /\ UNCHANGED jobs
     ELSE Finish(t) /\ UNCHANGED <<entry, attempts, inst, timer>>
  /\ Track
  /\ UNCHANGED <<db, polling, breaker, request, intent, env>>

(* The bot is in the list to start, or (deleted) in neither list. *)
SweepConnects(t) ==
  /\ t \in SweepTasks /\ At(t, "guard") /\ task[t].seen \notin {"idle", "error"}
  /\ LET wanted == task[t].seen \in Active /\ ~Connected /\ timer = "none"
     IN  /\ breaker' = IF wanted THEN AfterCanAttempt(breaker) ELSE breaker
         /\ IF wanted /\ Allows(breaker)
            THEN task' = [task EXCEPT ![t] = [Idle EXCEPT !.at = "build"]] /\ UNCHANGED jobs
            ELSE Finish(t)
  /\ Track
  /\ UNCHANGED <<db, entry, attempts, inst, polling, timer, request, intent, env>>

(* A reconnect timer fires; attemptReconnect asks the breaker.  The map    *)
(* keeps the handle.  A cooldown timer is due when the cooldown is over.   *)
TimerFires(t) ==
  /\ t \in AttemptTasks /\ task[t] = Idle
  /\ timer \in {"backoff", "cooldown"}
  /\ timer = "cooldown" /\ ~env.earlyTimers =>
       breaker.state # "open" \/ CooledDown(breaker)
  /\ timer' = "spent"
  /\ breaker' = AfterCanAttempt(breaker)
  /\ IF Allows(breaker) THEN Goto(t, "build") ELSE UNCHANGED task
  /\ Track
  /\ UNCHANGED <<db, entry, attempts, inst, polling, jobs, request, intent, env>>

(* A provider connection is lost.  The registered client's handler drops   *)
(* it from `instances` and calls markReconnecting; another one just dies.  *)
ClientDrops(c) ==
  /\ c \in polling /\ task["drop"] = Idle /\ Fault
  /\ polling' = polling \ {c}
  /\ IF inst = c
     THEN inst' = NoClient /\ SetEntry("reconnecting") /\ Goto("drop", "wroteReconnecting")
     ELSE UNCHANGED <<inst, entry, task>>
  /\ Track
  /\ UNCHANGED <<db, attempts, timer, breaker, jobs, request, intent>>

(* Twitch goes on to schedule the retry; Telegram's restoreConnection does *)
(* not: the promise whose rejection should schedule it is settled already. *)
DropWritten ==
  /\ At("drop", "wroteReconnecting")
  /\ WriteStatus("reconnecting")
  /\ IF env.adapter = "twitch" THEN ScheduleReconnect("drop", entry)
     ELSE Finish("drop") /\ UNCHANGED <<entry, attempts, timer, breaker>>
  /\ UNCHANGED <<inst, polling, request, intent, env, overlap>>

(* The worker process dies and another replica leads: memory is empty, and *)
(* BullMQ puts the jobs that were active back into the queue.              *)
Crash ==
  /\ env.crashes > 0
  /\ env' = [env EXCEPT !.crashes = @ - 1]
  /\ entry' = "none" /\ attempts' = 0 /\ inst' = NoClient /\ polling' = {}
  /\ timer' = "none" /\ breaker' = NewBreaker
  /\ task' = [t \in Tasks |-> Idle]
  /\ jobs' = [j \in DOMAIN jobs |-> IF jobs[j] = "active" THEN "waiting" ELSE jobs[j]]
  /\ UNCHANGED <<db, request, intent, overlap>>

(* Time passes for the breaker. *)
Tick ==
  /\ breaker' = Age(breaker) /\ breaker' # breaker
  /\ UNCHANGED <<db, entry, attempts, inst, polling, timer, jobs, task,
                 request, intent, env, overlap>>
-----------------------------------------------------------------------------
TaskStep(t) ==
  \/ ReadStatus(t)
  \/ t = "connectJob" /\ ConnectJobGuard
  \/ t = "disconnectJob" /\ DisconnectJobGuard
  \/ t = "drop" /\ DropWritten
  \/ SweepStops(t) \/ SweepConnects(t)
  \/ ConnectStep(t) \/ DisconnectStep(t)

Next ==
  \/ \E r \in {"start", "stop", "restart", "delete"} : Request(r)
  \/ Enqueue \/ EnqueueFails \/ WatchdogResets
  \/ ConnectJobStarts \/ DisconnectJobStarts
  \/ \E t \in Tasks : TaskStep(t)
  \/ \E t \in SweepTasks : SweepStarts(t)
  \/ \E t \in AttemptTasks : TimerFires(t)
  \/ \E c \in Clients : ClientDrops(c)
  \/ Crash \/ Tick

Spec == Init /\ [][Next]_vars

(* What the event loop, BullMQ and setInterval guarantee: a handler whose  *)
(* await is answered goes on, a waiting job is taken, the reconcile cycle  *)
(* runs again, timers fire, an API request reaches its enqueue.  Nothing   *)
(* forces a user, a fault, a crash or the watchdog.                        *)
Fairness ==
  /\ \A t \in Tasks : WF_vars(TaskStep(t))
  /\ \A t \in SweepTasks : WF_vars(SweepStarts(t))
  /\ \A t \in AttemptTasks : WF_vars(TimerFires(t))
  /\ WF_vars(Enqueue)
  /\ WF_vars(ConnectJobStarts)
  /\ WF_vars(DisconnectJobStarts)
  /\ WF_vars(Tick)

FairSpec == Spec /\ Fairness
-----------------------------------------------------------------------------
(* Properties.  `~overlap` restricts a property to the executions in which *)
(* no two handlers have worked on the bot's connection at the same time;   *)
(* the violation runs show what the overlaps do.                           *)

(* While handlers take turns, a provider connection is never orphaned: it  *)
(* is the registered client's, or a handler is stopping it.  This is what  *)
(* the replace-before-connect and stop-then-forget orders of connect() and *)
(* disconnect() are for; an orphan would answer every event a second time. *)
RegisteredOnly ==
  ~overlap => polling \subseteq {inst} \cup {task[t].old : t \in Tasks}

(* Once the handlers have come to rest, a bot whose last attempt failed    *)
(* has its next attempt scheduled: scheduleReconnect is reached on every   *)
(* failure path and attemptReconnect never swallows one.                   *)
FailedBotHasRetry ==
  Quiet /\ ~overlap /\ entry = "error" /\ attempts > 0
    => timer \in {"backoff", "cooldown"}

(* Once the handlers have come to rest, the worker's own record agrees     *)
(* with the adapter: the entry says "running" exactly when a client is     *)
(* registered.  processJob and the health score rely on the entry, the     *)
(* sweep on isConnected().  (Not for a bot whose row has been deleted.)    *)
EntryTruth ==
  Quiet /\ ~overlap /\ db # "deleted" => (Connected <=> entry = "running")

(* A timer that has fired never stays in reconnectTimers once the handlers *)
(* have come to rest: its handle would make both processJob and the sweep  *)
(* believe for ever that a retry is pending.                               *)
TimerLive == Quiet /\ ~overlap => timer # "spent"

(* Types, and a bot at rest owes its next attempt to a live timer.         *)
RetryOwned == TypeOK /\ FailedBotHasRetry /\ TimerLive

(* However handlers, requests and faults interleave, the system converges: *)
(* from some point on the bot is connected exactly when the database says  *)
(* it should be, which is the reconcile sweep's promise.  (On Twitch, as   *)
(* long as no two handlers overlap.)                                       *)
StatusSettles ==
  (env.adapter = "telegram" \/ []~overlap) => <>[](Connected <=> db \in Active)

(* Where users wait for the bot to settle and no call fails, their last    *)
(* request is served in the end, across crashes of the worker: a bot asked *)
(* to run gets connected, a bot asked to stop is released, and the row     *)
(* keeps saying so.                                                        *)
Undisturbed == [](env.polite /\ env.faults = 0)
RunIntentServed ==
  Undisturbed /\ <>[](intent = "run") => <>[](Connected /\ db \in Active)
StopIntentServed ==
  Undisturbed /\ <>[](intent = "stop") => <>[](~Connected /\ db \notin Active)

(* Users who wait for the bot get what they asked for.                     *)
IntentServed == RunIntentServed /\ StopIntentServed

(* No step takes a bot from "idle" to "running": a stale connect must not  *)
(* resurrect a bot the database says is stopped (processJob, 'connect').   *)
NoResurrection == [][db = "idle" => db' # "running"]_vars
=============================================================================
