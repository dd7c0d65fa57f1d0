---------------------------- MODULE LeaderLease ----------------------------
(***************************************************************************)
(* The replicas of one platform's worker: the Redis lease that elects a    *)
(* leader, and what a replica does with its bots when it wins the lease,   *)
(* loses it, shuts down or dies.  One bot stands for all of them: `conn`   *)
(* says which replicas hold a live provider connection for it.  How one    *)
(* connection is made, retried and given up is BotControl's subject and is *)
(* one "connecting" await here.                                            *)
(*                                                                         *)
(* As in BotControl a handler is a task that advances one await at a time. *)
(* Time is not counted.  The code renews a lease of 30 s every 10 s, so a  *)
(* lease expires when its holder is gone; it is lost under a live holder   *)
(* when the holder cannot reach Redis or is stalled, or when Redis evicts  *)
(* the key, and each such loss is counted by a bound.                      *)
(***************************************************************************)
EXTENDS Integers, FiniteSets

CONSTANTS Replica,        \* the worker processes of the platform
          NoReplica,      \* the value of a free lease
          Checks,         \* leadership checks of a replica that may overlap
          Kinds,          \* the kinds of disturbances that may happen:
                          \*   "loss" of a lease under a live holder,
                          \*   "error" of a Redis command or a connect,
                          \*   "crash", graceful "shutdown",
                          \*   "start" and "stop" requests of the user
          MaxEvents,      \* bound: disturbances of all kinds together
          Repeated        \* bound: a kind may happen more than once

ASSUME LeaseAssumption ==
  /\ NoReplica \notin Replica
  /\ Checks \cap {"reconcile", "job", "attempt", "shutdown"} = {}
  /\ Kinds \subseteq {"loss", "error", "crash", "shutdown", "start", "stop"}
  /\ MaxEvents \in Nat /\ Repeated \in BOOLEAN

VARIABLES lease,      \* the value of bothive:leader:<platform> in Redis
          up,         \* replicas whose process is running
          isLeader,   \* this.isLeader of each replica
          losing,     \* this.isLosingLeadership
          entry,      \* this.bots has the bot
          conn,       \* the adapter holds a live connection
          timer,      \* the bot's handle in reconnectTimers
          task,       \* where each handler of each replica is suspended
          db,         \* Bot.status
          jobs,       \* the bot's control jobs waiting in BullMQ
          intent,     \* history: what the user asked for last
          budget      \* history: how many disturbances, and which kinds

vars == <<lease, up, isLeader, losing, entry, conn, timer, task, db, jobs, intent, budget>>

Tasks == Checks \cup {"reconcile", "job", "attempt", "shutdown"}

(* The await a task is suspended at.                                       *)
(*   tryAcquireLeadership: "set", "get", "renew"                           *)
(*   losing the lease, shutting down: "pausing", "release", "delete",      *)
(*     "closing" (worker.close waits for running jobs)                     *)
(*   autoStartBots, processJob: "list", "readConnect", "readDisconnect";   *)
(*     answered: "toStart", "toReplace", "toStop"                            *)
(*   connect(): "connecting", "wroteRunning", "wroteError"                 *)
(*   disconnect(): "stopping", "wroteIdle", "wroteReconnecting"            *)
Await == {"idle", "set", "get", "renew", "pausing", "release", "delete",
          "closing", "list", "readConnect", "readDisconnect",
          "toStart", "toReplace", "toStop", "connecting", "wroteRunning", "wroteError",
          "stopping", "wroteIdle", "wroteReconnecting"}

Active == {"running", "connecting", "reconnecting"}

TypeOK ==
  /\ lease \in Replica \cup {NoReplica}
  /\ up \subseteq Replica
  /\ isLeader \in [Replica -> BOOLEAN] /\ losing \in [Replica -> BOOLEAN]
  /\ entry \in [Replica -> BOOLEAN] /\ conn \in [Replica -> BOOLEAN]
  /\ timer \in [Replica -> {"none", "armed", "fired"}]
  /\ task \in [Replica -> [Tasks -> Await]]
  /\ db \in Active \cup {"idle", "error"}
  /\ jobs \subseteq {"connect", "disconnect"}
  /\ intent \in {"run", "stop"}
  /\ budget \in [events : 0..MaxEvents, kinds : SUBSET Kinds]

(* A fresh fleet; the bot is marked running by an earlier deployment. *)
Init ==
  /\ lease = NoReplica /\ up = Replica
  /\ isLeader = [r \in Replica |-> FALSE] /\ losing = [r \in Replica |-> FALSE]
  /\ entry = [r \in Replica |-> FALSE] /\ conn = [r \in Replica |-> FALSE]
  /\ timer = [r \in Replica |-> "none"]
  /\ task = [r \in Replica |-> [t \in Tasks |-> "idle"]]
  /\ db = "running" /\ jobs = {} /\ intent = "run"
  /\ budget = [events |-> 0, kinds |-> {}]

-----------------------------------------------------------------------------
At(r, t, a) == r \in up /\ task[r][t] = a
Goto(r, t, a) == task' = [task EXCEPT ![r][t] = a]
Idle(r, t) == At(r, t, "idle")

(* The timers of startLeadership still run: stopLeadership clears them. *)
Ticking(r) == Idle(r, "shutdown")

(* One more disturbance. *)
Disturb(kind) ==
  /\ kind \in Kinds /\ budget.events < MaxEvents
  /\ kind \in budget.kinds => Repeated
  /\ budget' = [events |-> budget.events + 1, kinds |-> budget.kinds \cup {kind}]

(* No live holder has been deprived of its lease so far. *)
Undisturbed == budget.kinds \cap {"loss", "shutdown"} = {}

Quiet == /\ \A r \in Replica, t \in Tasks : task[r][t] = "idle"
         /\ jobs = {}
-----------------------------------------------------------------------------
(* tryAcquireLeadership, run by every leadership check.                    *)
CheckStarts(r, c) ==
  /\ c \in Checks /\ Idle(r, c) /\ Ticking(r)
  /\ Goto(r, c, "set")
  /\ UNCHANGED <<lease, up, isLeader, losing, entry, conn, timer, db, jobs, intent, budget>>

(* ensureLeadershipState once the check is answered.  With the lease: on a *)
(* change, resume and sweep.  Without it: on a change, pause.  The replies *)
(* of one connection arrive in the order of its commands, so a command and *)
(* the code that follows its reply are one step.                           *)
Led(r, c) == /\ isLeader' = [isLeader EXCEPT ![r] = TRUE]
             /\ Goto(r, c, IF isLeader[r] THEN "idle" ELSE "list")

NotLed(r, c) == /\ isLeader' = [isLeader EXCEPT ![r] = FALSE]
                /\ Goto(r, c, IF isLeader[r] THEN "pausing" ELSE "idle")

(* Mutant of SetLease: SET without NX. *)
SetLeaseAlways(r, c) ==
  /\ At(r, c, "set")
  /\ lease' = r /\ Led(r, c)
  /\ UNCHANGED <<up, losing, entry, conn, timer, db, jobs, intent, budget>>

(* SET NX PX: take the lease if it is free. *)
SetLease(r, c) ==
  /\ At(r, c, "set")
  /\ IF lease = NoReplica
     THEN lease' = r /\ Led(r, c)
     ELSE Goto(r, c, "get") /\ UNCHANGED <<lease, isLeader>>
  /\ UNCHANGED <<up, losing, entry, conn, timer, db, jobs, intent, budget>>

(* GET: whose lease is it? *)
GetLease(r, c) ==
  /\ At(r, c, "get")
  /\ IF lease = r THEN Goto(r, c, "renew") /\ UNCHANGED isLeader ELSE NotLed(r, c)
  /\ UNCHANGED <<lease, up, losing, entry, conn, timer, db, jobs, intent, budget>>

(* PEXPIRE prolongs whatever lease there is now; its result is not read. *)
RenewLease(r, c) ==
  /\ At(r, c, "renew")
  /\ Led(r, c)
  /\ UNCHANGED <<lease, up, losing, entry, conn, timer, db, jobs, intent, budget>>

(* Redis rejects the command: the check throws and changes nothing. *)
RedisFails(r, c) ==
  /\ \E a \in {"set", "get", "renew"} : At(r, c, a)
  /\ Disturb("error")
  /\ Goto(r, c, "idle")
  /\ UNCHANGED <<lease, up, isLeader, losing, entry, conn, timer, db, jobs, intent>>

(* The status markDisconnected issues while isLosingLeadership is l.  Its  *)
(* mutant: the flag is ignored.                                            *)
RecordedIdle(l) == "wroteIdle"
Recorded(l) == IF l THEN "wroteReconnecting" ELSE "wroteIdle"

(* disconnect() by task t up to its first await. *)
BeginDisconnect(r, t, l) ==
  /\ timer' = [timer EXCEPT ![r] = "none"]
  /\ entry' = IF conn[r] THEN entry ELSE [entry EXCEPT ![r] = FALSE]
  /\ Goto(r, t, IF conn[r] THEN "stopping" ELSE Recorded(l))

(* The worker is paused: disconnectAll, for the bots in this.bots. *)
Paused(r, c) ==
  /\ At(r, c, "pausing") /\ task[r]["job"] = "idle"
  /\ IF entry[r]
     THEN losing' = [losing EXCEPT ![r] = TRUE] /\ BeginDisconnect(r, c, TRUE)
     ELSE /\ losing' = [losing EXCEPT ![r] = FALSE]
          /\ timer' = [timer EXCEPT ![r] = "none"]
          /\ Goto(r, c, "idle") /\ UNCHANGED entry
  /\ UNCHANGED <<lease, up, isLeader, conn, db, jobs, intent, budget>>

CheckStep(r, c) ==
  /\ c \in Checks
  /\ SetLease(r, c) \/ GetLease(r, c) \/ RenewLease(r, c) \/ Paused(r, c)
-----------------------------------------------------------------------------
(* connect() and disconnect(), from whichever task.                        *)
Connects(r, t) ==
  /\ At(r, t, "connecting")
  /\ conn' = [conn EXCEPT ![r] = TRUE] /\ entry' = [entry EXCEPT ![r] = TRUE]
  /\ Goto(r, t, "wroteRunning")
  /\ UNCHANGED <<lease, up, isLeader, losing, timer, db, jobs, intent, budget>>

ConnectFails(r, t) ==
  /\ At(r, t, "connecting") /\ Disturb("error")
  /\ entry' = [entry EXCEPT ![r] = TRUE]
  /\ Goto(r, t, "wroteError")
  /\ UNCHANGED <<lease, up, isLeader, losing, conn, timer, db, jobs, intent>>

(* markConnected and, after a failure, scheduleReconnect. *)
ConnectedWritten(r, t) ==
  /\ At(r, t, "wroteRunning")
  /\ db' = "running"
  /\ timer' = [timer EXCEPT ![r] = "none"]
  /\ Goto(r, t, "idle")
  /\ UNCHANGED <<lease, up, isLeader, losing, entry, conn, jobs, intent, budget>>

ErrorWritten(r, t) ==
  /\ At(r, t, "wroteError")
  /\ db' = "error"
  /\ entry' = [entry EXCEPT ![r] = @ \/ t = "job"]
  /\ timer' = [timer EXCEPT ![r] = IF entry'[r] THEN "armed" ELSE @]
  /\ Goto(r, t, "idle")
  /\ UNCHANGED <<lease, up, isLeader, losing, conn, jobs, intent, budget>>

(* The client has stopped: forget the bot; markDisconnected picks a status. *)
Stopped(r, t) ==
  /\ At(r, t, "stopping")
  /\ conn' = [conn EXCEPT ![r] = FALSE] /\ entry' = [entry EXCEPT ![r] = FALSE]
  /\ Goto(r, t, Recorded(losing[r]))
  /\ UNCHANGED <<lease, up, isLeader, losing, timer, db, jobs, intent, budget>>

(* A replica whose process ends keeps nothing but its lease in Redis. *)
Ends(r) ==
  /\ up' = up \ {r}
  /\ isLeader' = [isLeader EXCEPT ![r] = FALSE] /\ losing' = [losing EXCEPT ![r] = FALSE]
  /\ entry' = [entry EXCEPT ![r] = FALSE] /\ conn' = [conn EXCEPT ![r] = FALSE]
  /\ timer' = [timer EXCEPT ![r] = "none"]
  /\ task' = [task EXCEPT ![r] = [t \in Tasks |-> "idle"]]

(* The status is written; disconnectAll ends a loss of the lease, and is   *)
(* the last thing a shutdown waits for.                                    *)
DisconnectedWritten(r, t) ==
  /\ task[r][t] \in {"wroteIdle", "wroteReconnecting"} /\ r \in up
  /\ db' = IF task[r][t] = "wroteIdle" THEN "idle" ELSE "reconnecting"
  /\ IF t = "shutdown"
     THEN Ends(r)
     ELSE /\ Goto(r, t, "idle")
          /\ losing' = IF t \in Checks THEN [losing EXCEPT ![r] = FALSE] ELSE losing
          /\ UNCHANGED <<up, isLeader, entry, conn, timer>>
  /\ UNCHANGED <<lease, jobs, intent, budget>>

ConnectionStep(r, t) ==
  \/ Connects(r, t) \/ ConnectedWritten(r, t) \/ ErrorWritten(r, t)
  \/ Stopped(r, t) \/ DisconnectedWritten(r, t)
-----------------------------------------------------------------------------
(* autoStartBots and processJob.                                           *)

ReconcileStarts(r) ==
  /\ Idle(r, "reconcile") /\ Ticking(r) /\ isLeader[r]
  /\ Goto(r, "reconcile", "list")
  /\ UNCHANGED <<lease, up, isLeader, losing, entry, conn, timer, db, jobs, intent, budget>>

(* processJob: only a leader's worker is resumed, and a connect that is in *)
(* flight answers for a connect job.                                       *)
JobStarts(r, j) ==
  /\ Idle(r, "job") /\ isLeader[r]
  /\ task[r]["shutdown"] \notin {"closing", "stopping", "wroteIdle", "wroteReconnecting"}
  /\ j \in jobs /\ jobs' = jobs \ {j}
  /\ Goto(r, "job", IF j = "disconnect" THEN "readDisconnect"
                    ELSE IF \E t \in Tasks : task[r][t] = "connecting" THEN "idle"
                    ELSE "readConnect")
  /\ UNCHANGED <<lease, up, isLeader, losing, entry, conn, timer, db, intent, budget>>

(* A job that reaches a worker which has lost the lease and is not paused  *)
(* yet is refused.  A connect job has one attempt and is gone; a           *)
(* disconnect job is retried.                                              *)
JobRejected(r) ==
  /\ Idle(r, "job") /\ ~isLeader[r]
  /\ \E c \in Checks : At(r, c, "pausing")
  /\ "connect" \in jobs /\ jobs' = jobs \ {"connect"}
  /\ UNCHANGED <<lease, up, isLeader, losing, entry, conn, timer, task, db, intent, budget>>

ReadStatus(r, t) ==
  /\ \E a \in {"list", "readConnect", "readDisconnect"} :
       /\ At(r, t, a)
       /\ Goto(r, t, CASE db \in Active /\ a = "list"              -> "toStart"
                       [] db \in Active /\ a = "readConnect"       ->
                            IF db = "reconnecting" THEN "toReplace" ELSE "toStart"
                       [] db \notin Active /\ a # "readConnect"    -> "toStop"
                       [] OTHER                                    -> "idle")
  /\ UNCHANGED <<lease, up, isLeader, losing, entry, conn, timer, db, jobs, intent, budget>>

(* A live connection or a pending timer is left alone. *)
Starts(r, t) ==
  /\ At(r, t, "toStart")
  /\ IF conn[r] \/ timer[r] # "none"
     THEN Goto(r, t, "idle") /\ UNCHANGED entry
     ELSE Goto(r, t, "connecting") /\ entry' = [entry EXCEPT ![r] = TRUE]
  /\ UNCHANGED <<lease, up, isLeader, losing, conn, timer, db, jobs, intent, budget>>

(* A restart overrides a live connection and a pending timer. *)
Replaces(r, t) ==
  /\ At(r, t, "toReplace")
  /\ timer' = [timer EXCEPT ![r] = "none"]
  /\ entry' = [entry EXCEPT ![r] = TRUE]
  /\ Goto(r, t, "connecting")
  /\ UNCHANGED <<lease, up, isLeader, losing, conn, db, jobs, intent, budget>>

(* A disconnect job always disconnects, the sweep only what is connected. *)
Stops(r, t) ==
  /\ At(r, t, "toStop")
  /\ IF conn[r] \/ t = "job" THEN BeginDisconnect(r, t, losing[r])
     ELSE Goto(r, t, "idle") /\ UNCHANGED <<entry, timer>>
  /\ UNCHANGED <<lease, up, isLeader, losing, conn, db, jobs, intent, budget>>

ControlStep(r, t) == ReadStatus(r, t) \/ Starts(r, t) \/ Replaces(r, t) \/ Stops(r, t)

(* A reconnect timer; attemptReconnect does not ask who leads. *)
TimerFires(r) ==
  /\ Idle(r, "attempt") /\ timer[r] = "armed"
  /\ timer' = [timer EXCEPT ![r] = "fired"]
  /\ entry' = [entry EXCEPT ![r] = TRUE]
  /\ Goto(r, "attempt", "connecting")
  /\ UNCHANGED <<lease, up, isLeader, losing, conn, db, jobs, intent, budget>>
-----------------------------------------------------------------------------
(* shutdown().                                                             *)
ShutdownStarts(r) ==
  /\ Ticking(r) /\ Disturb("shutdown")
  /\ Goto(r, "shutdown", "release")
  /\ UNCHANGED <<lease, up, isLeader, losing, entry, conn, timer, db, jobs, intent>>

(* stopLeadership: GET the lease, DEL it if it is ours.  leaderRedis is    *)
(* closed then, checks in flight fail, and the timers are cleared.         *)
LeadershipStopped(r) ==
  /\ timer' = [timer EXCEPT ![r] = "none"]
  /\ task' = [task EXCEPT ![r] = [t \in Tasks |->
                CASE t = "shutdown"                        -> "closing"
                  [] @[t] \in {"set", "get", "renew"}      -> "idle"
                  [] OTHER                                 -> @[t]]]

ReadsLease(r) ==
  /\ At(r, "shutdown", "release")
  /\ IF lease = r
     THEN Goto(r, "shutdown", "delete") /\ UNCHANGED timer
     ELSE LeadershipStopped(r)
  /\ UNCHANGED <<lease, up, isLeader, losing, entry, conn, db, jobs, intent, budget>>

DeletesLease(r) ==
  /\ At(r, "shutdown", "delete")
  /\ lease' = NoReplica
  /\ LeadershipStopped(r)
  /\ UNCHANGED <<up, isLeader, losing, entry, conn, db, jobs, intent, budget>>

(* The worker is closed: disconnectAll with isLosingLeadership as it is. *)
Closes(r) ==
  /\ At(r, "shutdown", "closing") /\ task[r]["job"] = "idle"
  /\ IF entry[r]
     THEN BeginDisconnect(r, "shutdown", losing[r]) /\ UNCHANGED <<up, isLeader, losing, conn>>
     ELSE Ends(r)
  /\ UNCHANGED <<lease, db, jobs, intent, budget>>

ShutdownStep(r) == ReadsLease(r) \/ DeletesLease(r) \/ Closes(r)
-----------------------------------------------------------------------------
(* The environment.                                                        *)
Crash(r) ==
  /\ r \in up /\ Disturb("crash")
  /\ Ends(r)
  /\ UNCHANGED <<lease, db, jobs, intent>>

(* A new process has a new instance id, and a name is used again only when *)
(* its old lease is gone: before that the process could not lead anyway.   *)
Restart(r) ==
  /\ r \notin up /\ lease # r
  /\ up' = up \cup {r}
  /\ UNCHANGED <<lease, isLeader, losing, entry, conn, timer, task, db, jobs, intent, budget>>

(* Mutant of LeaseExpires: SET without PX. *)
LeaseNeverExpires == FALSE /\ UNCHANGED vars

(* The lease of a process that is gone expires. *)
LeaseExpires ==
  /\ lease # NoReplica /\ lease \notin up
  /\ lease' = NoReplica
  /\ UNCHANGED <<up, isLeader, losing, entry, conn, timer, task, db, jobs, intent, budget>>

(* A live holder loses it: unreachable, stalled for the TTL, or evicted. *)
LeaseLost ==
  /\ lease \in up /\ Disturb("loss")
  /\ lease' = NoReplica
  /\ UNCHANGED <<up, isLeader, losing, entry, conn, timer, task, db, jobs, intent>>

UserCalls(i) ==
  /\ Disturb(IF i = "run" THEN "start" ELSE "stop")
  /\ intent' = i
  /\ db' = IF i = "run" THEN "connecting" ELSE "idle"
  /\ jobs' = jobs \cup {IF i = "run" THEN "connect" ELSE "disconnect"}
  /\ UNCHANGED <<lease, up, isLeader, losing, entry, conn, timer, task>>
-----------------------------------------------------------------------------
TaskStep(r, t) ==
  \/ CheckStep(r, t) \/ ConnectionStep(r, t) \/ ControlStep(r, t)
  \/ t = "shutdown" /\ ShutdownStep(r)

Next ==
  \/ \E r \in Replica, t \in Tasks :
       TaskStep(r, t) \/ CheckStarts(r, t) \/ RedisFails(r, t) \/ ConnectFails(r, t)
  \/ \E r \in Replica :
       \/ ReconcileStarts(r) \/ TimerFires(r) \/ ShutdownStarts(r) \/ Crash(r) \/ Restart(r)
       \/ JobRejected(r)
       \/ \E j \in {"connect", "disconnect"} : JobStarts(r, j)
  \/ LeaseExpires \/ LeaseLost
  \/ \E i \in {"run", "stop"} : UserCalls(i)

Spec == Init /\ [][Next]_vars

(* The event loop, setInterval, BullMQ and Redis's key expiry; processes   *)
(* are restarted.  No user, no fault and no shutdown is forced.            *)
Fairness ==
  /\ \A r \in Replica, t \in Tasks : WF_vars(TaskStep(r, t))
  /\ \A r \in Replica : /\ \A c \in Checks : WF_vars(CheckStarts(r, c))
                        /\ WF_vars(ReconcileStarts(r)) /\ WF_vars(TimerFires(r))
                        /\ \A j \in {"connect", "disconnect"} : WF_vars(JobStarts(r, j))
                        /\ WF_vars(Restart(r))
  /\ WF_vars(LeaseExpires)

FairSpec == Spec /\ Fairness
-----------------------------------------------------------------------------
(* Unless a live holder was deprived of the lease, at most one replica     *)
(* holds a live connection for the bot, whatever the interleaving: "so     *)
(* `--scale` gives HA/failover, never duplicate connections" (the comment  *)
(* on the lease's key).                                                    *)
OneConnection ==
  Undisturbed => \A r, q \in Replica : conn[r] /\ conn[q] => r = q

(* Under the same condition at most one replica believes it leads, and so  *)
(* takes control jobs and runs the reconcile sweep.                        *)
OneLeader ==
  Undisturbed => \A r, q \in Replica : isLeader[r] /\ isLeader[q] => r = q

(* Under the same condition a replica that does not lead and has come to   *)
(* rest keeps neither a connection nor a timer that would open one.        *)
FollowersRest ==
  Undisturbed =>
    \A r \in Replica :
      ~isLeader[r] /\ (\A t \in Tasks : task[r][t] = "idle")
        => ~conn[r] /\ timer[r] # "armed"

(* The lease works, with the types of every variable.                      *)
LeaseHolds == TypeOK /\ OneLeader /\ OneConnection /\ FollowersRest

(* Crashes, lost leases and takeovers never turn a bot that nobody has     *)
(* asked to stop into a stopped one, which the new leader's sweep would    *)
(* not start (markDisconnected while the lease is being lost).             *)
TakeoverKeepsIntent == budget.kinds \subseteq {"loss", "crash", "start"} => db # "idle"

(* After the last disturbance one replica leads for good, the one that     *)
(* holds the lease: a dead or closed leader is replaced, and overlapping   *)
(* checks agree.                                                           *)
EventuallyLed ==
  <>[](\E r \in up : /\ lease = r
                     /\ \A q \in Replica : isLeader[q] <=> q = r)

(* The fleet serves its bots: a bot that is meant to run ends up connected *)
(* on some replica (markDisconnected: 'idle' would leave "every bot dead   *)
(* after a failover").                                                     *)
RunServed == <>[](intent = "run") => <>[](\E r \in Replica : conn[r])

(* The same, for every failover that no graceful shutdown caused.          *)
RunServedByFailover == []("shutdown" \notin budget.kinds) => RunServed
=============================================================================
