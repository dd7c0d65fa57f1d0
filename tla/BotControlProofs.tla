-------------------------- MODULE BotControlProofs --------------------------
(***************************************************************************)
(* Proofs about BotControl, for any number of overlapping sweeps and       *)
(* attempts, every threshold and every environment.  The safety properties *)
(* speak of executions in which no two handlers have worked at once; the   *)
(* inductive invariant says, for every await, what the one handler that    *)
(* may be suspended there can rely on.                                     *)
(***************************************************************************)
EXTENDS BotControl, BreakerOpsProofs, FiniteSetTheorems

(* The awaits between the decision to connect and its outcome.             *)
OnTheWay == {"build", "stopOld", "handshake", "wroteRunning", "wroteError", "wroteAgain"}

IsWorking(t) == task[t].at \notin {"idle", "read", "guard"}

(* The clock and the bounds of the scenario are those it began with.       *)
SameScenario == \E s \in Scenarios : /\ env.clients = s.clients
                                     /\ env.earlyTimers = s.earlyTimers

(* A handler that holds an old client is stopping it; control jobs that    *)
(* disconnect, and drops, never connect.                                   *)
Roles ==
  \A t \in Tasks :
    /\ task[t].old # NoClient => task[t].at \in {"stopOld", "stop"}
    /\ task[t].at \in OnTheWay => t \notin {"disconnectJob", "drop"}

(* A backoff delay is armed for a breaker that will let the attempt pass,  *)
(* a cooldown for an open one.                                             *)
TimersFit == /\ timer = "backoff" => Ready(breaker)
             /\ timer = "cooldown" => breaker.state = "open"

(* Nobody asks for a connection of a bot whose row is gone.                *)
DeletedAsksNothing == db = "deleted" => request \in {"none", "delete"}

Alone == \A t, u \in Tasks : IsWorking(t) /\ IsWorking(u) => t = u

(* What the handler that is working finds when its await is answered.      *)
Stage(t) ==
  LET at == task[t].at
  IN  /\ at \in OnTheWay => IF t \in AttemptTasks THEN timer = "spent" /\ entry # "none"
                            ELSE timer = "none"
      /\ at = "stopOld" => Connected /\ inst = task[t].old
      /\ at = "handshake" => ~Connected /\ entry = "connecting"
      /\ at = "wroteRunning" => Connected /\ entry = "running"
      /\ at \in {"wroteError", "wroteAgain"} => ~Connected /\ entry = "error"
      /\ at = "wroteGaveUp" => entry = "error" /\ attempts = 0 /\ timer = "none"
      /\ at = "stop" => /\ timer = "none"
                        /\ inst = IF env.adapter = "telegram" THEN task[t].old ELSE NoClient
                        /\ entry = "running" \/ db = "deleted"
                        /\ entry = "error" => attempts = 0
      /\ at = "wroteIdle" => ~Connected /\ entry = "none" /\ timer = "none"
      /\ at = "wroteReconnecting" => ~Connected /\ entry \in {"none", "reconnecting"}

(* Between two handlers, or while one has only looked the bot up.          *)
Settled == \A t \in Tasks : IsWorking(t) => task[t].at = "build"

SettledTruth == Settled /\ db # "deleted" => (Connected <=> entry = "running")

(* A connected bot has a retry pending, or has given up, only when its row *)
(* was deleted during a restart, and then no other connect job comes.      *)
ConnectedRetries ==
  /\ Connected /\ (timer # "none" \/ entry = "error")
       => \/ \E t \in Tasks : task[t].at = "wroteRunning"
          \/ /\ db = "deleted"
             /\ \/ jobs.connect = "none" /\ task["connectJob"].at = "idle"
                \/ task["connectJob"].at = "wroteGaveUp"
  /\ Connected /\ entry = "error" => attempts = 0 /\ timer = "none"

(* The handler that will see to a failed bot's next attempt.               *)
Retrying == \E t \in Tasks : \/ task[t].at \in {"wroteError", "wroteAgain"}
                             \/ task[t].at = "build" /\ t \notin SweepTasks

Owed ==
  /\ timer = "spent" => \E t \in AttemptTasks : task[t].at \in OnTheWay
  /\ entry = "error" /\ attempts > 0 => timer \in {"backoff", "cooldown"} \/ Retrying

Orderly ==
  /\ Alone
  /\ \A t \in Tasks : Stage(t)
  /\ polling \subseteq {inst} \cup {task[t].old : t \in Tasks}
  /\ timer # "none" => entry # "none"
  /\ SettledTruth /\ ConnectedRetries
  /\ ~env.earlyTimers => Owed

Base == /\ TypeOK /\ GoodBreaker(breaker) /\ SameScenario
        /\ Roles /\ TimersFit /\ DeletedAsksNothing

IInv == Base /\ (~overlap => Orderly)

(* Nobody but t is working, and what Orderly says then: all of it is about *)
(* t's await.                                                              *)
Lone(t) == \A u \in Tasks : u # t => ~IsWorking(u)

RetryOf(t) == \/ task[t].at \in {"wroteError", "wroteAgain"}
              \/ task[t].at = "build" /\ t \notin SweepTasks

LoneOwed(t) ==
  /\ timer = "spent" => t \in AttemptTasks /\ task[t].at \in OnTheWay
  /\ entry = "error" /\ attempts > 0 => timer \in {"backoff", "cooldown"} \/ RetryOf(t)

LoneOrderly(t) ==
  /\ Stage(t)
  /\ polling \subseteq {inst, task[t].old}
  /\ timer # "none" => entry # "none"
  /\ (IsWorking(t) => task[t].at = "build") /\ db # "deleted" => (Connected <=> entry = "running")
  /\ Connected /\ (timer # "none" \/ entry = "error")
       => \/ task[t].at = "wroteRunning"
          \/ /\ db = "deleted"
             /\ \/ jobs.connect = "none" /\ task["connectJob"].at = "idle"
                \/ task["connectJob"].at = "wroteGaveUp"
  /\ Connected /\ entry = "error" => attempts = 0 /\ timer = "none"
  /\ ~env.earlyTimers => LoneOwed(t)

-----------------------------------------------------------------------------
(* The clients have positive numbers.                                      *)
LEMMA NoClientIsNone == NoClient \notin Clients
  BY BotControlAssumption DEF NoClient, Clients, Scenario

LEMMA NoneLive == TypeOK => NoClient \notin polling
  BY NoClientIsNone DEF TypeOK

(* The handlers are finitely many, and a set with no two members is lone.  *)
LEMMA TasksFinite == IsFiniteSet(Tasks)
<1>1. IsFiniteSet({"connectJob", "disconnectJob", "drop"})
  <2>1. IsFiniteSet({} \cup {"connectJob"})
    BY FS_EmptySet, FS_AddElement
  <2>2. IsFiniteSet(({} \cup {"connectJob"}) \cup {"disconnectJob"})
    BY <2>1, FS_AddElement
  <2>3. IsFiniteSet((({} \cup {"connectJob"}) \cup {"disconnectJob"}) \cup {"drop"})
    BY <2>2, FS_AddElement
  <2>4. (({} \cup {"connectJob"}) \cup {"disconnectJob"}) \cup {"drop"}
          = {"connectJob", "disconnectJob", "drop"}
    OBVIOUS
  <2> QED BY <2>3, <2>4
<1>2. IsFiniteSet({"connectJob", "disconnectJob", "drop"} \cup SweepTasks)
  BY <1>1, FS_Union, BotControlAssumption
<1> QED BY <1>2, FS_Union, BotControlAssumption DEF Tasks

LEMMA AtMostOne ==
  ASSUME NEW S, IsFiniteSet(S), ~(Cardinality(S) > 1), NEW t \in S, NEW u \in S
  PROVE  t = u
<1> SUFFICES ASSUME t # u PROVE FALSE
  OBVIOUS
<1>1. IsFiniteSet({t}) /\ Cardinality({t}) = 1
  BY FS_Singleton
<1>2. Cardinality({t} \cup {u}) = 2
  <2>1. u \notin {t}
    OBVIOUS
  <2>2. Cardinality({t} \cup {u}) = Cardinality({t}) + 1
    BY <1>1, <2>1, FS_AddElement
  <2> QED BY <1>1, <2>2
<1>3. Cardinality({t} \cup {u}) <= Cardinality(S)
  BY FS_Subset
<1>4. Cardinality(S) \in Nat
  BY FS_CardinalityType
<1> QED BY <1>2, <1>3, <1>4

(* Unless two handlers have been at work, a tracked step leaves one.       *)
LEMMA TrackedAlone ==
  ASSUME Track, ~overlap'
  PROVE  ~overlap /\ Alone'
<1>1. ~overlap /\ ~(Cardinality(Working') > 1)
  BY DEF Track
<1>2. IsFiniteSet(Working')
  <2>1. Working' \in SUBSET Tasks
    BY DEF Working
  <2> QED BY <2>1, TasksFinite, FS_Subset
<1>3. ASSUME NEW t \in Tasks, NEW u \in Tasks, IsWorking(t)', IsWorking(u)'
      PROVE  t = u
  <2>1. t \in Working' /\ u \in Working'
    BY <1>3 DEF Working, IsWorking
  <2> QED BY <1>1, <1>2, <2>1, AtMostOne
<1> QED BY <1>1, <1>3 DEF Alone

-----------------------------------------------------------------------------
(* Where one handler works at most, Orderly is LoneOrderly of that one.    *)
LEMMA LoneSuffices ==
  ASSUME TypeOK, Roles, NEW t \in Tasks, Lone(t)
  PROVE  Orderly <=> LoneOrderly(t)
<1> USE DEF Lone, IsWorking
<1>1. Alone
  BY DEF Alone
<1>2. \A u \in Tasks : u # t => Stage(u) /\ task[u].old = NoClient
  BY DEF Stage, OnTheWay, Roles
<1>3. (polling \subseteq {inst} \cup {task[u].old : u \in Tasks})
        <=> (polling \subseteq {inst, task[t].old})
  <2>1. {task[u].old : u \in Tasks} \subseteq {NoClient, task[t].old}
    BY <1>2
  <2>2. NoClient \notin polling
    BY NoClientIsNone DEF TypeOK
  <2> QED BY <2>1, <2>2
<1>4. SettledTruth <=> ((IsWorking(t) => task[t].at = "build") /\ db # "deleted"
                           => (Connected <=> entry = "running"))
  BY DEF SettledTruth, Settled
<1>5. (\E u \in Tasks : task[u].at = "wroteRunning") <=> task[t].at = "wroteRunning"
  OBVIOUS
<1>6. Owed <=> LoneOwed(t)
  BY DEF Owed, LoneOwed, Retrying, RetryOf, OnTheWay, Tasks
<1> QED BY <1>1, <1>2, <1>3, <1>4, <1>5, <1>6 DEF Orderly, LoneOrderly, ConnectedRetries

LEMMA LoneSufficesNext ==
  ASSUME TypeOK', Roles', NEW t \in Tasks, Lone(t)'
  PROVE  Orderly' <=> LoneOrderly(t)'
<1> USE DEF Lone, IsWorking
<1>1. Alone'
  BY DEF Alone
<1>2. \A u \in Tasks : u # t => Stage(u)' /\ task'[u].old = NoClient
  BY DEF Stage, OnTheWay, Roles
<1>3. (polling' \subseteq {inst'} \cup {task'[u].old : u \in Tasks})
        <=> (polling' \subseteq {inst', task'[t].old})
  <2>1. {task'[u].old : u \in Tasks} \subseteq {NoClient, task'[t].old}
    BY <1>2
  <2>2. NoClient \notin polling'
    BY NoClientIsNone DEF TypeOK
  <2> QED BY <2>1, <2>2
<1>4. SettledTruth' <=> ((IsWorking(t) => task[t].at = "build") /\ db # "deleted"
                           => (Connected <=> entry = "running"))'
  BY DEF SettledTruth, Settled
<1>5. (\E u \in Tasks : task'[u].at = "wroteRunning") <=> task'[t].at = "wroteRunning"
  OBVIOUS
<1>6. Owed' <=> LoneOwed(t)'
  BY DEF Owed, LoneOwed, Retrying, RetryOf, OnTheWay, Tasks
<1> QED BY <1>1, <1>2, <1>3, <1>4, <1>5, <1>6 DEF Orderly, LoneOrderly, ConnectedRetries

(* A step of handler t that leaves the others where they are.              *)
StepBy(t) == \A u \in Tasks : u # t => task'[u] = task[u]

(* What is to be shown of such a step.                                     *)
LEMMA StepOrderly ==
  ASSUME Base, Base', NEW t \in Tasks, StepBy(t),
         ~overlap => Orderly,
         \/ Track /\ (IsWorking(t) \/ IsWorking(t)')
         \/ overlap' = overlap /\ IsWorking(t),
         ~overlap /\ Lone(t) /\ Lone(t)' /\ LoneOrderly(t) => LoneOrderly(t)'
  PROVE  ~overlap' => Orderly'
<1> SUFFICES ASSUME ~overlap' PROVE Orderly'
  OBVIOUS
<1>1. ~overlap /\ Orderly
  BY TrackedAlone
<1>2. Lone(t) <=> Lone(t)'
  BY DEF Lone, StepBy, IsWorking
<1>3. CASE IsWorking(t)
  <2>1. Lone(t)
    BY <1>1, <1>3 DEF Orderly, Alone, Lone
  <2> QED BY <1>1, <1>2, <2>1, LoneSuffices, LoneSufficesNext DEF Base
<1>4. CASE ~IsWorking(t)
  <2>1. Alone'
    BY <1>4, TrackedAlone
  <2>2. Lone(t)'
    BY <1>4, <2>1 DEF Alone, Lone
  <2> QED BY <1>1, <1>2, <2>2, LoneSuffices, LoneSufficesNext DEF Base
<1> QED BY <1>3, <1>4

(* A step in which no handler sets to work or comes to rest.               *)
LEMMA IdleStepOrderly ==
  ASSUME Base, Base',
         \A u \in Tasks : IsWorking(u)' <=> IsWorking(u),
         ~overlap => Orderly,
         Track \/ overlap' = overlap,
         ASSUME NEW u \in Tasks, ~overlap, Lone(u), LoneOrderly(u)
         PROVE  LoneOrderly(u)'
  PROVE  ~overlap' => Orderly'
<1> SUFFICES ASSUME ~overlap' PROVE Orderly'
  OBVIOUS
<1>1. ~overlap /\ Orderly
  BY TrackedAlone
<1>2. PICK u \in Tasks : Lone(u)
  BY <1>1 DEF Orderly, Alone, Lone, Tasks
<1>3. Lone(u)'
  BY <1>2 DEF Lone
<1>4. LoneOrderly(u)
  BY <1>1, <1>2, LoneSuffices DEF Base
<1>5. LoneOrderly(u)'
  BY <1>1, <1>2, <1>4
<1> QED BY <1>3, <1>5, LoneSufficesNext DEF Base

-----------------------------------------------------------------------------
(* What the helpers do to the record of a handler.                         *)
TaskRecord == [at : Await, seen : Status \cup {"none"}, old : Clients \cup {NoClient}]

Moved(t, b, o) == /\ StepBy(t)
                  /\ task'[t].at = b /\ task'[t].old = o
                  /\ task' \in [Tasks -> TaskRecord]

LEMMA Moves ==
  ASSUME TypeOK, NEW t \in Tasks
  PROVE  /\ \A b \in Await : Goto(t, b) => Moved(t, b, task[t].old)
         /\ \A b \in Await : task' = [task EXCEPT ![t] = [Idle EXCEPT !.at = b]]
                              => Moved(t, b, NoClient)
         /\ task' = [task EXCEPT ![t] = Idle] => Moved(t, "idle", NoClient)
         /\ task' = [task EXCEPT ![t] = [Idle EXCEPT !.at = "stop", !.old = inst]]
              => Moved(t, "stop", inst)
         /\ task' = [task EXCEPT ![t].at = "stopOld", ![t].old = inst]
              => Moved(t, "stopOld", inst)
<1> USE DEF TypeOK, Moved, StepBy, TaskRecord
<1>1. ASSUME NEW b \in Await, Goto(t, b) PROVE Moved(t, b, task[t].old)
  BY <1>1 DEF Goto
<1>a. /\ task \in [Tasks -> TaskRecord] /\ inst \in Clients \cup {NoClient}
      /\ {"idle", "stop", "stopOld"} \subseteq Await
  BY DEF Await
<1> HIDE DEF TypeOK
<1>b. ASSUME NEW n \in TaskRecord, task' = [task EXCEPT ![t] = n] PROVE Moved(t, n.at, n.old)
  <2> HIDE DEF TaskRecord
  <2> QED BY <1>a, <1>b
<1>2. ASSUME NEW b \in Await, task' = [task EXCEPT ![t] = [Idle EXCEPT !.at = b]]
      PROVE  Moved(t, b, NoClient)
  <2> DEFINE n == [Idle EXCEPT !.at = b]
  <2>1. n \in TaskRecord /\ n.at = b /\ n.old = NoClient BY DEF Idle
  <2> HIDE DEF n, Moved, TaskRecord
  <2>2. task' = [task EXCEPT ![t] = n] BY <1>2 DEF n
  <2>3. Moved(t, n.at, n.old) BY <2>1, <2>2, <1>b
  <2> QED BY <2>1, <2>3
<1>3. ASSUME task' = [task EXCEPT ![t] = Idle] PROVE Moved(t, "idle", NoClient)
  <2>1. Idle \in TaskRecord /\ Idle.at = "idle" /\ Idle.old = NoClient BY <1>a DEF Idle
  <2> HIDE DEF Moved, TaskRecord
  <2>2. Moved(t, Idle.at, Idle.old) BY <2>1, <1>3, <1>b
  <2> QED BY <2>1, <2>2
<1>4. ASSUME task' = [task EXCEPT ![t] = [Idle EXCEPT !.at = "stop", !.old = inst]]
      PROVE  Moved(t, "stop", inst)
  <2> DEFINE n == [Idle EXCEPT !.at = "stop", !.old = inst]
  <2>1. n \in TaskRecord /\ n.at = "stop" /\ n.old = inst BY <1>a DEF Idle
  <2> HIDE DEF n, Moved, TaskRecord
  <2>2. task' = [task EXCEPT ![t] = n] BY <1>4 DEF n
  <2>3. Moved(t, n.at, n.old) BY <2>1, <2>2, <1>b
  <2> QED BY <2>1, <2>3
<1>5. ASSUME task' = [task EXCEPT ![t].at = "stopOld", ![t].old = inst]
      PROVE  Moved(t, "stopOld", inst)
  <2>1. task'[t] = [task[t] EXCEPT !.at = "stopOld", !.old = inst] BY <1>a, <1>5
  <2>2. task'[t] \in TaskRecord /\ task'[t].at = "stopOld" /\ task'[t].old = inst BY <1>a, <2>1
  <2> HIDE DEF TaskRecord
  <2> QED BY <1>a, <1>5, <2>2
<1> QED BY <1>1, <1>2, <1>3, <1>4, <1>5

(* A handler that ends takes its job with it.                              *)
Jobs == [connect : JobState, disconnect : JobState]

LEMMA Finishes ==
  ASSUME TypeOK, NEW t \in Tasks, Finish(t)
  PROVE  /\ Moved(t, "idle", NoClient)
         /\ jobs' \in Jobs /\ jobs'.connect \in {"none", jobs.connect}
         /\ t = "connectJob" => jobs'.connect = "none"
<1>1. Moved(t, "idle", NoClient)
  BY Moves DEF Finish
<1>2. jobs' \in {jobs, [jobs EXCEPT !.connect = "none"], [jobs EXCEPT !.disconnect = "none"]}
  BY DEF Finish, EndJob
<1>3. t = "connectJob" => jobs' = [jobs EXCEPT !.connect = "none"]
  BY DEF Finish, EndJob
<1> QED BY <1>1, <1>2, <1>3 DEF TypeOK, Jobs, JobState

(* scheduleReconnect leaves nothing, gives up, or arms a fitting timer.    *)
LEMMA Schedules ==
  ASSUME TypeOK, GoodBreaker(breaker), NEW t \in Tasks, NEW e, ScheduleReconnect(t, e)
  PROVE  \/ /\ e = "none" /\ Finish(t)
            /\ UNCHANGED <<entry, attempts, timer, breaker>>
         \/ /\ e # "none" /\ Goto(t, "wroteGaveUp") /\ UNCHANGED jobs
            /\ entry' = "error" /\ attempts' = 0 /\ timer' = "none"
            /\ GoodBreaker(breaker')
         \/ /\ e # "none" /\ Finish(t)
            /\ entry' = e /\ attempts' \in 1..MaxReconnectAttempts
            /\ timer' \in {"backoff", "cooldown"} /\ TimersFit'
            /\ GoodBreaker(breaker')
<1>1. CASE e = "none"
  BY <1>1 DEF ScheduleReconnect
<1>2. CASE e # "none" /\ attempts >= MaxReconnectAttempts
  <2>1. GoodBreaker(ResetCircuit(AfterFailure(breaker)))
    BY ReportsGood, TransitionsGood DEF ResetCircuit
  <2> QED BY <1>2, <2>1 DEF ScheduleReconnect
<1>3. CASE e # "none" /\ ~(attempts >= MaxReconnectAttempts)
  <2> DEFINE b == TryHalfOpen(AfterFailure(breaker))
  <2>1. GoodBreaker(b) /\ (b.state = "open" \/ Ready(b))
    BY ReportsGood, TransitionsGood, RetryIsReady
  <2>2. /\ breaker' = b /\ attempts' = attempts + 1 /\ entry' = e /\ Finish(t)
        /\ timer' = IF b.state = "open" THEN "cooldown" ELSE "backoff"
    BY <1>3 DEF ScheduleReconnect
  <2> HIDE DEF b
  <2>3. TimersFit' /\ timer' \in {"backoff", "cooldown"}
    BY <2>1, <2>2 DEF TimersFit
  <2>4. attempts' \in 1..MaxReconnectAttempts
    BY <1>3, <2>2, BotControlAssumption DEF TypeOK
  <2> QED BY <1>3, <2>1, <2>2, <2>3, <2>4
<1> QED BY <1>1, <1>2, <1>3

(* The bounds count down, the rest of the environment stays.               *)
LEMMA EnvironmentKept ==
  ASSUME TypeOK, SameScenario,
         \/ env' = env
         \/ Fault
         \/ env.calls > 0 /\ env' = [env EXCEPT !.calls = @ - 1]
         \/ env.crashes > 0 /\ env' = [env EXCEPT !.crashes = @ - 1]
  PROVE  /\ env' \in Scenario /\ SameScenario'
         /\ env'.adapter = env.adapter /\ env'.clients = env.clients
         /\ env'.earlyTimers = env.earlyTimers
  BY DEF TypeOK, SameScenario, Scenario, Fault

-----------------------------------------------------------------------------
(* One lemma per action: it keeps the invariant.                           *)
LEMMA BuildKeeps ==
  ASSUME IInv, NEW t \in Tasks, Build(t)
  PROVE  IInv'
<1> USE DEF IInv, Base
<1>1. /\ At(t, "build") /\ db # "deleted" /\ overlap' = overlap
      /\ UNCHANGED <<db, attempts, inst, polling, timer, breaker, jobs, request, intent, env>>
  BY DEF Build
<1>2. \/ Connected /\ Moved(t, "stopOld", inst) /\ entry' \in {"connecting", entry}
            /\ (entry = "none" => entry' = "connecting")
      \/ ~Connected /\ Moved(t, "handshake", NoClient) /\ entry' = "connecting"
  <2>1. CASE Connected
    <3>1. Moved(t, "stopOld", inst)
      BY <2>1, Moves DEF Build, BeginConnect
    <3> QED BY <2>1, <3>1 DEF Build, BeginConnect
  <2>2. CASE ~Connected
    <3>1. Moved(t, "handshake", task[t].old)
      BY <2>2, Moves DEF Build, BeginConnect, Await
    <3>2. task[t].old = NoClient
      BY <1>1 DEF Roles, At
    <3> QED BY <2>2, <3>1, <3>2 DEF Build, BeginConnect
  <2> QED BY <2>1, <2>2
<1>3. TypeOK'
  BY <1>1, <1>2 DEF TypeOK, Moved, TaskRecord
<1>4. Roles'
  BY <1>1, <1>2 DEF Roles, Moved, StepBy, OnTheWay, At
<1>5. Base'
  BY <1>1, <1>3, <1>4 DEF SameScenario, TimersFit, DeletedAsksNothing
<1>6. ASSUME ~overlap, Lone(t), LoneOrderly(t) PROVE LoneOrderly(t)'
  <2>1. polling \subseteq {inst}
    BY <1>1, <1>6, NoneLive DEF LoneOrderly, Roles, At, OnTheWay
  <2>2. Connected => t \notin AttemptTasks /\ timer = "none" /\ (entry = "error" => attempts = 0)
    BY <1>1, <1>6 DEF LoneOrderly, Stage, OnTheWay, At
  <2>3. Stage(t)'
    BY <1>1, <1>2, <1>6, <2>2 DEF Stage, LoneOrderly, OnTheWay, Moved, At, Connected
  <2>4. LoneOwed(t)' \/ env.earlyTimers
    BY <1>1, <1>2, <1>6, <2>2 DEF LoneOwed, RetryOf, LoneOrderly, OnTheWay, Moved, At
  <2> QED BY <1>1, <1>2, <1>6, <2>1, <2>2, <2>3, <2>4
     DEF LoneOrderly, IsWorking, Moved, At, Connected
<1>7. ~overlap' => Orderly'
  BY <1>1, <1>2, <1>5, <1>6, StepOrderly DEF IsWorking, At, Moved
<1> QED BY <1>5, <1>7

LEMMA BuildFailsKeeps ==
  ASSUME IInv, NEW t \in Tasks, BuildFails(t)
  PROVE  IInv'
<1> USE DEF IInv, Base
<1> DEFINE e == IF t = "connectJob" /\ entry = "none" THEN "connecting" ELSE entry
<1>1. /\ At(t, "build") /\ db = "deleted" /\ overlap' = overlap /\ task[t].old = NoClient
      /\ UNCHANGED <<db, inst, polling, request, intent, env>>
  BY DEF BuildFails, At, Roles
<1>2. \/ /\ t \in SweepTasks \/ (e = "none" /\ t # "connectJob")
         /\ Finish(t) /\ UNCHANGED <<entry, attempts, timer, breaker>>
      \/ /\ e # "none" /\ Goto(t, "wroteGaveUp") /\ UNCHANGED jobs
         /\ entry' = "error" /\ attempts' = 0 /\ timer' = "none"
         /\ GoodBreaker(breaker') /\ t \notin SweepTasks
      \/ /\ e # "none" /\ Finish(t) /\ t \notin SweepTasks
         /\ entry' = e /\ attempts' \in 1..MaxReconnectAttempts
         /\ timer' \in {"backoff", "cooldown"} /\ TimersFit'
         /\ GoodBreaker(breaker')
  <2>1. CASE t \in SweepTasks
    BY <2>1 DEF BuildFails
  <2>2. CASE t \notin SweepTasks
    <3>1. ScheduleReconnect(t, e)
      BY <2>2 DEF BuildFails
    <3>2. e = "none" => t # "connectJob"
      OBVIOUS
    <3> HIDE DEF e
    <3> QED BY <2>2, <3>1, <3>2, Schedules
  <2> QED BY <2>1, <2>2
<1>3. e \in {"none", "connecting", "running", "reconnecting", "error"} /\ e \in {entry, "connecting"}
      /\ (e = entry \/ (t = "connectJob" /\ entry = "none"))
  BY DEF TypeOK
<1> HIDE DEF e
<1>4. /\ \/ Moved(t, "idle", NoClient) \/ Moved(t, "wroteGaveUp", NoClient)
      /\ jobs' \in Jobs /\ jobs'.connect \in {"none", jobs.connect}
      /\ t = "connectJob" => jobs'.connect = "none" \/ Moved(t, "wroteGaveUp", NoClient)
  <2>1. CASE Finish(t)
    BY <2>1, Finishes
  <2>2. CASE Goto(t, "wroteGaveUp") /\ UNCHANGED jobs
    <3>1. Moved(t, "wroteGaveUp", task[t].old)
      BY <2>2, Moves DEF Await
    <3> QED BY <1>1, <2>2, <3>1 DEF TypeOK, Jobs
  <2> QED BY <1>2, <2>1, <2>2
<1>5. TypeOK'
  BY <1>1, <1>2, <1>3, <1>4, BotControlAssumption
     DEF TypeOK, Moved, TaskRecord, Jobs, GoodBreaker, TimerState
<1>6. Roles'
  BY <1>1, <1>4 DEF Roles, Moved, StepBy, OnTheWay
<1>7. Base'
  BY <1>1, <1>2, <1>5, <1>6 DEF SameScenario, TimersFit, DeletedAsksNothing
<1>8. ASSUME ~overlap, Lone(t), LoneOrderly(t) PROVE LoneOrderly(t)'
  <2>0. "connectJob" \in Tasks
    BY DEF Tasks
  <2>1. polling \subseteq {inst}
    BY <1>1, <1>8, NoneLive DEF LoneOrderly
  <2>2. \/ t \in AttemptTasks /\ timer = "spent" /\ entry # "none" /\ t # "connectJob"
        \/ t \notin AttemptTasks /\ timer = "none"
    BY <1>1, <1>8, BotControlAssumption DEF LoneOrderly, Stage, OnTheWay, At
  <2>3. t \notin {"disconnectJob", "drop"} /\ (t \in SweepTasks => t # "connectJob" /\ t \notin AttemptTasks)
    BY <1>1, BotControlAssumption DEF Roles, OnTheWay, At
  <2>4. t = "connectJob" \/ t \in SweepTasks \/ t \in AttemptTasks
    BY <2>3 DEF Tasks
  <2>5. CASE Moved(t, "idle", NoClient) /\ UNCHANGED <<entry, attempts, timer>>
             /\ (t \in SweepTasks \/ (e = "none" /\ t # "connectJob"))
    <3>1. timer = "none"
      BY <1>3, <2>2, <2>3, <2>4, <2>5
    <3>2. Stage(t)'
      BY <2>5 DEF Stage, OnTheWay, Moved
    <3>3. LoneOwed(t)' \/ env.earlyTimers
      BY <1>1, <1>3, <1>8, <2>3, <2>4, <2>5, <3>1 DEF LoneOwed, RetryOf, LoneOrderly, OnTheWay, Moved, At
    <3> QED BY <1>1, <1>4, <1>8, <2>0, <2>1, <2>3, <2>5, <3>1, <3>2, <3>3
        DEF LoneOrderly, IsWorking, Moved, StepBy, At, Connected
  <2>6. CASE /\ Moved(t, "wroteGaveUp", NoClient)
             /\ entry' = "error" /\ attempts' = 0 /\ timer' = "none"
             /\ t \notin SweepTasks
    <3>1. Stage(t)'
      BY <2>6 DEF Stage, OnTheWay, Moved
    <3>2. LoneOwed(t)'
      BY <2>6 DEF LoneOwed, TypeOK
    <3> QED BY <1>1, <1>4, <1>8, <2>1, <2>2, <2>3, <2>4, <2>6, <2>0, <3>1, <3>2
        DEF LoneOrderly, IsWorking, Moved, StepBy, At, Connected
  <2>7. CASE /\ Moved(t, "idle", NoClient)
             /\ timer' \in {"backoff", "cooldown"} /\ entry' = e /\ e # "none"
             /\ t \notin SweepTasks
    <3>1. Stage(t)'
      BY <2>7 DEF Stage, OnTheWay, Moved
    <3>2. LoneOwed(t)'
      BY <2>7 DEF LoneOwed, TypeOK
    <3> QED BY <1>1, <1>3, <1>4, <1>8, <2>0, <2>1, <2>2, <2>3, <2>4, <2>7, <3>1, <3>2
        DEF LoneOrderly, IsWorking, Moved, StepBy, At, Connected
  <2>8. Finish(t) => Moved(t, "idle", NoClient)
    BY Finishes
  <2>9. Goto(t, "wroteGaveUp") => Moved(t, "wroteGaveUp", NoClient)
    <3>1. Goto(t, "wroteGaveUp") => Moved(t, "wroteGaveUp", task[t].old)
      BY Moves DEF Await
    <3> QED BY <1>1, <3>1
  <2> QED BY <1>2, <2>5, <2>6, <2>7, <2>8, <2>9
<1>9. ~overlap' => Orderly'
  BY <1>1, <1>4, <1>7, <1>8, StepOrderly DEF IsWorking, At, Moved
<1> QED BY <1>7, <1>9

LEMMA StopOldKeeps ==
  ASSUME IInv, NEW t \in Tasks, StopOld(t)
  PROVE  IInv'
<1> USE DEF IInv, Base
<1> DEFINE old   == task[t].old
           event == env.adapter = "twitch" /\ old \in polling /\ inst = old
<1>1. /\ At(t, "stopOld") /\ Track /\ inst' = NoClient /\ entry' = "connecting"
      /\ polling' = polling \ {old}
      /\ UNCHANGED <<db, attempts, timer, breaker, jobs, request, intent, env>>
      /\ "drop" \in Tasks /\ "connectJob" \in Tasks /\ t \notin {"disconnectJob", "drop"}
  BY DEF StopOld, Tasks, Roles, OnTheWay, At
<1>2. /\ \A u \in Tasks \ {t, "drop"} : task'[u] = task[u]
      /\ task'[t].at = "handshake" /\ task'[t].old = NoClient
      /\ task'["drop"].old = task["drop"].old
      /\ task'["drop"].at = IF event THEN "wroteReconnecting" ELSE task["drop"].at
      /\ event => task["drop"] = Idle
      /\ ~event => task'["drop"] = task["drop"]
      /\ task' \in [Tasks -> TaskRecord]
  BY <1>1 DEF StopOld, Idle, TypeOK, TaskRecord, Await
<1> HIDE DEF event
<1>3. TypeOK'
  BY <1>1, <1>2, TrackedAlone DEF TypeOK, TaskRecord, Track
<1>4. Roles'
  BY <1>1, <1>2 DEF Roles, OnTheWay, Idle
<1>5. Base'
  BY <1>1, <1>3, <1>4 DEF SameScenario, TimersFit, DeletedAsksNothing
<1>6. CASE event
  <2>1. IsWorking(t)' /\ IsWorking("drop")'
    BY <1>2, <1>6 DEF IsWorking
  <2>2. ~Alone'
    BY <1>1, <2>1 DEF Alone
  <2> QED BY <1>1, <1>5, <2>2, TrackedAlone
<1>7. CASE ~event
  <2>1. StepBy(t)
    BY <1>2, <1>7 DEF StepBy
  <2>2. ASSUME ~overlap, Lone(t), LoneOrderly(t) PROVE LoneOrderly(t)'
    <3>1. polling' = {} /\ inst = old /\ Connected
      BY <1>1, <2>2, NoneLive DEF LoneOrderly, Stage, At
    <3>2. Stage(t)'
      BY <1>1, <1>2, <2>2 DEF Stage, LoneOrderly, OnTheWay, At, Connected
    <3>3. LoneOwed(t)' \/ env.earlyTimers
      BY <1>1, <1>2, <2>2 DEF LoneOwed, RetryOf, LoneOrderly, OnTheWay, At
    <3> QED BY <1>1, <1>2, <2>2, <3>1, <3>2, <3>3 DEF LoneOrderly, IsWorking, At, Connected
  <2>3. IsWorking(t)
    BY <1>1 DEF IsWorking, At
  <2> QED BY <1>1, <1>5, <2>1, <2>2, <2>3, StepOrderly
<1> QED BY <1>5, <1>6, <1>7

LEMMA HandshakeSucceedsKeeps ==
  ASSUME IInv, NEW t \in Tasks, HandshakeSucceeds(t)
  PROVE  IInv'
<1> USE DEF IInv, Base
<1>1. /\ At(t, "handshake") /\ task[t].old = NoClient
      /\ entry' = "running" /\ attempts' = 0 /\ breaker' = AfterSuccess(breaker)
      /\ UNCHANGED <<db, timer, jobs, request, intent, env, overlap>>
      /\ "connectJob" \in Tasks
  BY DEF HandshakeSucceeds, Roles, At, Tasks
<1>2. Moved(t, "wroteRunning", NoClient)
  BY <1>1, Moves DEF HandshakeSucceeds, Await
<1>3. PICK c \in FreeClients : inst' = c /\ polling' = polling \cup {c}
  BY DEF HandshakeSucceeds
<1>4. c \in Clients
  BY <1>3 DEF FreeClients, Clients, SameScenario
<1>5. /\ GoodBreaker(breaker') /\ (Ready(breaker) => Ready(breaker'))
      /\ (breaker.state = "open" => breaker'.state = "open")
  BY <1>1, ReportsGood, ReadyStays
<1>6. TypeOK'
  BY <1>1, <1>2, <1>3, <1>4, <1>5, BotControlAssumption DEF TypeOK, Moved, TaskRecord, GoodBreaker
<1>7. Roles'
  BY <1>1, <1>2 DEF Roles, Moved, StepBy, OnTheWay, At
<1>8. Base'
  BY <1>1, <1>5, <1>6, <1>7 DEF SameScenario, TimersFit, DeletedAsksNothing
<1>9. ASSUME ~overlap, Lone(t), LoneOrderly(t) PROVE LoneOrderly(t)'
  <2>1. polling = {} /\ c # NoClient
    BY <1>1, <1>4, <1>9, NoneLive, NoClientIsNone DEF LoneOrderly, Stage, At, Connected
  <2>2. Stage(t)'
    BY <1>1, <1>2, <1>3, <1>9, <2>1 DEF Stage, LoneOrderly, OnTheWay, Moved, At, Connected
  <2>3. LoneOwed(t)' \/ env.earlyTimers
    BY <1>1, <1>2, <1>9 DEF LoneOwed, RetryOf, LoneOrderly, OnTheWay, Moved, At
  <2> QED BY <1>1, <1>2, <1>3, <1>9, <2>1, <2>2, <2>3
      DEF LoneOrderly, IsWorking, Moved, At, Connected
<1>10. ~overlap' => Orderly'
  BY <1>1, <1>2, <1>8, <1>9, StepOrderly DEF IsWorking, At, Moved
<1> QED BY <1>8, <1>10

LEMMA HandshakeFailsKeeps ==
  ASSUME IInv, NEW t \in Tasks, HandshakeFails(t)
  PROVE  IInv'
<1> USE DEF IInv, Base
<1>1. /\ At(t, "handshake") /\ task[t].old = NoClient
      /\ entry' = IF entry = "none" THEN entry ELSE "error"
      /\ UNCHANGED <<db, attempts, inst, polling, timer, breaker, jobs, request, intent, overlap>>
      /\ "connectJob" \in Tasks
  BY DEF HandshakeFails, SetEntry, Roles, At, Tasks
<1>2. Moved(t, "wroteError", NoClient)
  BY <1>1, Moves DEF HandshakeFails, Await
<1>3. /\ env' \in Scenario /\ SameScenario'
      /\ env'.adapter = env.adapter /\ env'.earlyTimers = env.earlyTimers
  BY EnvironmentKept DEF HandshakeFails
<1>4. TypeOK'
  BY <1>1, <1>2, <1>3 DEF TypeOK, Moved, TaskRecord
<1>5. Roles'
  BY <1>1, <1>2 DEF Roles, Moved, StepBy, OnTheWay, At
<1>6. Base'
  BY <1>1, <1>3, <1>4, <1>5 DEF TimersFit, DeletedAsksNothing
<1>7. ASSUME ~overlap, Lone(t), LoneOrderly(t) PROVE LoneOrderly(t)'
  <2>1. ~Connected /\ entry' = "error"
    BY <1>1, <1>7 DEF LoneOrderly, Stage, At
  <2>2. Stage(t)'
    BY <1>1, <1>2, <1>7, <2>1 DEF Stage, LoneOrderly, OnTheWay, Moved, At, Connected
  <2>3. LoneOwed(t)' \/ env.earlyTimers
    BY <1>1, <1>2, <1>7 DEF LoneOwed, RetryOf, LoneOrderly, OnTheWay, Moved, At
  <2> QED BY <1>1, <1>2, <1>3, <1>7, <2>1, <2>2, <2>3
      DEF LoneOrderly, IsWorking, Moved, At, Connected
<1>8. ~overlap' => Orderly'
  BY <1>1, <1>2, <1>6, <1>7, StepOrderly DEF IsWorking, At, Moved
<1> QED BY <1>6, <1>8

LEMMA ConnectedWrittenKeeps ==
  ASSUME IInv, NEW t \in Tasks, ConnectedWritten(t)
  PROVE  IInv'
<1> USE DEF IInv, Base
<1>1. /\ At(t, "wroteRunning") /\ task[t].old = NoClient
      /\ db' = (IF db = "deleted" THEN db ELSE "running") /\ timer' = "none"
      /\ UNCHANGED <<entry, attempts, inst, polling, breaker, request, intent, env, overlap>>
  BY DEF ConnectedWritten, WriteStatus, Roles, At
<1>2. Moved(t, "idle", NoClient) /\ jobs' \in Jobs
  BY Finishes DEF ConnectedWritten
<1>3. TypeOK'
  BY <1>1, <1>2 DEF TypeOK, Moved, TaskRecord, Jobs, Status, TimerState
<1>4. Roles'
  BY <1>1, <1>2 DEF Roles, Moved, StepBy, OnTheWay, At
<1>5. Base'
  BY <1>1, <1>3, <1>4 DEF SameScenario, TimersFit, DeletedAsksNothing
<1>6. ASSUME ~overlap, Lone(t), LoneOrderly(t) PROVE LoneOrderly(t)'
  <2>1. Connected /\ entry = "running"
    BY <1>1, <1>6 DEF LoneOrderly, Stage, At
  <2>2. Stage(t)' /\ LoneOwed(t)'
    BY <1>1, <1>2, <2>1 DEF Stage, LoneOwed, OnTheWay, Moved
  <2> QED BY <1>1, <1>2, <1>6, <2>1, <2>2 DEF LoneOrderly, Connected, Moved, At
<1>7. ~overlap' => Orderly'
  BY <1>1, <1>2, <1>5, <1>6, StepOrderly DEF IsWorking, At, Moved
<1> QED BY <1>5, <1>7

LEMMA GaveUpWrittenKeeps ==
  ASSUME IInv, NEW t \in Tasks, GaveUpWritten(t)
  PROVE  IInv'
<1> USE DEF IInv, Base
<1>1. /\ At(t, "wroteGaveUp") /\ task[t].old = NoClient
      /\ db' = (IF db = "deleted" THEN db ELSE "error")
      /\ UNCHANGED <<entry, attempts, inst, polling, timer, breaker, request, intent, env, overlap>>
  BY DEF GaveUpWritten, WriteStatus, Roles, At
<1>2. /\ Moved(t, "idle", NoClient) /\ jobs' \in Jobs /\ jobs'.connect \in {"none", jobs.connect}
      /\ t = "connectJob" => jobs'.connect = "none"
      /\ "connectJob" \in Tasks
  BY Finishes DEF GaveUpWritten, Tasks
<1>3. TypeOK'
  BY <1>1, <1>2 DEF TypeOK, Moved, TaskRecord, Jobs, Status
<1>4. Roles'
  BY <1>1, <1>2 DEF Roles, Moved, StepBy, OnTheWay, At
<1>5. Base'
  BY <1>1, <1>3, <1>4 DEF SameScenario, TimersFit, DeletedAsksNothing
<1>6. ASSUME ~overlap, Lone(t), LoneOrderly(t) PROVE LoneOrderly(t)'
  <2>1. entry = "error" /\ attempts = 0 /\ timer = "none"
    BY <1>1, <1>6 DEF LoneOrderly, Stage, At
  <2>2. Stage(t)' /\ LoneOwed(t)'
    BY <1>1, <1>2, <2>1 DEF Stage, LoneOwed, OnTheWay, Moved
  <2> QED BY <1>1, <1>2, <1>6, <2>1, <2>2
      DEF LoneOrderly, Connected, IsWorking, Moved, StepBy, At
<1>7. ~overlap' => Orderly'
  BY <1>1, <1>2, <1>5, <1>6, StepOrderly DEF IsWorking, At, Moved
<1> QED BY <1>5, <1>7

LEMMA ErrorWrittenKeeps ==
  ASSUME IInv, NEW t \in Tasks, ErrorWritten(t)
  PROVE  IInv'
<1> USE DEF IInv, Base
<1>1. /\ At(t, "wroteError") \/ At(t, "wroteAgain")
      /\ task[t].old = NoClient /\ "connectJob" \in Tasks
      /\ db' = (IF db = "deleted" THEN db ELSE "error")
      /\ UNCHANGED <<inst, polling, request, intent, env, overlap>>
  BY DEF ErrorWritten, WriteStatus, Roles, At, Tasks
<1>2. CASE At(t, "wroteError") /\ t \in SweepTasks
  <2>1. /\ Goto(t, "wroteAgain") /\ entry' = (IF entry = "none" THEN entry ELSE "error")
        /\ UNCHANGED <<attempts, timer, breaker, jobs>>
    BY <1>2 DEF ErrorWritten, SetEntry, At
  <2>2. Moved(t, "wroteAgain", NoClient)
    BY <1>1, <2>1, Moves DEF Await
  <2>3. TypeOK'
    BY <1>1, <2>1, <2>2 DEF TypeOK, Moved, TaskRecord, Status
  <2>4. Roles'
    BY <1>1, <2>2 DEF Roles, Moved, StepBy, OnTheWay, At
  <2>5. Base'
    BY <1>1, <2>1, <2>3, <2>4 DEF SameScenario, TimersFit, DeletedAsksNothing
  <2>6. ASSUME ~overlap, Lone(t), LoneOrderly(t) PROVE LoneOrderly(t)'
    <3>1. ~Connected /\ entry = "error"
      BY <1>2, <2>6 DEF LoneOrderly, Stage, At
    <3>2. Stage(t)'
      BY <1>1, <1>2, <2>1, <2>2, <2>6, <3>1 DEF Stage, LoneOrderly, OnTheWay, Moved, At, Connected
    <3>3. LoneOwed(t)' \/ env.earlyTimers
      BY <1>1, <1>2, <2>1, <2>2, <2>6 DEF LoneOwed, RetryOf, LoneOrderly, OnTheWay, Moved, At
    <3> QED BY <1>1, <2>1, <2>2, <2>6, <3>1, <3>2, <3>3
        DEF LoneOrderly, IsWorking, Moved, At, Connected
  <2>7. ~overlap' => Orderly'
    BY <1>1, <1>2, <2>2, <2>5, <2>6, StepOrderly DEF IsWorking, At, Moved
  <2> QED BY <2>5, <2>7
<1>3. CASE ~(At(t, "wroteError") /\ t \in SweepTasks)
  <2> DEFINE e == IF t = "connectJob" /\ entry = "none" THEN "connecting" ELSE entry
  <2>1. ScheduleReconnect(t, e)
    BY <1>3 DEF ErrorWritten, At
  <2>2. e \in {"none", "connecting", "running", "reconnecting", "error"} /\ (entry = "error" => e = entry)
    BY DEF TypeOK
  <2> HIDE DEF e
  <2>3. \/ /\ e = "none" /\ Moved(t, "idle", NoClient) /\ jobs' \in Jobs
           /\ UNCHANGED <<entry, attempts, timer, breaker>>
        \/ /\ e # "none" /\ Moved(t, "wroteGaveUp", NoClient) /\ UNCHANGED jobs
           /\ entry' = "error" /\ attempts' = 0 /\ timer' = "none"
           /\ GoodBreaker(breaker')
        \/ /\ e # "none" /\ Moved(t, "idle", NoClient) /\ jobs' \in Jobs
           /\ entry' = e /\ attempts' \in 1..MaxReconnectAttempts
           /\ timer' \in {"backoff", "cooldown"} /\ TimersFit'
           /\ GoodBreaker(breaker')
    <3>1. Finish(t) => Moved(t, "idle", NoClient) /\ jobs' \in Jobs
      BY Finishes
    <3>2. Goto(t, "wroteGaveUp") => Moved(t, "wroteGaveUp", NoClient)
      <4>1. Goto(t, "wroteGaveUp") => Moved(t, "wroteGaveUp", task[t].old)
        BY Moves DEF Await
      <4> QED BY <1>1, <4>1
    <3> QED BY <2>1, <3>1, <3>2, Schedules
  <2>4. TypeOK'
    BY <1>1, <2>2, <2>3, BotControlAssumption
       DEF TypeOK, Moved, TaskRecord, Jobs, GoodBreaker, TimerState, Status
  <2>5. Roles'
    BY <1>1, <2>3 DEF Roles, Moved, StepBy, OnTheWay
  <2>6. Base'
    BY <1>1, <2>3, <2>4, <2>5 DEF SameScenario, TimersFit, DeletedAsksNothing
  <2>7. ASSUME ~overlap, Lone(t), LoneOrderly(t) PROVE LoneOrderly(t)'
    <3>1. ~Connected /\ entry = "error" /\ e = "error"
      BY <1>1, <2>2, <2>7 DEF LoneOrderly, Stage, At
    <3>2. Stage(t)'
      BY <2>3, <3>1 DEF Stage, OnTheWay, Moved
    <3>3. LoneOwed(t)'
      BY <2>3, <3>1, <2>4 DEF LoneOwed, TypeOK
    <3> QED BY <1>1, <2>3, <2>7, <3>1, <3>2, <3>3 DEF LoneOrderly, IsWorking, Moved, At, Connected
  <2>8. ~overlap' => Orderly'
    BY <1>1, <2>3, <2>6, <2>7, StepOrderly DEF IsWorking, At, Moved
  <2> QED BY <2>6, <2>8
<1> QED BY <1>2, <1>3

-----------------------------------------------------------------------------
(* Disconnecting.                                                          *)
LEMMA BeginDisconnects ==
  ASSUME TypeOK, NEW t \in Tasks, BeginDisconnect(t)
  PROVE  /\ timer' = "none"
         /\ \/ /\ Connected /\ Moved(t, "stop", inst)
               /\ inst' = (IF env.adapter = "twitch" THEN NoClient ELSE inst)
               /\ UNCHANGED <<entry, attempts>>
            \/ /\ ~Connected /\ Moved(t, "wroteIdle", NoClient)
               /\ entry' = "none" /\ attempts' = 0 /\ UNCHANGED inst
<1>1. CASE Connected
  BY <1>1, Moves DEF BeginDisconnect
<1>2. CASE ~Connected
  <2>1. "wroteIdle" \in Await
    BY DEF Await
  <2> QED BY <1>2, <2>1, Moves DEF BeginDisconnect
<1> QED BY <1>1, <1>2

(* Its part of the steps of the disconnect job and of the sweep.           *)
LEMMA BeginDisconnectKeeps ==
  ASSUME IInv, NEW t \in Tasks, BeginDisconnect(t), Track, ~IsWorking(t),
         t # "connectJob",
         UNCHANGED <<db, polling, breaker, jobs, request, intent, env>>
  PROVE  IInv'
<1> USE DEF IInv, Base
<1>1. task[t].old = NoClient /\ env.adapter \in {"telegram", "twitch"}
  BY DEF Roles, IsWorking, TypeOK, Scenario
<1>2. /\ timer' = "none"
      /\ \/ /\ Connected /\ Moved(t, "stop", inst)
            /\ inst' = (IF env.adapter = "twitch" THEN NoClient ELSE inst)
            /\ UNCHANGED <<entry, attempts>>
         \/ /\ ~Connected /\ Moved(t, "wroteIdle", NoClient)
            /\ entry' = "none" /\ attempts' = 0 /\ UNCHANGED inst
  BY BeginDisconnects
<1>3. TypeOK'
  BY <1>1, <1>2, BotControlAssumption DEF TypeOK, Moved, TaskRecord, TimerState, Track
<1>4. Roles'
  BY <1>1, <1>2 DEF Roles, Moved, StepBy, OnTheWay
<1>5. Base'
  BY <1>2, <1>3, <1>4 DEF SameScenario, TimersFit, DeletedAsksNothing
<1>6. ASSUME ~overlap, Lone(t), LoneOrderly(t) PROVE LoneOrderly(t)'
  <2>1. /\ polling \subseteq {inst}
        /\ db # "deleted" => (Connected <=> entry = "running")
        /\ Connected /\ entry = "error" => attempts = 0
    BY <1>1, <1>6, NoneLive DEF LoneOrderly
  <2>2. Stage(t)'
    BY <1>1, <1>2, <2>1 DEF Stage, OnTheWay, Moved, Connected
  <2>3. LoneOwed(t)'
    BY <1>2, <1>3, <2>1 DEF LoneOwed, Connected, TypeOK
  <2>4. CASE Connected
    BY <1>1, <1>2, <1>6, <2>1, <2>2, <2>3, <2>4 DEF LoneOrderly, IsWorking, Moved, StepBy, Connected, Tasks
  <2>5. CASE ~Connected
    BY <1>1, <1>2, <1>6, <2>1, <2>2, <2>3, <2>5 DEF LoneOrderly, IsWorking, Moved, StepBy, Connected, Tasks
  <2> QED BY <2>4, <2>5
<1>7. ~overlap' => Orderly'
  BY <1>2, <1>5, <1>6, StepOrderly DEF IsWorking, Moved
<1> QED BY <1>5, <1>7

LEMMA StoppedKeeps ==
  ASSUME IInv, NEW t \in Tasks, Stopped(t)
  PROVE  IInv'
<1> USE DEF IInv, Base
<1>1. /\ At(t, "stop") /\ entry' = "none" /\ attempts' = 0
      /\ polling' = polling \ {task[t].old}
      /\ inst' = (IF env.adapter = "telegram" THEN NoClient ELSE inst)
      /\ UNCHANGED <<db, timer, breaker, jobs, request, intent, env, overlap>>
  BY DEF Stopped
<1>2. Moved(t, "wroteIdle", NoClient)
  <2>1. "wroteIdle" \in Await
    BY DEF Await
  <2> QED BY <2>1, Moves DEF Stopped
<1>3. TypeOK'
  BY <1>1, <1>2, BotControlAssumption DEF TypeOK, Moved, TaskRecord
<1>4. Roles'
  BY <1>1, <1>2 DEF Roles, Moved, StepBy, OnTheWay
<1>5. ASSUME ~overlap, Lone(t), LoneOrderly(t)
      PROVE  timer = "none" /\ inst' = NoClient /\ polling' \subseteq {NoClient}
  BY <1>1, <1>5 DEF LoneOrderly, Stage, At
<1>7. Base'
  BY <1>1, <1>3, <1>4 DEF SameScenario, TimersFit, DeletedAsksNothing
<1>8. ASSUME ~overlap, Lone(t), LoneOrderly(t) PROVE LoneOrderly(t)'
  <2>1. Stage(t)' /\ LoneOwed(t)'
    BY <1>1, <1>2, <1>5, <1>8 DEF Stage, LoneOwed, OnTheWay, Moved, Connected
  <2> QED BY <1>1, <1>2, <1>5, <1>8, <2>1 DEF LoneOrderly, IsWorking, Moved, Connected
<1>9. ~overlap' => Orderly'
  BY <1>1, <1>2, <1>7, <1>8, StepOrderly DEF IsWorking, At, Moved
<1> QED BY <1>7, <1>9

LEMMA StopThrowsKeeps ==
  ASSUME IInv, NEW t \in Tasks, StopThrows(t)
  PROVE  IInv'
<1> USE DEF IInv, Base
<1>1. /\ At(t, "stop") /\ env.adapter = "telegram" /\ "connectJob" \in Tasks
      /\ polling' = polling \ {task[t].old}
      /\ jobs' \in Jobs /\ jobs'.connect = jobs.connect
      /\ UNCHANGED <<db, entry, attempts, inst, timer, breaker, request, intent, overlap>>
  BY DEF StopThrows, TypeOK, Jobs, JobState, Tasks
<1>2. Moved(t, "idle", NoClient)
  BY Moves DEF StopThrows
<1>3. /\ env' \in Scenario /\ SameScenario'
      /\ env'.adapter = env.adapter /\ env'.earlyTimers = env.earlyTimers
  BY EnvironmentKept DEF StopThrows
<1>4. TypeOK'
  BY <1>1, <1>2, <1>3 DEF TypeOK, Moved, TaskRecord, Jobs
<1>5. Roles'
  BY <1>1, <1>2 DEF Roles, Moved, StepBy, OnTheWay
<1>6. Base'
  BY <1>1, <1>3, <1>4, <1>5 DEF TimersFit, DeletedAsksNothing
<1>7. ASSUME ~overlap, Lone(t), LoneOrderly(t) PROVE LoneOrderly(t)'
  <2>1. /\ timer = "none" /\ inst = task[t].old /\ Connected
        /\ entry = "running" \/ db = "deleted"
        /\ entry = "error" => attempts = 0
    BY <1>1, <1>7, NoneLive DEF LoneOrderly, Stage, At, StopThrows, Connected
  <2>2. Stage(t)' /\ LoneOwed(t)'
    BY <1>1, <1>2, <1>4, <2>1 DEF Stage, LoneOwed, OnTheWay, Moved, TypeOK
  <2> QED BY <1>1, <1>2, <1>3, <1>7, <2>1, <2>2
      DEF LoneOrderly, IsWorking, Moved, StepBy, Connected, At
<1>8. ~overlap' => Orderly'
  BY <1>1, <1>2, <1>6, <1>7, StepOrderly DEF IsWorking, At, Moved
<1> QED BY <1>6, <1>8

LEMMA DisconnectedWrittenKeeps ==
  ASSUME IInv, NEW t \in Tasks, DisconnectedWritten(t)
  PROVE  IInv'
<1> USE DEF IInv, Base
<1>1. /\ At(t, "wroteIdle") /\ task[t].old = NoClient
      /\ db' = (IF db = "deleted" THEN db ELSE "idle")
      /\ UNCHANGED <<entry, attempts, inst, polling, timer, breaker, request, intent, env, overlap>>
  BY DEF DisconnectedWritten, WriteStatus, Roles, At
<1>2. Moved(t, "idle", NoClient) /\ jobs' \in Jobs
  BY Finishes DEF DisconnectedWritten
<1>3. TypeOK'
  BY <1>1, <1>2 DEF TypeOK, Moved, TaskRecord, Jobs, Status
<1>4. Roles'
  BY <1>1, <1>2 DEF Roles, Moved, StepBy, OnTheWay, At
<1>5. Base'
  BY <1>1, <1>3, <1>4 DEF SameScenario, TimersFit, DeletedAsksNothing
<1>6. ASSUME ~overlap, Lone(t), LoneOrderly(t) PROVE LoneOrderly(t)'
  <2>1. entry = "none" /\ ~Connected /\ timer = "none"
    BY <1>1, <1>6 DEF LoneOrderly, Stage, At
  <2>2. Stage(t)' /\ LoneOwed(t)'
    BY <1>1, <1>2, <2>1 DEF Stage, LoneOwed, OnTheWay, Moved
  <2> QED BY <1>1, <1>2, <1>6, <2>1, <2>2 DEF LoneOrderly, Connected, IsWorking, Moved
<1>7. ~overlap' => Orderly'
  BY <1>1, <1>2, <1>5, <1>6, StepOrderly DEF IsWorking, At, Moved
<1> QED BY <1>5, <1>7

-----------------------------------------------------------------------------
(* Steps that neither set a handler to work nor touch the connection: the  *)
(* API, the watchdog, and handlers that look the bot up.                   *)
LEMMA QuietKeeps ==
  ASSUME IInv, TypeOK', SameScenario', DeletedAsksNothing',
         env'.adapter = env.adapter, env'.earlyTimers = env.earlyTimers,
         UNCHANGED <<entry, attempts, inst, polling, timer, breaker>>,
         Track \/ overlap' = overlap,
         \A u \in Tasks : /\ task'[u].old = task[u].old
                          /\ \/ task'[u].at = task[u].at
                             \/ ~IsWorking(u) /\ ~IsWorking(u)',
         db = "deleted" => /\ db' = "deleted"
                           /\ jobs.connect = "none" /\ task["connectJob"].at = "idle"
                                => jobs'.connect = "none" /\ task'["connectJob"].at = "idle"
  PROVE  IInv'
<1> USE DEF IInv, Base
<1>1. Roles'
  BY DEF Roles, IsWorking, OnTheWay
<1>2. Base'
  BY <1>1 DEF TimersFit
<1>3. ASSUME NEW u \in Tasks, ~overlap, Lone(u), LoneOrderly(u) PROVE LoneOrderly(u)'
  <2>0. "connectJob" \in Tasks
    BY DEF Tasks
  <2>1. CASE task'[u].at = task[u].at
    <3>1. Stage(u)'
      BY <1>3, <2>1 DEF LoneOrderly, Stage, Connected
    <3>2. LoneOwed(u)' \/ env.earlyTimers
      BY <1>3, <2>1 DEF LoneOrderly, LoneOwed, RetryOf
    <3> QED BY <1>3, <2>0, <2>1, <3>1, <3>2 DEF LoneOrderly, Connected, IsWorking
  <2>2. CASE ~IsWorking(u) /\ ~IsWorking(u)'
    <3>1. Stage(u)'
      BY <2>2 DEF IsWorking, Stage, OnTheWay
    <3>2. LoneOwed(u)' \/ env.earlyTimers
      BY <1>3, <2>2 DEF LoneOrderly, LoneOwed, RetryOf, IsWorking, OnTheWay
    <3> QED BY <1>3, <2>0, <2>2, <3>1, <3>2 DEF LoneOrderly, Connected, IsWorking
  <2> QED BY <1>3, <2>1, <2>2
<1>4. \A u \in Tasks : IsWorking(u)' <=> IsWorking(u)
  BY DEF IsWorking
<1>5. ~overlap' => Orderly'
  BY <1>2, <1>3, <1>4, IdleStepOrderly
<1> QED BY <1>2, <1>5

LEMMA ApiKeeps ==
  ASSUME IInv,
         \/ \E r \in {"start", "stop", "restart", "delete"} : Request(r)
         \/ Enqueue \/ EnqueueFails \/ WatchdogResets
  PROVE  IInv'
<1> USE DEF IInv, Base
<1>1. UNCHANGED <<entry, attempts, inst, polling, timer, breaker, task, overlap>>
  BY DEF Request, Enqueue, EnqueueFails, WatchdogResets
<1>2. /\ env' \in Scenario /\ SameScenario'
      /\ env'.adapter = env.adapter /\ env'.earlyTimers = env.earlyTimers
  <2>1. \/ env' = env \/ Fault
        \/ env.calls > 0 /\ env' = [env EXCEPT !.calls = @ - 1]
    BY DEF Request, MayCall, Enqueue, EnqueueFails, WatchdogResets
  <2> QED BY <2>1, EnvironmentKept
<1>3. ASSUME NEW r \in {"start", "stop", "restart", "delete"}, Request(r)
      PROVE  /\ TypeOK' /\ DeletedAsksNothing' /\ db # "deleted"
  BY <1>1, <1>2, <1>3 DEF Request, MayCall, TypeOK, DeletedAsksNothing, Status
<1>4. CASE Enqueue
  <2>1. TypeOK' /\ DeletedAsksNothing' /\ db' = db
    BY <1>1, <1>2, <1>4 DEF Enqueue, TypeOK, DeletedAsksNothing, JobState
  <2>2. db = "deleted" => jobs'.connect = jobs.connect
    BY <1>4 DEF Enqueue, TypeOK, DeletedAsksNothing
  <2> QED BY <1>1, <1>2, <2>1, <2>2, QuietKeeps
<1>5. CASE EnqueueFails
  <2>1. TypeOK' /\ DeletedAsksNothing' /\ jobs' = jobs /\ (db = "deleted" => db' = "deleted")
    BY <1>1, <1>2, <1>5 DEF EnqueueFails, WriteStatus, TypeOK, DeletedAsksNothing, Status
  <2> QED BY <1>1, <1>2, <2>1, QuietKeeps
<1>6. CASE WatchdogResets
  <2>1. TypeOK' /\ DeletedAsksNothing' /\ jobs' = jobs /\ db # "deleted"
    BY <1>1, <1>2, <1>6 DEF WatchdogResets, TypeOK, DeletedAsksNothing, Status
  <2> QED BY <1>1, <1>2, <2>1, QuietKeeps
<1>7. ASSUME NEW r \in {"start", "stop", "restart", "delete"}, Request(r) PROVE IInv'
  BY <1>1, <1>2, <1>3, <1>7, QuietKeeps
<1> QED BY <1>4, <1>5, <1>6, <1>7

(* A handler starts with, or goes on after, a status query.                *)
LEMMA LooksKeep ==
  ASSUME IInv, NEW t \in Tasks,
         \/ t = "connectJob" /\ ConnectJobStarts
         \/ t = "disconnectJob" /\ DisconnectJobStarts
         \/ ReadStatus(t) \/ SweepStarts(t)
  PROVE  IInv'
<1> USE DEF IInv, Base
<1>1. /\ UNCHANGED <<db, entry, attempts, inst, polling, timer, breaker, request, intent, env, overlap>>
      /\ DeletedAsksNothing' /\ SameScenario'
  BY DEF ConnectJobStarts, DisconnectJobStarts, ReadStatus, SweepStarts, SameScenario, DeletedAsksNothing
<1>2. /\ jobs' \in Jobs
      /\ jobs.connect = "none" => jobs'.connect = "none"
  BY DEF ConnectJobStarts, DisconnectJobStarts, ReadStatus, SweepStarts, TypeOK, Jobs, JobState
<1>3. /\ \/ UNCHANGED task
         \/ Moved(t, "read", task[t].old) /\ task[t].at = "idle"
         \/ Moved(t, "guard", task[t].old) /\ task[t].at = "read"
      /\ jobs.connect = "none" /\ task["connectJob"].at = "idle" => task'["connectJob"].at = "idle"
  <2>1. CASE ReadStatus(t)
    <3>1. Moved(t, "guard", task[t].old) /\ task[t].at = "read"
      <4>1. /\ task[t].at = "read" /\ db \in Status
            /\ task' = [task EXCEPT ![t].at = "guard", ![t].seen = db]
        BY <2>1 DEF ReadStatus, At, TypeOK
      <4>2. task \in [Tasks -> TaskRecord] /\ "guard" \in Await BY DEF TypeOK, TaskRecord, Await
      <4> HIDE DEF IInv
      <4>3. /\ task'[t] = [task[t] EXCEPT !.at = "guard", !.seen = db]
            /\ task[t] \in TaskRecord /\ StepBy(t)
        BY <4>1, <4>2 DEF StepBy
      <4>4. task'[t] \in TaskRecord /\ task'[t].at = "guard" /\ task'[t].old = task[t].old
        BY <4>1, <4>2, <4>3 DEF TaskRecord
      <4>5. task' \in [Tasks -> TaskRecord]
        <5> HIDE DEF TaskRecord
        <5> QED BY <4>1, <4>2, <4>4
      <4> QED BY <4>1, <4>3, <4>4, <4>5 DEF Moved
    <3> QED BY <3>1 DEF Moved, StepBy, Tasks
  <2>2. CASE SweepStarts(t) \/ (t = "disconnectJob" /\ DisconnectJobStarts)
    <3>1. Goto(t, "read") /\ task[t].at = "idle" /\ t # "connectJob"
      BY <2>2, BotControlAssumption DEF SweepStarts, DisconnectJobStarts, Idle
    <3>2. Moved(t, "read", task[t].old)
      BY <3>1, Moves DEF Await
    <3> QED BY <3>1, <3>2 DEF Moved, StepBy, Tasks
  <2>3. CASE t = "connectJob" /\ ConnectJobStarts
    <3>1. jobs.connect # "none" /\ task[t].at = "idle" /\ (UNCHANGED task \/ Goto(t, "read"))
      BY <2>3 DEF ConnectJobStarts, Idle
    <3>2. Goto(t, "read") => Moved(t, "read", task[t].old)
      BY Moves DEF Await
    <3> QED BY <3>1, <3>2
  <2> QED BY <2>1, <2>2, <2>3
<1>4. TypeOK'
  BY <1>1, <1>2, <1>3 DEF TypeOK, Moved, TaskRecord, Jobs
<1>5. \A u \in Tasks : /\ task'[u].old = task[u].old
                       /\ \/ task'[u].at = task[u].at
                          \/ ~IsWorking(u) /\ ~IsWorking(u)'
  BY <1>3 DEF Moved, StepBy, IsWorking
<1> QED BY <1>1, <1>2, <1>3, <1>4, <1>5, QuietKeeps

(* A handler that finds nothing to do.                                     *)
LEMMA NothingToDoKeeps ==
  ASSUME IInv, NEW t \in Tasks, task[t].at = "guard", Finish(t), Track,
         UNCHANGED <<db, entry, attempts, inst, polling, timer, breaker, request, intent, env>>
  PROVE  IInv'
<1> USE DEF IInv, Base
<1>1. /\ Moved(t, "idle", NoClient)
      /\ jobs' \in Jobs /\ jobs'.connect \in {"none", jobs.connect}
      /\ task[t].old = NoClient
  BY Finishes DEF Roles
<1>2. TypeOK'
  BY <1>1 DEF TypeOK, Moved, TaskRecord, Jobs, Track
<1>3. DeletedAsksNothing' /\ SameScenario'
  BY DEF DeletedAsksNothing, SameScenario
<1>4. /\ \A u \in Tasks : /\ task'[u].old = task[u].old
                          /\ \/ task'[u].at = task[u].at
                             \/ ~IsWorking(u) /\ ~IsWorking(u)'
      /\ task["connectJob"].at = "idle" => task'["connectJob"].at = "idle"
  BY <1>1 DEF Moved, StepBy, IsWorking, Tasks
<1> QED BY <1>1, <1>2, <1>3, <1>4, QuietKeeps

LEMMA ConnectJobGuardKeeps ==
  ASSUME IInv, ConnectJobGuard
  PROVE  IInv'
<1> USE DEF IInv, Base
<1> DEFINE t == "connectJob"
<1>1. /\ t \in Tasks /\ task[t].at = "guard" /\ task[t].old = NoClient /\ Track
      /\ UNCHANGED <<db, entry, attempts, inst, polling, breaker, request, intent, env>>
  BY DEF ConnectJobGuard, At, Tasks, Roles
<1>2. CASE ConnectWanted(task[t].seen)
  <2>1. /\ task' = [task EXCEPT ![t] = [Idle EXCEPT !.at = "build"]]
        /\ timer' = "none" /\ UNCHANGED jobs
    BY <1>2 DEF ConnectJobGuard
  <2>2. Moved(t, "build", NoClient)
    <3>1. "build" \in Await
      BY DEF Await
    <3> QED BY <1>1, <2>1, <3>1, Moves
  <2>3. TypeOK'
    BY <1>1, <2>1, <2>2 DEF TypeOK, Moved, TaskRecord, TimerState, Track
  <2>4. t \notin AttemptTasks /\ t \notin SweepTasks
    BY BotControlAssumption
  <2>5. Roles'
    BY <1>1, <2>2 DEF Roles, Moved, StepBy
  <2>6. Base'
    BY <1>1, <2>1, <2>3, <2>5 DEF SameScenario, TimersFit, DeletedAsksNothing
  <2>7. ASSUME ~overlap, Lone(t), LoneOrderly(t) PROVE LoneOrderly(t)'
    <3>1. Stage(t)'
      BY <2>1, <2>2, <2>4 DEF Stage, OnTheWay, Moved
    <3>2. LoneOwed(t)'
      BY <2>1, <2>2, <2>4 DEF LoneOwed, RetryOf, Moved
    <3>3. Connected /\ entry = "error" =>
             \/ db = "deleted" /\ task[t].at = "wroteGaveUp"
             \/ jobs.connect = "none" /\ task[t].at = "idle"
      BY <1>1, <2>7 DEF LoneOrderly
    <3> QED BY <1>1, <2>1, <2>2, <2>7, <3>1, <3>2, <3>3
        DEF LoneOrderly, IsWorking, Moved, Connected
  <2>8. ~overlap' => Orderly'
    BY <1>1, <2>2, <2>6, <2>7, StepOrderly DEF IsWorking, Moved
  <2> QED BY <2>6, <2>8
<1>3. CASE ~ConnectWanted(task[t].seen)
  BY <1>1, <1>3, NothingToDoKeeps DEF ConnectJobGuard
<1> QED BY <1>2, <1>3

LEMMA DisconnectGuardsKeep ==
  ASSUME IInv, NEW t \in Tasks,
         (t = "disconnectJob" /\ DisconnectJobGuard) \/ SweepStops(t)
  PROVE  IInv'
<1>1. /\ task[t].at = "guard" /\ Track /\ t # "connectJob"
      /\ UNCHANGED <<db, polling, breaker, request, intent, env>>
  BY BotControlAssumption DEF DisconnectJobGuard, SweepStops, At
<1>2. \/ BeginDisconnect(t) /\ UNCHANGED jobs
      \/ Finish(t) /\ UNCHANGED <<entry, attempts, inst, timer>>
  BY DEF DisconnectJobGuard, SweepStops
<1>3. ~IsWorking(t)
  BY <1>1 DEF IsWorking
<1>4. CASE BeginDisconnect(t) /\ UNCHANGED jobs
  BY <1>1, <1>3, <1>4, BeginDisconnectKeeps
<1>5. CASE Finish(t) /\ UNCHANGED <<entry, attempts, inst, timer>>
  BY <1>1, <1>5, NothingToDoKeeps
<1> QED BY <1>2, <1>4, <1>5

LEMMA SweepConnectsKeeps ==
  ASSUME IInv, NEW t \in Tasks, SweepConnects(t)
  PROVE  IInv'
<1> USE DEF IInv, Base
<1> DEFINE wanted == task[t].seen \in Active /\ ~Connected /\ timer = "none"
<1>1. /\ task[t].at = "guard" /\ task[t].old = NoClient /\ Track
      /\ t \in SweepTasks /\ t # "connectJob" /\ t \notin AttemptTasks
      /\ t \notin {"disconnectJob", "drop"} /\ "connectJob" \in Tasks
      /\ UNCHANGED <<db, entry, attempts, inst, polling, timer, request, intent, env>>
      /\ breaker' = IF wanted THEN AfterCanAttempt(breaker) ELSE breaker
  BY BotControlAssumption DEF SweepConnects, At, Roles, Tasks
<1>2. \/ /\ wanted /\ UNCHANGED jobs
         /\ task' = [task EXCEPT ![t] = [Idle EXCEPT !.at = "build"]]
      \/ Finish(t)
  BY DEF SweepConnects
<1>3. GoodBreaker(breaker') /\ TimersFit'
  BY <1>1, CanAttemptGood DEF TimersFit
<1>4. jobs' \in Jobs /\ (jobs.connect = "none" => jobs'.connect = "none")
      /\ (\/ wanted /\ Moved(t, "build", NoClient)
          \/ Moved(t, "idle", NoClient))
  <2>1. "build" \in Await
    BY DEF Await
  <2>2. CASE /\ wanted /\ UNCHANGED jobs
             /\ task' = [task EXCEPT ![t] = [Idle EXCEPT !.at = "build"]]
    BY <2>1, <2>2, Moves DEF TypeOK, Jobs
  <2>3. CASE Finish(t)
    BY <2>3, Finishes
  <2> QED BY <1>2, <2>2, <2>3
<1> HIDE DEF wanted
<1>5. TypeOK'
  BY <1>1, <1>3, <1>4 DEF TypeOK, Moved, TaskRecord, Jobs, Track, GoodBreaker
<1>6. Roles'
  BY <1>1, <1>4 DEF Roles, Moved, StepBy, OnTheWay
<1>7. Base'
  BY <1>1, <1>3, <1>5, <1>6 DEF SameScenario, DeletedAsksNothing
<1>8. CASE wanted /\ Moved(t, "build", NoClient)
  <2>1. ~Connected /\ timer = "none"
    BY <1>8 DEF wanted
  <2>2. ASSUME ~overlap, Lone(t), LoneOrderly(t) PROVE LoneOrderly(t)'
    <3>1. Stage(t)'
      BY <1>1, <1>8, <2>1 DEF Stage, OnTheWay, Moved
    <3>2. LoneOwed(t)' \/ env.earlyTimers
      BY <1>1, <1>8, <2>1, <2>2 DEF LoneOrderly, LoneOwed, RetryOf, Moved
    <3> QED BY <1>1, <1>8, <2>1, <2>2, <3>1, <3>2
        DEF LoneOrderly, IsWorking, Moved, Connected
  <2>3. ~overlap' => Orderly'
    BY <1>1, <1>7, <1>8, <2>2, StepOrderly DEF IsWorking, Moved
  <2> QED BY <1>7, <2>3
<1>9. CASE Moved(t, "idle", NoClient)
  <2>1. \A u \in Tasks : IsWorking(u)' <=> IsWorking(u)
    BY <1>1, <1>9 DEF IsWorking, Moved, StepBy
  <2>2. ASSUME NEW u \in Tasks, ~overlap, Lone(u), LoneOrderly(u) PROVE LoneOrderly(u)'
    <3>1. /\ task'[u].old = task[u].old /\ (u # t => task'[u] = task[u])
          /\ task'["connectJob"] = task["connectJob"]
      BY <1>1, <1>9 DEF Moved, StepBy
    <3>2. Stage(u)'
      BY <1>1, <1>9, <2>2, <3>1 DEF LoneOrderly, Stage, OnTheWay, Moved, Connected
    <3>3. LoneOwed(u)' \/ env.earlyTimers
      BY <1>1, <1>9, <2>2, <3>1 DEF LoneOrderly, LoneOwed, RetryOf, OnTheWay, Moved
    <3> QED BY <1>1, <1>4, <1>9, <2>2, <3>1, <3>2, <3>3
        DEF LoneOrderly, IsWorking, Moved, Connected
  <2>3. ~overlap' => Orderly'
    BY <1>1, <1>7, <2>1, <2>2, IdleStepOrderly
  <2> QED BY <1>7, <2>3
<1> QED BY <1>4, <1>8, <1>9

-----------------------------------------------------------------------------
(* Timers, drops, crashes and the clock.                                   *)
LEMMA TimerFiresKeeps ==
  ASSUME IInv, NEW t \in AttemptTasks, TimerFires(t)
  PROVE  IInv'
<1> USE DEF IInv, Base
<1>1. /\ task[t] = Idle /\ Track /\ timer \in {"backoff", "cooldown"} /\ timer' = "spent"
      /\ t \in Tasks /\ t \notin SweepTasks /\ t \notin {"connectJob", "disconnectJob", "drop"}
      /\ "connectJob" \in Tasks
      /\ breaker' = AfterCanAttempt(breaker)
      /\ UNCHANGED <<db, entry, attempts, inst, polling, jobs, request, intent, env>>
  BY BotControlAssumption DEF TimerFires, Tasks
<1>2. /\ task[t].at = "idle" /\ task[t].old = NoClient
      /\ GoodBreaker(breaker') /\ TimersFit'
  BY <1>1, CanAttemptGood DEF Idle, TimersFit
<1>3. CASE Allows(breaker)
  <2>1. Moved(t, "build", NoClient)
    <3>1. Goto(t, "build")
      BY <1>3 DEF TimerFires
    <3> QED BY <1>1, <1>2, <3>1, Moves DEF Await
  <2>2. TypeOK'
    BY <1>1, <1>2, <2>1 DEF TypeOK, Moved, TaskRecord, TimerState, Track, GoodBreaker
  <2>3. Roles'
    BY <1>1, <2>1 DEF Roles, Moved, StepBy
  <2>4. Base'
    BY <1>1, <1>2, <2>2, <2>3 DEF SameScenario, DeletedAsksNothing
  <2>5. ASSUME ~overlap, Lone(t), LoneOrderly(t) PROVE LoneOrderly(t)'
    <3>1. Stage(t)'
      BY <1>1, <2>1, <2>5 DEF Stage, OnTheWay, Moved, LoneOrderly
    <3>2. LoneOwed(t)'
      BY <1>1, <2>1 DEF LoneOwed, RetryOf, Moved, OnTheWay
    <3> QED BY <1>1, <1>2, <2>1, <2>5, <3>1, <3>2
        DEF LoneOrderly, IsWorking, Moved, StepBy, Connected
  <2>6. ~overlap' => Orderly'
    BY <1>1, <1>2, <2>1, <2>4, <2>5, StepOrderly DEF IsWorking, Moved
  <2> QED BY <2>4, <2>6
<1>4. CASE ~Allows(breaker)
  <2>1. UNCHANGED task /\ env.earlyTimers \in BOOLEAN
    BY <1>4 DEF TimerFires, TypeOK, Scenario
  <2>2. env.earlyTimers
    <3>1. ~Ready(breaker) /\ ~CooledDown(breaker)
      BY <1>4, ReadyAllows
    <3> QED BY <2>1, <3>1 DEF TimerFires, TimersFit
  <2>3. TypeOK'
    BY <1>1, <1>2, <2>1 DEF TypeOK, TimerState, Track, GoodBreaker
  <2>4. Base'
    BY <1>1, <1>2, <2>1, <2>3 DEF SameScenario, DeletedAsksNothing, Roles
  <2>5. ASSUME NEW u \in Tasks, ~overlap, Lone(u), LoneOrderly(u) PROVE LoneOrderly(u)'
    <3>1. Stage(u)'
      BY <1>1, <2>1, <2>5 DEF LoneOrderly, Stage, Connected
    <3> QED BY <1>1, <2>1, <2>2, <2>5, <3>1 DEF LoneOrderly, IsWorking, Connected
  <2>6. \A u \in Tasks : IsWorking(u)' <=> IsWorking(u)
    BY <2>1 DEF IsWorking
  <2>7. ~overlap' => Orderly'
    BY <1>1, <2>4, <2>5, <2>6, IdleStepOrderly
  <2> QED BY <2>4, <2>7
<1> QED BY <1>3, <1>4

LEMMA ClientDropsKeeps ==
  ASSUME IInv, NEW c \in Clients, ClientDrops(c)
  PROVE  IInv'
<1> USE DEF IInv, Base
<1> DEFINE t == "drop"
<1>1. /\ t \in Tasks /\ task[t].at = "idle" /\ task[t].old = NoClient /\ Track
      /\ polling' = polling \ {c} /\ "connectJob" \in Tasks
      /\ UNCHANGED <<db, attempts, timer, breaker, jobs, request, intent>>
      /\ t \notin AttemptTasks
  BY BotControlAssumption DEF ClientDrops, Tasks, Idle
<1>2. /\ env' \in Scenario /\ SameScenario'
      /\ env'.adapter = env.adapter /\ env'.earlyTimers = env.earlyTimers
  BY EnvironmentKept DEF ClientDrops
<1>3. CASE inst = c
  <2>1. /\ inst' = NoClient /\ entry' = (IF entry = "none" THEN entry ELSE "reconnecting")
        /\ Goto(t, "wroteReconnecting")
    BY <1>3 DEF ClientDrops, SetEntry
  <2>2. Moved(t, "wroteReconnecting", NoClient)
    BY <1>1, <2>1, Moves DEF Await
  <2>3. TypeOK'
    BY <1>1, <1>2, <2>1, <2>2 DEF TypeOK, Moved, TaskRecord, Track
  <2>4. Roles'
    BY <1>1, <2>2 DEF Roles, Moved, StepBy, OnTheWay
  <2>5. Base'
    BY <1>1, <1>2, <2>3, <2>4 DEF TimersFit, DeletedAsksNothing
  <2>6. ASSUME ~overlap, Lone(t), LoneOrderly(t) PROVE LoneOrderly(t)'
    <3>1. Stage(t)'
      BY <2>1, <2>2 DEF Stage, OnTheWay, Moved, Connected
    <3>2. LoneOwed(t)' \/ env.earlyTimers
      BY <1>1, <2>1, <2>2, <2>6 DEF LoneOrderly, LoneOwed
    <3>3. polling' = {}
      BY <1>1, <1>3, <2>6, NoneLive DEF LoneOrderly
    <3> QED BY <1>1, <1>2, <2>1, <2>2, <2>6, <3>1, <3>2, <3>3
        DEF LoneOrderly, IsWorking, Moved, Connected
  <2>7. ~overlap' => Orderly'
    BY <1>1, <2>2, <2>5, <2>6, StepOrderly DEF IsWorking, Moved
  <2> QED BY <2>5, <2>7
<1>4. CASE inst # c
  <2>1. UNCHANGED <<inst, entry, task>>
    BY <1>4 DEF ClientDrops
  <2>2. TypeOK'
    BY <1>1, <1>2, <2>1 DEF TypeOK, Track
  <2>3. Base'
    BY <1>1, <1>2, <2>1, <2>2 DEF TimersFit, DeletedAsksNothing, Roles
  <2>4. ASSUME NEW u \in Tasks, ~overlap, Lone(u), LoneOrderly(u) PROVE LoneOrderly(u)'
    <3>1. Stage(u)'
      BY <1>1, <1>2, <2>1, <2>4 DEF LoneOrderly, Stage, Connected
    <3>2. LoneOwed(u)' \/ env.earlyTimers
      BY <1>1, <2>1, <2>4 DEF LoneOrderly, LoneOwed, RetryOf
    <3> QED BY <1>1, <1>2, <2>1, <2>4, <3>1, <3>2 DEF LoneOrderly, IsWorking, Connected
  <2>5. \A u \in Tasks : IsWorking(u)' <=> IsWorking(u)
    BY <2>1 DEF IsWorking
  <2>6. ~overlap' => Orderly'
    BY <1>1, <2>3, <2>4, <2>5, IdleStepOrderly
  <2> QED BY <2>3, <2>6
<1> QED BY <1>3, <1>4

LEMMA DropWrittenKeeps ==
  ASSUME IInv, DropWritten
  PROVE  IInv'
<1> USE DEF IInv, Base
<1> DEFINE t == "drop"
<1>1. /\ t \in Tasks /\ At(t, "wroteReconnecting") /\ task[t].old = NoClient
      /\ "connectJob" \in Tasks /\ t \notin AttemptTasks
      /\ db' = (IF db = "deleted" THEN db ELSE "reconnecting")
      /\ UNCHANGED <<inst, polling, request, intent, env, overlap>>
  BY BotControlAssumption DEF DropWritten, WriteStatus, Tasks, Roles, At
<1>2. \/ /\ Moved(t, "idle", NoClient) /\ jobs' \in Jobs
         /\ UNCHANGED <<entry, attempts, timer, breaker>>
      \/ /\ entry # "none" /\ Moved(t, "wroteGaveUp", NoClient) /\ UNCHANGED jobs
         /\ entry' = "error" /\ attempts' = 0 /\ timer' = "none"
         /\ GoodBreaker(breaker')
      \/ /\ entry # "none" /\ Moved(t, "idle", NoClient) /\ jobs' \in Jobs
         /\ entry' = entry /\ attempts' \in 1..MaxReconnectAttempts
         /\ timer' \in {"backoff", "cooldown"} /\ TimersFit'
         /\ GoodBreaker(breaker')
  <2>1. Finish(t) => Moved(t, "idle", NoClient) /\ jobs' \in Jobs
    BY <1>1, Finishes
  <2>2. Goto(t, "wroteGaveUp") => Moved(t, "wroteGaveUp", NoClient)
    <3>1. Goto(t, "wroteGaveUp") => Moved(t, "wroteGaveUp", task[t].old)
      BY <1>1, Moves DEF Await
    <3> QED BY <1>1, <3>1
  <2>3. CASE ScheduleReconnect(t, entry)
    BY <1>1, <2>1, <2>2, <2>3, Schedules
  <2>4. CASE Finish(t) /\ UNCHANGED <<entry, attempts, timer, breaker>>
    BY <2>1, <2>4
  <2> QED BY <2>3, <2>4 DEF DropWritten
<1>3. TypeOK'
  BY <1>1, <1>2, BotControlAssumption
     DEF TypeOK, Moved, TaskRecord, Jobs, GoodBreaker, TimerState, Status
<1>4. Roles'
  BY <1>1, <1>2 DEF Roles, Moved, StepBy, OnTheWay, At
<1>5. Base'
  BY <1>1, <1>2, <1>3, <1>4 DEF SameScenario, TimersFit, DeletedAsksNothing
<1>6. ASSUME ~overlap, Lone(t), LoneOrderly(t) PROVE LoneOrderly(t)'
  <2>1. /\ ~Connected /\ entry \in {"none", "reconnecting"}
        /\ env.earlyTimers \/ timer # "spent"
    BY <1>1, <1>6 DEF LoneOrderly, LoneOwed, Stage, At
  <2>2. Stage(t)'
    BY <1>2 DEF Stage, OnTheWay, Moved
  <2>3. LoneOwed(t)' \/ env.earlyTimers
    BY <1>2, <1>3, <2>1 DEF LoneOwed, TypeOK
  <2> QED BY <1>1, <1>2, <1>6, <2>1, <2>2, <2>3 DEF LoneOrderly, IsWorking, Moved, At, Connected
<1>7. ~overlap' => Orderly'
  BY <1>1, <1>2, <1>5, <1>6, StepOrderly DEF IsWorking, At, Moved
<1> QED BY <1>5, <1>7

LEMMA CrashKeeps ==
  ASSUME IInv, Crash
  PROVE  IInv'
<1> USE DEF IInv, Base
<1>1. /\ entry' = "none" /\ attempts' = 0 /\ inst' = NoClient /\ polling' = {}
      /\ timer' = "none" /\ breaker' = NewBreaker
      /\ UNCHANGED <<db, request, intent, overlap>>
      /\ task' \in [Tasks -> TaskRecord]
      /\ \A u \in Tasks : task'[u].at = "idle" /\ task'[u].old = NoClient
  BY DEF Crash, Idle, TaskRecord, Await
<1>2. /\ env' \in Scenario /\ SameScenario' /\ env'.earlyTimers = env.earlyTimers
  BY EnvironmentKept DEF Crash
<1>3. jobs' \in Jobs
  BY DEF Crash, TypeOK, Jobs, JobState
<1>4. TypeOK'
  BY <1>1, <1>2, <1>3, NewBreakerGood, BotControlAssumption
     DEF TypeOK, TaskRecord, Jobs, GoodBreaker, TimerState
<1>5. Roles'
  BY <1>1 DEF Roles, OnTheWay
<1>6. Base'
  BY <1>1, <1>2, <1>4, <1>5, NewBreakerGood DEF TimersFit, DeletedAsksNothing
<1>7. PICK u \in Tasks : TRUE
  BY DEF Tasks
<1>8. Lone(u)' /\ LoneOrderly(u)'
  <2>1. Stage(u)' /\ LoneOwed(u)'
    BY <1>1, <1>7 DEF Stage, OnTheWay, LoneOwed
  <2> QED BY <1>1, <1>7, <2>1 DEF Lone, IsWorking, LoneOrderly, Connected
<1>9. Orderly'
  BY <1>6, <1>7, <1>8, LoneSufficesNext
<1> QED BY <1>6, <1>9

LEMMA TickKeeps ==
  ASSUME IInv, Tick
  PROVE  IInv'
<1> USE DEF IInv, Base
<1>1. /\ UNCHANGED <<db, entry, attempts, inst, polling, timer, jobs, task,
                     request, intent, env, overlap>>
      /\ breaker' = Age(breaker)
  BY DEF Tick
<1>2. /\ GoodBreaker(breaker') /\ (Ready(breaker) => Ready(breaker'))
      /\ (breaker.state = "open" => breaker'.state = "open")
  BY <1>1, TransitionsGood, ReadyStays
<1>3. TypeOK'
  BY <1>1, <1>2 DEF TypeOK, GoodBreaker
<1>4. Base'
  BY <1>1, <1>2, <1>3 DEF SameScenario, TimersFit, DeletedAsksNothing, Roles
<1>5. ASSUME NEW u \in Tasks, ~overlap, Lone(u), LoneOrderly(u) PROVE LoneOrderly(u)'
  BY <1>1, <1>5 DEF LoneOrderly, Stage, LoneOwed, RetryOf, IsWorking, Connected
<1>6. \A u \in Tasks : IsWorking(u)' <=> IsWorking(u)
  BY <1>1 DEF IsWorking
<1>7. ~overlap' => Orderly'
  BY <1>1, <1>4, <1>5, <1>6, IdleStepOrderly
<1> QED BY <1>4, <1>7

-----------------------------------------------------------------------------
LEMMA InitHolds == Init => IInv
<1> SUFFICES ASSUME Init PROVE IInv
  OBVIOUS
<1> USE DEF Init
<1>1. /\ task \in [Tasks -> TaskRecord] /\ env \in Scenario
      /\ \A u \in Tasks : task[u].at = "idle" /\ task[u].old = NoClient
  BY BotControlAssumption DEF Idle, TaskRecord, Await
<1>2. TypeOK
  <2>1. /\ db \in Status /\ timer \in TimerState /\ attempts \in 0..MaxReconnectAttempts
        /\ jobs \in [connect : JobState, disconnect : JobState]
    BY BotControlAssumption DEF Status, TimerState, JobState
  <2>2. breaker \in Breaker
    BY NewBreakerGood DEF GoodBreaker
  <2> QED BY <1>1, <2>1, <2>2 DEF TypeOK, TaskRecord
<1>3. Base
  BY <1>1, <1>2, NewBreakerGood DEF Base, Roles, SameScenario, TimersFit, DeletedAsksNothing, OnTheWay
<1>4. PICK u \in Tasks : TRUE
  BY DEF Tasks
<1>5. Lone(u) /\ LoneOrderly(u)
  <2>1. Stage(u) /\ LoneOwed(u)
    BY <1>1, <1>4 DEF Stage, OnTheWay, LoneOwed
  <2> QED BY <1>1, <1>4, <2>1 DEF Lone, IsWorking, LoneOrderly, Connected
<1> QED BY <1>3, <1>4, <1>5, LoneSuffices DEF IInv, Base

LEMMA NextKeeps == IInv /\ [Next]_vars => IInv'
<1> SUFFICES ASSUME IInv, [Next]_vars PROVE IInv'
  OBVIOUS
<1>1. CASE \/ \E r \in {"start", "stop", "restart", "delete"} : Request(r)
           \/ Enqueue \/ EnqueueFails \/ WatchdogResets
  BY <1>1, ApiKeeps
<1>2. CASE ConnectJobStarts \/ DisconnectJobStarts
  <2>1. "connectJob" \in Tasks /\ "disconnectJob" \in Tasks
    BY DEF Tasks
  <2> QED BY <1>2, <2>1, LooksKeep
<1>3. ASSUME NEW t \in Tasks, TaskStep(t) PROVE IInv'
  <2>1. CASE ReadStatus(t)
    BY <2>1, LooksKeep
  <2>2. CASE t = "connectJob" /\ ConnectJobGuard
    BY <2>2, ConnectJobGuardKeeps
  <2>3. CASE (t = "disconnectJob" /\ DisconnectJobGuard) \/ SweepStops(t)
    BY <2>3, DisconnectGuardsKeep
  <2>4. CASE t = "drop" /\ DropWritten
    BY <2>4, DropWrittenKeeps
  <2>5. CASE SweepConnects(t)
    BY <2>5, SweepConnectsKeeps
  <2>6. CASE ConnectStep(t)
    BY <2>6, BuildKeeps, BuildFailsKeeps, StopOldKeeps, HandshakeSucceedsKeeps,
       HandshakeFailsKeeps, ConnectedWrittenKeeps, ErrorWrittenKeeps, GaveUpWrittenKeeps
       DEF ConnectStep
  <2>7. CASE DisconnectStep(t)
    BY <2>7, StoppedKeeps, StopThrowsKeeps, DisconnectedWrittenKeeps DEF DisconnectStep
  <2> QED BY <1>3, <2>1, <2>2, <2>3, <2>4, <2>5, <2>6, <2>7 DEF TaskStep
<1>4. ASSUME NEW t \in SweepTasks, SweepStarts(t) PROVE IInv'
  <2>1. t \in Tasks
    BY DEF Tasks
  <2> QED BY <1>4, <2>1, LooksKeep
<1>5. ASSUME NEW t \in AttemptTasks, TimerFires(t) PROVE IInv'
  BY <1>5, TimerFiresKeeps
<1>6. ASSUME NEW c \in Clients, ClientDrops(c) PROVE IInv'
  BY <1>6, ClientDropsKeeps
<1>7. CASE Crash \/ Tick
  BY <1>7, CrashKeeps, TickKeeps
<1>8. CASE UNCHANGED vars
  BY <1>8, QuietKeeps DEF vars, IInv, Base, TypeOK, SameScenario, DeletedAsksNothing
<1> QED BY <1>1, <1>2, <1>3, <1>4, <1>5, <1>6, <1>7, <1>8 DEF Next

(* The types, the breaker's ranges, who may hold which role and which      *)
(* timer, in every run; and, while no connect of a bot overlaps another,   *)
(* that one task at a time works on it and that its entry, its retry and   *)
(* its connection agree at each await of that task.                        *)
THEOREM Invariant == Spec => []IInv
  BY InitHolds, NextKeeps, PTL DEF Spec

(* While handlers take turns no provider connection is ever orphaned:      *)
(* whatever requests, faults, crashes and timers do, a live connection is  *)
(* the registered client's or is being stopped.                            *)
THEOREM NoOrphans == Spec => []RegisteredOnly
<1>1. IInv => RegisteredOnly
  BY DEF IInv, Orderly, RegisteredOnly
<1> QED BY <1>1, Invariant, PTL

(* While handlers take turns the worker's entry and the adapter's registry *)
(* agree at rest.                                                          *)
THEOREM EntryTells == Spec => []EntryTruth
<1>1. IInv => EntryTruth
  <2> SUFFICES ASSUME IInv, Quiet, ~overlap, db # "deleted"
               PROVE  Connected <=> entry = "running"
    BY DEF EntryTruth
  <2>1. Settled
    BY DEF Quiet, Settled, IsWorking, Idle
  <2> QED BY <2>1 DEF IInv, Orderly, SettledTruth
<1> QED BY <1>1, Invariant, PTL

(* Where setTimeout never fires before the clock agrees, a bot whose last  *)
(* attempt failed has its next one scheduled once the handlers are at      *)
(* rest, and no handle of a fired timer stays behind.  (One that fires     *)
(* early is refused by the breaker and leaves its spent handle for good.)  *)
THEOREM RetriesOwned ==
  ASSUME \A s \in Scenarios : ~s.earlyTimers
  PROVE  Spec => []RetryOwned
<1>1. IInv => RetryOwned
  <2> SUFFICES ASSUME IInv PROVE RetryOwned
    OBVIOUS
  <2>1. TypeOK /\ ~env.earlyTimers
    BY DEF IInv, Base, SameScenario
  <2>2. ASSUME Quiet, ~overlap PROVE Owed /\ ~Retrying /\ timer # "spent"
    <3>1. \A t \in Tasks : task[t].at = "idle"
      BY <2>2 DEF Quiet, Idle
    <3>2. Owed /\ AttemptTasks \subseteq Tasks
      BY <2>1, <2>2 DEF IInv, Orderly, Tasks
    <3> QED BY <3>1, <3>2 DEF Owed, Retrying, OnTheWay
  <2> QED BY <2>1, <2>2 DEF RetryOwned, FailedBotHasRetry, TimerLive, Owed
<1> QED BY <1>1, Invariant, PTL
=============================================================================
