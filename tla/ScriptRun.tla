------------------------------- MODULE ScriptRun -------------------------------
(***************************************************************************)
(* The engine running scripts: one event starts a run of every script that *)
(* matches it, the runs go on concurrently, each walks its action chain    *)
(* step by step under an optional time budget, and a custom action hands   *)
(* its code to a worker thread that calls back into the script API.        *)
(*                                                                         *)
(* A step is its kind: "send" stands for every action that awaits one call *)
(* of the script API (reply, random_reply, say, react, forward, log,       *)
(* webhook), "if" carries the number of steps its branch holds.            *)
(***************************************************************************)
EXTENDS Integers, Sequences, FiniteSets

CONSTANTS Event,        \* events of one bot
          ScriptId,     \* the scripts registered for them
          Program,      \* the action chain of each script
          Budgeted,     \* the scripts with a maxExecutionMs
          MaxSteps,     \* the validation's limit on the steps of a chain
          MaxSandboxWorkers

ASSUME RunAssumption ==
    /\ Program \in [ScriptId -> Seq([kind : {"send", "count", "delay", "custom", "if"}, span : Nat])]
    /\ MaxSteps \in Nat
    /\ \A s \in ScriptId : Len(Program[s]) <= MaxSteps
    /\ \A s \in ScriptId : \A i \in 1..Len(Program[s]) : i + Program[s][i].span <= Len(Program[s])
    /\ Budgeted \subseteq ScriptId
    /\ MaxSandboxWorkers \in Nat \ {0}

VARIABLES
    event,       \* "new", "running", "testing", "done"
    at,          \* the next step of each run, 0 before it starts
    phase,       \* what each run is doing
    failed,      \* ctx.scriptFailed
    late,        \* the run's deadline has passed
    thread,      \* sandbox threads, one per custom step of a run
    calls,       \* the thread's API calls that the host is executing
    activeSandboxWorkers,
    scriptExecutions, scriptErrors

runVars == <<event, at, phase, failed, late, thread, calls,
             activeSandboxWorkers, scriptExecutions, scriptErrors>>

Run    == Event \X ScriptId
Thread == Run \X (1..MaxSteps)     \* the run and the index of its custom step

RunTypeOK ==
    /\ event \in [Event -> {"new", "running", "testing", "done"}]
    /\ at \in [Run -> 0..(MaxSteps + 1)]
    /\ phase \in [Run -> {"off", "walking", "sandbox", "ending", "over"}]
    /\ failed \in [Run -> BOOLEAN] /\ late \in [Run -> BOOLEAN]
    /\ thread \in [Thread -> {"none", "alive", "dying", "gone"}]
    /\ calls \in [Thread -> 0..1]
    /\ activeSandboxWorkers \in Nat /\ scriptExecutions \in Nat /\ scriptErrors \in Nat

Prog(r) == Program[r[2]]
Step(r) == Prog(r)[at[r]]
Here(r) == <<r, at[r]>>

(***************************************************************************)
(* Starting and finishing.                                                 *)
(***************************************************************************)
(* execute: every matching script whose cooldown and filters pass starts. *)
Execute(e) ==
    /\ event[e] = "new"
    /\ \E started \in SUBSET ScriptId :
         /\ event' = [event EXCEPT ![e] = "running"]
         /\ at' = [r \in Run |-> IF r[1] = e /\ r[2] \in started THEN 1 ELSE at[r]]
         /\ phase' = [r \in Run |-> IF r[1] = e THEN IF r[2] \in started THEN "walking" ELSE "over"
                                    ELSE phase[r]]
    /\ UNCHANGED <<failed, late, thread, calls, activeSandboxWorkers,
                   scriptExecutions, scriptErrors>>

(* A manual test runs one script whatever its cooldown; it is not counted. *)
ManualTest(e) ==
    /\ event[e] = "new"
    /\ \E s \in ScriptId :
         /\ event' = [event EXCEPT ![e] = "testing"]
         /\ at' = [at EXCEPT ![<<e, s>>] = 1]
         /\ phase' = [r \in Run |-> IF r[1] = e THEN IF r[2] = s THEN "walking" ELSE "over"
                                    ELSE phase[r]]
    /\ UNCHANGED <<failed, late, thread, calls, activeSandboxWorkers, scriptExecutions,
                   scriptErrors>>

(* allSettled: the execution is counted when every run of the event is over. *)
ExecutionCounted(e) ==
    /\ event[e] \in {"running", "testing"} /\ \A s \in ScriptId : phase[<<e, s>>] = "over"
    /\ event' = [event EXCEPT ![e] = "done"]
    /\ scriptExecutions' = scriptExecutions + (IF event[e] = "running" THEN 1 ELSE 0)
    /\ UNCHANGED <<at, phase, failed, late, thread, calls,
                   activeSandboxWorkers, scriptErrors>>

DeadlinePasses(r) ==
    /\ r[2] \in Budgeted /\ phase[r] \in {"walking", "sandbox"} /\ ~late[r]
    /\ late' = [late EXCEPT ![r] = TRUE]
    /\ UNCHANGED <<event, at, phase, failed, thread, calls,
                   activeSandboxWorkers, scriptExecutions, scriptErrors>>

(* The deadline is looked at between steps and after the last one. *)
EndOfActions(r) ==
    /\ phase[r] = "walking" /\ (late[r] \/ at[r] > Len(Prog(r)))
    /\ phase' = [phase EXCEPT ![r] = "over"]
    /\ scriptErrors' = IF failed[r] \/ late[r] THEN scriptErrors + 1 ELSE scriptErrors
    /\ failed' = [failed EXCEPT ![r] = @ \/ late[r]]
    /\ UNCHANGED <<event, at, late, thread, calls,
                   activeSandboxWorkers, scriptExecutions>>

(***************************************************************************)
(* Steps.                                                                  *)
(***************************************************************************)
AtStep(r, kind) ==
    /\ phase[r] = "walking" /\ ~late[r] /\ at[r] <= Len(Prog(r)) /\ Step(r).kind = kind

Advance(r, n) == at' = [at EXCEPT ![r] = @ + n]

(* A condition that does not hold skips the step, and an "if" its branch. *)
SkipStep(r) ==
    /\ phase[r] = "walking" /\ ~late[r] /\ at[r] <= Len(Prog(r))
    /\ Advance(r, 1 + Step(r).span)
    /\ UNCHANGED <<event, phase, failed, late, thread, calls,
                   activeSandboxWorkers, scriptExecutions, scriptErrors>>

(* A delay has been waited out, a counter of the bot incremented (the counters *)
(* themselves are left out), or the condition of an "if" holds.                *)
PlainStep(r) ==
    /\ \E kind \in {"if", "delay", "count"} : AtStep(r, kind)
    /\ Advance(r, 1)
    /\ UNCHANGED <<event, phase, failed, late, thread, calls,
                   activeSandboxWorkers, scriptExecutions, scriptErrors>>

(* A step that throws marks the run and the chain goes on. *)
SendStep(r) ==
    /\ AtStep(r, "send") /\ Advance(r, 1)
    /\ \E ok \in BOOLEAN : failed' = [failed EXCEPT ![r] = @ \/ ~ok]
    /\ UNCHANGED <<event, phase, late, thread, calls,
                   activeSandboxWorkers, scriptExecutions, scriptErrors>>

(***************************************************************************)
(* Custom actions: a worker thread, its calls, and the one settlement.     *)
(***************************************************************************)
SandboxStart(r) ==
    /\ AtStep(r, "custom")
    /\ IF activeSandboxWorkers >= MaxSandboxWorkers
       THEN Advance(r, 1) /\ UNCHANGED <<phase, thread, activeSandboxWorkers>>
       ELSE /\ activeSandboxWorkers' = activeSandboxWorkers + 1
            /\ thread' = [thread EXCEPT ![Here(r)] = "alive"]
            /\ phase' = [phase EXCEPT ![r] = "sandbox"]
            /\ at' = at
    /\ UNCHANGED <<event, failed, late, calls, scriptExecutions, scriptErrors>>

(* The host takes calls only until the action has settled. *)
ThreadCalls(r) ==
    /\ phase[r] = "sandbox" /\ thread[Here(r)] = "alive" /\ calls[Here(r)] = 0
    /\ calls' = [calls EXCEPT ![Here(r)] = 1]
    /\ UNCHANGED <<event, at, phase, failed, late, thread,
                   activeSandboxWorkers, scriptExecutions, scriptErrors>>

CallReturns(th) ==
    /\ calls[th] = 1
    /\ calls' = [calls EXCEPT ![th] = 0]
    /\ UNCHANGED <<event, at, phase, failed, late, thread,
                   activeSandboxWorkers, scriptExecutions, scriptErrors>>

Settle(r, ok) ==
    /\ phase' = [phase EXCEPT ![r] = "walking"]
    /\ Advance(r, 1)
    /\ failed' = [failed EXCEPT ![r] = @ \/ ~ok]

(* The code posts its result: whichever comes first settles, and the thread is terminated. *)
ThreadPostsDone(r) ==
    /\ phase[r] = "sandbox" /\ thread[Here(r)] = "alive"
    /\ \E ok \in BOOLEAN : Settle(r, ok)
    /\ thread' = [thread EXCEPT ![Here(r)] = "dying"]
    /\ UNCHANGED <<event, late, calls, activeSandboxWorkers,
                   scriptExecutions, scriptErrors>>

SandboxTimeoutWhenIdle(r) ==
    /\ phase[r] = "sandbox" /\ calls[Here(r)] = 0
    /\ Settle(r, FALSE)
    /\ thread' = [thread EXCEPT ![Here(r)] = "dying"]
    /\ UNCHANGED <<event, late, calls, activeSandboxWorkers, scriptExecutions, scriptErrors>>
(* The 5 s timer, or the thread's error event, which settles in the same way. *)
SandboxTimeout(r) ==
    /\ phase[r] = "sandbox"
    /\ Settle(r, FALSE)
    /\ thread' = [thread EXCEPT ![Here(r)] = "dying"]
    /\ UNCHANGED <<event, late, calls, activeSandboxWorkers,
                   scriptExecutions, scriptErrors>>

(* The exit event, after terminate() or on its own. *)
ExitCountedUnlessKilled(th) ==
    IF thread[th] = "dying" THEN activeSandboxWorkers ELSE activeSandboxWorkers - 1
ExitCounted(th) == activeSandboxWorkers - 1
ThreadExits(th) ==
    /\ thread[th] \in {"alive", "dying"}
    /\ thread' = [thread EXCEPT ![th] = "gone"]
    /\ activeSandboxWorkers' = ExitCounted(th)
    /\ IF phase[th[1]] = "sandbox" /\ at[th[1]] = th[2]
       THEN Settle(th[1], FALSE)
       ELSE UNCHANGED <<phase, at, failed>>
    /\ UNCHANGED <<event, late, calls, scriptExecutions, scriptErrors>>

RunInit ==
    /\ event = [e \in Event |-> "new"]
    /\ at = [r \in Run |-> 0] /\ phase = [r \in Run |-> "off"]
    /\ failed = [r \in Run |-> FALSE] /\ late = [r \in Run |-> FALSE]
    /\ thread = [th \in Thread |-> "none"] /\ calls = [th \in Thread |-> 0]
    /\ activeSandboxWorkers = 0 /\ scriptExecutions = 0 /\ scriptErrors = 0

Walk(r) == \/ SendStep(r) \/ PlainStep(r) \/ SkipStep(r)
           \/ SandboxStart(r) \/ EndOfActions(r)

RunNext ==
    \/ \E e \in Event : Execute(e) \/ ManualTest(e) \/ ExecutionCounted(e)
    \/ \E r \in Run : \/ Walk(r) \/ DeadlinePasses(r) \/ ThreadCalls(r) \/ ThreadPostsDone(r)
                      \/ SandboxTimeout(r)
    \/ \E th \in Thread : CallReturns(th) \/ ThreadExits(th)

(* Timers fire, terminated threads exit, and the event loop takes a ready   *)
(* step.  The code in a thread is owed nothing: it may never post or return. *)
(* No such step can be taken for ever, so fairness to them together will do. *)
Progress ==
    \/ \E e \in Event : ExecutionCounted(e)
    \/ \E r \in Run : Walk(r) \/ SandboxTimeout(r)
    \/ \E th \in Thread : thread[th] = "dying" /\ ThreadExits(th)

RunFairness == WF_runVars(Progress)

RunSpec == RunInit /\ [][RunNext]_runVars /\ RunFairness

(***************************************************************************)
(* Properties.                                                             *)
(***************************************************************************)
(* The thread counter that the cap and the heartbeat read is the number of *)
(* threads that have not exited, on every path a thread can end by, and    *)
(* never passes the cap; and a thread runs unterminated exactly as long as *)
(* its run waits for it, so that a settled action leaves nothing running.  *)
Live == {th \in Thread : thread[th] \in {"alive", "dying"}}
SandboxSound ==
    /\ RunTypeOK
    /\ activeSandboxWorkers = Cardinality(Live) /\ activeSandboxWorkers <= MaxSandboxWorkers
    /\ \A th \in Thread : thread[th] = "alive" <=> phase[th[1]] = "sandbox" /\ at[th[1]] = th[2]

(* Every event that started scripts is finished and counted, though custom *)
(* code may loop for ever, and every thread it started is given back.      *)
ScriptsFinish == []<>(Live = {} /\ \A e \in Event : event[e] \notin {"running", "testing"})
=============================================================================
