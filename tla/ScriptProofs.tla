---------------------------- MODULE ScriptProofs ----------------------------
(***************************************************************************)
(* Proofs about the script engine: the runs and their sandboxes, the       *)
(* registry of scripts with its cooldowns, and the limits of a config.     *)
(***************************************************************************)
EXTENDS ScriptRun, ScriptRegistry, ScriptConfig, FiniteSetTheorems, SequenceTheorems,
        WellFoundedInduction, TLAPS

-----------------------------------------------------------------------------
(***************************************************************************)
(* For any scripts, events and cap: the number of sandbox threads that the *)
(* engine counts is the number that have not exited, and a thread runs     *)
(* unterminated exactly while its run waits for it.  The argument: a run   *)
(* passes each of its steps once, so that the thread of a step that is yet *)
(* to come was never started and the one of a step that is past has been   *)
(* told to end; and each of the ways in which a thread ends (its result,   *)
(* the timer, an exit of its own) settles its run in the same step.        *)
(***************************************************************************)

RunsTyped ==
    /\ event \in [Event -> {"new", "running", "testing", "done"}]
    /\ at \in [Run -> 0..(MaxSteps + 1)]
    /\ phase \in [Run -> {"off", "walking", "sandbox", "ending", "over"}]
    /\ failed \in [Run -> BOOLEAN] /\ late \in [Run -> BOOLEAN]
    /\ thread \in [Thread -> {"none", "alive", "dying", "gone"}]
    /\ calls \in [Thread -> 0..1]
    /\ scriptExecutions \in Nat /\ scriptErrors \in Nat

(* An event that nobody has taken has no run, a run that walks or waits is *)
(* in its chain.                                                           *)
InChain ==
    /\ \A e \in Event, s \in ScriptId : event[e] = "new" => at[<<e, s>>] = 0 /\ phase[<<e, s>>] = "off"
    /\ \A r \in Run : /\ phase[r] \in {"walking", "sandbox"} => at[r] >= 1
                      /\ phase[r] = "sandbox" => at[r] <= Len(Prog(r))

(* Only a step that was taken has had a thread.                            *)
UsedOnce ==
    \A th \in Thread : thread[th] # "none" =>
        th[2] < at[th[1]] \/ (th[2] = at[th[1]] /\ phase[th[1]] = "sandbox")

Mirrored == \A th \in Thread : thread[th] = "alive" <=> phase[th[1]] = "sandbox" /\ at[th[1]] = th[2]

Counted ==
    /\ IsFiniteSet(Live) /\ activeSandboxWorkers = Cardinality(Live)
    /\ activeSandboxWorkers <= MaxSandboxWorkers

RunInv == RunsTyped /\ InChain /\ UsedOnce /\ Mirrored /\ Counted

LEMMA ElementType ==
    ASSUME NEW S, NEW seq \in Seq(S), NEW i \in 1..Len(seq)
    PROVE  seq[i] \in S
OBVIOUS

(* A chain and a place in it.                                              *)
LEMMA ChainType ==
    ASSUME RunsTyped, NEW r \in Run
    PROVE  /\ Len(Prog(r)) \in Nat /\ Len(Prog(r)) <= MaxSteps
           /\ at[r] \in Nat
           /\ at[r] >= 1 /\ at[r] <= Len(Prog(r)) =>
                  /\ Here(r) \in Thread /\ Here(r)[1] = r /\ Here(r)[2] = at[r]
                  /\ Step(r).span \in Nat /\ at[r] + 1 + Step(r).span <= MaxSteps + 1
<1>1. r[2] \in ScriptId
  BY DEF Run
<1>2. Prog(r) \in Seq([kind : {"send", "count", "delay", "custom", "if"}, span : Nat])
  BY <1>1, RunAssumption DEF Prog
<1>3. Len(Prog(r)) \in Nat /\ Len(Prog(r)) <= MaxSteps /\ at[r] \in Nat
  BY <1>1, <1>2, RunAssumption DEF Prog, RunsTyped
<1>4. ASSUME at[r] >= 1, at[r] <= Len(Prog(r))
      PROVE  /\ Here(r) \in Thread /\ Here(r)[1] = r /\ Here(r)[2] = at[r]
             /\ Step(r).span \in Nat /\ at[r] + 1 + Step(r).span <= MaxSteps + 1
  <2>1. at[r] \in 1..Len(Prog(r)) /\ at[r] \in 1..MaxSteps
    BY <1>3, <1>4, RunAssumption
  <2>2. Step(r) \in [kind : {"send", "count", "delay", "custom", "if"}, span : Nat]
    BY <1>2, <2>1, ElementType DEF Step
  <2>3. at[r] + Step(r).span <= Len(Prog(r))
    BY <1>1, <2>1, RunAssumption DEF Step, Prog
  <2>4. Step(r).span \in Nat
    BY <2>2
  <2>5. at[r] + 1 + Step(r).span <= MaxSteps + 1
    BY <1>3, <2>3, <2>4, RunAssumption
  <2>6. Here(r) \in Thread /\ Here(r)[1] = r /\ Here(r)[2] = at[r]
    BY <2>1 DEF Here, Thread
  <2>. QED
    BY <2>4, <2>5, <2>6
<1>. QED
  BY <1>3, <1>4

(* A step that starts and ends no thread and moves no run that waits for   *)
(* one.                                                                    *)
LEMMA QuietStep ==
    ASSUME RunInv, RunsTyped', UNCHANGED <<thread, activeSandboxWorkers>>,
           \A r \in Run : /\ at'[r] >= at[r]
                          /\ phase'[r] = "sandbox" <=> phase[r] = "sandbox"
                          /\ phase[r] = "sandbox" => at'[r] = at[r]
    PROVE  UsedOnce' /\ Mirrored' /\ Counted'
<1>1. \A th \in Thread : th[1] \in Run /\ th[2] \in Nat
  BY RunAssumption DEF Thread
<1>2. UsedOnce'
  BY <1>1 DEF RunInv, UsedOnce, RunsTyped
<1>3. Mirrored'
  BY <1>1 DEF RunInv, Mirrored
<1>4. Counted'
  BY DEF RunInv, Counted, Live
<1>. QED
  BY <1>2, <1>3, <1>4

(* A thread that ends, or is told to, while its run settles or has settled.*)
LEMMA EndingStep ==
    ASSUME RunInv, RunsTyped', NEW th \in Thread, thread[th] \in {"alive", "dying"},
           NEW left \in {"dying", "gone"}, thread' = [thread EXCEPT ![th] = left],
           \A r \in Run \ {th[1]} : at'[r] = at[r] /\ phase'[r] = phase[r],
           IF thread[th] = "alive" THEN at'[th[1]] = at[th[1]] + 1 /\ phase'[th[1]] = "walking"
           ELSE at'[th[1]] = at[th[1]] /\ phase'[th[1]] = phase[th[1]]
    PROVE  UsedOnce' /\ Mirrored'
<1>1. \A x \in Thread : x[1] \in Run /\ x[2] \in Nat
  BY RunAssumption DEF Thread
<1>2. \A x \in Thread : thread'[x] = IF x = th THEN left ELSE thread[x]
  BY DEF RunInv, RunsTyped
<1>3. \A x \in Thread : x[1] = th[1] /\ x[2] = th[2] => x = th
  BY DEF Thread
<1>4. UsedOnce'
  BY <1>1, <1>2 DEF RunInv, UsedOnce, Mirrored, RunsTyped
<1>5. Mirrored'
  BY <1>1, <1>2, <1>3 DEF RunInv, UsedOnce, Mirrored, RunsTyped
<1>. QED
  BY <1>4, <1>5

(* The threads there are, when one starts, is told to end, or exits.       *)
LEMMA LiveChanges ==
    ASSUME RunsTyped, NEW th \in Thread, NEW state, thread' = [thread EXCEPT ![th] = state]
    PROVE  Live' = IF state \in {"alive", "dying"} THEN Live \cup {th} ELSE Live \ {th}
BY DEF Live, RunsTyped

LEMMA LiveFalls ==
    ASSUME RunsTyped, Counted, NEW th \in Thread, thread[th] \in {"alive", "dying"},
           thread' = [thread EXCEPT ![th] = "gone"], activeSandboxWorkers' = activeSandboxWorkers - 1
    PROVE  Counted'
<1>1. Live' = Live \ {th} /\ th \in Live
  BY LiveChanges DEF Live
<1>2. IsFiniteSet(Live') /\ Cardinality(Live') = Cardinality(Live) - 1
  BY <1>1, FS_RemoveElement DEF Counted
<1>3. activeSandboxWorkers \in Nat
  BY FS_CardinalityType DEF Counted
<1>. QED
  BY <1>2, <1>3, RunAssumption DEF Counted

(* The types, the places in the chains and what each step does to threads. *)
LEMMA RunStep == RunInv /\ [RunNext]_runVars => RunInv'
<1>. SUFFICES ASSUME RunInv, [RunNext]_runVars
              PROVE  RunInv'
  OBVIOUS
<1>. USE DEF RunInv
<1>1. ASSUME NEW e \in Event, Execute(e) \/ ManualTest(e)
      PROVE  RunInv'
  <2>1. event[e] = "new" /\ event'[e] \in {"running", "testing"}
    BY <1>1 DEF Execute, ManualTest, RunsTyped
  <2>2. \E started \in SUBSET ScriptId :
            /\ at' = [r \in Run |-> IF r[1] = e /\ r[2] \in started THEN 1 ELSE at[r]]
            /\ phase' = [r \in Run |-> IF r[1] = e THEN IF r[2] \in started THEN "walking" ELSE "over"
                                       ELSE phase[r]]
    <3>1. CASE Execute(e)
      BY <3>1 DEF Execute
    <3>2. CASE ManualTest(e)
      <4>1. PICK s \in ScriptId :
                /\ at' = [at EXCEPT ![<<e, s>>] = 1]
                /\ phase' = [r \in Run |-> IF r[1] = e THEN IF r[2] = s THEN "walking" ELSE "over"
                                           ELSE phase[r]]
        BY <3>2 DEF ManualTest
      <4>2. \A r \in Run : r = <<e, s>> <=> r[1] = e /\ r[2] \in {s}
        BY DEF Run
      <4>3. at' = [r \in Run |-> IF r[1] = e /\ r[2] \in {s} THEN 1 ELSE at[r]]
        BY <4>1, <4>2 DEF RunsTyped
      <4>4. phase' = [r \in Run |-> IF r[1] = e THEN IF r[2] \in {s} THEN "walking" ELSE "over"
                                   ELSE phase[r]]
        BY <4>1
      <4>. QED
        BY <4>3, <4>4
    <3>. QED
      BY <1>1, <3>1, <3>2
  <2>3. RunsTyped'
    <3>1. at' \in [Run -> 0..(MaxSteps + 1)]
      BY <2>2, RunAssumption DEF RunsTyped
    <3>2. phase' \in [Run -> {"off", "walking", "sandbox", "ending", "over"}]
      BY <2>2 DEF RunsTyped
    <3>3. /\ event' \in [Event -> {"new", "running", "testing", "done"}]
          /\ UNCHANGED <<failed, late, thread, calls, scriptExecutions, scriptErrors>>
      BY <1>1 DEF Execute, ManualTest, RunsTyped
    <3>. QED
      BY <3>1, <3>2, <3>3 DEF RunsTyped
  <2>4. \A r \in Run : r[1] = e => at[r] = 0 /\ phase[r] = "off"
    BY <2>1 DEF InChain, Run
  <2>5. \A r \in Run : \/ r[1] # e /\ at'[r] = at[r] /\ phase'[r] = phase[r]
                       \/ r[1] = e /\ at'[r] = at[r] /\ phase'[r] = "over"
                       \/ r[1] = e /\ at'[r] = 1 /\ phase'[r] = "walking"
    BY <2>2
  <2>6. InChain'
    <3>1. \A d \in Event, s \in ScriptId : event'[d] = "new" =>
              at'[<<d, s>>] = 0 /\ phase'[<<d, s>>] = "off"
      <4>1. \A d \in Event : event'[d] = "new" => event[d] = "new" /\ d # e
        BY <1>1, <2>1 DEF Execute, ManualTest, RunsTyped
      <4>2. \A d \in Event, s \in ScriptId : <<d, s>> \in Run /\ <<d, s>>[1] = d
        BY DEF Run
      <4>. QED
        BY <2>5, <4>1, <4>2 DEF InChain
    <3>2. \A r \in Run : /\ phase'[r] \in {"walking", "sandbox"} => at'[r] >= 1
                         /\ phase'[r] = "sandbox" => at'[r] <= Len(Prog(r))
      BY <2>5 DEF InChain
    <3>. QED
      BY <3>1, <3>2 DEF InChain, Prog
  <2>7. UsedOnce' /\ Mirrored' /\ Counted'
    <3>1. UNCHANGED <<thread, activeSandboxWorkers>>
      BY <1>1 DEF Execute, ManualTest
    <3>2. \A r \in Run : at[r] \in Nat
      BY ChainType
    <3>. QED
      <4>1. \A r \in Run : /\ at'[r] >= at[r]
                           /\ phase'[r] = "sandbox" <=> phase[r] = "sandbox"
                           /\ phase[r] = "sandbox" => at'[r] = at[r]
        BY <2>4, <2>5, <3>2
      <4>. QED
        BY <2>3, <3>1, <4>1, QuietStep
  <2>. QED
    BY <2>3, <2>6, <2>7
<1>2. ASSUME NEW e \in Event, ExecutionCounted(e)
      PROVE  RunInv'
  <2>1. RunsTyped'
    BY <1>2 DEF ExecutionCounted, RunsTyped
  <2>2. InChain'
    BY <1>2 DEF ExecutionCounted, RunsTyped, InChain, Prog
  <2>3. UsedOnce' /\ Mirrored' /\ Counted'
    BY <1>2, <2>1, QuietStep DEF ExecutionCounted, RunsTyped
  <2>. QED
    BY <2>1, <2>2, <2>3
<1>3. ASSUME NEW r \in Run, DeadlinePasses(r) \/ EndOfActions(r) \/ ThreadCalls(r)
      PROVE  RunInv'
  <2>1. RunsTyped'
    <3>1. CASE DeadlinePasses(r)
      BY <3>1 DEF DeadlinePasses, RunsTyped
    <3>2. CASE EndOfActions(r)
      <4>1. scriptErrors' \in Nat
        BY <3>2 DEF EndOfActions, RunsTyped
      <4>2. failed' \in [Run -> BOOLEAN] /\ late' = late
        BY <3>2 DEF EndOfActions, RunsTyped
      <4>. QED
        BY <3>2, <4>1, <4>2 DEF EndOfActions, RunsTyped
    <3>3. CASE ThreadCalls(r)
      <4>1. calls' \in [Thread -> 0..1]
        <5>1. calls' = [calls EXCEPT ![Here(r)] = 1] /\ 1 \in 0..1
          BY <3>3 DEF ThreadCalls
        <5>. QED
          BY <5>1 DEF RunsTyped
      <4>2. UNCHANGED <<event, at, phase, failed, late, thread, scriptExecutions, scriptErrors>>
        BY <3>3 DEF ThreadCalls
      <4>. QED
        BY <4>1, <4>2 DEF RunsTyped
    <3>. QED
      BY <1>3, <3>1, <3>2, <3>3
  <2>2. InChain'
    BY <1>3 DEF DeadlinePasses, EndOfActions, ThreadCalls, RunsTyped, InChain, Prog, Run
  <2>3. UsedOnce' /\ Mirrored' /\ Counted'
    BY <1>3, <2>1, QuietStep DEF DeadlinePasses, EndOfActions, ThreadCalls, RunsTyped
  <2>. QED
    BY <2>1, <2>2, <2>3
<1>4. ASSUME NEW th \in Thread, CallReturns(th)
      PROVE  RunInv'
  <2>1. RunsTyped'
    BY <1>4 DEF CallReturns, RunsTyped
  <2>2. InChain'
    BY <1>4 DEF CallReturns, InChain, Prog
  <2>3. UsedOnce' /\ Mirrored' /\ Counted'
    BY <1>4, <2>1, QuietStep DEF CallReturns, RunsTyped
  <2>. QED
    BY <2>1, <2>2, <2>3
<1>5. ASSUME NEW r \in Run, SendStep(r) \/ PlainStep(r) \/ SkipStep(r)
      PROVE  RunInv'
  <2>1. /\ phase[r] = "walking" /\ at[r] >= 1 /\ at[r] <= Len(Prog(r))
        /\ UNCHANGED <<event, phase, late, thread, calls, activeSandboxWorkers,
                       scriptExecutions, scriptErrors>>
    BY <1>5 DEF SendStep, PlainStep, SkipStep, AtStep, InChain
  <2>2. \E n \in Nat : n >= 1 /\ at[r] + n <= MaxSteps + 1 /\ at' = [at EXCEPT ![r] = @ + n]
    <3>1. at[r] + 1 <= MaxSteps + 1 /\ at[r] + (1 + Step(r).span) <= MaxSteps + 1 /\ 1 + Step(r).span \in Nat
      BY <2>1, ChainType, RunAssumption
    <3>2. Step(r).span \in Nat
      BY <2>1, ChainType
    <3>. QED
      BY <1>5, <3>1, <3>2 DEF SendStep, PlainStep, SkipStep, Advance
  <2>3. failed' \in [Run -> BOOLEAN]
    BY <1>5 DEF SendStep, PlainStep, SkipStep, RunsTyped
  <2>4. PICK n \in Nat : n >= 1 /\ at[r] + n <= MaxSteps + 1 /\ at' = [at EXCEPT ![r] = @ + n]
    BY <2>2
  <2>5. at[r] + n \in 0..(MaxSteps + 1)
    BY <2>4, ChainType, RunAssumption
  <2>6. RunsTyped'
    BY <2>1, <2>3, <2>4, <2>5 DEF RunsTyped
  <2>7. /\ at'[r] >= at[r] /\ at'[r] >= 1
        /\ \A q \in Run \ {r} : at'[q] = at[q]
    BY <2>1, <2>4, ChainType DEF RunsTyped
  <2>8. InChain'
    BY <2>1, <2>7 DEF InChain, Prog, Run
  <2>9. \A q \in Run : at'[q] >= at[q]
    BY <2>7, ChainType
  <2>10. UsedOnce' /\ Mirrored' /\ Counted'
    BY <2>1, <2>6, <2>7, <2>9, QuietStep
  <2>. QED
    BY <2>6, <2>8, <2>10
<1>6. ASSUME NEW r \in Run, SandboxStart(r)
      PROVE  RunInv'
  <2>1. /\ phase[r] = "walking" /\ at[r] >= 1 /\ at[r] <= Len(Prog(r))
    BY <1>6 DEF SandboxStart, AtStep, InChain
  <2>2. /\ Here(r) \in Thread /\ Here(r)[1] = r /\ Here(r)[2] = at[r] /\ at[r] \in Nat
        /\ at[r] + 1 \in 0..(MaxSteps + 1)
    BY <2>1, ChainType, RunAssumption
  <2>3. CASE activeSandboxWorkers >= MaxSandboxWorkers
    <3>1. at' = [at EXCEPT ![r] = @ + 1] /\ UNCHANGED <<phase, thread, activeSandboxWorkers>>
      BY <1>6, <2>3 DEF SandboxStart, Advance
    <3>2. RunsTyped'
      BY <1>6, <2>2, <3>1 DEF SandboxStart, RunsTyped
    <3>3. at'[r] = at[r] + 1 /\ \A q \in Run \ {r} : at'[q] = at[q]
      BY <3>1 DEF RunsTyped
    <3>4. InChain'
      BY <1>6, <2>1, <2>2, <3>1, <3>3 DEF SandboxStart, InChain, Prog, Run
    <3>5. \A q \in Run : at'[q] >= at[q]
      BY <2>2, <3>3, ChainType
    <3>6. UsedOnce' /\ Mirrored' /\ Counted'
      BY <2>1, <3>1, <3>2, <3>3, <3>5, QuietStep
    <3>. QED
      BY <3>2, <3>4, <3>6
  <2>4. CASE ~(activeSandboxWorkers >= MaxSandboxWorkers)
    <3>1. /\ thread' = [thread EXCEPT ![Here(r)] = "alive"] /\ phase' = [phase EXCEPT ![r] = "sandbox"]
          /\ at' = at /\ activeSandboxWorkers' = activeSandboxWorkers + 1
      BY <1>6, <2>4 DEF SandboxStart
    <3>2. RunsTyped'
      BY <1>6, <2>2, <3>1 DEF SandboxStart, RunsTyped
    <3>3. InChain'
      BY <1>6, <2>1, <3>1 DEF SandboxStart, InChain, Prog, Run, RunsTyped
    <3>4. thread[Here(r)] = "none"
      BY <2>1, <2>2 DEF UsedOnce
    <3>5. \A x \in Thread : /\ x[1] \in Run /\ x[2] \in Nat
                            /\ x[1] = r /\ x[2] = at[r] => x = Here(r)
      BY RunAssumption DEF Thread, Here
    <3>6. UsedOnce'
      BY <2>1, <2>2, <3>1, <3>5 DEF UsedOnce, RunsTyped
    <3>7. Mirrored'
      BY <2>1, <2>2, <3>1, <3>5 DEF Mirrored, RunsTyped
    <3>8. Live' = Live \cup {Here(r)} /\ Here(r) \notin Live
      BY <2>2, <3>1, <3>4, LiveChanges DEF Live
    <3>9. Counted'
      <4>1. IsFiniteSet(Live') /\ Cardinality(Live') = Cardinality(Live) + 1
        BY <3>8, FS_AddElement DEF Counted
      <4>2. activeSandboxWorkers \in Nat
        BY FS_CardinalityType DEF Counted
      <4>. QED
        BY <2>4, <3>1, <4>1, <4>2, RunAssumption DEF Counted
    <3>. QED
      BY <3>2, <3>3, <3>6, <3>7, <3>9
  <2>. QED
    BY <2>3, <2>4
<1>7. ASSUME NEW r \in Run, ThreadPostsDone(r) \/ SandboxTimeout(r)
      PROVE  RunInv'
  <2>1. /\ phase[r] = "sandbox" /\ at[r] >= 1 /\ at[r] <= Len(Prog(r))
        /\ UNCHANGED <<event, late, calls, activeSandboxWorkers, scriptExecutions, scriptErrors>>
    BY <1>7 DEF ThreadPostsDone, SandboxTimeout, InChain
  <2>2. /\ Here(r) \in Thread /\ Here(r)[1] = r /\ Here(r)[2] = at[r] /\ at[r] \in Nat
        /\ at[r] + 1 \in 0..(MaxSteps + 1)
    BY <2>1, ChainType, RunAssumption
  <2>3. PICK ok \in BOOLEAN : Settle(r, ok)
    BY <1>7 DEF ThreadPostsDone, SandboxTimeout
  <2>4. /\ phase' = [phase EXCEPT ![r] = "walking"] /\ at' = [at EXCEPT ![r] = @ + 1]
        /\ failed' = [failed EXCEPT ![r] = @ \/ ~ok]
    BY <2>3 DEF Settle, Advance
  <2>5. thread' = [thread EXCEPT ![Here(r)] = "dying"] /\ thread[Here(r)] = "alive"
    BY <1>7, <2>1, <2>2 DEF ThreadPostsDone, SandboxTimeout, Mirrored
  <2>6. RunsTyped'
    BY <2>1, <2>2, <2>4, <2>5 DEF RunsTyped
  <2>7. InChain'
    BY <2>1, <2>2, <2>4 DEF InChain, Prog, Run, RunsTyped
  <2>8. UsedOnce' /\ Mirrored'
    <3>1. \A q \in Run \ {r} : at'[q] = at[q] /\ phase'[q] = phase[q]
      BY <2>4 DEF RunsTyped
    <3>2. at'[r] = at[r] + 1 /\ phase'[r] = "walking"
      BY <2>4 DEF RunsTyped
    <3>. QED
      BY <2>2, <2>5, <2>6, <3>1, <3>2, EndingStep
  <2>9. Live' = Live
    BY <2>2, <2>5, LiveChanges DEF Live
  <2>10. Counted'
    BY <2>1, <2>9 DEF Counted
  <2>. QED
    BY <2>6, <2>7, <2>8, <2>10
<1>8. ASSUME NEW th \in Thread, ThreadExits(th)
      PROVE  RunInv'
  <2>. DEFINE r == th[1]
  <2>1. /\ r \in Run /\ th[2] \in Nat /\ thread[th] \in {"alive", "dying"}
        /\ thread' = [thread EXCEPT ![th] = "gone"] /\ activeSandboxWorkers' = activeSandboxWorkers - 1
        /\ UNCHANGED <<event, late, calls, scriptExecutions, scriptErrors>>
    BY <1>8, RunAssumption DEF ThreadExits, ExitCounted, Thread
  <2>2. CASE thread[th] = "alive"
    <3>1. phase[r] = "sandbox" /\ at[r] = th[2]
      BY <2>2 DEF Mirrored
    <3>2. /\ phase' = [phase EXCEPT ![r] = "walking"] /\ at' = [at EXCEPT ![r] = @ + 1]
          /\ failed' = [failed EXCEPT ![r] = TRUE]
      BY <1>8, <3>1 DEF ThreadExits, Settle, Advance, RunsTyped
    <3>3. at[r] >= 1 /\ at[r] \in Nat /\ at[r] + 1 \in 0..(MaxSteps + 1)
      BY <2>1, <3>1, ChainType, RunAssumption DEF InChain
    <3>4. RunsTyped'
      BY <2>1, <3>2, <3>3 DEF RunsTyped
    <3>5. InChain'
      BY <2>1, <3>1, <3>2, <3>3 DEF InChain, Prog, Run, RunsTyped
    <3>6. UsedOnce' /\ Mirrored'
      <4>1. \A q \in Run \ {r} : at'[q] = at[q] /\ phase'[q] = phase[q]
        BY <3>2 DEF RunsTyped
      <4>2. at'[r] = at[r] + 1 /\ phase'[r] = "walking"
        BY <2>1, <3>2 DEF RunsTyped
      <4>. QED
        BY <2>1, <2>2, <3>4, <4>1, <4>2, EndingStep
    <3>. QED
      BY <3>4, <3>5, <3>6, <2>1, LiveFalls
  <2>3. CASE thread[th] = "dying"
    <3>1. ~(phase[r] = "sandbox" /\ at[r] = th[2])
      BY <2>3 DEF Mirrored
    <3>2. UNCHANGED <<phase, at, failed>>
      BY <1>8, <3>1 DEF ThreadExits
    <3>3. RunsTyped'
      BY <2>1, <3>2 DEF RunsTyped
    <3>4. InChain'
      BY <2>1, <3>2 DEF InChain, Prog
    <3>5. UsedOnce' /\ Mirrored'
      BY <2>1, <2>3, <3>2, <3>3, EndingStep
    <3>. QED
      BY <3>3, <3>4, <3>5, <2>1, LiveFalls
  <2>. QED
    BY <2>1, <2>2, <2>3
<1>9. CASE UNCHANGED runVars
  BY <1>9 DEF runVars, RunsTyped, InChain, UsedOnce, Mirrored, Counted, Prog, Live
<1>. QED
  BY <1>1, <1>2, <1>3, <1>4, <1>5, <1>6, <1>7, <1>8, <1>9 DEF RunNext, Walk

(* Whatever scripts run, however their code ends or does not: the counter  *)
(* that the cap reads is the number of threads that have not exited and    *)
(* never passes the cap, and a settled action leaves no thread running.    *)
THEOREM SandboxKept == RunSpec => []SandboxSound
<1>1. RunInit => RunInv
  <2>. SUFFICES ASSUME RunInit
                PROVE  RunInv
    OBVIOUS
  <2>1. RunsTyped
    BY RunAssumption DEF RunInit, RunsTyped
  <2>2. InChain /\ UsedOnce /\ Mirrored
    BY DEF RunInit, InChain, UsedOnce, Mirrored, Run, Thread
  <2>3. Live = {}
    BY DEF RunInit, Live
  <2>4. Counted
    BY <2>3, FS_EmptySet, RunAssumption DEF RunInit, Counted
  <2>. QED
    BY <2>1, <2>2, <2>4 DEF RunInv
<1>2. RunInv => SandboxSound
  BY FS_CardinalityType DEF RunInv, RunsTyped, Mirrored, Counted, SandboxSound, RunTypeOK
<1>. QED
  BY <1>1, <1>2, RunStep, PTL DEF RunSpec

-----------------------------------------------------------------------------
(***************************************************************************)
(* ScriptRegistry: what is registered, and the cooldowns. A bot that       *)
(* nobody disturbs has, once no reload of it runs or waits, exactly its    *)
(* enabled scripts. The argument: of two reloads of a bot at once neither  *)
(* is alone; one that is alone has found nothing of the bot registered     *)
(* and, while no message about the bot waits, holds the answer that the    *)
(* table would give now; so what it registers is right when it ends. The   *)
(* index names what is registered because each change of the one changes   *)
(* the other. A cooldown is never older than the last firing of its        *)
(* script.                                                                 *)
(***************************************************************************)

(* The keys of a bot in a set of keys.                                     *)
KeysOf(keys, b) == {k \in keys : k.bot = b}

(* A reload of the bot is called for and has not begun.                    *)
Announced(b, messages) == \E i \in DOMAIN messages : messages[i] = {} \/ b \in messages[i]
Waiting(b) == Announced(b, bus) \/ \E l \in Reload : b \in reload[l].todo

(* Only a reload of one bot leaves others for later.                       *)
IdleAtRest ==
    \A l \in Reload : reload[l].phase = "idle" \/ reload[l].bot = NoBot => reload[l].todo = {}

(* Of two reloads of a bot at once neither is alone.                       *)
AloneIsAlone ==
    \A l, m \in Reload : \A b \in Bot :
        l # m /\ Touches(reload[l], b) /\ Touches(reload[m], b) => ~reload[l].alone

(* A reload brings keys of its own bot; while it is alone and nothing      *)
(* waits, what its query has answered is still what the table says.        *)
AnswersOwn ==
    \A l \in Reload : reload[l].phase = "answered" /\ reload[l].bot # NoBot =>
        \A k \in reload[l].got : k.bot = reload[l].bot
AnswersFresh ==
    \A l \in Reload : \A b \in Bot :
        reload[l].phase = "answered" /\ Touches(reload[l], b) /\ reload[l].alone /\ ~Waiting(b)
            => KeysOf(reload[l].got, b) = Enabled(b)

(* A reload of one bot that is alone finds nothing of it registered.       *)
Emptied ==
    \A l \in Reload : \A b \in Bot :
        reload[l].phase # "idle" /\ reload[l].bot = b /\ reload[l].alone => KeysOf(scripts, b) = {}

(* An undisturbed bot that nobody reloads has its scripts.                 *)
Settles ==
    \A b \in Bot \ disturbed :
        ~Waiting(b) /\ (\A l \in Reload : ~Touches(reload[l], b)) => KeysOf(scripts, b) = Enabled(b)

ReloadsInv == IdleAtRest /\ AloneIsAlone /\ AnswersOwn /\ AnswersFresh
RegInv == RegTypeOK /\ IndexAgrees /\ ReloadsInv /\ Emptied /\ Settles

(* A firing with a cooldown has taken it, no later than now.               *)
CooldownInv ==
    \A k \in Key :
        /\ lastFiring[k] <= now /\ cooldowns[k] <= now
        /\ lastFiring[k] # -1 /\ Cooldown[k.id] > 0 => lastFiring[k] <= cooldowns[k]

-----------------------------------------------------------------------------
(* The messages on the bus.                                                *)
LEMMA AnnouncedAppend ==
    ASSUME NEW q \in Seq(SUBSET Bot), NEW x \in SUBSET Bot, NEW b
    PROVE  Announced(b, Append(q, x)) <=> Announced(b, q) \/ x = {} \/ b \in x
<1>1. /\ DOMAIN Append(q, x) = 1..(Len(q) + 1) /\ DOMAIN q = 1..Len(q) /\ Len(q) \in Nat
      /\ \A i \in 1..Len(q) : Append(q, x)[i] = q[i]
      /\ Append(q, x)[Len(q) + 1] = x
    OBVIOUS
<1> QED BY <1>1 DEF Announced

LEMMA AnnouncedTail ==
    ASSUME NEW q \in Seq(SUBSET Bot), q # <<>>, NEW b
    PROVE  /\ Head(q) \in SUBSET Bot /\ Tail(q) \in Seq(SUBSET Bot)
           /\ Announced(b, q) <=> Head(q) = {} \/ b \in Head(q) \/ Announced(b, Tail(q))
<1>1. /\ DOMAIN Tail(q) = 1..(Len(q) - 1) /\ DOMAIN q = 1..Len(q) /\ Len(q) \in Nat \ {0}
      /\ \A i \in 1..(Len(q) - 1) : Tail(q)[i] = q[i + 1]
      /\ Head(q) = q[1]
    OBVIOUS
<1>2. \A i \in 1..Len(q) : i = 1 \/ (i - 1 \in 1..(Len(q) - 1) /\ (i - 1) + 1 = i)
    BY <1>1
<1>3. Announced(b, q) => Head(q) = {} \/ b \in Head(q) \/ Announced(b, Tail(q))
    <2> SUFFICES ASSUME NEW i \in 1..Len(q), q[i] = {} \/ b \in q[i], i # 1
                 PROVE  Announced(b, Tail(q))
        BY <1>1 DEF Announced
    <2>1. i - 1 \in DOMAIN Tail(q) /\ Tail(q)[i - 1] = q[i]
        BY <1>1, <1>2
    <2> QED BY <2>1 DEF Announced
<1>4. Head(q) = {} \/ b \in Head(q) \/ Announced(b, Tail(q)) => Announced(b, q)
    <2>1. 1 \in DOMAIN q /\ \A i \in DOMAIN Tail(q) : i + 1 \in DOMAIN q
        BY <1>1
    <2> QED BY <1>1, <2>1 DEF Announced
<1> QED BY <1>3, <1>4

(* The index of a set of keys that grows.                                  *)
LEMMA RegisterIndex ==
    ASSUME NEW keys, NEW new, Register(keys, RebuildIndex(keys), new)
    PROVE  IndexAgrees'
<1>1. \A bt \in Bot \X Trigger :
          RebuildIndex(keys)[bt] \cup {k.id : k \in {x \in new : x.bot = bt[1] /\ x.trig = bt[2]}}
              = {k.id : k \in {x \in keys \cup new : x.bot = bt[1] /\ x.trig = bt[2]}}
    BY DEF RebuildIndex
<1>2. byTrigger' = [bt \in Bot \X Trigger |->
          {k.id : k \in {x \in keys \cup new : x.bot = bt[1] /\ x.trig = bt[2]}}]
    BY <1>1 DEF Register
<1> QED BY <1>2 DEF IndexAgrees, RebuildIndex, Register

LEMMA IndexType ==
    ASSUME NEW keys \in SUBSET Key
    PROVE  RebuildIndex(keys) \in [Bot \X Trigger -> SUBSET Script]
BY DEF RebuildIndex, Key

(* What the table enables.                                                 *)
LEMMA EnabledKeys ==
    ASSUME RegTypeOK, NEW b \in Bot
    PROVE  Enabled(b) \in SUBSET Key /\ (\A k \in Enabled(b) : k.bot = b)
           /\ EnabledAll \in SUBSET Key /\ KeysOf(EnabledAll, b) = Enabled(b)
           /\ KeysOf(Enabled(b), b) = Enabled(b)
<1>1. \A c \in Bot : Enabled(c) \in SUBSET Key /\ \A k \in Enabled(c) : k.bot = c
    BY RegistryAssumption DEF Enabled, ScriptKey, Key, RegTypeOK, Row
<1> QED BY <1>1 DEF EnabledAll, KeysOf

LEMMA EnabledSame ==
    ASSUME NEW b, \A s \in Script : BotOf[s] = b => rows'[s] = rows[s]
    PROVE  Enabled(b)' = Enabled(b)
BY DEF Enabled, ScriptKey

-----------------------------------------------------------------------------
(* A reload that finds another at work on its bot, and one that begins.    *)
Named(b) == IF b = NoBot THEN Bot ELSE {b}

(* Tasks that are what they were, but for the ones that are alone no more. *)
Kept(m) == /\ reload'[m].phase = reload[m].phase /\ reload'[m].bot = reload[m].bot
           /\ reload'[m].todo = reload[m].todo /\ reload'[m].got = reload[m].got
           /\ reload'[m].alone => reload[m].alone
KeptBut(m, bots) ==
    Kept(m) /\ (reload'[m].alone => \A b \in bots : ~Touches(reload[m], b))

LEMMA NotAloneKeeps ==
    ASSUME RegTypeOK, NEW bots
    PROVE  /\ NotAlone(bots) \in [Reload -> ReloadTask]
           /\ \A m \in Reload :
                LET t == NotAlone(bots)[m]
                IN  /\ t.phase = reload[m].phase /\ t.bot = reload[m].bot
                    /\ t.todo = reload[m].todo /\ t.got = reload[m].got
                    /\ t.alone => reload[m].alone /\ \A b \in bots : ~Touches(reload[m], b)
<1>1. reload \in [Reload -> ReloadTask]
    BY DEF RegTypeOK
<1>2. ASSUME NEW m \in Reload
      PROVE  LET t == NotAlone(bots)[m]
             IN  /\ t \in ReloadTask /\ t.phase = reload[m].phase /\ t.bot = reload[m].bot
                 /\ t.todo = reload[m].todo /\ t.got = reload[m].got
                 /\ t.alone => reload[m].alone /\ \A b \in bots : ~Touches(reload[m], b)
    <2>1. reload[m] \in ReloadTask
        BY <1>1
    <2>2. CASE \E b \in bots : Touches(reload[m], b)
        BY <2>1, <2>2 DEF NotAlone, ReloadTask
    <2>3. CASE ~\E b \in bots : Touches(reload[m], b)
        BY <2>1, <2>3 DEF NotAlone
    <2> QED BY <2>2, <2>3
<1> QED BY <1>2 DEF NotAlone

LEMMA AskKeeps ==
    ASSUME RegTypeOK, NEW l \in Reload, NEW b \in Bot \cup {NoBot}, NEW todo \in SUBSET Bot,
           Ask(l, b, todo)
    PROVE  /\ reload' \in [Reload -> ReloadTask]
           /\ reload'[l].phase = "asked" /\ reload'[l].bot = b /\ reload'[l].todo = todo
           /\ reload'[l].alone =>
                \A m \in Reload \ {l} : \A c \in Named(b) : ~Touches(reload[m], c)
           /\ \A m \in Reload \ {l} : KeptBut(m, Named(b))
<1> DEFINE clash == \E m \in Reload \ {l} : \E c \in Named(b) : Touches(reload[m], c)
           lone == ~clash
           task == [phase |-> "asked", bot |-> b, todo |-> todo, got |-> {}, alone |-> lone]
<1>1. reload' = [NotAlone(Named(b)) EXCEPT ![l] = task]
    BY DEF Ask, Named
<1>2. lone \in BOOLEAN /\ (lone => ~clash)
    OBVIOUS
<1> HIDE DEF lone, clash
<1>3. task \in ReloadTask
    BY <1>2 DEF ReloadTask
<1>4. task.phase = "asked" /\ task.bot = b /\ task.todo = todo /\ task.alone = lone
    OBVIOUS
<1> HIDE DEF task
<1>5. reload'[l] = task /\ \A m \in Reload \ {l} : reload'[m] = NotAlone(Named(b))[m]
    BY <1>1, NotAloneKeeps
<1>6. reload' \in [Reload -> ReloadTask]
    BY <1>1, <1>3, NotAloneKeeps
<1>7. \A m \in Reload \ {l} : KeptBut(m, Named(b))
    BY <1>5, NotAloneKeeps DEF KeptBut, Kept
<1>8. reload'[l].alone => ~clash
    BY <1>2, <1>4, <1>5
<1>9. reload'[l].phase = "asked" /\ reload'[l].bot = b /\ reload'[l].todo = todo
    BY <1>4, <1>5
<1> QED BY <1>6, <1>7, <1>8, <1>9 DEF clash

-----------------------------------------------------------------------------
(* A change of the table.  Its bots are announced on the bus, or, if       *)
(* nobody hears it, disturbed, and the reloads that touch them not alone.  *)
Meant(bots) == IF bots = {} THEN Bot ELSE bots

LEMMA ChangeKeeps ==
    ASSUME RegInv, NEW bots \in SUBSET Bot,
           rows' \in [Script -> Row \cup {NoRow}], edits' \in 0..MaxEdits,
           \A b \in Bot \ Meant(bots) : \A s \in Script : BotOf[s] = b => rows'[s] = rows[s],
           NotifyScriptsChanged(bots), UNCHANGED <<subscribed, engineVars, now>>
    PROVE  RegInv'
<1> USE DEF RegInv, ReloadsInv, engineVars
<1>1. \A b \in Bot \ Meant(bots) : Enabled(b)' = Enabled(b)
    BY EnabledSame
<1>2. /\ Meant(bots) \subseteq Bot
      /\ reload' \in [Reload -> ReloadTask] /\ \A m \in Reload : Kept(m)
      /\ bus' \in Seq(SUBSET Bot) /\ disturbed \subseteq disturbed' /\ disturbed' \in SUBSET Bot
      /\ \A b \in Bot : ~Announced(b, bus') => ~Announced(b, bus)
      /\ \A b \in Meant(bots) :
            \/ Announced(b, bus')
            \/ b \in disturbed' /\ \A m \in Reload : Touches(reload[m], b) => ~reload'[m].alone
    <2>1. bus \in Seq(SUBSET Bot) /\ disturbed \in SUBSET Bot /\ Meant(bots) \subseteq Bot
          /\ reload \in [Reload -> ReloadTask]
        BY DEF RegTypeOK, Meant
    <2>2. CASE bus' = Append(bus, bots) /\ UNCHANGED <<reload, disturbed>>
        <3>1. \A b : Announced(b, bus') <=> Announced(b, bus) \/ bots = {} \/ b \in bots
            BY <2>1, <2>2, AnnouncedAppend
        <3>2. bus' \in Seq(SUBSET Bot)
            BY <2>1, <2>2
        <3> QED BY <2>1, <2>2, <3>1, <3>2 DEF Kept, Meant
    <2>3. CASE bus' = bus /\ reload' = NotAlone(Meant(bots)) /\ disturbed' = disturbed \cup Meant(bots)
        BY <2>1, <2>3, NotAloneKeeps DEF Kept
    <2> QED BY <2>2, <2>3 DEF NotifyScriptsChanged, Meant
<1>3. RegTypeOK'
    BY <1>2 DEF RegTypeOK
<1>4. IndexAgrees'
    BY DEF IndexAgrees
<1>5. IdleAtRest' /\ AloneIsAlone' /\ AnswersOwn'
    BY <1>2 DEF Kept, IdleAtRest, AloneIsAlone, AnswersOwn, Touches
<1>6. \A b \in Bot : Waiting(b) => Waiting(b)'
    BY <1>2 DEF Waiting, Kept
<1>7. \A m \in Reload, b \in Bot : Touches(reload'[m], b) <=> Touches(reload[m], b)
    BY <1>2 DEF Touches, Kept
<1>8. AnswersFresh'
    <2> SUFFICES ASSUME NEW l \in Reload, NEW b \in Bot,
                        reload'[l].phase = "answered", Touches(reload'[l], b), reload'[l].alone,
                        ~Waiting(b)'
                 PROVE  KeysOf(reload'[l].got, b) = Enabled(b)'
        BY DEF AnswersFresh
    <2>1. b \notin Meant(bots)
        BY <1>2, <1>7 DEF Waiting
    <2>2. KeysOf(reload[l].got, b) = Enabled(b)
        BY <1>2, <1>6, <1>7 DEF AnswersFresh, Kept
    <2> QED BY <1>1, <1>2, <2>1, <2>2 DEF Kept
<1>9. Emptied'
    <2>1. scripts' = scripts
        OBVIOUS
    <2>2. ASSUME NEW l \in Reload, NEW b \in Bot,
                 reload'[l].phase # "idle", reload'[l].bot = b, reload'[l].alone
          PROVE  KeysOf(scripts, b) = {}
        <3>1. reload[l].phase # "idle" /\ reload[l].bot = b /\ reload[l].alone
            BY <1>2, <2>2 DEF Kept
        <3>2. Emptied
            OBVIOUS
        <3> QED BY <3>1, <3>2 DEF Emptied
    <2> QED BY <2>1, <2>2 DEF Emptied
<1>10. Settles'
    <2> SUFFICES ASSUME NEW b \in Bot \ disturbed', ~Waiting(b)',
                        \A l \in Reload : ~Touches(reload'[l], b)
                 PROVE  KeysOf(scripts', b) = Enabled(b)'
        BY DEF Settles
    <2>1. b \notin Meant(bots)
        BY <1>2 DEF Waiting
    <2>2. KeysOf(scripts, b) = Enabled(b)
        BY <1>2, <1>6, <1>7 DEF Settles
    <2> QED BY <1>1, <2>1, <2>2
<1> QED BY <1>3, <1>4, <1>5, <1>8, <1>9, <1>10

Edits ==
    \/ \E s \in Script : CreateScript(s) \/ PatchScript(s) \/ DeleteScript(s) \/ RestoreScript(s)
    \/ \E s, f \in Script : CloneScript(s, f)
    \/ \E bots \in SUBSET Bot \ {{}} : DeleteBots(bots)

LEMMA EditsKeep ==
    ASSUME RegInv, Edits
    PROVE  RegInv'
<1>1. rows \in [Script -> Row \cup {NoRow}] /\ edits \in 0..MaxEdits /\ MaxEdits \in Nat
      /\ BotOf \in [Script -> Bot]
    BY RegistryAssumption DEF RegInv, RegTypeOK
<1>2. edits < MaxEdits => edits + 1 \in 0..MaxEdits
    BY <1>1
<1>3. ASSUME NEW s \in Script, NEW row \in Row \cup {NoRow}, NEW of \in SUBSET Bot,
             of = {} \/ of = {BotOf[s]}, Edit(s, row, of)
      PROVE  RegInv'
    <2>1. rows' \in [Script -> Row \cup {NoRow}] /\ edits' \in 0..MaxEdits
        BY <1>1, <1>2, <1>3 DEF Edit
    <2>2. \A b \in Bot \ Meant(of) : \A t \in Script : BotOf[t] = b => rows'[t] = rows[t]
        BY <1>1, <1>3 DEF Edit, Meant
    <2> QED BY <1>3, <2>1, <2>2, ChangeKeeps DEF Edit
<1>4. ASSUME NEW s \in Script,
             CreateScript(s) \/ PatchScript(s) \/ DeleteScript(s) \/ RestoreScript(s)
      PROVE  RegInv'
    BY <1>1, <1>3, <1>4 DEF CreateScript, PatchScript, DeleteScript, RestoreScript
<1>5. ASSUME NEW s \in Script, NEW f \in Script, CloneScript(s, f) PROVE RegInv'
    <2>1. [trig |-> rows[f].trig, on |-> FALSE] \in Row
        BY <1>1, <1>5 DEF CloneScript, Row
    <2> QED BY <1>1, <1>3, <1>5, <2>1 DEF CloneScript
<1>6. ASSUME NEW bots \in SUBSET Bot \ {{}}, DeleteBots(bots) PROVE RegInv'
    <2>1. rows' \in [Script -> Row \cup {NoRow}] /\ edits' \in 0..MaxEdits
        BY <1>1, <1>2, <1>6 DEF DeleteBots
    <2>2. \A b \in Bot \ Meant(bots) : \A t \in Script : BotOf[t] = b => rows'[t] = rows[t]
        BY <1>1, <1>6 DEF DeleteBots, Meant
    <2> QED BY <1>6, <2>1, <2>2, ChangeKeeps DEF DeleteBots
<1> QED BY <1>4, <1>5, <1>6 DEF Edits

-----------------------------------------------------------------------------
(* A reload task that is done with its bot: it ends, or it begins again    *)
(* with bots no other alone task touches.                                  *)
LEMMA TaskMoves ==
    ASSUME RegInv, NEW l \in Reload,
           reload' \in [Reload -> ReloadTask], reload'[l].phase # "answered",
           reload'[l].phase = "idle" \/ reload'[l].bot = NoBot => reload'[l].todo = {},
           \A m \in Reload \ {l} : Kept(m),
           \A m \in Reload \ {l}, d \in Bot :
               Touches(reload'[l], d) /\ Touches(reload[m], d) => ~reload'[l].alone /\ ~reload'[m].alone,
           \A d \in Bot : reload'[l].phase # "idle" /\ reload'[l].bot = d => KeysOf(scripts', d) = {},
           scripts' \in SUBSET Key, IndexAgrees', bus' \in Seq(SUBSET Bot),
           disturbed' \in SUBSET Bot, subscribed' \in BOOLEAN,
           cooldowns' \in [Key -> -1..MaxTime], lastFiring' \in [Key -> -1..MaxTime],
           UNCHANGED <<rows, edits, now>>,
           \A d \in Bot : ~Touches(reload'[l], d) /\ Waiting(d) => Waiting(d)',
           \A d \in Bot : ~Touches(reload'[l], d) /\ ~Touches(reload[l], d) =>
               KeysOf(scripts', d) = KeysOf(scripts, d) /\ (d \in disturbed => d \in disturbed'),
           \A d \in Bot \ disturbed' :
               ~Touches(reload'[l], d) /\ Touches(reload[l], d) /\ ~Waiting(d)'
                   /\ (\A m \in Reload \ {l} : ~Touches(reload[m], d))
                   => KeysOf(scripts', d) = Enabled(d)
    PROVE  RegInv'
<1> USE DEF RegInv, ReloadsInv
<1>1. \A d \in Bot : Enabled(d)' = Enabled(d)
    BY EnabledSame
<1>2. \A m \in Reload \ {l}, d \in Bot : Touches(reload'[m], d) <=> Touches(reload[m], d)
    BY DEF Touches, Kept
<1>3. RegTypeOK'
    <2>1. byTrigger' \in [Bot \X Trigger -> SUBSET Script]
        BY IndexType DEF IndexAgrees
    <2> QED BY <2>1 DEF RegTypeOK
<1>4. IdleAtRest' /\ AnswersOwn'
    <2>1. \A m \in Reload : m = l \/ m \in Reload \ {l}
        OBVIOUS
    <2>2. IdleAtRest'
        <3>1. ASSUME NEW m \in Reload \ {l} PROVE reload'[m].phase = "idle" \/ reload'[m].bot = NoBot => reload'[m].todo = {}
            <4>1. Kept(m) /\ IdleAtRest
                OBVIOUS
            <4> HIDE DEF RegInv, ReloadsInv
            <4> QED BY ONLY <4>1, m \in Reload DEF IdleAtRest, Kept
        <3> QED BY <2>1, <3>1 DEF IdleAtRest
    <2>3. AnswersOwn'
        <3>1. ASSUME NEW m \in Reload \ {l}, reload'[m].phase = "answered"
              PROVE  \A k \in reload'[m].got : reload'[m].bot \in {NoBot, k.bot}
            <4>1. Kept(m) /\ AnswersOwn
                OBVIOUS
            <4> HIDE DEF RegInv, ReloadsInv
            <4> QED BY ONLY <3>1, <4>1, m \in Reload DEF AnswersOwn, Kept
        <3> QED BY <2>1, <3>1 DEF AnswersOwn
    <2> QED BY <2>2, <2>3
<1>5. AloneIsAlone'
    BY <1>2 DEF AloneIsAlone, Kept
<1>6. AnswersFresh'
    <2> SUFFICES ASSUME NEW m \in Reload \ {l}, NEW d \in Bot,
                        reload'[m].phase = "answered", Touches(reload'[m], d), reload'[m].alone,
                        ~Waiting(d)'
                 PROVE  KeysOf(reload'[m].got, d) = Enabled(d)'
        BY DEF AnswersFresh
    <2>1. ~Waiting(d)
        BY <1>2
    <2> QED BY <1>1, <1>2, <2>1 DEF AnswersFresh, Kept
<1>7. Emptied'
    <2> SUFFICES ASSUME NEW m \in Reload \ {l}, NEW d \in Bot,
                        reload'[m].phase # "idle", reload'[m].bot = d, reload'[m].alone
                 PROVE  KeysOf(scripts', d) = {}
        BY DEF Emptied
    <2>1. reload[m].phase # "idle" /\ reload[m].bot = d /\ reload[m].alone /\ Touches(reload[m], d)
        BY DEF Kept, Touches
    <2>2. KeysOf(scripts, d) = {} /\ ~Touches(reload[l], d) /\ ~Touches(reload'[l], d)
        BY <2>1 DEF Emptied, AloneIsAlone
    <2> QED BY <2>2
<1>8. Settles'
    <2> SUFFICES ASSUME NEW d \in Bot \ disturbed', ~Waiting(d)',
                        \A m \in Reload : ~Touches(reload'[m], d)
                 PROVE  KeysOf(scripts', d) = Enabled(d)
        BY <1>1 DEF Settles
    <2>1. CASE Touches(reload[l], d)
        BY <1>2, <2>1
    <2>2. CASE ~Touches(reload[l], d)
        <3>1. ~Waiting(d) /\ d \notin disturbed /\ \A m \in Reload : ~Touches(reload[m], d)
            BY <1>2, <2>2
        <3> QED BY <2>2, <3>1 DEF Settles
    <2> QED BY <2>1, <2>2
<1> QED BY <1>3, <1>4, <1>5, <1>6, <1>7, <1>8

LEMMA OnScriptsChangedKeeps ==
    ASSUME RegInv, NEW l \in Reload, OnScriptsChanged(l)
    PROVE  RegInv'
<1> USE DEF RegInv, ReloadsInv
<1> DEFINE rest == Tail(bus)
<1>1. /\ bus \in Seq(SUBSET Bot) /\ bus # <<>> /\ reload[l].phase = "idle" /\ bus' = rest
      /\ scripts \in SUBSET Key /\ reload[l].todo = {}
    BY DEF OnScriptsChanged, RegTypeOK, IdleAtRest
<1>2. /\ Head(bus) \in SUBSET Bot /\ rest \in Seq(SUBSET Bot)
      /\ \A d : Announced(d, bus) <=> Head(bus) = {} \/ d \in Head(bus) \/ Announced(d, bus')
    BY <1>1, AnnouncedTail
<1>3. \A d \in Bot : ~Touches(reload[l], d)
    BY <1>1 DEF Touches
<1>4. /\ UNCHANGED <<rows, edits, subscribed, now, disturbed>>
      /\ subscribed' \in BOOLEAN /\ disturbed' \in SUBSET Bot
      /\ cooldowns' \in [Key -> -1..MaxTime] /\ lastFiring' \in [Key -> -1..MaxTime]
    BY DEF OnScriptsChanged, RegTypeOK, KeepCooldowns
<1>5. CASE Head(bus) = {}
    <2>1. Ask(l, NoBot, {}) /\ UNCHANGED <<scripts, byTrigger>>
        BY <1>5 DEF OnScriptsChanged
    <2>2. /\ reload' \in [Reload -> ReloadTask]
          /\ reload'[l].phase = "asked" /\ reload'[l].bot = NoBot /\ reload'[l].todo = {}
          /\ reload'[l].alone => \A m \in Reload \ {l} : \A d \in Bot : ~Touches(reload[m], d)
          /\ \A m \in Reload \ {l} : KeptBut(m, Bot)
        BY <2>1, AskKeeps DEF Named
    <2>3. \A d \in Bot : Touches(reload'[l], d) /\ d # NoBot
        BY <2>2, RegistryAssumption DEF Touches
    <2>4. IndexAgrees'
        BY <2>1 DEF IndexAgrees
    <2> QED BY <1>1, <1>2, <1>3, <1>4, <2>1, <2>2, <2>3, <2>4, TaskMoves DEF KeptBut
<1>6. ASSUME NEW b \in Head(bus), Unregister(b), Ask(l, b, Head(bus) \ {b})
      PROVE  RegInv'
    <2>0. b \in Bot /\ b # NoBot /\ Head(bus) \ {b} \in SUBSET Bot /\ Named(b) = {b}
        BY <1>2, <1>6, RegistryAssumption DEF Named
    <2>1a. /\ reload' \in [Reload -> ReloadTask]
           /\ reload'[l].phase = "asked" /\ reload'[l].bot = b /\ reload'[l].todo = Head(bus) \ {b}
           /\ reload'[l].alone =>
                \A m \in Reload \ {l} : \A d \in Named(b) : ~Touches(reload[m], d)
           /\ \A m \in Reload \ {l} : KeptBut(m, Named(b))
        BY <1>6, <2>0, AskKeeps
    <2>1. /\ reload' \in [Reload -> ReloadTask]
          /\ reload'[l].phase = "asked" /\ reload'[l].bot = b /\ reload'[l].todo = Head(bus) \ {b}
          /\ reload'[l].alone => \A m \in Reload \ {l} : ~Touches(reload[m], b)
          /\ \A m \in Reload \ {l} : KeptBut(m, {b})
        BY <2>0, <2>1a
    <2>2. \A d \in Bot : Touches(reload'[l], d) <=> d = b
        BY <2>0, <2>1 DEF Touches
    <2>3. /\ scripts' \in SUBSET Key /\ IndexAgrees' /\ KeysOf(scripts', b) = {}
          /\ \A d \in Bot \ {b} : KeysOf(scripts', d) = KeysOf(scripts, d)
        BY <1>1, <1>6 DEF Unregister, IndexAgrees, KeysOf
    <2>4. \A d \in Bot : ~Touches(reload'[l], d) /\ Waiting(d) => Waiting(d)'
        BY <1>1, <1>2, <1>6, <2>1, <2>2 DEF Waiting, KeptBut, Kept
    <2>5. \A m \in Reload \ {l}, d \in Bot :
              Touches(reload'[l], d) /\ Touches(reload[m], d) => ~reload'[l].alone /\ ~reload'[m].alone
        BY <2>1, <2>2 DEF KeptBut
    <2>6. \A m \in Reload \ {l} : Kept(m)
        BY <2>1 DEF KeptBut
    <2> QED BY <1>1, <1>2, <1>3, <1>4, <2>0, <2>1, <2>2, <2>3, <2>4, <2>5, <2>6, TaskMoves
<1> QED BY <1>5, <1>6 DEF OnScriptsChanged

LEMMA AnsweredTask ==
    ASSUME NEW t \in ReloadTask, NEW keys \in SUBSET Key
    PROVE  LET u == [t EXCEPT !.phase = "answered", !.got = keys]
           IN  /\ u \in ReloadTask /\ u.phase = "answered" /\ u.got = keys
               /\ u.bot = t.bot /\ u.todo = t.todo /\ u.alone = t.alone
BY DEF ReloadTask

LEMMA QueryAnsweredKeeps ==
    ASSUME RegInv, NEW l \in Reload, QueryAnswered(l)
    PROVE  RegInv'
<1> USE DEF RegInv, ReloadsInv, QueryAnswered, dbVars, engineVars
<1> DEFINE rows_of == IF reload[l].bot = NoBot THEN EnabledAll ELSE Enabled(reload[l].bot)
<1>1. reload[l] \in ReloadTask /\ reload \in [Reload -> ReloadTask]
    BY DEF RegTypeOK
<1>2. rows_of \in SUBSET Key /\ \A b \in Bot : Touches(reload[l], b) => KeysOf(rows_of, b) = Enabled(b)
    <2>1. CASE reload[l].bot = NoBot
        <3>1. EnabledAll \in SUBSET Key
            BY EnabledKeys, RegistryAssumption DEF EnabledAll
        <3> QED BY <2>1, <3>1, EnabledKeys
    <2>2. CASE reload[l].bot \in Bot
        BY <2>2, EnabledKeys, RegistryAssumption DEF Touches
    <2> QED BY <1>1, <2>1, <2>2 DEF ReloadTask
<1>3. reload[l].bot # NoBot => \A k \in rows_of : k.bot = reload[l].bot
    BY <1>1, EnabledKeys DEF ReloadTask
<1>4. reload' = [reload EXCEPT ![l] = [@ EXCEPT !.phase = "answered", !.got = rows_of]]
    BY <1>1 DEF ReloadTask
<1> HIDE DEF rows_of
<1>5. /\ reload' \in [Reload -> ReloadTask]
      /\ reload'[l].phase = "answered" /\ reload'[l].got = rows_of
      /\ reload'[l].bot = reload[l].bot /\ reload'[l].todo = reload[l].todo
      /\ reload'[l].alone = reload[l].alone
      /\ \A m \in Reload \ {l} : reload'[m] = reload[m]
    <2> DEFINE task == [reload[l] EXCEPT !.phase = "answered", !.got = rows_of]
    <2>1. /\ task \in ReloadTask /\ task.phase = "answered" /\ task.got = rows_of
          /\ task.bot = reload[l].bot /\ task.todo = reload[l].todo /\ task.alone = reload[l].alone
        BY <1>1, <1>2, AnsweredTask
    <2>2. reload' = [reload EXCEPT ![l] = task]
        BY <1>4
    <2> HIDE DEF task
    <2>3. reload' \in [Reload -> ReloadTask] /\ reload'[l] = task
          /\ \A m \in Reload \ {l} : reload'[m] = reload[m]
        BY <1>1, <2>1, <2>2
    <2> QED BY <2>1, <2>3
<1>6. \A m \in Reload, b \in Bot : Touches(reload'[m], b) <=> Touches(reload[m], b)
    BY <1>5 DEF Touches
<1>7. \A b \in Bot : (Waiting(b) <=> Waiting(b)') /\ Enabled(b)' = Enabled(b)
    BY <1>5, EnabledSame DEF Waiting
<1>8. RegTypeOK' /\ IndexAgrees'
    BY <1>5 DEF RegTypeOK, IndexAgrees
<1>9. IdleAtRest' /\ AloneIsAlone' /\ AnswersOwn'
    BY <1>3, <1>5, <1>6 DEF IdleAtRest, AloneIsAlone, AnswersOwn
<1>10. AnswersFresh'
    BY <1>2, <1>5, <1>6, <1>7 DEF AnswersFresh
<1>11. Emptied' /\ Settles'
    BY <1>5, <1>6, <1>7 DEF Emptied, Settles
<1> QED BY <1>8, <1>9, <1>10, <1>11

(* A load adds the keys of its own bot to none.                            *)
LEMMA LoadBotKeeps ==
    ASSUME RegInv, NEW l \in Reload, LoadBot(l)
    PROVE  RegInv'
<1> USE DEF RegInv, ReloadsInv
<1> DEFINE b == reload[l].bot
           got == reload[l].got
           todo == reload[l].todo
<1>1. /\ reload[l] \in ReloadTask /\ reload \in [Reload -> ReloadTask]
      /\ reload[l].phase = "answered" /\ b \in Bot /\ b # NoBot /\ got \in SUBSET Key
      /\ todo \in SUBSET Bot /\ scripts \in SUBSET Key /\ Settled(l, {b})
    BY DEF LoadBot, RegTypeOK, ReloadTask
<1>2. \A d \in Bot : Touches(reload[l], d) <=> d = b
    BY <1>1 DEF Touches
<1>3. \A k \in got : k.bot = b
    BY <1>1 DEF AnswersOwn
<1>4. reload[l].alone =>
          /\ KeysOf(scripts, b) = {}
          /\ ~Waiting(b) => KeysOf(scripts \cup got, b) = Enabled(b)
    <2> SUFFICES ASSUME reload[l].alone
                 PROVE  /\ KeysOf(scripts, b) = {}
                        /\ ~Waiting(b) => KeysOf(scripts \cup got, b) = Enabled(b)
        OBVIOUS
    <2>1. KeysOf(scripts, b) = {}
        BY <1>1 DEF Emptied
    <2>2. ~Waiting(b) => KeysOf(got, b) = Enabled(b)
        BY <1>1, <1>2 DEF AnswersFresh
    <2> QED BY <2>1, <2>2 DEF KeysOf
<1>5. /\ UNCHANGED <<rows, edits, bus, subscribed, now, cooldowns, lastFiring>>
      /\ subscribed' \in BOOLEAN /\ bus' \in Seq(SUBSET Bot)
      /\ cooldowns' \in [Key -> -1..MaxTime] /\ lastFiring' \in [Key -> -1..MaxTime]
    BY DEF LoadBot, RegTypeOK, KeepCooldowns, dbVars
<1>6. /\ disturbed' \in SUBSET Bot
      /\ \A d \in Bot \ {b} : d \in disturbed => d \in disturbed'
      /\ b \notin disturbed' => reload[l].alone
    BY <1>1 DEF Settled, RegTypeOK
<1>7. CASE /\ todo = {} /\ Register(scripts, byTrigger, got) /\ reload' = [reload EXCEPT ![l] = Idle]
    <2>1. /\ scripts' = scripts \cup got /\ scripts' \in SUBSET Key /\ IndexAgrees'
        <3>1. byTrigger = RebuildIndex(scripts)
            BY DEF IndexAgrees
        <3>2. Register(scripts, RebuildIndex(scripts), got)
            BY <1>7, <3>1
        <3>3. scripts' = scripts \cup got
            BY <1>7 DEF Register
        <3> QED BY <1>1, <3>2, <3>3, RegisterIndex
    <2>2. Idle \in ReloadTask /\ Idle.phase = "idle" /\ Idle.todo = {} /\ Idle.alone = FALSE
        BY DEF Idle, ReloadTask
    <2>3. /\ reload' \in [Reload -> ReloadTask] /\ reload'[l] = Idle
          /\ \A m \in Reload \ {l} : reload'[m] = reload[m] /\ Kept(m)
        BY <1>1, <1>7, <2>2 DEF Kept
    <2>4. \A d \in Bot : ~Touches(reload'[l], d)
        BY <2>2, <2>3 DEF Touches
    <2>5. \A d \in Bot : Waiting(d) <=> Waiting(d)'
        BY <1>5, <1>7, <2>2, <2>3 DEF Waiting
    <2>6. \A d \in Bot \ {b} : KeysOf(scripts', d) = KeysOf(scripts, d)
        BY <1>3, <2>1 DEF KeysOf
    <2>7. \A d \in Bot \ disturbed' : Touches(reload[l], d) /\ ~Waiting(d)' => KeysOf(scripts', d) = Enabled(d)
        BY <1>2, <1>4, <1>6, <2>1, <2>5
    <2> QED BY <1>2, <1>5, <1>6, <2>1, <2>2, <2>3, <2>4, <2>5, <2>6, <2>7, TaskMoves
<1>8. ASSUME NEW c \in todo, scripts' = {k \in scripts \cup got : k.bot # c},
             byTrigger' = RebuildIndex(scripts'), Ask(l, c, todo \ {c})
      PROVE  RegInv'
    <2>0. c \in Bot /\ c # NoBot /\ todo \ {c} \in SUBSET Bot /\ Named(c) = {c}
        BY <1>1, <1>8, RegistryAssumption DEF Named
    <2>1a. /\ reload' \in [Reload -> ReloadTask]
           /\ reload'[l].phase = "asked" /\ reload'[l].bot = c /\ reload'[l].todo = todo \ {c}
           /\ reload'[l].alone =>
                \A m \in Reload \ {l} : \A d \in Named(c) : ~Touches(reload[m], d)
           /\ \A m \in Reload \ {l} : KeptBut(m, Named(c))
        BY <1>8, <2>0, AskKeeps
    <2>1. /\ reload' \in [Reload -> ReloadTask]
          /\ reload'[l].phase = "asked" /\ reload'[l].bot = c /\ reload'[l].todo = todo \ {c}
          /\ reload'[l].alone => \A m \in Reload \ {l} : ~Touches(reload[m], c)
          /\ \A m \in Reload \ {l} : KeptBut(m, {c})
        BY <2>0, <2>1a
    <2>2. \A d \in Bot : Touches(reload'[l], d) <=> d = c
        BY <2>0, <2>1 DEF Touches
    <2>3. /\ scripts' \in SUBSET Key /\ IndexAgrees' /\ KeysOf(scripts', c) = {}
          /\ \A d \in Bot \ {b, c} : KeysOf(scripts', d) = KeysOf(scripts, d)
          /\ b # c => KeysOf(scripts', b) = KeysOf(scripts \cup got, b)
        BY <1>1, <1>3, <1>8 DEF IndexAgrees, KeysOf
    <2>4. \A d \in Bot \ {c} : Waiting(d) <=> Waiting(d)'
        BY <1>5, <2>1 DEF Waiting, KeptBut, Kept
    <2>5. \A d \in Bot \ disturbed' :
              d # c /\ Touches(reload[l], d) /\ ~Waiting(d)' => KeysOf(scripts', d) = Enabled(d)
        BY <1>2, <1>4, <1>6, <2>3, <2>4
    <2>6. \A m \in Reload \ {l}, d \in Bot :
              Touches(reload'[l], d) /\ Touches(reload[m], d) => ~reload'[l].alone /\ ~reload'[m].alone
        BY <2>1, <2>2 DEF KeptBut
    <2>7. \A m \in Reload \ {l} : Kept(m)
        BY <2>1 DEF KeptBut
    <2>8. \A d \in Bot : ~Touches(reload'[l], d) /\ ~Touches(reload[l], d) =>
              KeysOf(scripts', d) = KeysOf(scripts, d) /\ (d \in disturbed => d \in disturbed')
        BY <1>2, <1>6, <2>2, <2>3
    <2> QED BY <1>2, <1>5, <1>6, <2>0, <2>1, <2>2, <2>3, <2>4, <2>5, <2>6, <2>7, <2>8, TaskMoves
<1> QED BY <1>7, <1>8 DEF LoadBot
LEMMA IdleTask ==
    /\ Idle \in ReloadTask /\ Idle.phase = "idle" /\ Idle.todo = {}
    /\ \A b : ~Touches(Idle, b)
BY DEF Idle, ReloadTask, Touches

(* A full load replaces everything.                                        *)
LEMMA LoadAllKeeps ==
    ASSUME RegInv, NEW l \in Reload, LoadAll(l)
    PROVE  RegInv'
<1> USE DEF RegInv, ReloadsInv
<1> DEFINE got == reload[l].got
<1>1. /\ reload[l] \in ReloadTask /\ reload \in [Reload -> ReloadTask] /\ got \in SUBSET Key
      /\ reload[l].phase = "answered" /\ reload[l].bot = NoBot /\ Settled(l, Bot)
      /\ reload' = [reload EXCEPT ![l] = Idle] /\ UNCHANGED <<rows, edits, bus, now>>
      /\ bus' \in Seq(SUBSET Bot) /\ subscribed' \in BOOLEAN
    BY DEF LoadAll, RegTypeOK, ReloadTask
<1>2. \A d \in Bot : Touches(reload[l], d)
    BY <1>1 DEF Touches
<1>3. scripts' = got /\ IndexAgrees'
    BY RegisterIndex DEF LoadAll, Register
<1>4. /\ reload' \in [Reload -> ReloadTask] /\ reload'[l] = Idle
      /\ \A m \in Reload \ {l} : reload'[m] = reload[m] /\ Kept(m)
    BY <1>1, IdleTask DEF Kept
<1>5. reload[l].todo = {}
    BY <1>1 DEF IdleAtRest
<1>6. disturbed' \in SUBSET Bot /\ \A d \in Bot \ disturbed' : reload[l].alone
    BY <1>1 DEF Settled, RegTypeOK
<1>7. cooldowns' \in [Key -> -1..MaxTime] /\ lastFiring' \in [Key -> -1..MaxTime]
    <2>1. -1 \in -1..MaxTime
        BY RegistryAssumption
    <2> QED BY <2>1 DEF LoadAll, WipeCooldowns
<1>8. \A d \in Bot : Waiting(d) => Waiting(d)'
    BY <1>1, <1>4, <1>5 DEF Waiting
<1>9. \A d \in Bot \ disturbed' : ~Waiting(d)' => KeysOf(scripts', d) = Enabled(d)
    BY <1>1, <1>2, <1>3, <1>6, <1>8 DEF AnswersFresh
<1> QED BY <1>1, <1>2, <1>3, <1>4, <1>6, <1>7, <1>8, <1>9, IdleTask, TaskMoves
(* A query that fails leaves its bots, and the ones it would have come to, *)
(* disturbed.                                                              *)
LEMMA QueryFailsKeeps ==
    ASSUME RegInv, NEW l \in Reload, QueryFails(l)
    PROVE  RegInv'
<1> USE DEF RegInv, ReloadsInv
<1> DEFINE bots == IF reload[l].bot = NoBot THEN Bot ELSE {reload[l].bot} \cup reload[l].todo
<1>1. /\ reload[l] \in ReloadTask /\ reload \in [Reload -> ReloadTask] /\ bots \in SUBSET Bot
      /\ disturbed' = disturbed \cup bots /\ disturbed' \in SUBSET Bot
      /\ reload' = [NotAlone(bots) EXCEPT ![l] = Idle]
      /\ UNCHANGED <<rows, edits, bus, now, scripts, byTrigger, cooldowns, lastFiring>>
    BY DEF QueryFails, RegTypeOK, ReloadTask, engineVars
<1>2. /\ scripts' \in SUBSET Key /\ bus' \in Seq(SUBSET Bot) /\ subscribed' \in BOOLEAN
      /\ cooldowns' \in [Key -> -1..MaxTime] /\ lastFiring' \in [Key -> -1..MaxTime]
      /\ IndexAgrees'
    BY <1>1 DEF QueryFails, RegTypeOK, IndexAgrees
<1>3. \A d \in Bot : Touches(reload[l], d) \/ d \in reload[l].todo => d \in bots
    BY <1>1 DEF Touches, IdleAtRest
<1> HIDE DEF bots
<1>4. /\ reload' \in [Reload -> ReloadTask] /\ reload'[l] = Idle
      /\ \A m \in Reload \ {l} : reload'[m] = NotAlone(bots)[m]
    BY <1>1, NotAloneKeeps, IdleTask
<1>5. \A m \in Reload \ {l} : Kept(m)
    BY <1>4, NotAloneKeeps DEF Kept
<1>6. /\ RegTypeOK' /\ IdleAtRest' /\ AloneIsAlone' /\ AnswersOwn'
    <2>1. \A m \in Reload : m = l \/ m \in Reload \ {l}
        OBVIOUS
    <2>2. RegTypeOK'
        BY <1>1, <1>2, <1>4 DEF RegTypeOK
    <2>3. IdleAtRest'
        BY <1>4, <1>5, <2>1, IdleTask DEF IdleAtRest, Kept
    <2>4. AnswersOwn'
        BY <1>4, <1>5, <2>1, IdleTask DEF AnswersOwn, Kept
    <2>5. AloneIsAlone'
        BY <1>4, <1>5, <2>1, IdleTask DEF AloneIsAlone, Kept, Touches
    <2> QED BY <2>2, <2>3, <2>4, <2>5
<1>7. \A d \in Bot : Enabled(d)' = Enabled(d)
    BY <1>1, EnabledSame
<1>8. \A d \in Bot \ bots : Waiting(d) => Waiting(d)'
    BY <1>1, <1>3, <1>5 DEF Waiting, Kept
<1>9. \A m \in Reload \ {l}, d \in Bot :
          /\ Touches(reload'[m], d) <=> Touches(reload[m], d)
          /\ Touches(reload'[m], d) /\ reload'[m].alone => d \notin bots
    BY <1>4, <1>5, NotAloneKeeps DEF Touches, Kept
<1>10. AnswersFresh'
    <2> SUFFICES ASSUME NEW m \in Reload \ {l}, NEW d \in Bot,
                        reload'[m].phase = "answered", Touches(reload'[m], d), reload'[m].alone,
                        ~Waiting(d)'
                 PROVE  KeysOf(reload'[m].got, d) = Enabled(d)'
        BY <1>4, IdleTask DEF AnswersFresh
    <2>1. ~Waiting(d)
        BY <1>8, <1>9
    <2> QED BY <1>5, <1>7, <1>9, <2>1 DEF AnswersFresh, Kept
<1>11. Emptied'
    <2>1. \A m \in Reload : m = l \/ m \in Reload \ {l}
        OBVIOUS
    <2>2. reload'[l].phase = "idle" /\ UNCHANGED scripts
        BY <1>1, <1>4, IdleTask
    <2> QED BY <1>5, <2>1, <2>2 DEF Emptied, Kept
<1>12. Settles'
    <2> SUFFICES ASSUME NEW d \in Bot \ disturbed', ~Waiting(d)',
                        \A m \in Reload : ~Touches(reload'[m], d)
                 PROVE  KeysOf(scripts, d) = Enabled(d)
        BY <1>1, <1>7 DEF Settles
    <2>1. d \notin bots /\ ~Waiting(d) /\ \A m \in Reload : ~Touches(reload[m], d)
        BY <1>1, <1>3, <1>8, <1>9
    <2> QED BY <1>1, <2>1 DEF Settles
<1> QED BY <1>2, <1>6, <1>10, <1>11, <1>12

(* A new process: nothing is registered, and every bot is disturbed until  *)
(* the full load.                                                          *)
LEMMA RestartKeeps ==
    ASSUME RegInv, Restart
    PROVE  RegInv'
<1> USE DEF RegInv, ReloadsInv
<1> PICK l \in Reload :
        reload' = [m \in Reload |->
            IF m = l THEN [Idle EXCEPT !.phase = "asked", !.alone = TRUE] ELSE Idle]
    BY DEF Restart
<1> DEFINE boot == [Idle EXCEPT !.phase = "asked", !.alone = TRUE]
<1>1. boot \in ReloadTask /\ boot.phase = "asked" /\ boot.todo = {} /\ boot.bot = NoBot
    BY DEF Idle, ReloadTask
<1>2. reload' = [m \in Reload |-> IF m = l THEN boot ELSE Idle]
    OBVIOUS
<1> HIDE DEF boot
<1>3. /\ reload' \in [Reload -> ReloadTask] /\ reload'[l] = boot
      /\ \A m \in Reload \ {l} : reload'[m] = Idle
    BY <1>1, <1>2, IdleTask
<1>4. scripts' = {} /\ IndexAgrees'
    BY RegisterIndex DEF Restart, Register
<1>5. RegTypeOK'
    <2>1. -1 \in -1..MaxTime
        BY RegistryAssumption
    <2>2. cooldowns' \in [Key -> -1..MaxTime] /\ lastFiring' \in [Key -> -1..MaxTime]
        BY <2>1 DEF Restart, WipeCooldowns
    <2>3. byTrigger' \in [Bot \X Trigger -> SUBSET Script]
        BY <1>4, IndexType DEF IndexAgrees
    <2>4. bus' = <<>> /\ <<>> \in Seq(SUBSET Bot)
        BY DEF Restart
    <2>5. subscribed' \in BOOLEAN /\ disturbed' \in SUBSET Bot /\ UNCHANGED <<rows, edits, now>>
        BY DEF Restart
    <2> QED BY <1>3, <1>4, <2>2, <2>3, <2>4, <2>5 DEF RegTypeOK
<1>6. \A m \in Reload : m # l => reload'[m].phase = "idle" /\ reload'[m].todo = {}
    BY <1>3, IdleTask
<1>7. IdleAtRest' /\ AnswersOwn' /\ AnswersFresh' /\ Emptied'
    BY <1>1, <1>3, <1>4, <1>6 DEF IdleAtRest, AnswersOwn, AnswersFresh, Emptied, KeysOf
<1>8. AloneIsAlone'
    BY <1>6 DEF AloneIsAlone, Touches
<1>9. Settles'
    BY DEF Restart, Settles
<1> QED BY <1>4, <1>5, <1>7, <1>8, <1>9

(* Events and time touch neither the table nor the reloads.                *)
LEMMA EventsKeep ==
    ASSUME RegInv, UNCHANGED <<dbVars, scripts, byTrigger, reload, disturbed>>,
           cooldowns' \in [Key -> -1..MaxTime], lastFiring' \in [Key -> -1..MaxTime],
           now' \in 0..MaxTime
    PROVE  RegInv'
<1> USE DEF RegInv, ReloadsInv, dbVars
<1>1. \A d \in Bot : (Waiting(d) <=> Waiting(d)') /\ Enabled(d)' = Enabled(d)
    BY EnabledSame DEF Waiting
<1>2. RegTypeOK' /\ IndexAgrees'
    BY DEF RegTypeOK, IndexAgrees
<1>3. IdleAtRest' /\ AloneIsAlone' /\ AnswersOwn' /\ Emptied'
    BY DEF IdleAtRest, AloneIsAlone, AnswersOwn, Emptied
<1>4. AnswersFresh' /\ Settles'
    BY <1>1 DEF AnswersFresh, Settles
<1> QED BY <1>2, <1>3, <1>4

LEMMA DispatchKeeps ==
    ASSUME RegInv, CooldownInv, NEW b \in Bot, NEW t \in Trigger, DispatchEvent(b, t)
    PROVE  /\ cooldowns' \in [Key -> -1..MaxTime] /\ lastFiring' \in [Key -> -1..MaxTime]
           /\ CooldownInv'
           /\ \A k \in Key : lastFiring'[k] # lastFiring[k] /\ lastFiring[k] # -1
                  => lastFiring'[k] - lastFiring[k] >= Cooldown[k.id]
<1> DEFINE taken == {k \in {ScriptKey(s, t) : s \in byTrigger[<<b, t>>]} : Cooled(k)}
<1> PICK passing \in SUBSET byTrigger[<<b, t>>] :
       /\ cooldowns' = [k \in Key |-> IF k \in taken /\ Cooldown[k.id] > 0 THEN now ELSE cooldowns[k]]
       /\ lastFiring' = [k \in Key |-> IF k \in taken /\ k.id \in passing THEN now ELSE lastFiring[k]]
    BY DEF DispatchEvent
<1>0. \A k \in taken : Cooled(k)
    OBVIOUS
<1> HIDE DEF taken
<1>1. /\ MaxTime \in Nat /\ now \in 0..MaxTime /\ now' = now
      /\ cooldowns \in [Key -> -1..MaxTime] /\ lastFiring \in [Key -> -1..MaxTime]
      /\ \A k \in Key : Cooldown[k.id] \in Nat
    BY RegistryAssumption DEF RegInv, RegTypeOK, DispatchEvent, Key
<1>2. now \in -1..MaxTime
    BY <1>1
<1>3. cooldowns' \in [Key -> -1..MaxTime] /\ lastFiring' \in [Key -> -1..MaxTime]
    BY <1>1, <1>2
<1>4. ASSUME NEW k \in Key
      PROVE  /\ lastFiring'[k] <= now' /\ cooldowns'[k] <= now'
             /\ lastFiring'[k] # -1 /\ Cooldown[k.id] > 0 => lastFiring'[k] <= cooldowns'[k]
             /\ lastFiring'[k] # lastFiring[k] /\ lastFiring[k] # -1
                    => lastFiring'[k] - lastFiring[k] >= Cooldown[k.id]
    <2> DEFINE c == cooldowns[k]  f == lastFiring[k]  cd == Cooldown[k.id]
    <2>1. /\ c \in -1..MaxTime /\ f \in -1..MaxTime /\ cd \in Nat /\ f <= now /\ c <= now
          /\ f # -1 /\ cd > 0 => f <= c
        BY <1>1 DEF CooldownInv
    <2>2. /\ cooldowns'[k] = (IF k \in taken /\ cd > 0 THEN now ELSE c)
          /\ lastFiring'[k] = (IF k \in taken /\ k.id \in passing THEN now ELSE f)
        OBVIOUS
    <2>3. k \in taken => cd = 0 \/ c = -1 \/ now - c >= cd
        BY <1>0 DEF Cooled
    <2> HIDE DEF c, f, cd
    <2> QED BY <1>1, <2>1, <2>2, <2>3 DEF cd, f
<1> QED BY <1>3, <1>4 DEF CooldownInv

-----------------------------------------------------------------------------
LEMMA RegInitHolds == RegInit => RegInv /\ CooldownInv
<1> SUFFICES ASSUME RegInit PROVE RegInv /\ CooldownInv
    OBVIOUS
<1> USE DEF RegInit
<1>1. -1 \in -1..MaxTime /\ 0 \in 0..MaxTime /\ 0 \in 0..MaxEdits
    BY RegistryAssumption
<1>2. \A b \in Bot : Enabled(b) \in SUBSET Key /\ KeysOf(EnabledAll, b) = Enabled(b)
    BY RegistryAssumption DEF Enabled, EnabledAll, ScriptKey, Key, KeysOf, Row
<1>3. RegTypeOK
    <2>1. EnabledAll \in SUBSET Key
        BY <1>2 DEF EnabledAll
    <2>2. byTrigger \in [Bot \X Trigger -> SUBSET Script]
        BY <2>1, IndexType
    <2> QED BY <1>1, <2>1, <2>2, IdleTask DEF RegTypeOK
<1>4. \A l \in Reload : reload[l] = Idle
    OBVIOUS
<1>5. IdleAtRest /\ AloneIsAlone /\ AnswersOwn /\ AnswersFresh /\ Emptied
    BY <1>4, IdleTask DEF IdleAtRest, AloneIsAlone, AnswersOwn, AnswersFresh, Emptied
<1>6. IndexAgrees /\ Settles
    BY <1>2 DEF IndexAgrees, Settles
<1>7. CooldownInv
    BY <1>1 DEF CooldownInv
<1> QED BY <1>3, <1>5, <1>6, <1>7 DEF RegInv, ReloadsInv

(* A step of the registry: the invariants, and what it does to a firing.   *)
LEMMA RegNextKeeps ==
    ASSUME RegInv, CooldownInv, [RegNext]_regVars
    PROVE  /\ RegInv' /\ CooldownInv'
           /\ \A k \in Key : lastFiring'[k] # lastFiring[k] /\ lastFiring[k] # -1 /\ lastFiring'[k] # -1
                  => lastFiring'[k] - lastFiring[k] >= Cooldown[k.id]
<1> DEFINE Apart(k) == lastFiring'[k] # lastFiring[k] /\ lastFiring[k] # -1 /\ lastFiring'[k] # -1
                           => lastFiring'[k] - lastFiring[k] >= Cooldown[k.id]
           Goal == RegInv' /\ CooldownInv' /\ \A k \in Key : Apart(k)
<1> SUFFICES Goal
    OBVIOUS
<1>1. ASSUME RegInv', UNCHANGED <<cooldowns, lastFiring, now>> PROVE Goal
    BY <1>1 DEF CooldownInv
<1>2. ASSUME RegInv', WipeCooldowns, UNCHANGED now PROVE Goal
    <2>1. \A k \in Key : lastFiring'[k] = -1 /\ cooldowns'[k] = -1
        BY <1>2 DEF WipeCooldowns
    <2>2. now' \in Nat
        BY <1>2 DEF RegInv, RegTypeOK
    <2>3. CooldownInv'
        BY <2>1, <2>2 DEF CooldownInv
    <2> QED BY <1>2, <2>1, <2>3
<1>3. ASSUME NEW b \in Bot, NEW t \in Trigger, DispatchEvent(b, t) PROVE Goal
    <2>1. now' \in 0..MaxTime /\ UNCHANGED <<dbVars, scripts, byTrigger, reload, disturbed>>
        BY <1>3 DEF DispatchEvent, RegInv, RegTypeOK
    <2> QED BY <1>3, <2>1, DispatchKeeps, EventsKeep
<1>4. CASE Edits
    <2>1. UNCHANGED <<cooldowns, lastFiring, now>>
        BY <1>4 DEF Edits, CreateScript, PatchScript, DeleteScript, RestoreScript, CloneScript,
                    DeleteBots, Edit, engineVars
    <2> QED BY <1>1, <1>4, <2>1, EditsKeep
<1>5. ASSUME NEW l \in Reload,
             OnScriptsChanged(l) \/ QueryAnswered(l) \/ QueryFails(l) \/ LoadBot(l)
      PROVE  Goal
    <2>1. UNCHANGED <<cooldowns, lastFiring, now>>
        BY <1>5 DEF OnScriptsChanged, QueryAnswered, QueryFails, LoadBot, KeepCooldowns, engineVars
    <2>2. RegInv'
        BY <1>5, OnScriptsChangedKeeps, QueryAnsweredKeeps, QueryFailsKeeps, LoadBotKeeps
    <2> QED BY <1>1, <2>1, <2>2
<1>6. ASSUME NEW l \in Reload, LoadAll(l) PROVE Goal
    BY <1>2, <1>6, LoadAllKeeps DEF LoadAll
<1>7. CASE IntervalDispatch
    <2>1. IntervalBots \subseteq Bot /\ IntervalTrigger \in Trigger
        BY RegistryAssumption DEF IntervalBots, RegInv, RegTypeOK, Key
    <2> QED BY <1>3, <1>7, <2>1 DEF IntervalDispatch
<1>8. CASE Restart
    BY <1>2, <1>8, RestartKeeps DEF Restart
<1>9. CASE Tick
    <2>1. /\ now \in 0..MaxTime /\ MaxTime \in Nat /\ now' = now + 1 /\ now < MaxTime
          /\ cooldowns \in [Key -> -1..MaxTime] /\ lastFiring \in [Key -> -1..MaxTime]
          /\ UNCHANGED <<dbVars, engineVars, reload, disturbed>>
        BY <1>9, RegistryAssumption DEF Tick, RegInv, RegTypeOK
    <2>2. now' \in 0..MaxTime /\ \A n \in -1..MaxTime : n <= now => n <= now'
        BY <2>1
    <2>3. RegInv'
        BY <2>1, <2>2, EventsKeep DEF engineVars
    <2>4. CooldownInv'
        BY <2>1, <2>2 DEF CooldownInv, engineVars
    <2> QED BY <2>1, <2>3, <2>4 DEF engineVars
<1>10. CASE UNCHANGED regVars
    <2>1. RegInv'
        BY <1>10, EventsKeep DEF regVars, engineVars, RegInv, RegTypeOK
    <2> QED BY <1>1, <1>10, <2>1 DEF regVars, engineVars
<1> HIDE DEF Goal
<1> QED BY <1>3, <1>4, <1>5, <1>6, <1>7, <1>8, <1>9, <1>10 DEF RegNext, Edits

(* Whatever messages, queries, edits and restarts come in whatever order,  *)
(* the index names what is registered, and an undisturbed bot at rest has  *)
(* exactly its enabled scripts.                                            *)
THEOREM RegistryServes == RegSpec => [](RegTypeOK /\ RegistryAgrees)
<1>1. RegInv => RegTypeOK /\ RegistryAgrees
    BY DEF RegInv, RegistryAgrees, Settles, AgreesUnlessDisturbed, Pending, Waiting, Announced, KeysOf
<1>2. (RegInv /\ CooldownInv) /\ [RegNext]_regVars => (RegInv /\ CooldownInv)'
    BY RegNextKeeps
<1> QED BY <1>1, <1>2, RegInitHolds, PTL DEF RegSpec

(* A script does not fire again within its cooldown, however its bot is    *)
(* reloaded in between: a cooldown is never older than the last firing.    *)
THEOREM CooldownHolds == RegSpec => CooldownKept
<1> DEFINE Apart == \A k \in Key : lastFiring'[k] # lastFiring[k] /\ lastFiring[k] # -1 /\ lastFiring'[k] # -1
                        => lastFiring'[k] - lastFiring[k] >= Cooldown[k.id]
<1>1. (RegInv /\ CooldownInv) /\ [RegNext]_regVars => (RegInv /\ CooldownInv)' /\ [Apart]_regVars
    BY RegNextKeeps
<1>2. CooldownKept <=> [][Apart]_regVars
    BY DEF CooldownKept
<1> HIDE DEF Apart
<1> QED BY <1>1, <1>2, RegInitHolds, PTL DEF RegSpec

-----------------------------------------------------------------------------
(***************************************************************************)
(* For any patterns, parameters and drafts: the limits of the generators,  *)
(* of the validation and of the engine agree.  The argument: the places at *)
(* which a keyword list still fits its budget are the first ones, so that  *)
(* the words joined up to their number fit; the capped texts and the       *)
(* clamped interval lie within the limits of the validation, and those lie *)
(* within the engine's.                                                    *)
(***************************************************************************)

(* A set of numbers that is not empty has a least one.                     *)
LEMMA LeastNumber == ASSUME NEW T \in SUBSET Nat, T # {} PROVE \E x \in T : \A y \in T : x <= y
<1> DEFINE Upto(x) == 0..x
           Upper == {Upto(x) : x \in T}
<1>1. Upper \in SUBSET FiniteSubsetsOf(Nat) /\ Upper # {}
  <2>1. ASSUME NEW x \in T PROVE Upto(x) \in FiniteSubsetsOf(Nat)
    <3>1. x \in Int /\ 0 \in Int OBVIOUS
    <3>2. IsFiniteSet(0..x) BY <3>1, FS_Interval
    <3>3. 0..x \in SUBSET Nat OBVIOUS
    <3> QED BY <3>2, <3>3 DEF FiniteSubsetsOf
  <2> QED BY <2>1
<1>2. PICK X \in Upper : \A Y \in Upper : ~(<<Y, X>> \in StrictSubsetOrdering(Nat))
  BY <1>1, FS_StrictSubsetOrderingWellFounded, WFMin
<1>3. PICK x \in T : X = Upto(x) BY <1>2
<1>4. ASSUME NEW y \in T, y < x PROVE FALSE
  <2>1. Upto(y) \in SUBSET Nat /\ Upto(x) \in SUBSET Nat OBVIOUS
  <2>2. x \in Upto(x) /\ x \notin Upto(y) BY <1>4
  <2>3. Upto(y) \subseteq Upto(x) BY <1>4
  <2>4. Upto(y) \in Upper OBVIOUS
  <2> HIDE DEF Upto
  <2>5. <<Upto(y), Upto(x)>> \in StrictSubsetOrdering(Nat) BY <2>1, <2>2, <2>3 DEF StrictSubsetOrdering
  <2> QED BY <1>2, <1>3, <2>4, <2>5
<1> QED BY <1>4

(* What n joined words measure, from what the words before the last do.    *)
LengthAt(words, f, n) == IF n = 0 THEN 0 ELSE f[n - 1] + words[n] + (IF n > 1 THEN 1 ELSE 0)

(* Joined is the function its recursion describes: one exists for every    *)
(* number of words, since the least number without one could take it from  *)
(* the number before.                                                      *)
LEMMA JoinedUnfolds ==
    ASSUME NEW words \in Seq(Nat)
    PROVE  Joined(words) = [n \in 0..Len(words) |-> LengthAt(words, Joined(words), n)]
<1> DEFINE Solves(f, n) == f \in [0..n -> Nat] /\ \A m \in 0..n : f[m] = LengthAt(words, f, m)
           L == Len(words)
           T == {n \in 0..L : ~\E f : Solves(f, n)}
<1>1. L \in Nat /\ \A n \in 1..L : words[n] \in Nat BY LenProperties, ElementOfSeq
<1>2. T = {}
  <2> SUFFICES ASSUME T # {} PROVE FALSE OBVIOUS
  <2>1. PICK n \in T : \A m \in T : n <= m
    <3>1. T \in SUBSET Nat OBVIOUS
    <3> HIDE DEF T
    <3> QED BY <3>1, LeastNumber
  <2>2. CASE n = 0
    <3> DEFINE g == [m \in {0} |-> 0]
    <3>1. 0..0 = {0} OBVIOUS
    <3>2. g \in [0..0 -> Nat] /\ g[0] = 0 BY <3>1
    <3>3. LengthAt(words, g, 0) = 0 BY DEF LengthAt
    <3>4. Solves(g, 0) BY <3>1, <3>2, <3>3
    <3>5. ~\E h : Solves(h, 0) BY <2>1, <2>2
    <3> HIDE DEF Solves, g
    <3> QED BY <3>4, <3>5
  <2>3. CASE n # 0
    <3>1. n \in 0..L /\ (\A m \in T : m \in Nat) BY <1>1, <2>1
    <3>8. n \in 1..L /\ n - 1 \in 0..L /\ ~(n <= n - 1)
      <4> HIDE DEF T, Solves
      <4> QED BY <1>1, <2>3, <3>1
    <3>9. n - 1 \notin T
      <4> HIDE DEF T, Solves
      <4> QED BY <2>1, <3>8
    <3>7. PICK f : Solves(f, n - 1)
      <4> HIDE DEF Solves
      <4> QED BY <3>8, <3>9
    <3> DEFINE g == [m \in 0..n |-> IF m = n THEN LengthAt(words, f, n) ELSE f[m]]
    <3>3. LengthAt(words, f, n) \in Nat
      <4>1. f[n - 1] \in Nat /\ words[n] \in Nat
        <5>1. n - 1 \in 0..(n - 1) BY <1>1, <3>8
        <5> QED BY <1>1, <3>8, <3>7, <5>1
      <4>2. n # 0 /\ (n > 1 \/ ~(n > 1)) BY <2>3
      <4> HIDE DEF L, T, Solves, g
      <4> QED BY <4>1, <4>2 DEF LengthAt
    <3>4. g \in [0..n -> Nat] BY <3>8, <3>7, <3>3
    <3>5. \A m \in 0..n : g[m] = LengthAt(words, g, m) BY <3>8, <3>7 DEF LengthAt
    <3>6. Solves(g, n) BY <3>4, <3>5
    <3> QED BY <3>6
  <2> QED BY <2>2, <2>3
<1>3. PICK f : Solves(f, L)
  <2>1. L \notin T /\ L \in 0..L BY <1>1, <1>2
  <2> QED BY <2>1
<1>4. f = [n \in 0..L |-> LengthAt(words, f, n)] BY <1>3
<1> QED BY <1>4 DEF Joined, LengthAt

(* Joined words have a length.                                             *)
LEMMA JoinedNumbers == ASSUME NEW words \in Seq(Nat) PROVE Joined(words) \in [0..Len(words) -> Nat]
<1> DEFINE f == Joined(words)
           L == Len(words)
           T == {n \in 0..L : f[n] \notin Nat}
<1>1. L \in Nat /\ \A n \in 1..L : words[n] \in Nat BY LenProperties, ElementOfSeq
<1>2. f = [n \in 0..L |-> LengthAt(words, f, n)] BY JoinedUnfolds
<1> HIDE DEF f, L
<1>3. T = {}
  <2> SUFFICES ASSUME T # {} PROVE FALSE OBVIOUS
  <2>1. PICK n \in T : \A m \in T : n <= m
    <3>1. T \in SUBSET Nat OBVIOUS
    <3> HIDE DEF T
    <3> QED BY <3>1, LeastNumber
  <2>2. n # 0 BY <1>1, <1>2 DEF LengthAt
  <2>3. n - 1 \in 0..L /\ n - 1 \notin T /\ n \in 1..L BY <1>1, <2>1, <2>2
  <2>4. f[n - 1] \in Nat /\ f[n] = LengthAt(words, f, n) /\ words[n] \in Nat BY <1>1, <1>2, <2>3
  <2> QED BY <2>2, <2>4 DEF LengthAt
<1>4. DOMAIN f = 0..L /\ f = [n \in DOMAIN f |-> f[n]] BY <1>2
<1>5. f \in [0..L -> Nat] BY <1>3, <1>4
<1> QED BY <1>5 DEF f, L

(* A set of places that leaves none out before its last is an interval.    *)
LEMMA InitialPart ==
    ASSUME NEW n \in Nat, NEW S \in SUBSET (1..n), \A i \in S : \A j \in 1..i : j \in S
    PROVE  Cardinality(S) \in 0..n /\ S = 1..Cardinality(S)
<1> DEFINE c == Cardinality(S)
<1>1. IsFiniteSet(1..n) /\ \A m \in Nat : IsFiniteSet(1..m) /\ Cardinality(1..m) = m
  <2>1. ASSUME NEW m \in Nat PROVE IsFiniteSet(1..m) /\ Cardinality(1..m) = m
    <3>1. IsFiniteSet(1..m) /\ Cardinality(1..m) = IF 1 > m THEN 0 ELSE m - 1 + 1 BY FS_Interval
    <3>2. (IF 1 > m THEN 0 ELSE m - 1 + 1) = m OBVIOUS
    <3> QED BY <3>1, <3>2
  <2>2. IsFiniteSet(1..n) BY <2>1
  <2> QED BY <2>1, <2>2
<1>2. c \in 0..n /\ IsFiniteSet(S)
  <2>1. IsFiniteSet(1..n) /\ Cardinality(1..n) = n BY <1>1
  <2>2. IsFiniteSet(S) /\ c <= Cardinality(1..n) BY <2>1, FS_Subset
  <2>3. c \in Nat BY <2>2, FS_CardinalityType
  <2> HIDE DEF c
  <2> QED BY <2>1, <2>2, <2>3
<1>3. ASSUME NEW i \in S PROVE i <= c
  <2>1. 1..i \in SUBSET S /\ i \in Nat OBVIOUS
  <2>2. IsFiniteSet(S) BY <1>1, FS_Subset
  <2>3. Cardinality(1..i) <= c BY <2>1, <2>2, FS_Subset
  <2> QED BY <1>1, <2>1, <2>3
<1>4. ASSUME NEW j \in 1..c PROVE j \in S
  <2> SUFFICES ASSUME j \notin S PROVE FALSE OBVIOUS
  <2>1. S \in SUBSET (1..(j - 1))
    <3> SUFFICES ASSUME NEW i \in S PROVE i \in 1..(j - 1) OBVIOUS
    <3>1. ~(j \in 1..i) OBVIOUS
    <3> QED BY <1>2, <3>1
  <2>2. c <= j - 1
    <3>1. j - 1 \in Nat
      <4> HIDE DEF c
      <4> QED BY <1>2
    <3>2. IsFiniteSet(1..(j - 1)) /\ Cardinality(1..(j - 1)) = j - 1 BY <1>1, <3>1
    <3>3. c <= Cardinality(1..(j - 1)) BY <2>1, <3>2, FS_Subset
    <3> QED BY <3>2, <3>3
  <2> HIDE DEF c
  <2> QED BY <1>2, <2>2
<1> HIDE DEF c
<1>5. S = 1..c
  <2>1. 1..c \subseteq S BY <1>4
  <2>2. ASSUME NEW i \in S PROVE i \in 1..c
    <3>1. i \in 1..n /\ i <= c BY <1>3
    <3> QED BY <1>2, <3>1
  <2> QED BY <2>1, <2>2
<1> QED BY <1>2, <1>5 DEF c

(* keywordRegex stops before the word that passes the budget, for any list *)
(* of words: what it returns is the empty text or fits.                    *)
LEMMA KeywordFits == ASSUME NEW words \in Seq(Nat) PROVE KeywordRegex(words) \in 0..MAX_KEYWORD_REGEX
<1> DEFINE given == IF words = <<>> THEN <<4>> ELSE words
           F == Fitting(given)
           c == Cardinality(F)
           f == Joined(given)
<1>1. given \in Seq(Nat) OBVIOUS
<1> HIDE DEF given
<1>2. Len(given) \in Nat BY <1>1, LenProperties
<1>3. F \in SUBSET (1..Len(given)) /\ \A i \in F : \A j \in 1..i : j \in F BY <1>2 DEF Fitting
<1>4. c \in 0..Len(given) /\ F = 1..c BY <1>2, <1>3, InitialPart
<1>5. f \in [0..Len(given) -> Nat] /\ f[0] = 0
  <2>1. f = [n \in 0..Len(given) |-> LengthAt(given, f, n)] BY <1>1, JoinedUnfolds
  <2>2. f[0] = 0 BY <1>2, <2>1 DEF LengthAt
  <2> QED BY <1>1, <2>2, JoinedNumbers
<1>6. c # 0 => f[c] \in 0..MAX_KEYWORD_REGEX
  <2>1. c # 0 => c \in F BY <1>2, <1>4
  <2> QED BY <1>2, <1>4, <2>1 DEF Fitting
<1>7. KeywordRegex(words) = f[c] BY DEF KeywordRegex, given
<1>8. 0 \in 0..MAX_KEYWORD_REGEX BY DEF MAX_KEYWORD_REGEX
<1> HIDE DEF f, c
<1> QED BY <1>5, <1>6, <1>7, <1>8

(* An action that asks for nothing but text, which the generators cap.     *)
Plain(a) == a.depth \in 0..1 /\ a.type \notin {"custom", "delay", "webhook"} /\ ~a.unsafeCondition /\ a.len \in Nat /\ a.len <= MAX_TEXT_LENGTH

(* The walk over a chain accepts a few plain actions.                      *)
LEMMA PlainActionsWalk ==
    ASSUME NEW actions, Len(actions) <= 3, \A a \in ElementsOf(actions) : Plain(a)
    PROVE  WalkActions(actions)
<1>2. Len(actions) <= MAX_ACTIONS BY DEF MAX_ACTIONS
<1>3. ASSUME NEW a \in ElementsOf(actions)
      PROVE  /\ a.depth <= MAX_NESTING /\ ~a.unsafeCondition /\ a.len <= MAX_PAYLOAD_STRING
             /\ a.type \notin {"custom", "delay", "webhook"}
  <2>1. a.depth \in 0..1 /\ a.len \in Nat /\ a.len <= MAX_TEXT_LENGTH /\ ~a.unsafeCondition
        /\ a.type \notin {"custom", "delay", "webhook"}
    BY DEF Plain
  <2>2. a.depth <= MAX_NESTING BY <2>1 DEF MAX_NESTING
  <2>3. a.len <= MAX_PAYLOAD_STRING BY <2>1 DEF MAX_TEXT_LENGTH, MAX_PAYLOAD_STRING
  <2> QED BY <2>1, <2>2, <2>3
<1> QED BY <1>2, <1>3 DEF WalkActions

(* The actions the capped patterns generate are plain.                     *)
LEMMA PlainAction ==
    ASSUME NEW type \in {"reply", "random_reply", "say", "increment_counter", "if", "log"},
           NEW depth \in 0..1, NEW len \in 0..MAX_TEXT_LENGTH
    PROVE  Plain(Action(type, depth, len))
BY DEF Plain, Action

(* A regex that fits passes the check of the filters.                      *)
LEMMA OneFilter == ASSUME NEW len \in 0..MAX_REGEX_LENGTH PROVE CheckFilters(<<Filter("regex", len)>>)
<1> DEFINE f == Filter("regex", len)
<1>1. f.type = "regex" /\ f.len = len /\ f.nested = FALSE BY DEF Filter
<1>2. ElementsOf(<<f>>) = {f} BY DEF ElementsOf
<1>3. Len(<<f>>) <= MAX_FILTERS BY DEF MAX_FILTERS
<1> HIDE DEF f
<1>4. IsRegexSafe(f) BY <1>1 DEF IsRegexSafe, MAX_REGEX_LENGTH
<1>5. CheckFilters(<<f>>) BY <1>1, <1>2, <1>3, <1>4 DEF CheckFilters
<1> QED BY <1>5 DEF f

(* The keyword budget leaves room for what the patterns put around the     *)
(* words.                                                                  *)
LEMMA RegexFits ==
    ASSUME NEW words \in Seq(Nat)
    PROVE  /\ KeywordBoundaryRegex(words) \in 0..MAX_REGEX_LENGTH
           /\ KeywordRegex(words) + PREFIX_LENGTH \in 0..MAX_REGEX_LENGTH
           /\ 30 \in 0..MAX_REGEX_LENGTH
<1> DEFINE k == KeywordRegex(words)
<1>1. k \in 0..MAX_KEYWORD_REGEX BY KeywordFits
<1> HIDE DEF k
<1>2. k + BOUNDARY_LENGTH \in 0..MAX_REGEX_LENGTH /\ k + PREFIX_LENGTH \in 0..MAX_REGEX_LENGTH
  BY <1>1, SMT DEF BOUNDARY_LENGTH, PREFIX_LENGTH, MAX_KEYWORD_REGEX, MAX_REGEX_LENGTH
<1>3. 30 \in 0..MAX_REGEX_LENGTH BY SMT DEF MAX_REGEX_LENGTH
<1> QED BY <1>2, <1>3 DEF KeywordBoundaryRegex, k

(* The seconds of a heartbeat are clamped to what the validation accepts.  *)
LEMMA Clamped ==
    ASSUME NEW r \in Int
    PROVE  LET c == Most(10, Least(86400, r)) IN c \in Int /\ 10 <= c /\ c <= 86400
BY SMT DEF Most, Least

(* Whole seconds, written in tenths.                                       *)
LEMMA Tenths ==
    ASSUME NEW c \in Int, 10 <= c, c <= 86400
    PROVE  c * 10 \in Int /\ (c * 10) % 10 = 0 /\ 100 <= c * 10 /\ c * 10 <= 864000
<1>1. (c * 10) % 10 = 0 BY SMT
<1>2. c * 10 \in Int /\ 100 <= c * 10 /\ c * 10 <= 864000 BY SMT
<1> QED BY <1>1, <1>2

(* Setting one number of a config leaves its other parts.                  *)
LEMMA NumbersReplaced ==
    ASSUME NEW c, NEW f, NEW a, NEW i, NEW d, NEW e, NEW m,
           c = [filters |-> f, actions |-> a, cooldown |-> d, interval |-> e, maxExecutionMs |-> m]
    PROVE  /\ [c EXCEPT !.interval = i]
                  = [filters |-> f, actions |-> a, cooldown |-> d, interval |-> i, maxExecutionMs |-> m]
           /\ [c EXCEPT !.cooldown = i]
                  = [filters |-> f, actions |-> a, cooldown |-> i, interval |-> e, maxExecutionMs |-> m]
BY SMT

(* So does a config without filters.                                       *)
LEMMA NoFilter == CheckFilters(<<>>)
<1>1. ElementsOf(<<>>) = {} BY DEF ElementsOf
<1> QED BY <1>1 DEF CheckFilters, MAX_FILTERS

(* Capped text is no longer than the cap.                                  *)
LEMMA CappedText == ASSUME NEW n \in Nat PROVE CapText(n) \in 0..MAX_TEXT_LENGTH
BY DEF CapText, Least, MAX_TEXT_LENGTH

(* Chains of one and of two plain actions are accepted.                     *)
LEMMA OneAction == ASSUME NEW a, Plain(a) PROVE WalkActions(<<a>>)
<1>1. ElementsOf(<<a>>) = {a} /\ Len(<<a>>) <= 3 BY DEF ElementsOf
<1> QED BY <1>1, PlainActionsWalk

(* As for one.                                                             *)
LEMMA TwoActions == ASSUME NEW a, NEW b, Plain(a), Plain(b) PROVE WalkActions(<<a, b>>)
<1>1. ElementsOf(<<a, b>>) = {a, b} /\ Len(<<a, b>>) <= 3 BY DEF ElementsOf
<1> QED BY <1>1, PlainActionsWalk

(* With filters and actions that pass, a config without numbers passes,    *)
(* and so does one with a whole cooldown of at most a day.                 *)
LEMMA NumbersOfConfig ==
    ASSUME NEW filters, NEW actions, CheckFilters(filters), WalkActions(actions)
    PROVE  /\ ValidateScriptConfig(Config(filters, actions))
           /\ \A n \in Int : n % 10 = 0 /\ n <= 864000 =>
                  ValidateScriptConfig(WithCooldown(Config(filters, actions), n))
<1> DEFINE c == Config(filters, actions)
<1>1. c = [filters |-> filters, actions |-> actions, cooldown |-> {}, interval |-> {}, maxExecutionMs |-> {}]
  BY DEF Config
<1>2. ValidateScriptConfig(c) BY <1>1 DEF ValidateScriptConfig, IntegerBetween
<1>3. ASSUME NEW n \in Int, n % 10 = 0, n <= 864000 PROVE ValidateScriptConfig(WithCooldown(c, n))
  <2>1. CASE n > 0
    <3>1. WithCooldown(c, n) = [filters |-> filters, actions |-> actions, cooldown |-> {n}, interval |-> {}, maxExecutionMs |-> {}]
      BY <1>1, <2>1 DEF WithCooldown
    <3>2. IntegerBetween({n}, 0, 86400) BY <1>3, <2>1 DEF IntegerBetween
    <3> QED BY <3>1, <3>2 DEF ValidateScriptConfig, IntegerBetween
  <2>2. CASE ~(n > 0) BY <1>2, <2>2 DEF WithCooldown
  <2> QED BY <2>1, <2>2
<1> QED BY <1>2, <1>3

(* Which generator each pattern has.                                       *)
LEMMA Generated ==
    ASSUME NEW p, NEW words, NEW len, NEW n
    PROVE  /\ p \in {"auto-reply", "moderation"} => Generate(p, words, len, n) = KeywordReply(words, len, n)
           /\ p = "link-guard" => Generate(p, words, len, n) = LinkGuard(len, n)
           /\ p = "random-response" => Generate(p, words, len, n) = RandomResponse(words, len)
           /\ p = "welcome" => Generate(p, words, len, n) = Welcome(len)
           /\ p = "counter" => Generate(p, words, len, n) = CounterTracker(len)
           /\ p = "donation-thanks" => Generate(p, words, len, n) = DonationThanks(len)
           /\ p = "heartbeat" => Generate(p, words, len, n) = Heartbeat(len, n)
BY Zenon DEF Generate

(* Whatever its parameters, a config of a budgeted pattern is accepted.     *)
LEMMA BudgetedAccepted ==
    ASSUME NEW p \in BudgetedPatterns, NEW words \in Seq(Nat), NEW len \in Nat, NEW n \in Int
    PROVE  ValidateScriptConfig(Generate(p, words, len, n))
<1>1. CapText(len) \in 0..MAX_TEXT_LENGTH /\ 0 \in 0..MAX_TEXT_LENGTH
  <2>1. CapText(len) \in 0..MAX_TEXT_LENGTH BY CappedText
  <2>2. 0 \in 0..MAX_TEXT_LENGTH BY DEF MAX_TEXT_LENGTH
  <2> QED BY <2>1, <2>2
<1>2. CASE p = "random-response"
  <2>1. KeywordRegex(words) + PREFIX_LENGTH \in 0..MAX_REGEX_LENGTH BY RegexFits
  <2>2. WalkActions(<<Action("random_reply", 0, 0)>>) BY <1>1, PlainAction, OneAction
  <2>3. ValidateScriptConfig(RandomResponse(words, len)) BY <2>1, <2>2, OneFilter, NumbersOfConfig DEF RandomResponse
  <2>9. Generate(p, words, len, n) = RandomResponse(words, len) BY <1>2, Generated
  <2> QED BY <2>3, <2>9
<1>3. CASE p = "welcome"
  <2>1. WalkActions(<<Action("say", 0, CapText(len))>>) BY <1>1, PlainAction, OneAction
  <2>2. ValidateScriptConfig(Welcome(len)) BY <2>1, NoFilter, NumbersOfConfig DEF Welcome
  <2>9. Generate(p, words, len, n) = Welcome(len) BY <1>3, Generated
  <2> QED BY <2>2, <2>9
<1>4. CASE p = "counter"
  <2>1. WalkActions(<<Action("increment_counter", 0, 0), Action("reply", 0, CapText(len))>>)
    BY <1>1, PlainAction, TwoActions
  <2>2. ValidateScriptConfig(CounterTracker(len)) BY <2>1, NoFilter, NumbersOfConfig DEF CounterTracker
  <2>9. Generate(p, words, len, n) = CounterTracker(len) BY <1>4, Generated
  <2> QED BY <2>2, <2>9
<1>5. CASE p = "donation-thanks"
  <2>1. WalkActions(<<Action("if", 0, 0), Action("reply", 1, CapText(len))>>)
    BY <1>1, PlainAction, TwoActions
  <2>2. ValidateScriptConfig(DonationThanks(len)) BY <2>1, NoFilter, NumbersOfConfig DEF DonationThanks
  <2>9. Generate(p, words, len, n) = DonationThanks(len) BY <1>5, Generated
  <2> QED BY <2>2, <2>9
<1>6. CASE p = "heartbeat"
  <2> DEFINE clamped == Most(10, Least(86400, (n + 5) \div 10))
             interval == clamped * 10
             actions == <<Action("log", 0, CapText(len))>>
  <2>1. WalkActions(actions) BY <1>1, PlainAction, OneAction
  <2>2. clamped \in Int /\ 10 <= clamped /\ clamped <= 86400
    <3>1. (n + 5) \div 10 \in Int OBVIOUS
    <3> QED BY <3>1, Clamped
  <2>3. Heartbeat(len, n) = [[Config(<<>>, actions) EXCEPT !.interval = {interval}]
                                EXCEPT !.cooldown = {interval}]
    BY DEF Heartbeat
  <2> HIDE DEF clamped
  <2>4. interval \in Int /\ interval % 10 = 0 /\ 100 <= interval /\ interval <= 864000
    BY <2>2, Tenths
  <2> HIDE DEF interval, actions
  <2>5. IntegerBetween({interval}, 0, 86400) /\ IntegerBetween({interval}, 1, 86400)
    BY <2>4, SMT DEF IntegerBetween
  <2>6. Heartbeat(len, n) = [filters |-> <<>>, actions |-> actions, cooldown |-> {interval},
                             interval |-> {interval}, maxExecutionMs |-> {}]
    BY <2>3, NumbersReplaced DEF Config
  <2>7. ValidateScriptConfig(Heartbeat(len, n))
    BY <2>1, <2>5, <2>6, NoFilter DEF ValidateScriptConfig, IntegerBetween
  <2>9. Generate(p, words, len, n) = Heartbeat(len, n) BY <1>6, Generated
  <2> QED BY <2>7, <2>9
<1> QED BY <1>2, <1>3, <1>4, <1>5, <1>6 DEF BudgetedPatterns

(* Keyword replies and the link guard are accepted with a cooldown that is *)
(* whole and at most a day, and without one.                               *)
LEMMA RepliesAccepted ==
    ASSUME NEW p \in {"auto-reply", "moderation", "link-guard"}, NEW words \in Seq(Nat), NEW len \in Nat,
           NEW n \in Int, n % 10 = 0, n <= 864000
    PROVE  ValidateScriptConfig(Generate(p, words, len, n))
<1>1. WalkActions(<<Action("reply", 0, CapText(len))>>)
  BY CappedText, PlainAction, OneAction
<1>2. KeywordBoundaryRegex(words) \in 0..MAX_REGEX_LENGTH /\ 30 \in 0..MAX_REGEX_LENGTH BY RegexFits
<1> DEFINE worded == <<Filter("regex", KeywordBoundaryRegex(words))>>
           linked == <<Filter("regex", 30)>>
           actions == <<Action("reply", 0, CapText(len))>>
<1>3. CheckFilters(worded) /\ CheckFilters(linked) BY <1>2, OneFilter
<1>4. KeywordReply(words, len, n) = WithCooldown(Config(worded, actions), n)
      /\ LinkGuard(len, n) = WithCooldown(Config(linked, actions), n)
  BY DEF KeywordReply, LinkGuard
<1> HIDE DEF worded, linked, actions
<1>5. ValidateScriptConfig(KeywordReply(words, len, n)) /\ ValidateScriptConfig(LinkGuard(len, n))
  BY <1>1, <1>3, <1>4, NumbersOfConfig, SMT DEF actions
<1> QED BY <1>5, Generated, SMT

(* What is stored passed the walk, what is refused was generated and did   *)
(* not pass.                                                               *)
CfgInv ==
    /\ \A c \in stored : WalkActions(c.actions)
    /\ \A r \in refused : \E p \in Patterns, w \in WordLists, l \in TextLengths, n \in Numbers :
           r = <<p, w, l, n>> /\ ~ValidateScriptConfig(Generate(p, w, l, n))

(* Both writers validate what they write.                                  *)
LEMMA CfgInvHolds == CfgSpec => []CfgInv
<1>1. CfgInit => CfgInv BY DEF CfgInit, CfgInv
<1>2. CfgInv /\ [CfgNext]_cfgVars => CfgInv'
  <2> SUFFICES ASSUME CfgInv, [CfgNext]_cfgVars PROVE CfgInv' OBVIOUS
  <2>1. CASE UNCHANGED cfgVars BY <2>1 DEF cfgVars, CfgInv
  <2>2. ASSUME NEW p \in Patterns, NEW w \in WordLists, NEW l \in TextLengths, NEW n \in Numbers,
               GenerateScript(p, w, l, n)
        PROVE  CfgInv'
    <3> DEFINE c == Generate(p, w, l, n)
    <3>1. CASE ValidateScriptConfig(c)
      <4>1. WalkActions(c.actions) BY <3>1 DEF ValidateScriptConfig
      <4>2. stored' = stored \cup {c} /\ refused' = refused BY <2>2, <3>1 DEF GenerateScript
      <4> HIDE DEF c
      <4> QED BY <4>1, <4>2 DEF CfgInv
    <3>2. CASE ~ValidateScriptConfig(c)
      <4>1. stored' = stored /\ refused' = refused \cup {<<p, w, l, n>>} BY <2>2, <3>2 DEF GenerateScript
      <4> QED BY <3>2, <4>1 DEF CfgInv
    <3> QED BY <3>1, <3>2
  <2>3. ASSUME NEW c \in Drafts, CreateConfig(c) \/ PatchConfig(c) PROVE CfgInv'
    <3>1. WalkActions(c.actions) /\ stored' = stored \cup {c} /\ refused' = refused
      BY <2>3 DEF CreateConfig, PatchConfig, ValidateScriptConfig
    <3> QED BY <3>1 DEF CfgInv
  <2> QED BY <2>1, <2>2, <2>3 DEF CfgNext
<1> QED BY <1>1, <1>2, PTL DEF CfgSpec

(* For any words, texts, numbers and drafts: no parameters make generation *)
(* fail for a pattern that budgets or clamps them, and the engine runs     *)
(* every action of a stored config as it is written.                       *)
THEOREM ConfigsAreAccepted == CfgSpec => []ConfigsAccepted
<1>1. CfgInv => GeneratedAccepted
  <2> SUFFICES ASSUME CfgInv, NEW r \in refused
               PROVE  /\ r[1] \notin BudgetedPatterns
                      /\ r[1] \in {"auto-reply", "moderation", "link-guard"} =>
                             r[4] % 10 # 0 \/ r[4] > 864000
    BY DEF GeneratedAccepted
  <2>1. PICK p \in Patterns, w \in WordLists, l \in TextLengths, n \in Numbers :
            r = <<p, w, l, n>> /\ ~ValidateScriptConfig(Generate(p, w, l, n))
    BY DEF CfgInv
  <2>2. w \in Seq(Nat) /\ l \in Nat /\ n \in Int BY ConfigAssumption
  <2>3. p \notin BudgetedPatterns BY <2>1, <2>2, BudgetedAccepted
  <2>4. p \in {"auto-reply", "moderation", "link-guard"} => n % 10 # 0 \/ n > 864000
    BY <2>1, <2>2, RepliesAccepted
  <2> QED BY <2>1, <2>3, <2>4
<1>2. CfgInv => StoredActionsRun
  <2> SUFFICES ASSUME CfgInv, NEW c \in stored, NEW a \in ElementsOf(c.actions) PROVE ActionRuns(a)
    BY DEF StoredActionsRun
  <2>1. WalkActions(c.actions) BY DEF CfgInv
  <2> QED BY <2>1 DEF WalkActions, ActionRuns, CheckCode
<1> QED BY <1>1, <1>2, CfgInvHolds, PTL DEF ConfigsAccepted

=============================================================================
