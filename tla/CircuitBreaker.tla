--------------------------- MODULE CircuitBreaker ---------------------------
(***************************************************************************)
(* One CircuitBreaker object and any number of callers: every method may   *)
(* be called in every state and in any order, as BaseWorker does (connect  *)
(* jobs report successes that no canAttempt() preceded, dropped            *)
(* connections report failures, dashboards only query).                    *)
(***************************************************************************)
EXTENDS BreakerOps

VARIABLES breaker,    \* the object's fields
          lastCall    \* history: the last call and, for canAttempt, its result

vars == <<breaker, lastCall>>

Call == {"none", "granted", "refused", "query", "success", "failure", "reset", "tick"}

TypeOK == breaker \in Breaker /\ lastCall \in Call

Init == breaker = NewBreaker /\ lastCall = "none"

(* canAttempt() *)
CanAttempt == /\ breaker' = AfterCanAttempt(breaker)
              /\ lastCall' = IF Allows(breaker) THEN "granted" ELSE "refused"

(* getState() and remainingCooldownMs(): a query that may turn half-open. *)
Query == breaker' = TryHalfOpen(breaker) /\ lastCall' = "query"

RecordSuccess == breaker' = AfterSuccess(breaker) /\ lastCall' = "success"

RecordFailure == breaker' = AfterFailure(breaker) /\ lastCall' = "failure"

Reset == breaker' = ResetCircuit(breaker) /\ lastCall' = "reset"

Tick == breaker' = Age(breaker) /\ lastCall' = "tick"

Next == CanAttempt \/ Query \/ RecordSuccess \/ RecordFailure \/ Reset \/ Tick

Spec == Init /\ [][Next]_vars

-----------------------------------------------------------------------------
(* The promise: an AttemptGate.  A half-open breaker is a barred gate whose *)
(* wait is over; an open one still has its whole budget.                    *)
Barred == breaker.state # "closed"

Gate == INSTANCE AttemptGate WITH
          CoolDown <- ResetTimeout,
          Budget   <- SuccessThreshold,
          barred   <- Barred,
          wait     <- CASE breaker.state = "closed"    -> 0
                        [] breaker.state = "open"      -> breaker.elapsed
                        [] breaker.state = "half_open" -> ResetTimeout,
          budget   <- CASE breaker.state = "closed"    -> 0
                        [] breaker.state = "open"      -> SuccessThreshold
                        [] breaker.state = "half_open" -> breaker.probesRemaining,
          passed   <- lastCall = "granted"

(* Whatever the callers do, the breaker is an AttemptGate: no attempt is   *)
(* let through during the cooldown that follows a trip, and at most        *)
(* SuccessThreshold attempts between a trip and the next trip or close     *)
(* (header comment of circuit-breaker.ts, canAttempt).                     *)
GateSpec == Gate!Spec

(* A half-open breaker can still take the successes it needs: those        *)
(* recorded so far are fewer than the threshold, and a closed breaker is   *)
(* below its failure threshold (open/close reset the right counters).      *)
CountersBelowThreshold ==
  /\ breaker.halfOpenSuccesses < SuccessThreshold
  /\ breaker.state = "closed" => breaker.failures < FailureThreshold
  /\ breaker.state # "half_open" =>
       breaker.halfOpenSuccesses = 0 /\ breaker.probesRemaining = 0

(* A caller is refused only while a cooldown runs, which time alone ends,  *)
(* even if every probe is abandoned without a report (the comment in       *)
(* canAttempt: "the breaker never stays wedged in half_open with           *)
(* canAttempt()=false").                                                   *)
RefusalPasses == lastCall = "refused" => breaker.state = "open"

(* The breaker works in every order of calls: it counts what it needs to   *)
(* close and open again, and a refusal passes.                             *)
BreakerHolds == TypeOK /\ CountersBelowThreshold /\ RefusalPasses
=============================================================================
