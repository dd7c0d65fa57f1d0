----------------------------- MODULE BreakerOps -----------------------------
(***************************************************************************)
(* The per-bot connection circuit breaker of                               *)
(* packages/core/src/resilience/circuit-breaker.ts, as operators on a      *)
(* breaker record.  The absolute times `now` and `openedAt` are replaced   *)
(* by their difference `elapsed`, the number of clock units since the      *)
(* breaker opened, which stops counting at ResetTimeout: the code only     *)
(* ever compares now - openedAt with resetTimeoutMs, and only while the    *)
(* breaker is open, so `elapsed` is 0 in the two other states.             *)
(***************************************************************************)
EXTENDS Integers

CONSTANTS FailureThreshold,   \* options.failureThreshold, 5 by default
          SuccessThreshold,   \* options.successThreshold, 2 by default
          ResetTimeout        \* options.resetTimeoutMs, in clock units

ASSUME BreakerAssumption ==
  /\ FailureThreshold \in Nat \ {0}
  /\ SuccessThreshold \in Nat \ {0}
  /\ ResetTimeout \in Nat \ {0}

CircuitState == {"closed", "open", "half_open"}

Breaker == [state             : CircuitState,
            failures          : 0..FailureThreshold,
            elapsed           : 0..ResetTimeout,
            halfOpenSuccesses : 0..SuccessThreshold,
            probesRemaining   : 0..SuccessThreshold]

NewBreaker == [state             |-> "closed",
               failures          |-> 0,
               elapsed           |-> 0,
               halfOpenSuccesses |-> 0,
               probesRemaining   |-> 0]

(* close(): back to normal operation. *)
CloseCircuit(b) == [state |-> "closed", failures |-> 0, elapsed |-> 0,
                    halfOpenSuccesses |-> 0, probesRemaining |-> 0]

(* open(): a fresh cooldown.  `failures` keeps its value. *)
OpenCircuit(b) == [state |-> "open", failures |-> b.failures, elapsed |-> 0,
                   halfOpenSuccesses |-> 0, probesRemaining |-> 0]

(* reset(): what close() assigns. *)
ResetCircuit(b) == CloseCircuit(b)

(* Mutant of CooledDown: the cooldown ends one unit early. *)
CooledDownEarly(b) == b.state = "open" /\ b.elapsed >= ResetTimeout - 1

(* The cooldown of an open breaker is over. *)
CooledDown(b) == b.state = "open" /\ b.elapsed >= ResetTimeout

(* tryHalfOpen(): every query first turns a cooled-down breaker half-open. *)
TryHalfOpen(b) ==
  IF CooledDown(b)
  THEN [state |-> "half_open", failures |-> b.failures, elapsed |-> 0,
        halfOpenSuccesses |-> 0, probesRemaining |-> SuccessThreshold]
  ELSE b

(* Mutant of Allows: canAttempt() forgets tryHalfOpen(). *)
AllowsWithoutHalfOpening(b) ==
  b.state = "closed" \/ (b.state = "half_open" /\ b.probesRemaining > 0)

(* Mutant of AfterCanAttempt: an exhausted half-open breaker is not        *)
(* reopened.                                                               *)
AfterCanAttemptWedged(b) ==
  LET h == TryHalfOpen(b)
  IN  IF h.state = "half_open" /\ h.probesRemaining > 0
      THEN [h EXCEPT !.probesRemaining = @ - 1] ELSE h

(* The value canAttempt() returns, and the breaker it leaves behind. *)
Allows(b) ==
  LET h == TryHalfOpen(b)
  IN  h.state = "closed" \/ (h.state = "half_open" /\ h.probesRemaining > 0)

AfterCanAttempt(b) ==
  LET h == TryHalfOpen(b)
  IN  IF h.state # "half_open" THEN h
      ELSE IF h.probesRemaining <= 0 THEN OpenCircuit(h)
      ELSE [h EXCEPT !.probesRemaining = @ - 1]

(* recordSuccess() and recordFailure(): neither looks at the clock. *)
AfterSuccess(b) ==
  CASE b.state = "open"      -> b
    [] b.state = "half_open" ->
         IF b.halfOpenSuccesses + 1 >= SuccessThreshold
         THEN CloseCircuit(b)
         ELSE [b EXCEPT !.halfOpenSuccesses = @ + 1]
    [] b.state = "closed"    -> [b EXCEPT !.failures = 0]

AfterFailure(b) ==
  CASE b.state = "half_open" -> OpenCircuit(b)
    [] b.state = "open"      -> b
    [] b.state = "closed"    ->
         LET f == [b EXCEPT !.failures = @ + 1]
         IN  IF f.failures >= FailureThreshold THEN OpenCircuit(f) ELSE f

(* One unit of wall-clock time passes. *)
Age(b) == IF b.state = "open" /\ b.elapsed < ResetTimeout
          THEN [b EXCEPT !.elapsed = @ + 1] ELSE b
=============================================================================
