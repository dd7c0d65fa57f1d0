-------------------------- MODULE BreakerOpsProofs --------------------------
(***************************************************************************)
(* Lemmas about the operators of BreakerOps, for every threshold and every *)
(* cooldown: what each method of a circuit breaker does to a well-formed   *)
(* one.  The proofs about CircuitBreaker and about BotControl, which holds *)
(* a breaker per bot, cite them instead of expanding the operators.        *)
(***************************************************************************)
EXTENDS BreakerOps, TLAPS

(* What each operator does to a well-formed breaker: the facts the step    *)
(* proofs use, so that they need not expand the operators again.           *)
GoodBreaker(b) ==
  /\ b \in Breaker
  /\ b.halfOpenSuccesses < SuccessThreshold
  /\ b.state = "closed" => b.failures < FailureThreshold
  /\ b.state # "half_open" => b.halfOpenSuccesses = 0 /\ b.probesRemaining = 0

(* The initial breaker is well-formed. *)
LEMMA NewBreakerGood == GoodBreaker(NewBreaker)
  BY BreakerAssumption DEF GoodBreaker, NewBreaker, Breaker, CircuitState

(* tryHalfOpen, open and close keep a breaker well-formed. *)
LEMMA TransitionsGood ==
  ASSUME NEW b, GoodBreaker(b)
  PROVE  /\ GoodBreaker(TryHalfOpen(b))
         /\ GoodBreaker(OpenCircuit(b))
         /\ GoodBreaker(CloseCircuit(b))
         /\ GoodBreaker(Age(b))
<1>1. GoodBreaker(TryHalfOpen(b))
  BY BreakerAssumption DEF GoodBreaker, TryHalfOpen, CooledDown, Breaker, CircuitState
<1>2. GoodBreaker(OpenCircuit(b))
  BY BreakerAssumption DEF GoodBreaker, OpenCircuit, Breaker, CircuitState
<1>3. GoodBreaker(CloseCircuit(b))
  BY BreakerAssumption DEF GoodBreaker, CloseCircuit, Breaker, CircuitState
<1>4. GoodBreaker(Age(b))
  BY BreakerAssumption DEF GoodBreaker, Age, Breaker, CircuitState
<1> QED BY <1>1, <1>2, <1>3, <1>4

(* canAttempt keeps a breaker well-formed. *)
LEMMA CanAttemptGood ==
  ASSUME NEW b, GoodBreaker(b)
  PROVE  GoodBreaker(AfterCanAttempt(b))
<1> DEFINE h == TryHalfOpen(b)
<1>1. GoodBreaker(h) /\ GoodBreaker(OpenCircuit(h))
  BY TransitionsGood
<1>2. CASE h.state = "half_open" /\ h.probesRemaining > 0
  <2>1. AfterCanAttempt(b) = [h EXCEPT !.probesRemaining = @ - 1]
    BY <1>1, <1>2 DEF AfterCanAttempt, GoodBreaker, Breaker
  <2> HIDE DEF h
  <2> QED BY <1>1, <1>2, <2>1, BreakerAssumption DEF GoodBreaker, Breaker
<1>3. CASE ~(h.state = "half_open" /\ h.probesRemaining > 0)
  <2>1. AfterCanAttempt(b) \in {h, OpenCircuit(h)}
    BY <1>1, <1>3 DEF AfterCanAttempt, GoodBreaker, Breaker
  <2> QED BY <1>1, <2>1
<1> QED BY <1>2, <1>3

(* A reported success or failure keeps a breaker well-formed. *)
LEMMA ReportsGood ==
  ASSUME NEW b, GoodBreaker(b)
  PROVE  GoodBreaker(AfterSuccess(b)) /\ GoodBreaker(AfterFailure(b))
<1>1. b.state \in {"open", "half_open", "closed"}
  BY DEF GoodBreaker, Breaker, CircuitState
<1>2. GoodBreaker(AfterSuccess(b))
  <2>1. CASE b.state = "open"
    BY <2>1 DEF AfterSuccess
  <2>2. CASE b.state = "half_open"
    <3>1. CASE b.halfOpenSuccesses + 1 >= SuccessThreshold
      BY <2>2, <3>1, TransitionsGood DEF AfterSuccess
    <3>2. CASE ~(b.halfOpenSuccesses + 1 >= SuccessThreshold)
      BY <2>2, <3>2, BreakerAssumption DEF AfterSuccess, GoodBreaker, Breaker
    <3> QED BY <3>1, <3>2
  <2>3. CASE b.state = "closed"
    BY <2>3, BreakerAssumption DEF AfterSuccess, GoodBreaker, Breaker
  <2> QED BY <1>1, <2>1, <2>2, <2>3
<1>3. GoodBreaker(AfterFailure(b))
  <2>1. CASE b.state = "open"
    BY <2>1 DEF AfterFailure
  <2>2. CASE b.state = "half_open"
    BY <2>2, TransitionsGood DEF AfterFailure
  <2>3. CASE b.state = "closed"
    BY <2>3, BreakerAssumption DEF AfterFailure, OpenCircuit, GoodBreaker, Breaker, CircuitState
  <2> QED BY <1>1, <2>1, <2>2, <2>3
<1> QED BY <1>2, <1>3

(* A breaker that lets the attempt through which a backoff delay is for.   *)
Ready(b) == b.state = "closed" \/ (b.state = "half_open" /\ b.probesRemaining > 0)

(* canAttempt() answers yes when the breaker is ready, and when an open    *)
(* one has cooled down: the half-open state starts with a probe at least.  *)
LEMMA ReadyAllows ==
  ASSUME NEW b, GoodBreaker(b), Ready(b) \/ CooledDown(b)
  PROVE  Allows(b)
<1>1. CASE CooledDown(b)
  BY <1>1, BreakerAssumption DEF Allows, TryHalfOpen
<1>2. CASE Ready(b) /\ ~CooledDown(b)
  BY <1>2 DEF Allows, TryHalfOpen, Ready
<1> QED BY <1>1, <1>2

(* What scheduleReconnect finds after a failure: an open breaker, for      *)
(* which it waits, or one that is ready.                                   *)
LEMMA RetryIsReady ==
  ASSUME NEW b, GoodBreaker(b)
  PROVE  LET r == TryHalfOpen(AfterFailure(b))
         IN  r.state = "open" \/ Ready(r)
<1> DEFINE f == AfterFailure(b)
<1>1. GoodBreaker(f) /\ f.state \in {"closed", "open"}
  <2>1. GoodBreaker(f)
    BY ReportsGood
  <2>2. f.state \in {"closed", "open"}
    BY BreakerAssumption DEF AfterFailure, OpenCircuit, GoodBreaker, Breaker, CircuitState
  <2> QED BY <2>1, <2>2
<1> HIDE DEF f
<1>2. TryHalfOpen(f).state = "open" \/ Ready(TryHalfOpen(f))
  BY <1>1, BreakerAssumption DEF TryHalfOpen, CooledDown, Ready
<1> QED BY <1>2 DEF f

(* A success and the passing of time leave a ready breaker ready and an    *)
(* open one open.                                                          *)
LEMMA ReadyStays ==
  ASSUME NEW b, GoodBreaker(b)
  PROVE  /\ Ready(b) => Ready(AfterSuccess(b)) /\ Ready(Age(b))
         /\ b.state = "open" => AfterSuccess(b).state = "open" /\ Age(b).state = "open"
  BY BreakerAssumption DEF Ready, AfterSuccess, Age, CloseCircuit, GoodBreaker, Breaker, CircuitState
=============================================================================
