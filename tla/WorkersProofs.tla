--------------------------- MODULE WorkersProofs ----------------------------
(***************************************************************************)
(* Proofs about the parts that surround a bot in its worker, one section   *)
(* for each: the circuit breaker, the outbound path, the proxies, the      *)
(* metrics, the feeds and trades of crypto bots, Bluesky's session, the    *)
(* bot's memory, the polled feeds, the sleep schedule and the send budget. *)
(***************************************************************************)
EXTENDS BreakerOpsProofs, CircuitBreaker, Outbound, Proxies, Metrics, CryptoFeeds, Trading,
        AtpSession, BotMemory, PolledFeeds, Cadence, RateLimits, FiniteSetTheorems, SequenceTheorems,
        WellFoundedInduction, TLAPS

-----------------------------------------------------------------------------
(***************************************************************************)
(* Proofs about CircuitBreaker for every threshold and every cooldown.     *)
(* The inductive invariant is TypeOK with CountersBelowThreshold: TypeOK   *)
(* alone is not inductive, because a failure recorded at the threshold     *)
(* would leave 0..FailureThreshold.                                        *)
(***************************************************************************)

IInv == TypeOK /\ CountersBelowThreshold

(* The fields stay in their ranges and the success and failure counts of   *)
(* the breaker stay below their thresholds, whatever the callers do.       *)
THEOREM CountersSafe == Spec => [](TypeOK /\ CountersBelowThreshold)
<1>1. Init => IInv
  BY NewBreakerGood DEF Init, IInv, TypeOK, CountersBelowThreshold, GoodBreaker, Call
<1>2. IInv /\ [Next]_vars => IInv'
  <2> SUFFICES ASSUME IInv, [Next]_vars PROVE IInv'
    OBVIOUS
  <2>1. GoodBreaker(breaker)
    BY DEF IInv, TypeOK, CountersBelowThreshold, GoodBreaker
  <2>2. GoodBreaker(breaker') /\ lastCall' \in Call
    <3>1. CASE CanAttempt
      BY <2>1, <3>1, CanAttemptGood DEF CanAttempt, Call
    <3>2. CASE Query
      BY <2>1, <3>2, TransitionsGood DEF Query, Call
    <3>3. CASE RecordSuccess
      BY <2>1, <3>3, ReportsGood DEF RecordSuccess, Call
    <3>4. CASE RecordFailure
      BY <2>1, <3>4, ReportsGood DEF RecordFailure, Call
    <3>5. CASE Reset
      BY <2>1, <3>5, TransitionsGood DEF Reset, ResetCircuit, Call
    <3>6. CASE Tick
      BY <2>1, <3>6, TransitionsGood DEF Tick, Call
    <3>7. CASE UNCHANGED vars
      BY <2>1, <3>7 DEF vars, IInv, TypeOK
    <3> QED BY <3>1, <3>2, <3>3, <3>4, <3>5, <3>6, <3>7 DEF Next
  <2> QED BY <2>2 DEF IInv, TypeOK, CountersBelowThreshold, GoodBreaker
<1>3. IInv => TypeOK /\ CountersBelowThreshold
  BY DEF IInv
<1> QED BY <1>1, <1>2, <1>3, PTL DEF Spec

(* A refusal leaves the breaker open: half-open ones that have no probe    *)
(* left are opened by the very call they refuse.                           *)
THEOREM RefusalsPass == Spec => []RefusalPasses
<1>1. Init => RefusalPasses
  BY DEF Init, RefusalPasses
<1>2. TypeOK /\ CountersBelowThreshold /\ RefusalPasses /\ [Next]_vars => RefusalPasses'
  <2> SUFFICES ASSUME TypeOK, CountersBelowThreshold, RefusalPasses, [Next]_vars
               PROVE  RefusalPasses'
    OBVIOUS
  <2>1. CASE CanAttempt
    <3> DEFINE h == TryHalfOpen(breaker)
    <3>1. GoodBreaker(breaker)
      BY DEF TypeOK, CountersBelowThreshold, GoodBreaker
    <3>2. h.state \in CircuitState /\ h.probesRemaining \in 0..SuccessThreshold
      BY <3>1, TransitionsGood DEF GoodBreaker, Breaker
    <3>3. breaker' = AfterCanAttempt(breaker) /\ lastCall' = IF Allows(breaker) THEN "granted" ELSE "refused"
      BY <2>1 DEF CanAttempt
    <3>4. CASE Allows(breaker)
      BY <3>3, <3>4 DEF RefusalPasses
    <3>5. CASE h.state = "open"
      <4>1. breaker' = h
        BY <3>3, <3>5 DEF AfterCanAttempt
      <4> QED BY <3>5, <4>1 DEF RefusalPasses
    <3>6. CASE h.state = "half_open" /\ h.probesRemaining <= 0
      <4>1. breaker' = OpenCircuit(h)
        BY <3>3, <3>6 DEF AfterCanAttempt
      <4> QED BY <4>1 DEF RefusalPasses, OpenCircuit
    <3>7. Allows(breaker) \/ h.state = "open" \/ (h.state = "half_open" /\ h.probesRemaining <= 0)
      <4>1. h.state \in {"closed", "open", "half_open"} /\ h.probesRemaining \in Int
        BY <3>2, BreakerAssumption DEF CircuitState
      <4>2. Allows(breaker) <=> h.state = "closed" \/ (h.state = "half_open" /\ h.probesRemaining > 0)
        BY DEF Allows
      <4> HIDE DEF h
      <4> QED BY <4>1, <4>2
    <3> QED BY <3>4, <3>5, <3>6, <3>7
  <2>2. CASE Query \/ RecordSuccess \/ RecordFailure \/ Reset \/ Tick
    BY <2>2 DEF Query, RecordSuccess, RecordFailure, Reset, Tick, RefusalPasses
  <2>3. CASE UNCHANGED vars
    BY <2>3 DEF vars, RefusalPasses
  <2> QED BY <2>1, <2>2, <2>3 DEF Next
<1> QED BY <1>1, <1>2, CountersSafe, PTL DEF Spec

-----------------------------------------------------------------------------
(* The refinement mapping, with names for the proof below.                 *)
GWait(b) == CASE b.state = "closed"    -> 0
              [] b.state = "open"      -> b.elapsed
              [] b.state = "half_open" -> ResetTimeout
GBudget(b) == CASE b.state = "closed"    -> 0
                [] b.state = "open"      -> SuccessThreshold
                [] b.state = "half_open" -> b.probesRemaining

(* A query maps to a stutter of the gate: an open breaker whose cooldown   *)
(* is over and a fresh half-open one are the same gate.                    *)
LEMMA TryHalfOpenIsSilent ==
  ASSUME NEW b, GoodBreaker(b)
  PROVE  /\ TryHalfOpen(b).state # "closed" <=> b.state # "closed"
         /\ GWait(TryHalfOpen(b)) = GWait(b)
         /\ GBudget(TryHalfOpen(b)) = GBudget(b)
<1> DEFINE h == TryHalfOpen(b)
<1>1. b.state \in CircuitState /\ b.elapsed \in 0..ResetTimeout
  BY DEF GoodBreaker, Breaker
<1>2. CASE CooledDown(b)
  <2>1. /\ h.state = "half_open" /\ h.probesRemaining = SuccessThreshold
        /\ b.state = "open" /\ b.elapsed = ResetTimeout
    BY <1>1, <1>2, BreakerAssumption DEF TryHalfOpen, CooledDown
  <2>2. /\ h.state # "closed" <=> b.state # "closed"
        /\ GWait(h) = GWait(b)
        /\ GBudget(h) = GBudget(b)
    <3> HIDE DEF h
    <3> QED BY <2>1 DEF GWait, GBudget
  <2> QED BY <2>2 DEF h
<1>3. CASE ~CooledDown(b)
  BY <1>3 DEF TryHalfOpen
<1> QED BY <1>2, <1>3

(* The breaker's invariant, for all thresholds and every order of calls.   *)
THEOREM BreakerWorks == Spec => []BreakerHolds
BY CountersSafe, RefusalsPass, PTL DEF BreakerHolds

(* The circuit breaker implements the attempt gate, for all thresholds:    *)
(* nobody passes during the cooldown, at most SuccessThreshold attempts    *)
(* pass between a trip and the next trip or close.                         *)
THEOREM ImplementsGate == Spec => GateSpec
<1> DEFINE w == GWait(breaker)
           g == GBudget(breaker)
<1>1. Init => Gate!Init
  BY DEF Init, Gate!Init, NewBreaker, Barred
<1>2. TypeOK /\ CountersBelowThreshold /\ [Next]_vars => [Gate!Next]_(Gate!vars)
  <2> SUFFICES ASSUME TypeOK, CountersBelowThreshold, [Next]_vars
               PROVE  [Gate!Next]_(Gate!vars)
    OBVIOUS
  <2>1. GoodBreaker(breaker)
    BY DEF TypeOK, CountersBelowThreshold, GoodBreaker
  <2>2. /\ breaker.state \in CircuitState
        /\ breaker.elapsed \in 0..ResetTimeout
        /\ breaker.probesRemaining \in 0..SuccessThreshold
    BY <2>1 DEF GoodBreaker, Breaker
  <2>3. CASE CanAttempt
    <3> DEFINE h == TryHalfOpen(breaker)
    <3>1. GoodBreaker(h) /\ h.state \in CircuitState /\ h.probesRemaining \in 0..SuccessThreshold
      BY <2>1, TransitionsGood DEF GoodBreaker, Breaker
    <3>2. /\ h.state # "closed" <=> breaker.state # "closed"
          /\ GWait(h) = GWait(breaker)
          /\ GBudget(h) = GBudget(breaker)
      BY <2>1, TryHalfOpenIsSilent
    <3>3. breaker' = AfterCanAttempt(breaker)
          /\ lastCall' = IF Allows(breaker) THEN "granted" ELSE "refused"
      BY <2>3 DEF CanAttempt
    <3>4. CASE h.state = "closed"
      <4>1. breaker' = h /\ lastCall' = "granted"
        BY <3>3, <3>4 DEF AfterCanAttempt, Allows
      <4> HIDE DEF h
      <4>2. Gate!Pass
        BY <3>2, <3>4, <4>1 DEF Gate!Pass, Barred, GWait, GBudget
      <4> QED BY <4>2 DEF Gate!Next
    <3>5. CASE h.state = "open"
      <4>1. breaker' = h /\ lastCall' = "refused"
        BY <3>3, <3>5 DEF AfterCanAttempt, Allows
      <4> HIDE DEF h
      <4>2. Gate!Refuse
        BY <3>2, <3>5, <4>1 DEF Gate!Refuse, Barred, GWait, GBudget
      <4> QED BY <4>2 DEF Gate!Next
    <3>6. CASE h.state = "half_open" /\ h.probesRemaining > 0
      <4>1. breaker' = [h EXCEPT !.probesRemaining = @ - 1] /\ lastCall' = "granted"
        BY <3>1, <3>3, <3>6 DEF AfterCanAttempt, Allows
      <4>2. h \in Breaker
        BY <3>1 DEF GoodBreaker
      <4> HIDE DEF h
      <4>3. breaker'.state = "half_open" /\ breaker'.probesRemaining = h.probesRemaining - 1
        BY <4>1, <4>2, <3>6 DEF Breaker
      <4>4. GWait(h) = ResetTimeout /\ GBudget(h) = h.probesRemaining
        BY <3>6 DEF GWait, GBudget
      <4>5. Gate!Pass
        BY <3>1, <3>2, <3>6, <4>1, <4>3, <4>4 DEF Gate!Pass, Barred, GWait, GBudget
      <4> QED BY <4>5 DEF Gate!Next
    <3>7. CASE h.state = "half_open" /\ h.probesRemaining = 0
      <4>1. breaker' = OpenCircuit(h) /\ lastCall' = "refused"
        BY <3>3, <3>7 DEF AfterCanAttempt, Allows
      <4> HIDE DEF h
      <4>2. Gate!Bar
        BY <4>1 DEF Gate!Bar, Barred, OpenCircuit
      <4> QED BY <4>2 DEF Gate!Next
    <3> QED BY <3>1, <3>4, <3>5, <3>6, <3>7 DEF CircuitState
  <2>4. CASE Query
    <3>1. breaker' = TryHalfOpen(breaker) /\ lastCall' = "query"
      BY <2>4 DEF Query
    <3>2. /\ breaker'.state # "closed" <=> breaker.state # "closed"
          /\ GWait(breaker') = GWait(breaker)
          /\ GBudget(breaker') = GBudget(breaker)
      BY <2>1, <3>1, TryHalfOpenIsSilent
    <3>3. Gate!Refuse
      BY <3>1, <3>2 DEF Gate!Refuse, Barred, GWait, GBudget
    <3> QED BY <3>3 DEF Gate!Next
  <2>5. CASE RecordSuccess
    <3>1. breaker' = AfterSuccess(breaker) /\ lastCall' = "success"
      BY <2>5 DEF RecordSuccess
    <3>2. CASE breaker.state = "half_open" /\ breaker.halfOpenSuccesses + 1 >= SuccessThreshold
      <4>1. Gate!Unbar
        BY <3>1, <3>2 DEF Gate!Unbar, Barred, AfterSuccess, CloseCircuit
      <4> QED BY <4>1 DEF Gate!Next
    <3>3. CASE ~(breaker.state = "half_open" /\ breaker.halfOpenSuccesses + 1 >= SuccessThreshold)
      <4>1. /\ breaker'.state = breaker.state
            /\ breaker'.elapsed = breaker.elapsed
            /\ breaker'.probesRemaining = breaker.probesRemaining
        BY <2>1, <2>2, <3>1, <3>3 DEF AfterSuccess, GoodBreaker, Breaker, CircuitState
      <4>2. Gate!Refuse
        BY <3>1, <4>1 DEF Gate!Refuse, Barred
      <4> QED BY <4>2 DEF Gate!Next
    <3> QED BY <3>2, <3>3
  <2>6. CASE RecordFailure
    <3>1. breaker' = AfterFailure(breaker) /\ lastCall' = "failure"
      BY <2>6 DEF RecordFailure
    <3>2. CASE \E b : breaker' = OpenCircuit(b)
      <4>1. Gate!Bar
        BY <3>1, <3>2 DEF Gate!Bar, Barred, OpenCircuit
      <4> QED BY <4>1 DEF Gate!Next
    <3>3. CASE ~ \E b : breaker' = OpenCircuit(b)
      <4>1. /\ breaker'.state = breaker.state
            /\ breaker'.elapsed = breaker.elapsed
            /\ breaker'.probesRemaining = breaker.probesRemaining
        <5>1. CASE breaker.state = "half_open"
          BY <3>1, <3>3, <5>1 DEF AfterFailure
        <5>2. CASE breaker.state = "open"
          BY <3>1, <5>2 DEF AfterFailure
        <5>3. CASE breaker.state = "closed"
          <6>1. breaker' = [breaker EXCEPT !.failures = @ + 1]
            BY <3>1, <3>3, <5>3 DEF AfterFailure
          <6> QED BY <6>1, <2>1 DEF GoodBreaker, Breaker
        <5> QED BY <2>2, <5>1, <5>2, <5>3 DEF CircuitState
      <4>2. Gate!Refuse
        BY <3>1, <4>1 DEF Gate!Refuse, Barred
      <4> QED BY <4>2 DEF Gate!Next
    <3> QED BY <3>2, <3>3
  <2>7. CASE Reset
    <3>1. Gate!Unbar
      BY <2>7 DEF Reset, ResetCircuit, CloseCircuit, Gate!Unbar, Barred
    <3> QED BY <3>1 DEF Gate!Next
  <2>8. CASE Tick
    <3>1. breaker' = Age(breaker) /\ lastCall' = "tick"
      BY <2>8 DEF Tick
    <3>2. CASE breaker.state = "open" /\ breaker.elapsed < ResetTimeout
      <4>1. /\ breaker'.state = "open"
            /\ breaker'.elapsed = breaker.elapsed + 1
        BY <2>1, <3>1, <3>2 DEF Age, GoodBreaker, Breaker
      <4>2. Gate!Wait
        BY <3>1, <3>2, <4>1 DEF Gate!Wait, Barred
      <4> QED BY <4>2 DEF Gate!Next
    <3>3. CASE ~(breaker.state = "open" /\ breaker.elapsed < ResetTimeout)
      <4>1. Gate!Refuse
        BY <3>1, <3>3 DEF Gate!Refuse, Barred, Age
      <4> QED BY <4>1 DEF Gate!Next
    <3> QED BY <3>2, <3>3
  <2>9. CASE UNCHANGED vars
    BY <2>9 DEF vars, Gate!vars, Barred
  <2> QED BY <2>3, <2>4, <2>5, <2>6, <2>7, <2>8, <2>9 DEF Next
<1> QED BY <1>1, <1>2, CountersSafe, PTL DEF Spec, GateSpec, Gate!Spec

-----------------------------------------------------------------------------
(***************************************************************************)
(* Outbound: what an account that warms up posts. The posts counted today  *)
(* and the posts that have passed the check are, together, at most the cap *)
(* less one and the callers: each step from the check to the count moves   *)
(* one from the second to the first. A new entry has an id of its own, so  *)
(* a call that is still under way for the entry before it counts for       *)
(* nothing.                                                                *)
(***************************************************************************)

Entries == [id : Nat, running : BOOLEAN, warming : BOOLEAN, started : Nat, lastDay : Nat,
            posts : Nat, actions : Nat, ok : Nat, bad : Nat, limited : Nat,
            pause : Nat, coolDown : BOOLEAN]
CallState == [at : {"idle", "cooling", "budget", "delay", "execute"}, kind : Kind, id : Nat]

OutTypes == /\ day \in Nat /\ calls \in Nat
            /\ entry \in Entries /\ caller \in [Caller -> CallState]

(* An entry that is not warming has counted nothing, so its first post of  *)
(* a warming period finds the whole cap.                                   *)
Counts == ~entry.warming => entry.posts = 0

Warm(e, d) == e.warming /\ d - e.started < WarmingDays
Posting(f, i) == {c \in Caller : f[c].at # "idle" /\ f[c].kind = "post" /\ f[c].id = i}

(* Written for any entry, calls and day, so that a step can be followed    *)
(* from the one to the other.                                              *)
Within(e, f, d) ==
    Warm(e, d) => e.posts + Cardinality(Posting(f, e.id)) <= MaxDailyPosts - 1 + Cardinality(Caller)

OutInv == OutTypes /\ Counts /\ Within(entry, caller, day)

LEMMA PostingFinite ==
    ASSUME NEW f, NEW i
    PROVE  /\ IsFiniteSet(Posting(f, i)) /\ Cardinality(Posting(f, i)) \in Nat
           /\ Cardinality(Caller) \in Nat /\ Cardinality(Posting(f, i)) <= Cardinality(Caller)
BY OutboundAssumption, FS_Subset, FS_CardinalityType DEF Posting

(* With fewer than the cap counted, whatever is under way is within it.    *)
LEMMA RoomEnough ==
    ASSUME NEW e, NEW f, NEW d, e.posts \in Nat, e.posts < MaxDailyPosts PROVE Within(e, f, d)
<1> DEFINE m == Cardinality(Posting(f, e.id))
           n == Cardinality(Caller)
           k == e.posts
<1>1. m \in Nat /\ n \in Nat /\ m <= n BY PostingFinite
<1>2. k \in Nat /\ k < MaxDailyPosts /\ MaxDailyPosts \in Nat BY OutboundAssumption
<1>3. Within(e, f, d) <=> (Warm(e, d) => k + m <= MaxDailyPosts - 1 + n) BY DEF Within
<1> HIDE DEF m, n, k
<1> QED BY <1>1, <1>2, <1>3

(* Fewer under way, and no more counted: still within.                     *)
LEMMA StaysWithin ==
    ASSUME NEW e, NEW f, NEW d, NEW e1, NEW f1, NEW d1, Within(e, f, d),
           e.posts \in Nat, e1.posts = e.posts, Warm(e1, d1) => Warm(e, d),
           Posting(f1, e1.id) \subseteq Posting(f, e.id)
    PROVE  Within(e1, f1, d1)
<1> DEFINE m == Cardinality(Posting(f, e.id))
           m1 == Cardinality(Posting(f1, e1.id))
           n == Cardinality(Caller)
           k == e.posts
<1>1. m \in Nat /\ m1 \in Nat /\ n \in Nat BY PostingFinite
<1>2. m1 <= m BY PostingFinite, FS_Subset
<1>3. Within(e, f, d) <=> (Warm(e, d) => k + m <= MaxDailyPosts - 1 + n) BY DEF Within
<1>4. Within(e1, f1, d1) <=> (Warm(e1, d1) => k + m1 <= MaxDailyPosts - 1 + n) BY DEF Within
<1>5. k \in Nat /\ MaxDailyPosts \in Nat BY OutboundAssumption
<1> HIDE DEF m, m1, n, k
<1> QED BY <1>1, <1>2, <1>3, <1>4, <1>5

LEMMA EnsuredTypes ==
    ASSUME OutTypes, Counts, NEW e, e = Ensured(entry)
    PROVE  /\ e \in Entries /\ (~e.warming => e.posts = 0)
           /\ e = entry \/ (e.posts = 0 /\ ~e.warming)
BY DEF OutTypes, Counts, Ensured, FreshEntry, Entries

LEMMA NewDayTypes ==
    ASSUME NEW e \in Entries, day \in Nat, NEW f, f = NewDay(e)
    PROVE  /\ f \in Entries /\ f.warming = e.warming /\ f.started = e.started /\ f.id = e.id
           /\ f.posts = e.posts \/ f.posts = 0
BY DEF NewDay, Entries

LEMMA OutStart == OutInit => OutInv
<1> SUFFICES ASSUME OutInit PROVE OutInv OBVIOUS
<1>1. PICK w \in BOOLEAN : entry = FreshEntry(1, w) BY DEF OutInit
<1>2. day = 0 /\ calls = 0 /\ caller = [c \in Caller |-> Resting] BY DEF OutInit
<1>3. entry \in Entries /\ entry.posts = 0 BY <1>1, <1>2 DEF FreshEntry, Entries
<1>4. Resting \in CallState BY DEF Resting, CallState, Kind
<1>5. OutTypes BY <1>2, <1>3, <1>4 DEF OutTypes
<1>6. Within(entry, caller, day) BY <1>3, RoomEnough, OutboundAssumption
<1> QED BY <1>3, <1>5, <1>6 DEF OutInv, Counts

LEMMA Begins == ASSUME OutInv, NEW c \in Caller, NEW kind \in Kind, BeginAction(c, kind) PROVE OutInv'
<1> DEFINE e == Ensured(entry)
           f == IF e.warming /\ kind # "exempt" THEN NewDay(e) ELSE e
           g == IF e.pause > 0 THEN e ELSE f
<1>1. OutTypes /\ Counts /\ Within(entry, caller, day) BY DEF OutInv
<1>2. e \in Entries /\ (~e.warming => e.posts = 0) /\ (e = entry \/ (e.posts = 0 /\ ~e.warming))
  BY <1>1, EnsuredTypes
<1>3. f \in Entries /\ f.warming = e.warming /\ f.started = e.started /\ f.id = e.id
      /\ (f.posts = e.posts \/ f.posts = 0)
  BY <1>1, <1>2, NewDayTypes DEF OutTypes
<1>4. g \in Entries /\ g.warming = e.warming /\ g.started = e.started /\ g.id = e.id
      /\ (g.posts = e.posts \/ g.posts = 0)
  BY <1>2, <1>3
<1>5. entry' = g /\ calls' = calls + 1 /\ day' = day /\ caller[c].at = "idle"
      /\ caller' = IF e.pause = 0 /\ WarmingAllows(f, kind)
                   THEN [caller EXCEPT ![c] = [at   |-> IF e.coolDown THEN "cooling" ELSE "budget",
                                               kind |-> kind, id |-> e.id]]
                   ELSE caller
  BY DEF BeginAction
<1> HIDE DEF e
<1>6. e.id \in Nat /\ e.coolDown \in BOOLEAN BY <1>2 DEF Entries
<1>7. caller' \in [Caller -> CallState]
  <2>1. [at |-> IF e.coolDown THEN "cooling" ELSE "budget", kind |-> kind, id |-> e.id] \in CallState
    BY <1>6 DEF CallState
  <2> QED BY <1>1, <1>5, <2>1 DEF OutTypes
<1>8. OutTypes' /\ Counts' BY <1>1, <1>2, <1>4, <1>5, <1>7 DEF OutTypes, Counts
<1>9. Within(g, caller', day)
  <2> SUFFICES ASSUME Warm(g, day) PROVE Within(g, caller', day) BY DEF Within
  <2>1. g.posts \in Nat /\ f.posts \in Nat /\ e.posts \in Nat /\ g.warming /\ day - g.started < WarmingDays
    BY <1>2, <1>3, <1>4 DEF Entries, Warm
  <2>2. CASE g.posts = 0 BY <2>1, <2>2, RoomEnough, OutboundAssumption
  <2>3. CASE g.posts # 0
    <3>1. g.posts = e.posts /\ e = entry BY <2>3, <1>2, <1>4
    <3>2. CASE kind = "post" /\ caller' # caller
      <4>1. WarmingAllows(f, kind) /\ e.pause = 0 BY <3>2, <1>5
      <4>2. f.warming /\ ~(day - f.started >= WarmingDays)
        BY <2>1, <1>1, <1>2, <1>3, <1>4, OutboundAssumption DEF OutTypes, Entries
      <4>3. f.posts < MaxDailyPosts BY <4>1, <4>2, <3>2 DEF WarmingAllows
      <4>4. g.posts = 0 \/ g.posts < MaxDailyPosts BY <4>1, <4>3
      <4> QED BY <2>1, <4>4, RoomEnough, OutboundAssumption
    <3>3. CASE ~(kind = "post" /\ caller' # caller)
      <4>1. Posting(caller', g.id) \subseteq Posting(caller, entry.id)
        <5>1. g.id = entry.id BY <3>1, <1>4
        <5>2. CASE caller' = caller BY <5>1, <5>2
        <5>3. CASE kind # "post"
          <6>1. \A j \in Caller : caller'[j] = caller[j] \/ caller'[j].kind # "post"
            BY <5>3, <1>1, <1>5 DEF OutTypes
          <6> QED BY <5>1, <6>1 DEF Posting
        <5> QED BY <3>3, <5>2, <5>3
      <4>2. Warm(entry, day) BY <3>1, <1>4, <2>1 DEF Warm
      <4>3. entry.posts \in Nat /\ g.posts = entry.posts BY <3>1, <2>1
      <4> HIDE DEF g
      <4> QED BY <1>1, <4>1, <4>2, <4>3, StaysWithin
    <3> QED BY <3>2, <3>3
  <2> QED BY <2>2, <2>3
<1>10. Within(entry, caller, day)' BY <1>5, <1>9 DEF Within, Warm, Posting
<1> QED BY <1>8, <1>10 DEF OutInv

(* A call that goes on or gives up puts nothing under way.                 *)
LEMMA GoesOn ==
    ASSUME OutTypes, NEW c \in Caller, NEW s \in CallState, caller' = [caller EXCEPT ![c] = s],
           s.at # "idle" => s.kind = caller[c].kind /\ s.id = caller[c].id /\ caller[c].at # "idle",
           NEW i
    PROVE  caller' \in [Caller -> CallState] /\ Posting(caller', i) \subseteq Posting(caller, i)
BY DEF OutTypes, Posting

LEMMA EntryStep ==
    ASSUME OutInv, day' \in Nat, calls' \in Nat, entry' \in Entries, caller' \in [Caller -> CallState],
           ~entry'.warming => entry'.posts = 0,
           entry'.posts = 0
             \/ /\ entry'.posts = entry.posts /\ entry'.id = entry.id
                /\ Warm(entry', day') => Warm(entry, day)
                /\ Posting(caller', entry.id) \subseteq Posting(caller, entry.id)
    PROVE  OutInv'
<1>1. OutTypes /\ Counts /\ Within(entry, caller, day) BY DEF OutInv
<1>2. OutTypes' /\ Counts' BY DEF OutTypes, Counts
<1>3. entry.posts \in Nat /\ entry'.posts \in Nat BY <1>1 DEF OutTypes, Entries
<1> DEFINE e1 == entry'
           f1 == caller'
           d1 == day'
<1>4. Within(e1, f1, d1)
  <2>1. CASE e1.posts = 0
    <3>1. e1.posts < MaxDailyPosts /\ e1.posts \in Nat BY <2>1, OutboundAssumption
    <3> HIDE DEF e1, f1, d1
    <3> QED BY <3>1, RoomEnough
  <2>2. CASE e1.posts # 0
    <3>1. e1.posts = entry.posts /\ e1.id = entry.id /\ (Warm(e1, d1) => Warm(entry, day))
          /\ Posting(f1, e1.id) \subseteq Posting(caller, entry.id)
      BY <2>2
    <3> HIDE DEF e1, f1, d1
    <3> QED BY <1>1, <1>3, <3>1, StaysWithin
  <2> QED BY <2>1, <2>2
<1>5. Within(entry, caller, day)' BY <1>4 DEF Within, Warm, Posting
<1> QED BY <1>2, <1>5 DEF OutInv

LEMMA HealedTypes ==
    ASSUME NEW e \in Entries
    PROVE  /\ Healed(e) \in Entries /\ Healed(e).posts = e.posts /\ Healed(e).id = e.id
           /\ Healed(e).warming = e.warming /\ Healed(e).started = e.started
<1>1. PauseLength \in Nat BY OutboundAssumption
<1>2. Healed(e) = e \/ Healed(e) = [e EXCEPT !.pause = PauseLength] \/ Healed(e) = [e EXCEPT !.coolDown = TRUE]
  BY DEF Healed
<1> QED BY <1>1, <1>2 DEF Entries

LEMMA OutKeeps == OutInv /\ [OutNext]_outVars => OutInv'
<1> SUFFICES ASSUME OutInv, [OutNext]_outVars PROVE OutInv' OBVIOUS
<1>a. OutTypes /\ Counts BY DEF OutInv
<1>b. /\ day \in Nat /\ calls \in Nat /\ entry \in Entries /\ caller \in [Caller -> CallState]
      /\ ~entry.warming => entry.posts = 0
  BY <1>a DEF OutTypes, Counts
<1>c. Resting \in CallState BY DEF Resting, CallState, Kind
<1>0. CASE UNCHANGED outVars
  BY <1>0, <1>b, EntryStep DEF outVars, Warm, Posting
<1>1. ASSUME NEW c \in Caller, NEW kind \in Kind, BeginAction(c, kind) PROVE OutInv'
  BY <1>1, Begins
<1>2. ASSUME NEW c \in Caller, Cooled(c) \/ BudgetRefuses(c) \/ Delayed(c) PROVE OutInv'
  <2>1. UNCHANGED <<entry, day, calls, humanDelay>> BY <1>2 DEF Cooled, BudgetRefuses, Delayed
  <2>2. \E s \in CallState :
          /\ caller' = [caller EXCEPT ![c] = s]
          /\ s.at # "idle" => s.kind = caller[c].kind /\ s.id = caller[c].id /\ caller[c].at # "idle"
    <3>1. CASE BudgetRefuses(c) BY <3>1, <1>c DEF BudgetRefuses, Resting
    <3>2. ASSUME NEW at \in {"budget", "execute"}, caller[c].at # "idle",
                 caller' = [caller EXCEPT ![c].at = at]
          PROVE  \E s \in CallState :
                   /\ caller' = [caller EXCEPT ![c] = s]
                   /\ s.at # "idle" => s.kind = caller[c].kind /\ s.id = caller[c].id /\ caller[c].at # "idle"
      <4> DEFINE s == [caller[c] EXCEPT !.at = at]
      <4>1. caller[c] \in CallState BY <1>b
      <4>2. s \in CallState /\ s.kind = caller[c].kind /\ s.id = caller[c].id BY <4>1 DEF CallState
      <4>3. caller' = [caller EXCEPT ![c] = s] BY <3>2
      <4> HIDE DEF s
      <4> QED BY <3>2, <4>2, <4>3
    <3>3. CASE Cooled(c) BY <3>2, <3>3 DEF Cooled, Step
    <3>4. CASE Delayed(c) BY <3>2, <3>4 DEF Delayed, Step
    <3> QED BY <1>2, <3>1, <3>3, <3>4
  <2>3. caller' \in [Caller -> CallState] /\ Posting(caller', entry.id) \subseteq Posting(caller, entry.id)
    BY <1>a, <2>2, GoesOn
  <2> QED BY <1>b, <2>1, <2>3, EntryStep
<1>3. ASSUME NEW c \in Caller, BudgetAllows(c) PROVE OutInv'
  <2> DEFINE at == IF humanDelay /\ caller[c].kind = "post" THEN "delay" ELSE "execute"
             s == [caller[c] EXCEPT !.at = at]
  <2>1. caller[c] \in CallState /\ caller[c].at = "budget" /\ caller' = [caller EXCEPT ![c] = s]
        /\ entry' = Ensured(entry) /\ UNCHANGED <<day, calls, humanDelay>>
    BY <1>3, <1>b DEF BudgetAllows, Step
  <2>2. at \in {"delay", "execute"} OBVIOUS
  <2> HIDE DEF at
  <2>3. s \in CallState /\ s.kind = caller[c].kind /\ s.id = caller[c].id BY <2>1, <2>2 DEF CallState
  <2> HIDE DEF s
  <2>4. caller' \in [Caller -> CallState] /\ Posting(caller', entry.id) \subseteq Posting(caller, entry.id)
    BY <1>a, <2>1, <2>3, GoesOn
  <2>5. entry' \in Entries /\ (~entry'.warming => entry'.posts = 0)
        /\ (entry' = entry \/ (entry'.posts = 0 /\ ~entry'.warming))
    <3> DEFINE e == Ensured(entry)
    <3>1. e \in Entries /\ (~e.warming => e.posts = 0) /\ (e = entry \/ (e.posts = 0 /\ ~e.warming))
      BY <1>a, EnsuredTypes
    <3> QED BY <2>1, <3>1
  <2>6. entry' = entry => (Warm(entry', day') => Warm(entry, day)) BY <2>1 DEF Warm
  <2> QED BY <1>b, <2>1, <2>4, <2>5, <2>6, EntryStep
<1>4. ASSUME NEW c \in Caller, NEW e \in Entries,
             caller[c].at = "execute", caller' = [caller EXCEPT ![c] = Resting],
             UNCHANGED <<day, calls, humanDelay>>, entry' = e,
             e.posts = entry.posts, e.id = entry.id, e.warming = entry.warming, e.started = entry.started
      PROVE  OutInv'
  <2>1. caller' \in [Caller -> CallState] /\ Posting(caller', entry.id) \subseteq Posting(caller, entry.id)
    BY <1>a, <1>4, <1>c, GoesOn DEF Resting
  <2>2. Warm(entry', day') => Warm(entry, day) BY <1>4 DEF Warm
  <2> QED BY <1>b, <1>4, <2>1, <2>2, EntryStep
<1>5. ASSUME NEW c \in Caller, ActionSucceeds(c) PROVE OutInv'
  <2> DEFINE k == caller[c].kind
             o == [entry EXCEPT !.ok = @ + 1]
             e == Counted(o, k)
  <2>1. caller[c].at = "execute" /\ caller' = [caller EXCEPT ![c] = Resting]
        /\ UNCHANGED <<day, calls, humanDelay>> /\ entry' = IF caller[c].id = entry.id THEN e ELSE entry
    BY <1>5 DEF ActionSucceeds, ToEntry
  <2>2. o \in Entries /\ o.posts = entry.posts /\ o.id = entry.id /\ o.warming = entry.warming
        /\ o.started = entry.started
    BY <1>b DEF Entries
  <2> HIDE DEF o
  <2>3. CASE caller[c].id # entry.id BY <1>4, <1>b, <2>1, <2>3
  <2>4. CASE ~o.warming BY <1>4, <1>b, <2>1, <2>2, <2>4 DEF Counted
  <2>5. CASE o.warming /\ k # "post"
    <3> DEFINE a == o.actions + 1
               p == o.posts
    <3>a. a \in Nat /\ p \in Nat BY <2>2 DEF Entries
    <3>1. e = [o EXCEPT !.actions = a, !.posts = p, !.lastDay = day] BY <2>5 DEF Counted
    <3> HIDE DEF a
    <3>2. e \in Entries /\ e.posts = entry.posts /\ e.id = entry.id /\ e.warming = entry.warming
          /\ e.started = entry.started
      BY <3>1, <3>a, <2>2, <1>b DEF Entries
    <3> HIDE DEF e
    <3> QED BY <1>4, <1>b, <2>1, <3>2
  <2>6. CASE o.warming /\ k = "post" /\ caller[c].id = entry.id
    <3> DEFINE a == o.actions + 1
               p == o.posts + 1
    <3>a. a \in Nat /\ p \in Nat /\ p = entry.posts + 1 BY <2>2 DEF Entries
    <3>1. e = [o EXCEPT !.actions = a, !.posts = p, !.lastDay = day] BY <2>6 DEF Counted
    <3> HIDE DEF a, p
    <3>2. e \in Entries /\ e.posts = entry.posts + 1 /\ e.id = entry.id /\ e.warming /\ entry.warming
          /\ e.started = entry.started
      BY <3>1, <3>a, <2>2, <2>6, <1>b DEF Entries
    <3> HIDE DEF e
    <3>3. entry' = e BY <2>1, <2>6
    <3>4. OutTypes' /\ Counts' BY <1>b, <1>c, <2>1, <3>2, <3>3 DEF OutTypes, Counts
    <3>5. Posting(caller', entry.id) = Posting(caller, entry.id) \ {c} /\ c \in Posting(caller, entry.id)
      BY <1>b, <2>1, <2>6 DEF Posting, Resting
    <3>6. Cardinality(Posting(caller', entry.id)) = Cardinality(Posting(caller, entry.id)) - 1
      <4> DEFINE S == Posting(caller, entry.id)
      <4>1. IsFiniteSet(S) /\ c \in S BY <3>5, PostingFinite
      <4> HIDE DEF S
      <4>2. Cardinality(S \ {c}) = Cardinality(S) - 1 BY <4>1, FS_RemoveElement
      <4> QED BY <4>2, <3>5 DEF S
    <3>7. Warm(entry', day') => Warm(entry, day) BY <2>1, <3>2, <3>3 DEF Warm
    <3>8. Within(entry, caller, day) BY DEF OutInv
    <3> DEFINE m == Cardinality(Posting(caller, entry.id))
               m1 == Cardinality(Posting(caller', entry.id))
               n == Cardinality(Caller)
               j == entry.posts
               j1 == entry'.posts
    <3>9. m \in Nat /\ n \in Nat /\ j \in Nat /\ MaxDailyPosts \in Nat /\ m1 = m - 1 /\ j1 = j + 1
      BY <3>2, <3>3, <3>6, <1>b, PostingFinite, OutboundAssumption DEF Entries
    <3>10. Warm(entry, day) => j + m <= MaxDailyPosts - 1 + n BY <3>8 DEF Within
    <3>11. Within(entry, caller, day)' <=> (Warm(entry', day') => j1 + m1 <= MaxDailyPosts - 1 + n)
      <4>1. entry'.id = entry.id BY <3>2, <3>3
      <4>2. Posting(caller, entry.id)' = Posting(caller', entry.id) BY <4>1 DEF Posting
      <4> QED BY <4>2 DEF Within, Warm
    <3> HIDE DEF m, m1, n, j, j1
    <3>12. Within(entry, caller, day)' BY <3>7, <3>9, <3>10, <3>11
    <3> QED BY <3>4, <3>12 DEF OutInv
  <2> QED BY <2>3, <2>4, <2>5, <2>6
<1>6. ASSUME NEW c \in Caller, NEW limited \in BOOLEAN, ActionFails(c, limited) PROVE OutInv'
  <2> DEFINE b == entry.bad + 1
             n == IF limited THEN entry.limited + 1 ELSE entry.limited
             o == [entry EXCEPT !.bad = b, !.limited = n]
             e == Healed(o)
  <2>1. caller[c].at = "execute" /\ caller' = [caller EXCEPT ![c] = Resting]
        /\ UNCHANGED <<day, calls, humanDelay>> /\ entry' = IF caller[c].id = entry.id THEN e ELSE entry
    BY <1>6 DEF ActionFails, ToEntry
  <2>a. b \in Nat /\ n \in Nat BY <1>b DEF Entries
  <2> HIDE DEF b, n
  <2>2. o \in Entries /\ o.posts = entry.posts /\ o.id = entry.id /\ o.warming = entry.warming
        /\ o.started = entry.started
    BY <2>a, <1>b DEF Entries
  <2> HIDE DEF o
  <2>3. e \in Entries /\ e.posts = entry.posts /\ e.id = entry.id /\ e.warming = entry.warming
        /\ e.started = entry.started
    BY <2>2, HealedTypes
  <2> HIDE DEF e
  <2> QED BY <1>4, <1>b, <2>1, <2>3
<1>7. ASSUME NEW e \in Entries, entry' = e, UNCHANGED <<caller, day, calls, humanDelay>>,
             ~e.warming => e.posts = 0,
             e.posts = 0 \/ (e.posts = entry.posts /\ e.id = entry.id /\ e.warming = entry.warming
                             /\ e.started = entry.started)
      PROVE  OutInv'
  <2>1. Posting(caller', entry.id) \subseteq Posting(caller, entry.id) BY <1>7 DEF Posting
  <2>2. e.posts = 0 \/ (Warm(entry', day') => Warm(entry, day)) BY <1>7 DEF Warm
  <2> QED BY <1>b, <1>7, <2>1, <2>2, EntryStep
<1>8. CASE Sweep
  BY <1>7, <1>8, <1>b, HealedTypes DEF Sweep
<1>d. Ensured(entry) \in Entries /\ (~Ensured(entry).warming => Ensured(entry).posts = 0)
      /\ (Ensured(entry) = entry \/ (Ensured(entry).posts = 0 /\ ~Ensured(entry).warming))
  BY <1>a, EnsuredTypes
<1>9. CASE Connected
  <2> DEFINE e == Ensured(entry)
             o == [e EXCEPT !.running = TRUE]
  <2>1. e \in Entries /\ (~e.warming => e.posts = 0) /\ (e = entry \/ (e.posts = 0 /\ ~e.warming)) BY <1>d
  <2>2. entry' = o /\ UNCHANGED <<caller, day, calls, humanDelay>> BY <1>9 DEF Connected
  <2> HIDE DEF e
  <2>3. o \in Entries /\ o.posts = e.posts /\ o.id = e.id /\ o.warming = e.warming /\ o.started = e.started
    BY <2>1 DEF Entries
  <2> HIDE DEF o
  <2> QED BY <1>7, <2>1, <2>2, <2>3
<1>10. CASE BuildEntry
  <2> DEFINE e == Ensured(entry)
  <2>1. e \in Entries /\ (~e.warming => e.posts = 0) /\ (e = entry \/ (e.posts = 0 /\ ~e.warming)) BY <1>d
  <2>2. PICK w \in BOOLEAN, from \in 0..day :
          entry' = IF w /\ ~e.warming THEN [e EXCEPT !.warming = TRUE, !.started = from, !.lastDay = day]
                   ELSE e
    BY <1>10 DEF BuildEntry
  <2>3. UNCHANGED <<caller, day, calls, humanDelay>> BY <1>10 DEF BuildEntry
  <2> HIDE DEF e
  <2>4. CASE w /\ ~e.warming
    <3> DEFINE o == [e EXCEPT !.warming = TRUE, !.started = from, !.lastDay = day]
    <3>1. entry' = o BY <2>2, <2>4
    <3>2. from \in Nat BY <1>b
    <3>3. o \in Entries /\ o.posts = 0 BY <2>1, <2>4, <3>2, <1>b DEF Entries
    <3> HIDE DEF o
    <3> QED BY <1>7, <2>3, <3>1, <3>3
  <2>5. CASE ~(w /\ ~e.warming)
    <3>1. entry' = e BY <2>2, <2>5
    <3> QED BY <1>7, <2>1, <2>3, <3>1
  <2> QED BY <2>4, <2>5
<1>11. CASE Disconnect
  <2>1. FreshEntry(0, FALSE) \in Entries /\ FreshEntry(0, FALSE).posts = 0
    BY <1>b DEF FreshEntry, Entries
  <2> QED BY <1>7, <1>11, <2>1 DEF Disconnect
<1>12. CASE OutTick
  <2> DEFINE n == IF entry.pause > 0 THEN entry.pause - 1 ELSE 0
             o == [entry EXCEPT !.pause = n, !.coolDown = FALSE]
  <2>1. entry' = o /\ UNCHANGED <<caller, day, calls, humanDelay>> BY <1>12 DEF OutTick
  <2>a. n \in Nat BY <1>b DEF Entries
  <2> HIDE DEF n
  <2>2. o \in Entries /\ o.posts = entry.posts /\ o.id = entry.id /\ o.warming = entry.warming
        /\ o.started = entry.started
    BY <2>a, <1>b DEF Entries
  <2> HIDE DEF o
  <2> QED BY <1>7, <1>b, <2>1, <2>2
<1>13. CASE Midnight
  <2>1. day' = day + 1 /\ UNCHANGED <<entry, caller, calls, humanDelay>> BY <1>13 DEF Midnight
  <2>2. Warm(entry', day') => Warm(entry, day)
    BY <1>b, <2>1, OutboundAssumption DEF Warm, Entries
  <2>3. Posting(caller', entry.id) \subseteq Posting(caller, entry.id) BY <2>1 DEF Posting
  <2> QED BY <1>b, <2>1, <2>2, <2>3, EntryStep
<1> QED
  BY <1>0, <1>1, <1>2, <1>3, <1>5, <1>6, <1>8, <1>9, <1>10, <1>11, <1>12, <1>13
  DEF OutNext, CallStep

(* The daily cap of a warming account is read before three awaits and      *)
(* counted after them: the posts counted and the posts under way never     *)
(* exceed the cap by more than the callers less one, for any cap, any      *)
(* number of callers and wherever a midnight or a new entry falls between  *)
(* check and count.                                                        *)
THEOREM WarmingIsBounded == OutSpec => []WarmingBound
<1>1. OutInv => WarmingBound
  <2>1. PostsUnderWay = Posting(caller, entry.id) BY DEF PostsUnderWay, Posting
  <2> QED BY <2>1 DEF OutInv, Within, Warm, WarmingBound
<1> QED BY <1>1, OutStart, OutKeeps, PTL DEF OutSpec

-----------------------------------------------------------------------------
(***************************************************************************)
(* Proxies: a sticky pool never binds more clients to a proxy than its     *)
(* cap. The invariant is stronger: the load that a proxy's row counts      *)
(* covers the clients that are bound to it, and is itself at most the cap, *)
(* so that a client finds a place only where one is left. An unbind lowers *)
(* both by one.                                                            *)
(***************************************************************************)

BoundTo(p) == {b \in Client : bond[b].proxy = p}

ProxyTypes ==
    /\ load \in [Proxy -> Nat]
    /\ bond \in [Client -> [proxy : Proxy \cup {"none"}, left : Nat]]
    /\ \A b \in Client : bond[b].proxy = "none" => bond[b] = NoBond

Covered(p) == Cardinality(BoundTo(p)) <= load[p] /\ load[p] <= MaxBots

ProxyInv == ProxyTypes /\ \A p \in Proxy : Covered(p)

LEMMA BoundFinite ==
    ASSUME NEW p PROVE IsFiniteSet(BoundTo(p)) /\ Cardinality(BoundTo(p)) \in Nat
BY ProxyAssumption, FS_Subset, FS_CardinalityType DEF BoundTo

LEMMA BoundWithout ==
    ASSUME NEW p, NEW b
    PROVE  /\ IsFiniteSet(BoundTo(p) \ {b}) /\ Cardinality(BoundTo(p) \ {b}) \in Nat
           /\ Cardinality(BoundTo(p) \ {b}) <= Cardinality(BoundTo(p))
           /\ b \in BoundTo(p) => Cardinality(BoundTo(p) \ {b}) = Cardinality(BoundTo(p)) - 1
<1>1. IsFiniteSet(BoundTo(p)) /\ Cardinality(BoundTo(p)) \in Nat BY BoundFinite
<1>2. IsFiniteSet(BoundTo(p) \ {b})
      /\ Cardinality(BoundTo(p) \ {b})
         = IF b \in BoundTo(p) THEN Cardinality(BoundTo(p)) - 1 ELSE Cardinality(BoundTo(p))
  BY <1>1, FS_RemoveElement
<1>3. Cardinality(BoundTo(p) \ {b}) \in Nat BY <1>2, FS_CardinalityType
<1> QED BY <1>1, <1>2, <1>3

LEMMA CoveredWithout ==
    ASSUME NEW p \in Proxy, NEW b, load \in [Proxy -> Nat], Covered(p)
    PROVE  Cardinality(BoundTo(p) \ {b}) <= load[p]
<1> DEFINE m == Cardinality(BoundTo(p) \ {b})
           n == Cardinality(BoundTo(p))
<1>1. m \in Nat /\ n \in Nat /\ m <= n BY BoundFinite, BoundWithout
<1>2. n <= load[p] /\ load[p] \in Nat BY DEF Covered
<1> HIDE DEF m, n
<1>3. m <= load[p] BY <1>1, <1>2
<1> QED BY <1>3 DEF m

LEMMA ProxyStart == ProxyInit => ProxyInv
<1> SUFFICES ASSUME ProxyInit PROVE ProxyInv OBVIOUS
<1>1. ProxyTypes BY DEF ProxyInit, ProxyTypes, NoBond
<1>2. ASSUME NEW p \in Proxy PROVE Covered(p)
  <2>1. BoundTo(p) = {} BY ProxyAssumption DEF BoundTo, ProxyInit, NoBond
  <2> QED BY <2>1, FS_EmptySet, ProxyAssumption DEF Covered, ProxyInit
<1> QED BY <1>1, <1>2 DEF ProxyInv

(* What the counters are after a bot's live bond is taken away, and what   *)
(* the bonds are: every proxy still counts what is bound to it, and the    *)
(* one that was freed has room.                                            *)
LEMMA Lowering ==
    ASSUME ProxyInv, NEW b \in Client
    PROVE  /\ Lowered(b) \in [Proxy -> Nat]
           /\ \A p \in Proxy : Lowered(b)[p] <= load[p]
           /\ bond[b].left > 0 =>
                \A p \in Proxy : Cardinality(BoundTo(p) \ {b}) <= Lowered(b)[p]
<1> USE DEF ProxyInv, ProxyTypes
<1> DEFINE q == bond[b].proxy
<1>1. CASE ~(bond[b].left > 0 /\ load[q] > 0)
  <2>1. Lowered(b) = load BY <1>1 DEF Lowered
  <2>2. ASSUME bond[b].left > 0, NEW p \in Proxy PROVE Cardinality(BoundTo(p) \ {b}) <= load[p]
    BY CoveredWithout
  <2> QED BY <2>1, <2>2
<1>2. CASE bond[b].left > 0 /\ load[q] > 0
  <2>1. q \in Proxy BY <1>2 DEF NoBond
  <2>2. Lowered(b) = [load EXCEPT ![q] = @ - 1] BY <1>2 DEF Lowered
  <2>3. load[q] - 1 \in Nat BY <1>2, <2>1
  <2>4. Lowered(b) \in [Proxy -> Nat] BY <2>1, <2>2, <2>3
  <2>5. ASSUME NEW p \in Proxy
        PROVE  Lowered(b)[p] <= load[p] /\ Cardinality(BoundTo(p) \ {b}) <= Lowered(b)[p]
    <3>1. CASE p = q
      <4>1. b \in BoundTo(p) BY <3>1 DEF BoundTo
      <4>2. Cardinality(BoundTo(p) \ {b}) = Cardinality(BoundTo(p)) - 1 BY <4>1, BoundWithout
      <4> QED BY <3>1, <4>2, <2>1, <2>2, BoundFinite DEF Covered
    <3>2. CASE p # q
      <4>1. Lowered(b)[p] = load[p] BY <3>2, <2>2
      <4>2. load[p] \in Nat /\ load[p] <= load[p] OBVIOUS
      <4>3. Cardinality(BoundTo(p) \ {b}) <= load[p] BY CoveredWithout
      <4> QED BY <4>1, <4>2, <4>3, Zenon
    <3> QED BY <3>1, <3>2
  <2> QED BY <2>4, <2>5
<1> QED BY <1>1, <1>2

LEMMA Unbinding == ASSUME ProxyInv, NEW b \in Client, Unbind(b) PROVE ProxyInv'
<1> USE DEF ProxyInv, ProxyTypes
<1>1. load' = Lowered(b) /\ bond' = [bond EXCEPT ![b] = NoBond] BY DEF Unbind
<1>2. ProxyTypes' BY <1>1, Lowering DEF NoBond
<1>3. ASSUME NEW p \in Proxy PROVE Covered(p)'
  <2>1. BoundTo(p)' = BoundTo(p) \ {b} BY <1>1, ProxyAssumption DEF BoundTo, NoBond
  <2>2. Lowered(b)[p] <= MaxBots BY Lowering, ProxyAssumption DEF Covered
  <2>3. Cardinality(BoundTo(p) \ {b}) <= Lowered(b)[p]
    <3>1. CASE bond[b].left > 0 BY <3>1, Lowering
    <3>2. CASE ~(bond[b].left > 0)
      <4>1. Lowered(b) = load BY <3>2 DEF Lowered
      <4> QED BY <4>1, CoveredWithout
    <3> QED BY <3>1, <3>2
  <2> QED BY <1>1, <2>1, <2>2, <2>3 DEF Covered
<1> QED BY <1>2, <1>3

LEMMA Binding == ASSUME ProxyInv, NEW b \in Client, StickyProxy(b) PROVE ProxyInv'
<1> USE DEF ProxyInv, ProxyTypes
<1> DEFINE lasting == bond[b].left > 0
           lower == IF lasting THEN Lowered(b) ELSE load
           left == IF lasting THEN [bond EXCEPT ![b] = NoBond] ELSE bond
<1>1. lower \in [Proxy -> Nat] /\ \A p \in Proxy : lower[p] <= MaxBots
  BY Lowering, ProxyAssumption DEF Covered
<1>2. ASSUME NEW p \in Proxy PROVE Cardinality(BoundTo(p) \ {b}) <= lower[p]
  <2>1. CASE lasting BY <2>1, Lowering
  <2>2. CASE ~lasting
    <3>1. lower[p] = load[p] BY <2>2
    <3> QED BY <3>1, CoveredWithout
  <2> QED BY <2>1, <2>2
<1>3. CASE UNCHANGED <<bond, load>>
  BY <1>3 DEF Covered, BoundTo
<1>4. CASE bond' = left /\ load' = lower
  <2>1. CASE lasting
    <3>1. bond' = [bond EXCEPT ![b] = NoBond] BY <1>4, <2>1
    <3>2. ProxyTypes' BY <1>1, <1>4, <3>1 DEF NoBond
    <3>3. ASSUME NEW p \in Proxy PROVE BoundTo(p)' = BoundTo(p) \ {b}
      BY <3>1, ProxyAssumption DEF BoundTo, NoBond
    <3> QED BY <1>1, <1>2, <1>4, <3>2, <3>3 DEF Covered
  <2>2. CASE ~lasting BY <2>2, <1>4 DEF Covered, BoundTo
  <2> QED BY <2>1, <2>2
<1>5. ASSUME NEW p \in Eligible(lower),
             bond' = [bond EXCEPT ![b] = [proxy |-> p, left |-> BondLength]],
             load' = [lower EXCEPT ![p] = @ + 1]
      PROVE  ProxyInv'
  <2>1. p \in Proxy /\ lower[p] < MaxBots BY DEF Eligible, TopTier
  <2> HIDE DEF lower, left
  <2>2. ProxyTypes' BY <1>1, <1>5, <2>1, ProxyAssumption
  <2>3. ASSUME NEW q \in Proxy PROVE Covered(q)'
    <3>1. CASE q = p
      <4>1. BoundTo(q)' = (BoundTo(q) \ {b}) \cup {b} BY <3>1, <1>5, <2>1 DEF BoundTo
      <4>2. IsFiniteSet(BoundTo(q) \ {b}) /\ Cardinality(BoundTo(q) \ {b}) \in Nat
        BY BoundWithout
      <4>3. Cardinality(BoundTo(q)') = Cardinality(BoundTo(q) \ {b}) + 1
        <5>1. b \notin BoundTo(q) \ {b} OBVIOUS
        <5> QED BY <4>1, <4>2, <5>1, FS_AddElement
      <4>4. load'[q] = lower[q] + 1 BY <1>1, <1>5, <2>1, <3>1
      <4>5. Cardinality(BoundTo(q)') \in Nat BY <4>1, <4>2, FS_AddElement, FS_CardinalityType
      <4> QED BY <1>1, <1>2, <2>1, <3>1, <4>2, <4>3, <4>4, <4>5, ProxyAssumption DEF Covered
    <3>2. CASE q # p
      <4>1. BoundTo(q)' = BoundTo(q) \ {b} BY <3>2, <1>5 DEF BoundTo
      <4>2. load'[q] = lower[q] BY <1>1, <1>5, <3>2
      <4> QED BY <1>1, <1>2, <4>1, <4>2 DEF Covered
    <3> QED BY <3>1, <3>2
  <2> QED BY <2>2, <2>3
<1>6. \/ UNCHANGED <<bond, load>>
      \/ bond' = left /\ load' = lower
      \/ \E p \in Eligible(lower) :
           /\ bond' = [left EXCEPT ![b] = [proxy |-> p, left |-> BondLength]]
           /\ load' = [lower EXCEPT ![p] = @ + 1]
      \/ \E p \in Eligible(lower) :
           /\ bond' = [bond EXCEPT ![b] = [proxy |-> p, left |-> BondLength]]
           /\ load' = [lower EXCEPT ![p] = @ + 1]
  BY Zenon DEF StickyProxy
<1>7. ASSUME NEW p \in Eligible(lower)
      PROVE  [left EXCEPT ![b] = [proxy |-> p, left |-> BondLength]]
             = [bond EXCEPT ![b] = [proxy |-> p, left |-> BondLength]]
  OBVIOUS
<1> HIDE DEF lower, left
<1> QED BY <1>3, <1>4, <1>5, <1>6, <1>7

LEMMA CleaningUp == ASSUME ProxyInv, CleanUp PROVE ProxyInv'
<1> USE DEF ProxyInv, ProxyTypes
<1> DEFINE Gone(p) == {b \in Expired : bond[b].proxy = p}
<1>1. load' = [p \in Proxy |-> IF load[p] > Cardinality(Gone(p)) THEN load[p] - Cardinality(Gone(p))
                               ELSE 0]
  BY DEF CleanUp
<1>2. bond' = [b \in Client |-> IF b \in Expired THEN NoBond ELSE bond[b]] BY DEF CleanUp
<1>3. ASSUME NEW p \in Proxy
      PROVE  /\ Gone(p) \subseteq BoundTo(p) /\ Cardinality(Gone(p)) \in Nat
             /\ BoundTo(p)' = BoundTo(p) \ Gone(p)
             /\ Cardinality(BoundTo(p)') = Cardinality(BoundTo(p)) - Cardinality(Gone(p))
  <2>1. Gone(p) \subseteq BoundTo(p) BY DEF Expired, BoundTo
  <2>2. IsFiniteSet(Gone(p)) /\ Cardinality(Gone(p)) \in Nat
    BY <2>1, BoundFinite, FS_Subset, FS_CardinalityType
  <2>3. BoundTo(p)' = BoundTo(p) \ Gone(p) BY <1>2, ProxyAssumption DEF BoundTo, NoBond
  <2>4. BoundTo(p) \cap Gone(p) = Gone(p) BY <2>1
  <2>5. Cardinality(BoundTo(p) \ Gone(p)) = Cardinality(BoundTo(p)) - Cardinality(BoundTo(p) \cap Gone(p))
    BY <2>2, BoundFinite, FS_Difference
  <2> QED BY <2>1, <2>2, <2>3, <2>4, <2>5
<1> HIDE DEF Gone
<1>4. ProxyTypes'
  <2>1. load' \in [Proxy -> Nat]
    <3>1. ASSUME NEW p \in Proxy
          PROVE  (IF load[p] > Cardinality(Gone(p)) THEN load[p] - Cardinality(Gone(p)) ELSE 0) \in Nat
      BY <1>3
    <3> QED BY <1>1, <3>1
  <2> QED BY <1>2, <2>1 DEF NoBond
<1>5. ASSUME NEW p \in Proxy PROVE Covered(p)'
  <2>1. load'[p] = IF load[p] > Cardinality(Gone(p)) THEN load[p] - Cardinality(Gone(p)) ELSE 0
    BY <1>1
  <2> QED BY <2>1, <1>3, BoundFinite, ProxyAssumption DEF Covered
<1> QED BY <1>4, <1>5

LEMMA ProxyStepKeeps == ProxyInv /\ [ProxyNext]_proxyVars => ProxyInv'
<1> SUFFICES ASSUME ProxyInv, [ProxyNext]_proxyVars PROVE ProxyInv' OBVIOUS
<1>1. CASE UNCHANGED <<bond, load>>
  BY <1>1 DEF ProxyInv, ProxyTypes, Covered, BoundTo
<1>2. CASE RowChange
  BY <1>1, <1>2 DEF RowChange, CreateProxy, EditProxy, DeleteProxy, ProbeProxy
<1>3. CASE PoolStep
  BY <1>1, <1>3 DEF PoolStep, RefreshProxies, ApplyProxy, ProxySucceeds, ProxyFails
<1>4. CASE StickyStep
  BY <1>4, CleaningUp, Binding, Unbinding DEF StickyStep
<1>5. CASE ProxyTick
  <2> USE DEF ProxyInv, ProxyTypes
  <2>1. bond' = [b \in Client |-> [bond[b] EXCEPT !.left = Less(@)]] /\ load' = load
    BY <1>5 DEF ProxyTick
  <2>2. ASSUME NEW b \in Client
        PROVE  /\ [bond[b] EXCEPT !.left = Less(@)] \in [proxy : Proxy \cup {"none"}, left : Nat]
               /\ [bond[b] EXCEPT !.left = Less(@)].proxy = bond[b].proxy
               /\ bond[b] = NoBond => [bond[b] EXCEPT !.left = Less(@)] = NoBond
    <3>1. bond[b].left \in Nat OBVIOUS
    <3>2. Less(bond[b].left) \in Nat BY <3>1 DEF Less
    <3>3. bond[b] = NoBond => Less(bond[b].left) = bond[b].left BY DEF NoBond, Less
    <3> QED BY <3>2, <3>3
  <2>3. ProxyTypes' BY <2>1, <2>2
  <2>4. ASSUME NEW p \in Proxy PROVE BoundTo(p)' = BoundTo(p) BY <2>1, <2>2 DEF BoundTo
  <2> QED BY <2>1, <2>3, <2>4 DEF Covered
<1> QED BY <1>1, <1>2, <1>3, <1>4, <1>5 DEF ProxyNext, proxyVars

(* No proxy is bound to more bots than maxBotsPerProxy, for any numbers of *)
(* proxies, bots and selections, although bonds expire, are replaced, and  *)
(* are released after the proxy is gone.                                   *)
THEOREM ProxiesKeepTheirCap == ProxySpec => []StickyCap
<1>1. ProxyInv => StickyCap
  <2> SUFFICES ASSUME ProxyInv, NEW p \in Proxy
               PROVE  Cardinality(BoundTo(p)) <= load[p] /\ Cardinality(BoundTo(p)) <= MaxBots
    BY DEF StickyCap, BoundTo
  <2> QED BY BoundFinite, ProxyAssumption DEF ProxyInv, ProxyTypes, Covered
<1> QED BY <1>1, ProxyStart, ProxyStepKeeps, PTL DEF ProxySpec

-----------------------------------------------------------------------------
(***************************************************************************)
(* A counter never shows more than twice what a bot did, for any amount of *)
(* activity.  The argument: what Redis holds is at most what was done; and *)
(* what the counter shows, with all that the next totals would still add,  *)
(* is covered once until the baselines are loaded and twice afterwards.    *)
(* A total that is smaller than the last one begins anew, so that the      *)
(* growth from a first to a third total is never more than the growth over *)
(* a second one between them.                                              *)
(***************************************************************************)

(* What a scrape adds that sees x after last.                              *)
Growth(last, x) == IF last # None0 /\ x >= last THEN x - last ELSE x

Totals == Nat \union {None0}

(* The newest total of this entry that left the worker, or will.           *)
Newest == IF health = None0 THEN running ELSE health

CountersTyped ==
    /\ activity \in Nat /\ running \in Nat /\ health \in Totals /\ baseline \in Totals
    /\ api \in [last : Totals, counter : Nat, loaded : BOOLEAN]

(* A published total, and what the entry has counted since, was done.      *)
PublishedWasDone == Newest + Growth(Newest, running) <= activity

(* A baseline was published, too: growth beyond it was done.               *)
ShownWasDone ==
    LET ahead == api.counter + Growth(api.last, Newest) + Growth(Newest, running)
    IN  /\ ~api.loaded => ahead <= activity
        /\ ahead <= activity + activity

MetricsInv == CountersTyped /\ PublishedWasDone /\ ShownWasDone

(* The growth over a total between is at least the growth without it.      *)
LEMMA GrowthOver ==
    ASSUME NEW last \in Totals, NEW x \in Nat, NEW y \in Nat
    PROVE  /\ Growth(last, x) \in Nat /\ Growth(last, x) <= x
           /\ Growth(last, y) <= Growth(last, x) + Growth(x, y)
           /\ Growth(x, x) = 0
BY DEF Growth, Totals, None0

(* One more action is one more growth at most.                             *)
LEMMA GrowthByOne ==
    ASSUME NEW last \in Totals, NEW x \in Nat
    PROVE  Growth(last, x + 1) <= Growth(last, x) + 1
BY DEF Growth, Totals, None0

(* No step, the worker's or the API's, shows more than was done.           *)
LEMMA MetricsStep == MetricsInv /\ [MetricsNext]_metricsVars => MetricsInv'
<1>. SUFFICES ASSUME MetricsInv, [MetricsNext]_metricsVars
              PROVE  MetricsInv'
  OBVIOUS
<1>. USE DEF MetricsInv
<1>0. Newest \in Nat /\ Newest \in Totals /\ api.last \in Totals /\ api.counter \in Nat
  BY DEF CountersTyped, Totals, Newest, None0
<1>1. CASE CountActivity
  <2>1. CountersTyped'
    BY <1>1 DEF CountActivity, CountersTyped
  <2>2. CASE health = None0
    <3>1. Newest = running /\ Newest' = running + 1 /\ running' = running + 1
      BY <1>1, <2>2 DEF CountActivity, Newest
    <3>2. Growth(running, running) = 0 /\ Growth(running + 1, running + 1) = 0
      BY GrowthOver DEF CountersTyped
    <3>3. Growth(api.last, running + 1) <= Growth(api.last, running) + 1
      BY <1>0, GrowthByOne DEF CountersTyped
    <3>4. Growth(api.last, running) \in Nat /\ Growth(api.last, running + 1) \in Nat
      BY <1>0 DEF Growth, CountersTyped, Totals, None0
    <3>5. PublishedWasDone'
      BY <1>1, <3>1, <3>2 DEF CountActivity, PublishedWasDone, CountersTyped
    <3>6. ShownWasDone'
      BY <1>0, <1>1, <3>1, <3>2, <3>3, <3>4 DEF CountActivity, ShownWasDone, CountersTyped
    <3>. QED
      BY <2>1, <3>5, <3>6
  <2>3. CASE health # None0
    <3>1. Newest' = Newest /\ running' = running + 1
      BY <1>1, <2>3 DEF CountActivity, Newest
    <3>2. Growth(Newest, running + 1) <= Growth(Newest, running) + 1
      BY <1>0, GrowthByOne DEF CountersTyped, Totals
    <3>3. /\ Growth(Newest, running) \in Nat /\ Growth(Newest, running + 1) \in Nat
          /\ Growth(api.last, Newest) \in Nat
      BY <1>0 DEF Growth, CountersTyped, Totals, None0
    <3>4. PublishedWasDone'
      BY <1>0, <1>1, <3>1, <3>2, <3>3 DEF CountActivity, PublishedWasDone, CountersTyped
    <3>5. ShownWasDone'
      BY <1>0, <1>1, <3>1, <3>2, <3>3 DEF CountActivity, ShownWasDone, CountersTyped
    <3>. QED
      BY <2>1, <3>4, <3>5
  <2>. QED
    BY <2>2, <2>3
<1>2. CASE EntryDropped
  <2>1. CountersTyped'
    BY <1>2 DEF EntryDropped, CountersTyped
  <2>2. running' = 0 /\ Newest' = (IF health = None0 THEN 0 ELSE Newest)
    BY <1>2 DEF EntryDropped, Newest
  <2>3. /\ Growth(Newest, 0) = 0 /\ Growth(api.last, 0) = 0 /\ Growth(0, 0) = 0
        /\ Growth(Newest, running) \in Nat /\ Growth(api.last, Newest) \in Nat
    <3>1. 0 \in Totals /\ running \in Nat
      BY DEF CountersTyped, Totals
    <3>. QED
      BY <1>0, <3>1, GrowthOver DEF Growth, Totals, None0
  <2>4. PublishedWasDone'
    BY <1>0, <1>2, <2>2, <2>3 DEF EntryDropped, PublishedWasDone, CountersTyped
  <2>5. ShownWasDone'
    BY <1>0, <1>2, <2>2, <2>3 DEF EntryDropped, ShownWasDone, CountersTyped
  <2>. QED
    BY <2>1, <2>4, <2>5
<1>3. CASE PublishHealth \/ HealthExpires
  <2>1. CountersTyped' /\ UNCHANGED <<activity, running, api>>
    BY <1>3 DEF PublishHealth, HealthExpires, CountersTyped, Totals
  <2>2. Newest' = running
    BY <1>3 DEF PublishHealth, HealthExpires, Newest, CountersTyped, None0
  <2>3. /\ Growth(running, running) = 0 /\ running <= Newest + Growth(Newest, running)
        /\ Growth(Newest, running) \in Nat
    BY <1>0, GrowthOver DEF CountersTyped, Totals, Growth
  <2>4. /\ Growth(api.last, running) <= Growth(api.last, Newest) + Growth(Newest, running)
        /\ Growth(api.last, running) \in Nat /\ Growth(api.last, Newest) \in Nat
    BY <1>0, GrowthOver DEF CountersTyped
  <2>5. PublishedWasDone'
    BY <1>0, <2>1, <2>2, <2>3 DEF PublishedWasDone, CountersTyped
  <2>6. ShownWasDone'
    BY <1>0, <2>1, <2>2, <2>3, <2>4 DEF ShownWasDone, CountersTyped
  <2>. QED
    BY <2>1, <2>5, <2>6
<1>4. CASE Scrape
  <2>1. UNCHANGED <<activity, running, health>> /\ Newest' = Newest
    BY <1>4 DEF Scrape, Newest
  <2>2. CASE health = None0
    BY <1>4, <2>1, <2>2 DEF Scrape, CountersTyped, PublishedWasDone, ShownWasDone
  <2>3. CASE health # None0
    <3>1. Newest = health /\ api' = Grown(api, health) /\ baseline' \in {baseline, health}
      BY <1>4, <2>3 DEF Scrape, Newest
    <3>2. api' = [api EXCEPT !.last = health, !.counter = @ + Growth(api.last, health)]
      BY <3>1 DEF Grown, Growth
    <3>3. /\ Growth(api.last, health) \in Nat /\ Growth(health, health) = 0
          /\ Growth(health, running) \in Nat
      BY <1>0, <3>1, GrowthOver DEF CountersTyped, Totals
    <3>4. CountersTyped'
      <4>1. health \in Totals /\ baseline' \in Totals /\ api.counter + Growth(api.last, health) \in Nat
        BY <1>0, <3>1, <3>3 DEF CountersTyped
      <4>. QED
        BY <2>1, <3>2, <4>1 DEF CountersTyped
    <3>5. api'.last = health /\ api'.counter = api.counter + Growth(api.last, health) /\ api'.loaded = api.loaded
      BY <3>2 DEF CountersTyped
    <3>6. PublishedWasDone'
      BY <2>1 DEF PublishedWasDone
    <3>7. ShownWasDone'
      BY <1>0, <2>1, <3>1, <3>3, <3>5 DEF ShownWasDone, CountersTyped
    <3>. QED
      BY <3>4, <3>6, <3>7
  <2>. QED
    BY <2>2, <2>3
<1>5. CASE LoadBaselines
  <2>1. UNCHANGED <<activity, running, health, baseline>> /\ Newest' = Newest
    BY <1>5 DEF LoadBaselines, Newest
  <2>2. CountersTyped' /\ api'.counter = api.counter /\ ~api.loaded /\ api'.loaded
    BY <1>5 DEF LoadBaselines, CountersTyped
  <2>3. PublishedWasDone'
    BY <2>1 DEF PublishedWasDone
  <2>4. /\ Growth(api.last, Newest) \in Nat /\ Growth(Newest, running) \in Nat
        /\ Growth(api'.last, Newest) \in Nat /\ Growth(api'.last, Newest) <= Newest
    BY <1>0, <2>2, GrowthOver DEF CountersTyped, Totals
  <2>5. ShownWasDone'
    BY <1>0, <2>1, <2>2, <2>4 DEF ShownWasDone, PublishedWasDone, CountersTyped
  <2>. QED
    BY <2>2, <2>3, <2>5
<1>6. CASE ApiRestarts
  <2>1. UNCHANGED <<activity, running, health, baseline>> /\ Newest' = Newest
    BY <1>6 DEF ApiRestarts, Newest
  <2>2. CountersTyped' /\ api'.counter = 0 /\ api'.last = None0 /\ ~api'.loaded
    BY <1>6 DEF ApiRestarts, NewApi, CountersTyped, Totals
  <2>3. PublishedWasDone'
    BY <2>1 DEF PublishedWasDone
  <2>4. Growth(None0, Newest) = Newest /\ Growth(Newest, running) \in Nat
    BY <1>0, GrowthOver DEF Growth, CountersTyped, Totals
  <2>5. ShownWasDone'
    BY <1>0, <2>1, <2>2, <2>4 DEF ShownWasDone, PublishedWasDone, CountersTyped
  <2>. QED
    BY <2>2, <2>3, <2>5
<1>7. CASE \/ \E i \in Instance : Beat(i)
           \/ ScrapeWithoutRedis \/ MetricsTick \/ UNCHANGED metricsVars
  BY <1>7 DEF Beat, ScrapeWithoutRedis, MetricsTick, metricsVars, CountersTyped, PublishedWasDone,
              ShownWasDone, Newest
<1>. QED
  BY <1>1, <1>2, <1>3, <1>4, <1>5, <1>6, <1>7 DEF MetricsNext

(* Whatever restarts and is lost, a counter of the API never shows more    *)
(* than twice the activity of its bot.                                     *)
THEOREM CountersBounded == MetricsSpec => []CountedTwiceAtMost
<1>1. MetricsInit => MetricsInv
  BY DEF MetricsInit, NewApi, MetricsInv, CountersTyped, PublishedWasDone, ShownWasDone, Newest,
         Growth, Totals, None0
<1>2. MetricsInv => CountedTwiceAtMost
  <2>. SUFFICES ASSUME MetricsInv
                PROVE  CountedTwiceAtMost
    OBVIOUS
  <2>1. Newest \in Nat /\ api.last \in Totals /\ api.counter \in Nat
    BY DEF MetricsInv, CountersTyped, Totals, Newest, None0
  <2>2. Growth(api.last, Newest) \in Nat /\ Growth(Newest, running) \in Nat
    BY <2>1, GrowthOver DEF MetricsInv, CountersTyped, Totals
  <2>. QED
    BY <2>1, <2>2 DEF MetricsInv, CountersTyped, ShownWasDone, CountedTwiceAtMost
<1>. QED
  BY <1>1, <1>2, MetricsStep, PTL DEF MetricsSpec

-----------------------------------------------------------------------------
(***************************************************************************)
(* CryptoFeeds: the shared feed serves whoever holds it, and a bot has one *)
(* trader. The hub's entry is followed helper by helper (a feed joins,     *)
(* leaves, its socket drops, its timer fires): each leaves an entry that   *)
(* is there exactly while somebody holds it, with a socket or a timer and  *)
(* never both. The trader is one because while nothing has confused the    *)
(* registration one handshake at most is under way, and none while a       *)
(* runtime is registered.                                                  *)
(***************************************************************************)

FeedState == [at : {"none", "pricing", "loading", "running", "stopped"}, pair : Nat,
              first : BOOLEAN, polling : BOOLEAN, failures : Nat]
Hubs == [present : BOOLEAN, refs : SUBSET Feeds, ws : BOOLEAN, timer : BOOLEAN]

FeedTypes ==
    /\ feed \in [Feeds -> FeedState] /\ registered \in Feeds \cup {0} /\ nextPair \in Nat
    /\ hub \in Hubs

(* StreamServed, of any entry, so that the helpers of the hub can be       *)
(* followed one by one.                                                    *)
Served(h) ==
    /\ h.present = (h.refs # {}) /\ ~(h.ws /\ h.timer)
    /\ IF h.refs = {} THEN ~h.ws /\ ~h.timer ELSE valid => h.ws \/ h.timer

(* While nothing has confused the registration there is one handshake at   *)
(* most, and none while a runtime is registered.                           *)
OneHandshake ==
    mishap = {} => /\ \A f, g \in Shaking : f = g
                   /\ Shaking # {} => registered = 0

FeedInv == FeedTypes /\ Served(hub) /\ OneHandshake /\ OneTrader

LEMMA LeftServed ==
    ASSUME NEW h \in Hubs, NEW f, Served(h)
    PROVE  Left(h, f) \in Hubs /\ Served(Left(h, f)) /\ Left(h, f).refs = h.refs \ {f}
<1>1. CASE h.refs = {f}
  <2>1. Left(h, f) = NoEntry BY <1>1 DEF Left
  <2>2. NoEntry \in Hubs /\ Served(NoEntry) /\ NoEntry.refs = {} BY DEF NoEntry, Hubs, Served
  <2>3. h.refs \ {f} = {} BY <1>1
  <2> QED BY <2>1, <2>2, <2>3
<1>2. CASE h.refs # {f}
  <2> DEFINE r == h.refs \ {f}
             g == [h EXCEPT !.refs = r]
  <2>1. Left(h, f) = g BY <1>2 DEF Left
  <2>2. r \in SUBSET Feeds /\ (r = {} <=> h.refs = {}) BY <1>2 DEF Hubs
  <2> HIDE DEF r
  <2>3. g \in Hubs /\ g.refs = r /\ g.present = h.present /\ g.ws = h.ws /\ g.timer = h.timer
    BY <2>2 DEF Hubs
  <2>4. Served(g) BY <2>2, <2>3 DEF Served
  <2> QED BY <2>1, <2>3, <2>4 DEF r
<1> QED BY <1>1, <1>2

LEMMA OpenedServed ==
    ASSUME NEW h \in Hubs, ~h.ws, ~h.timer, h.present = (h.refs # {}) \/ h.refs = {}
    PROVE  /\ Opened(h) \in Hubs /\ Opened(h).refs = h.refs /\ Opened(h).present = h.present
           /\ ~(Opened(h).ws /\ Opened(h).timer)
           /\ valid => Opened(h).ws
           /\ h.refs # {} => Opened(h).ws \/ Opened(h).timer
BY DEF Opened, Rescheduled, Hubs

LEMMA SubscribedServed ==
    ASSUME NEW h \in Hubs, NEW f \in Feeds, Served(h)
    PROVE  Subscribed(h, f) \in Hubs /\ Served(Subscribed(h, f)) /\ Subscribed(h, f).refs = h.refs \cup {f}
<1> DEFINE o == [NoEntry EXCEPT !.present = TRUE]
           g == IF h.present THEN h ELSE Opened(o)
           r == g.refs \cup {f}
           k == [g EXCEPT !.refs = r]
<1>1. o \in Hubs /\ ~o.ws /\ ~o.timer /\ o.refs = {} /\ o.present BY DEF NoEntry, Hubs
<1> HIDE DEF o
<1>2. Opened(o) \in Hubs /\ Opened(o).refs = {} /\ Opened(o).present
      /\ ~(Opened(o).ws /\ Opened(o).timer) /\ (valid => Opened(o).ws)
  BY <1>1, OpenedServed
<1>3. g \in Hubs /\ g.present /\ g.refs = h.refs /\ ~(g.ws /\ g.timer) /\ (valid => g.ws \/ g.timer)
  <2>1. CASE h.present BY <2>1 DEF Served
  <2>2. CASE ~h.present
    <3>1. h.refs = {} BY <2>2 DEF Served
    <3> QED BY <2>2, <3>1, <1>2
  <2> QED BY <2>1, <2>2
<1>4. Subscribed(h, f) = k BY Zenon DEF Subscribed, o
<1> HIDE DEF g
<1>5. r \in SUBSET Feeds /\ r # {} BY <1>3 DEF Hubs
<1> HIDE DEF r
<1>6. k \in Hubs /\ k.refs = r /\ k.present = g.present /\ k.ws = g.ws /\ k.timer = g.timer
  BY <1>3, <1>5 DEF Hubs
<1>a. (k.present = (k.refs # {})) = TRUE BY <1>3, <1>5, <1>6
<1>b. ~(k.ws /\ k.timer) /\ (valid => k.ws \/ k.timer) /\ k.refs # {} BY <1>3, <1>5, <1>6
<1> HIDE DEF k
<1>7. Served(k) BY <1>a, <1>b DEF Served
<1> QED BY <1>3, <1>4, <1>6, <1>7 DEF r

LEMMA StoppedFeeds ==
    ASSUME NEW fs \in [Feeds -> FeedState], NEW f \in Feeds \cup {0}, 0 \notin Feeds
    PROVE  /\ Stopped(fs, f) \in [Feeds -> FeedState]
           /\ \A g \in Feeds : Stopped(fs, f)[g].at = IF g = f THEN "stopped" ELSE fs[g].at
<1>1. CASE f = 0 BY <1>1 DEF Stopped
<1>2. CASE f # 0
  <2>1. f \in Feeds /\ Stopped(fs, f) = [fs EXCEPT ![f].at = "stopped"] BY <1>2 DEF Stopped
  <2>2. fs[f] \in FeedState BY <2>1
  <2> QED BY <2>1, <2>2 DEF FeedState
<1> QED BY <1>1, <1>2

LEMMA NoZero == 0 \notin Feeds
BY FeedAssumption DEF Feeds

LEMMA FeedStart == FeedInit => FeedInv
<1> SUFFICES ASSUME FeedInit PROVE FeedInv OBVIOUS
<1>1. \A f \in Feeds : feed[f].at = "none" BY DEF FeedInit, NoFeed
<1>2. Running = {} /\ Shaking = {} BY <1>1 DEF Running, Shaking
<1>3. FeedTypes
  <2>1. NoFeed \in FeedState BY DEF NoFeed, FeedState
  <2> QED BY <2>1 DEF FeedInit, FeedTypes, NoEntry, Hubs
<1>4. Served(hub) /\ hub.refs = {} BY DEF FeedInit, Served, NoEntry
<1> QED BY <1>2, <1>3, <1>4 DEF FeedInv, OneHandshake, OneTrader

(* A runtime that stops for good: its subscription goes, and it is struck  *)
(* from the registration, which is its own unless it was replaced.         *)
LEMMA Leaves ==
    ASSUME FeedInv, NEW f \in Feeds, NEW fs \in [Feeds -> FeedState],
           \A g \in Feeds : fs[g].at = feed[g].at,
           feed' = Stopped(fs, f), hub' = Left(hub, f), Unregister(f), nextPair' = nextPair,
           valid' = valid
    PROVE  FeedInv'
<1> USE DEF FeedInv, FeedTypes
<1>1. feed' \in [Feeds -> FeedState]
      /\ \A g \in Feeds : feed'[g].at = IF g = f THEN "stopped" ELSE feed[g].at
  BY StoppedFeeds, NoZero
<1>2. hub' \in Hubs /\ Served(hub)' /\ hub'.refs = hub.refs \ {f} BY LeftServed DEF Served
<1>3. registered' = 0 /\ (mishap' = {} => mishap = {} /\ registered \in {0, f}) BY DEF Unregister
<1>4. Running' = Running \ {f} BY <1>1 DEF Running
<1>5. Shaking' \subseteq Shaking BY <1>1 DEF Shaking
<1>6. OneTrader' BY <1>2, <1>3, <1>4 DEF OneTrader
<1>7. OneHandshake' BY <1>3, <1>5 DEF OneHandshake
<1> QED BY <1>1, <1>2, <1>3, <1>6, <1>7

(* Nothing changes but what the runtimes know of their polls.              *)
LEMMA StaysWhere ==
    ASSUME FeedInv, feed' \in [Feeds -> FeedState], \A g \in Feeds : feed'[g].at = feed[g].at,
           UNCHANGED <<registered, nextPair, valid, hub, mishap>>
    PROVE  FeedInv'
BY DEF FeedInv, FeedTypes, Served, OneHandshake, OneTrader, Running, Shaking

LEMMA FeedKeeps == FeedInv /\ [FeedNext]_feedVars => FeedInv'
<1> SUFFICES ASSUME FeedInv, [FeedNext]_feedVars PROVE FeedInv' OBVIOUS
<1>a. feed \in [Feeds -> FeedState] /\ registered \in Feeds \cup {0} /\ nextPair \in Nat /\ hub \in Hubs
      /\ Served(hub) /\ OneHandshake /\ OneTrader
  BY DEF FeedInv, FeedTypes
<1>0. CASE UNCHANGED feedVars
  BY <1>0, <1>a, StaysWhere DEF feedVars
<1>1. ASSUME hub' \in Hubs, Served(hub)', hub'.refs = hub.refs,
             UNCHANGED <<feed, registered, nextPair, mishap>>
      PROVE  FeedInv'
  BY <1>1, <1>a DEF FeedInv, FeedTypes, OneHandshake, OneTrader, Running, Shaking
<1>2. CASE SocketDrops
  <2> DEFINE h == [hub EXCEPT !.ws = FALSE]
  <2>1. hub.ws /\ hub' = Rescheduled(h) /\ UNCHANGED <<feed, registered, nextPair, valid, mishap>>
    BY <1>2 DEF SocketDrops
  <2>2. h \in Hubs /\ h.refs = hub.refs /\ h.present = hub.present /\ ~h.ws /\ h.timer = hub.timer
    BY <1>a DEF Hubs
  <2>3. hub.refs # {} /\ hub.present BY <1>a, <2>1 DEF Served
  <2> HIDE DEF h
  <2>4. hub' = [h EXCEPT !.timer = TRUE] BY <2>1, <2>2, <2>3 DEF Rescheduled
  <2>5. hub' \in Hubs /\ hub'.refs = hub.refs /\ hub'.present /\ ~hub'.ws /\ hub'.timer
    BY <2>2, <2>3, <2>4 DEF Hubs
  <2>6. Served(hub)' BY <2>3, <2>5 DEF Served
  <2> QED BY <1>1, <2>1, <2>5, <2>6
<1>3. CASE ReconnectFires
  <2> DEFINE h == [hub EXCEPT !.timer = FALSE]
  <2>1. hub.timer /\ hub' = Opened(h) /\ UNCHANGED <<feed, registered, nextPair, valid, mishap>>
    BY <1>3 DEF ReconnectFires
  <2>2. hub.refs # {} /\ hub.present /\ ~hub.ws BY <1>a, <2>1 DEF Served
  <2>3. h \in Hubs /\ h.refs = hub.refs /\ h.present = hub.present /\ ~h.ws /\ ~h.timer
    BY <1>a, <2>2 DEF Hubs
  <2> HIDE DEF h
  <2>4. hub' \in Hubs /\ hub'.refs = hub.refs /\ hub'.present = hub.present
        /\ ~(hub'.ws /\ hub'.timer) /\ (hub'.ws \/ hub'.timer)
    BY <2>1, <2>2, <2>3, OpenedServed
  <2>5. Served(hub)' BY <2>2, <2>4 DEF Served
  <2> QED BY <1>1, <2>1, <2>4, <2>5
<1>4. CASE CacheExpires
  BY <1>4, <1>a, StaysWhere DEF CacheExpires
<1>5. CASE DisconnectFeed
  <2>1. registered \in Feeds /\ feed' = Stopped(feed, registered) /\ hub' = Left(hub, registered)
        /\ registered' = 0 /\ UNCHANGED <<nextPair, cached, valid, mishap>>
    BY <1>5, <1>a DEF DisconnectFeed
  <2>2. feed' \in [Feeds -> FeedState]
        /\ \A g \in Feeds : feed'[g].at = IF g = registered THEN "stopped" ELSE feed[g].at
    BY <1>a, <2>1, StoppedFeeds, NoZero
  <2>3. hub' \in Hubs /\ Served(hub)' /\ hub'.refs = hub.refs \ {registered}
    BY <1>a, <2>1, LeftServed DEF Served
  <2>4. Running' = Running \ {registered} /\ Shaking' \subseteq Shaking
    BY <2>2 DEF Running, Shaking
  <2>5. OneTrader' BY <1>a, <2>1, <2>3, <2>4 DEF OneTrader
  <2>6. OneHandshake' BY <1>a, <2>1, <2>4 DEF OneHandshake
  <2> QED BY <1>a, <2>1, <2>2, <2>3, <2>5, <2>6 DEF FeedInv, FeedTypes
<1>6. ASSUME NEW f \in Feeds, ConnectFeed(f) PROVE FeedInv'
  <2> DEFINE fs == [feed EXCEPT ![f].at = "pricing", ![f].pair = PairOf]
  <2>1. feed[f].at = "none" /\ feed' = Stopped(fs, registered) /\ hub' = Left(hub, registered)
        /\ registered' = 0 /\ valid' = valid
        /\ nextPair' = (IF KeyPairs <= 1 THEN nextPair ELSE PairOf + 1)
        /\ mishap' = (IF Shaking = {} THEN mishap ELSE mishap \cup {"overlap"})
    BY <1>6 DEF ConnectFeed
  <2>2. PairOf \in Nat BY <1>a, FeedAssumption DEF PairOf
  <2>3. fs \in [Feeds -> FeedState] /\ \A g \in Feeds : fs[g].at = IF g = f THEN "pricing" ELSE feed[g].at
    <3>1. feed[f] \in FeedState BY <1>a
    <3> QED BY <1>a, <2>2, <3>1 DEF FeedState
  <2> HIDE DEF fs
  <2>4. feed' \in [Feeds -> FeedState]
        /\ \A g \in Feeds : feed'[g].at = IF g = registered THEN "stopped" ELSE fs[g].at
    BY <1>a, <2>1, <2>3, StoppedFeeds, NoZero
  <2>5. hub' \in Hubs /\ Served(hub)' /\ hub'.refs = hub.refs \ {registered}
    BY <1>a, <2>1, LeftServed DEF Served
  <2>6. Running' = Running \ {registered}
    BY <2>1, <2>3, <2>4 DEF Running
  <2>7. Shaking' \subseteq Shaking \cup {f} BY <2>3, <2>4 DEF Shaking
  <2>8. mishap' = {} => mishap = {} /\ Shaking = {} BY <2>1
  <2>9. OneTrader' BY <1>a, <2>1, <2>5, <2>6, <2>8 DEF OneTrader
  <2>10. OneHandshake' BY <2>1, <2>7, <2>8 DEF OneHandshake
  <2>11. nextPair' \in Nat BY <1>a, <2>1, <2>2
  <2> QED BY <2>1, <2>4, <2>5, <2>9, <2>10, <2>11 DEF FeedInv, FeedTypes
<1>7. ASSUME NEW f \in Feeds, NEW ok \in BOOLEAN, FirstPrices(f, ok) PROVE FeedInv'
  <2> DEFINE at == IF ok THEN "loading" ELSE "stopped"
  <2>1. feed[f].at = "pricing" /\ feed' = [feed EXCEPT ![f].at = at]
        /\ UNCHANGED <<registered, nextPair, valid, hub, mishap>>
    BY <1>7 DEF FirstPrices
  <2>2. at \in {"loading", "stopped"} OBVIOUS
  <2> HIDE DEF at
  <2>3. feed' \in [Feeds -> FeedState] /\ \A g \in Feeds : feed'[g].at = IF g = f THEN at ELSE feed[g].at
    <3>1. feed[f] \in FeedState BY <1>a
    <3> QED BY <1>a, <2>1, <2>2, <3>1 DEF FeedState
  <2>4. Running' = Running /\ Shaking' \subseteq Shaking BY <2>1, <2>2, <2>3 DEF Running, Shaking
  <2>5. OneTrader' BY <1>a, <2>1, <2>4 DEF OneTrader
  <2>6. OneHandshake' BY <1>a, <2>1, <2>4 DEF OneHandshake
  <2>7. Served(hub)' BY <1>a, <2>1 DEF Served
  <2> QED BY <1>a, <2>1, <2>3, <2>5, <2>6, <2>7 DEF FeedInv, FeedTypes
<1>8. ASSUME NEW f \in Feeds, Launch(f) PROVE FeedInv'
  <2>1. feed[f].at = "loading" /\ feed' = [feed EXCEPT ![f].at = "running", ![f].first = TRUE]
        /\ registered' = f /\ hub' = Subscribed(hub, f) /\ UNCHANGED <<nextPair, cached, valid, mishap>>
    BY <1>8 DEF Launch
  <2>2. feed' \in [Feeds -> FeedState]
        /\ \A g \in Feeds : feed'[g].at = IF g = f THEN "running" ELSE feed[g].at
    <3>1. feed[f] \in FeedState BY <1>a
    <3> QED BY <1>a, <2>1, <3>1 DEF FeedState
  <2>3. hub' \in Hubs /\ Served(hub)' /\ hub'.refs = hub.refs \cup {f}
    BY <1>a, <2>1, SubscribedServed DEF Served
  <2>4. Running' = Running \cup {f} /\ Shaking' = Shaking \ {f} /\ f \in Shaking
    BY <2>1, <2>2 DEF Running, Shaking
  <2>5. OneTrader'
    <3> SUFFICES ASSUME mishap' = {} PROVE Running' \subseteq {registered'} /\ hub'.refs = Running'
      BY DEF OneTrader
    <3>1. mishap = {} BY <2>1
    <3>2. registered = 0 BY <1>a, <2>4, <3>1 DEF OneHandshake
    <3>3. Running \subseteq {registered} /\ hub.refs = Running BY <1>a, <3>1 DEF OneTrader
    <3>4. Running = {} BY <3>2, <3>3, NoZero DEF Running
    <3> QED BY <2>1, <2>3, <2>4, <3>3, <3>4
  <2>6. OneHandshake' BY <1>a, <2>1, <2>4 DEF OneHandshake
  <2> QED BY <1>a, <2>1, <2>2, <2>3, <2>5, <2>6 DEF FeedInv, FeedTypes
<1>9. ASSUME NEW f \in Feeds, FirstPollEnds(f, TRUE) PROVE FeedInv'
  <2>1. feed' = [feed EXCEPT ![f].first = FALSE] /\ UNCHANGED <<registered, nextPair, valid, hub, mishap>>
    BY <1>9 DEF FirstPollEnds
  <2>2. feed' \in [Feeds -> FeedState] /\ \A g \in Feeds : feed'[g].at = feed[g].at
    BY <1>a, <2>1 DEF FeedState
  <2> QED BY <2>1, <2>2, StaysWhere
<1>10. ASSUME NEW f \in Feeds, FirstPollEnds(f, FALSE) PROVE FeedInv'
  <2> DEFINE fs == [feed EXCEPT ![f].first = FALSE]
  <2>1. feed' = Stopped(fs, f) /\ hub' = Left(hub, f) /\ Unregister(f) /\ nextPair' = nextPair
        /\ valid' = valid
    BY <1>10 DEF FirstPollEnds
  <2>2. fs \in [Feeds -> FeedState] /\ \A g \in Feeds : fs[g].at = feed[g].at BY <1>a DEF FeedState
  <2> HIDE DEF fs
  <2> QED BY <2>1, <2>2, Leaves
<1>11. ASSUME NEW f \in Feeds, PollBegins(f) PROVE FeedInv'
  <2>1. feed' = [feed EXCEPT ![f].polling = TRUE] /\ UNCHANGED <<registered, nextPair, valid, hub, mishap>>
    BY <1>11 DEF PollBegins
  <2>2. feed' \in [Feeds -> FeedState] /\ \A g \in Feeds : feed'[g].at = feed[g].at
    BY <1>a, <2>1 DEF FeedState
  <2> QED BY <2>1, <2>2, StaysWhere
<1>12. ASSUME NEW f \in Feeds, NEW ok \in BOOLEAN, PollEnds(f, ok) PROVE FeedInv'
  <2> DEFINE n == IF ok THEN 0 ELSE feed[f].failures + 1
             b == n = MaxPollFailures
  <2>1. feed' = [feed EXCEPT ![f].failures = n, ![f].polling = b]
        /\ UNCHANGED <<registered, nextPair, valid, hub, mishap>>
    BY <1>12 DEF PollEnds
  <2>2. n \in Nat /\ b \in BOOLEAN
    <3>1. feed[f].failures \in Nat BY <1>a DEF FeedState
    <3> QED BY <3>1
  <2> HIDE DEF n, b
  <2>3. feed' \in [Feeds -> FeedState] /\ \A g \in Feeds : feed'[g].at = feed[g].at
    <3>1. feed[f] \in FeedState /\ feed'[f] = [feed[f] EXCEPT !.failures = n, !.polling = b]
          /\ \A g \in Feeds \ {f} : feed'[g] = feed[g]
      BY <1>a, <2>1
    <3>2. feed'[f] \in FeedState /\ feed'[f].at = feed[f].at BY <2>2, <3>1 DEF FeedState
    <3> QED BY <1>a, <2>1, <3>1, <3>2
  <2> QED BY <2>1, <2>3, StaysWhere
<1>13. ASSUME NEW f \in Feeds, PollGivesUp(f) PROVE FeedInv'
  <2> DEFINE fs == [feed EXCEPT ![f].polling = FALSE]
  <2>1. feed' = Stopped(fs, f) /\ hub' = Left(hub, f) /\ Unregister(f) /\ nextPair' = nextPair
        /\ valid' = valid
    BY <1>13 DEF PollGivesUp
  <2>2. fs \in [Feeds -> FeedState] /\ \A g \in Feeds : fs[g].at = feed[g].at BY <1>a DEF FeedState
  <2> HIDE DEF fs
  <2> QED BY <2>1, <2>2, Leaves
<1> QED
  BY <1>0, <1>2, <1>3, <1>4, <1>5, <1>6, <1>7, <1>8, <1>9, <1>10, <1>11, <1>12, <1>13 DEF FeedNext

(* For any number of runtimes, and whatever closes, errors, timers and     *)
(* late answers do to each other: a bot is traded by its registered        *)
(* runtime alone, except after a connect that overlapped another's         *)
(* handshake or a late poll that failed; and a symbol somebody listens to  *)
(* has a socket or a reconnect timer, never both.                          *)
THEOREM FeedsAreServed == FeedSpec => []FeedsServed
<1>1. FeedInv => FeedsServed BY DEF FeedInv, FeedsServed, Served, StreamServed
<1> QED BY <1>1, FeedStart, FeedKeeps, PTL DEF FeedSpec

-----------------------------------------------------------------------------
(***************************************************************************)
(* Trading: a flat book is a clean one. Every path that writes the book,   *)
(* the copy in Redis included, goes through one of four changes (a buy, a  *)
(* sale, a reconciliation, a watched price), and each keeps a book of      *)
(* nothing equal to Flat; so what a restart loads is clean as well.        *)
(***************************************************************************)

(* A book has a quantity, never less than nothing; what the paths sell and *)
(* what balances say are numbers, so that a sale leaves a number.          *)
Books == [held : Nat, entry : BOOLEAN, high : BOOLEAN]
PathState == [at : {"rest", "balance", "closed", "exiting", "selling", "buying", "asking",
                    "reconciling", "buy", "sell"},
              quantity : Int, filled : BOOLEAN]

TradeTypes ==
    /\ wallet \in Int /\ balance \in [free : Int, fresh : BOOLEAN] /\ answer \in Int
    /\ path \in [Path -> PathState]
    /\ book \in Books /\ savedBook \in Books

Clean(b) == b \in Books /\ (b.held = 0 => b = Flat)

TradeInv == TradeTypes /\ Clean(book) /\ Clean(savedBook)

LEMMA FlatClean == Clean(Flat)
BY DEF Clean, Flat, Books

LEMMA BoughtClean == ASSUME NEW b, Clean(b) PROVE Clean(Bought(b))
BY DEF Clean, Bought, Books, Flat

LEMMA SoldClean == ASSUME NEW b, NEW n \in Int, Clean(b) PROVE Clean(Sold(b, n))
<1>1. CASE b.held > n
  <2>1. Sold(b, n) = [b EXCEPT !.held = @ - n] BY <1>1 DEF Sold
  <2>2. b \in Books BY DEF Clean
  <2>3. b.held - n \in Nat \ {0} BY <1>1, <2>2 DEF Books
  <2>4. Sold(b, n) \in Books /\ Sold(b, n).held # 0 BY <2>1, <2>2, <2>3 DEF Books
  <2> QED BY <2>4 DEF Clean
<1>2. CASE ~(b.held > n)
  BY <1>2, FlatClean DEF Sold
<1> QED BY <1>1, <1>2

LEMMA ReconciledClean == ASSUME NEW b, NEW n \in Int, Clean(b) PROVE Clean(Reconciled(b, n))
BY FlatClean DEF Clean, Reconciled, Books

LEMMA WatchedClean ==
    ASSUME NEW b, Clean(b), b.entry, NEW c \in Watched(b) PROVE Clean(c)
<1>1. b \in Books /\ b # Flat /\ b.held # 0 BY DEF Clean, Flat
<1>2. c = b \/ c = [b EXCEPT !.high = TRUE] BY DEF Watched
<1>3. c \in Books /\ c.held = b.held BY <1>1, <1>2 DEF Books
<1> QED BY <1>1, <1>3 DEF Clean

LEMMA ToTypes ==
    ASSUME path \in [Path -> PathState], NEW p \in Path, NEW n \in Int,
           NEW at \in {"rest", "balance", "closed", "exiting", "selling", "buying", "asking",
                       "reconciling", "buy", "sell"},
           To(p, at, n)
    PROVE  path' \in [Path -> PathState]
BY DEF To, AtRest, PathState, Path

LEMMA SaveKeeps ==
    ASSUME Clean(savedBook), NEW b, Clean(b), Save(b) PROVE Clean(book') /\ Clean(savedBook')
BY DEF Save

LEMMA StrategyTypes ==
    ASSUME path \in [Path -> PathState], NEW p \in Path, Strategy(p) PROVE path' \in [Path -> PathState]
<1>1. CASE path' = [path EXCEPT ![p] = AtRest] BY <1>1 DEF AtRest, PathState
<1>2. CASE \E s \in Signal : To(p, s, 0) BY <1>2, ToTypes DEF Signal
<1> QED BY <1>1, <1>2 DEF Strategy

LEMMA NoExitKeeps ==
    ASSUME path \in [Path -> PathState], Clean(savedBook), NEW p \in Path, NEW b, Clean(b), NoExit(p, b)
    PROVE  path' \in [Path -> PathState] /\ Clean(book') /\ Clean(savedBook')
BY StrategyTypes DEF NoExit

LEMMA ExitKeeps ==
    ASSUME path \in [Path -> PathState], Clean(book), Clean(savedBook),
           NEW p \in Path, NEW n \in Int, Exit(p, n)
    PROVE  path' \in [Path -> PathState] /\ Clean(book') /\ Clean(savedBook')
<1>1. CASE live BY <1>1, ToTypes DEF Exit
<1>2. CASE ~live
  <2>1. Clean(Sold(book, n)) BY SoldClean
  <2>2. Save(Sold(book, n)) /\ To(p, "closed", 0) BY <1>2 DEF Exit
  <2> QED BY <2>1, <2>2, SaveKeeps, ToTypes
<1> QED BY <1>1, <1>2

LEMMA DecideKeeps ==
    ASSUME path \in [Path -> PathState], Clean(book), Clean(savedBook),
           NEW p \in Path, NEW n \in Int, Decide(p, n)
    PROVE  path' \in [Path -> PathState] /\ Clean(book') /\ Clean(savedBook')
<1>1. CASE n <= 0 \/ ~book.entry BY <1>1, NoExitKeeps DEF Decide
<1>2. CASE ~(n <= 0 \/ ~book.entry)
  <2>1. CASE Exit(p, n) BY <2>1, ExitKeeps
  <2>2. CASE \E b \in Watched(book) : NoExit(p, b) BY <1>2, <2>2, NoExitKeeps, WatchedClean
  <2> QED BY <1>2, <2>1, <2>2 DEF Decide
<1> QED BY <1>1, <1>2

LEMMA TradeStart == TradeInit => TradeInv
<1> SUFFICES ASSUME TradeInit PROVE TradeInv OBVIOUS
<1>1. savedBook = Flat \/ savedBook = [Flat EXCEPT !.held = 1] BY DEF TradeInit
<1>2. Clean([Flat EXCEPT !.held = 1])
  <2>1. Flat \in Books BY DEF Flat, Books
  <2> QED BY <2>1 DEF Clean, Books
<1>4. Clean(savedBook)
  <2>1. CASE savedBook = Flat BY <2>1, FlatClean
  <2>2. CASE savedBook = [Flat EXCEPT !.held = 1] BY <2>2, <1>2, Zenon
  <2> QED BY <1>1, <2>1, <2>2
<1>5. Clean(book) BY <1>4 DEF TradeInit
<1>3. path \in [Path -> PathState] BY DEF TradeInit, AtRest, PathState
<1> QED BY <1>3, <1>4, <1>5 DEF TradeInit, TradeInv, TradeTypes, NoBalance, Clean

LEMMA TradeStep == TradeInv /\ [TradeNext]_tradeVars => TradeInv'
<1> SUFFICES ASSUME TradeInv, [TradeNext]_tradeVars PROVE TradeInv' OBVIOUS
<1> USE DEF TradeInv, TradeTypes
<1>0. CASE UNCHANGED tradeVars BY <1>0 DEF tradeVars, Clean
<1>1. CASE BalancesRead
  BY <1>1, ToTypes DEF BalancesRead, Clean, Path
<1>2. CASE CacheAges BY <1>2 DEF CacheAges, Clean
<1>3. CASE NewRuntime
  BY <1>3, FlatClean DEF NewRuntime, Clean, NoBalance, AtRest, PathState
<1>4. ASSUME NEW ok \in BOOLEAN, BalancesArrive(ok) PROVE TradeInv'
  <2>1. Clean(Reconciled(book, answer)) BY ReconciledClean
  <2>2. Clean(book') /\ Clean(savedBook') BY <1>4, <2>1, SaveKeeps DEF BalancesArrive
  <2>3. path' \in [Path -> PathState] BY <1>4, ToTypes DEF BalancesArrive, Path
  <2>4. balance' = balance \/ balance' = [free |-> answer, fresh |-> TRUE]
    BY <1>4, Zenon DEF BalancesArrive
  <2>5. balance' \in [free : Int, fresh : BOOLEAN]
    <3>1. [free |-> answer, fresh |-> TRUE] \in [free : Int, fresh : BOOLEAN] OBVIOUS
    <3>2. balance \in [free : Int, fresh : BOOLEAN] OBVIOUS
    <3> QED BY <2>4, <3>1, <3>2, Zenon
  <2> QED BY <1>4, <2>2, <2>3, <2>5 DEF BalancesArrive, Clean
<1>5. ASSUME NEW p \in Path, Evaluate(p) PROVE TradeInv'
  <2>1. book.held \in Int BY DEF Books
  <2>2. CASE live /\ book.held > 0 /\ ~balance.fresh
    BY <1>5, <2>1, <2>2, ToTypes DEF Evaluate, Clean
  <2>3. CASE ~(live /\ book.held > 0 /\ ~balance.fresh)
    <3> DEFINE n == IF live /\ book.held > 0 THEN Least2(book.held, balance.free) ELSE book.held
    <3>1. n \in Int BY <2>1 DEF Least2
    <3>2. Decide(p, n) BY <1>5, <2>3 DEF Evaluate
    <3> HIDE DEF n
    <3> QED BY <1>5, <3>1, <3>2, DecideKeeps DEF Evaluate, Clean
  <2> QED BY <2>2, <2>3
<1>6. ASSUME NEW p \in Path, Closed(p) PROVE TradeInv' BY <1>6, ToTypes DEF Closed, Clean
<1>7. ASSUME NEW p \in Path, Refused(p) PROVE TradeInv' BY <1>7, ToTypes DEF Refused, Clean
<1>8. ASSUME NEW p \in Path, BuyNow(p) PROVE TradeInv'
  BY <1>8, ToTypes, SaveKeeps, BoughtClean DEF BuyNow, Clean
<1>9. ASSUME NEW p \in Path, SellNow(p) PROVE TradeInv'
  <2>1. book.held \in Int BY DEF Books
  <2>2. Clean(Sold(book, book.held)) BY <2>1, SoldClean
  <2>3. Clean(book') /\ Clean(savedBook') BY <1>9, <2>2, SaveKeeps DEF SellNow
  <2>4. balance.free \in Int OBVIOUS
  <2>5. path' \in [Path -> PathState] BY <1>9, <2>4, ToTypes DEF SellNow
  <2> QED BY <1>9, <2>3, <2>5 DEF SellNow, Clean
<1>10. ASSUME NEW p \in Path, ExchangeFills(p) PROVE TradeInv'
  <2>1. path[p] \in PathState OBVIOUS
  <2>2. path' \in [Path -> PathState] BY <1>10, <2>1 DEF ExchangeFills, PathState
  <2>3. wallet' \in Int BY <1>10, <2>1 DEF ExchangeFills, PathState
  <2> QED BY <1>10, <2>2, <2>3 DEF ExchangeFills, Clean
<1>11. ASSUME NEW p \in Path, OrderAnswered(p) PROVE TradeInv'
  <2>1. path[p].quantity \in Int BY DEF PathState
  <2>2. Clean(Sold(book, path[p].quantity)) /\ Clean(Bought(book)) BY <2>1, SoldClean, BoughtClean
  <2>3. Clean(book') /\ Clean(savedBook') BY <1>11, <2>2, SaveKeeps DEF OrderAnswered
  <2>4. path' \in [Path -> PathState] BY <1>11, ToTypes DEF OrderAnswered
  <2>5. balance' = balance \/ balance' = NoBalance BY <1>11, Zenon DEF OrderAnswered
  <2>6. balance' \in [free : Int, fresh : BOOLEAN]
    <3>1. NoBalance \in [free : Int, fresh : BOOLEAN] BY DEF NoBalance
    <3>2. balance \in [free : Int, fresh : BOOLEAN] OBVIOUS
    <3> QED BY <2>5, <3>1, <3>2, Zenon
  <2> QED BY <1>11, <2>3, <2>4, <2>6 DEF OrderAnswered, Clean
<1>12. ASSUME NEW p \in Path, OrderFails(p) PROVE TradeInv'
  BY <1>12, ToTypes DEF OrderFails, Clean, NoBalance
<1>13. ASSUME NEW p \in Path, NEW ok \in BOOLEAN, ExitBalance(p, ok) PROVE TradeInv'
  <2>1. balance' \in [free : Int, fresh : BOOLEAN] BY <1>13 DEF ExitBalance
  <2>2. path[p].quantity \in Int BY DEF PathState
  <2>3. Least2(path[p].quantity, balance'.free) \in Int BY <2>1, <2>2 DEF Least2
  <2>4. path' \in [Path -> PathState] /\ Clean(book') /\ Clean(savedBook')
    BY <1>13, <2>3, NoExitKeeps, DecideKeeps DEF ExitBalance
  <2> QED BY <1>13, <2>1, <2>4 DEF ExitBalance, Clean
<1>14. ASSUME NEW p \in Path, NEW ok \in BOOLEAN, SellBalance(p, ok) PROVE TradeInv'
  <2>1. balance' \in [free : Int, fresh : BOOLEAN] BY <1>14 DEF SellBalance
  <2>2. balance'.free \in Int BY <2>1
  <2>3. path' \in [Path -> PathState] BY <1>14, <2>2, ToTypes DEF SellBalance
  <2> QED BY <1>14, <2>1, <2>3 DEF SellBalance, Clean
<1> QED
  BY <1>0, <1>1, <1>2, <1>3, <1>4, <1>5, <1>6, <1>7, <1>8, <1>9, <1>10, <1>11, <1>12, <1>13, <1>14
  DEF TradeNext

(* FlatIsClean, whatever is traded: a position that is gone, from memory   *)
(* or from Redis, leaves neither an entry price nor a trailing high, so    *)
(* the exits of the next position start from its own fill.                 *)
THEOREM FlatIsAlwaysClean == TradeSpec => []FlatIsClean
<1>1. TradeInv => FlatIsClean BY DEF TradeInv, FlatIsClean, Clean
<1> QED BY <1>1, TradeStart, TradeStep, PTL DEF TradeSpec

-----------------------------------------------------------------------------
(***************************************************************************)
(* Bluesky's session survives, for any number of overlapping calls and any *)
(* number of pairs.  The argument: a refresh is granted for the pair that  *)
(* the client holds and the service takes, and until its answer arrives    *)
(* the client is behind, so that no other can be granted.                  *)
(***************************************************************************)

Place == {"none", "sent", "refreshing", "granted", "denied"}
Calls == [at : Place, pair : Nat, again : BOOLEAN, more : 0..1]
Busy(c) == calling[c].at \in {"refreshing", "granted", "denied"}

AtpTypeOK ==
    /\ session \in Nat /\ service \in Nat /\ session <= service
    /\ calling \in [AtpCaller -> Calls]
    /\ overlap \in BOOLEAN /\ lost \in BOOLEAN

(* A refresh sends a pair the client had; a grant is the service's last    *)
(* pair, which the client does not have yet, and there is one at a time.   *)
PairsFlow ==
    /\ \A c \in AtpCaller : calling[c].at = "refreshing" => calling[c].pair <= session
    /\ \A c \in AtpCaller : calling[c].at = "granted" => calling[c].pair = service /\ session < service
    /\ \A c, d \in AtpCaller : calling[c].at = "granted" /\ calling[d].at = "granted" => c = d

(* The client is behind only while a grant is on its way.                  *)
BehindAGrant == ~lost /\ session # service => \E c \in AtpCaller : calling[c].at = "granted"

(* A refresh that is alone sends the pair the client still holds.          *)
Alone ==
    ~overlap => /\ \A c, d \in AtpCaller : Busy(c) /\ Busy(d) => c = d
                /\ \A c \in AtpCaller : calling[c].at = "refreshing" => calling[c].pair = session
                /\ ~lost => \A c \in AtpCaller : calling[c].at # "denied"

AtpInv == AtpTypeOK /\ PairsFlow /\ BehindAGrant /\ Alone

(* Where a request is over, nobody refreshes for its caller.               *)
LEMMA SettledType ==
    ASSUME AtpTypeOK, NEW c \in AtpCaller
    PROVE  /\ Settled(c) \in [AtpCaller -> Calls]
           /\ Settled(c)[c].at \in {"none", "sent"}
           /\ \A d \in AtpCaller \ {c} : Settled(c)[d] = calling[d]
<1>1. NoCall \in Calls /\ NoCall.at = "none" /\ Asking(0) \in Calls /\ Asking(0).at = "sent"
  BY DEF NoCall, Asking, Calls, Place, AtpTypeOK
<1>2. calling \in [AtpCaller -> Calls]
  BY DEF AtpTypeOK
<1>. QED
  BY <1>1, <1>2 DEF Settled

(* A caller that moves keeps the rest of what it holds.                    *)
LEMMA MovesType ==
    ASSUME AtpTypeOK, NEW c \in AtpCaller, NEW at \in Place, NEW pair \in Nat, NEW again \in BOOLEAN,
           calling' \in {[calling EXCEPT ![c].at = at, ![c].pair = pair],
                         [calling EXCEPT ![c].at = at, ![c].pair = pair, ![c].again = again]}
    PROVE  /\ calling' \in [AtpCaller -> Calls]
           /\ calling'[c].at = at /\ calling'[c].pair = pair
           /\ \A d \in AtpCaller \ {c} : calling'[d] = calling[d]
BY DEF AtpTypeOK, Calls

(* A step that settles the call of c, and changes at most what is listed.  *)
LEMMA SettlingStep ==
    ASSUME AtpInv, NEW c \in AtpCaller,
           calling' \in [AtpCaller -> Calls], calling'[c].at \in {"none", "sent"},
           \A d \in AtpCaller \ {c} : calling'[d] = calling[d],
           session' = session, overlap' = overlap, lost' \in BOOLEAN, lost => lost',
           \/ service' = service /\ (calling[c].at = "granted" => lost')
           \/ /\ service' = service + 1 /\ lost'
              /\ calling[c].at = "refreshing" /\ calling[c].pair = service
    PROVE  AtpInv'
<1>1. AtpTypeOK'
  BY DEF AtpInv, AtpTypeOK
<1>2. PairsFlow'
  <2>1. CASE service' = service
    BY <2>1 DEF AtpInv, AtpTypeOK, PairsFlow
  <2>2. CASE service' = service + 1
    <3>1. session = service
      BY <2>2 DEF AtpInv, AtpTypeOK, PairsFlow
    <3>2. \A d \in AtpCaller : calling[d].at # "granted"
      BY <3>1 DEF AtpInv, AtpTypeOK, PairsFlow
    <3>. QED
      BY <2>2, <3>2 DEF AtpInv, AtpTypeOK, PairsFlow
  <2>. QED
    BY <2>1, <2>2
<1>3. BehindAGrant'
  BY DEF AtpInv, BehindAGrant
<1>4. Alone'
  <2>1. \A d \in AtpCaller : Busy(d)' => Busy(d) /\ calling'[d] = calling[d]
    BY DEF Busy
  <2>. QED
    BY <2>1 DEF AtpInv, Alone, Busy
<1>. QED
  BY <1>1, <1>2, <1>3, <1>4 DEF AtpInv

LEMMA AtpStep == AtpInv /\ [AtpNext]_atpVars => AtpInv'
<1> SUFFICES ASSUME AtpInv, [AtpNext]_atpVars PROVE AtpInv'
  OBVIOUS
<1>0. AtpTypeOK /\ \A c \in AtpCaller : calling[c].pair \in Nat
  BY DEF AtpInv, AtpTypeOK, Calls
<1>1. CASE Expires
  BY <1>1 DEF Expires, AtpInv, AtpTypeOK, PairsFlow, BehindAGrant, Alone, Busy
<1>2. ASSUME NEW c \in AtpCaller, BeginCall(c) PROVE AtpInv'
  <2>1. PICK more \in 0..1 : calling' = [calling EXCEPT ![c] = Asking(more)]
    BY <1>2 DEF BeginCall
  <2>2. Asking(more) \in Calls /\ Asking(more).at = "sent"
    BY <1>0 DEF Asking, Calls, Place, AtpTypeOK
  <2>3. /\ calling' \in [AtpCaller -> Calls] /\ calling'[c].at = "sent"
        /\ \A d \in AtpCaller \ {c} : calling'[d] = calling[d]
    BY <1>0, <2>1, <2>2 DEF AtpTypeOK
  <2>4. calling[c].at = "none" /\ UNCHANGED <<session, service, overlap, lost>> /\ lost' \in BOOLEAN
    BY <1>0, <1>2 DEF BeginCall, AtpTypeOK
  <2>. QED
    BY <2>3, <2>4, SettlingStep
<1>3. ASSUME NEW c \in AtpCaller, Answer(c) PROVE AtpInv'
  <2>1. calling[c].at = "sent" /\ UNCHANGED <<session, service, lost>> /\ lost' \in BOOLEAN
    BY <1>0, <1>3 DEF Answer, AtpTypeOK
  <2>2. CASE calling[c].pair > expired \/ calling[c].again
    <3>1. calling' = Settled(c) /\ overlap' = overlap
      BY <1>3, <2>2 DEF Answer
    <3>. QED
      BY <1>0, <2>1, <3>1, SettledType, SettlingStep
  <2>3. CASE ~(calling[c].pair > expired \/ calling[c].again)
    <3>1. Moves(c, "refreshing", session) /\ overlap' = (overlap \/ Refreshing # {})
      BY <1>3, <2>3 DEF Answer
    <3>2. /\ calling' \in [AtpCaller -> Calls]
          /\ calling'[c].at = "refreshing" /\ calling'[c].pair = session
          /\ \A d \in AtpCaller \ {c} : calling'[d] = calling[d]
      BY <1>0, <3>1, MovesType DEF Moves, AtpTypeOK, Place
    <3>3. AtpTypeOK'
      BY <1>0, <2>1, <3>1, <3>2 DEF AtpTypeOK
    <3>4. PairsFlow' /\ BehindAGrant'
      BY <1>0, <2>1, <3>2 DEF AtpInv, AtpTypeOK, PairsFlow, BehindAGrant
    <3>5. Alone'
      <4>1. CASE \E d \in AtpCaller : Busy(d)
        <5>1. overlap'
          BY <3>1, <4>1 DEF Refreshing, Busy
        <5>. QED
          BY <5>1 DEF Alone
      <4>2. CASE \A d \in AtpCaller : ~Busy(d)
        BY <2>1, <3>1, <3>2, <4>2 DEF AtpInv, Alone, Busy
      <4>. QED
        BY <4>1, <4>2
    <3>. QED
      BY <3>3, <3>4, <3>5 DEF AtpInv
  <2>. QED
    BY <2>2, <2>3
<1>4. ASSUME NEW c \in AtpCaller, Refresh(c) PROVE AtpInv'
  <2>1. calling[c].at = "refreshing" /\ UNCHANGED <<session, overlap, lost>>
    BY <1>4 DEF Refresh
  <2>2. CASE calling[c].pair = service
    <3>1. service' = service + 1 /\ Moves(c, "granted", service + 1)
      BY <1>4, <2>2 DEF Refresh
    <3>2. service + 1 \in Nat /\ session = service /\ \A d \in AtpCaller : calling[d].at # "granted"
      BY <2>1, <2>2 DEF AtpInv, AtpTypeOK, PairsFlow
    <3>3. /\ calling' \in [AtpCaller -> Calls]
          /\ calling'[c].at = "granted" /\ calling'[c].pair = service + 1
          /\ \A d \in AtpCaller \ {c} : calling'[d] = calling[d]
      BY <1>0, <3>1, <3>2, MovesType DEF Moves, Place
    <3>4. AtpTypeOK' /\ PairsFlow' /\ BehindAGrant'
      BY <1>0, <2>1, <3>1, <3>2, <3>3 DEF AtpInv, AtpTypeOK, PairsFlow, BehindAGrant
    <3>5. Alone'
      BY <2>1, <3>3 DEF AtpInv, Alone, Busy
    <3>. QED
      BY <3>4, <3>5 DEF AtpInv
  <2>3. CASE calling[c].pair # service
    <3>1. service' = service /\ Moves(c, "denied", 0)
      BY <1>4, <2>3 DEF Refresh
    <3>2. /\ calling' \in [AtpCaller -> Calls] /\ calling'[c].at = "denied"
          /\ \A d \in AtpCaller \ {c} : calling'[d] = calling[d]
      BY <1>0, <3>1, MovesType DEF Moves, Place
    <3>3. lost \/ overlap
      <4>1. SUFFICES ASSUME ~lost, ~overlap PROVE FALSE
        OBVIOUS
      <4>2. calling[c].pair = session /\ \A d \in AtpCaller : d # c => ~Busy(d)
        BY <2>1, <4>1 DEF AtpInv, Alone, Busy
      <4>3. \A d \in AtpCaller : calling[d].at # "granted"
        BY <2>1, <4>2 DEF Busy
      <4>. QED
        BY <2>3, <4>1, <4>2, <4>3 DEF AtpInv, BehindAGrant
    <3>4. AtpTypeOK' /\ PairsFlow' /\ BehindAGrant'
      BY <1>0, <2>1, <3>1, <3>2 DEF AtpInv, AtpTypeOK, PairsFlow, BehindAGrant
    <3>5. Alone'
      BY <2>1, <3>2, <3>3 DEF AtpInv, Alone, Busy
    <3>. QED
      BY <3>4, <3>5 DEF AtpInv
  <2>. QED
    BY <2>2, <2>3
<1>5. ASSUME NEW c \in AtpCaller, Granted(c) PROVE AtpInv'
  <2>1. /\ calling[c].at = "granted" /\ calling[c].pair = service
        /\ session' = service /\ UNCHANGED <<service, overlap, lost>>
    BY <1>5 DEF Granted, Renewed, AtpInv, PairsFlow
  <2>2. calling' = [calling EXCEPT ![c].at = "sent", ![c].pair = service, ![c].again = TRUE]
    BY <1>5, <2>1 DEF Granted
  <2>3. /\ calling' \in [AtpCaller -> Calls] /\ calling'[c].at = "sent"
        /\ \A d \in AtpCaller \ {c} : calling'[d] = calling[d]
    BY <1>0, <2>2, MovesType DEF AtpTypeOK, Place
  <2>4. \A d \in AtpCaller \ {c} : calling[d].at # "granted"
    BY <2>1 DEF AtpInv, PairsFlow
  <2>5. ~overlap => \A d \in AtpCaller \ {c} : ~Busy(d)
    BY <2>1 DEF AtpInv, Alone, Busy
  <2>6. AtpTypeOK' /\ PairsFlow' /\ BehindAGrant'
    BY <1>0, <2>1, <2>3, <2>4 DEF AtpInv, AtpTypeOK, PairsFlow, BehindAGrant
  <2>7. Alone'
    BY <2>1, <2>3, <2>5 DEF AtpInv, Alone, Busy
  <2>. QED
    BY <2>6, <2>7 DEF AtpInv
<1>6. ASSUME NEW c \in AtpCaller, Denied(c) PROVE AtpInv'
  <2>1. calling[c].at = "denied" /\ calling' = Settled(c) /\ UNCHANGED <<session, service, overlap, lost>>
    BY <1>6 DEF Denied
  <2>2. lost' \in BOOLEAN
    BY <1>0, <2>1 DEF AtpTypeOK
  <2>. QED
    BY <1>0, <2>1, <2>2, SettledType, SettlingStep
<1>7. ASSUME NEW c \in AtpCaller, TimesOut(c) PROVE AtpInv'
  <2>1. PICK noticed \in BOOLEAN :
          LET takes == noticed /\ calling[c].at = "refreshing" /\ calling[c].pair = service
          IN  /\ service' = IF takes THEN service + 1 ELSE service
              /\ lost' = (lost \/ takes \/ calling[c].at = "granted")
    BY <1>7 DEF TimesOut
  <2>2. calling' = Settled(c) /\ UNCHANGED <<session, overlap>>
    BY <1>7 DEF TimesOut
  <2>3. CASE noticed /\ calling[c].at = "refreshing" /\ calling[c].pair = service
    <3>1. service' = service + 1 /\ lost' = TRUE
      BY <2>1, <2>3
    <3>. QED
      BY <1>0, <2>2, <2>3, <3>1, SettledType, SettlingStep
  <2>4. CASE ~(noticed /\ calling[c].at = "refreshing" /\ calling[c].pair = service)
    <3>1. service' = service /\ lost' = (lost \/ calling[c].at = "granted")
      BY <2>1, <2>4
    <3>. QED
      BY <1>0, <2>2, <3>1, SettledType, SettlingStep
  <2>. QED
    BY <2>3, <2>4
<1>8. CASE UNCHANGED atpVars
  BY <1>8 DEF atpVars, AtpInv, AtpTypeOK, PairsFlow, BehindAGrant, Alone, Busy
<1>. QED
  BY <1>1, <1>2, <1>3, <1>4, <1>5, <1>6, <1>7, <1>8 DEF AtpNext

(* Whatever calls overlap, unless an answer with a new pair is lost, the   *)
(* client holds the refresh token the service takes or is about to get it, *)
(* and only overlapping refreshes are denied.                              *)
THEOREM SessionKept == AtpSpec => []SessionSurvives
<1>1. AtpInit => AtpInv
  <2>. SUFFICES ASSUME AtpInit
                PROVE  AtpInv
    OBVIOUS
  <2>1. NoCall \in Calls /\ NoCall.at = "none"
    BY DEF NoCall, Calls, Place
  <2>2. \A c \in AtpCaller : calling[c].at = "none"
    BY <2>1 DEF AtpInit
  <2>3. AtpTypeOK
    <3>1. calling \in [AtpCaller -> Calls]
      BY <2>1 DEF AtpInit
    <3>2. overlap \in BOOLEAN /\ lost \in BOOLEAN
      BY Zenon DEF AtpInit
    <3>3. session \in Nat /\ service \in Nat /\ session <= service
      BY DEF AtpInit
    <3>. QED
      BY <3>1, <3>2, <3>3 DEF AtpTypeOK
  <2>4. PairsFlow /\ Alone
    BY <2>2 DEF PairsFlow, Alone, Busy
  <2>5. BehindAGrant
    BY DEF AtpInit, BehindAGrant
  <2>. QED
    BY <2>3, <2>4, <2>5 DEF AtpInv
<1>2. AtpInv => SessionSurvives
  BY DEF AtpInv, BehindAGrant, Alone, SessionSurvives
<1>. QED
  BY <1>1, <1>2, AtpStep, PTL DEF AtpSpec

-----------------------------------------------------------------------------
(***************************************************************************)
(* For any number of handlers and messages: the deletion of a bot leaves   *)
(* none of its trading state, and an entry of its memory that stays for    *)
(* good is one whose script asked for it.  The argument for the first: no  *)
(* name comes back once the row is gone, unless the worker writes late, so *)
(* a name that a scan has not found, or a step has deleted, stays away.    *)
(***************************************************************************)

Today == <<"crypto", "daily", "bot", "today">>
Positions == <<"crypto", "positions", "bot">>
Live == <<"crypto", "live", "bot">>
Names == StoreNames \cup CryptoNames

EntriesTyped == DOMAIN kept = Names

(* Past the memory, the cleanup is that of a deletion.                     *)
DeletesRow == cleanup.at \in {"scanDays", "days", "positions", "live", "done"} => ~rowExists

(* Unless a write came late, what the cleanup has passed is away, and what *)
(* it is about to delete has been found.                                   *)
PassedIsAway ==
    ~late => /\ cleanup.at = "days" /\ kept[Today].there => Today \in cleanup.found
             /\ cleanup.at \in {"positions", "live", "done"} => ~kept[Today].there
             /\ cleanup.at \in {"live", "done"} => ~kept[Positions].there
             /\ cleanup.at = "done" => ~kept[Live].there

MemoryInv == EntriesTyped /\ DeletesRow /\ PassedIsAway

LEMMA NamesDiffer ==
    /\ Today \in Names /\ Positions \in Names /\ Live \in Names
    /\ CryptoNames = {Today, Positions, Live}
    /\ Today # Positions /\ Today # Live /\ Positions # Live
BY DEF Today, Positions, Live, Names, CryptoNames

(* The scan for days finds the day.                                        *)
LEMMA ScanFindsToday ==
    ASSUME EntriesTyped, kept[Today].there
    PROVE  Today \in Under(<<"crypto", "daily", "bot">>)
<1>1. IsPrefix(<<"crypto", "daily", "bot">>, Today)
  BY DEF IsPrefix, Today
<1>. QED
  BY <1>1, NamesDiffer DEF Under, EntriesTyped

(* A step that removes names brings none back.                             *)
LEMMA DropOnlyRemoves ==
    ASSUME EntriesTyped, NEW names, Drop(names)
    PROVE  /\ EntriesTyped'
           /\ \A n \in Names : /\ kept'[n].there => kept[n].there
                               /\ n \in names => ~kept'[n].there
BY DEF Drop, EntriesTyped, Absent

(* Steps that only remove names and leave the cleanup alone.               *)
LEMMA RemovingStep ==
    ASSUME MemoryInv, EntriesTyped', UNCHANGED <<rowExists, cleanup, late>>,
           \A n \in Names : kept'[n].there => kept[n].there
    PROVE  MemoryInv'
BY NamesDiffer DEF MemoryInv, DeletesRow, PassedIsAway

(* Steps that write: the row is there, or the write is late.               *)
LEMMA WritingStep ==
    ASSUME MemoryInv, NEW name, NEW item, Put(name, item), UNCHANGED <<rowExists, cleanup>>
    PROVE  MemoryInv'
<1>1. EntriesTyped' /\ (~late' => ~late /\ rowExists)
  BY DEF MemoryInv, Put, EntriesTyped
<1>. QED
  BY <1>1 DEF MemoryInv, DeletesRow, PassedIsAway

(* A step of the cleanup, forward or given up.                             *)
LEMMA CleanupStep ==
    ASSUME MemoryInv, Scanned \/ Deleted \/ CleanupFails \/ BeginClear \/ DeleteBot
    PROVE  MemoryInv'
<1>. USE DEF MemoryInv
<1>1. CASE BeginClear \/ DeleteBot
  BY <1>1 DEF BeginClear, DeleteBot, EntriesTyped, DeletesRow, PassedIsAway
<1>2. CASE CleanupFails
  BY <1>2 DEF CleanupFails, EntriesTyped, DeletesRow, PassedIsAway
<1>3. CASE Scanned
  <2>1. CASE cleanup.at = "scan"
    <3>1. cleanup'.at = "memory" /\ UNCHANGED <<kept, rowExists, late>>
      BY <1>3, <2>1 DEF Scanned, StepAfter
    <3>. QED
      BY <3>1 DEF EntriesTyped, DeletesRow, PassedIsAway
  <2>2. CASE cleanup.at = "scanDays"
    <3>1. /\ cleanup'.at = "days" /\ cleanup'.found = Under(<<"crypto", "daily", "bot">>)
          /\ UNCHANGED <<kept, rowExists, late>>
      BY <1>3, <2>2 DEF Scanned, StepAfter, Pattern
    <3>. QED
      BY <2>2, <3>1, ScanFindsToday DEF EntriesTyped, DeletesRow, PassedIsAway
  <2>. QED
    BY <1>3, <2>1, <2>2 DEF Scanned
<1>4. CASE Deleted
  <2>1. /\ EntriesTyped'
        /\ \A n \in Names : /\ kept'[n].there => kept[n].there
                            /\ n \in Doomed => ~kept'[n].there
    BY <1>4, DropOnlyRemoves DEF Deleted
  <2>2. cleanup'.at = StepAfter(cleanup.at) /\ UNCHANGED <<rowExists, late>>
    BY <1>4 DEF Deleted
  <2>3. CASE cleanup.at = "memory"
    BY <2>1, <2>2, <2>3 DEF StepAfter, DeletesRow, PassedIsAway
  <2>4. CASE cleanup.at = "days"
    <3>1. cleanup'.at = "positions" /\ Doomed = cleanup.found
      BY <2>2, <2>4 DEF StepAfter, Doomed
    <3>. QED
      BY <2>1, <2>2, <2>4, <3>1, NamesDiffer DEF DeletesRow, PassedIsAway
  <2>5. CASE cleanup.at = "positions"
    <3>1. cleanup'.at = "live" /\ Positions \in Doomed
      BY <2>2, <2>5 DEF StepAfter, Doomed, Positions
    <3>. QED
      BY <2>1, <2>2, <2>5, <3>1, NamesDiffer DEF DeletesRow, PassedIsAway
  <2>6. CASE cleanup.at = "live"
    <3>1. cleanup'.at = "done" /\ Live \in Doomed
      BY <2>2, <2>6 DEF StepAfter, Doomed, Live
    <3>. QED
      BY <2>1, <2>2, <2>6, <3>1, NamesDiffer DEF DeletesRow, PassedIsAway
  <2>. QED
    BY <1>4, <2>3, <2>4, <2>5, <2>6 DEF Deleted
<1>. QED
  BY <1>1, <1>2, <1>3, <1>4

LEMMA MemoryStep == MemoryInv /\ [MemoryNext]_memoryVars => MemoryInv'
<1>. SUFFICES ASSUME MemoryInv, [MemoryNext]_memoryVars
              PROVE  MemoryInv'
  OBVIOUS
<1>0. EntriesTyped
  BY DEF MemoryInv
<1>1. ASSUME NEW t \in MemoryTask, StoreBack(t)
      PROVE  MemoryInv'
  <2>1. PICK item : Put(StoreName(holding[t].key), item)
    BY <1>1 DEF StoreBack
  <2>. QED
    BY <1>1, <2>1, WritingStep DEF StoreBack
<1>2. ASSUME NEW t \in MemoryTask, GivesUp(t) \/ \E key \in Updated, adds \in BOOLEAN : Load(t, key, adds)
      PROVE  MemoryInv'
  BY <1>2 DEF GivesUp, Load, MemoryInv, EntriesTyped, DeletesRow, PassedIsAway
<1>3. CASE \E lifetime \in Lifetimes : Remember(lifetime)
  <2>1. PICK item : Put(StoreName("note"), item)
    BY <1>3 DEF Remember
  <2>. QED
    BY <1>3, <2>1, WritingStep DEF Remember
<1>4. CASE \E by \in 1..2 : Increment(by)
  <2>1. PICK item : Put(StoreName("count"), item)
    BY <1>4 DEF Increment
  <2>. QED
    BY <1>4, <2>1, WritingStep DEF Increment
<1>5. CASE TradingStep
  <2>1. PICK n \in CryptoNames : SaveTrading(n)
    BY <1>5 DEF TradingStep
  <2>2. PICK item : Put(n, item)
    BY <2>1 DEF SaveTrading
  <2>. QED
    BY <2>1, <2>2, WritingStep DEF SaveTrading
<1>6. CASE Forget \/ (\E n \in DOMAIN kept : MemoryExpires(n)) \/ \E key \in MemoryKey : DeleteKey(key)
  BY <1>0, <1>6, DropOnlyRemoves, RemovingStep DEF Forget, MemoryExpires, DeleteKey
<1>7. CASE Scanned \/ Deleted \/ CleanupFails \/ BeginClear \/ DeleteBot
  BY <1>7, CleanupStep
<1>8. CASE UNCHANGED memoryVars
  BY <1>8 DEF memoryVars, MemoryInv, EntriesTyped, DeletesRow, PassedIsAway
<1>. QED
  BY <1>1, <1>2, <1>3, <1>4, <1>5, <1>6, <1>7, <1>8
  DEF MemoryNext, HandlerStep, ScriptStep, SharedStep

(* A deletion that went through leaves no trading state, unless the worker *)
(* wrote after the row was gone: whatever handlers, scripts and other      *)
(* cleanups did before and between its steps.                              *)
THEOREM TradingStateRemoved == MemorySpec => []TradingStateGone
<1>1. MemoryInit => MemoryInv
  BY DEF MemoryInit, NoCleanup, MemoryInv, EntriesTyped, DeletesRow, PassedIsAway, Names
<1>2. MemoryInv => TradingStateGone
  BY NamesDiffer DEF MemoryInv, PassedIsAway, TradingStateGone
<1>. QED
  BY <1>1, <1>2, MemoryStep, PTL DEF MemorySpec

-----------------------------------------------------------------------------
(* A name that is not there has nothing: the increment that finds it       *)
(* absent is the one that arms its expiry.                                 *)
AbsentIsEmpty == \A n \in Names : ~kept[n].there => kept[n].history = <<>>

ExpiryInv == EntriesTyped /\ AbsentIsEmpty /\ MemoryExpiresAtLast

LEMMA ExpiryKept ==
    ASSUME ExpiryInv,
           \/ UNCHANGED kept
           \/ \E names : Drop(names)
           \/ \E name \in Names : \E history, expires :
                 /\ Put(name, Entry(history, expires))
                 /\ name \in StoreNames \ {StoreName("note")} => expires
    PROVE  ExpiryInv'
<1>1. CASE UNCHANGED kept
  BY <1>1 DEF ExpiryInv, EntriesTyped, AbsentIsEmpty, MemoryExpiresAtLast
<1>2. CASE \E names : Drop(names)
  BY <1>2 DEF ExpiryInv, EntriesTyped, AbsentIsEmpty, MemoryExpiresAtLast, Drop, Absent, Names
<1>3. CASE \E name \in Names : \E history, expires :
             /\ Put(name, Entry(history, expires))
             /\ name \in StoreNames \ {StoreName("note")} => expires
  BY <1>3 DEF ExpiryInv, EntriesTyped, AbsentIsEmpty, MemoryExpiresAtLast, Put, Entry, Names
<1>. QED
  BY <1>1, <1>2, <1>3

LEMMA IncrementArms ==
    ASSUME ExpiryInv, NEW by \in 1..2, Increment(by)
    PROVE  \E history, expires :
             /\ Put(StoreName("count"), Entry(history, expires))
             /\ expires
<1>1. StoreName("count") \in StoreNames /\ StoreName("count") # StoreName("note")
  BY DEF StoreNames, StoreName, MemoryKey
<1>2. CASE kept[StoreName("count")].there
  BY <1>1, <1>2 DEF ExpiryInv, MemoryExpiresAtLast, Increment
<1>3. CASE ~kept[StoreName("count")].there
  <2>1. kept[StoreName("count")].history = <<>>
    BY <1>1, <1>3 DEF ExpiryInv, AbsentIsEmpty, Names
  <2>2. ArmedBy(Len(kept[StoreName("count")].history) + by, by)
    BY <2>1 DEF ArmedBy
  <2>. QED
    BY <2>2 DEF Increment
<1>. QED
  BY <1>2, <1>3

LEMMA ExpiryStep == ExpiryInv /\ [MemoryNext]_memoryVars => ExpiryInv'
<1>. SUFFICES ASSUME ExpiryInv, [MemoryNext]_memoryVars
              PROVE  ExpiryInv'
  OBVIOUS
<1>0. /\ \A key \in MemoryKey : StoreName(key) \in Names
      /\ CryptoNames \subseteq Names /\ StoreNames \cap CryptoNames = {}
  BY DEF Names, StoreNames, CryptoNames, StoreName
<1>1. ASSUME NEW key \in Updated, HandlerStep(key)
      PROVE  ExpiryInv'
  <2>1. CASE \E t \in MemoryTask : GivesUp(t) \/ \E adds \in BOOLEAN : Load(t, key, adds)
    BY <2>1, ExpiryKept DEF GivesUp, Load
  <2>2. ASSUME NEW t \in MemoryTask, StoreBack(t)
        PROVE  ExpiryInv'
    <3>1. PICK history : Put(StoreName(holding[t].key), Entry(history, TRUE))
      BY <2>2 DEF StoreBack
    <3>2. CASE StoreName(holding[t].key) \in Names
      BY <3>1, <3>2, ExpiryKept
    <3>3. CASE StoreName(holding[t].key) \notin Names
      BY <3>1, <3>3 DEF Put, ExpiryInv, EntriesTyped, AbsentIsEmpty, MemoryExpiresAtLast, Names
    <3>. QED
      BY <3>2, <3>3
  <2>. QED
    BY <1>1, <2>1, <2>2 DEF HandlerStep
<1>2. ASSUME NEW lifetime \in Lifetimes, Remember(lifetime)
      PROVE  ExpiryInv'
  <2>1. Put(StoreName("note"), Entry(<<>>, lifetime # "zero")) /\ StoreName("note") \in Names
    BY <1>0, <1>2 DEF Remember, MemoryKey
  <2>. QED
    BY <2>1, ExpiryKept
<1>3. ASSUME NEW by \in 1..2, Increment(by)
      PROVE  ExpiryInv'
  <2>1. StoreName("count") \in Names
    BY <1>0 DEF MemoryKey
  <2>. QED
    BY <1>3, <2>1, IncrementArms, ExpiryKept
<1>4. ASSUME NEW n \in CryptoNames, SaveTrading(n)
      PROVE  ExpiryInv'
  <2>1. Put(n, Entry(<<>>, n[2] = "daily")) /\ n \in Names /\ n \notin StoreNames
    BY <1>0, <1>4 DEF SaveTrading
  <2>. QED
    BY <2>1, ExpiryKept
<1>5. CASE \/ Forget \/ Deleted \/ (\E n \in DOMAIN kept : MemoryExpires(n))
           \/ \E key \in MemoryKey : DeleteKey(key)
  <2>1. \E names : Drop(names)
    BY <1>5 DEF Forget, Deleted, MemoryExpires, DeleteKey
  <2>. QED
    BY <2>1, ExpiryKept
<1>6. CASE \/ BeginClear \/ DeleteBot \/ Scanned \/ CleanupFails \/ UNCHANGED memoryVars
  <2>1. UNCHANGED kept
    BY <1>6 DEF BeginClear, DeleteBot, Scanned, CleanupFails, memoryVars
  <2>. QED
    BY <2>1, ExpiryKept
<1>. QED
  BY <1>1, <1>2, <1>3, <1>4, <1>5, <1>6 DEF MemoryNext, ScriptStep, TradingStep, SharedStep

(* The comment of increment ("never leaks in Redis forever"): whatever     *)
(* increments, expiries and cleanups meet, only a script that asks for no  *)
(* lifetime makes an entry that never expires.                             *)
THEOREM EntriesExpire == MemorySpec => []MemoryExpiresAtLast
<1>1. MemoryInit => ExpiryInv
  BY DEF MemoryInit, Absent, ExpiryInv, EntriesTyped, AbsentIsEmpty, MemoryExpiresAtLast, Names
<1>2. ExpiryInv => MemoryExpiresAtLast
  BY DEF ExpiryInv
<1>. QED
  BY <1>1, <1>2, ExpiryStep, PTL DEF MemorySpec

-----------------------------------------------------------------------------
(* LastOf returns the end of a sequence, at most so many of its items.     *)
LEMMA LastOfProperties ==
    ASSUME NEW n \in Nat, NEW s \in Seq(Nat)
    PROVE  /\ LastOf(n, s) \in Seq(Nat)
           /\ Len(LastOf(n, s)) = IF Len(s) > n THEN n ELSE Len(s)
           /\ \A i \in 1..Len(LastOf(n, s)) : LastOf(n, s)[i] = s[Len(s) - Len(LastOf(n, s)) + i]
<1>1. Len(s) \in Nat /\ \A i \in 1..Len(s) : s[i] \in Nat
  BY LenProperties, ElementOfSeq
<1>2. CASE Len(s) > n
  <2> DEFINE m == Len(s) - n + 1
             u == SubSeq(s, m, Len(s))
  <2>1. m \in Int /\ Len(s) \in Int /\ \A i \in m..Len(s) : s[i] \in Nat
    BY <1>1, <1>2
  <2>2. /\ u \in Seq(Nat) /\ Len(u) = (IF m <= Len(s) THEN Len(s) - m + 1 ELSE 0)
        /\ \A i \in 1..(Len(s) - m + 1) : u[i] = s[m + i - 1]
    <3> HIDE DEF m
    <3> QED BY <2>1, SubSeqProperties
  <2>3. Len(u) = n
    BY <1>1, <1>2, <2>2
  <2>4. LastOf(n, s) = u
    BY <1>2 DEF LastOf
  <2>5. Len(s) - m + 1 = n /\ \A i \in 1..n : m + i - 1 = Len(s) - n + i
    BY <1>1
  <2> HIDE DEF u, m
  <2> QED BY <1>2, <2>2, <2>3, <2>4, <2>5
<1>3. CASE ~(Len(s) > n)
  <2>1. LastOf(n, s) = s BY <1>3 DEF LastOf
  <2>2. \A i \in 1..Len(s) : Len(s) - Len(s) + i = i BY <1>1
  <2> QED BY <1>1, <1>3, <2>1, <2>2
<1> QED BY <1>2, <1>3

(* What comes on top of the end of a sequence is on top of all of it.      *)
LEMMA LastOfEnd ==
    ASSUME NEW n \in Nat, NEW k \in Nat, NEW s \in Seq(Nat), NEW t \in Seq(Nat), n <= k + Len(t)
    PROVE  LastOf(n, LastOf(k, s) \o t) = LastOf(n, s \o t)
<1> DEFINE e == LastOf(k, s)
           a == e \o t
           b == s \o t
           x == LastOf(n, a)
           y == LastOf(n, b)
<1>1. /\ e \in Seq(Nat) /\ Len(e) = (IF Len(s) > k THEN k ELSE Len(s))
      /\ \A i \in 1..Len(e) : e[i] = s[Len(s) - Len(e) + i]
  BY LastOfProperties
<1>2. Len(s) \in Nat /\ Len(t) \in Nat /\ Len(e) \in Nat
  BY <1>1, LenProperties
<1> HIDE DEF e
<1>3. /\ a \in Seq(Nat) /\ Len(a) = Len(e) + Len(t)
      /\ \A i \in 1..(Len(e) + Len(t)) : a[i] = IF i <= Len(e) THEN e[i] ELSE t[i - Len(e)]
  BY <1>1, ConcatProperties
<1>4. /\ b \in Seq(Nat) /\ Len(b) = Len(s) + Len(t)
      /\ \A i \in 1..(Len(s) + Len(t)) : b[i] = IF i <= Len(s) THEN s[i] ELSE t[i - Len(s)]
  BY ConcatProperties
<1> HIDE DEF a, b
<1>5. /\ x \in Seq(Nat) /\ Len(x) = (IF Len(a) > n THEN n ELSE Len(a))
      /\ \A i \in 1..Len(x) : x[i] = a[Len(a) - Len(x) + i]
  BY <1>3, LastOfProperties
<1>6. /\ y \in Seq(Nat) /\ Len(y) = (IF Len(b) > n THEN n ELSE Len(b))
      /\ \A i \in 1..Len(y) : y[i] = b[Len(b) - Len(y) + i]
  BY <1>4, LastOfProperties
<1> HIDE DEF x, y
<1>7. /\ Len(x) = Len(y) /\ Len(x) \in Nat /\ Len(x) <= Len(a) /\ Len(e) <= Len(s)
      /\ Len(a) = Len(e) + Len(t) /\ Len(b) = Len(s) + Len(t)
  <2> DEFINE ls == Len(s)  lt == Len(t)  le == Len(e)  la == Len(a)  lb == Len(b)
             lx == Len(x)  ly == Len(y)
  <2>1. /\ le = (IF ls > k THEN k ELSE ls) /\ la = le + lt /\ lb = ls + lt
        /\ lx = (IF la > n THEN n ELSE la) /\ ly = (IF lb > n THEN n ELSE lb) /\ n <= k + lt
        /\ ls \in Nat /\ lt \in Nat /\ le \in Nat
    BY <1>1, <1>2, <1>3, <1>4, <1>5, <1>6
  <2> HIDE DEF ls, lt, le, la, lb, lx, ly
  <2>2. lx = ly /\ lx \in Nat /\ lx <= la /\ le <= ls
    BY <2>1
  <2> QED BY <2>1, <2>2 DEF ls, lt, le, la, lb, lx, ly
<1>8. ASSUME NEW i \in 1..Len(x) PROVE x[i] = y[i]
  <2> DEFINE p == Len(a) - Len(x) + i
             q == Len(b) - Len(x) + i
  <2>1. x[i] = a[p] /\ y[i] = b[q]
    BY <1>5, <1>6, <1>7, <1>8
  <2>2. /\ p \in 1..(Len(e) + Len(t)) /\ q \in 1..(Len(s) + Len(t)) /\ q = p + (Len(s) - Len(e))
        /\ Len(e) <= Len(s)
    BY <1>2, <1>7, <1>8
  <2> HIDE DEF p, q
  <2>3. CASE p <= Len(e)
    <3>0. p \in 1..Len(e) /\ q <= Len(s) BY <1>2, <2>2, <2>3
    <3>1. a[p] = e[p] /\ p \in 1..Len(e) /\ q <= Len(s) BY <1>3, <2>2, <2>3, <3>0
    <3>2. e[p] = s[Len(s) - Len(e) + p] BY <1>1, <3>1
    <3>3. q = Len(s) - Len(e) + p BY <1>2, <2>2
    <3> QED BY <1>4, <2>1, <2>2, <3>1, <3>2, <3>3
  <2>4. CASE ~(p <= Len(e))
    <3>1. a[p] = t[p - Len(e)] BY <1>3, <2>2, <2>4
    <3>2. ~(q <= Len(s)) /\ q - Len(s) = p - Len(e) BY <1>2, <2>2, <2>4
    <3>3. b[q] = t[q - Len(s)] BY <1>4, <2>2, <3>2
    <3> QED BY <2>1, <3>1, <3>2, <3>3
  <2> QED BY <2>3, <2>4
<1>9. x = y BY <1>5, <1>6, <1>7, <1>8, SeqEqual
<1> QED BY <1>9 DEF x, y, a, b, e

(* The end of a sequence and what comes on top of it, as one end.          *)
LEMMA LastOfConcat ==
    ASSUME NEW n \in Nat, NEW s \in Seq(Nat), NEW t \in Seq(Nat)
    PROVE  LastOf(n, s) \o t = LastOf(n + Len(t), s \o t)
<1> DEFINE e == LastOf(n, s)
           a == e \o t
           b == s \o t
           k == n + Len(t)
           y == LastOf(k, b)
<1>1. /\ e \in Seq(Nat) /\ Len(e) = (IF Len(s) > n THEN n ELSE Len(s))
      /\ \A i \in 1..Len(e) : e[i] = s[Len(s) - Len(e) + i]
  BY LastOfProperties
<1>2. Len(s) \in Nat /\ Len(t) \in Nat /\ Len(e) \in Nat /\ k \in Nat
  BY <1>1, LenProperties
<1> HIDE DEF e
<1>3. /\ a \in Seq(Nat) /\ Len(a) = Len(e) + Len(t)
      /\ \A i \in 1..(Len(e) + Len(t)) : a[i] = IF i <= Len(e) THEN e[i] ELSE t[i - Len(e)]
  BY <1>1, ConcatProperties
<1>4. /\ b \in Seq(Nat) /\ Len(b) = Len(s) + Len(t)
      /\ \A i \in 1..(Len(s) + Len(t)) : b[i] = IF i <= Len(s) THEN s[i] ELSE t[i - Len(s)]
  BY ConcatProperties
<1>k. k = n + Len(t) OBVIOUS
<1> HIDE DEF a, b, k
<1>6. /\ y \in Seq(Nat) /\ Len(y) = (IF Len(b) > k THEN k ELSE Len(b))
      /\ \A i \in 1..Len(y) : y[i] = b[Len(b) - Len(y) + i]
  BY <1>2, <1>4, LastOfProperties
<1> HIDE DEF y
<1>7. /\ Len(a) = Len(y) /\ Len(a) \in Nat /\ Len(e) <= Len(s)
      /\ Len(a) = Len(e) + Len(t) /\ Len(b) = Len(s) + Len(t)
  <2> DEFINE ls == Len(s)  lt == Len(t)  le == Len(e)  la == Len(a)  lb == Len(b)  ly == Len(y)
  <2>1. /\ le = (IF ls > n THEN n ELSE ls) /\ la = le + lt /\ lb = ls + lt
        /\ ly = (IF lb > k THEN k ELSE lb) /\ k = n + lt
        /\ ls \in Nat /\ lt \in Nat /\ le \in Nat
    BY <1>1, <1>2, <1>3, <1>4, <1>6, <1>k
  <2> HIDE DEF ls, lt, le, la, lb, ly
  <2>2. la = ly /\ la \in Nat /\ le <= ls
    BY <2>1
  <2> QED BY <2>1, <2>2 DEF ls, lt, le, la, lb, ly
<1>8. ASSUME NEW i \in 1..Len(a) PROVE a[i] = y[i]
  <2> DEFINE q == Len(b) - Len(a) + i
  <2>1. y[i] = b[q]
    BY <1>6, <1>7, <1>8
  <2>2. /\ i \in 1..(Len(e) + Len(t)) /\ q \in 1..(Len(s) + Len(t)) /\ q = i + (Len(s) - Len(e))
        /\ Len(e) <= Len(s)
    BY <1>2, <1>7, <1>8
  <2> HIDE DEF q
  <2>3. CASE i <= Len(e)
    <3>0. i \in 1..Len(e) /\ q <= Len(s) BY <1>2, <2>2, <2>3
    <3>1. a[i] = e[i] /\ i \in 1..Len(e) /\ q <= Len(s) BY <1>3, <2>2, <2>3, <3>0
    <3>2. e[i] = s[Len(s) - Len(e) + i] BY <1>1, <3>1
    <3>3. q = Len(s) - Len(e) + i BY <1>2, <2>2
    <3> QED BY <1>4, <2>1, <2>2, <3>1, <3>2, <3>3
  <2>4. CASE ~(i <= Len(e))
    <3>1. a[i] = t[i - Len(e)] BY <1>3, <2>2, <2>4
    <3>2. ~(q <= Len(s)) /\ q - Len(s) = i - Len(e) BY <1>2, <2>2, <2>4
    <3>3. b[q] = t[q - Len(s)] BY <1>4, <2>2, <3>2
    <3> QED BY <2>1, <3>1, <3>2, <3>3
  <2> QED BY <2>3, <2>4
<1>9. a = y BY <1>3, <1>6, <1>7, <1>8, SeqEqual
<1> QED BY <1>9 DEF y, k, a, b, e

(* Storing what was read, with the news on top, is storing the end of all  *)
(* that was said: for the AI's history, a chat's and a user's count.       *)
Ended(key, s) == CASE key = "ai"   -> LastOf(MaxHistory + 1, s)
                   [] key = "conv" -> LastOf(MaxHistory, s)
                   [] key = "user" -> s

LEMMA EndedTypes ==
    ASSUME NEW key \in Updated, NEW s \in Seq(Nat)
    PROVE  Ended(key, s) \in Seq(Nat) /\ Ended(key, <<>>) = <<>>
<1>1. MaxHistory \in Nat /\ MaxHistory + 1 \in Nat BY MemoryAssumption
<1>2. \A n \in Nat : LastOf(n, s) \in Seq(Nat) BY LastOfProperties
<1>3. \A n \in Nat : LastOf(n, <<>>) = <<>> BY DEF LastOf
<1> QED BY <1>1, <1>2, <1>3 DEF Ended, Updated

LEMMA NewsOnTop ==
    ASSUME NEW key \in Updated, NEW s \in Seq(Nat), NEW a \in Nat, NEW b \in Nat, NEW news,
           news = IF key = "ai" THEN <<a, b>> ELSE <<a>>
    PROVE  /\ WithNews(key, Ended(key, s), news) = Ended(key, s \o news)
           /\ s \o news \in Seq(Nat) /\ news # <<>>
<1>1. MaxHistory \in Nat /\ MaxHistory + 1 \in Nat BY MemoryAssumption
<1>2. <<a>> \in Seq(Nat) /\ <<b>> \in Seq(Nat) /\ Len(<<a>>) = 1 /\ Len(<<b>>) = 1
  OBVIOUS
<1>3. news \in Seq(Nat) /\ news # <<>> OBVIOUS
<1>4. s \o news \in Seq(Nat) BY <1>3, ConcatProperties
<1>5. CASE key = "ai"
  <2> DEFINE e == LastOf(MaxHistory + 1, s)
  <2>1. e \in Seq(Nat) BY <1>1, LastOfProperties
  <2>2. news = <<a, b>> /\ news[1] = a /\ Tail(news) = <<b>> BY <1>5
  <2>3. WithNews(key, e, news) = LastOf(MaxHistory, Append(e, a)) \o <<b>>
    BY <1>5, <2>2 DEF WithNews
  <2>4. Append(e, a) = e \o <<a>> BY <2>1, AppendIsConcat
  <2>5. LastOf(MaxHistory, e \o <<a>>) = LastOf(MaxHistory, s \o <<a>>)
    <3> DEFINE top == <<a>>  more == MaxHistory + 1
    <3>1. MaxHistory \in Nat /\ more \in Nat /\ MaxHistory <= more + Len(top) BY <1>1, <1>2
    <3>2. top \in Seq(Nat) BY <1>2
    <3> HIDE DEF e, top, more
    <3>3. LastOf(MaxHistory, LastOf(more, s) \o top) = LastOf(MaxHistory, s \o top)
      BY <1>1, <3>1, <3>2, LastOfEnd
    <3> QED BY <3>3 DEF e, top, more
  <2>6. s \o <<a>> \in Seq(Nat) BY <1>2, ConcatProperties
  <2>7. LastOf(MaxHistory, s \o <<a>>) \o <<b>> = LastOf(MaxHistory + 1, (s \o <<a>>) \o <<b>>)
    <3> DEFINE u == s \o <<a>>  top == <<b>>
    <3>1. MaxHistory \in Nat /\ u \in Seq(Nat) /\ top \in Seq(Nat) /\ Len(top) = 1 BY <1>1, <1>2, <2>6
    <3> HIDE DEF u, top
    <3>2. LastOf(MaxHistory, u) \o top = LastOf(MaxHistory + Len(top), u \o top) BY <3>1, LastOfConcat
    <3>3. LastOf(MaxHistory, u) \o top = LastOf(MaxHistory + 1, u \o top) BY <3>1, <3>2
    <3> QED BY <3>3 DEF u, top
  <2>8. (s \o <<a>>) \o <<b>> = s \o (<<a>> \o <<b>>) BY <1>2, ConcatAssociative
  <2>9. <<a>> \o <<b>> = news
    <3>1. news \in Seq(Nat) /\ Len(news) = 2 /\ news[1] = a /\ news[2] = b BY <1>3, <2>2
    <3>2. <<a>> \o <<b>> \in Seq(Nat) /\ Len(<<a>> \o <<b>>) = 2
          /\ (<<a>> \o <<b>>)[1] = a /\ (<<a>> \o <<b>>)[2] = b
      <4>1. \A i \in 1..2 : (<<a>> \o <<b>>)[i] = IF i <= 1 THEN <<a>>[i] ELSE <<b>>[i - 1]
        BY <1>2, ConcatProperties
      <4> QED BY <1>2, <4>1, ConcatProperties
    <3>3. \A i \in 1..2 : (<<a>> \o <<b>>)[i] = news[i] BY <3>1, <3>2
    <3> HIDE DEF e
    <3> QED BY <3>1, <3>2, <3>3, SeqEqual
  <2> QED BY <1>3, <1>4, <1>5, <2>3, <2>4, <2>5, <2>7, <2>8, <2>9 DEF Ended
<1>6. CASE key = "conv"
  <2>1. news = <<a>> BY <1>6
  <2>2. LastOf(MaxHistory, LastOf(MaxHistory, s) \o news) = LastOf(MaxHistory, s \o news)
    <3>1. Len(news) = 1 /\ MaxHistory <= MaxHistory + Len(news) BY <1>1, <1>2, <2>1
    <3>2. ASSUME NEW t \in Seq(Nat), Len(t) = 1
          PROVE  LastOf(MaxHistory, LastOf(MaxHistory, s) \o t) = LastOf(MaxHistory, s \o t)
      <4>1. MaxHistory <= MaxHistory + Len(t) BY <1>1, <3>2
      <4> QED BY <1>1, <4>1, LastOfEnd
    <3> QED BY <1>3, <3>1, <3>2
  <2> QED BY <1>3, <1>4, <1>6, <2>2 DEF Ended, WithNews
<1>7. CASE key = "user"
  BY <1>3, <1>4, <1>7 DEF Ended, WithNews
<1> QED BY <1>5, <1>6, <1>7 DEF Updated

LEMMA NewsTyped ==
    ASSUME NEW key \in Updated, NEW s \in Seq(Nat), NEW a \in Nat, NEW b \in Nat, NEW news,
           news = IF key = "ai" THEN <<a, b>> ELSE <<a>>
    PROVE  WithNews(key, s, news) \in Seq(Nat)
<1>1. MaxHistory \in Nat BY MemoryAssumption
<1>2. <<a>> \in Seq(Nat) /\ <<b>> \in Seq(Nat)
  OBVIOUS
<1>3. CASE key = "ai"
  <2>1. news[1] = a /\ Tail(news) = <<b>> BY <1>3
  <2>2. Append(s, a) \in Seq(Nat) BY AppendProperties
  <2>3. LastOf(MaxHistory, Append(s, a)) \in Seq(Nat) BY <1>1, <2>2, LastOfProperties
  <2>4. LastOf(MaxHistory, Append(s, a)) \o <<b>> \in Seq(Nat) BY <1>2, <2>3, ConcatProperties
  <2> QED BY <1>3, <2>1, <2>4 DEF WithNews
<1>4. CASE key # "ai"
  <2>1. news = <<a>> /\ s \o news \in Seq(Nat) BY <1>2, <1>4, ConcatProperties
  <2>2. LastOf(MaxHistory, s \o news) \in Seq(Nat) BY <1>1, <2>1, LastOfProperties
  <2> QED BY <1>4, <2>1, <2>2 DEF WithNews, Updated
<1> QED BY <1>3, <1>4

(* What a handler has read is what is kept, for a key that nobody else     *)
(* holds and that has not changed since.                                   *)
Reading == [key : Updated \cup {"none"}, read : Seq(Nat), adds : BOOLEAN]

HistoryTypes ==
    /\ EntriesTyped /\ \A key \in Updated : kept[StoreName(key)].history \in Seq(Nat)
    /\ holding \in [MemoryTask -> Reading] /\ said \in [Updated -> Seq(Nat)]
    /\ \A t \in MemoryTask : holding[t] = Nothing \/ holding[t].key \in Updated

ReadsAreKept == \A t \in MemoryTask : holding[t].key \in Updated \ raced =>
                    holding[t].read = kept[StoreName(holding[t].key)].history
HeldAlone == \A t, u \in MemoryTask : holding[t].key \in Updated \ raced /\ holding[u].key = holding[t].key
                                         => u = t
EndsKept == \A key \in Updated \ raced : kept[StoreName(key)].history = Ended(key, said[key])

HistoryInv == HistoryTypes /\ ReadsAreKept /\ HeldAlone /\ EndsKept

LEMMA StoreNamesDiffer ==
    /\ \A key \in MemoryKey : StoreName(key) \in Names
    /\ \A key, other : StoreName(key) = StoreName(other) => key = other
    /\ \A key : StoreName(key) \notin CryptoNames
    /\ Updated \subseteq MemoryKey /\ "none" \notin Updated /\ "note" \notin Updated /\ "count" \notin Updated
BY DEF Names, StoreNames, StoreName, CryptoNames, MemoryKey, Updated

(* Removing names starts their history again, and a task that holds one    *)
(* has raced.                                                              *)
LEMMA DropKeeps == ASSUME HistoryInv, NEW names, Drop(names), UNCHANGED holding PROVE HistoryInv'
<1> DEFINE gone == {key \in Updated : StoreName(key) \in names}
<1>1. /\ kept' = [n \in DOMAIN kept |-> IF n \in names THEN Absent ELSE kept[n]]
      /\ said' = [key \in Updated |-> IF key \in gone THEN <<>> ELSE said[key]]
      /\ raced' = (raced \ gone) \cup {key \in gone : Holders(key) # {}}
  BY DEF Drop
<1>2. ASSUME NEW key \in Updated
      PROVE  /\ StoreName(key) \in DOMAIN kept
             /\ kept'[StoreName(key)] = IF key \in gone THEN Absent ELSE kept[StoreName(key)]
             /\ said'[key] = IF key \in gone THEN <<>> ELSE said[key]
  BY <1>1, StoreNamesDiffer DEF HistoryInv, HistoryTypes, EntriesTyped
<1>3. ASSUME NEW t \in MemoryTask, holding[t].key \in Updated \ raced'
      PROVE  holding[t].key \notin gone /\ holding[t].key \notin raced
  BY <1>1, <1>3 DEF Holders
<1>4. \A key \in Updated \ raced' : key \in gone \/ key \notin raced
  BY <1>1
<1> HIDE DEF gone
<1>5. Absent.history = <<>> /\ <<>> \in Seq(Nat) BY DEF Absent
<1>6. HistoryTypes'
  BY <1>1, <1>2, <1>5 DEF HistoryInv, HistoryTypes, EntriesTyped
<1>7. ReadsAreKept' /\ HeldAlone'
  BY <1>2, <1>3 DEF HistoryInv, ReadsAreKept, HeldAlone
<1>8. EndsKept'
  BY <1>2, <1>4, <1>5, EndedTypes DEF HistoryInv, HistoryTypes, EndsKept
<1> QED BY <1>6, <1>7, <1>8 DEF HistoryInv

(* Writing a name that holds no history of messages changes none.          *)
LEMMA PutElsewhere ==
    ASSUME HistoryInv, NEW name, NEW item, Put(name, item), \A key \in Updated : StoreName(key) # name,
           UNCHANGED <<holding, said, raced>>
    PROVE  HistoryInv'
<1>1. DOMAIN kept' = DOMAIN kept /\ \A key \in Updated : kept'[StoreName(key)] = kept[StoreName(key)]
  BY DEF Put
<1> QED BY <1>1 DEF HistoryInv, HistoryTypes, EntriesTyped, ReadsAreKept, HeldAlone, EndsKept

LEMMA LoadKeeps ==
    ASSUME HistoryInv, NEW t \in MemoryTask, NEW key \in Updated, NEW adds \in BOOLEAN, Load(t, key, adds)
    PROVE  HistoryInv'
<1> DEFINE r == [key |-> key, read |-> kept[StoreName(key)].history, adds |-> adds]
<1>1. /\ holding' = [holding EXCEPT ![t] = r] /\ UNCHANGED <<kept, said>>
      /\ raced' = IF Holders(key) = {} THEN raced ELSE raced \cup {key}
  BY DEF Load
<1>2. r \in Reading /\ r.key = key /\ r.adds = adds /\ r.read = kept[StoreName(key)].history
  BY DEF HistoryInv, HistoryTypes, Reading
<1> HIDE DEF r
<1>3. holding'[t] = r /\ \A u \in MemoryTask \ {t} : holding'[u] = holding[u]
  BY <1>1 DEF HistoryInv, HistoryTypes
<1>4. HistoryTypes'
  BY <1>1, <1>2, <1>3 DEF HistoryInv, HistoryTypes, EntriesTyped
<1>5. raced \subseteq raced' /\ (key \notin raced' => \A u \in MemoryTask : holding[u].key # key)
  BY <1>1 DEF Holders
<1>6. ReadsAreKept'
  BY <1>1, <1>2, <1>3, <1>5 DEF HistoryInv, ReadsAreKept
<1>7. HeldAlone'
  BY <1>2, <1>3, <1>5 DEF HistoryInv, HeldAlone
<1>8. EndsKept'
  BY <1>1, <1>5 DEF HistoryInv, EndsKept
<1> QED BY <1>4, <1>6, <1>7, <1>8 DEF HistoryInv

LEMMA StoreBackKeeps ==
    ASSUME HistoryInv, NEW t \in MemoryTask, StoreBack(t) PROVE HistoryInv'
<1> DEFINE key == holding[t].key
           news == IF holding[t].adds THEN News(key) ELSE <<>>
           now == IF news = <<>> THEN holding[t].read ELSE WithNews(key, holding[t].read, news)
<1>1. /\ holding[t] # Nothing /\ kept' = [kept EXCEPT ![StoreName(key)] = Entry(now, TRUE)]
      /\ said' = [said EXCEPT ![key] = @ \o news]
      /\ raced' = IF Holders(key) = {t} THEN raced ELSE raced \cup {key}
      /\ holding' = [holding EXCEPT ![t] = Nothing]
  BY DEF StoreBack, Put
<1>2. /\ holding \in [MemoryTask -> Reading] /\ said \in [Updated -> Seq(Nat)] /\ DOMAIN kept = Names
      /\ key \in Updated
  BY <1>1 DEF HistoryInv, HistoryTypes, EntriesTyped
<1>3. Nothing \in Reading /\ Nothing.key = "none" /\ holding[t].read \in Seq(Nat) /\ holding[t].adds \in BOOLEAN
  BY <1>2 DEF Nothing, Reading
<1>4. holding'[t] = Nothing /\ holding' \in [MemoryTask -> Reading]
      /\ \A u \in MemoryTask \ {t} : holding'[u] = holding[u]
  BY <1>1, <1>2, <1>3
<1>5. StoreName(key) \in DOMAIN kept BY <1>2, StoreNamesDiffer
<1>6. /\ kept'[StoreName(key)].history = now /\ DOMAIN kept' = DOMAIN kept
      /\ \A k \in Updated \ {key} : kept'[StoreName(k)] = kept[StoreName(k)]
  BY <1>1, <1>5, StoreNamesDiffer DEF Entry
<1>7. said'[key] = said[key] \o news /\ \A k \in Updated \ {key} : said'[k] = said[k]
  BY <1>1, <1>2
<1>8. /\ said[key] \in Seq(Nat) /\ Len(said[key]) \in Nat
  BY <1>2, LenProperties
<1> DEFINE n == Len(said[key])
<1>9. news = <<>> \/ news = (IF key = "ai" THEN <<n + 1, n + 2>> ELSE <<n + 1>>)
  BY DEF News
<1>10. n + 1 \in Nat /\ n + 2 \in Nat BY <1>8
<1> HIDE DEF n
<1>11. now \in Seq(Nat) /\ said[key] \o news \in Seq(Nat)
  <2>1. CASE news = <<>>
    BY <1>3, <1>8, <2>1, ConcatEmptySeq
  <2>2. CASE news # <<>>
    <3>1. news = (IF key = "ai" THEN <<n + 1, n + 2>> ELSE <<n + 1>>) BY <1>9, <2>2
    <3> HIDE DEF news, key
    <3>2. WithNews(key, holding[t].read, news) \in Seq(Nat) /\ said[key] \o news \in Seq(Nat)
      BY <1>2, <1>3, <1>8, <1>10, <3>1, NewsOnTop, NewsTyped
    <3> QED BY <2>2, <3>2
  <2> QED BY <2>1, <2>2
<1>12. holding[t].read = Ended(key, said[key]) => now = Ended(key, said[key] \o news)
  <2>1. CASE news = <<>>
    BY <1>8, <2>1, ConcatEmptySeq
  <2>2. CASE news # <<>>
    <3>1. news = (IF key = "ai" THEN <<n + 1, n + 2>> ELSE <<n + 1>>) BY <1>9, <2>2
    <3> HIDE DEF news, key
    <3>2. WithNews(key, Ended(key, said[key]), news) = Ended(key, said[key] \o news)
      BY <1>2, <1>8, <1>10, <3>1, NewsOnTop
    <3> QED BY <2>2, <3>2
  <2> QED BY <2>1, <2>2
<1> HIDE DEF now, news
<1>13. raced \subseteq raced' /\ (key \notin raced' => \A u \in MemoryTask : holding[u].key = key => u = t)
  BY <1>1 DEF Holders
<1> HIDE DEF key
<1>14. HistoryTypes'
  <2>1. said' \in [Updated -> Seq(Nat)]
    BY <1>1, <1>2, <1>11
  <2>2. EntriesTyped' /\ \A k \in Updated : kept'[StoreName(k)].history \in Seq(Nat)
    BY <1>6, <1>11 DEF HistoryInv, HistoryTypes, EntriesTyped
  <2>3. \A u \in MemoryTask : holding'[u] = Nothing \/ holding'[u].key \in Updated
    BY <1>4 DEF HistoryInv, HistoryTypes
  <2> QED BY <1>4, <2>1, <2>2, <2>3 DEF HistoryTypes
<1>15. \A u \in MemoryTask : holding'[u].key \in Updated \ raced' => holding'[u].key # key /\ u # t
  BY <1>3, <1>4, <1>13, StoreNamesDiffer
<1>16. ReadsAreKept'
  BY <1>4, <1>6, <1>13, <1>15 DEF HistoryInv, ReadsAreKept
<1>17. HeldAlone'
  BY <1>3, <1>4, <1>13, <1>15 DEF HistoryInv, HeldAlone
<1>18. EndsKept'
  <2>1. ASSUME key \notin raced' PROVE now = Ended(key, said[key] \o news)
    <3>1. key \in Updated \ raced BY <1>2, <1>13, <2>1
    <3>2. holding[t].read = kept[StoreName(key)].history BY <3>1 DEF key, HistoryInv, ReadsAreKept
    <3>3. kept[StoreName(key)].history = Ended(key, said[key]) BY <3>1 DEF HistoryInv, EndsKept
    <3> QED BY <1>12, <3>2, <3>3
  <2> QED BY <1>6, <1>7, <1>13, <2>1 DEF HistoryInv, EndsKept
<1> QED BY <1>14, <1>16, <1>17, <1>18 DEF HistoryInv

LEMMA HistoryStep == HistoryInv /\ [MemoryNext]_memoryVars => HistoryInv'
<1> SUFFICES ASSUME HistoryInv, [MemoryNext]_memoryVars PROVE HistoryInv'
  OBVIOUS
<1>1. ASSUME NEW t \in MemoryTask, StoreBack(t) PROVE HistoryInv'
  BY <1>1, StoreBackKeeps
<1>2. ASSUME NEW t \in MemoryTask, GivesUp(t) PROVE HistoryInv'
  <2>1. /\ holding \in [MemoryTask -> Reading] /\ holding' = [holding EXCEPT ![t] = Nothing]
        /\ UNCHANGED <<kept, said, raced>>
    BY <1>2 DEF GivesUp, HistoryInv, HistoryTypes
  <2>2. Nothing \in Reading /\ Nothing.key \notin Updated
    BY DEF Nothing, Reading, Updated
  <2>3. holding' \in [MemoryTask -> Reading] /\ \A u \in MemoryTask : holding'[u] = IF u = t THEN Nothing ELSE holding[u]
    BY <2>1, <2>2
  <2> QED BY <2>1, <2>2, <2>3 DEF HistoryInv, HistoryTypes, EntriesTyped, ReadsAreKept, HeldAlone, EndsKept
<1>3. ASSUME NEW t \in MemoryTask, NEW key \in Updated, NEW adds \in BOOLEAN, Load(t, key, adds)
      PROVE  HistoryInv'
  BY <1>3, LoadKeeps
<1>4. CASE (\E lifetime \in Lifetimes : Remember(lifetime)) \/ (\E by \in 1..2 : Increment(by)) \/ TradingStep
  <2>1. \E name, item : /\ Put(name, item) /\ UNCHANGED <<holding, said, raced>>
                        /\ name \in CryptoNames \cup {StoreName("note"), StoreName("count")}
    BY <1>4 DEF Remember, Increment, TradingStep, SaveTrading
  <2> QED BY <2>1, StoreNamesDiffer, PutElsewhere
<1>5. CASE \/ Forget \/ Deleted \/ (\E n \in DOMAIN kept : MemoryExpires(n))
           \/ \E key \in MemoryKey : DeleteKey(key)
  <2>1. (\E names : Drop(names)) /\ UNCHANGED holding
    BY <1>5 DEF Forget, Deleted, MemoryExpires, DeleteKey
  <2> QED BY <2>1, DropKeeps
<1>6. CASE BeginClear \/ DeleteBot \/ Scanned \/ CleanupFails \/ UNCHANGED memoryVars
  <2>1. UNCHANGED <<kept, holding, said, raced>>
    BY <1>6 DEF BeginClear, DeleteBot, Scanned, CleanupFails, memoryVars
  <2> QED BY <2>1 DEF HistoryInv, HistoryTypes, EntriesTyped, ReadsAreKept, HeldAlone, EndsKept
<1> QED BY <1>1, <1>2, <1>3, <1>4, <1>5, <1>6 DEF MemoryNext, HandlerStep, ScriptStep, SharedStep

(* While handlers do not overlap on a key, its history is the end of all   *)
(* that was said under it, in order, whatever is cut off, expires or is    *)
(* cleared and whoever gives up between its read and its write; and what   *)
(* stays in Redis for good is what a script asked to stay.                 *)
THEOREM MemoryIsKept == MemorySpec => []MemoryKept
<1>1. MemoryInit => HistoryInv
  <2> SUFFICES ASSUME MemoryInit PROVE HistoryInv
    OBVIOUS
  <2>1. /\ \A key \in Updated : kept[StoreName(key)].history = <<>> /\ said[key] = <<>>
        /\ EntriesTyped /\ said = [key \in Updated |-> <<>>]
    BY StoreNamesDiffer DEF MemoryInit, EntriesTyped, Names, Absent
  <2>2. Nothing \in Reading /\ Nothing.key \notin Updated
    BY DEF Nothing, Reading, Updated
  <2>3. holding = [t \in MemoryTask |-> Nothing] BY DEF MemoryInit
  <2>4. <<>> \in Seq(Nat) /\ \A key \in Updated : Ended(key, <<>>) = <<>>
    <3>1. <<>> \in Seq(Nat) OBVIOUS
    <3> QED BY <3>1, EndedTypes
  <2>5. \A t \in MemoryTask : holding[t] = Nothing /\ holding[t].key \notin Updated
    BY <2>2, <2>3
  <2>6. holding \in [MemoryTask -> Reading] BY <2>2, <2>3
  <2>7. said \in [Updated -> Seq(Nat)] BY <2>1, <2>4
  <2>8. HistoryTypes BY <2>1, <2>4, <2>5, <2>6, <2>7 DEF HistoryTypes
  <2>9. ReadsAreKept /\ HeldAlone BY <2>5 DEF ReadsAreKept, HeldAlone
  <2>10. EndsKept BY <2>1, <2>4 DEF EndsKept
  <2> QED BY <2>8, <2>9, <2>10 DEF HistoryInv
<1>2. HistoryInv => HistoryKept
  BY DEF HistoryInv, EndsKept, Ended, HistoryKept
<1> QED BY <1>1, <1>2, HistoryStep, EntriesExpire, PTL DEF MemorySpec, MemoryKept

-----------------------------------------------------------------------------
(***************************************************************************)
(* The polled feeds.  That news comes once rests on three facts: one poll  *)
(* at a time holds the bot's set of seen items; whatever was emitted is in *)
(* that set; and whatever was there when the bot connected is in it too,   *)
(* or still ahead of the first poll, which adds and does not emit.  None   *)
(* is inductive alone, because a scan emits what its set does not hold.    *)
(***************************************************************************)

(* The bounds as numbers.                                                  *)
LEMMA PollNumbers ==
    /\ MaxItems \in Nat /\ SeenBound \in Nat /\ ScanLimit \in Nat /\ PageSize \in Nat /\ PageSize > 0
    /\ Item \subseteq Nat
BY PollAssumption DEF Item

(* The items of a set, newest first: each once.  An item's place is how    *)
(* many of the set are not older, which numbers the set from one.          *)
LEMMA Ranked ==
    ASSUME NEW S \in SUBSET Item
    PROVE  /\ NewestFirst(S) \in Seq(Item) /\ Len(NewestFirst(S)) = Cardinality(S)
           /\ ToSet(NewestFirst(S)) = S /\ IsFiniteSet(S) /\ Cardinality(S) \in Nat
<1> DEFINE n == Cardinality(S)
           rank == [i \in S |-> Cardinality(Newer(S, i))]
           f == NewestFirst(S)
<1>1. IsFiniteSet(S) /\ n \in Nat
  <2>1. IsFiniteSet(Item) BY PollNumbers, FS_Interval DEF Item
  <2> QED BY <2>1, FS_Subset, FS_CardinalityType
<1>2. \A i \in S : Newer(S, i) \in SUBSET S /\ IsFiniteSet(Newer(S, i)) /\ rank[i] \in Nat /\ rank[i] <= n
  <2> TAKE i \in S
  <2>1. Newer(S, i) \in SUBSET S BY DEF Newer
  <2> QED BY <1>1, <2>1, FS_Subset, FS_CardinalityType
<1>3. \A i \in S : rank[i] >= 1
  <2> TAKE i \in S
  <2>1. {i} \in SUBSET Newer(S, i) BY DEF Newer, Item
  <2>2. Cardinality({i}) = 1 BY FS_Singleton
  <2> QED BY <1>2, <2>1, <2>2, FS_Subset
<1>4. \A i, j \in S : i < j => rank[j] < rank[i]
  <2> TAKE i, j \in S
  <2> SUFFICES ASSUME i < j PROVE rank[j] < rank[i] OBVIOUS
  <2>1. i \in Nat /\ j \in Nat /\ i >= i /\ ~(i >= j) /\ \A k \in S : k >= j => k >= i BY PollNumbers
  <2>2. Newer(S, j) \in SUBSET Newer(S, i) /\ i \in Newer(S, i) /\ i \notin Newer(S, j)
    BY <2>1 DEF Newer
  <2> DEFINE A == Newer(S, i)  B == Newer(S, j)
  <2>3. IsFiniteSet(A) /\ B \in SUBSET A /\ B # A
    <3>1. IsFiniteSet(A) BY <1>2
    <3>2. B \in SUBSET A /\ i \in A /\ i \notin B BY <2>2
    <3> HIDE DEF A, B
    <3> QED BY <3>1, <3>2
  <2> HIDE DEF A, B
  <2>4. Cardinality(B) <= Cardinality(A) /\ Cardinality(B) # Cardinality(A) BY <2>3, FS_Subset
  <2>5. rank[i] = Cardinality(A) /\ rank[j] = Cardinality(B) /\ rank[i] \in Nat /\ rank[j] \in Nat
    BY <1>2 DEF A, B
  <2> QED BY <2>4, <2>5
<1>5. \A i, j \in S : rank[i] = rank[j] => i = j
  <2>1. \A i, j \in S : i < j \/ j < i \/ i = j BY PollNumbers DEF Item
  <2>2. \A i \in S : rank[i] \in Nat BY <1>2
  <2> HIDE DEF rank
  <2> QED BY <1>4, <2>1, <2>2
<1>6. rank \in [S -> 1..n] BY <1>1, <1>2, <1>3
<1>7. \A k \in 1..n : \E i \in S : rank[i] = k
  <2>1. IsFiniteSet(1..n) /\ Cardinality(1..n) = n
    <3>1. IsFiniteSet(1..n) /\ Cardinality(1..n) = IF 1 > n THEN 0 ELSE n - 1 + 1 BY <1>1, FS_Interval
    <3> QED BY <1>1, <3>1
  <2>2. rank \in Injection(S, 1..n)
    <3>1. IsInjective(rank)
      <4>1. DOMAIN rank = S OBVIOUS
      <4> HIDE DEF rank
      <4> QED BY <1>5, <4>1 DEF IsInjective
    <3> QED BY <1>6, <3>1 DEF Injection
  <2> HIDE DEF rank
  <2>3. rank \in Surjection(S, 1..n) BY <2>1, <2>2, FS_Injection
  <2> QED BY <2>3 DEF Surjection
<1>8. \A k \in 1..n : f[k] \in S /\ rank[f[k]] = k
  <2> TAKE k \in 1..n
  <2>1. f[k] = CHOOSE i \in S : Cardinality(Newer(S, i)) = k BY DEF NewestFirst
  <2>2. \E i \in S : Cardinality(Newer(S, i)) = k BY <1>7
  <2>3. f[k] \in S /\ Cardinality(Newer(S, f[k])) = k BY <2>1, <2>2
  <2> QED BY <2>3
<1>9. DOMAIN f = 1..n /\ f = [k \in 1..n |-> f[k]] BY DEF NewestFirst
<1>10. f \in [1..n -> Item] /\ f \in Seq(Item) /\ Len(f) = n
  <2> HIDE DEF f, n, rank
  <2>1. f \in [1..n -> Item] BY <1>8, <1>9
  <2> QED BY <1>1, <2>1, <1>9
<1>11. ToSet(f) = S
  <2>1. ToSet(f) = {f[k] : k \in 1..n} BY <1>9 DEF ToSet
  <2>2. ASSUME NEW i \in S PROVE \E k \in 1..n : f[k] = i
    <3> HIDE DEF f, n
    <3>1. rank[i] \in 1..n BY <1>6
    <3>2. f[rank[i]] \in S /\ rank[f[rank[i]]] = rank[i] BY <1>8, <3>1
    <3> HIDE DEF rank
    <3> QED BY <1>5, <3>1, <3>2
  <2> HIDE DEF f, n, rank
  <2> QED BY <1>8, <2>1, <2>2
<1> QED BY <1>1, <1>10, <1>11

(* What a set of seen items holds after items are added: items, all of     *)
(* them while they fit, and each once if they were not there.              *)
LEMMA AddedTyped ==
    ASSUME NEW s \in Seq(Item), NEW S \in SUBSET Item PROVE Added(s, S) \in Seq(Item)
<1> DEFINE t == s \o NewestFirst(S)
<1>1. t \in Seq(Item) BY Ranked, ConcatProperties
<1> HIDE DEF t
<1>2. CASE Len(t) > SeenBound
  <2>1. Len(t) \in Nat /\ SeenBound \in Nat /\ Len(t) - SeenBound + 1 >= 1
    BY <1>1, <1>2, LenProperties, PollNumbers
  <2>2. \A i \in (Len(t) - SeenBound + 1)..Len(t) : t[i] \in Item
    BY <1>1, <2>1, ElementOfSeq
  <2>3. SubSeq(t, Len(t) - SeenBound + 1, Len(t)) \in Seq(Item)
    BY <2>1, <2>2, SubSeqProperties
  <2> QED BY <1>2, <2>3 DEF Added, t
<1> QED BY <1>1, <1>2 DEF Added, t

LEMMA AddedAll ==
    ASSUME NEW s \in Seq(Item), NEW S \in SUBSET Item, Len(s) + Cardinality(S) <= SeenBound
    PROVE  Len(Added(s, S)) = Len(s) + Cardinality(S) /\ ToSet(Added(s, S)) = ToSet(s) \cup S
<1> DEFINE r == NewestFirst(S)
<1>1. r \in Seq(Item) /\ Len(r) = Cardinality(S) /\ ToSet(r) = S BY Ranked
<1> HIDE DEF r
<1>2. Len(s \o r) = Len(s) + Len(r) /\ s \o r \in Seq(Item) BY <1>1, ConcatProperties
<1>3. Added(s, S) = s \o r
  <2>1. Len(s \o r) \in Nat /\ SeenBound \in Nat /\ ~(Len(s \o r) > SeenBound)
    BY <1>1, <1>2, LenProperties, PollNumbers
  <2> QED BY <2>1 DEF Added, r
<1>4. ToSet(s \o r) = ToSet(s) \cup ToSet(r)
  <2>1. Len(s) \in Nat /\ Len(r) \in Nat /\ DOMAIN s = 1..Len(s) /\ DOMAIN r = 1..Len(r)
        /\ DOMAIN (s \o r) = 1..(Len(s) + Len(r))
    BY <1>1, <1>2, LenProperties
  <2>2. \A i \in 1..Len(s) + Len(r) : (s \o r)[i] = IF i <= Len(s) THEN s[i] ELSE r[i - Len(s)]
    BY <1>1, ConcatProperties
  <2> DEFINE t == s \o r  m == Len(s)  n == Len(r)
  <2>3. m \in Nat /\ n \in Nat /\ DOMAIN s = 1..m /\ DOMAIN r = 1..n /\ DOMAIN t = 1..(m + n)
        /\ \A i \in 1..(m + n) : t[i] = IF i <= m THEN s[i] ELSE r[i - m]
    BY <2>1, <2>2
  <2> HIDE DEF t, m, n
  <2>4. \A i \in 1..m : i \in 1..(m + n) /\ t[i] = s[i] BY <2>3
  <2>5. \A i \in 1..n : m + i \in 1..(m + n) /\ t[m + i] = r[i] BY <2>3
  <2>6. \A i \in 1..(m + n) : (i \in 1..m /\ t[i] = s[i]) \/ (i - m \in 1..n /\ t[i] = r[i - m]) BY <2>3
  <2>7. ToSet(t) = {t[i] : i \in 1..(m + n)} /\ ToSet(s) = {s[i] : i \in 1..m} /\ ToSet(r) = {r[i] : i \in 1..n}
    BY <2>3 DEF ToSet
  <2>8. ToSet(t) \subseteq ToSet(s) \cup ToSet(r) BY <2>6, <2>7
  <2>9. ToSet(s) \subseteq ToSet(t) BY <2>4, <2>7
  <2>10. ToSet(r) \subseteq ToSet(t) BY <2>5, <2>7
  <2> QED BY <2>8, <2>9, <2>10 DEF t
<1> QED BY <1>1, <1>2, <1>3, <1>4

LEMMA AddedOnce ==
    ASSUME NEW s \in Seq(Item), NEW m \in Nat, m <= SeenBound, m <= MaxItems, NEW S \in SUBSET (1..m),
           ToSet(s) \subseteq 1..m, Len(s) <= Cardinality(ToSet(s)), S \cap ToSet(s) = {}
    PROVE  /\ ToSet(Added(s, S)) = ToSet(s) \cup S /\ ToSet(Added(s, S)) \subseteq 1..m
           /\ Len(Added(s, S)) <= Cardinality(ToSet(Added(s, S)))
<1>1. S \in SUBSET Item /\ ToSet(s) \in SUBSET (1..m) BY PollNumbers DEF Item
<1>2. IsFiniteSet(1..m) /\ Cardinality(1..m) = m
  <2>1. IsFiniteSet(1..m) /\ Cardinality(1..m) = IF 1 > m THEN 0 ELSE m - 1 + 1 BY FS_Interval
  <2> QED BY <2>1
<1> DEFINE a == Cardinality(ToSet(s))  b == Cardinality(S)  c == Cardinality(ToSet(s) \cup S)
<1>3. IsFiniteSet(ToSet(s)) /\ IsFiniteSet(S) /\ a \in Nat /\ b \in Nat
  BY <1>1, <1>2, FS_Subset, FS_CardinalityType
<1>4. c = a + b
  <2>1. c = a + b - Cardinality(ToSet(s) \cap S) BY <1>3, FS_Union
  <2>2. Cardinality(ToSet(s) \cap S) = 0 BY FS_EmptySet
  <2> QED BY <1>3, <2>1, <2>2
<1>5. c <= m
  <2>1. ToSet(s) \cup S \in SUBSET (1..m) BY <1>1
  <2> QED BY <1>2, <2>1, FS_Subset
<1>6. Len(s) \in Nat /\ Len(s) <= a BY LenProperties
<1>7. Len(s) + b <= SeenBound
  <2> DEFINE l == Len(s)
  <2>1. l \in Nat /\ l <= a BY <1>6
  <2>2. SeenBound \in Nat BY PollNumbers
  <2> HIDE DEF l, a, b, c
  <2>3. l + b <= SeenBound BY <1>3, <1>4, <1>5, <2>1, <2>2
  <2> QED BY <2>3 DEF l, b
<1>8. Len(Added(s, S)) = Len(s) + b /\ ToSet(Added(s, S)) = ToSet(s) \cup S BY <1>1, <1>7, AddedAll
<1>9. Len(Added(s, S)) <= c
  <2> DEFINE l == Len(s)  k == Len(Added(s, S))
  <2>1. l \in Nat /\ l <= a /\ k = l + b BY <1>6, <1>8
  <2> HIDE DEF l, k, a, b, c
  <2>2. k <= c BY <1>3, <1>4, <2>1
  <2> QED BY <2>2 DEF k
<1> QED BY <1>1, <1>8, <1>9

(* The polls, and those among them that have not had their first page.     *)
PollState == [at : {"none", "asking", "scanning"}, next : Nat, last : Nat \ {0}, left : Int,
              set : Nat, first : BOOLEAN]
Waits(p) == p.at = "asking" /\ p.next = 0
Begun(p) == p.at # "none" /\ ~Waits(p)

(* How far a scan looks; what lies ahead of a poll, and what would lie     *)
(* ahead of one that began now; the items a set holds.                     *)
Depth == IF source = "mentions" THEN ScanLimit ELSE MaxItems
Ahead(p) == {i \in 1..p.next : p.next - i < p.left /\ (source = "comments" => i >= p.last)}
InReach(i) == items - i < Depth /\ (source = "comments" => items - i < PageSize)
SeenIn(n) == ToSet(seen[n])

(* A poll asks again only where there are pages, and only its scan of a    *)
(* page makes it a first one.                                              *)
PollShape(p) ==
    /\ p.next <= items /\ p.last <= p.next + 1 /\ p.set <= Len(seen)
    /\ Begun(p) => p.set > 0
    /\ Waits(p) => p.left = Depth
    /\ p.at = "none" \/ Waits(p) => ~p.first
    /\ p.at = "asking" /\ p.next > 0 => source # "comments"

PollTypes ==
    /\ source \in Sources /\ items \in 0..MaxItems /\ backlog \in 0..items
    /\ seen \in Seq(Seq(Item)) /\ current \in 0..Len(seen) /\ cursor = 0
    /\ poll \in [Slot -> PollState] /\ emitted \in [Item -> 0..2]
    /\ connected \in BOOLEAN /\ inFlight \in BOOLEAN /\ (~connected => ~inFlight)
    /\ \A q \in Slot : PollShape(poll[q])

(* A set holds an item once while all that has appeared fits into it.      *)
SeenOnce ==
    items <= SeenBound =>
        \A n \in 1..Len(seen) : SeenIn(n) \subseteq 1..items /\ Len(seen[n]) <= Cardinality(SeenIn(n))

(* While nothing has confused the scans there is one poll at most, which   *)
(* inFlight tells while the bot is connected, and it holds the bot's set.  *)
OnePoll ==
    /\ \A q, r \in Polling : q = r
    /\ connected => (inFlight <=> Polling # {})

OwnSet ==
    /\ connected => \A q \in Slot : Begun(poll[q]) => poll[q].set = current
    /\ ~connected /\ (\E q \in Slot : Waits(poll[q])) => current = 0

(* What was emitted is in the bot's set, and in that of a poll that may    *)
(* emit.                                                                   *)
EmittedKnown ==
    /\ connected => \A i \in Item : emitted[i] > 0 => current > 0 /\ i \in SeenIn(current)
    /\ \A q \in Slot : Begun(poll[q]) /\ ~poll[q].first =>
          \A i \in Item : emitted[i] > 0 => i \in SeenIn(poll[q].set)

(* What was there before the bot connected is in its set, or ahead of its  *)
(* first poll, which emits nothing; a poll that may emit finds it seen.    *)
BacklogKnown ==
    /\ connected /\ current > 0 =>
          \A i \in 1..backlog : InReach(i) =>
             i \in SeenIn(current) \/ \E q \in Slot : poll[q].first /\ i \in Ahead(poll[q])
    /\ \A q \in Slot : Begun(poll[q]) /\ ~poll[q].first =>
          \A i \in 1..backlog : i \in Ahead(poll[q]) => i \in SeenIn(poll[q].set)

(* News is emitted once, what was there before never.                      *)
OnlyNews == \A i \in Item : emitted[i] <= IF i > backlog THEN 1 ELSE 0

PollInv ==
    Deduplicated =>
        /\ PollTypes /\ SeenOnce
        /\ upset = {} => OnePoll /\ OwnSet
        /\ upset = {} /\ items <= SeenBound => EmittedKnown /\ BacklogKnown /\ OnlyNews

(* A poll that moves leaves the others alone.                              *)
LEMMA PollMoves ==
    ASSUME poll \in [Slot -> PollState], NEW q \in Slot, NEW n \in PollState,
           poll' = [poll EXCEPT ![q] = n], source' = source
    PROVE  /\ poll' \in [Slot -> PollState] /\ poll'[q] = n
           /\ \A r \in Slot : r # q => poll'[r] = poll[r] /\ Ahead(poll[r])' = Ahead(poll[r])
           /\ Polling' = IF n.at = "none" THEN Polling \ {q} ELSE Polling \cup {q}
<1>1. poll' \in [Slot -> PollState] /\ poll'[q] = n /\ \A r \in Slot : r # q => poll'[r] = poll[r]
  <2> HIDE DEF PollState
  <2> QED OBVIOUS
<1>2. \A r \in Slot : r # q => Ahead(poll[r])' = Ahead(poll[r]) BY <1>1 DEF Ahead
<1>3. Polling' = IF n.at = "none" THEN Polling \ {q} ELSE Polling \cup {q} BY <1>1 DEF Polling
<1> QED BY <1>1, <1>2, <1>3

(* It holds at the start.                                                  *)
LEMMA PollStarts == PollInit => PollInv
<1> SUFFICES ASSUME PollInit, Deduplicated PROVE PollInv BY DEF PollInv
<1> USE PollNumbers
<1>1. NoPoll \in PollState BY DEF NoPoll, PollState
<1>2. Len(seen) = 0 /\ seen \in Seq(Seq(Item)) BY DEF PollInit
<1>3. \A q \in Slot : poll[q].at = "none" /\ poll[q].next = 0 /\ poll[q].set = 0 /\ ~poll[q].first
                    /\ poll[q].last = 1
  BY DEF PollInit, NoPoll
<1>4. poll \in [Slot -> PollState] /\ emitted \in [Item -> 0..2] BY <1>1 DEF PollInit
<1>5. items \in 0..MaxItems /\ backlog = 0
  BY PollAssumption DEF PollInit
<1>6. PollTypes
  <2>1. items \in Nat /\ backlog \in 0..items /\ current \in 0..Len(seen)
    BY <1>2, <1>5 DEF PollInit
  <2>2. \A q \in Slot : PollShape(poll[q]) BY <1>2, <1>3, <2>1 DEF PollShape, Begun, Waits
  <2> QED BY <1>2, <1>4, <1>5, <2>1, <2>2 DEF PollTypes, PollInit
<1>7. SeenOnce BY <1>2 DEF SeenOnce
<1>8. OnePoll /\ OwnSet BY <1>3 DEF OnePoll, OwnSet, Polling, PollInit, Begun, Waits
<1>9. EmittedKnown /\ BacklogKnown /\ OnlyNews
  BY <1>3, <1>5 DEF EmittedKnown, BacklogKnown, OnlyNews, PollInit, Begun, Waits
<1> QED BY <1>6, <1>7, <1>8, <1>9 DEF PollInv

(* What the other steps start from.                                        *)
PollBase == PollInv /\ Deduplicated

LEMMA PollBaseFacts ==
    ASSUME PollBase
    PROVE  /\ PollTypes /\ SeenOnce
           /\ upset = {} => OnePoll /\ OwnSet
           /\ upset = {} /\ items <= SeenBound => EmittedKnown /\ BacklogKnown /\ OnlyNews
BY DEF PollBase, PollInv

(* The steps but the scan, one lemma for each action of the poll's timer,  *)
(* its pages, and the bot's connects and disconnects.                      *)
LEMMA AppearsKeeps == ASSUME PollBase, Appears PROVE PollInv'
<1> USE PollNumbers, PollBaseFacts
<1>1. /\ items < MaxItems /\ items' = items + 1 /\ items \in Nat /\ items' \in 0..MaxItems
      /\ UNCHANGED <<source, connected, connects, seen, current, cursor, inFlight, paused, poll, backlog,
                     emitted, upset>>
  BY DEF Appears, PollTypes
<1>2. PollTypes'
  <2>1. \A q \in Slot : PollShape(poll[q])'
    <3> TAKE q \in Slot
    <3>1. PollShape(poll[q]) /\ poll[q] \in PollState BY DEF PollTypes
    <3> QED BY <1>1, <3>1 DEF PollShape, Begun, Waits, Depth, PollState
  <2> QED BY <1>1, <2>1 DEF PollTypes
<1>3. SeenOnce' BY <1>1 DEF SeenOnce, SeenIn
<1>4. upset' = {} => OnePoll' /\ OwnSet' BY <1>1 DEF OnePoll, OwnSet, Polling, Begun, Waits
<1>5. ASSUME upset' = {}, items' <= SeenBound PROVE EmittedKnown' /\ BacklogKnown' /\ OnlyNews'
  <2>1. EmittedKnown /\ BacklogKnown /\ OnlyNews BY <1>1, <1>5
  <2>2. EmittedKnown' BY <1>1, <2>1 DEF EmittedKnown, Begun, Waits, SeenIn
  <2>3. \A i \in 1..backlog : InReach(i)' => InReach(i)
    <3>1. backlog \in Nat /\ Depth \in Nat /\ Depth' = Depth BY <1>1 DEF PollTypes, Depth
    <3> QED BY <1>1, <3>1 DEF InReach
  <2>4. BacklogKnown' BY <1>1, <2>1, <2>3 DEF BacklogKnown, Begun, Waits, SeenIn, Ahead
  <2>5. OnlyNews' BY <1>1, <2>1 DEF OnlyNews
  <2> QED BY <2>2, <2>4, <2>5
<1> QED BY <1>2, <1>3, <1>4, <1>5 DEF PollInv

LEMMA ConnectPollingKeeps == ASSUME PollBase, ConnectPolling PROVE PollInv'
<1> USE PollNumbers, PollBaseFacts
<1>1. /\ ~connected /\ connected' = TRUE /\ backlog' = items /\ emitted' = [i \in Item |-> 0]
      /\ UNCHANGED <<source, items, seen, current, cursor, inFlight, paused, poll>> /\ inFlight = FALSE
  BY DEF ConnectPolling, PollTypes
<1>2. PollTypes'
  <2>1. \A q \in Slot : PollShape(poll[q])'
    <3> TAKE q \in Slot
    <3>1. PollShape(poll[q]) BY DEF PollTypes
    <3> QED BY <1>1, <3>1 DEF PollShape, Begun, Waits, Depth
  <2>2. backlog' \in 0..items BY <1>1 DEF PollTypes
  <2> QED BY <1>1, <2>1, <2>2 DEF PollTypes
<1>3. SeenOnce' BY <1>1 DEF SeenOnce, SeenIn
<1>4. ASSUME upset' = {} PROVE OnePoll' /\ OwnSet' /\ EmittedKnown' /\ BacklogKnown' /\ OnlyNews'
  <2>1. Polling = {} /\ current = 0 BY <1>4 DEF ConnectPolling
  <2>2. \A q \in Slot : poll[q].at = "none" BY <2>1 DEF Polling
  <2>3. OnePoll' /\ OwnSet' BY <1>1, <2>1, <2>2 DEF OnePoll, OwnSet, Polling, Begun, Waits
  <2>4. EmittedKnown' /\ BacklogKnown' /\ OnlyNews'
    BY <1>1, <2>1, <2>2 DEF EmittedKnown, BacklogKnown, OnlyNews, Begun, Waits
  <2> QED BY <2>3, <2>4
<1> QED BY <1>2, <1>3, <1>4 DEF PollInv

LEMMA DisconnectPollingKeeps == ASSUME PollBase, DisconnectPolling PROVE PollInv'
<1> USE PollNumbers, PollBaseFacts
<1>1. /\ connected' = FALSE /\ current' = 0 /\ cursor' = 0 /\ inFlight' = FALSE
      /\ UNCHANGED <<source, items, seen, poll, backlog, emitted, upset>>
  BY DEF DisconnectPolling, Forgotten
<1>2. PollTypes'
  <2>1. \A q \in Slot : PollShape(poll[q])'
    <3> TAKE q \in Slot
    <3>1. PollShape(poll[q]) BY DEF PollTypes
    <3> QED BY <1>1, <3>1 DEF PollShape, Begun, Waits, Depth
  <2>2. current' \in 0..Len(seen')
    <3>1. Len(seen) \in Nat BY LenProperties DEF PollTypes
    <3> QED BY <1>1, <3>1
  <2> QED BY <1>1, <2>1, <2>2 DEF PollTypes
<1>3. SeenOnce' BY <1>1 DEF SeenOnce, SeenIn
<1>4. upset' = {} => OnePoll' /\ OwnSet' BY <1>1 DEF OnePoll, OwnSet, Polling
<1>5. upset' = {} /\ items' <= SeenBound => EmittedKnown' /\ BacklogKnown' /\ OnlyNews'
  BY <1>1 DEF EmittedKnown, BacklogKnown, OnlyNews, Begun, Waits, SeenIn, Ahead
<1> QED BY <1>2, <1>3, <1>4, <1>5 DEF PollInv

LEMMA PauseOverKeeps == ASSUME PollBase, PauseOver \/ UNCHANGED pollVars PROVE PollInv'
<1>1. UNCHANGED <<source, items, connected, connects, seen, current, cursor, inFlight, poll,
                  backlog, emitted, upset>>
  BY DEF PauseOver, pollVars
<1> QED BY <1>1 DEF PollBase, PollInv, Deduplicated, PollTypes, PollShape, SeenOnce, OnePoll, OwnSet,
           EmittedKnown, BacklogKnown, OnlyNews, Polling, Begun, Waits, Depth, Ahead, InReach, SeenIn

LEMMA PollTickKeeps == ASSUME PollBase, NEW q \in Slot, PollTick(q) PROVE PollInv'
<1> USE PollNumbers, PollBaseFacts
<1> DEFINE n == [NoPoll EXCEPT !.at = "asking", !.left = Depth]
<1>1. /\ connected /\ ~inFlight /\ poll[q].at = "none" /\ poll' = [poll EXCEPT ![q] = n] /\ inFlight' = TRUE
      /\ UNCHANGED <<source, items, connected, connects, seen, current, cursor, backlog, emitted, upset>>
  BY DEF PollTick, MayPoll, PollBase, Depth
<1>2. /\ n \in PollState /\ n.at = "asking" /\ n.next = 0 /\ n.last = 1
      /\ n.left = Depth /\ n.set = 0 /\ n.first = FALSE
  <2>1. Depth \in Int BY DEF Depth
  <2>2. \A a \in PollState, d \in Int :
           LET b == [a EXCEPT !.at = "asking", !.left = d]
           IN  /\ b \in PollState /\ b.at = "asking" /\ b.next = a.next /\ b.last = a.last
               /\ b.left = d /\ b.set = a.set /\ b.first = a.first
    BY DEF PollState
  <2>3. NoPoll \in PollState /\ NoPoll.next = 0 /\ NoPoll.last = 1 /\ NoPoll.set = 0 /\ NoPoll.first = FALSE
    BY DEF NoPoll, PollState
  <2>4. /\ n \in PollState /\ n.at = "asking" /\ n.next = NoPoll.next /\ n.last = NoPoll.last
        /\ n.left = Depth /\ n.set = NoPoll.set /\ n.first = NoPoll.first
    BY <2>1, <2>2, <2>3, Zenon
  <2> HIDE DEF n
  <2> QED BY <2>3, <2>4
<1> HIDE DEF n
<1>3. /\ poll' \in [Slot -> PollState] /\ poll'[q] = n /\ Polling' = Polling \cup {q}
      /\ \A r \in Slot : r # q => poll'[r] = poll[r] /\ Ahead(poll[r])' = Ahead(poll[r])
  <2>1. poll \in [Slot -> PollState] BY DEF PollTypes
  <2> QED BY <1>1, <1>2, <2>1, PollMoves
<1>4. PollTypes'
  <2>1. \A r \in Slot : PollShape(poll[r])'
    <3> TAKE r \in Slot
    <3>1. PollShape(poll[r]) /\ items \in Nat /\ Len(seen) \in Nat BY LenProperties DEF PollTypes
    <3>2. CASE r = q BY <1>1, <1>2, <1>3, <3>1, <3>2 DEF PollShape, Begun, Waits, Depth
    <3>3. CASE r # q BY <1>1, <1>3, <3>1, <3>3 DEF PollShape, Begun, Waits, Depth
    <3> QED BY <3>2, <3>3
  <2> QED BY <1>1, <1>3, <2>1 DEF PollTypes
<1>5. SeenOnce' BY <1>1 DEF SeenOnce, SeenIn
<1>6. ASSUME upset' = {} PROVE OnePoll' /\ OwnSet'
  <2>1. Polling = {} /\ \A r \in Slot : poll[r].at = "none" BY <1>1, <1>6 DEF OnePoll, Polling
  <2> QED BY <1>1, <1>2, <1>3, <2>1 DEF OnePoll, OwnSet, Begun, Waits
<1>7. ASSUME upset' = {}, items' <= SeenBound PROVE EmittedKnown' /\ BacklogKnown' /\ OnlyNews'
  <2>1. EmittedKnown /\ BacklogKnown /\ OnlyNews /\ OnePoll BY <1>1, <1>7
  <2>2. \A r \in Slot : poll[r].at = "none" BY <1>1, <2>1 DEF OnePoll, Polling
  <2>3. \A r \in Slot : ~Begun(poll'[r]) BY <1>2, <1>3, <2>2 DEF Begun, Waits
  <2>4. \A r \in Slot : ~poll[r].first BY <2>2 DEF PollTypes, PollShape
  <2>5. EmittedKnown' BY <1>1, <2>1, <2>3 DEF EmittedKnown, SeenIn
  <2>6. BacklogKnown' BY <1>1, <2>1, <2>3, <2>4 DEF BacklogKnown, SeenIn, InReach, Depth
  <2>7. OnlyNews' BY <1>1, <2>1 DEF OnlyNews
  <2> QED BY <2>5, <2>6, <2>7
<1> QED BY <1>4, <1>5, <1>6, <1>7 DEF PollInv

LEMMA FirstPageKeeps == ASSUME PollBase, NEW q \in Slot, FirstPage(q) PROVE PollInv'
<1> USE PollNumbers, PollBaseFacts
<1> DEFINE made == current = 0
           k == Len(seen)
           set == IF made THEN k + 1 ELSE current
           last == IF items > PageSize THEN items - PageSize + 1 ELSE 1
           n == [poll[q] EXCEPT !.at = "scanning", !.next = items, !.last = last, !.set = set, !.first = made]
<1>1. /\ Waits(poll[q]) /\ poll[q] \in PollState /\ poll \in [Slot -> PollState] /\ cursor = 0
      /\ seen' = (IF made THEN Append(seen, <<>>) ELSE seen) /\ current' = set
      /\ poll' = [poll EXCEPT ![q] = n]
      /\ UNCHANGED <<source, items, connected, connects, cursor, inFlight, paused, backlog, emitted, upset>>
  <2>1. cursor = 0 /\ poll \in [Slot -> PollState] BY DEF PollTypes
  <2>2. poll' = [poll EXCEPT ![q] = [Turned(q, items) EXCEPT !.set = set, !.first = made]]
    BY <2>1 DEF FirstPage, PollBase
  <2>3. [Turned(q, items) EXCEPT !.set = set, !.first = made] = n
    BY <2>1 DEF Turned, PollState
  <2> QED BY <2>1, <2>2, <2>3 DEF FirstPage, PollBase, Waits
<1>2. /\ items \in Nat /\ k \in Nat /\ set \in Nat \ {0} /\ last \in Nat \ {0} /\ last <= items + 1
      /\ current \in 0..k /\ backlog \in 0..items
  <2>1. items \in Nat /\ current \in 0..k /\ backlog \in 0..items BY DEF PollTypes
  <2>2. k \in Nat BY LenProperties DEF PollTypes
  <2> QED BY <2>1, <2>2
<1>3. /\ seen' \in Seq(Seq(Item)) /\ Len(seen') = (IF made THEN k + 1 ELSE k) /\ set <= Len(seen')
      /\ \A m \in 1..k : seen'[m] = seen[m]
      /\ made => seen'[set] = <<>>
  <2>1. CASE made
    <3>1. seen \in Seq(Seq(Item)) /\ <<>> \in Seq(Item) BY DEF PollTypes
    <3>2. /\ Append(seen, <<>>) \in Seq(Seq(Item)) /\ Len(Append(seen, <<>>)) = k + 1
          /\ \A m \in 1..k : Append(seen, <<>>)[m] = seen[m]
          /\ Append(seen, <<>>)[k + 1] = <<>>
      BY <3>1, AppendProperties
    <3> QED BY <1>1, <1>2, <2>1, <3>2
  <2>2. CASE ~made BY <1>1, <1>2, <2>2 DEF PollTypes
  <2> QED BY <2>1, <2>2
<1>4. /\ n \in PollState /\ n.at = "scanning" /\ n.next = items /\ n.last = last /\ n.left = Depth
      /\ n.set = set /\ n.first = made
  <2>1. poll[q].left = Depth BY <1>1 DEF PollTypes, PollShape
  <2> HIDE DEF set, last
  <2> QED BY <1>1, <1>2, <2>1 DEF PollState
<1>5. current' = set /\ poll' = [poll EXCEPT ![q] = n] BY <1>1
<1>6. made <=> current = 0 OBVIOUS
<1>7. set > 0 /\ (~made => set = current) /\ (made => set = k + 1) BY <1>2
<1>8. \A i \in 1..items : i >= last <=> items - i < PageSize BY <1>2
<1> HIDE DEF n, last, set, made, k
<1>9. /\ poll' \in [Slot -> PollState] /\ poll'[q] = n /\ Polling' = Polling /\ q \in Polling
      /\ \A r \in Slot : r # q => poll'[r] = poll[r] /\ Ahead(poll[r])' = Ahead(poll[r])
  <2>1. q \in Polling BY <1>1 DEF Waits, Polling
  <2>2. /\ poll' \in [Slot -> PollState] /\ poll'[q] = n /\ Polling' = Polling \cup {q}
        /\ \A r \in Slot : r # q => poll'[r] = poll[r] /\ Ahead(poll[r])' = Ahead(poll[r])
    BY <1>1, <1>4, <1>5, PollMoves
  <2> QED BY <2>1, <2>2
<1>10. PollTypes'
  <2>1. \A r \in Slot : PollShape(poll[r])'
    <3> TAKE r \in Slot
    <3>1. PollShape(poll[r]) /\ k = Len(seen) /\ poll[r] \in PollState BY <1>1 DEF PollTypes, k
    <3>2. CASE r = q BY <1>1, <1>2, <1>3, <1>4, <1>9, <3>2 DEF PollShape, Begun, Waits
    <3>3. CASE r # q BY <1>1, <1>2, <1>3, <1>9, <3>1, <3>3 DEF PollShape, Begun, Waits, Depth, PollState
    <3> QED BY <3>2, <3>3
  <2>2. current' \in 0..Len(seen') BY <1>2, <1>3, <1>5
  <2> QED BY <1>1, <1>3, <1>9, <2>1, <2>2 DEF PollTypes
<1>11. SeenOnce'
  <2> SUFFICES ASSUME items <= SeenBound, NEW m \in 1..Len(seen')
               PROVE  ToSet(seen'[m]) \subseteq 1..items /\ Len(seen'[m]) <= Cardinality(ToSet(seen'[m]))
    BY <1>1 DEF SeenOnce, SeenIn
  <2>1. CASE m \in 1..k BY <1>3, <2>1 DEF SeenOnce, SeenIn, k
  <2>2. CASE m \notin 1..k
    <3>1. seen'[m] = <<>> BY <1>2, <1>3, <1>7, <2>2
    <3>2. ToSet(<<>>) = {} /\ Len(<<>>) = 0 BY DEF ToSet
    <3>3. Cardinality({}) = 0 BY FS_EmptySet
    <3>4. ToSet(seen'[m]) = {} /\ Len(seen'[m]) = 0 BY <3>1, <3>2
    <3>5. Cardinality(ToSet(seen'[m])) = 0 BY <3>3, <3>4
    <3> QED BY <3>4, <3>5
  <2> QED BY <2>1, <2>2
<1>12. ASSUME upset' = {}, OnePoll PROVE \A r \in Slot : r # q => poll'[r].at = "none" /\ poll[r].at = "none"
  BY <1>9, <1>12 DEF OnePoll, Polling
<1>13. ASSUME upset' = {} PROVE OnePoll' /\ OwnSet'
  <2>1. OnePoll /\ OwnSet BY <1>1, <1>13
  <2>2. \A r \in Slot : r # q => poll'[r].at = "none" BY <1>12, <1>13, <2>1
  <2>3. OnePoll' BY <1>1, <1>9, <2>1 DEF OnePoll
  <2>4. \A r \in Slot : (Begun(poll'[r]) => r = q) /\ ~Waits(poll'[r])
    BY <1>4, <1>9, <2>2 DEF Begun, Waits
  <2>5. OwnSet' BY <1>4, <1>5, <1>9, <2>4 DEF OwnSet
  <2> QED BY <2>3, <2>5
<1>14. ASSUME upset' = {}, items' <= SeenBound PROVE EmittedKnown' /\ BacklogKnown' /\ OnlyNews'
  <2>1. EmittedKnown /\ BacklogKnown /\ OnlyNews /\ OnePoll /\ OwnSet BY <1>1, <1>14
  <2>2. \A r \in Slot : r # q => poll'[r].at = "none" /\ poll[r].at = "none" BY <1>12, <1>14, <2>1
  <2>3. ~connected => made BY <1>1, <1>6, <2>1 DEF OwnSet
  <2>4. ~made => ToSet(seen'[set]) = SeenIn(current) /\ SeenIn(current)' = SeenIn(current)
    BY <1>2, <1>3, <1>5, <1>6, <1>7 DEF SeenIn
  <2>5. \A r \in Slot : Begun(poll'[r]) => r = q BY <2>2 DEF Begun
  <2>6. EmittedKnown'
    <3>1. ASSUME connected, NEW i \in Item, emitted[i] > 0 PROVE ~made /\ i \in SeenIn(current)
      BY <1>6, <2>1, <3>1 DEF EmittedKnown
    <3>2. ASSUME connected', NEW i \in Item, emitted'[i] > 0 PROVE current' > 0 /\ i \in SeenIn(current)'
      BY <1>1, <1>5, <1>7, <2>4, <3>1, <3>2
    <3>3. ASSUME NEW r \in Slot, Begun(poll'[r]), ~poll'[r].first, NEW i \in Item, emitted'[i] > 0
          PROVE  i \in ToSet(seen'[poll'[r].set])
      <4>1. r = q /\ ~made /\ connected /\ poll'[r].set = set BY <1>4, <1>9, <2>3, <2>5, <3>3
      <4>2. i \in SeenIn(current) BY <1>1, <3>1, <3>3, <4>1
      <4> QED BY <2>4, <4>1, <4>2
    <3> QED BY <3>2, <3>3 DEF EmittedKnown, Begun, Waits, SeenIn
  <2>7. \A i \in 1..backlog : i \in Ahead(poll[q])' <=> InReach(i)
    <3> TAKE i \in 1..backlog
    <3>1. i \in 1..items BY <1>2
    <3>2. Ahead(poll[q])' = {j \in 1..items : items - j < Depth /\ (source = "comments" => j >= last)}
      BY <1>1, <1>4, <1>9 DEF Ahead
    <3> QED BY <1>8, <3>1, <3>2 DEF InReach
  <2>8. ASSUME NEW i \in 1..backlog, InReach(i), ~made PROVE i \in SeenIn(current)
    <3>1. connected /\ current > 0 BY <1>2, <1>6, <2>3, <2>8
    <3>2. \A r \in Slot : ~poll[r].first BY <1>1, <2>2 DEF PollTypes, PollShape
    <3> QED BY <2>1, <2>8, <3>1, <3>2 DEF BacklogKnown
  <2>9. BacklogKnown'
    <3>1. \A i : InReach(i)' <=> InReach(i) BY <1>1 DEF InReach, Depth
    <3>2. ASSUME NEW i \in 1..backlog, InReach(i)
          PROVE  i \in SeenIn(current)' \/ \E r \in Slot : poll'[r].first /\ i \in Ahead(poll[r])'
      <4>1. CASE made BY <1>4, <1>9, <2>7, <3>2, <4>1
      <4>2. CASE ~made BY <2>4, <2>8, <3>2, <4>2
      <4> QED BY <4>1, <4>2
    <3>3. ASSUME NEW r \in Slot, Begun(poll'[r]), ~poll'[r].first, NEW i \in 1..backlog, i \in Ahead(poll[r])'
          PROVE  i \in ToSet(seen'[poll'[r].set])
      <4>1. r = q /\ ~made /\ poll'[r].set = set BY <1>4, <1>9, <2>5, <3>3
      <4>2. i \in SeenIn(current) BY <2>7, <2>8, <3>3, <4>1
      <4> QED BY <2>4, <4>1, <4>2
    <3> QED BY <1>1, <3>1, <3>2, <3>3 DEF BacklogKnown, Begun, Waits, SeenIn
  <2>10. OnlyNews' BY <1>1, <2>1 DEF OnlyNews
  <2> QED BY <2>6, <2>9, <2>10
<1> QED BY <1>10, <1>11, <1>13, <1>14 DEF PollInv

LEMMA NextPageKeeps == ASSUME PollBase, NEW q \in Slot, NextPage(q) PROVE PollInv'
<1> USE PollNumbers, PollBaseFacts
<1> DEFINE p == poll[q]
           last == IF p.next > PageSize THEN p.next - PageSize + 1 ELSE 1
           n == [p EXCEPT !.at = "scanning", !.next = p.next, !.last = last]
<1>1. /\ p \in PollState /\ p.at = "asking" /\ p.next > 0 /\ poll \in [Slot -> PollState]
      /\ poll' = [poll EXCEPT ![q] = n]
      /\ UNCHANGED <<source, items, connected, connects, seen, current, cursor, inFlight, paused, backlog,
                     emitted, upset>>
  BY DEF NextPage, Turned, PollTypes
<1>2. last \in Nat \ {0} /\ last <= p.next + 1 BY <1>1 DEF PollState
<1> HIDE DEF last
<1>3. /\ n \in PollState /\ n.at = "scanning" /\ n.next = p.next /\ n.last = last /\ n.left = p.left
      /\ n.set = p.set /\ n.first = p.first
  BY <1>1, <1>2 DEF PollState
<1> HIDE DEF n
<1>4. /\ poll' \in [Slot -> PollState] /\ poll'[q] = n /\ Polling' = Polling
      /\ \A r \in Slot : r # q => poll'[r] = poll[r] /\ Ahead(poll[r])' = Ahead(poll[r])
  <2>1. q \in Polling BY <1>1 DEF Polling
  <2>2. /\ poll' \in [Slot -> PollState] /\ poll'[q] = n /\ Polling' = Polling \cup {q}
        /\ \A r \in Slot : r # q => poll'[r] = poll[r] /\ Ahead(poll[r])' = Ahead(poll[r])
    BY <1>1, <1>3, PollMoves
  <2> QED BY <2>1, <2>2
<1>5. PollShape(p) /\ source # "comments" BY <1>1 DEF PollTypes, PollShape
<1>6. ASSUME NEW r \in Slot
      PROVE  /\ Ahead(poll[r])' = Ahead(poll[r]) /\ poll'[r].set = poll[r].set
             /\ poll'[r].first = poll[r].first
             /\ Begun(poll'[r]) <=> Begun(poll[r])
             /\ Waits(poll'[r]) <=> Waits(poll[r])
  <2>1. CASE r = q
    <3>1. Ahead(poll[q])' = Ahead(p) BY <1>1, <1>3, <1>4, <1>5 DEF Ahead
    <3> QED BY <1>1, <1>3, <1>4, <2>1, <3>1 DEF Begun, Waits
  <2>2. CASE r # q BY <1>4, <2>2
  <2> QED BY <2>1, <2>2
<1>7. PollTypes'
  <2>1. \A r \in Slot : PollShape(poll[r])'
    <3> TAKE r \in Slot
    <3>1. PollShape(poll[r]) BY DEF PollTypes
    <3>2. CASE r = q BY <1>1, <1>2, <1>3, <1>4, <1>5, <3>2 DEF PollShape, Begun, Waits
    <3>3. CASE r # q BY <1>1, <1>4, <3>1, <3>3 DEF PollShape, Begun, Waits, Depth
    <3> QED BY <3>2, <3>3
  <2> QED BY <1>1, <1>4, <2>1 DEF PollTypes
<1>8. SeenOnce' BY <1>1 DEF SeenOnce, SeenIn
<1>9. upset' = {} => OnePoll' /\ OwnSet' BY <1>1, <1>4, <1>6 DEF OnePoll, OwnSet
<1>10. ASSUME upset' = {}, items' <= SeenBound PROVE EmittedKnown' /\ BacklogKnown' /\ OnlyNews'
  <2>1. EmittedKnown /\ BacklogKnown /\ OnlyNews BY <1>1, <1>10
  <2>2. EmittedKnown' BY <1>1, <1>6, <2>1 DEF EmittedKnown, SeenIn
  <2>3. BacklogKnown' BY <1>1, <1>6, <2>1 DEF BacklogKnown, SeenIn, InReach, Depth
  <2>4. OnlyNews' BY <1>1, <2>1 DEF OnlyNews
  <2> QED BY <2>2, <2>3, <2>4
<1> QED BY <1>7, <1>8, <1>9, <1>10 DEF PollInv

LEMMA PageFailsKeeps == ASSUME PollBase, NEW q \in Slot, PageFails(q) PROVE PollInv'
<1> USE PollNumbers, PollBaseFacts
<1>1. /\ poll[q].at = "asking" /\ poll' = [poll EXCEPT ![q] = NoPoll] /\ inFlight' = FALSE
      /\ poll \in [Slot -> PollState] /\ NoPoll \in PollState /\ NoPoll.at = "none" /\ ~NoPoll.first
      /\ NoPoll.next = 0 /\ NoPoll.last = 1 /\ NoPoll.set = 0
      /\ (upset' = {} => upset = {} /\ ~poll[q].first)
      /\ UNCHANGED <<source, items, connected, connects, seen, current, cursor, backlog, emitted>>
  <2>1. NoPoll \in PollState /\ NoPoll.at = "none" /\ ~NoPoll.first /\ NoPoll.next = 0 /\ NoPoll.last = 1 /\ NoPoll.set = 0
    BY DEF NoPoll, PollState
  <2>2. upset' = (IF poll[q].first THEN upset \cup {"unfinished"} ELSE upset) BY DEF PageFails
  <2> QED BY <2>1, <2>2 DEF PageFails, Done, PollTypes
<1>2. /\ poll' \in [Slot -> PollState] /\ poll'[q] = NoPoll /\ Polling' = Polling \ {q}
      /\ \A r \in Slot : r # q => poll'[r] = poll[r] /\ Ahead(poll[r])' = Ahead(poll[r])
  BY <1>1, PollMoves
<1>3. PollTypes'
  <2>1. \A r \in Slot : PollShape(poll[r])'
    <3> TAKE r \in Slot
    <3>1. PollShape(poll[r]) /\ items \in Nat /\ Len(seen) \in Nat BY LenProperties DEF PollTypes
    <3>2. CASE r = q BY <1>1, <1>2, <3>1, <3>2 DEF PollShape, Begun, Waits
    <3>3. CASE r # q BY <1>1, <1>2, <3>1, <3>3 DEF PollShape, Begun, Waits, Depth
    <3> QED BY <3>2, <3>3
  <2> QED BY <1>1, <1>2, <2>1 DEF PollTypes
<1>4. SeenOnce' BY <1>1 DEF SeenOnce, SeenIn
<1>5. \A r \in Slot : (Begun(poll'[r]) \/ Waits(poll'[r]) => r # q) BY <1>1, <1>2 DEF Begun, Waits
<1>6. ASSUME upset' = {} PROVE OnePoll' /\ OwnSet'
  <2>1. OnePoll /\ OwnSet BY <1>1, <1>6
  <2>2. q \in Polling BY <1>1 DEF Polling
  <2>3. Polling' = {} BY <1>2, <2>1, <2>2 DEF OnePoll
  <2>4. OnePoll' BY <1>1, <2>3 DEF OnePoll
  <2>5. OwnSet' BY <1>1, <1>2, <1>5, <2>1 DEF OwnSet
  <2> QED BY <2>4, <2>5
<1>7. ASSUME upset' = {}, items' <= SeenBound PROVE EmittedKnown' /\ BacklogKnown' /\ OnlyNews'
  <2>1. EmittedKnown /\ BacklogKnown /\ OnlyNews BY <1>1, <1>7
  <2>2. EmittedKnown' BY <1>1, <1>2, <1>5, <2>1 DEF EmittedKnown, SeenIn
  <2>3. BacklogKnown'
    <3>1. \A i : InReach(i)' <=> InReach(i) BY <1>1 DEF InReach, Depth
    <3>2. \A r \in Slot : poll[r].first => r # q BY <1>1, <1>7
    <3> QED BY <1>1, <1>2, <1>5, <2>1, <3>1, <3>2 DEF BacklogKnown, SeenIn
  <2>4. OnlyNews' BY <1>1, <2>1 DEF OnlyNews
  <2> QED BY <2>2, <2>3, <2>4
<1> QED BY <1>3, <1>4, <1>6, <1>7 DEF PollInv

(* A set that grows by items it does not hold.                             *)
LEMMA SeenGrows ==
    ASSUME PollTypes, SeenOnce, items' = items, NEW m \in 1..Len(seen), NEW S \in SUBSET (1..items),
           S \cap SeenIn(m) = {}, seen' = [seen EXCEPT ![m] = Added(seen[m], S)]
    PROVE  /\ seen' \in Seq(Seq(Item)) /\ Len(seen') = Len(seen) /\ SeenOnce'
           /\ \A k \in 1..Len(seen) : items <= SeenBound => ToSet(seen[k]) \subseteq ToSet(seen'[k])
           /\ items <= SeenBound => ToSet(seen'[m]) = ToSet(seen[m]) \cup S
<1> DEFINE a == Added(seen[m], S)  k == Len(seen)
<1>1. /\ seen \in Seq(Seq(Item)) /\ k \in Nat /\ m \in 1..k /\ items \in Nat /\ items <= MaxItems
      /\ seen[m] \in Seq(Item)
  <2>1. seen \in Seq(Seq(Item)) /\ items \in 0..MaxItems BY DEF PollTypes
  <2> QED BY <2>1, PollNumbers, LenProperties, ElementOfSeq
<1>2. a \in Seq(Item)
  <2>1. S \in SUBSET Item BY <1>1, PollNumbers DEF Item
  <2> QED BY <1>1, <2>1, AddedTyped
<1>3. ASSUME items <= SeenBound
      PROVE  ToSet(a) = ToSet(seen[m]) \cup S /\ ToSet(a) \subseteq 1..items /\ Len(a) <= Cardinality(ToSet(a))
  BY <1>1, <1>3, AddedOnce DEF SeenOnce, SeenIn
<1> HIDE DEF a
<1>4. /\ seen' \in Seq(Seq(Item)) /\ Len(seen') = k /\ seen'[m] = a
      /\ \A j \in 1..k : j # m => seen'[j] = seen[j]
  <2> DEFINE sets == Seq(Item)
  <2>1. seen \in Seq(sets) /\ a \in sets /\ seen' = [seen EXCEPT ![m] = a] BY <1>1, <1>2 DEF a
  <2> HIDE DEF sets, k
  <2>2. seen' \in Seq(sets) /\ Len(seen') = k /\ seen'[m] = a /\ \A j \in 1..k : j # m => seen'[j] = seen[j]
    <3>1. seen \in [1..k -> sets] /\ DOMAIN seen = 1..k BY <2>1, LenProperties DEF k
    <3>2. seen' \in [1..k -> sets] BY <1>1, <2>1, <3>1
    <3> QED BY <1>1, <2>1, <3>1, <3>2
  <2> QED BY <2>2 DEF sets
<1>5. SeenOnce'
  <2> SUFFICES ASSUME items <= SeenBound, NEW j \in 1..k
               PROVE  ToSet(seen'[j]) \subseteq 1..items /\ Len(seen'[j]) <= Cardinality(ToSet(seen'[j]))
    BY <1>4 DEF SeenOnce, SeenIn
  <2>1. CASE j = m BY <1>3, <1>4, <2>1
  <2>2. CASE j # m BY <1>4, <2>2 DEF SeenOnce, SeenIn
  <2> QED BY <2>1, <2>2
<1> QED BY <1>3, <1>4, <1>5

(* The items of a page that a scan still looks at, and which of them it    *)
(* has not seen.                                                           *)
Fresh(p) == Looked(p) \ SeenIn(p.set)

LEMMA FreshAhead ==
    ASSUME PollBase, NEW q \in Slot, poll[q].at = "scanning"
    PROVE  /\ poll[q] \in PollState /\ PollShape(poll[q]) /\ poll[q].set \in 1..Len(seen)
           /\ Fresh(poll[q]) \in SUBSET (1..items) /\ Fresh(poll[q]) \cap SeenIn(poll[q].set) = {}
           /\ Fresh(poll[q]) \subseteq Ahead(poll[q])
           /\ Fresh(poll[q]) \subseteq poll[q].last..poll[q].next
<1> DEFINE p == poll[q]
<1>1. p \in PollState /\ PollShape(p) /\ items \in Nat /\ Len(seen) \in Nat
  <2>1. PollTypes BY PollBaseFacts
  <2> QED BY <2>1, LenProperties DEF PollTypes
<1>2. p.set \in 1..Len(seen) BY <1>1 DEF PollShape, PollState, Begun, Waits
<1>3. \A i \in Looked(p) : i \in p.last..p.next /\ p.next - i < p.left BY DEF Looked
<1>4. Looked(p) \subseteq p.last..p.next /\ Looked(p) \subseteq Ahead(p) /\ Looked(p) \subseteq 1..items
  <2>1. p.last \in Nat /\ p.last >= 1 /\ p.next \in Nat /\ p.next <= items BY <1>1 DEF PollState, PollShape
  <2> QED BY <1>1, <1>3, <2>1 DEF Ahead
<1> QED BY <1>1, <1>2, <1>4 DEF Fresh

(* A scan that moves its poll to n, adding the items S to its set: what is *)
(* known stays known if what lies ahead of n lay ahead of the poll, and    *)
(* what no longer does has been added by a first poll.                     *)
LEMMA ScanMoves ==
    ASSUME PollBase, NEW q \in Slot, poll[q].at = "scanning", NEW n \in PollState,
           poll' = [poll EXCEPT ![q] = n],
           UNCHANGED <<source, items, connected, current, cursor, backlog, upset>>,
           NEW S \in SUBSET Fresh(poll[q]),
           \/ seen' = [seen EXCEPT ![poll[q].set] = Added(seen[poll[q].set], S)]
           \/ S = {} /\ seen' = seen,
           n.at = "none" => n = NoPoll /\ inFlight' = FALSE,
           n.at # "none" => /\ UNCHANGED inFlight /\ n.set = poll[q].set /\ n.first = poll[q].first
                            /\ PollShape(n) /\ ~Waits(n)
                            /\ \A i \in Item : i \in Ahead(n) => i \in Ahead(poll[q]),
           poll[q].first /\ connected =>
               \A i \in Ahead(poll[q]) : i \in S \/ i \in SeenIn(poll[q].set)
                                         \/ (n.at # "none" /\ i \in Ahead(n)),
           emitted' \in [Item -> 0..2],
           \/ emitted' = emitted
           \/ /\ ~poll[q].first
              /\ \E i \in S : i \in Item /\ emitted' = [emitted EXCEPT ![i] = IF @ < 2 THEN @ + 1 ELSE @]
    PROVE  PollInv'
<1> USE PollNumbers, PollBaseFacts
<1> DEFINE p == poll[q]
           grown(m) == items <= SeenBound => ToSet(seen[m]) \subseteq ToSet(seen'[m])
<1>1. /\ poll \in [Slot -> PollState] /\ p \in PollState /\ PollShape(p) /\ p.set \in 1..Len(seen)
      /\ Fresh(p) \in SUBSET (1..items) /\ Fresh(p) \cap SeenIn(p.set) = {} /\ items \in Nat
      /\ backlog \in 0..items /\ current \in 0..Len(seen) /\ Len(seen) \in Nat /\ items <= MaxItems
  <2>1. poll \in [Slot -> PollState] /\ items \in 0..MaxItems /\ backlog \in 0..items
        /\ current \in 0..Len(seen) /\ seen \in Seq(Seq(Item))
    BY DEF PollTypes
  <2> QED BY <2>1, FreshAhead, LenProperties
<1>2. /\ seen' \in Seq(Seq(Item)) /\ Len(seen') = Len(seen) /\ SeenOnce'
      /\ \A m \in 1..Len(seen) : grown(m)
      /\ items <= SeenBound => ToSet(seen'[p.set]) = ToSet(seen[p.set]) \cup S
  <2>1. CASE S = {} /\ seen' = seen BY <2>1 DEF PollTypes, SeenOnce, SeenIn
  <2>2. CASE seen' = [seen EXCEPT ![p.set] = Added(seen[p.set], S)]
    <3>1. S \in SUBSET (1..items) /\ S \cap SeenIn(p.set) = {} BY <1>1
    <3> QED BY <1>1, <2>2, <3>1, SeenGrows
  <2> QED BY <2>1, <2>2
<1>3. /\ poll' \in [Slot -> PollState] /\ poll'[q] = n
      /\ Polling' = IF n.at = "none" THEN Polling \ {q} ELSE Polling \cup {q}
      /\ \A r \in Slot : r # q => poll'[r] = poll[r] /\ Ahead(poll[r])' = Ahead(poll[r])
  BY <1>1, PollMoves
<1>4. NoPoll.at = "none" /\ NoPoll.first = FALSE /\ NoPoll.next = 0 /\ NoPoll.last = 1 /\ NoPoll.set = 0
  BY DEF NoPoll
<1>5. q \in Polling /\ Begun(p) /\ ~Waits(p) BY DEF Polling, Begun, Waits
<1>6. PollTypes'
  <2>1. \A r \in Slot : PollShape(poll[r])'
    <3> TAKE r \in Slot
    <3>1. PollShape(poll[r]) BY DEF PollTypes
    <3>2. CASE r = q
      <4>1. CASE n.at = "none" BY <1>1, <1>2, <1>3, <1>4, <3>2, <4>1 DEF PollShape, Begun, Waits
      <4>2. CASE n.at # "none" BY <1>2, <1>3, <3>2, <4>2 DEF PollShape, Begun, Waits, Depth
      <4> QED BY <4>1, <4>2
    <3>3. CASE r # q BY <1>2, <1>3, <3>1, <3>3 DEF PollShape, Begun, Waits, Depth
    <3> QED BY <3>2, <3>3
  <2>2. inFlight' \in BOOLEAN /\ (~connected' => ~inFlight')
    <3>1. inFlight \in BOOLEAN /\ (~connected => ~inFlight) BY DEF PollTypes
    <3>2. CASE n.at = "none" BY <3>2
    <3>3. CASE n.at # "none" BY <3>1, <3>3
    <3> QED BY <3>2, <3>3
  <2> QED BY <1>1, <1>2, <1>3, <2>1, <2>2 DEF PollTypes
<1>7. ASSUME upset = {}, NEW r \in Slot, r # q PROVE poll[r].at = "none" /\ ~poll[r].first /\ ~Begun(poll'[r])
  <2>1. poll[r].at = "none" BY <1>5, <1>7 DEF OnePoll, Polling
  <2>2. PollShape(poll[r]) BY DEF PollTypes
  <2> QED BY <1>3, <1>7, <2>1, <2>2 DEF PollShape, Begun
<1>8. ASSUME upset' = {} PROVE OnePoll' /\ OwnSet'
  <2>1. OnePoll /\ OwnSet BY <1>8
  <2>2. OnePoll'
    <3>1. CASE n.at = "none"
      <4>1. Polling' = {} BY <1>3, <1>5, <2>1, <3>1 DEF OnePoll
      <4> QED BY <3>1, <4>1 DEF OnePoll
    <3>2. CASE n.at # "none"
      <4>1. Polling' = Polling BY <1>3, <1>5, <3>2
      <4> QED BY <2>1, <3>2, <4>1 DEF OnePoll
    <3> QED BY <3>1, <3>2
  <2>3. OwnSet'
    <3>1. ASSUME NEW r \in Slot, Begun(poll'[r]) PROVE r = q /\ n.at # "none"
      BY <1>3, <1>7, <1>8, <3>1 DEF Begun
    <3>2. ASSUME NEW r \in Slot PROVE ~Waits(poll'[r])
      <4>1. CASE r = q BY <1>3, <4>1 DEF Waits
      <4>2. CASE r # q BY <1>3, <1>7, <1>8, <4>2 DEF Waits
      <4> QED BY <4>1, <4>2
    <3>3. connected => p.set = current BY <1>5, <2>1 DEF OwnSet
    <3> QED BY <1>3, <3>1, <3>2, <3>3 DEF OwnSet, Begun, Waits
  <2> QED BY <2>2, <2>3
<1>9. ASSUME upset' = {}, items' <= SeenBound PROVE EmittedKnown' /\ BacklogKnown' /\ OnlyNews'
  <2>1. EmittedKnown /\ BacklogKnown /\ OnlyNews /\ OnePoll /\ OwnSet /\ upset = {} /\ items <= SeenBound
    BY <1>9
  <2>2. /\ ToSet(seen'[p.set]) = ToSet(seen[p.set]) \cup S
        /\ \A m \in 1..Len(seen) : ToSet(seen[m]) \subseteq ToSet(seen'[m])
    BY <1>2, <2>1
  <2>3. connected => p.set = current /\ current > 0 BY <1>1, <1>5, <2>1 DEF OwnSet
  <2>4. ASSUME NEW i \in Item, emitted'[i] > 0, ~(emitted[i] > 0) PROVE i \in S /\ ~p.first
    BY <2>4 DEF PollTypes
  <2>5. ASSUME NEW r \in Slot, Begun(poll'[r]), ~poll'[r].first
        PROVE  r = q /\ n.at # "none" /\ ~p.first /\ poll'[r].set = p.set /\ Ahead(poll[r])' = Ahead(n)
    <3>1. r = q /\ n.at # "none" BY <1>3, <1>7, <2>1, <2>5 DEF Begun
    <3> QED BY <1>3, <2>5, <3>1 DEF Ahead
  <2>6. EmittedKnown'
    <3>1. ASSUME connected', NEW i \in Item, emitted'[i] > 0
          PROVE  current' > 0 /\ i \in ToSet(seen'[current'])
      <4>1. CASE emitted[i] > 0 BY <2>1, <2>2, <2>3, <1>1, <3>1, <4>1 DEF EmittedKnown, SeenIn
      <4>2. CASE ~(emitted[i] > 0) BY <2>2, <2>3, <2>4, <3>1, <4>2
      <4> QED BY <4>1, <4>2
    <3>2. ASSUME NEW r \in Slot, Begun(poll'[r]), ~poll'[r].first, NEW i \in Item, emitted'[i] > 0
          PROVE  i \in ToSet(seen'[poll'[r].set])
      <4>1. poll'[r].set = p.set /\ ~p.first BY <2>5, <3>2
      <4>2. CASE emitted[i] > 0 BY <1>5, <2>1, <2>2, <4>1, <4>2 DEF EmittedKnown, SeenIn
      <4>3. CASE ~(emitted[i] > 0) BY <2>2, <2>4, <3>2, <4>1, <4>3
      <4> QED BY <4>2, <4>3
    <3> QED BY <3>1, <3>2 DEF EmittedKnown, SeenIn, Begun, Waits
  <2>7. BacklogKnown'
    <3>1. ASSUME connected, NEW i \in 1..backlog, InReach(i)
          PROVE  i \in ToSet(seen'[current]) \/ \E r \in Slot : poll'[r].first /\ i \in Ahead(poll[r])'
      <4>1. CASE i \in SeenIn(current) BY <1>1, <2>2, <2>3, <3>1, <4>1 DEF SeenIn
      <4>2. CASE \E r \in Slot : poll[r].first /\ i \in Ahead(poll[r])
        <5>1. p.first /\ i \in Ahead(p) BY <1>7, <2>1, <4>2
        <5>2. CASE i \in S \/ i \in SeenIn(p.set) BY <2>2, <2>3, <3>1, <5>2 DEF SeenIn
        <5>3. CASE n.at # "none" /\ i \in Ahead(n)
          <6>1. poll'[q].first /\ Ahead(poll[q])' = Ahead(n) BY <1>3, <5>1, <5>3 DEF Ahead
          <6> QED BY <5>3, <6>1
        <5> QED BY <3>1, <5>1, <5>2, <5>3
      <4> QED BY <2>1, <2>3, <3>1, <4>1, <4>2 DEF BacklogKnown
    <3>2. ASSUME NEW r \in Slot, Begun(poll'[r]), ~poll'[r].first, NEW i \in 1..backlog, i \in Ahead(poll[r])'
          PROVE  i \in ToSet(seen'[poll'[r].set])
      <4>1. n.at # "none" /\ ~p.first /\ poll'[r].set = p.set /\ i \in Ahead(n) BY <2>5, <3>2
      <4>2. i \in Item BY <1>1 DEF Item
      <4>3. i \in Ahead(p) BY <4>1, <4>2
      <4>4. i \in SeenIn(p.set) BY <1>5, <2>1, <4>1, <4>3 DEF BacklogKnown
      <4> QED BY <2>2, <4>1, <4>4 DEF SeenIn
    <3>3. \A i : InReach(i)' <=> InReach(i) BY DEF InReach, Depth
    <3> QED BY <3>1, <3>2, <3>3 DEF BacklogKnown, SeenIn, Begun, Waits
  <2>8. OnlyNews'
    <3>1. CASE emitted' = emitted BY <2>1, <3>1 DEF OnlyNews
    <3>2. CASE emitted' # emitted
      <4>1. PICK i \in S : i \in Item /\ emitted' = [emitted EXCEPT ![i] = IF @ < 2 THEN @ + 1 ELSE @]
        BY <3>2
      <4>2. ~p.first /\ i \notin SeenIn(p.set) /\ i \in Ahead(p) /\ emitted \in [Item -> 0..2]
        BY <1>1, <3>2, FreshAhead DEF PollTypes
      <4>3. ~(emitted[i] > 0) BY <1>5, <2>1, <4>1, <4>2 DEF EmittedKnown
      <4>4. ~(i \in 1..backlog) BY <1>5, <2>1, <4>2 DEF BacklogKnown
      <4>5. i > backlog BY <1>1, <4>1, <4>4 DEF Item
      <4>6. emitted'[i] = 1 /\ \A j \in Item : j # i => emitted'[j] = emitted[j] BY <4>1, <4>2, <4>3
      <4> QED BY <2>1, <4>5, <4>6 DEF OnlyNews
    <3> QED BY <3>1, <3>2
  <2> QED BY <2>6, <2>7, <2>8
<1> QED BY <1>2, <1>6, <1>8, <1>9 DEF PollInv

(* A poll cut to the items up to n.next has those items ahead of it.       *)
LEMMA CutShort ==
    ASSUME NEW p \in PollState, NEW n \in PollState, NEW m \in Nat, m <= p.next, n.next = m,
           n.left = p.left - (p.next - m), n.last = p.last
    PROVE  \A i \in Int : i \in Ahead(n) <=> i \in Ahead(p) /\ i <= m
<1> DEFINE nx == p.next
           le == p.left
           la == p.last
<1>1. nx \in Nat /\ le \in Int /\ la \in Nat BY DEF PollState
<1>2. \A i : i \in Ahead(p) <=> i \in 1..nx /\ nx - i < le /\ (source = "comments" => i >= la) BY DEF Ahead
<1>3. \A i : i \in Ahead(n) <=> i \in 1..m /\ m - i < n.left /\ (source = "comments" => i >= la) BY DEF Ahead
<1>4. n.left = le - (nx - m) /\ m <= nx OBVIOUS
<1> HIDE DEF nx, le, la
<1>5. ASSUME NEW i \in Int PROVE i \in 1..m /\ m - i < n.left <=> i \in 1..nx /\ nx - i < le /\ i <= m
  BY <1>1, <1>4
<1> QED BY <1>2, <1>3, <1>5

(* A scan ends its page, and goes on to the next or is done; or it emits   *)
(* the newest item it has not seen and adds it.                            *)
LEMMA ScanKeeps == ASSUME PollBase, NEW q \in Slot, Scan(q) PROVE PollInv'
<1> DEFINE p == poll[q]
           nx == p.next
           la == p.last
           le == p.left
           left == le - (nx - la + 1)
           asks == /\ source \in {"mentions", "followers"} /\ left > 0 /\ la > 1
                   /\ (source = "mentions" => connected)
           S == IF p.first THEN Fresh(p) ELSE {}
<1>1. /\ p.at = "scanning" /\ Deduplicated
      /\ UNCHANGED <<source, items, connected, connects, current, paused, backlog, upset>>
  BY DEF Scan, PollBase
<1>2. /\ p \in PollState /\ PollShape(p) /\ p.set \in 1..Len(seen) /\ Fresh(p) \in SUBSET (1..items)
      /\ Fresh(p) \subseteq Ahead(p) /\ Fresh(p) \subseteq la..nx
  BY <1>1, FreshAhead
<1>3. /\ nx \in Nat /\ la \in Nat /\ la >= 1 /\ la <= nx + 1 /\ le \in Int /\ nx <= items
  BY <1>2 DEF PollState, PollShape
<1>4. items \in 0..MaxItems /\ emitted \in [Item -> 0..2] /\ cursor = 0 /\ p.set > 0 /\ p.set <= Len(seen)
  <2>1. PollTypes BY PollBaseFacts
  <2> QED BY <1>1, <1>2, <2>1 DEF PollShape, PollTypes, Begun, Waits
<1>5. Looked(p) \ ToSet(seen[p.set]) = Fresh(p) BY DEF Fresh, SeenIn
<1>6. \A i : i \in Ahead(p) => i \in 1..nx /\ nx - i < le /\ (source = "comments" => i >= la) BY DEF Ahead
<1>7. \A i \in la..nx : connected /\ nx - i < le => i \in Fresh(p) \/ i \in SeenIn(p.set)
  BY DEF Looked, Fresh
<1>8. p.next = nx /\ p.last = la /\ p.left = le OBVIOUS
<1>9. source \in {"mentions", "followers", "comments"}
  <2>1. source \in Sources BY PollBaseFacts DEF PollTypes
  <2> QED BY <1>1, <2>1 DEF Sources, Deduplicated
<1> HIDE DEF nx, la, le
<1>10. left \in Int BY <1>3
<1>11. ASSUME connected, NEW i \in Ahead(p), i >= la PROVE i \in Fresh(p) \/ i \in SeenIn(p.set)
  <2>1. i \in la..nx /\ nx - i < le BY <1>3, <1>6, <1>11
  <2> QED BY <1>7, <1>11, <2>1
<1>12. CASE p.first \/ Fresh(p) = {}
  <2>1. /\ seen' = IF p.first THEN [seen EXCEPT ![p.set] = Added(seen[p.set], Fresh(p))] ELSE seen
        /\ PageEnds(q, p) /\ emitted' = emitted
    BY <1>1, <1>5, <1>12 DEF Scan
  <2>2. S \in SUBSET Fresh(p) /\ (\/ seen' = [seen EXCEPT ![p.set] = Added(seen[p.set], S)]
                                  \/ S = {} /\ seen' = seen)
    BY <2>1
  <2>3. /\ asks => poll' = [poll EXCEPT ![q] = [p EXCEPT !.at = "asking", !.next = la - 1, !.left = left]]
                   /\ UNCHANGED <<inFlight, cursor>>
        /\ ~asks => Done(q) /\ cursor' = cursor
    BY <1>1, <2>1 DEF PageEnds, nx, la, le
  <2>4. CASE asks
    <3> DEFINE m == la - 1
               n == [p EXCEPT !.at = "asking", !.next = m, !.left = left]
    <3>1. poll' = [poll EXCEPT ![q] = n] /\ UNCHANGED <<inFlight, cursor>> BY <2>3, <2>4
    <3>2. la > 1 /\ source # "comments" BY <2>4
    <3>3. m \in Nat /\ m > 0 /\ m <= nx /\ m <= items /\ la <= m + 1 /\ left = le - (nx - m)
          /\ \A i \in Nat : i >= 1 /\ ~(i >= la) => i <= m
      BY <1>3, <1>4, <3>2
    <3> HIDE DEF left, m
    <3>4. /\ n \in PollState /\ n.at = "asking" /\ n.next = m /\ n.left = left /\ n.last = la
          /\ n.set = p.set /\ n.first = p.first
      BY <1>2, <1>8, <1>10, <3>3 DEF PollState
    <3> HIDE DEF n
    <3>5. PollShape(n) /\ ~Waits(n)
      <4>1. ~Waits(n) /\ n.at # "none" BY <3>3, <3>4 DEF Waits
      <4> QED BY <1>4, <3>2, <3>3, <3>4, <4>1 DEF PollShape
    <3>6. \A i \in Int : i \in Ahead(n) <=> i \in Ahead(p) /\ i <= m
      BY <1>2, <1>8, <3>3, <3>4, CutShort
    <3>7. ASSUME p.first, connected, NEW i \in Ahead(p) PROVE i \in S \/ i \in SeenIn(p.set) \/ i \in Ahead(n)
      <4>1. i \in Nat /\ i >= 1 BY <1>3, <1>6
      <4>2. CASE i >= la BY <1>11, <3>7, <4>2
      <4>3. CASE ~(i >= la)
        <5>1. i <= m /\ i \in Int BY <3>3, <4>1, <4>3
        <5> QED BY <3>6, <5>1
      <4> QED BY <4>2, <4>3
    <3>8. \A i \in Item : i \in Ahead(n) => i \in Ahead(p)
      <4>1. Item \subseteq Int BY PollNumbers DEF Item
      <4> QED BY <3>6, <4>1
    <3> HIDE DEF S, asks
    <3> QED BY <1>1, <1>4, <2>1, <2>2, <3>1, <3>4, <3>5, <3>7, <3>8, ScanMoves
  <2>5. CASE ~asks
    <3>1. poll' = [poll EXCEPT ![q] = NoPoll] /\ inFlight' = FALSE /\ cursor' = cursor
      BY <2>3, <2>5 DEF Done
    <3>2. NoPoll \in PollState /\ NoPoll.at = "none" BY DEF NoPoll, PollState
    <3>3. ASSUME p.first, connected, NEW i \in Ahead(p) PROVE i \in S \/ i \in SeenIn(p.set)
      <4>1. i \in 1..nx /\ nx - i < le /\ (source = "comments" => i >= la) BY <1>6
      <4>2. i >= la
        <5>1. source = "comments" \/ ~(left > 0) \/ ~(la > 1)
          <6>1. ~(left > 0 /\ la > 1) \/ source \notin {"mentions", "followers"} BY <2>5, <3>3
          <6> QED BY <1>9, <6>1
        <5>2. CASE source = "comments" BY <4>1, <5>2
        <5>3. CASE ~(la > 1) BY <1>3, <4>1, <5>3
        <5>4. CASE ~(left > 0) BY <1>3, <4>1, <5>4
        <5> QED BY <5>1, <5>2, <5>3, <5>4
      <4> QED BY <1>11, <3>3, <4>2
    <3> HIDE DEF S, asks
    <3> QED BY <1>1, <1>4, <2>1, <2>2, <3>1, <3>2, <3>3, ScanMoves
  <2> QED BY <2>4, <2>5
<1>13. CASE ~(p.first \/ Fresh(p) = {})
  <2>1. PICK i \in Fresh(p) : Emit(q, i) /\ seen' = [seen EXCEPT ![p.set] = Added(seen[p.set], {i})]
    BY <1>1, <1>5, <1>13 DEF Scan
  <2>2. UNCHANGED <<inFlight, cursor>> BY <1>1, <1>5, <1>13 DEF Scan
  <2> DEFINE m == i - 1
             rest == le - (nx - i + 1)
             n == [p EXCEPT !.next = m, !.left = rest]
  <2>3. poll' = [poll EXCEPT ![q] = n] /\ emitted' = [emitted EXCEPT ![i] = IF @ < 2 THEN @ + 1 ELSE @]
    <3>1. poll' = [poll EXCEPT ![q].next = i - 1, ![q].left = @ - (poll[q].next - i + 1)]
          /\ emitted' = [emitted EXCEPT ![i] = IF @ < 2 THEN @ + 1 ELSE @]
      BY <2>1 DEF Emit
    <3>2. poll \in [Slot -> PollState] BY PollBaseFacts DEF PollTypes
    <3> HIDE DEF PollState
    <3> QED BY <3>1, <3>2 DEF nx, le
  <2>4. i \in la..nx /\ i \in 1..items BY <1>2
  <2>5. i \in Item /\ m \in Nat /\ m <= nx /\ m <= items /\ la <= m + 1 /\ rest \in Int /\ rest = le - (nx - m)
    BY <1>3, <1>4, <2>4, PollNumbers DEF Item
  <2> HIDE DEF rest, m
  <2>6. /\ n \in PollState /\ n.at = "scanning" /\ n.next = m /\ n.left = rest /\ n.last = la
        /\ n.set = p.set /\ n.first = p.first
    BY <1>1, <1>2, <1>8, <2>5 DEF PollState
  <2> HIDE DEF n
  <2>7. PollShape(n) /\ ~Waits(n)
    <3>1. ~Waits(n) BY <2>6 DEF Waits
    <3> QED BY <1>4, <2>5, <2>6, <3>1 DEF PollShape
  <2>8. \A j \in Item : j \in Ahead(n) => j \in Ahead(p)
    <3>1. Item \subseteq Int BY PollNumbers DEF Item
    <3>2. \A j \in Int : j \in Ahead(n) <=> j \in Ahead(p) /\ j <= m
      BY <1>2, <1>8, <2>5, <2>6, CutShort
    <3> QED BY <3>1, <3>2
  <2>9. emitted' \in [Item -> 0..2] BY <1>4, <2>3, <2>5
  <2>10. {i} \in SUBSET Fresh(p) /\ ~p.first BY <1>13
  <2> QED BY <1>1, <2>1, <2>2, <2>3, <2>5, <2>6, <2>7, <2>8, <2>9, <2>10, ScanMoves
<1> QED BY <1>12, <1>13

(* For any number of items, bounds and connects: what appears while a bot  *)
(* is connected is emitted at most once, and what was there before it not  *)
(* at all, unless a poll outlives its connection, a first scan fails or    *)
(* the seen set is too small (the seenTweets of the adapters).             *)
THEOREM NewsComesOnce == PollSpec => []NewsOnce
<1>1. PollInit => PollInv BY PollStarts
<1>2. PollInv /\ [PollNext]_pollVars => PollInv'
  <2> SUFFICES ASSUME PollInv, [PollNext]_pollVars PROVE PollInv' OBVIOUS
  <2>1. source' = source
    <3>1. ASSUME NEW q \in Slot, PollTick(q) \/ FirstPage(q) \/ NextPage(q) \/ PageFails(q) \/ Scan(q)
          PROVE  source' = source
      BY <3>1 DEF PollTick, FirstPage, NextPage, PageFails, Scan
    <3>2. CASE Appears \/ ConnectPolling \/ DisconnectPolling \/ PauseOver \/ UNCHANGED pollVars
      BY <3>2 DEF Appears, ConnectPolling, DisconnectPolling, PauseOver, pollVars
    <3> QED BY <3>1, <3>2 DEF PollNext
  <2>2. CASE ~Deduplicated BY <2>1, <2>2 DEF PollInv, Deduplicated
  <2>3. CASE Deduplicated
    <3>1. PollBase BY <2>3 DEF PollBase
    <3>2. CASE Appears \/ ConnectPolling \/ DisconnectPolling \/ PauseOver \/ UNCHANGED pollVars
      BY <3>1, <3>2, AppearsKeeps, ConnectPollingKeeps, DisconnectPollingKeeps, PauseOverKeeps
    <3>3. ASSUME NEW q \in Slot, PollTick(q) \/ FirstPage(q) \/ NextPage(q) \/ PageFails(q) \/ Scan(q)
          PROVE  PollInv'
      BY <3>1, <3>3, PollTickKeeps, FirstPageKeeps, NextPageKeeps, PageFailsKeeps, ScanKeeps
    <3> QED BY <3>2, <3>3 DEF PollNext
  <2> QED BY <2>2, <2>3
<1>3. PollInv => NewsOnce BY DEF PollInv, NewsOnce, OnlyNews
<1> QED BY <1>1, <1>2, <1>3, PTL DEF PollSpec

-----------------------------------------------------------------------------
(***************************************************************************)
(* Proofs about Cadence for every schedule, jitter and length of a day and *)
(* of a week.  The argument: the change that ends a sleep lies within one  *)
(* jitter of a waking window, because that is how far a window is widened, *)
(* and the timer within one of the change; from then on the clock and what *)
(* is left of the timer keep their sum, which the end of the week lowers   *)
(* by a week, and the schedule repeats every week.                         *)
(***************************************************************************)

(* A set of numbers that is not empty has a least one.                   *)
LEMMA LeastNumber == ASSUME NEW T \in SUBSET Nat, T # {} PROVE \E x \in T : \A y \in T : x <= y
<1> DEFINE Upto(x) == 0..x
           Upper == {Upto(x) : x \in T}
<1>1. Upper \in SUBSET FiniteSubsetsOf(Nat) /\ Upper # {}
  <2>1. ASSUME NEW x \in T PROVE Upto(x) \in FiniteSubsetsOf(Nat)
    <3>1. x \in Int /\ 0 \in Int OBVIOUS
    <3>2. IsFiniteSet(0..x) BY <3>1, FS_Interval
    <3>3. 0..x \in SUBSET Nat OBVIOUS
    <3> QED BY <3>2, <3>3 DEF FiniteSubsetsOf
  <2> QED BY <2>1
<1>2. PICK X \in Upper : \A Y \in Upper : ~(<<Y, X>> \in StrictSubsetOrdering(Nat))
  BY <1>1, FS_StrictSubsetOrderingWellFounded, WFMin
<1>3. PICK x \in T : X = Upto(x) BY <1>2
<1>4. ASSUME NEW y \in T, y < x PROVE FALSE
  <2>1. Upto(y) \in SUBSET Nat /\ Upto(x) \in SUBSET Nat OBVIOUS
  <2>2. x \in Upto(x) /\ x \notin Upto(y) BY <1>4
  <2>3. Upto(y) \subseteq Upto(x) BY <1>4
  <2>4. Upto(y) \in Upper OBVIOUS
  <2> HIDE DEF Upto
  <2>5. <<Upto(y), Upto(x)>> \in StrictSubsetOrdering(Nat) BY <2>1, <2>2, <2>3 DEF StrictSubsetOrdering
  <2> QED BY <1>2, <1>3, <2>4, <2>5
<1> QED BY <1>4

(* Arithmetic: a number moved within its interval keeps its quotient.      *)
LEMMA SameQuotient ==
    ASSUME NEW t \in Int, NEW n \in Nat \ {0}, NEW j \in Int, (t % n) + j \in 0..(n - 1)
    PROVE  (t + j) \div n = t \div n /\ (t + j) % n = (t % n) + j
<1>1. (t + j) \div n = t \div n OBVIOUS
<1>2. (t + j) % n = (t % n) + j OBVIOUS
<1> QED BY <1>1, <1>2

(* A slot moved within its day stays on that day.                        *)
LEMMA SameDay ==
    ASSUME NEW t \in Int, NEW j \in Int, (t % SlotsPerDay) + j \in 0..(SlotsPerDay - 1)
    PROVE  (t + j) \div SlotsPerDay = t \div SlotsPerDay /\ (t + j) % SlotsPerDay = (t % SlotsPerDay) + j
<1> DEFINE S == SlotsPerDay
<1>1. S \in Nat \ {0} BY CadenceAssumption
<1>2. (t % S) + j \in 0..(S - 1) OBVIOUS
<1> HIDE DEF S
<1>3. (t + j) \div S = t \div S BY <1>1, <1>2, SameQuotient
<1>4. (t + j) % S = (t % S) + j BY <1>1, <1>2, SameQuotient
<1> QED BY <1>3, <1>4 DEF S

(* The parts of a window, and the slot of the day.                       *)
LEMMA WindowOf ==
    ASSUME NEW s \in Schedules, NEW t \in Int
    PROVE  /\ t % SlotsPerDay \in 0..(SlotsPerDay - 1) /\ SlotsPerDay \in Nat \ {0} /\ Jitter \in Nat
           /\ \A w \in s[(t \div SlotsPerDay) % DaysPerWeek] :
                  w.start \in 0..(SlotsPerDay - 1) /\ w.end \in 0..SlotsPerDay
<1> DEFINE S == SlotsPerDay  D == DaysPerWeek  d == (t \div S) % D
<1>1. S \in Nat \ {0} /\ D \in Nat \ {0} BY CadenceAssumption
<1>2. s \in [0..(D - 1) -> SUBSET [start : 0..(S - 1), end : 0..S]] BY CadenceAssumption
<1> HIDE DEF S, D
<1>3. t \div S \in Int /\ t % S \in 0..(S - 1) BY <1>1
<1>4. d \in 0..(D - 1) BY <1>1, <1>3
<1> HIDE DEF d
<1>5. \A w \in s[d] : w \in [start : 0..(S - 1), end : 0..S] BY <1>2, <1>4
<1>6. \A w \in s[d] : w.start \in 0..(S - 1) /\ w.end \in 0..S BY <1>5
<1> QED BY <1>1, <1>3, <1>6, CadenceAssumption DEF S, D, d

(* The windows shouldBeActive widens open within one jitter of a waking  *)
(* slot, also at midnight, where the widening is cut.                    *)
LEMMA WakingNear ==
    ASSUME NEW s \in Schedules, NEW t \in Int, ShouldBeActive(s, t)
    PROVE  \E j \in -Jitter..Jitter : Waking(s, t + j)
<1> DEFINE S == SlotsPerDay
           J == Jitter
           at == t % S
           today == s[(t \div S) % DaysPerWeek]
<1>1. /\ at \in 0..(S - 1) /\ S \in Nat \ {0} /\ J \in Nat
      /\ \A w \in today : w.start \in 0..(S - 1) /\ w.end \in 0..S
  BY WindowOf
<1>2. PICK w \in today : IF w.start <= w.end
                         THEN Most(0, w.start - J) <= at /\ at <= Least(S, w.end + J)
                         ELSE Most(0, w.start - J) <= at \/ at <= Least(S, w.end + J)
  BY DEF ShouldBeActive
<1> DEFINE a == w.start  b == w.end
<1>3. a \in 0..(S - 1) /\ b \in 0..S BY <1>1
<1>4. IF a <= b THEN Most(0, a - J) <= at /\ at <= Least(S, b + J)
      ELSE Most(0, a - J) <= at \/ at <= Least(S, b + J)
  BY <1>2
<1> HIDE DEF a, b, at, S, J
<1> DEFINE InWindow(x) == x \in 0..(S - 1) /\ IF a <= b THEN x \in a..b ELSE x >= a \/ x <= b
<1>5. \E j \in -J..J : InWindow(at + j)
  <2>1. Most(0, a - J) >= a - J /\ Least(S, b + J) <= b + J BY <1>1, <1>3 DEF Most, Least
  <2>2. Most(0, a - J) \in Int /\ Least(S, b + J) \in Int BY <1>1, <1>3 DEF Most, Least
  <2>3. Most(0, a - J) <= at => a - J <= at BY <1>1, <1>3, <2>1, <2>2
  <2>4. at <= Least(S, b + J) => at <= b + J BY <1>1, <1>3, <2>1, <2>2
  <2>5. CASE a <= b /\ at < a
    <3>1. a - at \in -J..J /\ at + (a - at) = a BY <1>1, <1>3, <1>4, <2>3, <2>5
    <3>2. InWindow(at + (a - at)) BY <1>3, <2>5, <3>1
    <3> HIDE DEF InWindow
    <3> QED BY <3>1, <3>2
  <2>6. CASE a <= b /\ at > b
    <3>1. b - at \in -J..J /\ at + (b - at) = b BY <1>1, <1>3, <1>4, <2>4, <2>6
    <3>2. InWindow(at + (b - at)) BY <1>1, <1>3, <2>6, <3>1
    <3> HIDE DEF InWindow
    <3> QED BY <3>1, <3>2
  <2>7. CASE a <= b /\ at \in a..b
    <3>1. 0 \in -J..J /\ at + 0 = at BY <1>1
    <3>2. InWindow(at + (0)) BY <1>1, <1>3, <2>7, <3>1
    <3> HIDE DEF InWindow
    <3> QED BY <3>1, <3>2
  <2>8. CASE ~(a <= b) /\ (at >= a \/ at <= b)
    <3>1. 0 \in -J..J /\ at + 0 = at BY <1>1
    <3>2. InWindow(at + (0)) BY <1>1, <1>3, <2>8, <3>1
    <3> HIDE DEF InWindow
    <3> QED BY <3>1, <3>2
  <2>9. CASE ~(a <= b) /\ at < a /\ a - J <= at
    <3>1. a - at \in -J..J /\ at + (a - at) = a BY <1>1, <1>3, <2>9
    <3>2. InWindow(at + (a - at)) BY <1>3, <2>9, <3>1
    <3> HIDE DEF InWindow
    <3> QED BY <3>1, <3>2
  <2>10. CASE ~(a <= b) /\ at > b /\ at <= b + J
    <3>1. b - at \in -J..J /\ at + (b - at) = b BY <1>1, <1>3, <2>10
    <3>2. InWindow(at + (b - at)) BY <1>1, <1>3, <2>10, <3>1
    <3> HIDE DEF InWindow
    <3> QED BY <3>1, <3>2
  <2> QED BY <1>1, <1>3, <1>4, <2>3, <2>4, <2>5, <2>6, <2>7, <2>8, <2>9, <2>10
<1>6. PICK j \in -J..J : InWindow(at + j)
  BY <1>5
<1>7. j \in Int BY <1>1
<1>8. (t + j) \div S = t \div S /\ (t + j) % S = at + j BY <1>6, <1>7, SameDay DEF S, at
<1>9. Waking(s, t + j) BY <1>6, <1>8 DEF Waking, S, a, b
<1> QED BY <1>9 DEF J

(* The schedule repeats every week.                                      *)
LEMMA Weekly ==
    ASSUME NEW s, NEW t \in Int
    PROVE  Waking(s, t + SlotsPerDay * DaysPerWeek) <=> Waking(s, t)
<1> DEFINE S == SlotsPerDay  D == DaysPerWeek  u == t + S * D
<1>1. S \in Nat \ {0} /\ D \in Nat \ {0} BY CadenceAssumption
<1> HIDE DEF S, D
<1>2. S * D \in Int /\ u \in Int BY <1>1
<1>3. u \div S = (t \div S) + D BY <1>1
<1>4. u % S = t % S
  <2>1. u = ((u \div S) * S) + (u % S) /\ t = ((t \div S) * S) + (t % S) BY <1>1, <1>2
  <2>2. t \div S \in Int /\ u % S \in Int /\ t % S \in Int BY <1>1, <1>2
  <2>3. ((t \div S) + D) * S = ((t \div S) * S) + S * D BY <1>1, <2>2
  <2> DEFINE p == (t \div S) * S  q == S * D
  <2>4. u = (p + q) + (u % S) /\ u = t + q /\ t = p + (t % S) BY <1>3, <2>1, <2>3
  <2>5. p \in Int /\ q \in Int BY <1>1, <2>2
  <2> HIDE DEF p, q, u
  <2> QED BY <2>2, <2>4, <2>5
<1>5. ((t \div S) + D) % D = (t \div S) % D
  <2> DEFINE x == t \div S
  <2>1. x \in Int BY <1>1
  <2> HIDE DEF x
  <2>2. (x + D) \div D = (x \div D) + 1 BY <1>1, <2>1
  <2>3. x + D = (((x + D) \div D) * D) + ((x + D) % D) /\ x = ((x \div D) * D) + (x % D) BY <1>1, <2>1
  <2>4. x \div D \in Int /\ x % D \in Int /\ (x + D) % D \in Int BY <1>1, <2>1
  <2>5. ((x \div D) + 1) * D = ((x \div D) * D) + D BY <1>1, <2>4
  <2> DEFINE p == (x \div D) * D
  <2>6. x + D = (p + D) + ((x + D) % D) /\ x = p + (x % D) /\ p \in Int BY <1>1, <2>2, <2>3, <2>4, <2>5
  <2> HIDE DEF p
  <2>7. (x + D) % D = x % D BY <1>1, <2>1, <2>4, <2>6
  <2> QED BY <2>7 DEF x
<1>6. u % S = t % S /\ (u \div S) % D = (t \div S) % D BY <1>3, <1>4, <1>5
<1> HIDE DEF u
<1>7. Waking(s, u) <=> Waking(s, t) BY <1>6 DEF Waking, S, D
<1> QED BY <1>7 DEF u, S, D

(* Arithmetic: the next slot of the week.                                *)
LEMMA NextSlot ==
    ASSUME NEW n \in Nat \ {0}, NEW t \in 0..(n - 1)
    PROVE  (t + 1) % n \in 0..(n - 1) /\ ((t + 1) % n = t + 1 \/ (t + 1) % n = (t + 1) - n)
<1>1. CASE t + 1 < n BY <1>1
<1>2. CASE t + 1 = n
  <2>1. n % n = 0 OBVIOUS
  <2> QED BY <1>2, <2>1
<1> QED BY <1>1, <1>2

(* When the timer is set: the change that ends the sleep is within one     *)
(* jitter of a waking window, and the timer within one of the change.      *)
LEMMA TimerNearWaking ==
    ASSUME NEW s \in Schedules, NEW t \in Nat, ~ShouldBeActive(s, t), NEW d \in NextTransition(s, t)
    PROVE  /\ d \in Nat \ {0}
           /\ Changes(s, t) # {} => \E j \in -(2 * Jitter)..(2 * Jitter) : Waking(s, t + d + j)
<1> DEFINE C == Changes(s, t)
           J == Jitter
<1>1. J \in Nat /\ Recheck \in Nat \ {0} /\ Horizon \in Nat \ {0} BY CadenceAssumption
<1>2. CASE C = {} BY <1>1, <1>2 DEF NextTransition
<1>3. CASE C # {}
  <2> DEFINE n == CHOOSE n \in C : \A m \in C : n <= m
  <2>1. C \in SUBSET Nat BY <1>1 DEF Changes
  <2>2. \E x \in C : \A y \in C : x <= y
    <3> HIDE DEF C
    <3> QED BY <1>3, <2>1, LeastNumber
  <2>3. n \in C
    <3> HIDE DEF C
    <3> QED BY <2>2
  <2>4. NextTransition(s, t) = {Most(1, n + j) : j \in -J..J} BY <1>3 DEF NextTransition
  <2> HIDE DEF n
  <2>5. n \in 1..Horizon /\ ShouldBeActive(s, t + n)
    <3>1. n \in 1..Horizon /\ ShouldBeActive(s, t + n) # ShouldBeActive(s, t) BY <2>3 DEF Changes
    <3>2. ShouldBeActive(s, t + n) \in BOOLEAN /\ ShouldBeActive(s, t) \in BOOLEAN BY DEF ShouldBeActive
    <3> QED BY <3>1, <3>2
  <2> HIDE DEF C
  <2>6. n \in Nat /\ n >= 1 /\ t + n \in Int BY <1>1, <2>5
  <2>7. PICK i \in -J..J : Waking(s, (t + n) + i) BY <2>5, <2>6, WakingNear DEF J
  <2>8. PICK k \in -J..J : d = Most(1, n + k) BY <2>4
  <2> HIDE DEF J
  <2>9. i \in Int /\ k \in Int /\ -J <= i /\ i <= J /\ -J <= k /\ k <= J BY <1>1, <2>7, <2>8
  <2>10. d \in Nat \ {0} /\ (d = n + k \/ (d = 1 /\ n + k <= 1))
    BY <2>6, <2>8, <2>9 DEF Most
  <2>11. (n + i) - d \in -(2 * J)..(2 * J) BY <1>1, <2>6, <2>9, <2>10
  <2>12. (t + d) + ((n + i) - d) = (t + n) + i BY <2>6, <2>9, <2>10
  <2>13. \E j \in -(2 * J)..(2 * J) : Waking(s, t + d + j) BY <2>7, <2>11, <2>12
  <2> QED BY <2>10, <2>13 DEF J
<1> QED BY <1>2, <1>3

(* The timer has its three parts.                                        *)
Fielded == wake = [due |-> wake.due, asleep |-> wake.asleep, soon |-> wake.soon]

(* A timer that was set asleep is due near a waking window, counted from   *)
(* any week on.                                                            *)
WakesNear ==
    wake.asleep => /\ wake.due \in Nat \ {0}
                   /\ wake.soon => \E j \in -(2 * Jitter)..(2 * Jitter) :
                                      Waking(schedule, clock + wake.due + j + SlotsPerDay * DaysPerWeek)

(* The inductive invariant.                                              *)
CadenceInv ==
    /\ schedule \in Schedules /\ clock \in 0..(SlotsPerDay * DaysPerWeek - 1)
    /\ Fielded /\ WakesNear

(* It holds of a bot that has no timer, and each step keeps it.          *)
LEMMA CadenceInitHolds == CadenceInit => CadenceInv
BY DEF CadenceInit, CadenceInv, Fielded, WakesNear, NoWake

(* A failure sets the timer, asleep or not.                              *)
LEMMA ConnectFailsKeeps == CadenceInv /\ ConnectFails => CadenceInv'
<1> SUFFICES ASSUME CadenceInv, ConnectFails PROVE CadenceInv' OBVIOUS
<1> DEFINE W == SlotsPerDay * DaysPerWeek
<1>1. schedule' = schedule /\ clock' = clock /\ schedule \in Schedules /\ clock \in 0..(W - 1)
  BY DEF ConnectFails, CadenceInv
<1>2. W \in Nat \ {0} /\ Jitter \in Nat
  <2>1. SlotsPerDay \in Nat \ {0} /\ DaysPerWeek \in Nat \ {0} /\ Jitter \in Nat BY CadenceAssumption
  <2> QED BY <2>1
<1> HIDE DEF W
<1>3. \/ wake' = NoWake
      \/ \E due : wake' = [due |-> due, asleep |-> FALSE, soon |-> TRUE]
      \/ /\ ~ShouldBeActive(schedule, clock)
         /\ \E d \in NextTransition(schedule, clock) :
                wake' = [due |-> d, asleep |-> TRUE, soon |-> Changes(schedule, clock) # {}]
  BY DEF ConnectFails
<1>4. CASE wake' = NoWake BY <1>1, <1>4 DEF CadenceInv, Fielded, WakesNear, NoWake, W
<1>5. ASSUME NEW due, wake' = [due |-> due, asleep |-> FALSE, soon |-> TRUE] PROVE CadenceInv'
  BY <1>1, <1>5 DEF CadenceInv, Fielded, WakesNear, W
<1>6. ASSUME ~ShouldBeActive(schedule, clock), NEW d \in NextTransition(schedule, clock),
             wake' = [due |-> d, asleep |-> TRUE, soon |-> Changes(schedule, clock) # {}]
      PROVE  CadenceInv'
  <2>1. clock \in Nat BY <1>1, <1>2
  <2>2. d \in Nat \ {0} /\ (Changes(schedule, clock) # {} =>
            \E j \in -(2 * Jitter)..(2 * Jitter) : Waking(schedule, clock + d + j))
    BY <1>1, <1>6, <2>1, TimerNearWaking
  <2>3. wake'.due = d /\ wake'.asleep = TRUE /\ wake'.soon = (Changes(schedule, clock) # {}) /\ Fielded'
    BY <1>6 DEF Fielded
  <2>4. ASSUME NEW j \in -(2 * Jitter)..(2 * Jitter), Waking(schedule, clock + d + j)
        PROVE  Waking(schedule, clock + d + j + W)
    <3>1. clock + d + j \in Int BY <1>2, <2>1, <2>2
    <3> QED BY <2>4, <3>1, Weekly DEF W
  <2>5. wake'.soon => \E j \in -(2 * Jitter)..(2 * Jitter) : Waking(schedule', clock' + wake'.due + j + W)
    BY <1>1, <2>2, <2>3, <2>4
  <2>6. WakesNear' BY <2>2, <2>3, <2>5 DEF WakesNear, W
  <2> QED BY <1>1, <2>3, <2>6 DEF CadenceInv, W
<1> QED BY <1>3, <1>4, <1>5, <1>6

(* The timer runs down as the clock runs on, over the end of the week too.*)
LEMMA SlotPassesKeeps == CadenceInv /\ SlotPasses => CadenceInv'
<1> SUFFICES ASSUME CadenceInv, SlotPasses PROVE CadenceInv' OBVIOUS
<1> DEFINE W == SlotsPerDay * DaysPerWeek
<1>1. schedule' = schedule /\ schedule \in Schedules /\ clock \in 0..(W - 1) /\ clock' = (clock + 1) % W
  BY DEF SlotPasses, CadenceInv
<1>2. W \in Nat \ {0} /\ Jitter \in Nat
  <2>1. SlotsPerDay \in Nat \ {0} /\ DaysPerWeek \in Nat \ {0} /\ Jitter \in Nat BY CadenceAssumption
  <2> QED BY <2>1
<1> HIDE DEF W
<1>3. clock' \in 0..(W - 1) /\ (clock' = clock + 1 \/ clock' = (clock + 1) - W)
  BY <1>1, <1>2, NextSlot
<1>4. CASE wake' = NoWake BY <1>1, <1>3, <1>4 DEF CadenceInv, Fielded, WakesNear, NoWake, W
<1>5. CASE ~(wake.due <= 1) /\ wake' = [wake EXCEPT !.due = @ - 1]
  <2>1. wake' = [due |-> wake.due - 1, asleep |-> wake.asleep, soon |-> wake.soon]
    BY <1>5 DEF CadenceInv, Fielded
  <2>2. wake'.due = wake.due - 1 /\ wake'.asleep = wake.asleep /\ wake'.soon = wake.soon /\ Fielded'
    BY <2>1 DEF Fielded
  <2>3. ASSUME wake.asleep PROVE wake'.due \in Nat \ {0} /\ wake.due \in Nat
    BY <1>5, <2>2, <2>3 DEF CadenceInv, WakesNear
  <2>4. ASSUME wake.asleep, wake.soon
        PROVE  \E j \in -(2 * Jitter)..(2 * Jitter) : Waking(schedule, clock' + wake'.due + j + W)
    <3> DEFINE due == wake.due
    <3>1. PICK j \in -(2 * Jitter)..(2 * Jitter) : Waking(schedule, clock + due + j + W)
      BY <2>4 DEF CadenceInv, WakesNear, W
    <3>2. due \in Nat /\ wake'.due = due - 1 BY <2>2, <2>3, <2>4
    <3> HIDE DEF due
    <3>3. j \in Int /\ clock \in Int /\ clock + due + j + W \in Int /\ clock + due + j \in Int
      BY <1>1, <1>2, <3>2
    <3>4. CASE clock' = clock + 1
      <4>1. clock' + (due - 1) + j + W = clock + due + j + W BY <1>2, <3>2, <3>3, <3>4
      <4> QED BY <3>1, <3>2, <4>1
    <3>5. CASE clock' = (clock + 1) - W
      <4>1. clock' + (due - 1) + j + W = clock + due + j BY <1>2, <3>2, <3>3, <3>5
      <4>2. Waking(schedule, clock + due + j) BY <3>1, <3>3, Weekly DEF W
      <4> QED BY <3>2, <4>1, <4>2
    <3> QED BY <1>3, <3>4, <3>5
  <2>5. WakesNear' BY <1>1, <2>2, <2>3, <2>4 DEF WakesNear, W
  <2> QED BY <1>1, <1>3, <2>2, <2>5 DEF CadenceInv, W
<1> QED BY <1>4, <1>5 DEF SlotPasses

(* Whatever the schedule and whenever connects fail: a timer that was set  *)
(* asleep fires within two jitters of a waking window.                     *)
THEOREM SleepersDoWake == CadenceSpec => []SleepersWake
<1>1. CadenceInv /\ [CadenceNext]_cadenceVars => CadenceInv'
  <2>1. CadenceInv /\ (ConnectSucceeds \/ UNCHANGED cadenceVars) => CadenceInv'
    BY DEF ConnectSucceeds, cadenceVars, CadenceInv, Fielded, WakesNear
  <2> QED BY <2>1, ConnectFailsKeeps, SlotPassesKeeps DEF CadenceNext
<1>2. CadenceInv => SleepersWake
  <2> SUFFICES ASSUME CadenceInv, wake.due = 1, wake.asleep, wake.soon PROVE SleepersWake
    BY DEF SleepersWake
  <2> QED BY DEF CadenceInv, WakesNear, SleepersWake
<1> QED BY <1>1, <1>2, CadenceInitHolds, PTL DEF CadenceSpec

-----------------------------------------------------------------------------
(***************************************************************************)
(* Proofs about RateLimits for any number of workers, any settings and any *)
(* window.  The argument: every send of the last window gets a source and  *)
(* a number, no two the same.  The sources are two keys, one memory for    *)
(* each worker and those that were cleared, the numbers go up to the       *)
(* largest maximum of the kind, and their product is the bound.  A refusal *)
(* is answered for because the history keeps the last send for longer than *)
(* a key lives and a stamp stays in a memory.                              *)
(***************************************************************************)

(* A set of places that leaves none out before its last is an interval.    *)
LEMMA InitialPart ==
    ASSUME NEW n \in Nat, NEW S \in SUBSET (1..n), \A i \in S : \A j \in 1..i : j \in S
    PROVE  Cardinality(S) \in 0..n /\ S = 1..Cardinality(S)
<1> DEFINE c == Cardinality(S)
<1>1. IsFiniteSet(1..n) /\ \A m \in Nat : IsFiniteSet(1..m) /\ Cardinality(1..m) = m
  <2>1. ASSUME NEW m \in Nat PROVE IsFiniteSet(1..m) /\ Cardinality(1..m) = m
    <3>1. IsFiniteSet(1..m) /\ Cardinality(1..m) = IF 1 > m THEN 0 ELSE m - 1 + 1 BY FS_Interval
    <3>2. (IF 1 > m THEN 0 ELSE m - 1 + 1) = m OBVIOUS
    <3> QED BY <3>1, <3>2
  <2>2. IsFiniteSet(1..n) BY <2>1
  <2> QED BY <2>1, <2>2
<1>2. c \in 0..n /\ IsFiniteSet(S)
  <2>1. IsFiniteSet(1..n) /\ Cardinality(1..n) = n BY <1>1
  <2>2. IsFiniteSet(S) /\ c <= Cardinality(1..n) BY <2>1, FS_Subset
  <2>3. c \in Nat BY <2>2, FS_CardinalityType
  <2> HIDE DEF c
  <2> QED BY <2>1, <2>2, <2>3
<1>3. ASSUME NEW i \in S PROVE i <= c
  <2>1. 1..i \in SUBSET S /\ i \in Nat OBVIOUS
  <2>2. IsFiniteSet(S) BY <1>1, FS_Subset
  <2>3. Cardinality(1..i) <= c BY <2>1, <2>2, FS_Subset
  <2> QED BY <1>1, <2>1, <2>3
<1>4. ASSUME NEW j \in 1..c PROVE j \in S
  <2> SUFFICES ASSUME j \notin S PROVE FALSE OBVIOUS
  <2>1. S \in SUBSET (1..(j - 1))
    <3> SUFFICES ASSUME NEW i \in S PROVE i \in 1..(j - 1) OBVIOUS
    <3>1. ~(j \in 1..i) OBVIOUS
    <3> QED BY <1>2, <3>1
  <2>2. c <= j - 1
    <3>1. j - 1 \in Nat
      <4> HIDE DEF c
      <4> QED BY <1>2
    <3>2. IsFiniteSet(1..(j - 1)) /\ Cardinality(1..(j - 1)) = j - 1 BY <1>1, <3>1
    <3>3. c <= Cardinality(1..(j - 1)) BY <2>1, <3>2, FS_Subset
    <3> QED BY <3>2, <3>3
  <2> HIDE DEF c
  <2> QED BY <1>2, <2>2
<1> HIDE DEF c
<1>5. S = 1..c
  <2>1. 1..c \subseteq S BY <1>4
  <2>2. ASSUME NEW i \in S PROVE i \in 1..c
    <3>1. i \in 1..n /\ i <= c BY <1>3
    <3> QED BY <1>2, <3>1
  <2> QED BY <2>1, <2>2
<1> QED BY <1>2, <1>5 DEF c

(* The stamps of a window are in order, the oldest first.                  *)
InOrder(s, top) == s \in Seq(1..top) /\ \A i, j \in 1..Len(s) : i <= j => s[i] <= s[j]

(* A send adds the youngest stamp, which keeps the order.                  *)
LEMMA StampAdded ==
    ASSUME NEW top \in Nat \ {0}, NEW s, InOrder(s, top)
    PROVE  /\ InOrder(Append(s, top), top)
           /\ Len(s) \in Nat /\ Len(Append(s, top)) = Len(s) + 1
           /\ \A i \in 1..Len(s) : Append(s, top)[i] = s[i] /\ s[i] \in 1..top
           /\ Append(s, top)[Len(s) + 1] = top
<1> DEFINE n == Len(s)  t == Append(s, top)
<1>1. s \in Seq(1..top) /\ n \in Nat /\ top \in 1..top BY LenProperties DEF InOrder
<1>2. t \in Seq(1..top) /\ Len(t) = n + 1 /\ (\A i \in 1..n : t[i] = s[i]) /\ t[n + 1] = top
  BY <1>1, AppendProperties
<1>3. \A i \in 1..n : s[i] \in 1..top BY <1>1, ElementOfSeq
<1>4. \A i, j \in 1..n : i <= j => s[i] <= s[j] BY DEF InOrder
<1> HIDE DEF n, t
<1>5. ASSUME NEW i \in 1..(n + 1), NEW j \in 1..(n + 1), i <= j PROVE t[i] <= t[j]
  <2>1. CASE j = n + 1
    <3>1. t[i] \in 1..top /\ t[j] = top BY <1>1, <1>2, <1>3, <2>1
    <3> QED BY <3>1
  <2>2. CASE j # n + 1
    <3>1. i \in 1..n /\ j \in 1..n BY <1>1, <1>5, <2>2
    <3> QED BY <1>2, <1>4, <1>5, <3>1
  <2> QED BY <2>1, <2>2
<1>6. InOrder(t, top) BY <1>2, <1>5 DEF InOrder
<1> QED BY <1>1, <1>2, <1>3, <1>6 DEF n, t

(* One unit on: the stamps that ran out are the first ones, the rest keep  *)
(* their places relative to one another and lose one unit each.            *)
AgedBy(s, top, gone) ==
    /\ gone = Cardinality({i \in 1..Len(s) : s[i] <= 1})
    /\ Len(Alive(s)) = Len(s) - gone
    /\ \A i \in 1..Len(s) : s[i] \in 1..top /\ (s[i] <= 1 <=> i <= gone)
    /\ \A i \in 1..(Len(s) - gone) : Alive(s)[i] = s[gone + i] - 1

(* This is what Alive does to stamps in order.                             *)
LEMMA StampsAge ==
    ASSUME NEW top \in Nat \ {0}, NEW s, InOrder(s, top)
    PROVE  /\ InOrder(Alive(s), top) /\ Len(s) \in Nat
           /\ \E gone \in 0..Len(s) : AgedBy(s, top, gone)
<1> DEFINE n == Len(s)
           S == {i \in 1..n : s[i] <= 1}
           gone == Cardinality(S)
           t == [i \in 1..(n - gone) |-> s[gone + i] - 1]
<1>1. s \in Seq(1..top) /\ n \in Nat BY LenProperties DEF InOrder
<1>2. \A i \in 1..n : s[i] \in 1..top BY <1>1, ElementOfSeq
<1>3. \A i, j \in 1..n : i <= j => s[i] <= s[j] BY DEF InOrder
<1>4. Alive(s) = t BY DEF Alive
<1> HIDE DEF n
<1>5. gone \in 0..n /\ S = 1..gone
  <2>1. ASSUME NEW i \in S, NEW j \in 1..i PROVE j \in S
    <3>1. i \in 1..n /\ j \in 1..n /\ j <= i /\ s[i] <= 1 BY <1>1
    <3>2. s[j] <= s[i] /\ s[i] \in 1..top /\ s[j] \in 1..top BY <1>2, <1>3, <3>1
    <3>3. s[j] <= 1 BY <3>1, <3>2
    <3> QED BY <3>1, <3>3
  <2>2. S \in SUBSET (1..n) OBVIOUS
  <2> HIDE DEF S
  <2> QED BY <1>1, <2>1, <2>2, InitialPart
<1>6. \A i \in 1..n : s[i] <= 1 <=> i <= gone
  <2>1. \A i \in 1..n : s[i] <= 1 <=> i \in S OBVIOUS
  <2> HIDE DEF S, gone
  <2> QED BY <1>1, <1>5, <2>1
<1> HIDE DEF S, gone
<1>7. ASSUME NEW i \in 1..(n - gone) PROVE gone + i \in 1..n /\ s[gone + i] - 1 \in 1..top
  <2>1. gone + i \in 1..n /\ ~(gone + i <= gone) BY <1>1, <1>5
  <2>2. ~(s[gone + i] <= 1) /\ s[gone + i] \in 1..top BY <1>2, <1>6, <2>1
  <2> QED BY <2>1, <2>2
<1>8. n - gone \in Nat BY <1>1, <1>5
<1>9. t \in Seq(1..top) /\ Len(t) = n - gone
  <2>1. t \in [1..(n - gone) -> 1..top] BY <1>7
  <2> QED BY <1>8, <2>1, SeqDef, LenProperties
<1>10. ASSUME NEW i \in 1..(n - gone), NEW j \in 1..(n - gone), i <= j PROVE t[i] <= t[j]
  <2>1. s[gone + i] <= s[gone + j]
    <3>1. gone + i <= gone + j BY <1>5, <1>8, <1>10
    <3> QED BY <1>3, <1>7, <3>1
  <2>2. s[gone + i] \in 1..top /\ s[gone + j] \in 1..top BY <1>2, <1>7
  <2> QED BY <2>1, <2>2
<1>11. \A i \in 1..(n - gone) : t[i] = s[gone + i] - 1 OBVIOUS
<1> HIDE DEF t
<1>12. InOrder(t, top) BY <1>9, <1>10 DEF InOrder
<1>13. AgedBy(s, top, gone) BY <1>2, <1>4, <1>6, <1>9, <1>11 DEF n, S, gone, AgedBy
<1> QED BY <1>1, <1>4, <1>5, <1>12, <1>13 DEF n

(* What lets a send through: the key that is alive, the key before it, the *)
(* memory of a limiter that is in use, and memory that went with a cleared *)
(* cache.                                                                  *)
CurrentKey == <<"counter", 1>>
OldKey == <<"counter", 2>>
MemoryOf(r) == <<"memory", r>>
LostMemory(n) == <<"cleared", n>>
SendSources(cleared) ==
    ({"counter"} \X (1..2)) \cup ({"memory"} \X Replica) \cup ({"cleared"} \X (1..cleared))

(* The sends of the last window of time.                                   *)
Recent(sent) == {i \in 1..Len(sent) : sent[i] > LimitWindow}

(* Each recent send has a source S[i] and a number N[i] that its source    *)
(* gave to no other: the key's count, or the place in the memory.  What    *)
(* came from the key before this one is older than this one.               *)
Attributed(S, N, sent, key, mem, cleared, max) ==
    /\ \A i \in Recent(sent) :
         /\ S[i] \in SendSources(cleared) /\ N[i] \in 1..max
         /\ S[i] = CurrentKey => key.left > 0 /\ N[i] <= key.count
         /\ S[i] = OldKey => /\ sent[i] < 2 * LimitWindow
                             /\ key.left > 0 => sent[i] < LimitWindow + key.left
         /\ \A r \in Replica : S[i] = MemoryOf(r) => N[i] <= Len(mem[r]) /\ sent[i] = LimitWindow + mem[r][N[i]]
    /\ \A i, j \in Recent(sent) : S[i] = S[j] /\ N[i] = N[j] => i = j

(* A Redis key, alive or not.                                              *)
KeyType == [count : Nat, left : 0..LimitWindow]

(* The sources are different from one another, and new memory is a new     *)
(* source.                                                                 *)
LEMMA SourcesDiffer ==
    /\ CurrentKey # OldKey
    /\ \A r : MemoryOf(r) # CurrentKey /\ MemoryOf(r) # OldKey
    /\ \A q, r : MemoryOf(q) = MemoryOf(r) => q = r
    /\ \A n : LostMemory(n) # CurrentKey /\ LostMemory(n) # OldKey /\ \A r : LostMemory(n) # MemoryOf(r)
    /\ \A cleared \in Nat : /\ CurrentKey \in SendSources(cleared) /\ OldKey \in SendSources(cleared)
                         /\ \A r \in Replica : MemoryOf(r) \in SendSources(cleared)
                         /\ LostMemory(cleared + 1) \notin SendSources(cleared)
                         /\ LostMemory(cleared + 1) \in SendSources(cleared + 1)
                         /\ SendSources(cleared) \subseteq SendSources(cleared + 1)
BY DEF CurrentKey, OldKey, MemoryOf, LostMemory, SendSources

(* A counted call: a new key lives for one window and has count 1, an old  *)
(* one keeps its life and counts on.                                       *)
CountsOn(key, largest, next) ==
    /\ next \in KeyType /\ next.left > 0 /\ next.count >= 1
    /\ key.left = 0 => next.count = 1 /\ next.left = LimitWindow
    /\ key.left > 0 => next.left = key.left /\ key.count <= next.count
    /\ key.left > 0 /\ next.count <= largest => next.count = key.count + 1
    /\ key.left \in Nat /\ key.count \in Nat /\ next.left \in Nat /\ next.count \in Nat

(* This is what incrementAtomic does.                                      *)
LEMMA KeyCounts ==
    ASSUME NEW key \in KeyType, NEW largest \in Nat
    PROVE  CountsOn(key, largest, Incremented(key, largest))
<1> DEFINE next == Incremented(key, largest)
<1>0. next = Incremented(key, largest) OBVIOUS
<1> HIDE DEF next
<1>1. LimitWindow \in Nat \ {0} BY LimitAssumption
<1>2. key.count \in Nat /\ key.left \in 0..LimitWindow /\ key = [count |-> key.count, left |-> key.left]
  BY DEF KeyType
<1> DEFINE left == key.left  count == key.count
<1>3. ASSUME left = 0 PROVE CountsOn(key, largest, next)
  <2>1. next = [count |-> 1, left |-> LimitWindow] BY <1>0, <1>3 DEF Incremented
  <2>2. next.count = 1 /\ next.left = LimitWindow /\ next \in KeyType BY <1>1, <2>1 DEF KeyType
  <2> QED BY <1>1, <1>2, <1>3, <2>2 DEF CountsOn
<1>4. ASSUME left # 0 PROVE CountsOn(key, largest, next)
  <2>1. next = [count |-> IF count > largest THEN count ELSE count + 1, left |-> left]
    BY <1>0, <1>2, <1>4 DEF Incremented
  <2>2. next.left = left /\ next.count = (IF count > largest THEN count ELSE count + 1)
    BY <2>1
  <2> HIDE DEF count, left
  <2>3. next.count \in Nat /\ (next.count = count + 1 \/ (next.count = count /\ count > largest))
        /\ next.count >= 1
    BY <1>2, <2>2 DEF count
  <2>4. next \in KeyType BY <1>2, <2>1, <2>2, <2>3 DEF KeyType, left
  <2>5. left \in Nat /\ left > 0 /\ count \in Nat BY <1>1, <1>2, <1>4 DEF left, count
  <2>6. next.left = left /\ count <= next.count /\ (next.count <= largest => next.count = count + 1)
    BY <2>2, <2>3, <2>5
  <2> QED BY <1>4, <2>2, <2>3, <2>4, <2>5, <2>6 DEF left, count, CountsOn
<1>5. CountsOn(key, largest, next) BY <1>3, <1>4
<1> QED BY <1>5 DEF next

(* A call that is counted and lets nothing through leaves the sends        *)
(* attributed.                                                             *)
LEMMA CountedStill ==
    ASSUME NEW S, NEW N, NEW sent, NEW key \in KeyType, NEW mem, NEW cleared, NEW max \in Nat, NEW largest \in Nat,
           NEW next, next = Incremented(key, largest),
           InOrder(sent, 2 * LimitWindow), Attributed(S, N, sent, key, mem, cleared, max)
    PROVE  Attributed(S, N, sent, next, mem, cleared, max)
<1> DEFINE W == LimitWindow
<1>1. W \in Nat \ {0} BY LimitAssumption
<1>2. /\ next.left \in Nat /\ next.count \in Nat /\ key.left \in Nat /\ key.count \in Nat /\ next.left > 0
      /\ key.left = 0 => next.left = LimitWindow
      /\ key.left > 0 => next.left = key.left /\ key.count <= next.count
  <2>1. CountsOn(key, largest, next) BY KeyCounts
  <2> QED BY <2>1 DEF CountsOn
<1>3. \A i \in Recent(sent) : sent[i] \in Nat
  <2>1. sent \in Seq(1..(2 * W)) BY DEF InOrder
  <2>2. \A i \in 1..Len(sent) : sent[i] \in 1..(2 * W) BY <2>1, ElementOfSeq
  <2> QED BY <2>2 DEF Recent
<1> HIDE DEF W
<1>4. ASSUME NEW i \in Recent(sent)
      PROVE  /\ S[i] = CurrentKey => next.left > 0 /\ N[i] <= next.count
             /\ S[i] = OldKey => sent[i] < 2 * W /\ (next.left > 0 => sent[i] < W + next.left)
  <2>1. /\ N[i] \in 1..max
        /\ S[i] = CurrentKey => key.left > 0 /\ N[i] <= key.count
        /\ S[i] = OldKey => sent[i] < 2 * W /\ (key.left > 0 => sent[i] < W + key.left)
    BY DEF Attributed, W
  <2>2. S[i] = CurrentKey => N[i] <= next.count BY <1>2, <2>1
  <2>3. S[i] = OldKey => sent[i] < W + next.left BY <1>1, <1>2, <1>3, <2>1 DEF W
  <2> QED BY <1>2, <2>1, <2>2, <2>3
<1> QED BY <1>4 DEF Attributed, W

(* A send is recent.                                                       *)
LEMMA RecentAdded ==
    ASSUME NEW sent, InOrder(sent, 2 * LimitWindow)
    PROVE  LET more == Append(sent, 2 * LimitWindow)
           IN  /\ Len(sent) \in Nat
               /\ Recent(more) = Recent(sent) \cup {Len(sent) + 1} /\ Len(sent) + 1 \notin Recent(sent)
               /\ \A i \in Recent(sent) : more[i] = sent[i]
               /\ more[Len(sent) + 1] = 2 * LimitWindow
<1> DEFINE W == LimitWindow
           n == Len(sent)
           more == Append(sent, 2 * W)
<1>1. W \in Nat \ {0} /\ 2 * W \in Nat \ {0} /\ 2 * W > W BY LimitAssumption
<1>2. n \in Nat /\ Len(more) = n + 1 /\ (\A i \in 1..n : more[i] = sent[i]) /\ more[n + 1] = 2 * W
  BY <1>1, StampAdded
<1> HIDE DEF more, n, W
<1>3. {i \in 1..(n + 1) : more[i] > W} = {i \in 1..n : sent[i] > W} \cup {n + 1}
  <2>1. \A i \in 1..(n + 1) : i \in 1..n \/ i = n + 1 BY <1>2
  <2>2. n + 1 \in 1..(n + 1) /\ \A i \in 1..n : i \in 1..(n + 1) BY <1>2
  <2> QED BY <1>1, <1>2, <2>1, <2>2
<1>4. n + 1 \notin 1..n BY <1>2
<1>5. Recent(more) = Recent(sent) \cup {n + 1} /\ n + 1 \notin Recent(sent)
  BY <1>2, <1>3, <1>4 DEF Recent, W, n
<1>6. \A i \in Recent(sent) : more[i] = sent[i] BY <1>2 DEF Recent, n
<1> QED BY <1>2, <1>5, <1>6 DEF more, n, W

(* A send the key lets through gets the key's count for its number.        *)
LEMMA CounterSends ==
    ASSUME NEW S, NEW N, NEW sent, NEW key \in KeyType, NEW mem, NEW cleared \in Nat, NEW max \in Nat,
           NEW largest \in Nat, NEW bound \in Nat, bound <= max, bound <= largest,
           NEW next, next = Incremented(key, largest), next.count <= bound,
           InOrder(sent, 2 * LimitWindow), Attributed(S, N, sent, key, mem, cleared, max)
    PROVE  \E S2, N2 : Attributed(S2, N2, Append(sent, 2 * LimitWindow), next, mem, cleared, max)
<1> DEFINE n == Len(sent)
           more == Append(sent, 2 * LimitWindow)
           S2 == [i \in 1..(n + 1) |-> IF i = n + 1 THEN CurrentKey ELSE S[i]]
           N2 == [i \in 1..(n + 1) |-> IF i = n + 1 THEN next.count ELSE N[i]]
<1>1. Attributed(S, N, sent, next, mem, cleared, max) BY CountedStill
<1>2. /\ next.count \in Nat /\ next.left > 0 /\ key.left \in Nat /\ key.count \in Nat /\ next.count >= 1
      /\ key.left > 0 /\ next.count <= largest => next.count = key.count + 1
  <2>1. CountsOn(key, largest, next) BY KeyCounts
  <2> QED BY <2>1 DEF CountsOn
<1>3. /\ Recent(more) = Recent(sent) \cup {n + 1} /\ n + 1 \notin Recent(sent) /\ n \in Nat
      /\ \A i \in Recent(sent) : more[i] = sent[i] /\ i \in 1..n
  BY RecentAdded DEF Recent
<1>4. \A i \in Recent(sent) : S[i] = CurrentKey => key.left > 0 /\ N[i] <= key.count /\ N[i] \in Nat
  BY DEF Attributed
<1>11. next.count <= max /\ next.count <= largest BY <1>2
<1>5. \A i \in Recent(sent) : S[i] = CurrentKey => N[i] # next.count BY <1>2, <1>4, <1>11
<1>6. next.count \in 1..max BY <1>2, <1>11
<1>7. S2[n + 1] = CurrentKey /\ N2[n + 1] = next.count /\ \A i \in Recent(sent) : S2[i] = S[i] /\ N2[i] = N[i]
  <2>1. \A i \in 1..(n + 1) : S2[i] = (IF i = n + 1 THEN CurrentKey ELSE S[i])
                              /\ N2[i] = (IF i = n + 1 THEN next.count ELSE N[i])
    OBVIOUS
  <2>2. n + 1 \in 1..(n + 1) /\ \A i \in Recent(sent) : i \in 1..(n + 1) /\ i # n + 1 BY <1>3
  <2> HIDE DEF S2, N2
  <2> QED BY <2>1, <2>2
<1> HIDE DEF more, n, S2, N2
<1>8. ASSUME NEW i \in Recent(more)
      PROVE  /\ S2[i] \in SendSources(cleared) /\ N2[i] \in 1..max
             /\ S2[i] = CurrentKey => next.left > 0 /\ N2[i] <= next.count
             /\ S2[i] = OldKey => /\ more[i] < 2 * LimitWindow
                                  /\ next.left > 0 => more[i] < LimitWindow + next.left
             /\ \A r \in Replica : S2[i] = MemoryOf(r) =>
                    N2[i] <= Len(mem[r]) /\ more[i] = LimitWindow + mem[r][N2[i]]
  <2>1. CASE i = n + 1
    <3>1. CurrentKey \in SendSources(cleared) /\ CurrentKey # OldKey /\ \A r : MemoryOf(r) # CurrentKey
      BY SourcesDiffer
    <3>2. S2[i] = CurrentKey /\ N2[i] = next.count /\ next.left > 0 /\ next.count \in 1..max
      BY <1>2, <1>6, <1>7, <2>1
    <3>3. N2[i] <= next.count BY <3>2
    <3> QED BY <3>1, <3>2, <3>3
  <2>2. CASE i \in Recent(sent)
    <3>1. S2[i] = S[i] /\ N2[i] = N[i] /\ more[i] = sent[i] BY <1>3, <1>7, <2>2
    <3> QED BY <1>1, <2>2, <3>1 DEF Attributed
  <2> QED BY <1>3, <2>1, <2>2
<1>9. ASSUME NEW i \in Recent(more), NEW j \in Recent(more), S2[i] = S2[j], N2[i] = N2[j] PROVE i = j
  <2>1. ASSUME NEW k \in Recent(sent) PROVE ~(S2[k] = S2[n + 1] /\ N2[k] = N2[n + 1])
    BY <1>5, <1>7, <2>1
  <2>2. CASE i \in Recent(sent) /\ j \in Recent(sent)
    <3>1. S[i] = S[j] /\ N[i] = N[j] BY <1>7, <1>9, <2>2
    <3> QED BY <2>2, <3>1 DEF Attributed
  <2> QED BY <1>3, <1>9, <2>1, <2>2
<1>10. Attributed(S2, N2, more, next, mem, cleared, max) BY <1>8, <1>9 DEF Attributed
<1> QED BY <1>10 DEF more

(* A send a limiter's memory lets through gets its place there for its     *)
(* number.                                                                 *)
LEMMA MemorySends ==
    ASSUME NEW S, NEW N, NEW sent, NEW key, NEW mem, NEW cleared \in Nat, NEW max \in Nat,
           NEW q \in Replica, DOMAIN mem = Replica, InOrder(mem[q], LimitWindow), Len(mem[q]) < max,
           InOrder(sent, 2 * LimitWindow), Attributed(S, N, sent, key, mem, cleared, max)
    PROVE  \E S2, N2 : Attributed(S2, N2, Append(sent, 2 * LimitWindow), key,
                                  [mem EXCEPT ![q] = Append(@, LimitWindow)], cleared, max)
<1> DEFINE W == LimitWindow
           n == Len(sent)
           l == Len(mem[q])
           more == Append(sent, 2 * W)
           mem2 == [mem EXCEPT ![q] = Append(@, W)]
           S2 == [i \in 1..(n + 1) |-> IF i = n + 1 THEN MemoryOf(q) ELSE S[i]]
           N2 == [i \in 1..(n + 1) |-> IF i = n + 1 THEN l + 1 ELSE N[i]]
<1>1. W \in Nat \ {0} /\ 2 * W = W + W BY LimitAssumption
<1>2. /\ l \in Nat /\ Len(Append(mem[q], W)) = l + 1 /\ Append(mem[q], W)[l + 1] = W
      /\ \A i \in 1..l : Append(mem[q], W)[i] = mem[q][i]
  BY <1>1, StampAdded
<1>3. /\ Recent(more) = Recent(sent) \cup {n + 1} /\ n + 1 \notin Recent(sent) /\ n \in Nat
      /\ more[n + 1] = 2 * W
      /\ \A i \in Recent(sent) : more[i] = sent[i] /\ i \in 1..n
  BY RecentAdded DEF Recent
<1>4. mem2[q] = Append(mem[q], W) /\ \A r \in Replica : r # q => mem2[r] = mem[r] OBVIOUS
<1>5. Len(mem2[q]) = l + 1 /\ mem2[q][l + 1] = W /\ \A i \in 1..l : mem2[q][i] = mem[q][i]
  BY <1>2, <1>4
<1>6. l + 1 \in 1..max BY <1>2
<1>7. S2[n + 1] = MemoryOf(q) /\ N2[n + 1] = l + 1 /\ \A i \in Recent(sent) : S2[i] = S[i] /\ N2[i] = N[i]
  <2>1. \A i \in 1..(n + 1) : S2[i] = (IF i = n + 1 THEN MemoryOf(q) ELSE S[i])
                              /\ N2[i] = (IF i = n + 1 THEN l + 1 ELSE N[i])
    OBVIOUS
  <2>2. n + 1 \in 1..(n + 1) /\ \A i \in Recent(sent) : i \in 1..(n + 1) /\ i # n + 1 BY <1>3
  <2> HIDE DEF S2, N2
  <2> QED BY <2>1, <2>2
<1>8. \A i \in Recent(sent) : S[i] = MemoryOf(q) => N[i] <= l /\ N[i] \in 1..l
  <2>1. \A i \in Recent(sent) : N[i] \in 1..max /\ (S[i] = MemoryOf(q) => N[i] <= l) BY DEF Attributed
  <2> HIDE DEF l
  <2> QED BY <1>2, <2>1
<1> HIDE DEF more, n, l, mem2, S2, N2, W
<1>9. ASSUME NEW i \in Recent(more)
      PROVE  /\ S2[i] \in SendSources(cleared) /\ N2[i] \in 1..max
             /\ S2[i] = CurrentKey => key.left > 0 /\ N2[i] <= key.count
             /\ S2[i] = OldKey => /\ more[i] < 2 * LimitWindow
                                  /\ key.left > 0 => more[i] < LimitWindow + key.left
             /\ \A r \in Replica : S2[i] = MemoryOf(r) =>
                    N2[i] <= Len(mem2[r]) /\ more[i] = LimitWindow + mem2[r][N2[i]]
  <2>1. CASE i = n + 1
    <3>1. MemoryOf(q) \in SendSources(cleared) /\ MemoryOf(q) # OldKey /\ MemoryOf(q) # CurrentKey
          /\ \A r : MemoryOf(q) = MemoryOf(r) => q = r
      BY SourcesDiffer
    <3>2. S2[i] = MemoryOf(q) /\ N2[i] = l + 1 /\ more[i] = 2 * W BY <1>3, <1>7, <2>1
    <3>3. N2[i] <= Len(mem2[q]) /\ more[i] = W + mem2[q][N2[i]] BY <1>1, <1>2, <1>5, <3>2
    <3> QED BY <1>6, <3>1, <3>2, <3>3 DEF W
  <2>2. CASE i \in Recent(sent)
    <3>1. S2[i] = S[i] /\ N2[i] = N[i] /\ more[i] = sent[i] BY <1>3, <1>7, <2>2
    <3>2. ASSUME NEW r \in Replica, S[i] = MemoryOf(r)
          PROVE  N[i] <= Len(mem2[r]) /\ sent[i] = W + mem2[r][N[i]]
      <4>1. N[i] <= Len(mem[r]) /\ sent[i] = W + mem[r][N[i]] /\ N[i] \in 1..max
        BY <2>2, <3>2 DEF Attributed, W
      <4>2. CASE r = q
        <5>1. N[i] \in 1..l BY <1>8, <2>2, <3>2, <4>2
        <5> QED BY <1>2, <1>5, <4>1, <4>2, <5>1
      <4>3. CASE r # q BY <1>4, <4>1, <4>3
      <4> QED BY <4>2, <4>3
    <3> QED BY <2>2, <3>1, <3>2 DEF Attributed, W
  <2> QED BY <1>3, <2>1, <2>2
<1>10. ASSUME NEW i \in Recent(more), NEW j \in Recent(more), S2[i] = S2[j], N2[i] = N2[j] PROVE i = j
  <2>1. ASSUME NEW k \in Recent(sent) PROVE ~(S2[k] = S2[n + 1] /\ N2[k] = N2[n + 1])
    <3>1. S[k] = MemoryOf(q) => N[k] \in 1..l BY <1>8
    <3>2. ~(l + 1 \in 1..l) BY <1>2
    <3> QED BY <1>7, <3>1, <3>2
  <2>2. CASE i \in Recent(sent) /\ j \in Recent(sent)
    <3>1. S[i] = S[j] /\ N[i] = N[j] BY <1>7, <1>10, <2>2
    <3> QED BY <2>2, <3>1 DEF Attributed
  <2> QED BY <1>3, <1>10, <2>1, <2>2
<1>11. Attributed(S2, N2, more, key, mem2, cleared, max) BY <1>9, <1>10 DEF Attributed
<1> QED BY <1>11 DEF more, mem2, W

(* Sends of a memory that is cleared get a source of their own: the        *)
(* fallback starts again from nothing.                                     *)
LEMMA MemoryLost ==
    ASSUME NEW S, NEW N, NEW sent, NEW key, NEW mem, NEW cleared \in Nat, NEW max \in Nat,
           NEW q \in Replica, DOMAIN mem = Replica, Attributed(S, N, sent, key, mem, cleared, max)
    PROVE  \E S2, N2 : Attributed(S2, N2, sent, key, [mem EXCEPT ![q] = <<>>], cleared + 1, max)
<1> DEFINE mem2 == [mem EXCEPT ![q] = <<>>]
           S2 == [i \in Recent(sent) |-> IF S[i] = MemoryOf(q) THEN LostMemory(cleared + 1) ELSE S[i]]
<1>1. \A r \in Replica : r # q => mem2[r] = mem[r] OBVIOUS
<1>2. \A i \in Recent(sent) : S2[i] = IF S[i] = MemoryOf(q) THEN LostMemory(cleared + 1) ELSE S[i] OBVIOUS
<1>3. /\ LostMemory(cleared + 1) # CurrentKey /\ LostMemory(cleared + 1) # OldKey
      /\ \A r : LostMemory(cleared + 1) # MemoryOf(r)
      /\ LostMemory(cleared + 1) \notin SendSources(cleared) /\ LostMemory(cleared + 1) \in SendSources(cleared + 1)
      /\ SendSources(cleared) \subseteq SendSources(cleared + 1)
  BY SourcesDiffer
<1>4. \A i \in Recent(sent) : S[i] \in SendSources(cleared) BY DEF Attributed
<1> HIDE DEF mem2, S2
<1>5. ASSUME NEW i \in Recent(sent)
      PROVE  /\ S2[i] \in SendSources(cleared + 1) /\ N[i] \in 1..max
             /\ S2[i] = CurrentKey => key.left > 0 /\ N[i] <= key.count
             /\ S2[i] = OldKey => /\ sent[i] < 2 * LimitWindow
                                  /\ key.left > 0 => sent[i] < LimitWindow + key.left
             /\ \A r \in Replica : S2[i] = MemoryOf(r) =>
                    N[i] <= Len(mem2[r]) /\ sent[i] = LimitWindow + mem2[r][N[i]]
  <2>1. CASE S[i] = MemoryOf(q)
    <3>1. S2[i] = LostMemory(cleared + 1) BY <1>2, <2>1
    <3>2. N[i] \in 1..max BY DEF Attributed
    <3> QED BY <1>3, <3>1, <3>2
  <2>2. CASE S[i] # MemoryOf(q)
    <3>1. S2[i] = S[i] BY <1>2, <2>2
    <3>2. ASSUME NEW r \in Replica, S[i] = MemoryOf(r) PROVE mem2[r] = mem[r] BY <1>1, <2>2, <3>2
    <3> QED BY <1>3, <1>4, <3>1, <3>2 DEF Attributed
  <2> QED BY <2>1, <2>2
<1>6. ASSUME NEW i \in Recent(sent), NEW j \in Recent(sent), S2[i] = S2[j], N[i] = N[j] PROVE i = j
  <2>1. S[i] = S[j] BY <1>2, <1>3, <1>4, <1>6
  <2> QED BY <1>6, <2>1 DEF Attributed
<1>7. Attributed(S2, N, sent, key, mem2, cleared + 1, max) BY <1>5, <1>6 DEF Attributed
<1> QED BY <1>7 DEF mem2

(* Arithmetic: a larger factor.                                            *)
LEMMA Products == ASSUME NEW k \in Nat, NEW m \in Nat, NEW n \in Nat, k <= m PROVE k * n <= m * n /\ k * n \in Nat /\ m * n \in Nat
OBVIOUS

(* Sources times numbers: so many recent sends there may be.               *)
LEMMA AttributedBound ==
    ASSUME NEW S, NEW N, NEW sent, NEW key, NEW mem, NEW cleared \in Nat, NEW max \in Nat,
           Attributed(S, N, sent, key, mem, cleared, max)
    PROVE  Cardinality(Recent(sent)) <= (2 + Cardinality(Replica) + cleared) * max
<1> DEFINE f == [i \in Recent(sent) |-> <<S[i], N[i]>>]
           T == SendSources(cleared) \X (1..max)
<1>1. f \in Injection(Recent(sent), T)
  <2>1. f \in [Recent(sent) -> T] BY DEF Attributed
  <2>2. ASSUME NEW i \in Recent(sent), NEW j \in Recent(sent), f[i] = f[j] PROVE i = j
    <3>1. S[i] = S[j] /\ N[i] = N[j] BY <2>2
    <3> QED BY <3>1 DEF Attributed
  <2> HIDE DEF f, T
  <2> QED BY <2>1, <2>2 DEF Injection, IsInjective
<1>2. IsFiniteSet(Replica) /\ Cardinality(Replica) \in Nat BY LimitAssumption, FS_CardinalityType
<1>3. \A n \in Nat : IsFiniteSet(1..n) /\ Cardinality(1..n) = n
  <2>1. ASSUME NEW n \in Nat PROVE IsFiniteSet(1..n) /\ Cardinality(1..n) = n
    <3>1. IsFiniteSet(1..n) /\ Cardinality(1..n) = IF 1 > n THEN 0 ELSE n - 1 + 1 BY FS_Interval
    <3>2. (IF 1 > n THEN 0 ELSE n - 1 + 1) = n OBVIOUS
    <3> QED BY <3>1, <3>2
  <2> QED BY <2>1
<1>4. \A x : IsFiniteSet({x}) /\ Cardinality({x}) = 1 BY FS_Singleton
<1> DEFINE A == {"counter"} \X (1..2)
           B == {"memory"} \X Replica
           C == {"cleared"} \X (1..cleared)
<1>5. IsFiniteSet(A) /\ Cardinality(A) = 2 /\ IsFiniteSet(B) /\ Cardinality(B) = Cardinality(Replica)
      /\ IsFiniteSet(C) /\ Cardinality(C) = cleared
  <2>1. IsFiniteSet(A) /\ Cardinality(A) = 1 * 2
    <3>1. IsFiniteSet(1..2) /\ Cardinality(1..2) = 2 BY <1>3
    <3>2. Cardinality(A) = Cardinality({"counter"}) * Cardinality(1..2) /\ IsFiniteSet(A)
      BY <1>4, <3>1, FS_Product
    <3> QED BY <1>4, <3>1, <3>2
  <2>2. IsFiniteSet(B) /\ Cardinality(B) = 1 * Cardinality(Replica)
    <3>1. Cardinality(B) = Cardinality({"memory"}) * Cardinality(Replica) /\ IsFiniteSet(B)
      BY <1>2, <1>4, FS_Product
    <3> QED BY <1>4, <3>1
  <2>3. IsFiniteSet(C) /\ Cardinality(C) = 1 * cleared
    <3>1. IsFiniteSet(1..cleared) /\ Cardinality(1..cleared) = cleared BY <1>3
    <3>2. Cardinality(C) = Cardinality({"cleared"}) * Cardinality(1..cleared) /\ IsFiniteSet(C)
      BY <1>4, <3>1, FS_Product
    <3> QED BY <1>4, <3>1, <3>2
  <2> HIDE DEF A, B, C
  <2> QED BY <1>2, <2>1, <2>2, <2>3
<1>6. SendSources(cleared) = (A \cup B) \cup C BY DEF SendSources
<1> HIDE DEF A, B, C
<1>7. IsFiniteSet(SendSources(cleared)) /\ Cardinality(SendSources(cleared)) <= 2 + Cardinality(Replica) + cleared
      /\ Cardinality(SendSources(cleared)) \in Nat
  <2>1. IsFiniteSet(A \cup B) /\ Cardinality(A \cup B) = Cardinality(A) + Cardinality(B) - Cardinality(A \cap B)
    BY <1>5, FS_Union
  <2>2. IsFiniteSet((A \cup B) \cup C)
        /\ Cardinality((A \cup B) \cup C) = Cardinality(A \cup B) + Cardinality(C) - Cardinality((A \cup B) \cap C)
    BY <1>5, <2>1, FS_Union
  <2>3. A \cap B \in SUBSET A /\ (A \cup B) \cap C \in SUBSET C OBVIOUS
  <2>4. Cardinality(A \cap B) \in Nat /\ Cardinality((A \cup B) \cap C) \in Nat
    BY <1>5, <2>3, FS_Subset, FS_CardinalityType
  <2>5. Cardinality((A \cup B) \cup C) \in Nat BY <2>2, FS_CardinalityType
  <2> QED BY <1>2, <1>5, <1>6, <2>1, <2>2, <2>4, <2>5
<1>8. IsFiniteSet(T) /\ Cardinality(T) = Cardinality(SendSources(cleared)) * max
  <2>1. IsFiniteSet(1..max) /\ Cardinality(1..max) = max BY <1>3
  <2>2. IsFiniteSet(T) /\ Cardinality(T) = Cardinality(SendSources(cleared)) * Cardinality(1..max)
    BY <1>7, <2>1, FS_Product
  <2> QED BY <2>1, <2>2
<1> HIDE DEF f, T
<1>9. Cardinality(Recent(sent)) <= Cardinality(T) /\ Cardinality(Recent(sent)) \in Nat
  BY <1>1, <1>8, FS_Injection, FS_CardinalityType
<1>10. Cardinality(SendSources(cleared)) * max <= (2 + Cardinality(Replica) + cleared) * max
  BY ONLY <1>2, <1>7, max \in Nat, cleared \in Nat, Products
<1> QED BY <1>2, <1>7, <1>8, <1>9, <1>10

(* One unit on: the key loses one, and is gone with the last.              *)
KeyAged(key) == IF key.left <= 1 THEN [count |-> 0, left |-> 0] ELSE [key EXCEPT !.left = @ - 1]

(* The parts of a key that has aged.                                       *)
LEMMA KeyAges ==
    ASSUME NEW key \in KeyType, NEW next, next = KeyAged(key)
    PROVE  /\ next \in KeyType /\ key.left \in Nat /\ key.count \in Nat /\ next.left \in Nat /\ next.count \in Nat
           /\ key.left <= 1 => next.left = 0
           /\ key.left > 1 => next.left = key.left - 1 /\ next.count = key.count
<1>1. LimitWindow \in Nat \ {0} BY LimitAssumption
<1>2. key.count \in Nat /\ key.left \in 0..LimitWindow /\ key = [count |-> key.count, left |-> key.left]
  BY DEF KeyType
<1> DEFINE left == key.left  count == key.count
<1>3. left \in Nat /\ left <= LimitWindow /\ count \in Nat BY <1>1, <1>2
<1>4. CASE left <= 1
  <2>1. next = [count |-> 0, left |-> 0] BY <1>4 DEF KeyAged
  <2>2. next.count = 0 /\ next.left = 0 /\ next \in KeyType BY <1>1, <2>1 DEF KeyType
  <2> HIDE DEF left, count
  <2>3. ~(left > 1) BY <1>3, <1>4
  <2> QED BY <1>3, <2>2, <2>3 DEF left, count
<1>5. CASE ~(left <= 1)
  <2>1. next = [count |-> count, left |-> left - 1] BY <1>2, <1>5 DEF KeyAged
  <2>2. next.count = count /\ next.left = left - 1 BY <2>1
  <2> HIDE DEF left, count
  <2>3. left - 1 \in 0..LimitWindow /\ left - 1 \in Nat BY <1>1, <1>3, <1>5
  <2>4. next \in KeyType BY <1>3, <2>1, <2>3 DEF KeyType
  <2> QED BY <1>3, <1>5, <2>2, <2>3, <2>4 DEF left, count
<1> QED BY <1>4, <1>5

(* Ageing keeps the sends attributed: stamps in a memory and of its sends  *)
(* run out together, and a key that is gone hands its sends to the key     *)
(* before it, whose own have left the window by then.                      *)
LEMMA AttributedAges ==
    ASSUME NEW S, NEW N, NEW sent, NEW key \in KeyType, NEW mem, NEW cleared \in Nat, NEW max \in Nat,
           NEW next, next = KeyAged(key),
           \A r \in Replica : InOrder(mem[r], LimitWindow),
           InOrder(sent, 2 * LimitWindow), Attributed(S, N, sent, key, mem, cleared, max)
    PROVE  \E S2, N2 : Attributed(S2, N2, Alive(sent), next, [r \in Replica |-> Alive(mem[r])], cleared, max)
<1> DEFINE W == LimitWindow
           n == Len(sent)
           later == Alive(sent)
           mem2 == [r \in Replica |-> Alive(mem[r])]
           head == [r \in Replica |-> Cardinality({i \in 1..Len(mem[r]) : mem[r][i] <= 1})]
<1>1. W \in Nat \ {0} /\ 2 * W = W + W BY LimitAssumption
<1>0. PICK gone \in 0..Len(sent) : AgedBy(sent, 2 * LimitWindow, gone)
  <2>1. 2 * LimitWindow \in Nat \ {0} BY <1>1
  <2> QED BY <2>1, StampsAge
<1>2. /\ gone \in 0..n /\ n \in Nat /\ Len(later) = n - gone
      /\ \A i \in 1..n : sent[i] \in 1..(2 * W)
      /\ \A i \in 1..(n - gone) : later[i] = sent[gone + i] - 1
  <2>1. 2 * LimitWindow \in Nat \ {0} BY <1>1
  <2>2. n \in Nat BY <2>1, StampsAge
  <2> QED BY <1>0, <2>2 DEF AgedBy
<1>3. ASSUME NEW r \in Replica
      PROVE  /\ Len(mem[r]) \in Nat /\ head[r] \in 0..Len(mem[r]) /\ Len(mem2[r]) = Len(mem[r]) - head[r]
             /\ \A i \in 1..Len(mem[r]) : mem[r][i] \in 1..W /\ (mem[r][i] <= 1 <=> i <= head[r])
             /\ \A i \in 1..(Len(mem[r]) - head[r]) : mem2[r][i] = mem[r][head[r] + i] - 1
  <2> DEFINE h == Cardinality({i \in 1..Len(mem[r]) : mem[r][i] <= 1})
  <2>1. mem2[r] = Alive(mem[r]) /\ head[r] = h OBVIOUS
  <2>2. /\ Len(mem[r]) \in Nat /\ h \in 0..Len(mem[r]) /\ Len(Alive(mem[r])) = Len(mem[r]) - h
        /\ \A i \in 1..Len(mem[r]) : mem[r][i] \in 1..W /\ (mem[r][i] <= 1 <=> i <= h)
        /\ \A i \in 1..(Len(mem[r]) - h) : Alive(mem[r])[i] = mem[r][h + i] - 1
    <3>1. LimitWindow \in Nat \ {0} /\ InOrder(mem[r], LimitWindow) BY <1>1
    <3>2. Len(mem[r]) \in Nat /\ \E g \in 0..Len(mem[r]) : AgedBy(mem[r], LimitWindow, g)
      BY <3>1, StampsAge
    <3>3. h \in 0..Len(mem[r]) /\ AgedBy(mem[r], LimitWindow, h) BY <3>2 DEF AgedBy
    <3> QED BY <3>2, <3>3 DEF AgedBy
  <2> HIDE DEF mem2, head, h
  <2> QED BY <2>1, <2>2
<1> DEFINE InMemory(i) == \E r \in Replica : S[i] = MemoryOf(r)
           Where(i) == CHOOSE r \in Replica : S[i] = MemoryOf(r)
           S2 == [i \in 1..(n - gone) |-> IF S[gone + i] = CurrentKey /\ key.left <= 1 THEN OldKey ELSE S[gone + i]]
           N2 == [i \in 1..(n - gone) |-> IF InMemory(gone + i) THEN N[gone + i] - head[Where(gone + i)]
                                          ELSE N[gone + i]]
<1>4. /\ next.left \in Nat /\ key.left \in Nat /\ key.count \in Nat
      /\ key.left <= 1 => next.left = 0
      /\ key.left > 1 => next.left = key.left - 1 /\ next.count = key.count
  BY ONLY key \in KeyType, next = KeyAged(key), KeyAges
<1>5. \A i \in 1..(n - gone) :
          /\ S2[i] = IF S[gone + i] = CurrentKey /\ key.left <= 1 THEN OldKey ELSE S[gone + i]
          /\ InMemory(gone + i) => N2[i] = N[gone + i] - head[Where(gone + i)]
          /\ ~InMemory(gone + i) => N2[i] = N[gone + i]
  OBVIOUS
<1>6. /\ CurrentKey # OldKey /\ OldKey \in SendSources(cleared)
      /\ \A r : MemoryOf(r) # CurrentKey /\ MemoryOf(r) # OldKey
      /\ \A q, r : MemoryOf(q) = MemoryOf(r) => q = r
  BY SourcesDiffer
<1>7. \A i : \A r \in Replica : S[i] = MemoryOf(r) => InMemory(i) /\ Where(i) = r BY <1>6
<1>8. \A i : InMemory(i) => \E r \in Replica : S[i] = MemoryOf(r) OBVIOUS
<1> HIDE DEF InMemory, Where, S2, N2, mem2, head
<1>9. Recent(later) \in SUBSET (1..(n - gone)) /\ \A i \in Recent(later) : later[i] > W
  BY <1>2 DEF Recent
<1> HIDE DEF later
(* The sends that stay recent were recent before.                          *)
<1>10. ASSUME NEW i \in Recent(later)
       PROVE  /\ i \in 1..(n - gone) /\ gone + i \in Recent(sent) /\ later[i] = sent[gone + i] - 1
              /\ sent[gone + i] > W + 1 /\ sent[gone + i] \in Nat /\ sent[gone + i] <= 2 * W
  <2>1. i \in 1..(n - gone) /\ gone + i \in 1..n /\ later[i] = sent[gone + i] - 1 /\ later[i] > W
    BY <1>2, <1>9
  <2>2. sent[gone + i] \in 1..(2 * W) BY <1>2, <2>1
  <2> DEFINE x == sent[gone + i]
  <2>3. x \in 1..(2 * W) /\ x - 1 > W BY <2>1, <2>2
  <2> HIDE DEF x
  <2>4. x > W + 1 /\ x > W /\ x \in Nat /\ x <= 2 * W BY <1>1, <2>3
  <2>5. gone + i \in Recent(sent) BY <2>1, <2>4 DEF Recent, x
  <2> QED BY <2>1, <2>4, <2>5 DEF x
<1>11. ASSUME NEW i \in Recent(later), NEW r \in Replica, S[gone + i] = MemoryOf(r)
       PROVE  /\ N2[i] = N[gone + i] - head[r] /\ N2[i] \in 1..max /\ N[gone + i] \in Nat /\ head[r] \in Nat
              /\ N2[i] <= Len(mem2[r]) /\ later[i] = W + mem2[r][N2[i]]
  <2> DEFINE k == N[gone + i]  l == Len(mem[r])  h == head[r]
  <2>1. k <= l /\ sent[gone + i] = W + mem[r][k] /\ k \in 1..max
    BY <1>10, <1>11 DEF Attributed, W
  <2>2. N2[i] = k - h BY <1>5, <1>7, <1>10, <1>11
  <2>3. /\ l \in Nat /\ h \in 0..l /\ Len(mem2[r]) = l - h
        /\ \A j \in 1..l : mem[r][j] \in 1..W /\ (mem[r][j] <= 1 <=> j <= h)
        /\ \A j \in 1..(l - h) : mem2[r][j] = mem[r][h + j] - 1
    BY <1>3
  <2>4. sent[gone + i] > W + 1 /\ later[i] = sent[gone + i] - 1 BY <1>10
  <2> HIDE DEF k, l, h
  <2>5. k \in 1..l BY <2>1, <2>3
  <2>6. mem[r][k] \in 1..W BY <2>3, <2>5
  <2>7. ~(mem[r][k] <= 1) BY <1>1, <2>1, <2>4, <2>6
  <2>8. ~(k <= h) BY <2>3, <2>5, <2>7
  <2>9. k - h \in 1..(l - h) /\ h + (k - h) = k /\ k - h \in 1..max BY <2>1, <2>3, <2>5, <2>8
  <2>10. mem2[r][k - h] = mem[r][k] - 1 BY <2>3, <2>9
  <2>11. later[i] = W + mem2[r][k - h] BY <1>1, <2>1, <2>4, <2>6, <2>10
  <2>12. k - h <= l - h /\ h \in Nat BY <2>3, <2>9
  <2> QED BY <2>1, <2>2, <2>3, <2>9, <2>11, <2>12 DEF k, h, l
<1>12. ASSUME NEW i \in Recent(later)
       PROVE  /\ S2[i] \in SendSources(cleared) /\ N2[i] \in 1..max
              /\ S2[i] = CurrentKey => next.left > 0 /\ N2[i] <= next.count
              /\ S2[i] = OldKey => /\ later[i] < 2 * W
                                   /\ next.left > 0 => later[i] < W + next.left
              /\ \A r \in Replica : S2[i] = MemoryOf(r) =>
                     N2[i] <= Len(mem2[r]) /\ later[i] = W + mem2[r][N2[i]]
  <2> DEFINE b == gone + i
  <2>1. /\ S[b] \in SendSources(cleared) /\ N[b] \in 1..max
        /\ S[b] = CurrentKey => key.left > 0 /\ N[b] <= key.count
        /\ S[b] = OldKey => /\ sent[b] < 2 * W
                            /\ key.left > 0 => sent[b] < W + key.left
    BY <1>10 DEF Attributed, W
  <2>2. /\ sent[b] > W + 1 /\ later[i] = sent[b] - 1 /\ sent[b] \in Nat /\ sent[b] <= 2 * W
        /\ S2[i] = (IF S[b] = CurrentKey /\ key.left <= 1 THEN OldKey ELSE S[b])
        /\ ~InMemory(b) => N2[i] = N[b]
    BY <1>5, <1>10
  <2>3. \A r \in Replica : S[b] = MemoryOf(r) =>
            N2[i] <= Len(mem2[r]) /\ later[i] = W + mem2[r][N2[i]] /\ N2[i] \in 1..max
    BY <1>11
  <2> HIDE DEF b, W
  <2>4. CASE S[b] = CurrentKey /\ key.left <= 1
    <3>1. S2[i] = OldKey /\ ~InMemory(b) /\ next.left = 0 BY <1>4, <1>6, <1>8, <2>2, <2>4
    <3>2. later[i] < 2 * W BY <1>1, <2>2
    <3>3. ~(next.left > 0) BY <3>1
    <3> QED BY <1>6, <2>1, <2>2, <3>1, <3>2, <3>3
  <2>5. CASE S[b] = CurrentKey /\ ~(key.left <= 1)
    <3>1. S2[i] = CurrentKey /\ ~InMemory(b) BY <1>6, <1>8, <2>2, <2>5
    <3>2. key.left > 1 BY <1>4, <2>5
    <3>3. next.left = key.left - 1 /\ next.count = key.count BY <1>4, <3>2
    <3>4. next.left > 0 BY <1>4, <3>2, <3>3
    <3> QED BY <1>6, <2>1, <2>2, <2>5, <3>1, <3>3, <3>4
  <2>6. CASE S[b] = OldKey
    <3>1. S2[i] = OldKey /\ ~InMemory(b) BY <1>6, <1>8, <2>2, <2>6
    <3>2. later[i] < 2 * W BY <1>1, <2>2
    <3>3. next.left > 0 => later[i] < W + next.left
      <4>1. next.left > 0 => key.left > 1 BY <1>4
      <4>2. key.left > 1 => sent[b] < W + key.left BY <1>4, <2>1, <2>6
      <4>3. \A x, y \in Nat : x < W + y => x - 1 < W + (y - 1) BY <1>1
      <4>4. key.left > 1 => sent[b] - 1 < W + (key.left - 1) BY <1>4, <2>2, <4>2, <4>3
      <4> QED BY <1>4, <2>2, <4>1, <4>4
    <3> QED BY <1>6, <2>1, <2>2, <3>1, <3>2, <3>3
  <2>7. CASE S[b] # CurrentKey /\ S[b] # OldKey
    <3>1. S2[i] = S[b] BY <2>2, <2>7
    <3>2. N2[i] \in 1..max
      <4>1. CASE InMemory(b) BY <1>8, <2>3, <4>1
      <4>2. CASE ~InMemory(b) BY <2>1, <2>2, <4>2
      <4> QED BY <4>1, <4>2
    <3> QED BY <2>1, <2>3, <2>7, <3>1, <3>2
  <2> QED BY <2>4, <2>5, <2>6, <2>7
(* None but the current key takes the name of an old one: an old key's     *)
(* sends have aged by then.                                                *)
<1>13. ASSUME NEW i \in Recent(later), NEW j \in Recent(later), S2[i] = S2[j], N2[i] = N2[j] PROVE i = j
  <2> DEFINE b == gone + i  d == gone + j
  <2>1. /\ b \in Recent(sent) /\ d \in Recent(sent) /\ sent[b] > W + 1 /\ sent[d] > W + 1
        /\ sent[b] \in Nat /\ sent[d] \in Nat
        /\ S2[i] = (IF S[b] = CurrentKey /\ key.left <= 1 THEN OldKey ELSE S[b])
        /\ S2[j] = (IF S[d] = CurrentKey /\ key.left <= 1 THEN OldKey ELSE S[d])
        /\ ~InMemory(b) => N2[i] = N[b]
        /\ ~InMemory(d) => N2[j] = N[d]
    BY <1>5, <1>10
  <2>2. ASSUME NEW x \in Recent(sent), sent[x] \in Nat, sent[x] > W + 1, S[x] = OldKey
        PROVE  ~(key.left > 0 /\ key.left <= 1)
    <3>1. key.left > 0 => sent[x] < W + key.left BY <2>2 DEF Attributed, W
    <3> HIDE DEF W
    <3> QED BY <1>1, <1>4, <2>2, <3>1
  <2>3. ASSUME NEW x \in Recent(sent), S[x] = CurrentKey PROVE key.left > 0 BY <2>3 DEF Attributed
  <2>4. b = d => i = j BY <1>2, <1>10
  <2>5. /\ \A r \in Replica : S[b] = MemoryOf(r) => N2[i] = N[b] - head[r] /\ N[b] \in Nat /\ head[r] \in Nat
        /\ \A r \in Replica : S[d] = MemoryOf(r) => N2[j] = N[d] - head[r] /\ N[d] \in Nat /\ head[r] \in Nat
    BY <1>11
  <2> HIDE DEF b, d, W
  <2>6. S[b] = S[d]
    <3>1. S[b] = CurrentKey /\ key.left <= 1 => S[d] = CurrentKey BY <1>6, <1>13, <2>1, <2>2, <2>3
    <3>2. S[d] = CurrentKey /\ key.left <= 1 => S[b] = CurrentKey BY <1>6, <1>13, <2>1, <2>2, <2>3
    <3> QED BY <1>13, <2>1, <3>1, <3>2
  <2>7. N[b] = N[d]
    <3>1. CASE InMemory(b)
      <4>1. PICK r \in Replica : S[b] = MemoryOf(r) BY <1>8, <3>1
      <4>2. N2[i] = N[b] - head[r] /\ N2[j] = N[d] - head[r] /\ N[b] \in Nat /\ N[d] \in Nat /\ head[r] \in Nat
        BY <2>5, <2>6, <4>1
      <4>3. N[b] - head[r] = N[d] - head[r] BY <1>13, <4>2
      <4>4. \A x, y, z \in Nat : x - z = y - z => x = y OBVIOUS
      <4> QED BY <4>2, <4>3, <4>4
    <3>2. CASE ~InMemory(b)
      <4>1. ~InMemory(d) BY <1>7, <1>8, <2>6, <3>2
      <4> QED BY <1>13, <2>1, <3>2, <4>1
    <3> QED BY <3>1, <3>2
  <2>8. b = d BY <2>1, <2>6, <2>7 DEF Attributed
  <2> QED BY <2>4, <2>8
<1>14. Attributed(S2, N2, later, next, mem2, cleared, max) BY <1>12, <1>13 DEF Attributed, W
<1> QED BY <1>14 DEF later, mem2

(* The youngest stamp.                                                     *)
Youngest(s) == s[Len(s)]

(* A key and what a memory holds are gone before the last send leaves the  *)
(* history: there is one to answer for a refusal.                          *)
Owed(sent, key, mem) ==
    /\ key.left > 0 => Len(sent) > 0 /\ Youngest(sent) > key.left
    /\ \A r \in Replica : Len(mem[r]) > 0 => Len(sent) > 0 /\ Youngest(sent) >= LimitWindow + Youngest(mem[r])

(* What holds of one kind of limiter.                                      *)
Kept(sent, key, mem, cleared, max) ==
    /\ InOrder(sent, 2 * LimitWindow)
    /\ key \in KeyType
    /\ DOMAIN mem = Replica /\ \A r \in Replica : InOrder(mem[r], LimitWindow)
    /\ Owed(sent, key, mem)
    /\ \E S, N : Attributed(S, N, sent, key, mem, cleared, max)

(* The youngest stamp, after a send and after a unit of time.              *)
LEMMA Lasts ==
    ASSUME NEW top \in Nat \ {0}, NEW s, InOrder(s, top)
    PROVE  /\ InOrder(Append(s, top), top) /\ Len(Append(s, top)) > 0 /\ Youngest(Append(s, top)) = top
           /\ Len(s) \in Nat /\ (Len(s) > 0 => Youngest(s) \in 1..top)
           /\ InOrder(Alive(s), top) /\ Len(Alive(s)) \in Nat
           /\ Len(s) > 0 /\ Youngest(s) > 1 => Len(Alive(s)) > 0 /\ Youngest(Alive(s)) = Youngest(s) - 1
           /\ Len(Alive(s)) > 0 => Len(s) > 0 /\ Youngest(s) > 1 /\ Youngest(Alive(s)) = Youngest(s) - 1
<1> DEFINE n == Len(s)
           later == Alive(s)
<1>1. /\ InOrder(Append(s, top), top) /\ n \in Nat /\ Len(Append(s, top)) = n + 1
      /\ \A i \in 1..n : s[i] \in 1..top
      /\ Append(s, top)[n + 1] = top
  BY StampAdded
<1>2. InOrder(later, top) BY StampsAge
<1>0. PICK gone \in 0..Len(s) : AgedBy(s, top, gone) BY StampsAge
<1>3. /\ gone \in 0..n /\ Len(later) = n - gone
      /\ \A i \in 1..n : s[i] \in 1..top /\ (s[i] <= 1 <=> i <= gone)
      /\ \A i \in 1..(n - gone) : later[i] = s[gone + i] - 1
  BY <1>0 DEF AgedBy
<1> HIDE DEF n, later
<1>4. n > 0 => n \in 1..n /\ s[n] \in 1..top BY <1>1
<1>5. Len(later) \in Nat BY <1>1, <1>3
<1>6. ASSUME n > 0, s[n] > 1 PROVE Len(later) > 0
  <2>1. n \in 1..n /\ s[n] \in 1..top BY <1>4, <1>6
  <2>2. ~(s[n] <= 1) BY <1>6, <2>1
  <2>3. ~(n <= gone) BY <1>3, <2>1, <2>2
  <2> QED BY <1>1, <1>3, <2>3
<1>7. ASSUME Len(later) > 0 PROVE n > 0 /\ s[n] > 1 /\ later[Len(later)] = s[n] - 1
  <2>1. gone < n /\ n - gone \in 1..(n - gone) /\ gone + (n - gone) = n /\ n \in 1..n
    BY <1>1, <1>3, <1>7
  <2>2. later[n - gone] = s[n] - 1 BY <1>3, <2>1
  <2>3. ~(n <= gone) BY <1>1, <2>1
  <2>4. s[n] \in 1..top /\ ~(s[n] <= 1) BY <1>3, <2>1, <2>3
  <2>5. s[n] > 1 BY <2>4
  <2> QED BY <1>3, <2>1, <2>2, <2>5
<1>8. Len(Append(s, top)) > 0 /\ Append(s, top)[Len(Append(s, top))] = top BY <1>1 DEF n
<1> QED BY <1>1, <1>2, <1>4, <1>5, <1>6, <1>7, <1>8 DEF Youngest, n, later

(* The next lemmas say that each thing that happens to a kind keeps this:  *)
(* a counted call that lets nothing through, a send let through by the     *)
(* key, one let through by a memory, a cleared memory, and time.           *)
LEMMA KeptCounted ==
    ASSUME NEW sent, NEW key, NEW mem, NEW cleared \in Nat, NEW max \in Nat, NEW largest \in Nat,
           Kept(sent, key, mem, cleared, max),
           key.left = 0 => Len(sent) > 0 /\ Youngest(sent) > LimitWindow
    PROVE  Kept(sent, Incremented(key, largest), mem, cleared, max)
<1> DEFINE next == Incremented(key, largest)
<1>1. key \in KeyType /\ CountsOn(key, largest, next) BY KeyCounts DEF Kept
<1>2. next = Incremented(key, largest) OBVIOUS
<1> HIDE DEF next
<1>3. PICK S, N : Attributed(S, N, sent, key, mem, cleared, max) BY DEF Kept
<1>4. Attributed(S, N, sent, next, mem, cleared, max) BY <1>1, <1>2, <1>3, CountedStill DEF Kept
<1>5. Owed(sent, next, mem)
  <2>1. key.left \in Nat /\ (key.left = 0 => next.left = LimitWindow) /\ (key.left > 0 => next.left = key.left)
    BY <1>1 DEF CountsOn
  <2>2. key.left > 0 => Len(sent) > 0 /\ Youngest(sent) > key.left BY DEF Kept, Owed
  <2>3. key.left = 0 \/ key.left > 0 BY <2>1
  <2>4. Len(sent) > 0 /\ Youngest(sent) > next.left BY <2>1, <2>2, <2>3
  <2> QED BY <2>4 DEF Kept, Owed
<1>6. Kept(sent, next, mem, cleared, max) BY <1>1, <1>4, <1>5 DEF Kept, CountsOn
<1> QED BY <1>6 DEF next

LEMMA KeptByCounter ==
    ASSUME NEW sent, NEW key, NEW mem, NEW cleared \in Nat, NEW max \in Nat, NEW largest \in Nat,
           NEW bound \in Nat, bound <= max, bound <= largest,
           Kept(sent, key, mem, cleared, max), Incremented(key, largest).count <= bound
    PROVE  Kept(Append(sent, 2 * LimitWindow), Incremented(key, largest), mem, cleared, max)
<1> DEFINE next == Incremented(key, largest)
           more == Append(sent, 2 * LimitWindow)
<1>1. key \in KeyType /\ CountsOn(key, largest, next) BY KeyCounts DEF Kept
<1>2. next = Incremented(key, largest) /\ next.count <= bound OBVIOUS
<1>3. LimitWindow \in Nat \ {0} /\ 2 * LimitWindow \in Nat \ {0} BY LimitAssumption
<1>4. InOrder(more, 2 * LimitWindow) /\ Len(more) > 0 /\ Youngest(more) = 2 * LimitWindow
  BY <1>3, Lasts DEF Kept
<1> HIDE DEF next
<1>5. PICK S, N : Attributed(S, N, sent, key, mem, cleared, max) BY DEF Kept
<1>6. InOrder(sent, 2 * LimitWindow) BY DEF Kept
<1>7. \E S2, N2 : Attributed(S2, N2, more, next, mem, cleared, max)
  BY <1>1, <1>2, <1>5, <1>6, CounterSends
<1> HIDE DEF more
<1>8. Owed(more, next, mem)
  <2>1. next.left \in 0..LimitWindow BY <1>1 DEF CountsOn, KeyType
  <2>2. Youngest(more) > next.left BY <1>3, <1>4, <2>1
  <2>3. ASSUME NEW r \in Replica, Len(mem[r]) > 0 PROVE Youngest(more) >= LimitWindow + Youngest(mem[r])
    <3>1. Youngest(mem[r]) \in 1..LimitWindow BY <1>3, <2>3, Lasts DEF Kept
    <3> QED BY <1>3, <1>4, <3>1
  <2> QED BY <1>4, <2>2, <2>3 DEF Owed
<1>9. Kept(more, next, mem, cleared, max) BY <1>1, <1>4, <1>7, <1>8 DEF Kept, CountsOn
<1> QED BY <1>9 DEF next, more

LEMMA KeptByMemory ==
    ASSUME NEW sent, NEW key, NEW mem, NEW cleared \in Nat, NEW max \in Nat, NEW q \in Replica,
           Kept(sent, key, mem, cleared, max), Len(mem[q]) < max
    PROVE  LET more == Append(sent, 2 * LimitWindow)
           IN  /\ Kept(more, key, [mem EXCEPT ![q] = Append(@, LimitWindow)], cleared, max)
               /\ Len(more) > 0 /\ Youngest(more) > LimitWindow
<1> DEFINE more == Append(sent, 2 * LimitWindow)
           mem2 == [mem EXCEPT ![q] = Append(@, LimitWindow)]
<1>1. LimitWindow \in Nat \ {0} /\ 2 * LimitWindow \in Nat \ {0} BY LimitAssumption
<1>2. InOrder(more, 2 * LimitWindow) /\ Len(more) > 0 /\ Youngest(more) = 2 * LimitWindow
  BY <1>1, Lasts DEF Kept
<1>3. DOMAIN mem = Replica /\ InOrder(mem[q], LimitWindow) /\ InOrder(sent, 2 * LimitWindow) BY DEF Kept
<1>4. PICK S, N : Attributed(S, N, sent, key, mem, cleared, max) BY DEF Kept
<1>5. \E S2, N2 : Attributed(S2, N2, more, key, mem2, cleared, max) BY <1>3, <1>4, MemorySends
<1>6. /\ DOMAIN mem2 = Replica /\ mem2[q] = Append(mem[q], LimitWindow)
      /\ \A r \in Replica : r # q => mem2[r] = mem[r]
  BY <1>3
<1> HIDE DEF more, mem2
<1>7. ASSUME NEW r \in Replica PROVE InOrder(mem2[r], LimitWindow)
  <2>1. InOrder(Append(mem[q], LimitWindow), LimitWindow) BY <1>1, <1>3, Lasts
  <2>2. CASE r = q BY <1>6, <2>1, <2>2
  <2>3. CASE r # q BY <1>6, <2>3 DEF Kept
  <2> QED BY <2>2, <2>3
<1>8. Owed(more, key, mem2)
  <2>1. key.left \in 0..LimitWindow BY DEF Kept, KeyType
  <2>2. Youngest(more) > key.left BY <1>1, <1>2, <2>1
  <2>3. ASSUME NEW r \in Replica, Len(mem2[r]) > 0 PROVE Youngest(more) >= LimitWindow + Youngest(mem2[r])
    <3>1. Youngest(mem2[r]) \in 1..LimitWindow BY <1>1, <1>7, <2>3, Lasts
    <3> QED BY <1>1, <1>2, <3>1
  <2> QED BY <1>2, <2>2, <2>3 DEF Owed
<1>9. Kept(more, key, mem2, cleared, max) BY <1>2, <1>5, <1>6, <1>7, <1>8 DEF Kept
<1>10. Youngest(more) > LimitWindow BY <1>1, <1>2
<1> QED BY <1>2, <1>9, <1>10 DEF more, mem2

LEMMA KeptForgotten ==
    ASSUME NEW sent, NEW key, NEW mem, NEW cleared \in Nat, NEW max \in Nat, NEW q \in Replica,
           Kept(sent, key, mem, cleared, max)
    PROVE  Kept(sent, key, [mem EXCEPT ![q] = <<>>], cleared + 1, max)
<1> DEFINE mem2 == [mem EXCEPT ![q] = <<>>]
<1>1. DOMAIN mem = Replica BY DEF Kept
<1>2. PICK S, N : Attributed(S, N, sent, key, mem, cleared, max) BY DEF Kept
<1>3. \E S2, N2 : Attributed(S2, N2, sent, key, mem2, cleared + 1, max) BY <1>1, <1>2, MemoryLost
<1>4. /\ DOMAIN mem2 = Replica /\ mem2[q] = <<>>
      /\ \A r \in Replica : r # q => mem2[r] = mem[r]
  BY <1>1
<1> HIDE DEF mem2
<1>5. InOrder(<<>>, LimitWindow) BY DEF InOrder
<1>6. ASSUME NEW r \in Replica PROVE InOrder(mem2[r], LimitWindow)
  <2>1. CASE r = q BY <1>4, <1>5, <2>1
  <2>2. CASE r # q BY <1>4, <2>2 DEF Kept
  <2> QED BY <2>1, <2>2
<1>7. Owed(sent, key, mem2)
  <2>1. ASSUME NEW r \in Replica, Len(mem2[r]) > 0
        PROVE  Len(sent) > 0 /\ Youngest(sent) >= LimitWindow + Youngest(mem2[r])
    <3>1. r # q BY <1>4, <2>1
    <3>2. mem2[r] = mem[r] BY <1>4, <3>1
    <3> QED BY <2>1, <3>2 DEF Kept, Owed
  <2> QED BY <2>1 DEF Kept, Owed
<1>8. Kept(sent, key, mem2, cleared + 1, max) BY <1>3, <1>4, <1>6, <1>7 DEF Kept
<1> QED BY <1>8 DEF mem2

LEMMA KeptAges ==
    ASSUME NEW sent, NEW key, NEW mem, NEW cleared \in Nat, NEW max \in Nat,
           Kept(sent, key, mem, cleared, max)
    PROVE  Kept(Alive(sent), KeyAged(key), [r \in Replica |-> Alive(mem[r])], cleared, max)
<1> DEFINE next == KeyAged(key)
           later == Alive(sent)
           mem2 == [r \in Replica |-> Alive(mem[r])]
           W == LimitWindow
<1>1. W \in Nat \ {0} /\ 2 * W \in Nat \ {0} BY LimitAssumption
<1>2. /\ key \in KeyType /\ InOrder(sent, 2 * W) /\ \A r \in Replica : InOrder(mem[r], W)
      /\ Owed(sent, key, mem)
  BY DEF Kept
<1>3. PICK S, N : Attributed(S, N, sent, key, mem, cleared, max) BY DEF Kept
<1>4. \E S2, N2 : Attributed(S2, N2, later, next, mem2, cleared, max) BY <1>2, <1>3, AttributedAges
<1>5. /\ next \in KeyType /\ key.left \in Nat /\ next.left \in Nat
      /\ key.left <= 1 => next.left = 0
      /\ key.left > 1 => next.left = key.left - 1
  BY <1>2, KeyAges
<1>6. /\ InOrder(later, 2 * W) /\ Len(later) \in Nat /\ (Len(sent) > 0 => Youngest(sent) \in 1..(2 * W))
      /\ Len(sent) > 0 /\ Youngest(sent) > 1 => Len(later) > 0 /\ Youngest(later) = Youngest(sent) - 1
  BY <1>1, <1>2, Lasts
<1>7. ASSUME NEW r \in Replica
      PROVE  /\ mem2[r] = Alive(mem[r]) /\ InOrder(mem2[r], W) /\ Len(mem[r]) \in Nat
             /\ Len(mem[r]) > 0 => Youngest(mem[r]) \in 1..W
             /\ Len(mem2[r]) > 0 => Len(mem[r]) > 0 /\ Youngest(mem[r]) > 1 /\ Youngest(mem2[r]) = Youngest(mem[r]) - 1
  <2>1. mem2[r] = Alive(mem[r]) OBVIOUS
  <2> HIDE DEF mem2
  <2> QED BY <1>1, <1>2, <2>1, Lasts
<1>8. DOMAIN mem2 = Replica OBVIOUS
<1> HIDE DEF next, later, mem2, W
<1>9. Owed(later, next, mem2)
  <2>1. ASSUME next.left > 0 PROVE Len(later) > 0 /\ Youngest(later) > next.left
    <3>1. key.left > 1 /\ next.left = key.left - 1 BY <1>5, <2>1
    <3>2. Len(sent) > 0 /\ Youngest(sent) > key.left BY <1>2, <1>5, <3>1 DEF Owed
    <3>3. Youngest(sent) \in 1..(2 * W) BY <1>6, <3>2
    <3>4. Youngest(sent) > 1 BY <1>1, <1>5, <3>1, <3>2, <3>3
    <3>5. Len(later) > 0 /\ Youngest(later) = Youngest(sent) - 1 BY <1>6, <3>2, <3>4
    <3> QED BY <1>1, <1>5, <3>1, <3>2, <3>3, <3>5
  <2>2. ASSUME NEW r \in Replica, Len(mem2[r]) > 0
        PROVE  Len(later) > 0 /\ Youngest(later) >= W + Youngest(mem2[r])
    <3>1. Len(mem[r]) > 0 /\ Youngest(mem[r]) > 1 /\ Youngest(mem2[r]) = Youngest(mem[r]) - 1 /\ Youngest(mem[r]) \in 1..W
      BY <1>7, <2>2
    <3>2. Len(sent) > 0 /\ Youngest(sent) >= W + Youngest(mem[r]) BY <1>2, <3>1 DEF Owed, W
    <3>3. Youngest(sent) \in 1..(2 * W) BY <1>6, <3>2
    <3>4. Youngest(sent) > 1 BY <1>1, <3>1, <3>2, <3>3
    <3>5. Len(later) > 0 /\ Youngest(later) = Youngest(sent) - 1 BY <1>6, <3>2, <3>4
    <3>6. \A x \in 1..(2 * W), y \in 1..W : x >= W + y => x - 1 >= W + (y - 1) BY <1>1
    <3> QED BY <3>1, <3>2, <3>3, <3>5, <3>6
  <2> QED BY <2>1, <2>2 DEF Owed, W
<1>10. Kept(later, next, mem2, cleared, max) BY <1>4, <1>5, <1>6, <1>7, <1>8, <1>9 DEF Kept, W
<1> QED BY <1>10 DEF next, later, mem2

(* A finite set of numbers that is not empty has a greatest one: the one   *)
(* with the fewest above it.                                               *)
LEMMA GreatestNumber ==
    ASSUME NEW T \in SUBSET Nat, IsFiniteSet(T), T # {}
    PROVE  Max(T) \in T /\ \A y \in T : y <= Max(T)
<1> DEFINE Above(x) == {y \in T : y > x}
           Sizes == {Cardinality(Above(x)) : x \in T}
<1>1. \A x : IsFiniteSet(Above(x)) /\ Cardinality(Above(x)) \in Nat
  <2>1. ASSUME NEW x PROVE IsFiniteSet(Above(x)) /\ Cardinality(Above(x)) \in Nat
    <3>1. Above(x) \in SUBSET T OBVIOUS
    <3> HIDE DEF Above
    <3> QED BY <3>1, FS_Subset, FS_CardinalityType
  <2> QED BY <2>1
<1>2. Sizes \in SUBSET Nat /\ Sizes # {} BY <1>1
<1>3. PICK c \in Sizes : \A d \in Sizes : c <= d BY <1>2, LeastNumber
<1>4. PICK x \in T : c = Cardinality(Above(x)) BY <1>3
<1>5. ASSUME NEW y \in T PROVE y <= x
  <2>1. SUFFICES ASSUME y > x PROVE FALSE OBVIOUS
  <2>2. Above(y) \in SUBSET Above(x) /\ y \in Above(x) /\ y \notin Above(y)
    <3>1. x \in Nat /\ y \in Nat /\ ~(y > y) OBVIOUS
    <3>2. \A z \in T : z > y => z > x BY <2>1, <3>1
    <3> QED BY <2>1, <3>1, <3>2
  <2>3. Cardinality(Above(y)) \in Sizes OBVIOUS
  <2> HIDE DEF Above, Sizes
  <2>4. Cardinality(Above(y)) <= Cardinality(Above(x)) /\ Cardinality(Above(y)) # Cardinality(Above(x))
    BY <1>1, <2>2, FS_Subset
  <2>5. Cardinality(Above(x)) <= Cardinality(Above(y)) BY <1>3, <1>4, <2>3
  <2> QED BY <1>1, <2>4, <2>5
<1>6. \E m \in T : \A y \in T : m >= y BY <1>5
<1>7. Max(T) \in T /\ \A y \in T : Max(T) >= y BY <1>6 DEF Max
<1> QED BY <1>7

(* So MaxOfKind and LargestMax are what their names say.                   *)
LEMMA GreatestAllowance ==
    /\ LargestMax \in Nat
    /\ \A k \in Kinds : MaxOfKind(k) \in Nat
    /\ \A s \in Setting, k \in Kinds : /\ Allowed(s, k) \in Nat
                                       /\ Allowed(s, k) <= MaxOfKind(k) /\ Allowed(s, k) <= LargestMax
<1>1. Setting # {} /\ Setting \subseteq [budget : Nat, perMinute : Nat] /\ IsFiniteSet(Setting) /\ GlobalMax \in Nat
  BY LimitAssumption
<1>2. \A s \in Setting : s.budget \in Nat /\ s.perMinute \in Nat BY <1>1
<1>3. ASSUME NEW k PROVE IsFiniteSet({Allowed(s, k) : s \in Setting})
  <2> DEFINE f == [s \in Setting |-> Allowed(s, k)]  T == {Allowed(s, k) : s \in Setting}
  <2>1. f \in Surjection(Setting, T) BY DEF Surjection
  <2> HIDE DEF f, T
  <2>2. IsFiniteSet(T) BY <1>1, <2>1, FS_Surjection
  <2> QED BY <2>2 DEF T
<1>4. \A s : Allowed(s, "budget") = s.budget /\ Allowed(s, "bot") = s.perMinute /\ Allowed(s, "global") = GlobalMax
  BY DEF Allowed
<1>5. \A s \in Setting, k \in Kinds : Allowed(s, k) \in Nat BY <1>1, <1>2, <1>4 DEF Kinds
<1> HIDE DEF Allowed
<1>6. ASSUME NEW k \in Kinds
      PROVE  MaxOfKind(k) \in Nat /\ \A s \in Setting : Allowed(s, k) <= MaxOfKind(k)
  <2> DEFINE T == {Allowed(s, k) : s \in Setting}
  <2>1. T \in SUBSET Nat /\ T # {} /\ IsFiniteSet(T) BY <1>1, <1>3, <1>5
  <2>2. \A s \in Setting : Allowed(s, k) \in T OBVIOUS
  <2>3. MaxOfKind(k) = Max(T) BY DEF MaxOfKind
  <2> HIDE DEF T
  <2>4. Max(T) \in T /\ \A y \in T : y <= Max(T) BY <2>1, GreatestNumber
  <2> QED BY <2>1, <2>2, <2>3, <2>4
<1>7. LargestMax \in Nat /\ \A s \in Setting, k \in Kinds : Allowed(s, k) <= LargestMax
  <2> DEFINE B == {s.budget : s \in Setting}
             P == {s.perMinute : s \in Setting}
             T == {GlobalMax} \cup B \cup P
  <2>1. B = {Allowed(s, "budget") : s \in Setting} /\ P = {Allowed(s, "bot") : s \in Setting} BY <1>4
  <2>2. IsFiniteSet(B) /\ IsFiniteSet(P) BY <1>3, <2>1
  <2>3. T \in SUBSET Nat /\ T # {} BY <1>1, <1>2
  <2>4. LargestMax = Max(T) BY DEF LargestMax
  <2>5. \A s \in Setting : s.budget \in T /\ s.perMinute \in T /\ GlobalMax \in T OBVIOUS
  <2>6. T = ({GlobalMax} \cup B) \cup P OBVIOUS
  <2> HIDE DEF B, P
  <2>7. IsFiniteSet(T)
    <3>1. IsFiniteSet({GlobalMax}) BY FS_Singleton
    <3>2. IsFiniteSet({GlobalMax} \cup B) BY <2>2, <3>1, FS_Union
    <3> QED BY <2>2, <3>2, FS_Union
  <2> HIDE DEF T
  <2>8. Max(T) \in T /\ \A y \in T : y <= Max(T) BY <2>3, <2>7, GreatestNumber
  <2>9. \A s \in Setting, k \in Kinds : Allowed(s, k) \in T BY <1>4, <2>5 DEF Kinds
  <2> QED BY <2>3, <2>4, <2>8, <2>9
<1> QED BY <1>5, <1>6, <1>7

(* The entry's setting is put together from settings of the config.        *)
Blended ==
    /\ setting.budget \in Nat /\ \E s \in Setting : setting.budget = s.budget
    /\ setting.perMinute \in Nat /\ \E s \in Setting : setting.perMinute = s.perMinute

(* What assertOutboundAllowed chooses is a positive allowance of its kind. *)
LEMMA ChosenAllowance ==
    ASSUME Blended
    PROVE  /\ KindFor(setting) \in Kinds
           /\ MaxFor(setting) \in Nat /\ MaxFor(setting) > 0
           /\ MaxFor(setting) <= MaxOfKind(KindFor(setting)) /\ MaxFor(setting) <= LargestMax
<1> DEFINE k == KindFor(setting)
<1>1. GlobalMax \in Nat /\ GlobalMax > 0 /\ Setting # {} BY LimitAssumption
<1>2. /\ k \in Kinds
      /\ k = "budget" => setting.budget > 0
      /\ k = "bot" => setting.perMinute > 0
  BY DEF KindFor, Kinds
<1>3. /\ \A s : Allowed(s, "budget") = s.budget /\ Allowed(s, "bot") = s.perMinute /\ Allowed(s, "global") = GlobalMax
      /\ MaxFor(setting) = Allowed(setting, k)
  BY DEF Allowed, MaxFor
<1> HIDE DEF k
<1>4. \E s \in Setting : Allowed(setting, k) = Allowed(s, k) BY <1>1, <1>2, <1>3 DEF Blended, Kinds
<1>5. Allowed(setting, k) > 0 BY <1>1, <1>2, <1>3 DEF Blended, Kinds
<1> QED BY <1>2, <1>3, <1>4, <1>5, GreatestAllowance DEF k

(* The memories of one kind, and the losses that concern it: disconnectAll *)
(* clears the per-bot limiters alone.                                      *)
MemoryOfKind(k) == [r \in Replica |-> memory[r][k]]
MemoriesLost(k) == IF k = "bot" THEN forgets ELSE 0

(* The types, and the bounds of what the limiters were created with.       *)
BudgetShape ==
    /\ Blended
    /\ limiter \in [Replica -> [Kinds -> Nat]]
    /\ \A r \in Replica, k \in Kinds : limiter[r][k] <= MaxOfKind(k) /\ limiter[r][k] <= LargestMax
    /\ forgets \in Nat /\ refusal \in [kind : Kinds, max : Nat]
    /\ DOMAIN counter = Kinds /\ DOMAIN admitted = Kinds
    /\ DOMAIN memory = Replica /\ \A r \in Replica : DOMAIN memory[r] = Kinds

(* The inductive invariant.                                                *)
AllKept == \A k \in Kinds : Kept(admitted[k], counter[k], MemoryOfKind(k), MemoriesLost(k), MaxOfKind(k))

BudgetInv == BudgetShape /\ AllKept /\ RefusalHonest

(* It holds at the start, and each step keeps it.                          *)
LEMMA BudgetStarts == LimitInit => BudgetInv
<1> SUFFICES ASSUME LimitInit PROVE BudgetInv OBVIOUS
<1>1. LimitWindow \in Nat \ {0} /\ Setting \subseteq [budget : Nat, perMinute : Nat] BY LimitAssumption
<1>2. BudgetShape
  <2>1. Blended BY <1>1 DEF LimitInit, Blended
  <2>2. limiter = [r \in Replica |-> [k \in Kinds |-> 0]] BY DEF LimitInit
  <2>3. limiter \in [Replica -> [Kinds -> Nat]] BY <2>2
  <2>4. \A r \in Replica, k \in Kinds : limiter[r][k] = 0 BY <2>2
  <2>5. \A r \in Replica, k \in Kinds : limiter[r][k] <= MaxOfKind(k) /\ limiter[r][k] <= LargestMax
    BY <2>4, GreatestAllowance
  <2>6. /\ forgets \in Nat /\ DOMAIN counter = Kinds /\ DOMAIN admitted = Kinds
        /\ DOMAIN memory = Replica /\ \A r \in Replica : DOMAIN memory[r] = Kinds
    BY DEF LimitInit
  <2>7. refusal \in [kind : Kinds, max : Nat] BY DEF LimitInit, Kinds
  <2> QED BY <2>1, <2>3, <2>5, <2>6, <2>7 DEF BudgetShape
<1>3. ASSUME NEW k \in Kinds PROVE Kept(admitted[k], counter[k], MemoryOfKind(k), MemoriesLost(k), MaxOfKind(k))
  <2>1. admitted[k] = <<>> /\ counter[k] = [count |-> 0, left |-> 0] /\ MemoryOfKind(k) = [r \in Replica |-> <<>>]
    BY DEF LimitInit, MemoryOfKind
  <2> DEFINE none == [count |-> 0, left |-> 0]  empty == [r \in Replica |-> <<>>]
  <2>2. none \in KeyType /\ none.left = 0 BY <1>1 DEF KeyType
  <2>3. DOMAIN empty = Replica /\ \A r \in Replica : empty[r] = <<>> OBVIOUS
  <2> HIDE DEF none, empty
  <2>4. \A top : InOrder(<<>>, top) BY DEF InOrder
  <2>5. Recent(<<>>) = {} BY DEF Recent
  <2>6. \A S, N : Attributed(S, N, <<>>, none, empty, MemoriesLost(k), MaxOfKind(k)) BY <2>5 DEF Attributed
  <2>7. Owed(<<>>, none, empty) BY <2>2, <2>3 DEF Owed
  <2>8. Kept(<<>>, none, empty, MemoriesLost(k), MaxOfKind(k)) BY <2>2, <2>3, <2>4, <2>6, <2>7 DEF Kept
  <2> QED BY <2>1, <2>8 DEF none, empty
<1>4. RefusalHonest BY DEF LimitInit, RefusalHonest
<1> QED BY <1>2, <1>3, <1>4 DEF BudgetInv, AllKept

LEMMA ForgettingKeepsBudget == ASSUME BudgetInv, NEW q \in Replica, ForgetLimiters(q) PROVE BudgetInv'
<1>1. BudgetShape /\ AllKept /\ RefusalHonest BY DEF BudgetInv
<1>2. /\ limiter' = [limiter EXCEPT ![q]["bot"] = 0] /\ memory' = [memory EXCEPT ![q]["bot"] = <<>>]
      /\ forgets' = forgets + 1 /\ UNCHANGED <<setting, counter, admitted, refusal>>
  BY DEF ForgetLimiters
<1>3. "bot" \in Kinds BY DEF Kinds
<1>4. BudgetShape'
  <2>1. Blended' BY <1>1, <1>2 DEF BudgetShape, Blended
  <2>2. limiter' \in [Replica -> [Kinds -> Nat]] BY <1>1, <1>2 DEF BudgetShape
  <2>3. ASSUME NEW r \in Replica, NEW k \in Kinds
        PROVE  limiter'[r][k] <= MaxOfKind(k) /\ limiter'[r][k] <= LargestMax
    <3>1. limiter'[r][k] = limiter[r][k] \/ limiter'[r][k] = 0 BY <1>1, <1>2 DEF BudgetShape
    <3> QED BY <1>1, <3>1, GreatestAllowance DEF BudgetShape
  <2>4. DOMAIN memory' = Replica /\ \A r \in Replica : DOMAIN memory'[r] = Kinds
    BY <1>1, <1>2 DEF BudgetShape
  <2> QED BY <1>1, <1>2, <2>1, <2>2, <2>3, <2>4 DEF BudgetShape
<1>5. ASSUME NEW k \in Kinds
      PROVE  Kept(admitted'[k], counter'[k], MemoryOfKind(k)', MemoriesLost(k)', MaxOfKind(k))
  <2>1. Kept(admitted[k], counter[k], MemoryOfKind(k), MemoriesLost(k), MaxOfKind(k)) BY <1>1 DEF AllKept
  <2>2. CASE k = "bot"
    <3>1. MemoryOfKind(k)' = [MemoryOfKind(k) EXCEPT ![q] = <<>>]
      BY <1>1, <1>2, <1>3, <2>2 DEF MemoryOfKind, BudgetShape
    <3>2. MemoriesLost(k) = forgets /\ MemoriesLost(k)' = MemoriesLost(k) + 1 /\ MemoriesLost(k) \in Nat
      BY <1>1, <1>2, <2>2 DEF MemoriesLost, BudgetShape
    <3>3. Kept(admitted[k], counter[k], [MemoryOfKind(k) EXCEPT ![q] = <<>>], MemoriesLost(k) + 1, MaxOfKind(k))
      BY <2>1, <3>2, GreatestAllowance, KeptForgotten
    <3> QED BY <1>2, <3>1, <3>2, <3>3
  <2>3. CASE k # "bot"
    <3>1. MemoryOfKind(k)' = MemoryOfKind(k) BY <1>1, <1>2, <1>3, <2>3 DEF MemoryOfKind, BudgetShape
    <3>2. MemoriesLost(k)' = MemoriesLost(k) BY <2>3 DEF MemoriesLost
    <3> QED BY <1>2, <2>1, <3>1, <3>2
  <2> QED BY <2>2, <2>3
<1>6. RefusalHonest' BY <1>1, <1>2 DEF RefusalHonest
<1> QED BY <1>4, <1>5, <1>6 DEF BudgetInv, AllKept

LEMMA CopyingKeepsBudget == ASSUME BudgetInv, NEW s \in Setting, CopySetting(s) PROVE BudgetInv'
<1>1. BudgetShape /\ AllKept /\ RefusalHonest BY DEF BudgetInv
<1>2. UNCHANGED <<limiter, counter, memory, admitted, refusal, forgets>> BY DEF CopySetting
<1>3. s.budget \in Nat /\ s.perMinute \in Nat BY LimitAssumption
<1>4. PICK budget, perMinute :
          /\ budget \in {s.budget, IF s.budget > 0 THEN s.budget ELSE setting.budget}
          /\ perMinute \in {s.perMinute, IF s.perMinute > 0 THEN s.perMinute ELSE setting.perMinute}
          /\ setting' = [budget |-> budget, perMinute |-> perMinute]
  BY DEF CopySetting
<1>5. budget \in {s.budget, setting.budget} /\ perMinute \in {s.perMinute, setting.perMinute} BY <1>4
<1>6. setting'.budget = budget /\ setting'.perMinute = perMinute BY <1>4
<1>7. Blended' BY <1>1, <1>3, <1>5, <1>6 DEF BudgetShape, Blended
<1>8. BudgetShape' BY <1>1, <1>2, <1>7 DEF BudgetShape
<1>9. AllKept' BY <1>1, <1>2 DEF AllKept, MemoryOfKind, MemoriesLost
<1> QED BY <1>1, <1>2, <1>8, <1>9 DEF BudgetInv, RefusalHonest

LEMMA AgeingKeepsBudget == ASSUME BudgetInv, LimitTick PROVE BudgetInv'
<1>1. BudgetShape /\ AllKept BY DEF BudgetInv
<1>2. /\ counter' = [k \in Kinds |-> KeyAged(counter[k])]
      /\ memory' = [r \in Replica |-> [k \in Kinds |-> Alive(memory[r][k])]]
      /\ admitted' = [k \in Kinds |-> Alive(admitted[k])]
      /\ refusal' = [refusal EXCEPT !.max = 0]
      /\ UNCHANGED <<setting, limiter, forgets>>
  BY DEF LimitTick, KeyAged
<1> HIDE DEF KeyAged, Alive
<1>3. BudgetShape'
  <2>1. Blended' BY <1>1, <1>2 DEF BudgetShape, Blended
  <2>2. /\ DOMAIN counter' = Kinds /\ DOMAIN admitted' = Kinds
        /\ DOMAIN memory' = Replica /\ \A r \in Replica : DOMAIN memory'[r] = Kinds
    BY <1>2
  <2>3. refusal' \in [kind : Kinds, max : Nat] BY <1>1, <1>2 DEF BudgetShape
  <2> QED BY <1>1, <1>2, <2>1, <2>2, <2>3 DEF BudgetShape
<1>4. ASSUME NEW k \in Kinds
      PROVE  Kept(admitted'[k], counter'[k], MemoryOfKind(k)', MemoriesLost(k)', MaxOfKind(k))
  <2>1. Kept(admitted[k], counter[k], MemoryOfKind(k), MemoriesLost(k), MaxOfKind(k)) BY <1>1 DEF AllKept
  <2>2. MemoriesLost(k) \in Nat /\ MaxOfKind(k) \in Nat BY <1>1, GreatestAllowance DEF MemoriesLost, BudgetShape
  <2>3. Kept(Alive(admitted[k]), KeyAged(counter[k]), [r \in Replica |-> Alive(MemoryOfKind(k)[r])],
             MemoriesLost(k), MaxOfKind(k))
    BY <2>1, <2>2, KeptAges
  <2>4. MemoryOfKind(k)' = [r \in Replica |-> Alive(MemoryOfKind(k)[r])] BY <1>2 DEF MemoryOfKind
  <2>5. admitted'[k] = Alive(admitted[k]) /\ counter'[k] = KeyAged(counter[k]) /\ MemoriesLost(k)' = MemoriesLost(k)
    BY <1>2 DEF MemoriesLost
  <2> QED BY <2>3, <2>4, <2>5
<1>5. RefusalHonest'
  <2>1. ~(refusal'.max > 0)
    <3>1. refusal'.max = 0 BY <1>1, <1>2 DEF BudgetShape
    <3> QED BY <3>1
  <2> QED BY <2>1 DEF RefusalHonest
<1> QED BY <1>3, <1>4, <1>5 DEF BudgetInv, AllKept

(* What a check is called with.                                            *)
ChecksWith(k, max) ==
    /\ k \in Kinds /\ max \in Nat /\ max > 0 /\ max <= MaxOfKind(k) /\ max <= LargestMax

(* The verdict: a refusal needs a send to answer for it.                   *)
LEMMA AdmitKeepsRefusal ==
    ASSUME BudgetInv, NEW k \in Kinds, NEW ok \in BOOLEAN, NEW max \in Nat, Admit(k, ok, max),
           ok \/ Len(admitted[k]) > 0
    PROVE  /\ RefusalHonest' /\ refusal' \in [kind : Kinds, max : Nat]
           /\ DOMAIN admitted' = Kinds
           /\ \A j \in Kinds : j # k => admitted'[j] = admitted[j]
           /\ ok => admitted'[k] = Append(admitted[k], 2 * LimitWindow)
           /\ ~ok => admitted'[k] = admitted[k]
<1>1. DOMAIN admitted = Kinds BY DEF BudgetInv, BudgetShape
<1>2. CASE ok
  <2>1. admitted' = [admitted EXCEPT ![k] = Append(@, 2 * LimitWindow)] /\ refusal' = [kind |-> k, max |-> 0]
    BY <1>2 DEF Admit
  <2>2. refusal'.max = 0 /\ refusal' \in [kind : Kinds, max : Nat] BY <2>1
  <2> QED BY <1>1, <1>2, <2>1, <2>2 DEF RefusalHonest
<1>3. CASE ~ok
  <2>1. admitted' = admitted /\ refusal' = [kind |-> k, max |-> max] BY <1>3 DEF Admit
  <2>2. refusal'.kind = k /\ refusal' \in [kind : Kinds, max : Nat] BY <2>1
  <2> QED BY <1>1, <1>3, <2>1, <2>2 DEF RefusalHonest
<1> QED BY <1>2, <1>3

(* Redis answers: what it refuses, a key that is alive refuses.            *)
LEMMA RedisKeepsBudget ==
    ASSUME BudgetInv, NEW k, NEW max, ChecksWith(k, max), CheckRedis(k, max), UNCHANGED forgets
    PROVE  /\ AllKept' /\ RefusalHonest' /\ refusal' \in [kind : Kinds, max : Nat]
           /\ DOMAIN counter' = Kinds /\ DOMAIN admitted' = Kinds /\ memory' = memory
<1> DEFINE next == Incremented(counter[k], LargestMax)
           sent == admitted[k]
<1>1. BudgetShape /\ AllKept BY DEF BudgetInv
<1>2. k \in Kinds /\ max \in Nat /\ max > 0 /\ max <= MaxOfKind(k) /\ max <= LargestMax BY DEF ChecksWith
<1>3. /\ counter' = [counter EXCEPT ![k] = Incremented(@, LargestMax)]
      /\ Admit(k, counter'[k].count <= max, max) /\ memory' = memory
  BY DEF CheckRedis
<1>4. /\ DOMAIN counter' = Kinds /\ counter'[k] = next
      /\ \A j \in Kinds : j # k => counter'[j] = counter[j]
  BY <1>1, <1>2, <1>3 DEF BudgetShape
<1>5. MaxOfKind(k) \in Nat /\ LargestMax \in Nat /\ MemoriesLost(k) \in Nat
  BY <1>1, <1>2, GreatestAllowance DEF BudgetShape, MemoriesLost
<1>6. \A j \in Kinds : Kept(admitted[j], counter[j], MemoryOfKind(j), MemoriesLost(j), MaxOfKind(j))
  BY <1>1 DEF AllKept
<1> DEFINE key == counter[k]
<1>7. Kept(sent, key, MemoryOfKind(k), MemoriesLost(k), MaxOfKind(k)) BY <1>2, <1>6
<1>8. key \in KeyType /\ Owed(sent, key, MemoryOfKind(k)) BY <1>7 DEF Kept
<1>9. CountsOn(key, LargestMax, next) BY <1>5, <1>8, KeyCounts
<1>10. /\ next.count \in Nat /\ key.left \in Nat /\ (key.left = 0 => next.count = 1)
       /\ key.left > 0 => Len(sent) > 0
  BY <1>8, <1>9 DEF CountsOn, Owed
<1> DEFINE ok == next.count <= max
<1> HIDE DEF next, key, sent
<1>11. ~ok => key.left > 0 /\ ~(key.left = 0) /\ Len(sent) > 0 BY <1>2, <1>10
<1>12. Admit(k, ok, max) /\ ok \in BOOLEAN BY <1>3, <1>4
<1>13. ok \/ Len(admitted[k]) > 0 BY <1>11 DEF sent
<1> HIDE DEF ok
<1>14. /\ RefusalHonest' /\ refusal' \in [kind : Kinds, max : Nat] /\ DOMAIN admitted' = Kinds
       /\ \A j \in Kinds : j # k => admitted'[j] = admitted[j]
       /\ ok => admitted'[k] = Append(admitted[k], 2 * LimitWindow)
       /\ ~ok => admitted'[k] = admitted[k]
  BY <1>2, <1>12, <1>13, AdmitKeepsRefusal
<1>15. ASSUME NEW j \in Kinds
       PROVE  Kept(admitted'[j], counter'[j], MemoryOfKind(j)', MemoriesLost(j)', MaxOfKind(j))
  <2>1. MemoryOfKind(j)' = MemoryOfKind(j) /\ MemoriesLost(j)' = MemoriesLost(j) BY <1>3 DEF MemoryOfKind, MemoriesLost
  <2>2. CASE j # k BY <1>4, <1>6, <1>14, <2>1, <2>2
  <2>3. CASE j = k /\ ok
    <3>1. Incremented(key, LargestMax).count <= max BY <2>3 DEF ok, next, key
    <3>2. Kept(Append(sent, 2 * LimitWindow), Incremented(key, LargestMax), MemoryOfKind(k), MemoriesLost(k),
               MaxOfKind(k))
      BY <1>2, <1>5, <1>7, <3>1, KeptByCounter
    <3> QED BY <1>4, <1>14, <2>1, <2>3, <3>2 DEF next, key, sent
  <2>4. CASE j = k /\ ~ok
    <3>1. Kept(sent, Incremented(key, LargestMax), MemoryOfKind(k), MemoriesLost(k), MaxOfKind(k))
      BY <1>5, <1>7, <1>11, <2>4, KeptCounted
    <3> QED BY <1>4, <1>14, <2>1, <2>4, <3>1 DEF next, key, sent
  <2> QED BY <2>2, <2>3, <2>4
<1> QED BY <1>3, <1>4, <1>14, <1>15 DEF AllKept

(* Redis does not answer: the call may have been counted all the same, and *)
(* a memory that refuses is not empty.                                     *)
LEMMA MemoryKeepsBudget ==
    ASSUME BudgetInv, NEW q \in Replica, NEW k, NEW max, ChecksWith(k, max), CheckMemory(q, k, max),
           UNCHANGED forgets
    PROVE  /\ AllKept' /\ RefusalHonest' /\ refusal' \in [kind : Kinds, max : Nat]
           /\ DOMAIN counter' = Kinds /\ DOMAIN admitted' = Kinds
           /\ DOMAIN memory' = Replica /\ \A r \in Replica : DOMAIN memory'[r] = Kinds
<1> DEFINE next == Incremented(counter[k], LargestMax)
           key == counter[k]
           sent == admitted[k]
           mem == MemoryOfKind(k)
           ok == HasRoom(memory[q][k], max)
<1>1. BudgetShape /\ AllKept BY DEF BudgetInv
<1>2. k \in Kinds /\ max \in Nat /\ max > 0 /\ max <= MaxOfKind(k) /\ max <= LargestMax BY DEF ChecksWith
<1>3. /\ counter' \in {counter, [counter EXCEPT ![k] = Incremented(@, LargestMax)]}
      /\ memory' = IF ok THEN [memory EXCEPT ![q][k] = Append(@, LimitWindow)] ELSE memory
      /\ Admit(k, ok, max)
  BY DEF CheckMemory
<1>4. /\ DOMAIN counter' = Kinds /\ counter'[k] \in {key, next}
      /\ \A j \in Kinds : j # k => counter'[j] = counter[j]
  BY <1>1, <1>2, <1>3 DEF BudgetShape
<1>5. MaxOfKind(k) \in Nat /\ LargestMax \in Nat /\ MemoriesLost(k) \in Nat
  BY <1>1, <1>2, GreatestAllowance DEF BudgetShape, MemoriesLost
<1>6. \A j \in Kinds : Kept(admitted[j], counter[j], MemoryOfKind(j), MemoriesLost(j), MaxOfKind(j))
  BY <1>1 DEF AllKept
<1>7. Kept(sent, key, mem, MemoriesLost(k), MaxOfKind(k)) BY <1>2, <1>6
<1>8. InOrder(mem[q], LimitWindow) /\ Owed(sent, key, mem) /\ DOMAIN mem = Replica BY <1>7 DEF Kept
<1>9. LimitWindow \in Nat \ {0} BY LimitAssumption
<1>10. Len(mem[q]) \in Nat /\ (Len(mem[q]) > 0 => Youngest(mem[q]) \in 1..LimitWindow) BY <1>8, <1>9, Lasts
<1>11. mem[q] = memory[q][k] BY DEF MemoryOfKind
<1>12. ok <=> Len(mem[q]) < max BY <1>11 DEF HasRoom
<1>13. /\ DOMAIN memory' = Replica /\ \A r \in Replica : DOMAIN memory'[r] = Kinds
       /\ \A j \in Kinds : j # k => MemoryOfKind(j)' = MemoryOfKind(j)
       /\ ok => MemoryOfKind(k)' = [mem EXCEPT ![q] = Append(@, LimitWindow)]
       /\ ~ok => MemoryOfKind(k)' = mem
  <2>1. CASE ok BY <1>1, <1>2, <1>3, <2>1 DEF MemoryOfKind, BudgetShape
  <2>2. CASE ~ok BY <1>1, <1>3, <2>2 DEF MemoryOfKind, BudgetShape
  <2> QED BY <2>1, <2>2
<1>14. ok \in BOOLEAN BY DEF HasRoom
<1> HIDE DEF next, key, sent, mem, ok
<1>15. ~ok => Len(sent) > 0 /\ Youngest(sent) > LimitWindow
  <2>1. SUFFICES ASSUME ~ok PROVE Len(sent) > 0 /\ Youngest(sent) > LimitWindow OBVIOUS
  <2>2. Len(mem[q]) > 0 BY <1>2, <1>10, <1>12, <2>1
  <2>3. Len(sent) > 0 /\ Youngest(sent) >= LimitWindow + Youngest(mem[q]) BY <1>8, <2>2 DEF Owed
  <2>4. InOrder(sent, 2 * LimitWindow) /\ 2 * LimitWindow \in Nat \ {0} BY <1>7, <1>9 DEF Kept
  <2>5. Youngest(sent) \in 1..(2 * LimitWindow) BY <2>3, <2>4, Lasts
  <2> QED BY <1>9, <1>10, <2>2, <2>3, <2>5
<1>16. Admit(k, ok, max) BY <1>3
<1>17. ok \/ Len(admitted[k]) > 0 BY <1>15 DEF sent
<1>18. /\ RefusalHonest' /\ refusal' \in [kind : Kinds, max : Nat] /\ DOMAIN admitted' = Kinds
       /\ \A j \in Kinds : j # k => admitted'[j] = admitted[j]
       /\ ok => admitted'[k] = Append(sent, 2 * LimitWindow)
       /\ ~ok => admitted'[k] = sent
  BY <1>2, <1>14, <1>16, <1>17, AdmitKeepsRefusal DEF sent
<1>19. ASSUME NEW j \in Kinds
       PROVE  Kept(admitted'[j], counter'[j], MemoryOfKind(j)', MemoriesLost(j)', MaxOfKind(j))
  <2>1. MemoriesLost(j)' = MemoriesLost(j) BY DEF MemoriesLost
  <2>2. CASE j # k BY <1>4, <1>6, <1>13, <1>18, <2>1, <2>2
  <2>3. CASE j = k
    <3>1. ASSUME NEW s, NEW m, Kept(s, key, m, MemoriesLost(k), MaxOfKind(k)), Len(s) > 0, Youngest(s) > LimitWindow
          PROVE  Kept(s, counter'[k], m, MemoriesLost(k), MaxOfKind(k))
      <4>1. Kept(s, Incremented(key, LargestMax), m, MemoriesLost(k), MaxOfKind(k)) BY <1>5, <3>1, KeptCounted
      <4> QED BY <1>4, <3>1, <4>1 DEF next, key
    <3>2. CASE ok
      <4>1. Len(mem[q]) < MaxOfKind(k) BY <1>2, <1>5, <1>10, <1>12, <3>2
      <4> DEFINE more == Append(sent, 2 * LimitWindow)
      <4>2. /\ Kept(more, key, [mem EXCEPT ![q] = Append(@, LimitWindow)], MemoriesLost(k), MaxOfKind(k))
            /\ Len(more) > 0 /\ Youngest(more) > LimitWindow
        BY <1>5, <1>7, <4>1, KeptByMemory
      <4> HIDE DEF more
      <4>3. Kept(more, counter'[k], [mem EXCEPT ![q] = Append(@, LimitWindow)], MemoriesLost(k), MaxOfKind(k))
        BY <3>1, <4>2
      <4> QED BY <1>13, <1>18, <2>1, <2>3, <3>2, <4>3 DEF more
    <3>3. CASE ~ok
      <4>1. Kept(sent, counter'[k], mem, MemoriesLost(k), MaxOfKind(k)) BY <1>7, <1>15, <3>1, <3>3
      <4> QED BY <1>13, <1>18, <2>1, <2>3, <3>3, <4>1
    <3> QED BY <3>2, <3>3
  <2> QED BY <2>2, <2>3
<1> QED BY <1>4, <1>13, <1>18, <1>19 DEF AllKept

(* The whole check, with the maximum the limiter was created with.         *)
LEMMA CheckingKeepsBudget == ASSUME BudgetInv, NEW q \in Replica, CheckLimit(q) PROVE BudgetInv'
<1> DEFINE k == KindFor(setting)
           max == CachedMax(q, k)
<1>1. BudgetShape BY DEF BudgetInv
<1>2. /\ limiter' = [limiter EXCEPT ![q][k] = max] /\ UNCHANGED <<setting, forgets>>
      /\ CheckRedis(k, max) \/ CheckMemory(q, k, max)
  BY DEF CheckLimit
<1>3. /\ k \in Kinds /\ MaxFor(setting) \in Nat /\ MaxFor(setting) > 0
      /\ MaxFor(setting) <= MaxOfKind(k) /\ MaxFor(setting) <= LargestMax
  BY <1>1, ChosenAllowance DEF BudgetShape
<1>4. max = IF limiter[q][k] > 0 THEN limiter[q][k] ELSE MaxFor(setting) BY DEF CachedMax
<1> HIDE DEF k, max
<1>5. /\ limiter[q][k] \in Nat /\ limiter[q][k] <= MaxOfKind(k) /\ limiter[q][k] <= LargestMax
  BY <1>1, <1>3 DEF BudgetShape
<1>6. ChecksWith(k, max) BY <1>3, <1>4, <1>5 DEF ChecksWith
<1>7. limiter' \in [Replica -> [Kinds -> Nat]]
  <2>1. max \in Nat BY <1>6 DEF ChecksWith
  <2> QED BY <1>1, <1>2, <1>3, <2>1 DEF BudgetShape
<1>8. ASSUME NEW r \in Replica, NEW j \in Kinds PROVE limiter'[r][j] <= MaxOfKind(j) /\ limiter'[r][j] <= LargestMax
  <2>1. limiter'[r][j] = limiter[r][j] \/ (j = k /\ limiter'[r][j] = max) BY <1>1, <1>2 DEF BudgetShape
  <2> QED BY <1>1, <1>6, <2>1 DEF BudgetShape, ChecksWith
<1>9. Blended' BY <1>1, <1>2 DEF BudgetShape, Blended
<1>10. /\ AllKept' /\ RefusalHonest' /\ refusal' \in [kind : Kinds, max : Nat]
       /\ DOMAIN counter' = Kinds /\ DOMAIN admitted' = Kinds
       /\ DOMAIN memory' = Replica /\ \A r \in Replica : DOMAIN memory'[r] = Kinds
  <2>1. CASE CheckRedis(k, max)
    <3>1. CheckRedis(k, max) BY <2>1
    <3> QED BY <1>1, <1>2, <1>6, <3>1, RedisKeepsBudget DEF BudgetShape
  <2>2. CASE CheckMemory(q, k, max) BY <1>2, <1>6, <2>2, MemoryKeepsBudget
  <2> QED BY <1>2, <2>1, <2>2
<1> QED BY <1>1, <1>2, <1>7, <1>8, <1>9, <1>10 DEF BudgetInv, BudgetShape

(* The invariant is strong enough.                                         *)
LEMMA KeptBudget == BudgetInv => BudgetKept
<1> SUFFICES ASSUME BudgetInv PROVE BudgetKept OBVIOUS
<1>1. ASSUME NEW k \in Kinds
      PROVE  Cardinality({i \in DOMAIN admitted[k] : admitted[k][i] > LimitWindow})
                 <= (2 + Cardinality(Replica) + (IF k = "bot" THEN forgets ELSE 0)) * MaxOfKind(k)
  <2>1. Kept(admitted[k], counter[k], MemoryOfKind(k), MemoriesLost(k), MaxOfKind(k)) BY DEF BudgetInv, AllKept
  <2>2. MemoriesLost(k) \in Nat /\ MaxOfKind(k) \in Nat
    BY GreatestAllowance DEF MemoriesLost, BudgetInv, BudgetShape
  <2>3. Cardinality(Recent(admitted[k])) <= (2 + Cardinality(Replica) + MemoriesLost(k)) * MaxOfKind(k)
    BY <2>1, <2>2, AttributedBound DEF Kept
  <2>4. DOMAIN admitted[k] = 1..Len(admitted[k])
    <3>1. admitted[k] \in Seq(1..(2 * LimitWindow)) BY <2>1 DEF Kept, InOrder
    <3> QED BY <3>1, LenProperties
  <2>5. Recent(admitted[k]) = {i \in DOMAIN admitted[k] : admitted[k][i] > LimitWindow} BY <2>4 DEF Recent
  <2> QED BY <2>3, <2>5 DEF MemoriesLost
<1> QED BY <1>1 DEF BudgetKept, AdmittedBound, BudgetInv

(* For any number of workers, any settings and any window: whatever Redis  *)
(* does and however often the lead is lost, one window of time lets        *)
(* through no more than two windows of the shared counter and one of each  *)
(* memory that was started, and no call is refused without a send in the   *)
(* last two windows (assertOutboundAllowed).                               *)
THEOREM BudgetIsKept == LimitSpec => []BudgetKept
<1>1. BudgetInv /\ [LimitNext]_limitVars => BudgetInv'
  <2> SUFFICES ASSUME BudgetInv, [LimitNext]_limitVars PROVE BudgetInv' OBVIOUS
  <2>1. ASSUME NEW r \in Replica, CheckLimit(r) PROVE BudgetInv' BY <2>1, CheckingKeepsBudget
  <2>2. ASSUME NEW r \in Replica, ForgetLimiters(r) PROVE BudgetInv' BY <2>2, ForgettingKeepsBudget
  <2>3. ASSUME NEW s \in Setting, CopySetting(s) PROVE BudgetInv' BY <2>3, CopyingKeepsBudget
  <2>4. CASE LimitTick BY <2>4, AgeingKeepsBudget
  <2>5. CASE UNCHANGED limitVars
    BY <2>5 DEF limitVars, BudgetInv, BudgetShape, Blended, AllKept, RefusalHonest, MemoryOfKind, MemoriesLost
  <2> QED BY <2>1, <2>2, <2>3, <2>4, <2>5 DEF LimitNext
<1> QED BY <1>1, BudgetStarts, KeptBudget, PTL DEF LimitSpec

=============================================================================
