--------------------------------- MODULE Cadence ---------------------------------
(***************************************************************************)
(* When a bot that lost its connection tries again: the health window, the *)
(* adaptive backoff and the sleep schedule behind scheduleReconnect of     *)
(* workers/src/base-worker.ts, and the pause before a published message.   *)
(* The clock is cut into slots, SlotsPerDay a day, and a schedule names    *)
(* the waking windows of each day of a short week.                         *)
(***************************************************************************)
EXTENDS Integers, Sequences, FiniteSets

CONSTANTS SlotsPerDay, DaysPerWeek,
          Schedules,     \* schedules a bot may have: per day, a set of [start, end]
          Jitter,        \* jitterMs, in slots
          Horizon,       \* 48 hours, in slots
          Recheck,       \* the 30 minutes of the fallback, in slots
          HealthWindow,  \* windowMs of the health score, in slots
          BackoffCap,    \* maxDelayMs, in base delays
          MaxReconnectAttempts,
          MaxOutcomes    \* bound: outcomes kept in the health window

ASSUME CadenceAssumption ==
    /\ SlotsPerDay \in Nat \ {0} /\ DaysPerWeek \in Nat \ {0} /\ Jitter \in Nat
    /\ Horizon \in Nat \ {0} /\ Recheck \in Nat \ {0} /\ HealthWindow \in Nat \ {0}
    /\ BackoffCap \in Nat \ {0}
    /\ Schedules \subseteq [0..(DaysPerWeek - 1) ->
                             SUBSET [start : 0..(SlotsPerDay - 1), end : 0..SlotsPerDay]]

VARIABLES schedule,  \* the bot's schedule
          clock,     \* the slot of the week
          outcomes,  \* HealthScoreTracker.outcomes, oldest first
          attempts,  \* entry.reconnectAttempts
          wake       \* the pending timer: slots until due, 0 for none; whether it was set
                      \* asleep, and with a transition within the horizon

cadenceVars == <<schedule, clock, outcomes, attempts, wake>>

NoWake == [due |-> 0, asleep |-> FALSE, soon |-> TRUE]

Least(m, n) == IF m < n THEN m ELSE n
Most(m, n) == IF m > n THEN m ELSE n

-----------------------------------------------------------------------------
(* shouldBeActive: every window is widened by the jitter at both ends.  A  *)
(* window over midnight is read on its own day only: it wakes the early    *)
(* hours of that day, and not those of the next.                           *)
ShouldBeActive(s, t) ==
    LET at == t % SlotsPerDay
        today == s[(t \div SlotsPerDay) % DaysPerWeek]
    IN  \E w \in today :
          LET start == Most(0, w.start - Jitter)
              end == Least(SlotsPerDay, w.end + Jitter)
          IN  IF w.start <= w.end THEN start <= at /\ at <= end
              ELSE start <= at \/ at <= end

(* nextTransition: the first change within the horizon, moved by a random  *)
(* jitter; without one, a recheck.                                         *)
Changes(s, t) == {n \in 1..Horizon : ShouldBeActive(s, t + n) # ShouldBeActive(s, t)}

(* Mutant of NextTransition: the jitter of a window's end is added again.  *)
NextTransitionDrifting(s, t) ==
    IF Changes(s, t) = {} THEN {Recheck}
    ELSE LET n == CHOOSE n \in Changes(s, t) : \A m \in Changes(s, t) : n <= m
         IN  {Most(1, n + 2 * j) : j \in -Jitter..Jitter}

NextTransition(s, t) ==
    IF Changes(s, t) = {} THEN {Recheck}
    ELSE LET n == CHOOSE n \in Changes(s, t) : \A m \in Changes(s, t) : n <= m
         IN  {Most(1, n + j) : j \in -Jitter..Jitter}

-----------------------------------------------------------------------------
(* calculateBackoff: doubled per attempt, once more when everything fails, *)
(* and capped.  The random parts only spread the result.                   *)
Backoff(attempt, good, total) ==
    LET base == 2^attempt
    IN  Least(base + (IF total = 0 THEN 0 ELSE (base * (total - good)) \div total), BackoffCap)

(* The successes the health score is computed from.                        *)
Good(seq) == Cardinality({i \in 1..Len(seq) : seq[i].ok})

(* record: append, then drop what has left the window.  The bound drops    *)
(* the oldest.                                                             *)
Recorded(ok) == LET all == Append(outcomes, [ok |-> ok, left |-> HealthWindow])
                IN  IF Len(all) > MaxOutcomes THEN Tail(all) ELSE all

CadenceInit ==
    /\ schedule \in Schedules /\ clock \in 0..(SlotsPerDay * DaysPerWeek - 1)
    /\ outcomes = <<>> /\ attempts = 0 /\ wake = NoWake

(* A failed connect while the circuit is closed (BotControl has the open   *)
(* one).  The last attempt forgets everything; the health window is read   *)
(* after the failure was recorded, the sleep schedule before the backoff.  *)
ConnectFails ==
    /\ wake.due = 0
    /\ IF attempts >= MaxReconnectAttempts THEN attempts' = 0 /\ outcomes' = <<>> /\ wake' = NoWake
       ELSE /\ attempts' = attempts + 1
            /\ outcomes' = Recorded(FALSE)
            /\ IF ~ShouldBeActive(schedule, clock)
               THEN \E d \in NextTransition(schedule, clock) :
                      wake' = [due |-> d, asleep |-> TRUE, soon |-> Changes(schedule, clock) # {}]
               ELSE wake' = [due |-> Backoff(attempts, Good(outcomes'), Len(outcomes')),
                             asleep |-> FALSE, soon |-> TRUE]
    /\ UNCHANGED <<schedule, clock>>

ConnectSucceeds == /\ wake.due = 0 /\ outcomes' = Recorded(TRUE) /\ attempts' = 0
                   /\ UNCHANGED <<schedule, clock, wake>>

(* When the timer fires the attempt follows, and succeeds or fails.        *)
SlotPasses ==
    /\ clock' = (clock + 1) % (SlotsPerDay * DaysPerWeek)
    /\ wake' = IF wake.due <= 1 THEN NoWake ELSE [wake EXCEPT !.due = @ - 1]
    /\ outcomes' = LET older == [i \in 1..Len(outcomes) |-> [outcomes[i] EXCEPT !.left = @ - 1]]
                   IN  SelectSeq(older, LAMBDA o : o.left > 0)
    /\ UNCHANGED <<schedule, attempts>>

CadenceNext == ConnectFails \/ ConnectSucceeds \/ SlotPasses

CadenceSpec == CadenceInit /\ [][CadenceNext]_cadenceVars

-----------------------------------------------------------------------------
(* The schedule as its author means it, without widening: t falls into a   *)
(* window of its day.                                                      *)
Waking(s, t) ==
    LET at == t % SlotsPerDay
    IN  \E w \in s[(t \div SlotsPerDay) % DaysPerWeek] :
          IF w.start <= w.end THEN at \in w.start..w.end ELSE at >= w.start \/ at <= w.end

(* A bot that lost its connection asleep tries again about when a waking   *)
(* window opens, no more than two jitters off: one widens the window, the  *)
(* other moves the timer.  A schedule without a change within the horizon  *)
(* is the exception: the bot tries in its sleep, every 30 minutes.         *)
SleepersWake ==
    wake.due = 1 /\ wake.asleep /\ wake.soon =>
        \E j \in -(2 * Jitter)..(2 * Jitter) :
            Waking(schedule, clock + 1 + j + SlotsPerDay * DaysPerWeek)
=================================================================================
