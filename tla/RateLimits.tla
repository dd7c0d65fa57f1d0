------------------------------- MODULE RateLimits -------------------------------
(***************************************************************************)
(* The send budget of one action of one bot: assertOutboundAllowed of      *)
(* workers/src/base-worker.ts chooses a limiter, RedisRateLimiter counts   *)
(* in a Redis key that all worker processes share, and falls back to a     *)
(* sliding window in its own memory while Redis does not answer.  A time   *)
(* stamp and a key are kept as the clock units they still have to live.    *)
(***************************************************************************)
EXTENDS Integers, Sequences, FiniteSets, SequencesExt

CONSTANTS Replica,     \* worker processes
          Setting,     \* what a bot's config may hold: [budget, perMinute], 0 for none
          GlobalMax,   \* OUTBOUND_MAX_PER_WINDOW
          LimitWindow, \* the window, in clock units
          MaxForgets   \* bound: losses of leadership

ASSUME LimitAssumption ==
    /\ Setting # {} /\ Setting \subseteq [budget : Nat, perMinute : Nat]
    /\ IsFiniteSet(Setting) /\ IsFiniteSet(Replica)
    /\ GlobalMax \in Nat \ {0} /\ LimitWindow \in Nat \ {0}

VARIABLES setting,   \* what the bot's entry holds
          limiter,   \* per replica and kind: maxRequests of the cached limiter, 0 for none
          counter,   \* per kind: the Redis key, its count and what is left of its TTL
          memory,    \* per replica and kind: the limiter's own window
          admitted,  \* history, per kind: the sends let through in the last two windows
          refusal,   \* history: kind and maxRequests of the last check, if it refused
          forgets    \* history: cleared limiter caches

limitVars == <<setting, limiter, counter, memory, admitted, refusal, forgets>>

Kinds == {"budget", "bot", "global"}

LargestMax == Max({GlobalMax} \cup {s.budget : s \in Setting} \cup {s.perMinute : s \in Setting})

LimitInit ==
    /\ setting \in Setting
    /\ limiter = [r \in Replica |-> [k \in Kinds |-> 0]]
    /\ counter = [k \in Kinds |-> [count |-> 0, left |-> 0]]
    /\ memory = [r \in Replica |-> [k \in Kinds |-> <<>>]]
    /\ admitted = [k \in Kinds |-> <<>>]
    /\ refusal = [kind |-> "global", max |-> 0]
    /\ forgets = 0

-----------------------------------------------------------------------------
(* Per-action budgets win over the per-minute budget, and that over the    *)
(* global one.  resolveActionBudget has already taken the action's own     *)
(* override or the default.                                                *)
KindFor(s) == IF s.budget > 0 THEN "budget" ELSE IF s.perMinute > 0 THEN "bot" ELSE "global"

Allowed(s, k) == IF k = "budget" THEN s.budget ELSE IF k = "bot" THEN s.perMinute ELSE GlobalMax
MaxFor(s) == Allowed(s, KindFor(s))

(* The limiter keeps the maximum it was created with.                      *)
CachedMax(r, k) == IF limiter[r][k] > 0 THEN limiter[r][k] ELSE MaxFor(setting)

(* Mutant of Incremented: INCR and PEXPIRE on every call, the branch for   *)
(* clients without eval, extends the life of the key each time.            *)
IncrementedRearming(c, max) ==
    [count |-> IF c.left = 0 THEN 1 ELSE IF c.count > max THEN c.count ELSE c.count + 1,
     left  |-> LimitWindow]

(* incrementAtomic: a new key lives for one window.  The count stops one   *)
(* above the largest maximum: every larger one is refused alike.           *)
Incremented(c, max) ==
    IF c.left = 0 THEN [count |-> 1, left |-> LimitWindow]
    ELSE [c EXCEPT !.count = IF @ > max THEN @ ELSE @ + 1]

(* RateLimiter.check: room in the sliding window.                          *)
HasRoom(window, max) == Len(window) < max

Admit(k, ok, max) ==
    IF ok THEN /\ admitted' = [admitted EXCEPT ![k] = Append(@, 2 * LimitWindow)]
               /\ refusal' = [kind |-> k, max |-> 0]
    ELSE refusal' = [kind |-> k, max |-> max] /\ UNCHANGED admitted

(* Redis answers; it does not, before or after it has counted the call,    *)
(* and the limiter's memory decides.                                       *)
CheckRedis(k, max) ==
    /\ counter' = [counter EXCEPT ![k] = Incremented(@, LargestMax)]
    /\ Admit(k, counter'[k].count <= max, max)
    /\ UNCHANGED memory

CheckMemory(r, k, max) ==
    LET ok == HasRoom(memory[r][k], max)
    IN  /\ counter' \in {counter, [counter EXCEPT ![k] = Incremented(@, LargestMax)]}
        /\ memory' = IF ok THEN [memory EXCEPT ![r][k] = Append(@, LimitWindow)] ELSE memory
        /\ Admit(k, ok, max)

CheckLimit(r) ==
    LET k == KindFor(setting)
        max == CachedMax(r, k)
    IN  /\ limiter' = [limiter EXCEPT ![r][k] = max]
        /\ CheckRedis(k, max) \/ CheckMemory(r, k, max)
        /\ UNCHANGED <<setting, forgets>>

(* A connect copies the bot's config to its entry: what is gone from the   *)
(* config stays there, except that the auto-start takes over a missing     *)
(* perMinute and a new entry takes over everything.                        *)
CopySetting(s) ==
    /\ \E budget \in {s.budget, IF s.budget > 0 THEN s.budget ELSE setting.budget},
          perMinute \in {s.perMinute, IF s.perMinute > 0 THEN s.perMinute ELSE setting.perMinute} :
         /\ budget # s.budget \/ perMinute = s.perMinute
         /\ setting' = [budget |-> budget, perMinute |-> perMinute]
    /\ UNCHANGED <<limiter, counter, memory, admitted, refusal, forgets>>

(* disconnectAll on a lost lease: only botRateLimiters is cleared, and     *)
(* with a limiter its memory.                                              *)
ForgetLimiters(r) ==
    /\ forgets < MaxForgets /\ limiter[r]["bot"] > 0
    /\ limiter' = [limiter EXCEPT ![r]["bot"] = 0]
    /\ memory' = [memory EXCEPT ![r]["bot"] = <<>>]
    /\ forgets' = forgets + 1
    /\ UNCHANGED <<setting, counter, admitted, refusal>>

(* Stamps are in order: the filter drops a head.                           *)
Alive(window) ==
    LET gone == Cardinality({i \in 1..Len(window) : window[i] <= 1})
    IN  [i \in 1..(Len(window) - gone) |-> window[gone + i] - 1]

LimitTick ==
    /\ counter' = [k \in Kinds |-> LET c == counter[k] IN
                     IF c.left <= 1 THEN [count |-> 0, left |-> 0] ELSE [c EXCEPT !.left = @ - 1]]
    /\ memory' = [r \in Replica |-> [k \in Kinds |-> Alive(memory[r][k])]]
    /\ admitted' = [k \in Kinds |-> Alive(admitted[k])]
    /\ refusal' = [refusal EXCEPT !.max = 0]
    /\ UNCHANGED <<setting, limiter, forgets>>

LimitNext ==
    \/ \E r \in Replica : CheckLimit(r) \/ ForgetLimiters(r)
    \/ \E s \in Setting : CopySetting(s)
    \/ LimitTick

LimitSpec == LimitInit /\ [][LimitNext]_limitVars

-----------------------------------------------------------------------------
MaxOfKind(k) == Max({Allowed(s, k) : s \in Setting})

(* Whatever Redis does and whoever leads, one window of time lets through  *)
(* at most two full windows of the shared counter and one of each memory   *)
(* that was started: a fixed window may straddle, and a fallback counts    *)
(* alone (the header of redis-rate-limiter.ts calls it a sliding window).  *)
AdmittedBound == \A k \in Kinds :
    Cardinality({i \in DOMAIN admitted[k] : admitted[k][i] > LimitWindow})
        <= (2 + Cardinality(Replica) + (IF k = "bot" THEN forgets ELSE 0)) * MaxOfKind(k)

(* A refusal is owed to sends: one was let through in the last two windows, *)
(* so an exhausted budget comes back (the comment of incrementAtomic: a    *)
(* key is never orphaned without an expiry).  Two, since a call that was   *)
(* counted without an answer may have been refused for an older send.      *)
RefusalHonest == refusal.max > 0 => Len(admitted[refusal.kind]) > 0

(* The send budget neither leaks nor jams.                                 *)
BudgetKept == AdmittedBound /\ RefusalHonest
=================================================================================
