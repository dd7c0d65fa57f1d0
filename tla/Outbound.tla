-------------------------------- MODULE Outbound --------------------------------
(***************************************************************************)
(* executeRateLimited of workers/src/base-worker.ts for one bot: the gates *)
(* an action passes, the pauses it waits for, and the self healing that    *)
(* counts outcomes and pauses the bot.  Queue jobs and scripts call it at  *)
(* the same time; a call holds the bot's entry across its awaits, and a    *)
(* disconnect drops the entry.  The budget itself is RateLimits; here a    *)
(* check may refuse.                                                       *)
(***************************************************************************)
EXTENDS Integers, FiniteSets

CONSTANTS Caller,                  \* callers of executeRateLimited
          MaxDailyPosts, MaxDailyActions, FirstPostDay, WarmingDays,
          Few, Many,               \* 5 and 20 attempts in detectAnomaly
          PauseLength,             \* the 30 minutes of a pause, in clock units
          MaxDay, MaxCalls         \* bounds

ASSUME OutboundAssumption ==
    /\ MaxDailyPosts \in Nat \ {0} /\ MaxDailyActions \in Nat /\ WarmingDays \in Nat
    /\ Few \in Nat /\ Many \in Nat /\ PauseLength \in Nat \ {0} /\ IsFiniteSet(Caller)

VARIABLES entry,    \* the bot's BotEntry
          caller,   \* per caller, where its call is
          day,      \* days since the bot was first warmed, 0 the first
          calls,    \* history: calls started
          humanDelay  \* the config asks for human pauses

outVars == <<entry, caller, day, calls, humanDelay>>

Kind == {"post", "action", "exempt"}

(* id tells one entry object from the next.                                *)
FreshEntry(id, warmed) ==
    [id |-> id, running |-> FALSE, warming |-> warmed, started |-> day, lastDay |-> day,
     posts |-> 0, actions |-> 0, ok |-> 0, bad |-> 0, limited |-> 0,
     pause |-> 0, coolDown |-> FALSE]

Resting == [at |-> "idle", kind |-> "action", id |-> 0]

OutInit ==
    /\ day = 0 /\ calls = 0 /\ humanDelay \in BOOLEAN
    /\ \E w \in BOOLEAN : entry = FreshEntry(1, w)
    /\ caller = [c \in Caller |-> Resting]

-----------------------------------------------------------------------------
(* Mutant of WarmingAllows: the daily cap of posts is not read.            *)
WarmingAllowsUncapped(e, kind) ==
    \/ ~e.warming \/ kind = "exempt" \/ day - e.started >= WarmingDays
    \/ kind = "post" /\ day - e.started + 1 >= FirstPostDay
    \/ kind = "action" /\ e.actions < MaxDailyActions

(* warmingLimits behind the gate: a post asks for the posts of the day, an *)
(* action for the actions, which posts and exempt calls have raised too.   *)
WarmingAllows(e, kind) ==
    \/ ~e.warming \/ kind = "exempt" \/ day - e.started >= WarmingDays
    \/ kind = "post" /\ day - e.started + 1 >= FirstPostDay /\ e.posts < MaxDailyPosts
    \/ kind = "action" /\ e.actions < MaxDailyActions

(* The first gated call of a day starts its counts.                        *)
NewDay(e) == IF e.lastDay = day THEN e ELSE [e EXCEPT !.posts = 0, !.actions = 0, !.lastDay = day]

(* ensureBot: a call for a bot that is not tracked makes an entry.         *)
Ensured(e) == IF e.id > 0 THEN e ELSE FreshEntry(calls + 2, FALSE)

(* Up to the first await.  A paused bot refuses; so does the warming gate, *)
(* which has reset the day by then.                                        *)
BeginAction(c, kind) ==
    LET e == Ensured(entry)
        f == IF e.warming /\ kind # "exempt" THEN NewDay(e) ELSE e
    IN  /\ caller[c].at = "idle" /\ calls < MaxCalls
        /\ calls' = calls + 1
        /\ entry' = IF e.pause > 0 THEN e ELSE f
        /\ caller' = IF e.pause = 0 /\ WarmingAllows(f, kind)
                     THEN [caller EXCEPT ![c] = [at   |-> IF e.coolDown THEN "cooling" ELSE "budget",
                                                 kind |-> kind, id |-> e.id]]
                     ELSE caller
        /\ UNCHANGED <<day, humanDelay>>

Step(c, from, to) == caller[c].at = from /\ caller' = [caller EXCEPT ![c].at = to]

Cooled(c) == Step(c, "cooling", "budget") /\ UNCHANGED <<entry, day, calls, humanDelay>>

(* assertOutboundAllowed.  Exempt actions are never refused.               *)
BudgetRefuses(c) ==
    /\ caller[c].at = "budget" /\ caller[c].kind # "exempt"
    /\ caller' = [caller EXCEPT ![c] = Resting]
    /\ UNCHANGED <<entry, day, calls, humanDelay>>

(* applyHumanDelay looks the entry up again, and so makes one for a bot    *)
(* that was disconnected meanwhile.  Only publishing waits.                *)
BudgetAllows(c) ==
    /\ Step(c, "budget", IF humanDelay /\ caller[c].kind = "post" THEN "delay" ELSE "execute")
    /\ entry' = Ensured(entry)
    /\ UNCHANGED <<day, calls, humanDelay>>

Delayed(c) == Step(c, "delay", "execute") /\ UNCHANGED <<entry, day, calls, humanDelay>>

(* The call's entry is the bot's entry, unless a disconnect dropped it.    *)
ToEntry(c, e) == entry' = IF caller[c].id = entry.id THEN e ELSE entry

(* A success counts for the day it ends in, without a look at lastDay.     *)
Counted(e, kind) ==
    IF e.warming
    THEN [e EXCEPT !.actions = @ + 1, !.posts = IF kind = "post" THEN @ + 1 ELSE @, !.lastDay = day]
    ELSE e

ActionSucceeds(c) ==
    /\ caller[c].at = "execute"
    /\ ToEntry(c, Counted([entry EXCEPT !.ok = @ + 1], caller[c].kind))
    /\ caller' = [caller EXCEPT ![c] = Resting]
    /\ UNCHANGED <<day, calls, humanDelay>>

(* detectAnomaly, on counters that nothing resets while the entry lives.   *)
(* Its other rules ask for a change of proxy and an alert only.            *)
AlmostAllFail(e) == e.ok + e.bad >= Many /\ e.ok * 10 < e.ok + e.bad
MostlyLimited(e) == e.ok + e.bad >= Few /\ e.limited * 2 > e.ok + e.bad

(* planRotation and executeRotationActions, run by runSelfHealingCheck: of *)
(* the entry, a rotation changes its pause or its cool-down.               *)
Healed(e) ==
    IF AlmostAllFail(e) THEN [e EXCEPT !.pause = PauseLength]
    ELSE IF MostlyLimited(e) THEN [e EXCEPT !.coolDown = TRUE]
    ELSE e

ActionFails(c, limited) ==
    /\ caller[c].at = "execute"
    /\ ToEntry(c, Healed([entry EXCEPT !.bad = @ + 1, !.limited = IF limited THEN @ + 1 ELSE @]))
    /\ caller' = [caller EXCEPT ![c] = Resting]
    /\ UNCHANGED <<day, calls, humanDelay>>

(* runSelfHealingSweep, every 30 seconds, over the running bots.           *)
Sweep == /\ entry.running
         /\ entry' = Healed(entry)
         /\ UNCHANGED <<caller, day, calls, humanDelay>>

-----------------------------------------------------------------------------
(* buildCredentials puts the warming config on the entry once, so it       *)
(* starts anew with every new entry, from now or from the entry's last     *)
(* connect; markConnected.                                                 *)
Connected == /\ ~entry.running
             /\ entry' = [Ensured(entry) EXCEPT !.running = TRUE]
             /\ UNCHANGED <<caller, day, calls, humanDelay>>

BuildEntry == /\ \E w \in BOOLEAN, from \in 0..day :
                   LET e == Ensured(entry)
                   IN  entry' = IF w /\ ~e.warming
                                THEN [e EXCEPT !.warming = TRUE, !.started = from, !.lastDay = day]
                                ELSE e
              /\ UNCHANGED <<caller, day, calls, humanDelay>>

(* disconnect: bots.delete(botId).                                         *)
Disconnect == /\ entry.id > 0
              /\ entry' = FreshEntry(0, FALSE)
              /\ UNCHANGED <<caller, day, calls, humanDelay>>

OutTick == /\ entry' = [entry EXCEPT !.pause = IF @ > 0 THEN @ - 1 ELSE 0,
                                     !.coolDown = FALSE]
           /\ UNCHANGED <<caller, day, calls, humanDelay>>

Midnight == day < MaxDay /\ day' = day + 1 /\ UNCHANGED <<entry, caller, calls, humanDelay>>

CallStep(c) == \/ \E kind \in Kind : BeginAction(c, kind)
               \/ Cooled(c) \/ BudgetRefuses(c) \/ BudgetAllows(c) \/ Delayed(c)
               \/ ActionSucceeds(c) \/ \E limited \in BOOLEAN : ActionFails(c, limited)

OutNext == (\E c \in Caller : CallStep(c)) \/ Sweep \/ Connected \/ BuildEntry \/ Disconnect
               \/ OutTick \/ Midnight

OutSpec == OutInit /\ [][OutNext]_outVars

-----------------------------------------------------------------------------
(* Posts of this entry that passed the gate and have not answered.         *)
PostsUnderWay == {c \in Caller : /\ caller[c].at # "idle" /\ caller[c].kind = "post"
                                 /\ caller[c].id = entry.id}

(* The daily cap of a warming bot is read before three awaits and counted  *)
(* after them: calls that overlap pass it together, but no more than there *)
(* are callers, whatever midnights and disconnects fall in between.        *)
WarmingBound ==
    entry.warming /\ day - entry.started < WarmingDays =>
        entry.posts + Cardinality(PostsUnderWay) <= MaxDailyPosts - 1 + Cardinality(Caller)
=================================================================================
