-------------------------------- MODULE BotMemory --------------------------------
(***************************************************************************)
(* What Redis keeps of one bot: the memory its worker reads and writes     *)
(* (core/src/memory/bot-memory.ts, redis-store.ts, and the conversation of *)
(* workers/src/index.ts), its trading state (workers/src/crypto/worker.ts),*)
(* and what the API clears and deletes of them                             *)
(* (api/src/services/memory.ts, routes/bots.ts).  A Redis name is the      *)
(* sequence of its segments between colons.                                *)
(***************************************************************************)
EXTENDS Integers, Sequences, FiniteSets, SequencesExt

CONSTANTS MemoryTask,  \* handlers that may overlap in the worker
          MaxHistory,  \* messages a history keeps
          MaxMessages  \* bound: messages said under one key, and the counter

ASSUME MemoryAssumption == MaxHistory \in Nat \ {0} /\ MaxMessages \in Nat

VARIABLES kept,       \* Redis: what is under each name
          holding,    \* per task: the key it has read, the history read, does it add to it
          rowExists,  \* the Bot row
          cleanup,    \* where a clear or a deletion of the API is, and the names it has found
          said,       \* history: the messages written under each key since it was last empty
          raced,      \* history: keys that changed under a task since then
          late        \* history: the worker wrote after the row was gone

memoryVars == <<kept, holding, rowExists, cleanup, said, raced, late>>

Updated == {"ai", "conv", "user"}   \* read, changed and written back
MemoryKey == Updated \cup {"note", "count"}

(* RedisMemoryStore.key prefixes the length of the bot's id ("bot" has     *)
(* three letters).                                                         *)
StoreName(key) == <<"mem", "3", "bot", key>>
CryptoNames == {<<"crypto", "daily", "bot", "today">>, <<"crypto", "positions", "bot">>,
                <<"crypto", "live", "bot">>}
StoreNames == {StoreName(key) : key \in MemoryKey}

Absent == [history |-> <<>>, expires |-> TRUE, there |-> FALSE]
Entry(history, expires) == [history |-> history, expires |-> expires, there |-> TRUE]
Nothing == [key |-> "none", read |-> <<>>, adds |-> FALSE]
NoCleanup == [at |-> "none", found |-> {}]

MemoryInit ==
    /\ kept = [n \in StoreNames \cup CryptoNames |-> Absent]
    /\ holding = [t \in MemoryTask |-> Nothing]
    /\ rowExists = TRUE /\ cleanup = NoCleanup
    /\ said = [key \in Updated |-> <<>>] /\ raced = {} /\ late = FALSE

Under(prefix) == {n \in DOMAIN kept : kept[n].there /\ IsPrefix(prefix, n)}
Holders(key) == {t \in MemoryTask : holding[t].key = key}

(* Writing, and removing names: a key that is removed while a task holds   *)
(* it comes back with all that the task has read.                          *)
Put(name, entry) == kept' = [kept EXCEPT ![name] = entry] /\ late' = (late \/ ~rowExists)

Drop(names) ==
    LET gone == {key \in Updated : StoreName(key) \in names}
    IN  /\ kept' = [n \in DOMAIN kept |-> IF n \in names THEN Absent ELSE kept[n]]
        /\ said' = [key \in Updated |-> IF key \in gone THEN <<>> ELSE said[key]]
        /\ raced' = (raced \ gone) \cup {key \in gone : Holders(key) # {}}

-----------------------------------------------------------------------------
(* The worker: a message is added to a history, the context of a chat is   *)
(* changed or a user is tracked, each from what was read before.           *)

(* recall, and the gets of setConversationContext, addConversationMessage  *)
(* and trackUser.                                                          *)
Load(t, key, adds) ==
    /\ holding[t] = Nothing /\ (~adds => key = "conv")
    /\ Len(said[key]) < MaxMessages /\ Len(kept[StoreName(key)].history) < MaxMessages
    /\ holding' = [holding EXCEPT ![t] = [key |-> key, read |-> kept[StoreName(key)].history, adds |-> adds]]
    /\ raced' = IF Holders(key) = {} THEN raced ELSE raced \cup {key}
    /\ UNCHANGED <<kept, rowExists, cleanup, said, late>>

LastOf(n, s) == IF Len(s) > n THEN SubSeq(s, Len(s) - n + 1, Len(s)) ELSE s

(* The question and its answer, or one message.                            *)
News(key) == LET n == Len(said[key]) IN IF key = "ai" THEN <<n + 1, n + 2>> ELSE <<n + 1>>

(* Mutant of WithNews: what is too much is cut off at the end.             *)
WithNewsCutShort(key, s, news) == SubSeq(s \o news, 1, IF Len(s \o news) > MaxHistory THEN MaxHistory ELSE Len(s \o news))

(* The AI's history is cut before the model is asked, and its answer comes *)
(* on top; a chat's history is cut as it is written; a user only counts.   *)
WithNews(key, s, news) ==
    CASE key = "ai"   -> LastOf(MaxHistory, Append(s, news[1])) \o Tail(news)
      [] key = "conv" -> LastOf(MaxHistory, s \o news)
      [] key = "user" -> s \o news

StoreBack(t) ==
    LET key  == holding[t].key
        news == IF holding[t].adds THEN News(key) ELSE <<>>
    IN  /\ holding[t] # Nothing
        /\ Put(StoreName(key), Entry(IF news = <<>> THEN holding[t].read
                                       ELSE WithNews(key, holding[t].read, news), TRUE))
        /\ said' = [said EXCEPT ![key] = @ \o news]
        /\ raced' = IF Holders(key) = {t} THEN raced ELSE raced \cup {key}
        /\ holding' = [holding EXCEPT ![t] = Nothing]
        /\ UNCHANGED <<rowExists, cleanup>>

(* The model does not answer, or Redis does not.                           *)
GivesUp(t) == /\ holding[t] # Nothing /\ holding' = [holding EXCEPT ![t] = Nothing]
              /\ UNCHANGED <<kept, rowExists, cleanup, said, raced, late>>

-----------------------------------------------------------------------------
(* A script's remember: without a lifetime it gets thirty days, with one   *)
(* that is not positive the entry has none.                                *)
Lifetimes == {"none", "some", "zero"}

Remember(lifetime) ==
    /\ Put(StoreName("note"), Entry(<<>>, lifetime # "zero"))
    /\ UNCHANGED <<holding, rowExists, cleanup, said, raced>>

Forget == Drop({StoreName("note")}) /\ UNCHANGED <<holding, rowExists, cleanup, late>>

(* increment: one script in Redis, which arms the expiry of a key that its *)
(* increment has made.                                                     *)
ArmedBy(count, by) == count = by

Increment(by) ==
    LET old   == kept[StoreName("count")]
        count == Len(old.history) + by
    IN  /\ count <= MaxMessages
        /\ Put(StoreName("count"), Entry([i \in 1..count |-> i],
                                         (old.there /\ old.expires) \/ ArmedBy(count, by)))
        /\ UNCHANGED <<holding, rowExists, cleanup, said, raced>>

(* The trading state: a spend claim expires, positions and the live ledger *)
(* do not.                                                                 *)
SaveTrading(n) == /\ Put(n, Entry(<<>>, n[2] = "daily"))
                  /\ UNCHANGED <<holding, rowExists, cleanup, said, raced>>

MemoryExpires(n) == /\ kept[n].there /\ kept[n].expires /\ Drop({n})
                    /\ UNCHANGED <<holding, rowExists, cleanup, late>>

-----------------------------------------------------------------------------
(* The API.  clearBotMemory scans for names of the bot and deletes what it *)
(* has found; deleteBotRuntimeState, after the row is gone, goes on to the *)
(* trading state.  Redis may fail at each step, and the rest is left out.  *)
BeginClear == /\ rowExists /\ cleanup.at = "none" /\ cleanup' = [at |-> "scan", found |-> {}]
              /\ UNCHANGED <<kept, holding, rowExists, said, raced, late>>

DeleteBot == /\ rowExists /\ cleanup.at = "none" /\ rowExists' = FALSE
             /\ cleanup' = [at |-> "scan", found |-> {}]
             /\ UNCHANGED <<kept, holding, said, raced, late>>

(* What the step scans for or deletes, and the step after it.              *)
Pattern == CASE cleanup.at = "scan"     -> <<"mem", "bot">>
             [] cleanup.at = "scanDays" -> <<"crypto", "daily", "bot">>

(* Mutant of StepAfter: the ledger of live trades is left.                 *)
StepAfterSkipping(at) ==
    CASE at = "scan" -> "memory"   [] at = "memory" -> IF rowExists THEN "none" ELSE "scanDays"
      [] at = "scanDays" -> "days" [] at = "days" -> "positions"
      [] at = "positions" -> "done"

StepAfter(at) ==
    CASE at = "scan" -> "memory"   [] at = "memory" -> IF rowExists THEN "none" ELSE "scanDays"
      [] at = "scanDays" -> "days" [] at = "days" -> "positions"
      [] at = "positions" -> "live" [] at = "live" -> "done"

Scanned ==
    /\ cleanup.at \in {"scan", "scanDays"}
    /\ cleanup' = [at |-> StepAfter(cleanup.at), found |-> Under(Pattern)]
    /\ UNCHANGED <<kept, holding, rowExists, said, raced, late>>

Doomed == IF cleanup.at \in {"positions", "live"} THEN {<<"crypto", cleanup.at, "bot">>} ELSE cleanup.found

Deleted == /\ cleanup.at \in {"memory", "days", "positions", "live"}
           /\ Drop(Doomed)
           /\ cleanup' = [at |-> StepAfter(cleanup.at), found |-> {}]
           /\ UNCHANGED <<holding, rowExists, late>>

CleanupFails == /\ cleanup.at \notin {"none", "done", "failed"}
                /\ cleanup' = [at |-> IF rowExists THEN "none" ELSE "failed", found |-> {}]
                /\ UNCHANGED <<kept, holding, rowExists, said, raced, late>>

(* deleteBotMemoryKey: the name is the one the API lists.                  *)
DeleteKey(key) == /\ rowExists /\ Drop({<<"mem", "bot", key>>})
                  /\ UNCHANGED <<holding, rowExists, cleanup, late>>

(* What handlers do with one key, and what else happens to all of them.    *)
HandlerStep(key) == \E t \in MemoryTask : \/ StoreBack(t) \/ GivesUp(t)
                                          \/ \E adds \in BOOLEAN : Load(t, key, adds)
ScriptStep == \/ Forget \/ \E lifetime \in Lifetimes : Remember(lifetime)
              \/ \E by \in 1..2 : Increment(by)
TradingStep == \E n \in CryptoNames : SaveTrading(n)
SharedStep == \/ \E n \in DOMAIN kept : MemoryExpires(n)
              \/ BeginClear \/ DeleteBot \/ Scanned \/ Deleted \/ CleanupFails
              \/ \E key \in MemoryKey : DeleteKey(key)

MemoryNext == (\E key \in Updated : HandlerStep(key)) \/ ScriptStep \/ TradingStep \/ SharedStep

MemorySpec == MemoryInit /\ [][MemoryNext]_memoryVars

-----------------------------------------------------------------------------
(* Nobody's messages are lost, or kept in another order, while handlers do *)
(* not overlap on the key: the history is the last of all that was said.   *)
(* The AI keeps one answer more than the history it shows the model.       *)
HistoryKept ==
    \A key \in Updated \ raced :
        kept[StoreName(key)].history =
            CASE key = "ai"   -> LastOf(MaxHistory + 1, said[key])
              [] key = "conv" -> LastOf(MaxHistory, said[key])
              [] key = "user" -> said[key]

(* Only an entry whose script asked for no lifetime stays for good ("an    *)
(* abandoned counter never leaks in Redis forever"), however many          *)
(* increments, expiries and updates meet.                                  *)
MemoryExpiresAtLast == \A n \in StoreNames : kept[n].there /\ n # StoreName("note") => kept[n].expires

(* A deletion that went through leaves no trading state, unless the worker *)
(* wrote after the row was gone.                                           *)
TradingStateGone == cleanup.at = "done" /\ ~late => \A n \in CryptoNames : ~kept[n].there

(* Nor, says the comment of deleteBotRuntimeState, any of the bot's memory.*)
MemoryGone == cleanup.at = "done" /\ ~late => \A n \in StoreNames : ~kept[n].there

(* Memory is neither lost to a race nor kept for ever.                     *)
MemoryKept == HistoryKept /\ MemoryExpiresAtLast
=================================================================================
