------------------------------- MODULE MCWorkers -------------------------------
(***************************************************************************)
(* Instances of what surrounds a bot in its worker: the circuit breaker,   *)
(* the send budget, the outbound path, the proxies, the reconnect schedule *)
(* and the metrics, the crypto worker's feeds and trades, the polls of the *)
(* adapters without a gateway, Bluesky's session and the bot's memory.  A  *)
(* behaviour moves one of them, "part" says which.                         *)
(***************************************************************************)
EXTENDS CircuitBreaker, RateLimits, Outbound, Proxies, Cadence, Metrics, CryptoFeeds, Trading,
        PolledFeeds, AtpSession, BotMemory

VARIABLE part

workerVars == <<breaker, lastCall, limitVars, outVars, proxyVars, cadenceVars, metricsVars, feedVars, tradeVars,
                pollVars, atpVars, memoryVars, part>>

(* The variables of the adapters' own parts.                               *)
adapterVars == <<feedVars, tradeVars, pollVars, atpVars, memoryVars>>

Parts == {"breaker", "replicas", "budgets", "outbound", "proxies", "sticky", "cadence", "metrics",
          "feeds", "trading", "polled", "atp"}
         \cup {"ai", "conv", "user", "state"}

Budgets == {[budget |-> 0, perMinute |-> 1], [budget |-> 0, perMinute |-> 2],
            [budget |-> 1, perMinute |-> 0], [budget |-> 0, perMinute |-> 0]}

(* A human day, a late one over midnight, and a bot that never wakes.      *)
From(m, n) == [start |-> m, end |-> n]
Week(d0, d1, d2) == [d \in 0..2 |-> IF d = 0 THEN d0 ELSE IF d = 1 THEN d1 ELSE d2]
Weeks == {Week({From(2, 3)}, {}, {From(1, 5)}), Week({From(4, 1)}, {From(3, 3)}, {}), Week({}, {}, {})}

InitOf(p) ==
    /\ part = p /\ breaker = NewBreaker /\ lastCall = "none"
    /\ MetricsInit
    /\ LimitInit /\ (p \notin {"replicas", "budgets"} => setting.budget = 1)
    /\ p = "replicas" => setting.perMinute < 2
    /\ p = "budgets" => setting.perMinute > 0
    /\ OutInit /\ humanDelay = entry.warming /\ (p # "outbound" => ~humanDelay)
    /\ ProxyInit /\ row["q"] = NewProxy(0)
    /\ p \notin {"proxies", "sticky"} => row["p"] = NewProxy(0)
    /\ CadenceInit /\ (p # "cadence" => clock = 0 /\ schedule = Week({}, {}, {}))
    /\ FeedInit /\ (p # "feeds" => valid)
    /\ TradeInit /\ (p # "trading" => live)
    /\ PollInit /\ items = 0 /\ (p # "polled" => source = "comments")
    /\ AtpInit /\ MemoryInit

MCInit == \E p \in Parts : InitOf(p)

(* Replicas share one setting; one replica lives through its changes.      *)
ReplicaStep == LimitTick \/ \E r \in Replica : CheckLimit(r) \/ ForgetLimiters(r)
BudgetStep == LimitTick \/ CheckLimit("w1") \/ ForgetLimiters("w1")
                  \/ \E s \in Setting : s.budget = 0 /\ s.perMinute > 0 /\ CopySetting(s)

(* One bot connects through the pool while one row changes; two bots are   *)
(* bound to proxies.                                                       *)
ProxyStep == (RowChange /\ row'["q"] = row["q"])
                 \/ RefreshProxies \/ ProxyTick
                 \/ ApplyProxy("b1") \/ ProxySucceeds("b1") \/ ProxyFails("b1")
StickyPart == RefreshProxies \/ StickyStep \/ ProxyTick
                  \/ \E p \in Proxy, reachable \in BOOLEAN : ProbeProxy(p, reachable)

BreakerPart == part = "breaker" /\ Next
               /\ UNCHANGED <<limitVars, outVars, proxyVars, cadenceVars, metricsVars, adapterVars, part>>

(* The memory of one kind at a time, and what else happens to it.          *)
MemoryPart == \/ part \in Updated /\ (HandlerStep(part) \/ SharedStep)
              \/ part = "state" /\ (ScriptStep \/ TradingStep \/ SharedStep)

(* The crypto worker's two parts, the polls, Bluesky's session and memory. *)
AdapterPart ==
    /\ \/ part = "feeds" /\ FeedNext /\ UNCHANGED <<tradeVars, pollVars, atpVars, memoryVars>>
       \/ part = "trading" /\ TradeNext /\ UNCHANGED <<feedVars, pollVars, atpVars, memoryVars>>
       \/ part = "polled" /\ PollNext /\ UNCHANGED <<feedVars, tradeVars, atpVars, memoryVars>>
       \/ part = "atp" /\ AtpNext /\ UNCHANGED <<feedVars, tradeVars, pollVars, memoryVars>>
       \/ MemoryPart /\ UNCHANGED <<feedVars, tradeVars, pollVars, atpVars>>
    /\ UNCHANGED <<breaker, lastCall, limitVars, outVars, proxyVars, cadenceVars, metricsVars, part>>

OtherPart ==
    /\ \/ /\ (part = "replicas" /\ ReplicaStep) \/ (part = "budgets" /\ BudgetStep)
          /\ UNCHANGED <<outVars, proxyVars, cadenceVars, metricsVars>>
       \/ part = "outbound" /\ OutNext /\ UNCHANGED <<limitVars, proxyVars, cadenceVars, metricsVars>>
       \/ /\ (part = "proxies" /\ ProxyStep) \/ (part = "sticky" /\ StickyPart)
          /\ UNCHANGED <<limitVars, outVars, cadenceVars, metricsVars>>
       \/ part = "cadence" /\ CadenceNext /\ UNCHANGED <<limitVars, outVars, proxyVars, metricsVars>>
       \/ part = "metrics" /\ MetricsNext /\ UNCHANGED <<limitVars, outVars, proxyVars, cadenceVars>>
    /\ UNCHANGED <<breaker, lastCall, adapterVars, part>>

MCNext == BreakerPart \/ OtherPart \/ AdapterPart

MCSpec == MCInit /\ [][MCNext]_workerVars

(* Scripts and trading alone with the memory.                              *)
StateSpec == InitOf("state") /\ [][MCNext]_workerVars
================================================================================
