--------------------------------- MODULE Proxies ---------------------------------
(***************************************************************************)
(* The proxy pool: the rows the admin routes edit and probe                *)
(* (api/src/routes/proxies.ts), the copy a worker refreshes from them and  *)
(* selects from (core/src/proxy/proxy-pool.ts, base-worker.ts), and the    *)
(* sticky sessions that bind a bot to a proxy for a while                  *)
(* (core/src/proxy/sticky-sessions.ts).  Health is the code's score in     *)
(* fives; a rest is the clock units left of a failure's cooldown, a bond   *)
(* those left of a binding.                                                *)
(***************************************************************************)
EXTENDS Integers, FiniteSets

CONSTANTS Proxy, Client,   \* proxies, and the bots that use them
          MaxBots,         \* maxBotsPerProxy
          BondLength,      \* stickyDurationMs, in clock units
          RestLength       \* FAILURE_COOLDOWN_MS, in clock units

ASSUME ProxyAssumption ==
    /\ MaxBots \in Nat \ {0} /\ BondLength \in Nat \ {0} /\ RestLength \in Nat \ {0}
    /\ IsFiniteSet(Proxy) /\ IsFiniteSet(Client) /\ "none" \notin Proxy

VARIABLES row,      \* Proxy rows: priority, enabled, health, rest, or None
          pool,     \* ProxyPool.list, the same shape
          using,    \* botProxyIds: the proxy of a bot's pending connect
          bond,     \* bindings: [proxy, left], left 0 once expired
          load      \* proxyLoad

proxyVars == <<row, pool, using, bond, load>>

NoProxy == [priority |-> -1, enabled |-> FALSE, health |-> 0, rest |-> 0]
NoBond == [proxy |-> "none", left |-> 0]
Full == 20
Boost == 1     \* HEALTH_BOOST_ON_SUCCESS
Decay == 5     \* HEALTH_DECAY_ON_FAILURE

NewProxy(p) == [priority |-> p, enabled |-> TRUE, health |-> Full, rest |-> 0]

ProxyInit ==
    /\ row \in [Proxy -> {NewProxy(0), NewProxy(1)}]
    /\ pool = [p \in Proxy |-> NoProxy]
    /\ using = [b \in Client |-> "none"]
    /\ bond = [b \in Client |-> NoBond]
    /\ load = [p \in Proxy |-> 0]

-----------------------------------------------------------------------------
(* The admin routes.  A probe that reaches the proxy restores it, one that *)
(* does not, or times out, rests it.                                       *)
CreateProxy(p, n) == row[p] = NoProxy /\ row' = [row EXCEPT ![p] = NewProxy(n)]
                     /\ UNCHANGED <<pool, using, bond, load>>

EditProxy(p, n, on) == row[p] # NoProxy /\ row' = [row EXCEPT ![p].priority = n, ![p].enabled = on]
                       /\ UNCHANGED <<pool, using, bond, load>>

DeleteProxy(p) == row[p] # NoProxy /\ row' = [row EXCEPT ![p] = NoProxy]
                  /\ UNCHANGED <<pool, using, bond, load>>

ProbeProxy(p, reachable) ==
    /\ row[p] # NoProxy
    /\ row' = [row EXCEPT ![p].health = IF reachable THEN Full ELSE 0,
                          ![p].rest = IF reachable THEN 0 ELSE RestLength]
    /\ UNCHANGED <<pool, using, bond, load>>

(* refreshProxies, on every reconcile: the enabled rows replace the list,  *)
(* with what this worker has learned about its proxies since.              *)
RefreshProxies ==
    /\ pool' = [p \in Proxy |-> IF row[p].enabled THEN row[p] ELSE NoProxy]
    /\ UNCHANGED <<row, using, bond, load>>

-----------------------------------------------------------------------------
Usable(p) == pool[p].enabled /\ pool[p].health > 0

TopTier(S) == {p \in S : \A q \in S : pool[q].priority <= pool[p].priority}

(* selectProxy: round robin over the top tier, any of its members.         *)
Selectable == TopTier({p \in Proxy : Usable(p) /\ pool[p].rest = 0})

(* applyProxy right before a connect; without a proxy it is direct.        *)
ApplyProxy(b) ==
    /\ IF Selectable = {} THEN using' = [using EXCEPT ![b] = "none"]
       ELSE \E p \in Selectable : using' = [using EXCEPT ![b] = p]
    /\ UNCHANGED <<row, pool, bond, load>>

(* markConnected and scheduleReconnect credit or blame the proxy once; a   *)
(* change of proxy by the self healing finds it only in between.           *)
ProxySucceeds(b) ==
    /\ using[b] # "none"
    /\ pool' = [p \in Proxy |-> IF p = using[b] /\ pool[p] # NoProxy
                                THEN [pool[p] EXCEPT !.health = IF @ + Boost > Full THEN Full ELSE @ + Boost]
                                ELSE pool[p]]
    /\ using' = [using EXCEPT ![b] = "none"]
    /\ UNCHANGED <<row, bond, load>>

ProxyFails(b) ==
    /\ using[b] # "none"
    /\ pool' = [p \in Proxy |-> IF p = using[b] /\ pool[p] # NoProxy
                                THEN [pool[p] EXCEPT !.health = IF @ > Decay THEN @ - Decay ELSE 0,
                                                     !.rest = RestLength]
                                ELSE pool[p]]
    /\ using' = [using EXCEPT ![b] = "none"]
    /\ UNCHANGED <<row, bond, load>>

-----------------------------------------------------------------------------
(* unbind lowers the load for a live bond only; an expired one that is     *)
(* replaced before cleanup sees it stays counted for ever.                 *)
Lowered(b) == IF bond[b].left > 0 /\ load[bond[b].proxy] > 0
              THEN [load EXCEPT ![bond[b].proxy] = @ - 1] ELSE load

Unbind(b) == /\ bond[b] # NoBond
             /\ load' = Lowered(b) /\ bond' = [bond EXCEPT ![b] = NoBond]
             /\ UNCHANGED <<row, pool, using>>

(* Mutant of Eligible: a proxy is eligible at its cap.                     *)
EligibleOverCap(l) == TopTier({p \in Proxy : Usable(p) /\ l[p] <= MaxBots})

Eligible(l) == TopTier({p \in Proxy : Usable(p) /\ l[p] < MaxBots})

(* getProxyForBot: a live bond to a usable proxy stands; otherwise the bot *)
(* is bound to an eligible one, or gets one from the pool without a bond.  *)
StickyProxy(b) ==
    LET live == bond[b].left > 0
        kept == live /\ Usable(bond[b].proxy)
        lower == IF live THEN Lowered(b) ELSE load
        left == IF live THEN [bond EXCEPT ![b] = NoBond] ELSE bond
    IN  /\ IF kept THEN UNCHANGED <<bond, load>>
           ELSE IF Eligible(lower) = {} THEN bond' = left /\ load' = lower
           ELSE \E p \in Eligible(lower) :
                  /\ bond' = [bond EXCEPT ![b] = [proxy |-> p, left |-> BondLength]]
                  /\ load' = [lower EXCEPT ![p] = @ + 1]
        /\ UNCHANGED <<row, pool, using>>

Expired == {b \in Client : bond[b] # NoBond /\ bond[b].left = 0}

(* cleanup, every now and then.                                            *)
CleanUp ==
    /\ Expired # {}
    /\ load' = [p \in Proxy |-> LET n == Cardinality({b \in Expired : bond[b].proxy = p})
                                IN  IF load[p] > n THEN load[p] - n ELSE 0]
    /\ bond' = [b \in Client |-> IF b \in Expired THEN NoBond ELSE bond[b]]
    /\ UNCHANGED <<row, pool, using>>

Less(n) == IF n > 0 THEN n - 1 ELSE 0

ProxyTick ==
    /\ row' = [p \in Proxy |-> [row[p] EXCEPT !.rest = Less(@)]]
    /\ pool' = [p \in Proxy |-> [pool[p] EXCEPT !.rest = Less(@)]]
    /\ bond' = [b \in Client |-> [bond[b] EXCEPT !.left = Less(@)]]
    /\ UNCHANGED <<using, load>>

RowChange == \E p \in Proxy : \/ \E n \in 0..1 : CreateProxy(p, n) \/ \E on \in BOOLEAN : EditProxy(p, n, on)
                              \/ DeleteProxy(p) \/ \E reachable \in BOOLEAN : ProbeProxy(p, reachable)

PoolStep == RefreshProxies \/ \E b \in Client : ApplyProxy(b) \/ ProxySucceeds(b) \/ ProxyFails(b)

StickyStep == CleanUp \/ \E b \in Client : StickyProxy(b) \/ Unbind(b)

ProxyNext == RowChange \/ PoolStep \/ StickyStep \/ ProxyTick

ProxySpec == ProxyInit /\ [][ProxyNext]_proxyVars

-----------------------------------------------------------------------------
(* A proxy is never shared by more bots than maxBotsPerProxy: its counter  *)
(* may run ahead of its bonds (replaced expired ones leak), never behind,  *)
(* and the counter is what admits.                                         *)
StickyCap ==
    \A p \in Proxy : LET bound == Cardinality({b \in Client : bond[b].proxy = p})
                     IN  bound <= load[p] /\ bound <= MaxBots
=================================================================================
