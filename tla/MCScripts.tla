------------------------------- MODULE MCScripts -------------------------------
(***************************************************************************)
(* Instances of the script registry, of script runs and of script configs  *)
(* for TLC.  They share no variable: what one needs of another (which      *)
(* scripts an event starts, what a row's config holds) it takes as any     *)
(* choice, so a behaviour moves one of them and "part" says which.         *)
(***************************************************************************)
EXTENDS ScriptRegistry, ScriptRun, ScriptConfig, TLC

CONSTANTS b1, b2, s1, s2, t1, t2, l1, l2, e1, e2

VARIABLE part

Bots      == {b1, b2}
Scripts   == {s1, s2}
Triggers  == {t1, t2}
Reloads   == {l1, l2}
Owner     == s1 :> b1 @@ s2 :> b2
Intervals == {s1}
Cooldowns == s1 :> 2 @@ s2 :> 0

Events     == {e1, e2}
Do(k)      == [kind |-> k, span |-> 0]
Programs   == s1 :> <<Do("custom"), Do("send")>>
           @@ s2 :> <<[kind |-> "if", span |-> 1], Do("count")>>
WithBudget == {s2}

AllPatterns == PatternIds
SomeWords   == {<<>>, <<400, 1>>, <<400, 99>>, <<200, 199, 1>>, <<200, 200>>, <<3, 5>>}
SomeLengths == {0, 400, 4001, 10001}
SomeNumbers == {0, 5, 100, 3000, 9000000}
SomeFilters ==
    {Filter("regex", 500), Filter("regex", 501), Filter("keyword", 500), Filter("role", 501)}
    \cup {[Filter("custom", n) EXCEPT !.async = a, !.forbidden = f] :
             n \in {500, 501}, a \in BOOLEAN, f \in BOOLEAN}
    \cup {[Filter("regex", 9) EXCEPT !.nested = a, !.optional = o] : a \in BOOLEAN, o \in BOOLEAN}
SomeActions ==
    {[Action("custom", 0, n) EXCEPT !.forbidden = f] : n \in {4000, 4001}, f \in BOOLEAN}
    \cup {[Action("delay", d, 0) EXCEPT !.ms = n] : d \in {5, 6}, n \in {300000, 300001}}
    \cup {[Action("webhook", 1, 20) EXCEPT !.urlAllowed = u, !.unsafeCondition = c] :
             u \in BOOLEAN, c \in BOOLEAN}
SomeDrafts  ==
    {Config(<<f>>, <<a>>) : f \in SomeFilters, a \in SomeActions}
    \cup {[Config(<<>>, <<>>) EXCEPT !.cooldown = {n}, !.maxExecutionMs = {m}] :
             n \in SomeNumbers, m \in {990, 1000, 6000010}}

Vars == <<regVars, runVars, cfgVars, part>>

Init ==
    /\ part \in {"registry", "run", "config"}
    /\ RegInit /\ RunInit /\ CfgInit
    /\ rows[s2] = NoRow
    /\ part # "registry" => rows[s1] = NoRow

Next ==
    \/ part = "registry" /\ RegNext /\ UNCHANGED <<runVars, cfgVars, part>>
    \/ part = "run" /\ RunNext /\ UNCHANGED <<regVars, cfgVars, part>>
    \/ part = "config" /\ CfgNext /\ UNCHANGED <<regVars, runVars, part>>

Spec == Init /\ [][Next]_Vars /\ RunFairness
=============================================================================
