----------------------------- MODULE ScriptRegistry -----------------------------
(***************************************************************************)
(* Scripts between the database and the engine of one worker process:      *)
(* the API's script routes change rows and publish, the subscriber starts  *)
(* reloads that nobody serialises, a reload awaits its query between       *)
(* unregister and register, and events look scripts up in the trigger      *)
(* index and consume cooldowns.                                            *)
(*                                                                         *)
(* A script's actions and filters are left out; what a row carries here is *)
(* what decides whether it runs: its trigger and its enabled flag.         *)
(***************************************************************************)
EXTENDS Integers, Sequences, FiniteSets

CONSTANTS Bot, Trigger, Script,
          BotOf,        \* the bot a script row belongs to
          Cooldown,     \* minimum time between two firings of a script, 0 for none
          HasInterval,  \* the scripts whose config has an interval
          IntervalTrigger,
          Reload,       \* reload tasks that may be in flight at once
          NoRow, NoBot,
          MaxTime, MaxEdits, MaxBus

ASSUME RegistryAssumption ==
    /\ BotOf \in [Script -> Bot]
    /\ Cooldown \in [Script -> Nat]
    /\ HasInterval \subseteq Script /\ IntervalTrigger \in Trigger
    /\ MaxTime \in Nat /\ MaxEdits \in Nat /\ MaxBus \in Nat
    /\ NoRow \notin [trig : Trigger, on : BOOLEAN]
    /\ NoBot \notin Bot

VARIABLES
    rows,        \* the script table
    edits,       \* changes made through the API so far
    bus,         \* scripts-changed messages delivered and not yet handled
    subscribed,  \* script-sync listens on the channel
    scripts,     \* ScriptEngine.scripts: the registered keys
    byTrigger,   \* ScriptEngine.byTrigger
    cooldowns,   \* ScriptEngine.cooldowns, -1 for no entry
    reload,      \* the reload tasks in flight
    now,
    lastFiring,  \* when a script last ran for an event since cooldowns were wiped
    disturbed    \* bots whose scripts may differ from their rows: see AgreesUnlessDisturbed

dbVars     == <<rows, edits, bus, subscribed>>
engineVars == <<scripts, byTrigger, cooldowns, lastFiring>>
regVars    == <<dbVars, engineVars, reload, now, disturbed>>

Row == [trig : Trigger, on : BOOLEAN]
Key == [bot : Bot, trig : Trigger, id : Script]

(* A reload of one bot (unregister first), of every bot (bot = NoBot), or none. *)
Idle == [phase |-> "idle", bot |-> NoBot, todo |-> {}, got |-> {}, alone |-> FALSE]
ReloadTask ==
    [phase : {"idle", "asked", "answered"}, bot : Bot \cup {NoBot}, todo : SUBSET Bot,
     got : SUBSET Key, alone : BOOLEAN]

RegTypeOK ==
    /\ rows \in [Script -> Row \cup {NoRow}]
    /\ edits \in 0..MaxEdits
    /\ bus \in Seq(SUBSET Bot) /\ subscribed \in BOOLEAN
    /\ scripts \in SUBSET Key
    /\ byTrigger \in [Bot \X Trigger -> SUBSET Script]
    /\ cooldowns \in [Key -> -1..MaxTime] /\ lastFiring \in [Key -> -1..MaxTime]
    /\ reload \in [Reload -> ReloadTask]
    /\ now \in 0..MaxTime
    /\ disturbed \in SUBSET Bot

(***************************************************************************)
(* Engine: the map of scripts and the index by trigger.                    *)
(***************************************************************************)
ScriptKey(s, t) == [bot |-> BotOf[s], trig |-> t, id |-> s]

RebuildIndex(keys) ==
    [bt \in Bot \X Trigger |-> {k.id : k \in {x \in keys : x.bot = bt[1] /\ x.trig = bt[2]}}]

Register(keys, index, new) ==
    /\ scripts' = keys \cup new
    /\ byTrigger' = [bt \in Bot \X Trigger |->
           index[bt] \cup {k.id : k \in {x \in new : x.bot = bt[1] /\ x.trig = bt[2]}}]

UnregisterKeepingIndex(b) == scripts' = {k \in scripts : k.bot # b} /\ UNCHANGED byTrigger
Unregister(b) ==
    LET left == {k \in scripts : k.bot # b}
    IN  scripts' = left /\ byTrigger' = RebuildIndex(left)

(* cooldowns.delete(botId) names no key of the map: a bot's cooldowns survive. *)
ForgetCooldowns == cooldowns' = [k \in Key |-> -1] /\ UNCHANGED lastFiring
KeepCooldowns == UNCHANGED <<cooldowns, lastFiring>>
WipeCooldowns ==
    /\ cooldowns' = [k \in Key |-> -1]
    /\ lastFiring' = [k \in Key |-> -1]

Enabled(b) == {ScriptKey(s, rows[s].trig) :
                   s \in {x \in Script : rows[x] # NoRow /\ rows[x].on /\ BotOf[x] = b}}
EnabledAll == UNION {Enabled(b) : b \in Bot}

(***************************************************************************)
(* API: every change of a script publishes the bot's id.  A publish that   *)
(* nobody hears is lost; the change then waits for the next reload.        *)
(***************************************************************************)
Touches(task, b) == task.phase # "idle" /\ task.bot \in {b, NoBot}

NotAlone(bots) ==
    [l \in Reload |-> IF \E b \in bots : Touches(reload[l], b)
                      THEN [reload[l] EXCEPT !.alone = FALSE] ELSE reload[l]]

NotifyScriptsChanged(bots) ==
    \/ /\ subscribed /\ Len(bus) < MaxBus
       /\ bus' = Append(bus, bots)
       /\ UNCHANGED <<reload, disturbed>>
    \/ /\ bus' = bus
       /\ reload' = NotAlone(IF bots = {} THEN Bot ELSE bots)
       /\ disturbed' = disturbed \cup (IF bots = {} THEN Bot ELSE bots)

Edit(s, row, bots) ==
    /\ edits < MaxEdits
    /\ edits' = edits + 1
    /\ rows' = [rows EXCEPT ![s] = row]
    /\ NotifyScriptsChanged(bots)
    /\ UNCHANGED <<subscribed, engineVars, now>>

CreateScript(s) == rows[s] = NoRow /\ \E row \in Row : Edit(s, row, {BotOf[s]})
CloneScript(s, from) ==
    /\ rows[s] = NoRow /\ rows[from] # NoRow /\ BotOf[s] = BotOf[from]
    /\ Edit(s, [trig |-> rows[from].trig, on |-> FALSE], {BotOf[s]})
PatchScript(s)  == rows[s] # NoRow /\ \E row \in Row \ {rows[s]} : Edit(s, row, {BotOf[s]})
DeleteScript(s) == rows[s] # NoRow /\ Edit(s, NoRow, {BotOf[s]})
(* Deleting bots, one or in bulk, takes their scripts with them. *)
DeleteBots(bots) ==
    /\ edits < MaxEdits
    /\ edits' = edits + 1
    /\ rows' = [s \in Script |-> IF BotOf[s] \in bots THEN NoRow ELSE rows[s]]
    /\ NotifyScriptsChanged(bots)
    /\ UNCHANGED <<subscribed, engineVars, now>>
(* A restore writes rows of any bot and asks for a full reload. *)
RestoreScript(s) == \E row \in Row : rows[s] # row /\ Edit(s, row, {})

(***************************************************************************)
(* Worker: boot, script-sync and loadScripts.                              *)
(***************************************************************************)
Ask(l, b, todo) ==
    LET clash == \E m \in Reload \ {l} :
                     \E c \in (IF b = NoBot THEN Bot ELSE {b}) : Touches(reload[m], c)
        bots  == IF b = NoBot THEN Bot ELSE {b}
    IN  reload' = [NotAlone(bots) EXCEPT ![l] =
                      [phase |-> "asked", bot |-> b, todo |-> todo, got |-> {},
                       alone |-> ~clash]]

(* The message handler does not wait for the reload it starts: the next *)
(* message may start another while this one awaits its query.           *)
OnScriptsChanged(l) ==
    /\ bus # <<>> /\ reload[l].phase = "idle"
    /\ bus' = Tail(bus)
    /\ IF Head(bus) = {}
       THEN /\ Ask(l, NoBot, {})
            /\ UNCHANGED <<scripts, byTrigger>>
       ELSE \E b \in Head(bus) :
              /\ Unregister(b)
              /\ Ask(l, b, Head(bus) \ {b})
    /\ KeepCooldowns
    /\ UNCHANGED <<rows, edits, subscribed, now, disturbed>>

QueryAnswered(l) ==
    /\ reload[l].phase = "asked"
    /\ reload' = [reload EXCEPT
           ![l].phase = "answered",
           ![l].got = IF reload[l].bot = NoBot THEN EnabledAll ELSE Enabled(reload[l].bot)]
    /\ UNCHANGED <<dbVars, engineVars, now, disturbed>>

Settled(l, bots) ==
    disturbed' = IF reload[l].alone THEN disturbed \ bots ELSE disturbed \cup bots

LoadBot(l) ==
    LET b == reload[l].bot  todo == reload[l].todo
    IN  /\ reload[l].phase = "answered" /\ b # NoBot
        /\ Settled(l, {b})
        /\ KeepCooldowns
        /\ \/ /\ todo = {}
              /\ Register(scripts, byTrigger, reload[l].got)
              /\ reload' = [reload EXCEPT ![l] = Idle]
           \/ \E c \in todo :      \* the for loop goes on with the next bot
                 LET left == {k \in scripts \cup reload[l].got : k.bot # c}
                 IN  /\ scripts' = left /\ byTrigger' = RebuildIndex(left)
                     /\ Ask(l, c, todo \ {c})
        /\ UNCHANGED <<dbVars, now>>

LoadAll(l) ==
    /\ reload[l].phase = "answered" /\ reload[l].bot = NoBot
    /\ Register({}, RebuildIndex({}), reload[l].got)
    /\ WipeCooldowns
    /\ Settled(l, Bot)
    /\ reload' = [reload EXCEPT ![l] = Idle]
    /\ subscribed' = TRUE         \* after the boot load the process subscribes
    /\ UNCHANGED <<rows, edits, bus, now>>

(* The query fails: a targeted reload has already unregistered its bot. *)
QueryFails(l) ==
    /\ reload[l].phase = "asked"
    /\ LET bots == IF reload[l].bot = NoBot THEN Bot ELSE {reload[l].bot} \cup reload[l].todo
       IN  /\ disturbed' = disturbed \cup bots
           /\ reload' = [NotAlone(bots) EXCEPT ![l] = Idle]
    /\ subscribed' = (subscribed \/ reload[l].bot = NoBot)
    /\ UNCHANGED <<rows, edits, bus, engineVars, now>>

(* A new process: an empty engine, the full load first, the subscription after it. *)
Restart ==
    /\ \E l \in Reload :
         reload' = [m \in Reload |->
             IF m = l THEN [Idle EXCEPT !.phase = "asked", !.alone = TRUE] ELSE Idle]
    /\ subscribed' = FALSE /\ bus' = <<>>
    /\ Register({}, RebuildIndex({}), {})
    /\ WipeCooldowns
    /\ disturbed' = Bot
    /\ UNCHANGED <<rows, edits, now>>

(***************************************************************************)
(* Events: lookup in the index, cooldown, filters.                         *)
(***************************************************************************)
HasMatch(b, t) == byTrigger[<<b, t>>] # {}

Cooled(k) == Cooldown[k.id] = 0 \/ cooldowns[k] = -1 \/ now - cooldowns[k] >= Cooldown[k.id]

(* The cooldown is taken before the filters are asked: an event that the *)
(* filters reject uses it up.                                            *)
DispatchEvent(b, t) ==
    /\ HasMatch(b, t)
    /\ \E passing \in SUBSET byTrigger[<<b, t>>] :
         LET taken == {k \in {ScriptKey(s, t) : s \in byTrigger[<<b, t>>]} : Cooled(k)}
         IN  /\ passing \subseteq {k.id : k \in taken}
             /\ cooldowns' = [k \in Key |-> IF k \in taken /\ Cooldown[k.id] > 0
                                            THEN now ELSE cooldowns[k]]
             /\ lastFiring' = [k \in Key |-> IF k \in taken /\ k.id \in passing
                                             THEN now ELSE lastFiring[k]]
    /\ UNCHANGED <<dbVars, scripts, byTrigger, reload, now, disturbed>>

(* The interval timer of a leading process sends an interval event to every  *)
(* connected bot that has a script with an interval; how long the interval   *)
(* is does not matter to it.                                                 *)
IntervalBots == {k.bot : k \in {x \in scripts : x.id \in HasInterval}}
IntervalDispatch == \E b \in IntervalBots : DispatchEvent(b, IntervalTrigger)

Tick == now < MaxTime /\ now' = now + 1 /\ UNCHANGED <<dbVars, engineVars, reload, disturbed>>

RegInit ==
    /\ rows \in [Script -> Row \cup {NoRow}]
    /\ edits = 0 /\ bus = <<>> /\ subscribed = TRUE
    /\ scripts = EnabledAll /\ byTrigger = RebuildIndex(EnabledAll)
    /\ cooldowns = [k \in Key |-> -1] /\ lastFiring = [k \in Key |-> -1]
    /\ reload = [l \in Reload |-> Idle]
    /\ now = 0 /\ disturbed = {}

RegNext ==
    \/ \E s \in Script : CreateScript(s) \/ PatchScript(s) \/ DeleteScript(s) \/ RestoreScript(s)
    \/ \E s, f \in Script : CloneScript(s, f)
    \/ \E bots \in SUBSET Bot \ {{}} : DeleteBots(bots)
    \/ \E l \in Reload : \/ OnScriptsChanged(l) \/ QueryAnswered(l) \/ QueryFails(l)
                         \/ LoadBot(l) \/ LoadAll(l)
    \/ \E b \in Bot, t \in Trigger : DispatchEvent(b, t)
    \/ IntervalDispatch \/ Restart \/ Tick

RegSpec == RegInit /\ [][RegNext]_regVars

(***************************************************************************)
(* Properties.                                                             *)
(***************************************************************************)
(* The trigger index names exactly the registered scripts: however reloads *)
(* interleave, no event runs a script the map no longer has, and none that *)
(* it has is missed (script-engine.ts rebuildIndex, register).             *)
IndexAgrees == byTrigger = RebuildIndex(scripts)

(* With no message under way and no reload in flight, a bot runs exactly   *)
(* its enabled scripts, each under its current trigger, unless a publish   *)
(* was lost, a query failed, or two reloads of it overlapped since its     *)
(* last undisturbed reload.                                                *)
Pending(b) ==
    \/ \E i \in DOMAIN bus : bus[i] = {} \/ b \in bus[i]
    \/ \E l \in Reload : Touches(reload[l], b) \/ b \in reload[l].todo
AgreesUnlessDisturbed ==
    \A b \in Bot \ disturbed : ~Pending(b) => {k \in scripts : k.bot = b} = Enabled(b)

(* The registry serves the bots' scripts: every event finds what is        *)
(* registered, and what is registered is what the table says.              *)
RegistryAgrees == IndexAgrees /\ AgreesUnlessDisturbed

(* Two firings of a script with a cooldown are at least the cooldown apart, *)
(* whatever reloads of its bot come between them; only a full reload or a   *)
(* restart forgets the first.                                               *)
CooldownKept ==
    [][\A k \in Key : lastFiring'[k] # lastFiring[k] /\ lastFiring[k] # -1 /\ lastFiring'[k] # -1
          => lastFiring'[k] - lastFiring[k] >= Cooldown[k.id]]_regVars
=============================================================================
