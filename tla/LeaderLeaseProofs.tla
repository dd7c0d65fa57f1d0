------------------------- MODULE LeaderLeaseProofs -------------------------
(***************************************************************************)
(* As long as no live holder loses the lease and no replica shuts down     *)
(* gracefully, leadership and connections are exclusive, for any number of *)
(* replicas, overlapping checks, crashes, failed Redis commands, failed    *)
(* connects and user requests.  The inductive invariant ties everything a  *)
(* replica does to the lease it holds.                                     *)
(***************************************************************************)
EXTENDS LeaderLease, TLAPS

(* A task that is not waiting for the answer of a leadership check. *)
AtWork(r, t) == task[r][t] \notin {"idle", "set", "get", "renew"}

LeadersHold   == \A r \in Replica : isLeader[r] => lease = r /\ r \in up
RenewersHold  == \A r \in Replica, t \in Tasks : task[r][t] = "renew" => lease = r /\ r \in up
WorkersLead   == \A r \in Replica, t \in Tasks : AtWork(r, t) => isLeader[r]
ConnectedLead == \A r \in Replica : conn[r] \/ timer[r] = "armed" => isLeader[r]
NoShutdown    == \A r \in Replica : task[r]["shutdown"] = "idle"

Exclusive == LeadersHold /\ RenewersHold /\ WorkersLead /\ ConnectedLead /\ NoShutdown

Orderly == TypeOK /\ Exclusive

IInv == TypeOK /\ (Undisturbed => Exclusive)

(* What a step of one task does to all tasks. *)
LEMMA GotoEffect ==
  ASSUME TypeOK, NEW r \in Replica, NEW t \in Tasks, NEW a \in Await, Goto(r, t, a)
  PROVE  /\ task' \in [Replica -> [Tasks -> Await]]
         /\ \A q \in Replica, u \in Tasks :
              task'[q][u] = IF q = r /\ u = t THEN a ELSE task[q][u]
BY DEF TypeOK, Goto

(* A process that ends leaves nothing behind. *)
LEMMA EndsEffect ==
  ASSUME TypeOK, NEW r \in Replica, Ends(r)
  PROVE  /\ task' \in [Replica -> [Tasks -> Await]]
         /\ \A q \in Replica, u \in Tasks :
              task'[q][u] = IF q = r THEN "idle" ELSE task[q][u]
BY DEF TypeOK, Ends, Await

LEMMA OrderlyInit == Init => Orderly
BY LeaseAssumption DEF Init, Orderly, Exclusive, TypeOK, LeadersHold, RenewersHold, WorkersLead,
   ConnectedLead, NoShutdown, AtWork, Await, Active, Tasks

(***************************************************************************)
(* Type correctness, one lemma per group of actions.                       *)
(***************************************************************************)
LEMMA CheckTypes ==
  ASSUME TypeOK, NEW r \in Replica, NEW c \in Checks,
         \/ SetLease(r, c) \/ GetLease(r, c) \/ RenewLease(r, c)
         \/ Paused(r, c) \/ CheckStarts(r, c)
  PROVE  TypeOK'
<1>0. c \in Tasks /\ {"set", "get", "renew", "pausing", "idle", "list", "stopping",
                      "wroteIdle", "wroteReconnecting"} \subseteq Await
  BY DEF Tasks, Await
<1>1. CASE SetLease(r, c)
  <2>1. task' \in [Replica -> [Tasks -> Await]]
    BY <1>0, <1>1, GotoEffect DEF SetLease, Led
  <2>2. isLeader' \in [Replica -> BOOLEAN]
    BY <1>1 DEF SetLease, Led, TypeOK
  <2>. QED
    BY <1>1, <2>1, <2>2 DEF SetLease, TypeOK
<1>2. CASE GetLease(r, c)
  <2>1. task' \in [Replica -> [Tasks -> Await]]
    BY <1>0, <1>2, GotoEffect DEF GetLease, NotLed
  <2>2. isLeader' \in [Replica -> BOOLEAN]
    BY <1>2 DEF GetLease, NotLed, TypeOK
  <2>. QED
    BY <1>2, <2>1, <2>2 DEF GetLease, TypeOK
<1>3. CASE RenewLease(r, c)
  BY <1>0, <1>3 DEF RenewLease, Led, Goto, TypeOK
<1>4. CASE Paused(r, c)
  <2>1. task' \in [Replica -> [Tasks -> Await]]
    BY <1>0, <1>4, GotoEffect DEF Paused, BeginDisconnect, Recorded
  <2>2. losing' \in [Replica -> BOOLEAN] /\ entry' \in [Replica -> BOOLEAN]
    BY <1>4 DEF Paused, BeginDisconnect, TypeOK
  <2>3. timer' \in [Replica -> {"none", "armed", "fired"}]
    BY <1>4 DEF Paused, BeginDisconnect, TypeOK
  <2>. QED
    BY <1>4, <2>1, <2>2, <2>3 DEF Paused, TypeOK
<1>5. CASE CheckStarts(r, c)
  BY <1>0, <1>5 DEF CheckStarts, Goto, TypeOK
<1>. QED
  BY <1>1, <1>2, <1>3, <1>4, <1>5

LEMMA DisturbTypes ==
  ASSUME TypeOK, NEW kind, Disturb(kind)
  PROVE  budget' \in [events : 0..MaxEvents, kinds : SUBSET Kinds]
BY LeaseAssumption DEF TypeOK, Disturb

LEMMA ConnectionTypes ==
  ASSUME TypeOK, NEW r \in Replica, NEW t \in Tasks,
         \/ Connects(r, t) \/ ConnectFails(r, t) \/ ConnectedWritten(r, t)
         \/ ErrorWritten(r, t) \/ Stopped(r, t) \/ DisconnectedWritten(r, t)
  PROVE  TypeOK'
<1>0. {"wroteRunning", "wroteError", "idle", "wroteIdle", "wroteReconnecting"} \subseteq Await
  BY DEF Await
<1>1. CASE Connects(r, t)
  BY <1>0, <1>1 DEF Connects, Goto, TypeOK
<1>2. CASE ConnectFails(r, t)
  <2>1. task' \in [Replica -> [Tasks -> Await]]
    BY <1>0, <1>2, GotoEffect DEF ConnectFails
  <2>. QED
    BY <1>2, <2>1, DisturbTypes DEF ConnectFails, TypeOK
<1>3. CASE ConnectedWritten(r, t)
  BY <1>0, <1>3 DEF ConnectedWritten, Goto, TypeOK, Active
<1>4. CASE ErrorWritten(r, t)
  <2>1. task' \in [Replica -> [Tasks -> Await]]
    BY <1>0, <1>4, GotoEffect DEF ErrorWritten
  <2>2. entry' \in [Replica -> BOOLEAN]
    BY <1>4 DEF ErrorWritten, TypeOK
  <2>3. timer' \in [Replica -> {"none", "armed", "fired"}]
    BY <1>4 DEF ErrorWritten, TypeOK
  <2>. QED
    BY <1>4, <2>1, <2>2, <2>3 DEF ErrorWritten, TypeOK
<1>5. CASE Stopped(r, t)
  <2>1. task' \in [Replica -> [Tasks -> Await]]
    BY <1>0, <1>5, GotoEffect DEF Stopped, Recorded
  <2>. QED
    BY <1>5, <2>1 DEF Stopped, TypeOK
<1>6. CASE DisconnectedWritten(r, t)
  <2>0. db' \in Active \cup {"idle", "error"}
    BY <1>6 DEF DisconnectedWritten, Active
  <2>1. CASE t = "shutdown"
    <3>1. Ends(r)
      BY <1>6, <2>1 DEF DisconnectedWritten
    <3>2. task' \in [Replica -> [Tasks -> Await]]
      BY <3>1, EndsEffect
    <3>. QED
      BY <1>6, <2>0, <3>1, <3>2 DEF DisconnectedWritten, Ends, TypeOK
  <2>2. CASE t # "shutdown"
    <3>1. task' \in [Replica -> [Tasks -> Await]]
      BY <1>0, <1>6, <2>2, GotoEffect DEF DisconnectedWritten
    <3>2. losing' \in [Replica -> BOOLEAN]
      BY <1>6, <2>2 DEF DisconnectedWritten, TypeOK
    <3>. QED
      BY <1>6, <2>0, <2>2, <3>1, <3>2 DEF DisconnectedWritten, TypeOK
  <2>. QED
    BY <2>1, <2>2
<1>. QED
  BY <1>1, <1>2, <1>3, <1>4, <1>5, <1>6

LEMMA ControlTypes ==
  ASSUME TypeOK, NEW r \in Replica, NEW t \in Tasks,
         \/ ReadStatus(r, t) \/ Starts(r, t) \/ Replaces(r, t) \/ Stops(r, t)
  PROVE  TypeOK'
<1>0. {"idle", "toStart", "toReplace", "toStop", "connecting", "stopping",
       "wroteIdle", "wroteReconnecting"} \subseteq Await
  BY DEF Await
<1>1. CASE ReadStatus(r, t)
  <2>1. PICK a \in {"idle", "toStart", "toReplace", "toStop"} : Goto(r, t, a)
    BY <1>1, Zenon DEF ReadStatus
  <2>2. task' \in [Replica -> [Tasks -> Await]]
    BY <1>0, <2>1, GotoEffect
  <2>. QED
    BY <1>1, <2>2 DEF ReadStatus, TypeOK
<1>2. CASE Starts(r, t)
  <2>1. task' \in [Replica -> [Tasks -> Await]]
    BY <1>0, <1>2, GotoEffect DEF Starts
  <2>2. entry' \in [Replica -> BOOLEAN]
    BY <1>2 DEF Starts, TypeOK
  <2>. QED
    BY <1>2, <2>1, <2>2 DEF Starts, TypeOK
<1>3. CASE Replaces(r, t)
  BY <1>0, <1>3 DEF Replaces, Goto, TypeOK
<1>4. CASE Stops(r, t)
  <2>1. task' \in [Replica -> [Tasks -> Await]]
    BY <1>0, <1>4, GotoEffect DEF Stops, BeginDisconnect, Recorded
  <2>2. entry' \in [Replica -> BOOLEAN]
    BY <1>4 DEF Stops, BeginDisconnect, TypeOK
  <2>3. timer' \in [Replica -> {"none", "armed", "fired"}]
    BY <1>4 DEF Stops, BeginDisconnect, TypeOK
  <2>. QED
    BY <1>4, <2>1, <2>2, <2>3 DEF Stops, TypeOK
<1>. QED
  BY <1>1, <1>2, <1>3, <1>4

LEMMA StarterTypes ==
  ASSUME TypeOK, NEW r \in Replica,
         \/ ReconcileStarts(r) \/ TimerFires(r) \/ ShutdownStarts(r)
         \/ \E j \in {"connect", "disconnect"} : JobStarts(r, j)
         \/ \E c \in Tasks : RedisFails(r, c)
         \/ JobRejected(r)
  PROVE  TypeOK'
<1>0. /\ {"idle", "list", "readConnect", "readDisconnect", "connecting", "release"} \subseteq Await
      /\ {"reconcile", "job", "attempt", "shutdown"} \subseteq Tasks
  BY DEF Await, Tasks
<1>1. CASE ReconcileStarts(r)
  BY <1>0, <1>1 DEF ReconcileStarts, Goto, TypeOK
<1>2. CASE TimerFires(r)
  BY <1>0, <1>2 DEF TimerFires, Goto, TypeOK
<1>3. CASE ShutdownStarts(r)
  <2>1. task' \in [Replica -> [Tasks -> Await]]
    BY <1>0, <1>3, GotoEffect DEF ShutdownStarts
  <2>. QED
    BY <1>3, <2>1, DisturbTypes DEF ShutdownStarts, TypeOK
<1>4. ASSUME NEW j \in {"connect", "disconnect"}, JobStarts(r, j)
      PROVE  TypeOK'
  <2>1. task' \in [Replica -> [Tasks -> Await]]
    BY <1>0, <1>4, GotoEffect DEF JobStarts
  <2>. QED
    BY <1>4, <2>1 DEF JobStarts, TypeOK
<1>5. ASSUME NEW c \in Tasks, RedisFails(r, c)
      PROVE  TypeOK'
  <2>1. task' \in [Replica -> [Tasks -> Await]]
    BY <1>0, <1>5, GotoEffect DEF RedisFails
  <2>. QED
    BY <1>5, <2>1, DisturbTypes DEF RedisFails, TypeOK
<1>6. CASE JobRejected(r)
  BY <1>6 DEF JobRejected, TypeOK
<1>. QED
  BY <1>1, <1>2, <1>3, <1>4, <1>5, <1>6

LEMMA ShutdownTypes ==
  ASSUME TypeOK, NEW r \in Replica, ShutdownStep(r)
  PROVE  TypeOK'
<1>0. /\ {"delete", "closing", "idle", "stopping", "wroteIdle", "wroteReconnecting"} \subseteq Await
      /\ "shutdown" \in Tasks
  BY DEF Await, Tasks
<1>1. ASSUME LeadershipStopped(r)
      PROVE  /\ task' \in [Replica -> [Tasks -> Await]]
             /\ timer' \in [Replica -> {"none", "armed", "fired"}]
  BY <1>0, <1>1 DEF LeadershipStopped, TypeOK
<1>2. CASE ReadsLease(r)
  <2>1. CASE lease = r
    <3>1. task' \in [Replica -> [Tasks -> Await]]
      BY <1>0, <1>2, <2>1, GotoEffect DEF ReadsLease
    <3>. QED
      BY <1>2, <2>1, <3>1 DEF ReadsLease, TypeOK
  <2>2. CASE lease # r
    BY <1>1, <1>2, <2>2 DEF ReadsLease, TypeOK
  <2>. QED
    BY <2>1, <2>2
<1>3. CASE DeletesLease(r)
  BY <1>1, <1>3 DEF DeletesLease, TypeOK
<1>4. CASE Closes(r)
  <2>1. CASE entry[r]
    <3>1. task' \in [Replica -> [Tasks -> Await]]
      BY <1>0, <1>4, <2>1, GotoEffect DEF Closes, BeginDisconnect, Recorded
    <3>2. entry' \in [Replica -> BOOLEAN] /\ timer' \in [Replica -> {"none", "armed", "fired"}]
      BY <1>4, <2>1 DEF Closes, BeginDisconnect, TypeOK
    <3>. QED
      BY <1>4, <2>1, <3>1, <3>2 DEF Closes, TypeOK
  <2>2. CASE ~entry[r]
    <3>1. Ends(r)
      BY <1>4, <2>2 DEF Closes
    <3>2. task' \in [Replica -> [Tasks -> Await]]
      BY <3>1, EndsEffect
    <3>. QED
      BY <1>4, <3>1, <3>2 DEF Closes, Ends, TypeOK
  <2>. QED
    BY <2>1, <2>2
<1>. QED
  BY <1>2, <1>3, <1>4 DEF ShutdownStep

LEMMA EnvironmentTypes ==
  ASSUME TypeOK,
         \/ \E r \in Replica : Crash(r) \/ Restart(r)
         \/ LeaseExpires \/ LeaseLost
         \/ \E i \in {"run", "stop"} : UserCalls(i)
  PROVE  TypeOK'
<1>1. ASSUME NEW r \in Replica, Crash(r)
      PROVE  TypeOK'
  <2>1. Ends(r) /\ task' \in [Replica -> [Tasks -> Await]]
    BY <1>1, EndsEffect DEF Crash
  <2>. QED
    BY <1>1, <2>1, DisturbTypes DEF Crash, Ends, TypeOK
<1>2. ASSUME NEW r \in Replica, Restart(r)
      PROVE  TypeOK'
  BY <1>2 DEF Restart, TypeOK
<1>3. CASE LeaseExpires
  BY <1>3 DEF LeaseExpires, TypeOK
<1>4. CASE LeaseLost
  BY <1>4, DisturbTypes DEF LeaseLost, TypeOK
<1>5. ASSUME NEW i \in {"run", "stop"}, UserCalls(i)
      PROVE  TypeOK'
  BY <1>5, DisturbTypes DEF UserCalls, TypeOK, Active
<1>. QED
  BY <1>1, <1>2, <1>3, <1>4, <1>5

(* The steps that Next takes, spelled out once for the proofs below. *)
LEMMA NextCases ==
  ASSUME Next
  PROVE  \/ \E r \in Replica, c \in Checks :
              SetLease(r, c) \/ GetLease(r, c) \/ RenewLease(r, c) \/ Paused(r, c) \/ CheckStarts(r, c)
         \/ \E r \in Replica, t \in Tasks :
              \/ Connects(r, t) \/ ConnectFails(r, t) \/ ConnectedWritten(r, t)
              \/ ErrorWritten(r, t) \/ Stopped(r, t) \/ DisconnectedWritten(r, t)
         \/ \E r \in Replica, t \in Tasks :
              ReadStatus(r, t) \/ Starts(r, t) \/ Replaces(r, t) \/ Stops(r, t)
         \/ \E r \in Replica :
              \/ ReconcileStarts(r) \/ TimerFires(r) \/ ShutdownStarts(r)
              \/ \E j \in {"connect", "disconnect"} : JobStarts(r, j)
              \/ \E c \in Tasks : RedisFails(r, c)
              \/ JobRejected(r)
         \/ \E r \in Replica : ShutdownStep(r)
         \/ \/ \E r \in Replica : Crash(r) \/ Restart(r)
            \/ LeaseExpires \/ LeaseLost
            \/ \E i \in {"run", "stop"} : UserCalls(i)
<1>1. ASSUME NEW r \in Replica, NEW t \in Tasks, CheckStarts(r, t)
      PROVE  t \in Checks
  BY <1>1 DEF CheckStarts
<1>2. ASSUME NEW r \in Replica, NEW t \in Tasks, CheckStep(r, t)
      PROVE  t \in Checks /\ (SetLease(r, t) \/ GetLease(r, t) \/ RenewLease(r, t) \/ Paused(r, t))
  BY <1>2 DEF CheckStep
<1>. QED
  BY <1>1, <1>2, Zenon DEF Next, TaskStep, ConnectionStep, ControlStep

(* Type correctness, for every value of the constants. *)
THEOREM TypesCorrect == Spec => []TypeOK
<1>1. Init => TypeOK
  BY OrderlyInit DEF Orderly
<1>2. TypeOK /\ [Next]_vars => TypeOK'
  <2>1. ASSUME TypeOK, Next
        PROVE  TypeOK'
    BY <2>1, NextCases, CheckTypes, ConnectionTypes, ControlTypes, StarterTypes,
       ShutdownTypes, EnvironmentTypes
  <2>2. ASSUME TypeOK, UNCHANGED vars
        PROVE  TypeOK'
    BY <2>2 DEF vars, TypeOK
  <2>. QED
    BY <2>1, <2>2
<1>. QED
  BY <1>1, <1>2, PTL DEF Spec

(***************************************************************************)
(* Exclusivity.  LocalStep is the shape of almost every action: one task   *)
(* of one replica moves on, and what the replica holds afterwards is       *)
(* covered by its lead.                                                    *)
(***************************************************************************)
LEMMA LocalStep ==
  ASSUME Orderly, NEW r \in Replica, NEW t \in Tasks, NEW a \in Await, Goto(r, t, a),
         r \in up, up' = up, a # "idle" => t # "shutdown",
         lease' = lease \/ (lease = NoReplica /\ lease' = r),
         \A q \in Replica : q # r => /\ isLeader'[q] = isLeader[q]
                                     /\ conn'[q] = conn[q] /\ timer'[q] = timer[q],
         isLeader[r] => isLeader'[r],
         isLeader'[r] => lease' = r,
         a = "renew" => lease' = r,
         a \notin {"idle", "set", "get", "renew"} => isLeader'[r],
         conn'[r] \/ timer'[r] = "armed" => isLeader'[r]
  PROVE  Exclusive'
<1>1. \A q \in Replica, u \in Tasks : task'[q][u] = IF q = r /\ u = t THEN a ELSE task[q][u]
  BY GotoEffect DEF Orderly
<1>2. \A q \in Replica : q # NoReplica
  BY LeaseAssumption
<1>3. LeadersHold'
  BY <1>2 DEF Orderly, Exclusive, LeadersHold
<1>4. RenewersHold'
  BY <1>1, <1>2 DEF Orderly, Exclusive, RenewersHold
<1>5. WorkersLead'
  BY <1>1 DEF Orderly, Exclusive, WorkersLead, AtWork
<1>6. ConnectedLead'
  BY DEF Orderly, Exclusive, ConnectedLead
<1>7. NoShutdown'
  BY <1>1 DEF Orderly, Exclusive, NoShutdown, Tasks
<1>. QED
  BY <1>3, <1>4, <1>5, <1>6, <1>7 DEF Exclusive

(* Facts of an exclusive state about one replica and one of its tasks. *)
LEMMA Held ==
  ASSUME Orderly, NEW r \in Replica, NEW t \in Tasks
  PROVE  /\ isLeader[r] => lease = r /\ r \in up
         /\ task[r][t] = "renew" => lease = r
         /\ AtWork(r, t) => isLeader[r] /\ t # "shutdown"
         /\ conn[r] \/ timer[r] = "armed" => isLeader[r]
         /\ task[r][t] # "idle" => t # "shutdown"
         /\ isLeader \in [Replica -> BOOLEAN] /\ conn \in [Replica -> BOOLEAN]
         /\ entry \in [Replica -> BOOLEAN]
         /\ timer \in [Replica -> {"none", "armed", "fired"}]
BY DEF Orderly, TypeOK, Exclusive, LeadersHold, RenewersHold, WorkersLead, ConnectedLead,
   NoShutdown, AtWork

LEMMA CheckExclusive ==
  ASSUME Orderly, NEW r \in Replica, NEW c \in Checks,
         \/ SetLease(r, c) \/ GetLease(r, c) \/ RenewLease(r, c)
         \/ Paused(r, c) \/ CheckStarts(r, c)
  PROVE  Exclusive'
<1>0. /\ c \in Tasks /\ c # "shutdown"
      /\ {"set", "get", "renew", "pausing", "idle", "list", "stopping",
          "wroteIdle", "wroteReconnecting"} \subseteq Await
  BY LeaseAssumption DEF Tasks, Await
<1>1. CASE SetLease(r, c)
  <2>1. CASE lease = NoReplica
    BY <1>0, <1>1, <2>1, Held, LocalStep DEF SetLease, Led, At
  <2>2. CASE lease # NoReplica
    BY <1>0, <1>1, <2>2, Held, LocalStep DEF SetLease, At
  <2>. QED
    BY <2>1, <2>2
<1>2. CASE GetLease(r, c)
  <2>1. CASE lease = r
    BY <1>0, <1>2, <2>1, Held, LocalStep DEF GetLease, At
  <2>2. CASE lease # r
    <3>1. ~isLeader[r]
      BY <1>0, <2>2, Held
    <3>. QED
      BY <1>0, <1>2, <2>2, <3>1, Held, LocalStep DEF GetLease, NotLed, At
  <2>. QED
    BY <2>1, <2>2
<1>3. CASE RenewLease(r, c)
  BY <1>0, <1>3, Held, LocalStep DEF RenewLease, Led, At
<1>4. CASE Paused(r, c)
  <2>1. isLeader[r]
    BY <1>0, <1>4, Held DEF Paused, At, AtWork
  <2>2. CASE entry[r]
    BY <1>0, <1>4, <2>1, <2>2, Held, LocalStep DEF Paused, BeginDisconnect, Recorded, At
  <2>3. CASE ~entry[r]
    BY <1>0, <1>4, <2>1, <2>3, Held, LocalStep DEF Paused, At
  <2>. QED
    BY <2>2, <2>3
<1>5. CASE CheckStarts(r, c)
  BY <1>0, <1>5, Held, LocalStep DEF CheckStarts, Idle, At
<1>. QED
  BY <1>1, <1>2, <1>3, <1>4, <1>5

LEMMA ConnectionExclusive ==
  ASSUME Orderly, NEW r \in Replica, NEW t \in Tasks,
         \/ Connects(r, t) \/ ConnectFails(r, t) \/ ConnectedWritten(r, t)
         \/ ErrorWritten(r, t) \/ Stopped(r, t) \/ DisconnectedWritten(r, t)
  PROVE  Exclusive'
<1>0. {"wroteRunning", "wroteError", "idle", "wroteIdle", "wroteReconnecting"} \subseteq Await
  BY DEF Await
<1>1. r \in up /\ isLeader[r] /\ t # "shutdown"
  BY Held DEF Connects, ConnectFails, ConnectedWritten, ErrorWritten, Stopped,
     DisconnectedWritten, At, AtWork
<1>2. CASE Connects(r, t)
  BY <1>0, <1>1, <1>2, Held, LocalStep DEF Connects
<1>3. CASE ConnectFails(r, t)
  BY <1>0, <1>1, <1>3, Held, LocalStep DEF ConnectFails
<1>4. CASE ConnectedWritten(r, t)
  BY <1>0, <1>1, <1>4, Held, LocalStep DEF ConnectedWritten
<1>5. CASE ErrorWritten(r, t)
  BY <1>0, <1>1, <1>5, Held, LocalStep DEF ErrorWritten
<1>6. CASE Stopped(r, t)
  BY <1>0, <1>1, <1>6, Held, LocalStep DEF Stopped, Recorded
<1>7. CASE DisconnectedWritten(r, t)
  BY <1>0, <1>1, <1>7, Held, LocalStep DEF DisconnectedWritten
<1>. QED
  BY <1>2, <1>3, <1>4, <1>5, <1>6, <1>7

LEMMA ControlExclusive ==
  ASSUME Orderly, NEW r \in Replica, NEW t \in Tasks,
         \/ ReadStatus(r, t) \/ Starts(r, t) \/ Replaces(r, t) \/ Stops(r, t)
  PROVE  Exclusive'
<1>0. {"idle", "toStart", "toReplace", "toStop", "connecting", "stopping",
       "wroteIdle", "wroteReconnecting"} \subseteq Await
  BY DEF Await
<1>1. r \in up /\ isLeader[r] /\ t # "shutdown"
  BY Held DEF ReadStatus, Starts, Replaces, Stops, At, AtWork
<1>2. CASE ReadStatus(r, t)
  <2>1. PICK a \in {"idle", "toStart", "toReplace", "toStop"} : Goto(r, t, a)
    BY <1>2, Zenon DEF ReadStatus
  <2>2. UNCHANGED <<lease, up, isLeader, conn, timer>>
    BY <1>2 DEF ReadStatus
  <2>. QED
    BY <1>0, <1>1, <2>1, <2>2, Held, LocalStep
<1>3. CASE Starts(r, t)
  BY <1>0, <1>1, <1>3, Held, LocalStep DEF Starts
<1>4. CASE Replaces(r, t)
  BY <1>0, <1>1, <1>4, Held, LocalStep DEF Replaces
<1>5. CASE Stops(r, t)
  BY <1>0, <1>1, <1>5, Held, LocalStep DEF Stops, BeginDisconnect, Recorded
<1>. QED
  BY <1>2, <1>3, <1>4, <1>5

LEMMA StarterExclusive ==
  ASSUME Orderly, Undisturbed', NEW r \in Replica,
         \/ ReconcileStarts(r) \/ TimerFires(r) \/ ShutdownStarts(r)
         \/ \E j \in {"connect", "disconnect"} : JobStarts(r, j)
         \/ \E c \in Tasks : RedisFails(r, c)
         \/ JobRejected(r)
  PROVE  Exclusive'
<1>0. /\ {"idle", "list", "readConnect", "readDisconnect", "connecting"} \subseteq Await
      /\ {"reconcile", "job", "attempt"} \subseteq Tasks
  BY DEF Await, Tasks
<1>1. CASE ReconcileStarts(r)
  BY <1>0, <1>1, Held, LocalStep DEF ReconcileStarts, Idle, At
<1>2. CASE TimerFires(r)
  BY <1>0, <1>2, Held, LocalStep DEF TimerFires, Idle, At
<1>3. CASE ShutdownStarts(r)
  BY <1>3 DEF ShutdownStarts, Disturb, Undisturbed
<1>4. ASSUME NEW j \in {"connect", "disconnect"}, JobStarts(r, j)
      PROVE  Exclusive'
  <2>1. PICK a \in {"idle", "readConnect", "readDisconnect"} : Goto(r, "job", a)
    BY <1>4 DEF JobStarts
  <2>2. r \in up /\ isLeader[r] /\ UNCHANGED <<lease, up, isLeader, conn, timer>>
    BY <1>4 DEF JobStarts, Idle, At
  <2>. QED
    BY <1>0, <2>1, <2>2, Held, LocalStep
<1>5. ASSUME NEW c \in Tasks, RedisFails(r, c)
      PROVE  Exclusive'
  BY <1>0, <1>5, Held, LocalStep DEF RedisFails, At
<1>6. CASE JobRejected(r)
  BY <1>6 DEF JobRejected, Orderly, Exclusive, LeadersHold, RenewersHold, WorkersLead,
     ConnectedLead, NoShutdown, AtWork
<1>. QED
  BY <1>1, <1>2, <1>3, <1>4, <1>5, <1>6

(* A process that is gone, or not yet back, holds nothing. *)
LEMMA EnvironmentExclusive ==
  ASSUME Orderly, Undisturbed',
         \/ \E r \in Replica : Crash(r) \/ Restart(r)
         \/ LeaseExpires \/ LeaseLost
         \/ \E i \in {"run", "stop"} : UserCalls(i)
  PROVE  Exclusive'
<1>1. ASSUME NEW r \in Replica, Crash(r)
      PROVE  Exclusive'
  <2>1. /\ Ends(r) /\ lease' = lease
        /\ \A q \in Replica, u \in Tasks :
             task'[q][u] = IF q = r THEN "idle" ELSE task[q][u]
    BY <1>1, EndsEffect DEF Crash, Orderly
  <2>. QED
    BY <2>1 DEF Ends, Orderly, TypeOK, Exclusive, LeadersHold, RenewersHold, WorkersLead,
       ConnectedLead, NoShutdown, AtWork, Tasks
<1>2. ASSUME NEW r \in Replica, Restart(r)
      PROVE  Exclusive'
  BY <1>2 DEF Restart, Orderly, Exclusive, LeadersHold, RenewersHold, WorkersLead,
     ConnectedLead, NoShutdown, AtWork
<1>3. CASE LeaseExpires
  BY <1>3 DEF LeaseExpires, Orderly, Exclusive, LeadersHold, RenewersHold, WorkersLead,
     ConnectedLead, NoShutdown, AtWork
<1>4. CASE LeaseLost
  BY <1>4 DEF LeaseLost, Disturb, Undisturbed
<1>5. ASSUME NEW i \in {"run", "stop"}, UserCalls(i)
      PROVE  Exclusive'
  BY <1>5 DEF UserCalls, Orderly, Exclusive, LeadersHold, RenewersHold, WorkersLead,
     ConnectedLead, NoShutdown, AtWork
<1>. QED
  BY <1>1, <1>2, <1>3, <1>4, <1>5

LEMMA ShutdownExclusive ==
  ASSUME Orderly, NEW r \in Replica, ShutdownStep(r)
  PROVE  FALSE
BY DEF ShutdownStep, ReadsLease, DeletesLease, Closes, At, Orderly, Exclusive, NoShutdown

(* What has happened stays in the history. *)
LEMMA HistoryGrows ==
  ASSUME [Next]_vars
  PROVE  UNCHANGED budget \/ \E kind : Disturb(kind)
<1>1. CASE Next
  <2>1. CASE \E r \in Replica, c \in Checks :
               SetLease(r, c) \/ GetLease(r, c) \/ RenewLease(r, c) \/ Paused(r, c) \/ CheckStarts(r, c)
    BY <2>1 DEF SetLease, GetLease, RenewLease, Paused, CheckStarts
  <2>2. CASE \E r \in Replica, t \in Tasks :
               \/ Connects(r, t) \/ ConnectFails(r, t) \/ ConnectedWritten(r, t)
               \/ ErrorWritten(r, t) \/ Stopped(r, t) \/ DisconnectedWritten(r, t)
    BY <2>2 DEF Connects, ConnectFails, ConnectedWritten, ErrorWritten, Stopped, DisconnectedWritten
  <2>3. CASE \E r \in Replica, t \in Tasks :
               ReadStatus(r, t) \/ Starts(r, t) \/ Replaces(r, t) \/ Stops(r, t)
    BY <2>3 DEF ReadStatus, Starts, Replaces, Stops
  <2>4. CASE \E r \in Replica :
               \/ ReconcileStarts(r) \/ TimerFires(r) \/ ShutdownStarts(r)
               \/ \E j \in {"connect", "disconnect"} : JobStarts(r, j)
               \/ \E c \in Tasks : RedisFails(r, c)
               \/ JobRejected(r)
    BY <2>4 DEF ReconcileStarts, TimerFires, ShutdownStarts, JobStarts, RedisFails, JobRejected
  <2>5. CASE \E r \in Replica : ShutdownStep(r)
    BY <2>5 DEF ShutdownStep, ReadsLease, DeletesLease, Closes
  <2>6. CASE \/ \E r \in Replica : Crash(r) \/ Restart(r)
             \/ LeaseExpires \/ LeaseLost
             \/ \E i \in {"run", "stop"} : UserCalls(i)
    BY <2>6 DEF Crash, Restart, LeaseExpires, LeaseLost, UserCalls
  <2>. QED
    BY <1>1, <2>1, <2>2, <2>3, <2>4, <2>5, <2>6, NextCases
<1>2. CASE UNCHANGED vars
  BY <1>2 DEF vars
<1>. QED
  BY <1>1, <1>2

LEMMA UndisturbedBefore ==
  ASSUME [Next]_vars, Undisturbed'
  PROVE  Undisturbed
<1>1. ASSUME NEW kind, Disturb(kind)
      PROVE  Undisturbed
  BY <1>1 DEF Disturb, Undisturbed
<1>2. CASE UNCHANGED budget
  BY <1>2 DEF Undisturbed
<1>. QED
  BY <1>1, <1>2, HistoryGrows

LEMMA IInvInvariant == Spec => []IInv
<1>1. Init => IInv
  BY OrderlyInit DEF IInv, Orderly
<1>2. IInv /\ [Next]_vars => IInv'
  <2>1. ASSUME IInv, Next
        PROVE  TypeOK'
    BY <2>1, NextCases, CheckTypes, ConnectionTypes, ControlTypes, StarterTypes,
       ShutdownTypes, EnvironmentTypes DEF IInv
  <2>2. ASSUME IInv, Next, Undisturbed'
        PROVE  Exclusive'
    <3>1. Orderly
      BY <2>2, UndisturbedBefore DEF IInv, Orderly
    <3>. QED
      BY <2>2, <3>1, NextCases, CheckExclusive, ConnectionExclusive, ControlExclusive,
         StarterExclusive, ShutdownExclusive, EnvironmentExclusive
  <2>3. ASSUME IInv, UNCHANGED vars
        PROVE  IInv'
    BY <2>3 DEF vars, IInv, TypeOK, Undisturbed, Exclusive, LeadersHold, RenewersHold,
       WorkersLead, ConnectedLead, NoShutdown, AtWork
  <2>. QED
    BY <2>1, <2>2, <2>3 DEF IInv
<1>. QED
  BY <1>1, <1>2, PTL DEF Spec

(* As long as no live holder is deprived of its lease, no two replicas     *)
(* hold a connection for the bot: crashes, failed Redis commands,          *)
(* overlapping checks and failovers of any number of replicas never        *)
(* duplicate one.                                                          *)
THEOREM ConnectionsExclusive == Spec => []OneConnection
<1>1. IInv => OneConnection
  BY DEF IInv, Exclusive, ConnectedLead, LeadersHold, OneConnection
<1>. QED
  BY <1>1, IInvInvariant, PTL

(* Under the same condition no two replicas take control jobs or sweep. *)
THEOREM LeadershipExclusive == Spec => []OneLeader
<1>1. IInv => OneLeader
  BY DEF IInv, Exclusive, LeadersHold, OneLeader
<1>. QED
  BY <1>1, IInvInvariant, PTL

(* Under the same condition a follower holds nothing. *)
THEOREM FollowersHoldNothing == Spec => []FollowersRest
<1>1. IInv => FollowersRest
  BY DEF IInv, Exclusive, ConnectedLead, FollowersRest
<1>. QED
  BY <1>1, IInvInvariant, PTL

(* The lease works: one leader, one connection, nothing left with the      *)
(* followers, in every reachable state of every fleet.                     *)
THEOREM LeaseWorks == Spec => []LeaseHolds
BY TypesCorrect, ConnectionsExclusive, LeadershipExclusive, FollowersHoldNothing, PTL
   DEF LeaseHolds

(***************************************************************************)
(* What a failover records.  Leases may be lost under a live holder and    *)
(* replicas may crash, but nobody stops the bot and no command fails; then *)
(* only a check that loses the lease disconnects, with the flag set.       *)
(***************************************************************************)
Peaceful == budget.kinds \subseteq {"loss", "crash", "start"}

KeepsRunning ==
  /\ db \in Active /\ jobs \subseteq {"connect"}
  /\ \A r \in Replica, t \in Tasks :
       /\ task[r][t] \notin {"wroteError", "wroteIdle", "readDisconnect", "toStop"}
       /\ task[r][t] # "idle" => t # "shutdown"
       /\ task[r][t] \in {"stopping", "wroteReconnecting"} => t \in Checks
       /\ task[r][t] = "stopping" => losing[r]

OneCheck == \A c, d \in Checks : c = d

LEMMA PeacefulStep ==
  ASSUME TypeOK, KeepsRunning, OneCheck,
         NEW r \in Replica, NEW t \in Tasks, NEW a \in Await, Goto(r, t, a),
         a \notin {"wroteError", "wroteIdle", "readDisconnect", "toStop"},
         a # "idle" => t # "shutdown",
         a \in {"stopping", "wroteReconnecting"} => t \in Checks,
         a = "stopping" => losing'[r],
         \A q \in Replica : losing[q] => losing'[q] \/ (q = r /\ t \in Checks),
         db' \in Active, jobs' \subseteq {"connect"}
  PROVE  KeepsRunning'
<1>1. \A q \in Replica, u \in Tasks : task'[q][u] = IF q = r /\ u = t THEN a ELSE task[q][u]
  BY GotoEffect
<1>2. ASSUME NEW q \in Replica, NEW u \in Tasks, ~(q = r /\ u = t), task[q][u] = "stopping"
      PROVE  losing'[q]
  BY <1>2 DEF KeepsRunning, OneCheck
<1>. QED
  BY <1>1, <1>2 DEF KeepsRunning

LEMMA EndsPeacefully ==
  ASSUME TypeOK, KeepsRunning, NEW r \in Replica, Ends(r), db' \in Active, jobs' \subseteq {"connect"}
  PROVE  KeepsRunning'
<1>1. \A q \in Replica, u \in Tasks : task'[q][u] = IF q = r THEN "idle" ELSE task[q][u]
  BY EndsEffect
<1>2. \A q \in Replica : q # r => losing'[q] = losing[q]
  BY DEF Ends, TypeOK
<1>. QED
  BY <1>1, <1>2 DEF KeepsRunning

LEMMA CheckPeaceful ==
  ASSUME TypeOK, KeepsRunning, OneCheck, NEW r \in Replica, NEW c \in Checks,
         \/ SetLease(r, c) \/ GetLease(r, c) \/ RenewLease(r, c)
         \/ Paused(r, c) \/ CheckStarts(r, c)
  PROVE  KeepsRunning'
<1>0. /\ c \in Tasks /\ c # "shutdown"
      /\ {"set", "get", "renew", "pausing", "idle", "list", "stopping",
          "wroteIdle", "wroteReconnecting"} \subseteq Await
  BY LeaseAssumption DEF Tasks, Await
<1>1. db \in Active /\ jobs \subseteq {"connect"} /\ losing \in [Replica -> BOOLEAN]
  BY DEF KeepsRunning, TypeOK
<1>2. CASE SetLease(r, c) \/ GetLease(r, c) \/ RenewLease(r, c) \/ CheckStarts(r, c)
  <2>1. PICK a \in {"set", "get", "renew", "pausing", "idle", "list"} : Goto(r, c, a)
    BY <1>2 DEF SetLease, GetLease, RenewLease, CheckStarts, Led, NotLed
  <2>2. UNCHANGED <<losing, db, jobs>>
    BY <1>2 DEF SetLease, GetLease, RenewLease, CheckStarts
  <2>. QED
    BY <1>0, <1>1, <2>1, <2>2, PeacefulStep
<1>3. CASE Paused(r, c)
  <2>1. CASE entry[r]
    <3>1. PICK a \in {"stopping", "wroteReconnecting"} : Goto(r, c, a)
      BY <1>3, <2>1 DEF Paused, BeginDisconnect, Recorded
    <3>2. losing' = [losing EXCEPT ![r] = TRUE] /\ UNCHANGED <<db, jobs>>
      BY <1>3, <2>1 DEF Paused
    <3>. QED
      BY <1>0, <1>1, <3>1, <3>2, PeacefulStep
  <2>2. CASE ~entry[r]
    BY <1>0, <1>1, <1>3, <2>2, PeacefulStep DEF Paused
  <2>. QED
    BY <2>1, <2>2
<1>. QED
  BY <1>2, <1>3

LEMMA ConnectionPeaceful ==
  ASSUME TypeOK, KeepsRunning, OneCheck, Peaceful', NEW r \in Replica, NEW t \in Tasks,
         \/ Connects(r, t) \/ ConnectFails(r, t) \/ ConnectedWritten(r, t)
         \/ ErrorWritten(r, t) \/ Stopped(r, t) \/ DisconnectedWritten(r, t)
  PROVE  KeepsRunning'
<1>0. /\ {"wroteRunning", "idle", "wroteReconnecting"} \subseteq Await
      /\ {"running", "reconnecting"} \subseteq Active
  BY DEF Await, Active
<1>1. db \in Active /\ jobs \subseteq {"connect"} /\ losing \in [Replica -> BOOLEAN]
  BY DEF KeepsRunning, TypeOK
<1>2. CASE Connects(r, t)
  <2>1. t # "shutdown"
    BY <1>2 DEF Connects, At, KeepsRunning
  <2>. QED
    BY <1>0, <1>1, <1>2, <2>1, PeacefulStep DEF Connects
<1>3. CASE ConnectFails(r, t)
  BY <1>3 DEF ConnectFails, Disturb, Peaceful
<1>4. CASE ConnectedWritten(r, t)
  BY <1>0, <1>1, <1>4, PeacefulStep DEF ConnectedWritten
<1>5. CASE ErrorWritten(r, t)
  BY <1>5 DEF ErrorWritten, At, KeepsRunning
<1>6. CASE Stopped(r, t)
  <2>1. t \in Checks /\ t # "shutdown" /\ losing[r]
    BY <1>6 DEF Stopped, At, KeepsRunning
  <2>2. Goto(r, t, "wroteReconnecting") /\ UNCHANGED <<losing, db, jobs>>
    BY <1>6, <2>1 DEF Stopped, Recorded
  <2>. QED
    BY <1>0, <1>1, <2>1, <2>2, PeacefulStep
<1>7. CASE DisconnectedWritten(r, t)
  <2>1. t \in Checks /\ t # "shutdown" /\ task[r][t] = "wroteReconnecting"
    BY <1>7 DEF DisconnectedWritten, KeepsRunning
  <2>2. /\ Goto(r, t, "idle") /\ losing' = [losing EXCEPT ![r] = FALSE]
        /\ db' = "reconnecting" /\ UNCHANGED jobs
    BY <1>7, <2>1 DEF DisconnectedWritten
  <2>. QED
    BY <1>0, <1>1, <2>1, <2>2, PeacefulStep
<1>. QED
  BY <1>2, <1>3, <1>4, <1>5, <1>6, <1>7

LEMMA ControlPeaceful ==
  ASSUME TypeOK, KeepsRunning, OneCheck, NEW r \in Replica, NEW t \in Tasks,
         \/ ReadStatus(r, t) \/ Starts(r, t) \/ Replaces(r, t) \/ Stops(r, t)
  PROVE  KeepsRunning'
<1>0. {"idle", "toStart", "toReplace", "connecting"} \subseteq Await
  BY DEF Await
<1>1. db \in Active /\ jobs \subseteq {"connect"} /\ losing \in [Replica -> BOOLEAN]
  BY DEF KeepsRunning, TypeOK
<1>2. t # "shutdown"
  BY DEF ReadStatus, Starts, Replaces, Stops, At, KeepsRunning
<1>3. CASE ReadStatus(r, t)
  <2>1. PICK a \in {"list", "readConnect", "readDisconnect"} :
          /\ At(r, t, a)
          /\ Goto(r, t, CASE db \in Active /\ a = "list"              -> "toStart"
                          [] db \in Active /\ a = "readConnect"       ->
                               IF db = "reconnecting" THEN "toReplace" ELSE "toStart"
                          [] db \notin Active /\ a # "readConnect"    -> "toStop"
                          [] OTHER                                    -> "idle")
    BY <1>3, Zenon DEF ReadStatus
  <2>2. a \in {"list", "readConnect"}
    BY <2>1 DEF At, KeepsRunning
  <2>3. PICK b \in {"idle", "toStart", "toReplace"} : Goto(r, t, b)
    <3>1. CASE a = "list"
      BY <1>1, <2>1, <3>1
    <3>2. CASE a = "readConnect"
      BY <1>1, <2>1, <3>2
    <3>. QED
      BY <2>2, <3>1, <3>2
  <2>4. UNCHANGED <<losing, db, jobs>>
    BY <1>3 DEF ReadStatus
  <2>. QED
    BY <1>0, <1>1, <1>2, <2>3, <2>4, PeacefulStep
<1>4. CASE Starts(r, t)
  BY <1>0, <1>1, <1>2, <1>4, PeacefulStep DEF Starts
<1>5. CASE Replaces(r, t)
  BY <1>0, <1>1, <1>2, <1>5, PeacefulStep DEF Replaces
<1>6. CASE Stops(r, t)
  BY <1>6 DEF Stops, At, KeepsRunning
<1>. QED
  BY <1>3, <1>4, <1>5, <1>6

LEMMA StarterPeaceful ==
  ASSUME TypeOK, KeepsRunning, OneCheck, Peaceful', NEW r \in Replica,
         \/ ReconcileStarts(r) \/ TimerFires(r) \/ ShutdownStarts(r)
         \/ \E j \in {"connect", "disconnect"} : JobStarts(r, j)
         \/ \E c \in Tasks : RedisFails(r, c)
         \/ JobRejected(r)
  PROVE  KeepsRunning'
<1>0. /\ {"idle", "list", "readConnect", "connecting"} \subseteq Await
      /\ {"reconcile", "job", "attempt"} \subseteq Tasks
  BY DEF Await, Tasks
<1>1. db \in Active /\ jobs \subseteq {"connect"} /\ losing \in [Replica -> BOOLEAN]
  BY DEF KeepsRunning, TypeOK
<1>2. CASE ReconcileStarts(r)
  BY <1>0, <1>1, <1>2, PeacefulStep DEF ReconcileStarts
<1>3. CASE TimerFires(r)
  BY <1>0, <1>1, <1>3, PeacefulStep DEF TimerFires
<1>4. CASE ShutdownStarts(r)
  BY <1>4 DEF ShutdownStarts, Disturb, Peaceful
<1>5. ASSUME NEW j \in {"connect", "disconnect"}, JobStarts(r, j)
      PROVE  KeepsRunning'
  <2>1. j = "connect"
    BY <1>1, <1>5 DEF JobStarts
  <2>2. PICK a \in {"idle", "readConnect"} : Goto(r, "job", a)
    BY <1>5, <2>1 DEF JobStarts
  <2>3. UNCHANGED <<losing, db>> /\ jobs' \subseteq {"connect"}
    BY <1>1, <1>5 DEF JobStarts
  <2>. QED
    BY <1>0, <1>1, <2>2, <2>3, PeacefulStep
<1>6. ASSUME NEW c \in Tasks, RedisFails(r, c)
      PROVE  KeepsRunning'
  BY <1>6 DEF RedisFails, Disturb, Peaceful
<1>7. CASE JobRejected(r)
  BY <1>7 DEF JobRejected, KeepsRunning
<1>. QED
  BY <1>2, <1>3, <1>4, <1>5, <1>6, <1>7

LEMMA ShutdownPeaceful ==
  ASSUME KeepsRunning, NEW r \in Replica, ShutdownStep(r)
  PROVE  FALSE
BY DEF ShutdownStep, ReadsLease, DeletesLease, Closes, At, KeepsRunning, Tasks

LEMMA EnvironmentPeaceful ==
  ASSUME TypeOK, KeepsRunning, Peaceful',
         \/ \E r \in Replica : Crash(r) \/ Restart(r)
         \/ LeaseExpires \/ LeaseLost
         \/ \E i \in {"run", "stop"} : UserCalls(i)
  PROVE  KeepsRunning'
<1>1. ASSUME NEW r \in Replica, Crash(r)
      PROVE  KeepsRunning'
  <2>1. Ends(r) /\ db' \in Active /\ jobs' \subseteq {"connect"}
    BY <1>1 DEF Crash, KeepsRunning
  <2>. QED
    BY <2>1, EndsPeacefully
<1>2. CASE (\E r \in Replica : Restart(r)) \/ LeaseExpires \/ LeaseLost
  BY <1>2 DEF Restart, LeaseExpires, LeaseLost, KeepsRunning
<1>3. ASSUME NEW i \in {"run", "stop"}, UserCalls(i)
      PROVE  KeepsRunning'
  <2>1. i = "run"
    BY <1>3 DEF UserCalls, Disturb, Peaceful
  <2>. QED
    BY <1>3, <2>1 DEF UserCalls, KeepsRunning, Active
<1>. QED
  BY <1>1, <1>2, <1>3

LEMMA PeacefulBefore ==
  ASSUME [Next]_vars, Peaceful'
  PROVE  Peaceful
<1>1. ASSUME NEW kind, Disturb(kind)
      PROVE  Peaceful
  BY <1>1 DEF Disturb, Peaceful
<1>2. CASE UNCHANGED budget
  BY <1>2 DEF Peaceful
<1>. QED
  BY <1>1, <1>2, HistoryGrows

(* A failover records what the user wants: with one leadership check at a  *)
(* time, leases that are lost and replicas that crash, in whatever order,  *)
(* never leave a bot nobody stopped 'idle'.  (Two checks that overlap do:  *)
(* the first to end resets the flag the second one relies on.)             *)
THEOREM TakeoversKeepIntent ==
  ASSUME OneCheck
  PROVE  Spec => []TakeoverKeepsIntent
<1> DEFINE Inv == TypeOK /\ (Peaceful => KeepsRunning)
<1>1. Init => Inv
  BY OrderlyInit DEF Orderly, Init, KeepsRunning, Active
<1>2. Inv /\ [Next]_vars => Inv'
  <2>1. ASSUME Inv, Next
        PROVE  TypeOK'
    BY <2>1, NextCases, CheckTypes, ConnectionTypes, ControlTypes, StarterTypes,
       ShutdownTypes, EnvironmentTypes
  <2>2. ASSUME Inv, Next, Peaceful'
        PROVE  KeepsRunning'
    BY <2>2, PeacefulBefore, NextCases, CheckPeaceful, ConnectionPeaceful, ControlPeaceful,
       StarterPeaceful, ShutdownPeaceful, EnvironmentPeaceful
  <2>3. ASSUME Inv, UNCHANGED vars
        PROVE  Inv'
    BY <2>3 DEF vars, TypeOK, Peaceful, KeepsRunning
  <2>. QED
    BY <2>1, <2>2, <2>3
<1>3. Inv => TakeoverKeepsIntent
  BY DEF Peaceful, KeepsRunning, TakeoverKeepsIntent, Active
<1>. QED
  BY <1>1, <1>2, <1>3, PTL DEF Spec
=============================================================================
