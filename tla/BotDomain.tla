-------------------------------- MODULE BotDomain --------------------------------
(***************************************************************************)
(* The domain object of a bot and its state machine.  A call changes the   *)
(* state at once, then awaits the listeners of the transition, and only    *)
(* then writes the fields that go with it: other calls run in between.     *)
(***************************************************************************)
CONSTANTS Call

VARIABLES
    state,        \* BotStateMachine.state
    lastError,    \* an error text is stored
    connectedAt,  \* a connection time is stored
    awaiting,     \* calls that await the listeners of their transition
    overlapped    \* a call has begun while another awaited

botVars == <<state, lastError, connectedAt, awaiting, overlapped>>

BotState == {"idle", "connecting", "running", "paused", "error", "reconnecting",
             "disconnecting", "removed"}
BotTransition == {"start", "stop", "pause", "resume", "connect", "disconnect", "fail",
                  "reconnect", "remove", "timeout"}

transitions ==
    [idle |-> [start |-> "connecting", connect |-> "connecting", remove |-> "removed"],
     connecting |-> [connect |-> "running", fail |-> "error", timeout |-> "error", stop |-> "idle"],
     running |-> [stop |-> "idle", pause |-> "paused", fail |-> "error", disconnect |-> "idle",
                  reconnect |-> "reconnecting"],
     paused |-> [resume |-> "running", stop |-> "idle", fail |-> "error"],
     error |-> [reconnect |-> "reconnecting", start |-> "connecting", resume |-> "connecting",
                stop |-> "idle", remove |-> "removed"],
     reconnecting |-> [connect |-> "running", fail |-> "error", stop |-> "idle",
                       timeout |-> "error"],
     disconnecting |-> [disconnect |-> "idle", fail |-> "error"],
     removed |-> <<>>]

Can(t) == t \in DOMAIN transitions[state]
(* dispatch: the state is set before the listeners run. *)
Dispatch(t) == Can(t) /\ state' = transitions[state][t]
Crosses == overlapped' = (overlapped \/ \E k \in Call : awaiting[k] # "none")

Awaits(k, t) ==
    /\ awaiting[k] = "none" /\ Dispatch(t)
    /\ awaiting' = [awaiting EXCEPT ![k] = t]
    /\ Crosses /\ UNCHANGED <<lastError, connectedAt>>

Start(k)       == Awaits(k, "start")
Stop(k)        == Awaits(k, "stop")
OnConnected(k) == Awaits(k, "connect")
OnReconnect(k) == Awaits(k, "reconnect")
(* Transitions that are dispatched on the state machine itself. *)
Direct(k) == \E t \in {"pause", "resume", "disconnect", "remove", "timeout"} : Awaits(k, t)

(* The error is stored at once, the transition follows if there is one. *)
OnErrorKeepsState(k) ==
    /\ awaiting[k] = "none" /\ lastError' = TRUE
    /\ UNCHANGED <<state, connectedAt, awaiting, overlapped>>
OnError(k) ==
    /\ awaiting[k] = "none" /\ lastError' = TRUE
    /\ IF Can("fail") THEN Dispatch("fail") /\ awaiting' = [awaiting EXCEPT ![k] = "fail"]
                      ELSE UNCHANGED <<state, awaiting>>
    /\ Crosses /\ UNCHANGED connectedAt

ListenersDone(k) ==
    /\ awaiting[k] # "none" /\ awaiting' = [awaiting EXCEPT ![k] = "none"]
    /\ connectedAt' = CASE awaiting[k] = "connect" -> TRUE
                        [] awaiting[k] = "stop"    -> FALSE
                        [] OTHER                   -> connectedAt
    /\ lastError' = (lastError /\ awaiting[k] # "connect")
    /\ UNCHANGED <<state, overlapped>>

BotInit ==
    /\ state = "idle" /\ lastError = FALSE /\ connectedAt = FALSE
    /\ awaiting = [k \in Call |-> "none"] /\ overlapped = FALSE

BotNext ==
    \E k \in Call : \/ Start(k) \/ Stop(k) \/ OnConnected(k) \/ OnReconnect(k) \/ Direct(k)
                    \/ OnError(k) \/ ListenersDone(k)

BotSpec == BotInit /\ [][BotNext]_botVars

(* A bot that is shown as running or paused carries no error of an earlier *)
(* attempt, however calls interleave, and it has the time it connected at  *)
(* unless a call overlapped another (a stop that completes late clears the *)
(* time of the connection made meanwhile).                                 *)
HealthyBot ==
    (\A k \in Call : awaiting[k] = "none") /\ state \in {"running", "paused"} =>
        ~lastError /\ (connectedAt \/ overlapped)
=================================================================================
