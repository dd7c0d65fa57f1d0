---------------------------- MODULE MCBotControl ----------------------------
(* The environments BotControl is checked in. *)
EXTENDS BotControl

Env(adapter, calls, faults, crashes, requests, polite) ==
  [adapter |-> adapter, calls |-> calls, faults |-> faults, crashes |-> crashes,
   clients |-> IF adapter = "twitch" THEN 2 ELSE 6,
   requests |-> requests, polite |-> polite, earlyTimers |-> FALSE, watchdog |-> FALSE]

Control == {"start", "stop", "restart"}

(* Impatient users and failures; a Twitch bot; deletions, a crash and the  *)
(* watchdog.                                                               *)
SafetyScenarios ==
  {Env("telegram", 2, 3, 0, Control, FALSE),
   Env("twitch", 2, 2, 0, Control, TRUE),
   [Env("telegram", 2, 1, 1, {"start", "restart", "delete"}, FALSE) EXCEPT !.watchdog = TRUE]}

(* Patient users and a crash; failures under impatient users; Twitch. *)
ServiceScenarios ==
  {Env("telegram", 3, 0, 1, Control, TRUE),
   Env("telegram", 2, 1, 0, Control, FALSE),
   Env("twitch", 2, 1, 0, Control, TRUE)}

(* The scenario in which the code does not keep a promise it documents. *)
StopWhileConnecting == {Env("telegram", 2, 0, 0, {"start", "stop"}, FALSE)}
=============================================================================
