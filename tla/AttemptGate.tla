---------------------------- MODULE AttemptGate ----------------------------
(***************************************************************************)
(* What the circuit breaker promises its callers, without its three        *)
(* states, its failure count or its success count.  The gate is passable   *)
(* or barred.  Once barred it lets nobody through for CoolDown units of    *)
(* time, and then at most Budget callers before it is passable again or    *)
(* barred afresh.                                                          *)
(***************************************************************************)
EXTENDS Integers

CONSTANTS CoolDown,    \* a positive number of units of time
          Budget       \* a positive number of callers

VARIABLES barred,    \* attempts are being limited
          wait,      \* time since the gate was barred, at most CoolDown
          budget,    \* callers that may still pass while it is barred
          passed     \* the last call was an attempt that was let through

vars == <<barred, wait, budget, passed>>

Init == ~barred /\ wait = 0 /\ budget = 0 /\ ~passed

Pass == /\ passed'
        /\ \/ ~barred /\ UNCHANGED <<barred, wait, budget>>
           \/ /\ barred /\ wait = CoolDown /\ budget > 0
              /\ budget' = budget - 1
              /\ UNCHANGED <<barred, wait>>

(* Barred for the first time, or again: the wait and the budget restart. *)
Bar == barred' /\ wait' = 0 /\ budget' = Budget /\ ~passed'

Unbar == ~barred' /\ wait' = 0 /\ budget' = 0 /\ ~passed'

Refuse == ~passed' /\ UNCHANGED <<barred, wait, budget>>

Wait == /\ barred /\ wait < CoolDown
        /\ wait' = wait + 1
        /\ ~passed'
        /\ UNCHANGED <<barred, budget>>

Next == Pass \/ Bar \/ Unbar \/ Refuse \/ Wait

Spec == Init /\ [][Next]_vars
=============================================================================
