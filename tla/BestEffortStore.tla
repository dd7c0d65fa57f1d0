--------------------------- MODULE BestEffortStore ---------------------------
(***************************************************************************)
(* What the batching writers promise their callers, whatever the schedule: *)
(* a row handed over is pending until it is stored or knowingly dropped,   *)
(* and nothing that was stored or dropped comes back.  "Best-effort like   *)
(* the log batcher": dropping is allowed at any time, forgetting is not.   *)
(***************************************************************************)
CONSTANT Row

VARIABLES accepted,  \* every row ever handed over
          pending,   \* rows in memory, buffered or being written
          stored,    \* rows in the database
          dropped    \* rows given up: overflow, failed write, process exit

vars == <<accepted, pending, stored, dropped>>

Init == accepted = {} /\ pending = {} /\ stored = {} /\ dropped = {}

(* Rows leave `pending` only for `stored` or `dropped`.                    *)
Moves(before) ==
  /\ pending' \subseteq before
  /\ before \subseteq pending' \cup stored' \cup dropped'
  /\ stored \subseteq stored' /\ stored' \subseteq stored \cup before
  /\ dropped \subseteq dropped' /\ dropped' \subseteq dropped \cup before

(* A row is handed over; it, or older rows, may be dropped at once.        *)
Accept(r) ==
  /\ accepted' = accepted \cup {r}
  /\ stored' = stored
  /\ Moves(pending \cup {r})

Settle == accepted' = accepted /\ Moves(pending)

Next == Settle \/ \E r \in Row : Accept(r)

Spec == Init /\ [][Next]_vars

(* No row that was handed over vanishes unnoticed. *)
Accounted == accepted \subseteq pending \cup stored \cup dropped
=============================================================================
