------------------------------ MODULE ApiRequests ------------------------------
(***************************************************************************)
(* Requests of the API that are under way at the same time, and "nothing". *)
(***************************************************************************)
CONSTANTS Request, None
================================================================================
