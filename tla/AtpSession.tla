------------------------------- MODULE AtpSession -------------------------------
(***************************************************************************)
(* The session of a Bluesky bot (workers/src/bluesky/atproto-client.ts):   *)
(* the notification poll and the bot's actions share one pair of tokens.   *)
(* A request refused for its access token refreshes the session and is     *)
(* sent once more.  A pair is a number; the service takes a refresh token  *)
(* once, for the next pair.                                                *)
(***************************************************************************)
EXTENDS Integers, FiniteSets

CONSTANTS AtpCaller, \* calls that may overlap: the poll, a job, a script
          MaxPairs   \* bound: pairs the service issues

ASSUME AtpAssumption == MaxPairs \in Nat \ {0}

VARIABLES session, \* the pair the client holds
          service, \* the pair whose refresh token the service takes
          expired, \* the access tokens up to this pair have expired
          calling, \* per caller: where its request is, the pair it has sent or been given,
                   \* whether it has refreshed, and the requests that follow it
          overlap, \* history: two refreshes were under way
          lost     \* history: an answer with a new pair was lost

atpVars == <<session, service, expired, calling, overlap, lost>>

NoCall == [at |-> "none", pair |-> 0, again |-> FALSE, more |-> 0]

(* login: the first pair.                                                  *)
AtpInit == /\ session = 1 /\ service = 1 /\ expired = 0
           /\ calling = [c \in AtpCaller |-> NoCall] /\ overlap = FALSE /\ lost = FALSE

Moves(c, at, pair) == calling' = [calling EXCEPT ![c].at = at, ![c].pair = pair]
Refreshing == {c \in AtpCaller : calling[c].at \in {"refreshing", "granted", "denied"}}

(* A request that is sent, and the requests that follow it.                *)
Asking(more) == [at |-> "sent", pair |-> session, again |-> FALSE, more |-> more]

(* A post with a mention first asks for the handle of the mentioned.       *)
BeginCall(c) ==
    /\ calling[c].at = "none"
    /\ \E more \in 0..1 : calling' = [calling EXCEPT ![c] = Asking(more)]
    /\ UNCHANGED <<session, service, expired, overlap, lost>>

(* A request is over: a handle that is not resolved leaves its mention     *)
(* out, and the post goes on.                                              *)
Settled(c) ==
    IF calling[c].more = 0 THEN [calling EXCEPT ![c] = NoCall]
    ELSE [calling EXCEPT ![c] = Asking(0)]

(* The service answers a request: it accepts the token or refuses it.      *)
Answer(c) ==
    /\ calling[c].at = "sent"
    /\ IF calling[c].pair > expired \/ calling[c].again
       THEN calling' = Settled(c) /\ UNCHANGED overlap
       ELSE Moves(c, "refreshing", session) /\ overlap' = (overlap \/ Refreshing # {})
    /\ UNCHANGED <<session, service, expired, lost>>

(* The service sees a refresh token.                                       *)
Refresh(c) ==
    /\ calling[c].at = "refreshing"
    /\ IF calling[c].pair = service
       THEN /\ service < MaxPairs /\ service' = service + 1 /\ Moves(c, "granted", service + 1)
       ELSE Moves(c, "denied", 0) /\ UNCHANGED service
    /\ UNCHANGED <<session, expired, overlap, lost>>

(* Mutant of Renewed: the session keeps its refresh token.                 *)
RenewedHalf(pair) == session

(* The answer to a refresh replaces both tokens.                           *)
Renewed(pair) == pair

Granted(c) ==
    /\ calling[c].at = "granted" /\ session' = Renewed(calling[c].pair)
    /\ calling' = [calling EXCEPT ![c].at = "sent", ![c].pair = session', ![c].again = TRUE]
    /\ UNCHANGED <<service, expired, overlap, lost>>

Denied(c) == /\ calling[c].at = "denied" /\ calling' = Settled(c)
             /\ UNCHANGED <<session, service, expired, overlap, lost>>

(* The request times out, whatever the service has made of it.             *)
TimesOut(c) == /\ calling[c].at # "none" /\ calling' = Settled(c)
               /\ \E seen \in BOOLEAN :
                    LET takes == seen /\ calling[c].at = "refreshing" /\ calling[c].pair = service
                    IN  /\ takes => service < MaxPairs
                        /\ service' = IF takes THEN service + 1 ELSE service
                        /\ lost' = (lost \/ takes \/ calling[c].at = "granted")
               /\ UNCHANGED <<session, expired, overlap>>

(* The hour is over for the pairs issued so far.                           *)
Expires == /\ expired < service /\ expired' = service
           /\ UNCHANGED <<session, service, calling, overlap, lost>>

AtpNext == Expires \/ \E c \in AtpCaller : BeginCall(c) \/ Answer(c) \/ Refresh(c) \/ Granted(c)
                                              \/ Denied(c) \/ TimesOut(c)

AtpSpec == AtpInit /\ [][AtpNext]_atpVars

(* The bot survives the end of its access token (the comment of refresh):  *)
(* the client holds the refresh token the service takes, unless a new pair *)
(* is on its way or its answer was lost, and no refresh is denied unless   *)
(* two of them overlapped.  A lost answer ends the session for good.       *)
SessionSurvives ==
    ~lost => /\ session = service \/ \E c \in AtpCaller : calling[c].at = "granted"
             /\ ~overlap => \A c \in AtpCaller : calling[c].at # "denied"
=================================================================================
