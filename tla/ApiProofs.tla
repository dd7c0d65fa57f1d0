----------------------------- MODULE ApiProofs ------------------------------
(***************************************************************************)
(* Proofs about the API: the domain model of a bot, the sessions and roles *)
(* of users, and the rows of an owner with their quotas, platforms and     *)
(* secrets.                                                                *)
(***************************************************************************)
EXTENDS Sessions, Resources, BotDomain, FiniteSetTheorems, TLAPS

-----------------------------------------------------------------------------
(***************************************************************************)
(* BotDomain: a bot that is up is healthy. A bot is up through a connect,  *)
(* whose call clears the error and stores the time when its listeners are  *)
(* done; until then that call is still awaiting. A stop that still awaits  *)
(* has left the bot idle, unless another call came in between.             *)
(***************************************************************************)

Connects == \E k \in Call : awaiting[k] = "connect"
Up == state \in {"running", "paused"}

BotTypes ==
    /\ state \in BotState /\ lastError \in BOOLEAN /\ connectedAt \in BOOLEAN /\ overlapped \in BOOLEAN
    /\ awaiting \in [Call -> BotTransition \cup {"none"}]

(* A bot is up through a connect, whose call clears the error and stores   *)
(* the time when its listeners are done; a stop that still awaits has left *)
(* the bot idle, unless another call has come in between.                  *)
BotInv ==
    /\ BotTypes
    /\ Up => Connects \/ (~lastError /\ (connectedAt \/ overlapped))
    /\ \A k \in Call : awaiting[k] = "stop" => overlapped \/ state = "idle"

LEMMA Dispatches ==
    ASSUME state \in BotState, NEW t \in BotTransition, Dispatch(t)
    PROVE  /\ state' \in BotState
           /\ state' \in {"running", "paused"} => t = "connect" \/ Up
           /\ t = "stop" => state' = "idle"
           /\ t = "fail" => state' = "error"
<1>1. CASE state = "idle" BY <1>1 DEF Dispatch, Can, transitions, BotState, Up
<1>2. CASE state = "connecting" BY <1>2 DEF Dispatch, Can, transitions, BotState, Up
<1>3. CASE state = "running" BY <1>3 DEF Dispatch, Can, transitions, BotState, Up
<1>4. CASE state = "paused" BY <1>4 DEF Dispatch, Can, transitions, BotState, Up
<1>5. CASE state = "error" BY <1>5 DEF Dispatch, Can, transitions, BotState, Up
<1>6. CASE state = "reconnecting" BY <1>6 DEF Dispatch, Can, transitions, BotState, Up
<1>7. CASE state = "disconnecting" BY <1>7 DEF Dispatch, Can, transitions, BotState, Up
<1>8. CASE state = "removed" BY <1>8 DEF Dispatch, Can, transitions, BotState, Up
<1> QED BY <1>1, <1>2, <1>3, <1>4, <1>5, <1>6, <1>7, <1>8 DEF BotState

LEMMA FailsWhenUp == Up => Can("fail")
<1>1. CASE state = "running" BY <1>1 DEF Can, transitions
<1>2. CASE state = "paused" BY <1>2 DEF Can, transitions
<1> QED BY <1>1, <1>2 DEF Up

(* What every call keeps that begins, whatever it does to the error.       *)
LEMMA CallBegins ==
    ASSUME BotInv, NEW k \in Call, NEW t \in BotTransition, Awaits(k, t) PROVE BotInv'
<1> USE DEF BotInv, BotTypes
<1>1. Dispatch(t) /\ awaiting[k] = "none" /\ awaiting' = [awaiting EXCEPT ![k] = t]
      /\ Crosses /\ lastError' = lastError /\ connectedAt' = connectedAt
  BY DEF Awaits
<1>2. overlapped' \in BOOLEAN /\ (overlapped => overlapped')
      /\ ((\E j \in Call : awaiting[j] # "none") => overlapped')
  BY <1>1 DEF Crosses
<1>3. state' \in BotState /\ BotTypes' BY <1>1, <1>2, Dispatches
<1>4. Up' => Connects' \/ (~lastError' /\ (connectedAt' \/ overlapped'))
  <2>1. CASE t = "connect" BY <2>1, <1>1 DEF Connects
  <2>2. CASE t # "connect"
    <3>1. Connects => Connects' BY <1>1 DEF Connects
    <3>2. Up' => Up BY <1>1, <2>2, Dispatches DEF Up
    <3> QED BY <1>1, <1>2, <3>1, <3>2
  <2> QED BY <2>1, <2>2
<1>5. ASSUME NEW j \in Call, awaiting'[j] = "stop" PROVE overlapped' \/ state' = "idle"
  <2>1. CASE j = k BY <2>1, <1>1, <1>5, Dispatches
  <2>2. CASE j # k BY <2>2, <1>1, <1>2, <1>5
  <2> QED BY <2>1, <2>2
<1> QED BY <1>3, <1>4, <1>5

LEMMA BotStart == BotInit => BotInv
BY DEF BotInit, BotInv, BotTypes, BotState, Up

LEMMA BotKeeps == BotInv /\ [BotNext]_botVars => BotInv'
<1> SUFFICES ASSUME BotInv, [BotNext]_botVars PROVE BotInv' OBVIOUS
<1> USE DEF BotInv, BotTypes
<1>0. CASE UNCHANGED botVars BY <1>0 DEF botVars, Up, Connects
<1>1. ASSUME NEW k \in Call, Start(k) \/ Stop(k) \/ OnConnected(k) \/ OnReconnect(k) \/ Direct(k)
      PROVE  BotInv'
  <2>1. \E t \in BotTransition : Awaits(k, t)
    BY <1>1 DEF Start, Stop, OnConnected, OnReconnect, Direct, BotTransition
  <2> HIDE DEF BotInv
  <2> QED BY <2>1, CallBegins
<1>2. ASSUME NEW k \in Call, OnError(k) PROVE BotInv'
  <2>1. overlapped' \in BOOLEAN /\ (overlapped => overlapped')
        /\ ((\E j \in Call : awaiting[j] # "none") => overlapped')
    BY <1>2 DEF OnError, Crosses
  <2>2. CASE Can("fail")
    <3>1. Dispatch("fail") /\ awaiting[k] = "none" /\ awaiting' = [awaiting EXCEPT ![k] = "fail"]
          /\ lastError' = TRUE /\ connectedAt' = connectedAt
      BY <1>2, <2>2 DEF OnError
    <3>2. state' = "error" BY <3>1, Dispatches DEF BotTransition
    <3>3. BotTypes' BY <3>1, <3>2, <2>1 DEF BotState, BotTransition
    <3>4. ASSUME NEW j \in Call, awaiting'[j] = "stop" PROVE overlapped'
      BY <3>1, <3>4, <2>1
    <3> QED BY <3>2, <3>3, <3>4 DEF Up
  <2>3. CASE ~Can("fail")
    <3>1. ~Up BY <2>3, FailsWhenUp
    <3>2. state' = state /\ awaiting' = awaiting /\ lastError' = TRUE /\ connectedAt' = connectedAt
      BY <1>2, <2>3 DEF OnError
    <3> QED BY <2>1, <3>1, <3>2 DEF Up
  <2> QED BY <2>2, <2>3
<1>3. ASSUME NEW k \in Call, ListenersDone(k) PROVE BotInv'
  <2>1. state' = state /\ overlapped' = overlapped /\ awaiting' = [awaiting EXCEPT ![k] = "none"]
    BY <1>3 DEF ListenersDone
  <2>2. connectedAt' = (CASE awaiting[k] = "connect" -> TRUE
                          [] awaiting[k] = "stop"    -> FALSE
                          [] OTHER                   -> connectedAt)
        /\ lastError' = (lastError /\ awaiting[k] # "connect")
    BY <1>3 DEF ListenersDone
  <2>3. BotTypes' BY <2>1, <2>2
  <2>4. \A j \in Call : awaiting'[j] = "stop" => overlapped' \/ state' = "idle" BY <2>1
  <2>5. ASSUME Up' PROVE Connects' \/ (~lastError' /\ (connectedAt' \/ overlapped'))
    <3>1. Up /\ state # "idle" BY <2>5, <2>1 DEF Up
    <3>2. CASE awaiting[k] = "connect" BY <3>2, <2>2
    <3>3. CASE awaiting[k] = "stop"
      <4>1. overlapped BY <3>3, <3>1
      <4>2. Connects => Connects' BY <2>1, <3>3 DEF Connects
      <4> QED BY <4>1, <4>2, <3>1, <2>1, <2>2
    <3>4. CASE awaiting[k] \notin {"connect", "stop"}
      <4>1. connectedAt' = connectedAt /\ (lastError' => lastError) BY <3>4, <2>2
      <4>2. Connects => Connects' BY <2>1, <3>4 DEF Connects
      <4> QED BY <4>1, <4>2, <3>1, <2>1
    <3> QED BY <3>2, <3>3, <3>4
  <2> QED BY <2>3, <2>4, <2>5
<1> QED BY <1>0, <1>1, <1>2, <1>3 DEF BotNext

(* A bot that is shown as running or paused carries no error of an earlier *)
(* attempt, and has the time it connected at unless calls on it            *)
(* overlapped: however the entity's calls and the connection's events      *)
(* interleave at their awaits.                                             *)
THEOREM UpMeansHealthy == BotSpec => []HealthyBot
<1>1. BotInv => HealthyBot BY DEF BotInv, HealthyBot, Up, Connects
<1> QED BY <1>1, BotStart, BotKeeps, PTL DEF BotSpec

-----------------------------------------------------------------------------
(***************************************************************************)
(* Sessions: what the auth hook accepts follows the password, and the      *)
(* platform keeps an admin. The invariant says what each request under way *)
(* has yet to do: a request that changes a password or a role and has not  *)
(* yet raised the epoch is the reason for which a token may still be       *)
(* accepted, and two changes that would take the last admins away cannot   *)
(* both be past their check unless they raced. Ids of deleted users and of *)
(* revoked invites are not used again, so a request that found a row never *)
(* finds another's.                                                        *)
(***************************************************************************)

Requested == [step : Steps, user : User \cup {None}, role : Role, pw : 1..MaxPassword,
              snap : Nat, invite : Invite \cup {None}]
Granted == [user : User, ver : Nat, pw : 1..MaxPassword, late : BOOLEAN, early : BOOLEAN]

AuthTypes ==
    /\ users \in [User -> UserRow \cup {None, Deleted}]
    /\ epoch \in [User -> Nat]
    /\ DOMAIN tokens = Token /\ \A j \in Token : tokens[j] # None => tokens[j] \in Granted
    /\ invites \in [Invite -> InviteRow \cup {None, Deleted}]
    /\ request \in [Request -> Requested]
    /\ redis \in BOOLEAN /\ raced \in BOOLEAN

(* A request under way is about a user, and, once it has found the user's  *)
(* row, about one that has or had a row.                                   *)
FoundRow == {"sign", "password", "bump", "role", "update", "delete", "remove", "erase"}
AboutUsers ==
    \A r \in Request : /\ ~Free(r) => request[r].user \in User
                       /\ request[r].step \in FoundRow => users[request[r].user] # None

AuthBase == AuthTypes /\ AboutUsers

LEMMA PendingTyped ==
    ASSUME NEW step \in Steps, NEW u \in User \cup {None}
    PROVE  /\ Pending(step, u) \in Requested
           /\ Pending(step, u).step = step /\ Pending(step, u).user = u
           /\ Pending(step, u).invite = None /\ Pending(step, u).pw = 1 /\ Pending(step, u).role = "viewer"
<1>1. 1 \in 1..MaxPassword BY AuthAssumption
<1> QED BY <1>1 DEF Pending, Requested, Role

LEMMA NoRequestTyped == NoRequest \in Requested /\ NoRequest.step = "none"
BY PendingTyped DEF NoRequest, Steps

(* What a request becomes when it moves on.                                *)
LEMMA Moving ==
    ASSUME AuthBase, NEW r \in Request, NEW p \in Requested, Moves(r, p)
    PROVE  /\ request' \in [Request -> Requested]
           /\ \A q \in Request : request'[q] = IF q = r THEN p ELSE request[q]
BY DEF AuthBase, AuthTypes, Moves

LEMMA Answering ==
    ASSUME AuthBase, NEW r \in Request, Answers(r)
    PROVE  /\ request' \in [Request -> Requested]
           /\ \A q \in Request : request'[q] = IF q = r THEN NoRequest ELSE request[q]
BY NoRequestTyped, Moving DEF Answers

(* AboutUsers, when one request moves on and no row becomes None.          *)
LEMMA AboutKept ==
    ASSUME AuthBase, NEW r \in Request, NEW p \in Requested,
           \A q \in Request : request'[q] = IF q = r THEN p ELSE request[q],
           \A u \in User : users[u] # None => users'[u] # None,
           p.step # "none" => p.user \in User,
           p.step \in FoundRow => users'[p.user] # None
    PROVE  AboutUsers'
BY DEF AuthBase, AboutUsers, Free, FoundRow

LEMMA RowTyped == ASSUME NEW role \in Role PROVE [role |-> role, pw |-> 1] \in UserRow
<1>1. 1 \in 1..MaxPassword BY AuthAssumption
<1> QED BY <1>1 DEF UserRow

LEMMA ExistsNotNone == \A u \in User : Exists(u) => users[u] \notin {None, Deleted}
BY AuthAssumption DEF Exists

LEMMA TokenUser == AuthTypes => \A j \in Token : RequireAdmin(j) =>
                       tokens[j].user \in User /\ Exists(tokens[j].user)
BY DEF AuthTypes, RequireAdmin, Accepts, Granted

-----------------------------------------------------------------------------
(* A session of a password that was replaced is refused by its epoch, or   *)
(* will be once the change is complete; one of the current password was    *)
(* signed with the current epoch, unless it was signed early.              *)
PassOf(t) ==
    /\ users[t.user] # None /\ t.ver <= epoch[t.user]
    /\ Exists(t.user) =>
         /\ t.pw <= users[t.user].pw
         /\ t.pw # users[t.user].pw => t.late \/ t.ver < epoch[t.user] \/ BumpPending(t.user)
         /\ t.pw = users[t.user].pw /\ ~t.early => t.ver = epoch[t.user] /\ ~BumpPending(t.user)

SignKnows == \A r \in Request : Doing(r, "sign") /\ Exists(request[r].user)
                                   => request[r].pw <= users[request[r].user].pw

PassInv == SignKnows /\ \A j \in Token : tokens[j] # None => PassOf(tokens[j])

(* Before the first user registers there is nothing; afterwards an admin   *)
(* stays: what a change of the admins has seen of them is still there when *)
(* it writes, since no other such change has come in between.              *)
Fresh == /\ \A u \in User : users[u] = None
         /\ \A r \in Request : Free(r)
         /\ \A j \in Token : tokens[j] = None
         /\ \A i \in Invite : invites[i] = None

SeesAdmins(p) ==
    /\ p.step = "update" /\ p.snap > 1 => \E a, b \in Admins : a # b
    /\ p.step = "remove" /\ p.snap > 0 => \E a \in Admins : a # p.user
    /\ p.step = "erase" => p.user \notin Admins

ChangesApart ==
    ~raced => /\ \A r, q \in Request : request[r].step \in Changing /\ request[q].step \in Changing => r = q
              /\ \A r \in Request : SeesAdmins(request[r])
              /\ Fresh \/ Admins # {}

(* An invite that is being redeemed is the one the request has read, or    *)
(* was revoked.                                                            *)
InviteRead ==
    \A r \in Request : Doing(r, "redeem") =>
        /\ request[r].invite \in Invite /\ invites[request[r].invite] # None
        /\ Issued(request[r].invite) => invites[request[r].invite].email = request[r].user

AuthInv == AuthBase /\ PassInv /\ ChangesApart /\ InviteRead

-----------------------------------------------------------------------------
(* Frames: what leaves each part of the invariant as it is.                *)

RowsStay == \A u \in User : users[u] # None =>
                /\ users'[u] # None
                /\ Exists(u)' => Exists(u) /\ users'[u].pw = users[u].pw

LEMMA PassFrame ==
    ASSUME AuthBase, PassInv, RowsStay, UNCHANGED <<tokens, epoch>>, SignKnows',
           \A u \in User : BumpPending(u)' <=> BumpPending(u)
    PROVE  PassInv'
<1>1. ASSUME NEW j \in Token, tokens[j] # None PROVE PassOf(tokens[j])'
  <2> DEFINE t == tokens[j]
  <2>1. t \in Granted /\ PassOf(t) /\ t.user \in User
    BY <1>1 DEF AuthBase, AuthTypes, Granted, PassInv
  <2>2. users'[t.user] # None /\ (Exists(t.user)' => Exists(t.user) /\ users'[t.user].pw = users[t.user].pw)
    BY <2>1 DEF RowsStay, PassOf
  <2>3. BumpPending(t.user)' <=> BumpPending(t.user) BY <2>1
  <2>4. t' = t BY DEF PassInv
  <2> QED BY <2>1, <2>2, <2>3, <2>4 DEF PassOf, Exists, BumpPending, Doing
<1> QED BY <1>1 DEF PassInv

LEMMA SignFrame ==
    ASSUME AuthBase, PassInv, RowsStay, AuthTypes',
           \A q \in Request : \/ request'[q] = request[q] \/ request'[q].step # "sign"
                              \/ users'[request'[q].user] \in UserRow
                                   => request'[q].pw <= users'[request'[q].user].pw
    PROVE  SignKnows'
<1>1. ASSUME NEW q \in Request, request'[q].step = "sign", users'[request'[q].user] \in UserRow
      PROVE  request'[q].pw <= users'[request'[q].user].pw
  <2>2. CASE request'[q] = request[q]
    <3>1. Doing(q, "sign") /\ request[q].user \in User /\ users[request[q].user] # None
      BY <1>1, <2>2 DEF Doing, AuthBase, AboutUsers, Free, FoundRow
    <3>2. users'[request[q].user] \in UserRow BY <1>1, <2>2
    <3>3. Exists(request[q].user)' <=> users'[request[q].user] \in UserRow
      BY <2>2 DEF Exists
    <3>4. Exists(request[q].user) /\ users'[request[q].user].pw = users[request[q].user].pw
      BY <3>1, <3>2 DEF RowsStay, Exists
    <3> QED BY <2>2, <3>1, <3>4 DEF PassInv, SignKnows
  <2>3. CASE users'[request'[q].user] \in UserRow => request'[q].pw <= users'[request'[q].user].pw
    BY <1>1, <2>3
  <2>4. CASE request'[q].step # "sign" BY <1>1, <2>4
  <2> QED BY <2>2, <2>3, <2>4
<1> QED BY <1>1 DEF SignKnows, Doing, Exists

LEMMA BumpFrame ==
    ASSUME \A q \in Request : request'[q] = request[q] \/ (request'[q].step # "bump" /\ request[q].step # "bump")
    PROVE  \A u \in User : BumpPending(u)' <=> BumpPending(u)
BY DEF BumpPending, Doing

LEMMA ApartFrame ==
    ASSUME AuthBase, ChangesApart, Admins \subseteq Admins', raced => raced',
           \A u \in User : u \in Admins' => u \in Admins \/ users[u] = None,
           \A q \in Request : request'[q].step \in Changing => request'[q] = request[q],
           Fresh => Fresh' \/ Admins' # {}
    PROVE  ChangesApart'
<1> SUFFICES ASSUME ~raced' 
             PROVE  /\ \A r, q \in Request : request'[r].step \in Changing /\ request'[q].step \in Changing => r = q
                    /\ \A r \in Request : SeesAdmins(request[r])'
                    /\ Fresh' \/ Admins' # {}
  BY DEF ChangesApart
<1>1. /\ \A r, q \in Request : request[r].step \in Changing /\ request[q].step \in Changing => r = q
      /\ \A r \in Request : SeesAdmins(request[r])
      /\ Fresh \/ Admins # {}
  BY DEF ChangesApart
<1>2. ASSUME NEW r \in Request PROVE SeesAdmins(request[r])'
  <2>1. CASE request'[r].step \notin Changing BY <2>1 DEF SeesAdmins, Changing
  <2>2. CASE request'[r].step \in Changing
    <3>1. request'[r] = request[r] /\ SeesAdmins(request[r]) BY <2>2, <1>1
    <3>2. request[r].step = "erase" => request[r].user \in User /\ users[request[r].user] # None
      BY DEF AuthBase, AboutUsers, Free, FoundRow
    <3> HIDE DEF Admins
    <3> QED BY <3>1, <3>2 DEF SeesAdmins
  <2> QED BY <2>1, <2>2
<1> QED BY <1>1, <1>2

InvitesStay == \A i \in Invite : invites[i] # None =>
                  /\ invites'[i] # None
                  /\ invites'[i] \in InviteRow => Issued(i) /\ invites'[i].email = invites[i].email

LEMMA ReadFrame ==
    ASSUME InviteRead,
           InvitesStay,
           \A q \in Request : \/ request'[q] = request[q] \/ request'[q].step # "redeem"
                              \/ /\ request'[q].invite \in Invite /\ invites'[request'[q].invite] # None
                                 /\ invites'[request'[q].invite] \in InviteRow
                                      => invites'[request'[q].invite].email = request'[q].user
    PROVE  InviteRead'
<1>1. ASSUME NEW q \in Request, request'[q].step = "redeem"
      PROVE  /\ request'[q].invite \in Invite /\ invites'[request'[q].invite] # None
             /\ invites'[request'[q].invite] \in InviteRow
                  => invites'[request'[q].invite].email = request'[q].user
  <2> SUFFICES ASSUME request'[q] = request[q]
               PROVE  /\ request'[q].invite \in Invite /\ invites'[request'[q].invite] # None
                      /\ invites'[request'[q].invite] \in InviteRow
                           => invites'[request'[q].invite].email = request'[q].user
    BY <1>1
  <2>1. request'[q] = request[q] OBVIOUS
  <2>2. Doing(q, "redeem") BY <1>1, <2>1 DEF Doing
  <2>3. /\ request[q].invite \in Invite /\ invites[request[q].invite] # None
        /\ Issued(request[q].invite) => invites[request[q].invite].email = request[q].user
    BY <2>2 DEF InviteRead
  <2> DEFINE i == request[q].invite
  <2>4. i \in Invite /\ invites[i] # None /\ (Issued(i) => invites[i].email = request[q].user) BY <2>3
  <2> HIDE DEF i
  <2>5. invites'[i] # None /\ (invites'[i] \in InviteRow => Issued(i) /\ invites'[i].email = invites[i].email)
    BY <2>4 DEF InvitesStay
  <2> QED BY <2>1, <2>4, <2>5 DEF i
<1> QED BY <1>1 DEF InviteRead, Doing, Issued

(* All of the invariant but the admins, when one request moves on.         *)
LEMMA Quiet ==
    ASSUME AuthInv, NEW r \in Request, NEW p \in Requested, Moves(r, p),
           AuthTypes', RowsStay, InvitesStay, UNCHANGED <<tokens, epoch>>,
           request[r].step # "bump", p.step # "bump", p.step # "none" => p.user \in User,
           p.step \in FoundRow => users'[p.user] # None,
           p.step = "sign" => (users'[p.user] \in UserRow => p.pw <= users'[p.user].pw),
           p.step = "redeem" => /\ p.invite \in Invite /\ invites'[p.invite] # None
                                /\ invites'[p.invite] \in InviteRow => invites'[p.invite].email = p.user
    PROVE  AuthBase' /\ PassInv' /\ InviteRead'
<1>1. AuthBase /\ PassInv /\ InviteRead BY DEF AuthInv
<1>2. \A q \in Request : request'[q] = IF q = r THEN p ELSE request[q] BY <1>1, Moving
<1>3. AboutUsers' 
  <2>1. \A u \in User : users[u] # None => users'[u] # None BY DEF RowsStay
  <2> QED BY <1>1, <1>2, <2>1, AboutKept
<1>4. SignKnows'
  <2>1. \A q \in Request : \/ request'[q] = request[q] \/ request'[q].step # "sign"
                           \/ users'[request'[q].user] \in UserRow
                                   => request'[q].pw <= users'[request'[q].user].pw
    BY <1>2
  <2> QED BY <1>1, <2>1, SignFrame
<1>5. \A u \in User : BumpPending(u)' <=> BumpPending(u)
  <2>1. \A q \in Request : \/ request'[q] = request[q]
                           \/ request'[q].step # "bump" /\ request[q].step # "bump"
    BY <1>2
  <2> QED BY <2>1, BumpFrame
<1>6. PassInv' BY <1>1, <1>4, <1>5, PassFrame
<1>7. InviteRead'
  <2>1. \A q \in Request : \/ request'[q] = request[q] \/ request'[q].step # "redeem"
                           \/ /\ request'[q].invite \in Invite /\ invites'[request'[q].invite] # None
                              /\ invites'[request'[q].invite] \in InviteRow
                                   => invites'[request'[q].invite].email = request'[q].user
    BY <1>2
  <2> QED BY <1>1, <2>1, ReadFrame
<1> QED BY <1>3, <1>6, <1>7 DEF AuthBase

(* A request begins, ends or moves on without a change of the admins.      *)
LEMMA Begins ==
    ASSUME AuthInv, NEW r \in Request, NEW p \in Requested, Moves(r, p),
           UNCHANGED <<users, epoch, tokens, invites, redis, raced>>,
           request[r].step # "bump", p.step # "bump", p.step # "none" => p.user \in User,
           p.step \in FoundRow => users[p.user] # None, p.step \notin Changing,
           p.step = "sign" => (users[p.user] \in UserRow => p.pw <= users[p.user].pw),
           p.step = "redeem" => /\ p.invite \in Invite /\ invites[p.invite] # None
                                /\ invites[p.invite] \in InviteRow => invites[p.invite].email = p.user,
           ~Fresh
    PROVE  AuthInv'
<1>1. AuthBase /\ ChangesApart BY DEF AuthInv
<1>2. /\ request' \in [Request -> Requested]
      /\ \A q \in Request : request'[q] = IF q = r THEN p ELSE request[q] BY <1>1, Moving
<1>3. AuthTypes' BY <1>1, <1>2 DEF AuthBase, AuthTypes
<1>4. RowsStay /\ InvitesStay BY DEF RowsStay, InvitesStay, Exists, Issued
<1>5. AuthBase' /\ PassInv' /\ InviteRead' BY <1>3, <1>4, Quiet
<1>6. Admins' = Admins BY DEF Admins, Exists
<1>7. ChangesApart'
  <2>1. \A q \in Request : request'[q].step \in Changing => request'[q] = request[q] BY <1>2
  <2> HIDE DEF Admins
  <2> QED BY <1>1, <1>6, <2>1, ApartFrame
<1> QED BY <1>5, <1>7 DEF AuthInv

LEMMA ExistsNotFresh == ASSUME NEW u \in User, Exists(u) PROVE ~Fresh
BY ExistsNotNone DEF Fresh

LEMMA LoginStep == ASSUME AuthInv, NEW r \in Request, NEW u \in User, Login(r, u) PROVE AuthInv'
<1> DEFINE p == [Pending("sign", u) EXCEPT !.pw = users[u].pw]
<1>1. users[u].pw \in 1..MaxPassword /\ users[u] # None /\ ~Fresh
  BY ExistsNotNone, ExistsNotFresh DEF Login, Exists, UserRow
<1>2. p \in Requested /\ p.step = "sign" /\ p.user = u /\ p.pw = users[u].pw
  BY <1>1, PendingTyped DEF Requested, Pending, Steps
<1>3. Moves(r, p) /\ request[r].step = "none" /\ UNCHANGED <<users, epoch, tokens, invites, redis, raced>>
  BY DEF Login, Free
<1>4. users[u].pw <= users[u].pw BY <1>1
<1> HIDE DEF p
<1> QED BY <1>1, <1>2, <1>3, <1>4, Begins DEF Changing

LEMMA AskPasswordStep ==
    ASSUME AuthInv, NEW r \in Request, NEW j \in Token, AskPassword(r, j) PROVE AuthInv'
<1> DEFINE u == tokens[j].user  p == Pending("password", u)
<1>1. u \in User /\ Exists(u) BY TokenUser DEF AskPassword, AuthInv, AuthBase
<1>2. users[u] # None /\ ~Fresh BY <1>1, ExistsNotNone, ExistsNotFresh
<1>3. p \in Requested /\ p.step = "password" /\ p.user = u BY <1>1, PendingTyped DEF Steps
<1>4. Moves(r, p) /\ request[r].step = "none" /\ UNCHANGED <<users, epoch, tokens, invites, redis, raced>>
  BY DEF AskPassword, Free
<1> HIDE DEF p, u
<1> QED BY <1>1, <1>2, <1>3, <1>4, Begins DEF Changing

LEMMA RoleRequest ==
    ASSUME NEW step \in Steps, NEW u \in User, NEW role \in Role
    PROVE  /\ [Pending(step, u) EXCEPT !.role = role] \in Requested
           /\ [Pending(step, u) EXCEPT !.role = role].step = step
           /\ [Pending(step, u) EXCEPT !.role = role].user = u
BY PendingTyped DEF Requested, Pending

LEMMA AskRoleStep ==
    ASSUME AuthInv, NEW r \in Request, NEW j \in Token, NEW u \in User, NEW role \in Role,
           AskRole(r, j, u, role)
    PROVE  AuthInv'
<1> DEFINE p == [Pending("role", u) EXCEPT !.role = role]
<1>2. users[u] # None /\ ~Fresh BY ExistsNotNone, ExistsNotFresh DEF AskRole
<1>3. p \in Requested /\ p.step = "role" /\ p.user = u BY RoleRequest DEF Steps
<1>4. Moves(r, p) /\ request[r].step = "none" /\ UNCHANGED <<users, epoch, tokens, invites, redis, raced>>
  BY DEF AskRole, Free
<1> HIDE DEF p
<1> QED BY <1>2, <1>3, <1>4, Begins DEF Changing

LEMMA AskForAnother ==
    ASSUME AuthInv, NEW r \in Request, NEW j \in Token, NEW u \in User, NEW role \in Role,
           AskCreate(r, j, u, role) \/ AskInvite(r, j, u, role)
    PROVE  AuthInv'
<1> DEFINE p(step) == [Pending(step, u) EXCEPT !.role = role]
<1>1. tokens[j].user \in User /\ Exists(tokens[j].user)
  BY TokenUser DEF AskCreate, AskInvite, AuthInv, AuthBase
<1>2. ~Fresh BY <1>1, ExistsNotFresh
<1>3. PICK step \in {"create", "invite"} : Moves(r, p(step))
  BY DEF AskCreate, AskInvite
<1>4. p(step) \in Requested /\ p(step).step = step /\ p(step).user = u BY RoleRequest DEF Steps
<1>5. request[r].step = "none" /\ UNCHANGED <<users, epoch, tokens, invites, redis, raced>>
  BY DEF AskCreate, AskInvite, Free
<1> DEFINE n == p(step)
<1>6. n \in Requested /\ n.step \in {"create", "invite"} /\ n.user = u /\ Moves(r, n) BY <1>3, <1>4
<1> HIDE DEF n
<1> QED BY <1>2, <1>5, <1>6, Begins DEF Changing, FoundRow

LEMMA AskRedeemStep ==
    ASSUME AuthInv, NEW r \in Request, NEW i \in Invite, AskRedeem(r, i) PROVE AuthInv'
<1> DEFINE p == [Pending("redeem", invites[i].email) EXCEPT !.role = invites[i].role, !.invite = i]
<1>1. invites[i] \in InviteRow /\ invites[i] # None /\ ~Fresh
  BY AuthAssumption DEF AskRedeem, Issued, Fresh
<1>2. invites[i].email \in User /\ invites[i].role \in Role BY <1>1 DEF InviteRow
<1>3. p \in Requested /\ p.step = "redeem" /\ p.user = invites[i].email /\ p.invite = i
  <2> DEFINE n == Pending("redeem", invites[i].email)
  <2>1. "redeem" \in Steps BY DEF Steps
  <2>2. n \in Requested /\ n.step = "redeem" /\ n.user = invites[i].email BY <1>2, <2>1, PendingTyped
  <2>3. \A a \in Requested, b \in Role :
           LET c == [a EXCEPT !.role = b, !.invite = i]
           IN  c \in Requested /\ c.step = a.step /\ c.user = a.user /\ c.invite = i
    BY DEF Requested
  <2> HIDE DEF n
  <2>4. LET c == [n EXCEPT !.role = invites[i].role, !.invite = i]
        IN  c \in Requested /\ c.step = "redeem" /\ c.user = invites[i].email /\ c.invite = i
    BY <1>2, <2>2, <2>3
  <2> QED BY <2>4 DEF n
<1>4. Moves(r, p) /\ request[r].step = "none" /\ UNCHANGED <<users, epoch, tokens, invites, redis, raced>>
  BY DEF AskRedeem, Free
<1> HIDE DEF p
<1> QED BY <1>1, <1>2, <1>3, <1>4, Begins DEF Changing, FoundRow

(* A request that ends without having written anything.                    *)
LEMMA Refused ==
    ASSUME AuthInv, NEW r \in Request, ~Free(r), request[r].step # "bump", Answers(r),
           UNCHANGED <<users, epoch, tokens, invites, redis, raced>>
    PROVE  AuthInv'
<1>1. ~Fresh BY DEF Fresh
<1> QED BY <1>1, NoRequestTyped, Begins DEF Answers, FoundRow, Changing

(* Only the flags of logged out sessions, or Redis, change.                *)
LEMMA Elsewhere ==
    ASSUME AuthInv, UNCHANGED <<users, epoch, tokens, invites, request, raced>>, redis' \in BOOLEAN
    PROVE  AuthInv'
BY DEF AuthInv, AuthBase, AuthTypes, AboutUsers, PassInv, SignKnows, PassOf, BumpPending, Doing, Free,
       ChangesApart, SeesAdmins, Fresh, Admins, Exists, InviteRead, Issued

-----------------------------------------------------------------------------
(* Rows of the user table.                                                 *)

(* A user is inserted: the first one, one an admin creates, or one that    *)
(* redeems an invite.                                                      *)
LEMMA Inserts ==
    ASSUME AuthInv, NEW r \in Request, NEW u \in User, NEW role \in Role, NEW p \in Requested,
           users[u] = None, Insert(u, role), Moves(r, p), Fresh => role = "admin",
           invites' \in [Invite -> InviteRow \cup {None, Deleted}], InvitesStay,
           UNCHANGED <<epoch, tokens, redis, raced>>, request[r].step # "bump",
           p = NoRequest \/ p = Pending("sign", u)
    PROVE  AuthInv'
<1>1. AuthBase /\ ChangesApart BY DEF AuthInv
<1>2. /\ request' \in [Request -> Requested]
      /\ \A q \in Request : request'[q] = IF q = r THEN p ELSE request[q] BY <1>1, Moving
<1> DEFINE row == [role |-> role, pw |-> 1]
<1>3. row \in UserRow /\ row.pw = 1 /\ row.role = role BY RowTyped
<1>4. users' = [users EXCEPT ![u] = row] BY DEF Insert
<1> HIDE DEF row
<1>5. users' \in [User -> UserRow \cup {None, Deleted}] /\ users'[u] = row
      /\ \A v \in User \ {u} : users'[v] = users[v]
  BY <1>1, <1>3, <1>4 DEF AuthBase, AuthTypes
<1>6. row # None /\ row # Deleted BY <1>3, AuthAssumption
<1>7. AuthTypes' BY <1>1, <1>2, <1>5 DEF AuthBase, AuthTypes
<1>8. RowsStay BY <1>1, <1>5, AuthAssumption DEF RowsStay, Exists, AuthBase, AuthTypes
<1>9. /\ p.step \in {"none", "sign"}
      /\ p.step # "none" => p.user = u
      /\ p.step = "sign" => p.pw = 1 /\ p.user = u
  BY NoRequestTyped, PendingTyped DEF Steps
<1>10. p.step = "sign" => (users'[p.user] \in UserRow => p.pw <= users'[p.user].pw)
  BY <1>3, <1>5, <1>9
<1>11. AuthBase' /\ PassInv' /\ InviteRead'
  BY <1>5, <1>6, <1>7, <1>8, <1>9, <1>10, Quiet DEF FoundRow
<1>12. /\ Admins \subseteq Admins' /\ \A v \in User : v \in Admins' => v \in Admins \/ users[v] = None
       /\ role = "admin" => u \in Admins'
  <2>1. u \notin Admins BY AuthAssumption DEF Admins, Exists
  <2>2. \A v \in User \ {u} : v \in Admins' <=> v \in Admins BY <1>5 DEF Admins, Exists
  <2>3. role = "admin" => u \in Admins' BY <1>3, <1>5 DEF Admins, Exists
  <2>4. Admins \subseteq User BY DEF Admins
  <2>5. Admins \subseteq Admins' BY <2>1, <2>2, <2>4
  <2>6. \A v \in User : v \in Admins' => v \in Admins \/ users[v] = None BY <2>2
  <2> QED BY <2>3, <2>5, <2>6
<1>13. ChangesApart'
  <2>1. \A q \in Request : request'[q].step \in Changing => request'[q] = request[q]
    BY <1>2, <1>9 DEF Changing
  <2> HIDE DEF Admins
  <2> QED BY <1>1, <1>12, <2>1, ApartFrame
<1> QED BY <1>11, <1>13 DEF AuthInv

LEMMA RegisterStep == ASSUME AuthInv, NEW r \in Request, NEW u \in User, Register(r, u) PROVE AuthInv'
<1> DEFINE p == Pending("sign", u)
<1>1. p \in Requested BY PendingTyped DEF Steps
<1>2. /\ users[u] = None /\ Insert(u, "admin") /\ Moves(r, p) /\ request[r].step = "none"
      /\ UNCHANGED <<epoch, tokens, redis, raced, invites>>
  BY DEF Register, Insert, Free
<1>3. InvitesStay /\ invites' \in [Invite -> InviteRow \cup {None, Deleted}]
  BY <1>2 DEF InvitesStay, Issued, AuthInv, AuthBase, AuthTypes
<1>4. "admin" \in Role BY DEF Role
<1> QED BY <1>1, <1>2, <1>3, <1>4, Inserts

LEMMA CreateUserStep == ASSUME AuthInv, NEW r \in Request, CreateUser(r) PROVE AuthInv'
<1> DEFINE u == request[r].user  role == request[r].role
<1>1. /\ Doing(r, "create") /\ Answers(r) /\ UNCHANGED <<epoch, tokens, invites, redis, raced>>
      /\ request[r].step = "create" /\ ~Free(r) /\ ~Fresh
  BY DEF CreateUser, Doing, Free, Fresh
<1>2. u \in User /\ role \in Role
  BY <1>1 DEF AuthInv, AuthBase, AboutUsers, AuthTypes, Requested
<1>3. CASE users[u] = None
  <2>1. Insert(u, role) BY <1>3 DEF CreateUser
  <2>2. InvitesStay /\ invites' \in [Invite -> InviteRow \cup {None, Deleted}]
    BY <1>1 DEF InvitesStay, Issued, AuthInv, AuthBase, AuthTypes
  <2> HIDE DEF u, role
  <2> QED BY <1>1, <1>2, <1>3, <2>1, <2>2, NoRequestTyped, Inserts DEF Answers
<1>4. CASE users[u] # None
  BY <1>1, <1>4, Refused DEF CreateUser
<1> QED BY <1>3, <1>4

LEMMA InviteRow1 ==
    ASSUME NEW row \in InviteRow PROVE row.email \in User /\ row # None /\ row # Deleted
BY AuthAssumption DEF InviteRow

LEMMA RedeemInviteStep == ASSUME AuthInv, NEW r \in Request, RedeemInvite(r) PROVE AuthInv'
<1> DEFINE u == request[r].user  role == request[r].role  i == request[r].invite
<1>1. /\ UNCHANGED <<epoch, tokens, redis, raced>> /\ Doing(r, "redeem")
      /\ request[r].step = "redeem" /\ ~Free(r) /\ ~Fresh
  BY DEF RedeemInvite, Doing, Free, Fresh
<1>2. u \in User /\ role \in Role /\ i \in Invite
  BY <1>1 DEF AuthInv, AuthBase, AboutUsers, AuthTypes, Requested, InviteRead
<1>3. CASE MayRedeem(r)
  <2>1. /\ Insert(u, role) /\ Issued(i) /\ users[u] = None /\ Moves(r, Pending("sign", u))
        /\ invites' = [invites EXCEPT ![i].used = TRUE]
    BY <1>3 DEF RedeemInvite, MayRedeem
  <2> DEFINE row == [invites[i] EXCEPT !.used = TRUE]
  <2>2. row \in InviteRow /\ row.email = invites[i].email BY <2>1 DEF Issued, InviteRow
  <2>3. invites' = [invites EXCEPT ![i] = row] BY <2>1
  <2> HIDE DEF row
  <2>4. /\ invites' \in [Invite -> InviteRow \cup {None, Deleted}] /\ invites'[i] = row
        /\ \A k \in Invite \ {i} : invites'[k] = invites[k]
    BY <1>2, <2>2, <2>3 DEF AuthInv, AuthBase, AuthTypes
  <2>5. InvitesStay BY <2>1, <2>2, <2>4, InviteRow1 DEF InvitesStay, Issued
  <2>6. Pending("sign", u) \in Requested BY <1>2, PendingTyped DEF Steps
  <2> HIDE DEF u, role, i
  <2> QED BY <1>1, <1>2, <2>1, <2>4, <2>5, <2>6, Inserts
<1>4. CASE ~MayRedeem(r)
  BY <1>1, <1>4, Refused DEF RedeemInvite
<1> QED BY <1>3, <1>4

-----------------------------------------------------------------------------
(* Invitations.                                                            *)

LEMMA CreateInviteStep == ASSUME AuthInv, NEW r \in Request, CreateInvite(r) PROVE AuthInv'
<1> DEFINE row == [email |-> request[r].user, role |-> request[r].role, used |-> FALSE, expired |-> FALSE]
<1>1. /\ Answers(r) /\ UNCHANGED <<users, epoch, tokens, redis, raced>>
      /\ request[r].step = "invite" /\ ~Free(r) /\ ~Fresh
  BY DEF CreateInvite, Doing, Free, Fresh
<1>2. row \in InviteRow
  <2>1. request[r].user \in User /\ request[r].role \in Role
    BY <1>1 DEF AuthInv, AuthBase, AboutUsers, AuthTypes, Requested
  <2> QED BY <2>1 DEF InviteRow
<1>3. PICK i \in Invite : invites[i] = None /\ invites' = [invites EXCEPT ![i] = row] BY DEF CreateInvite
<1> HIDE DEF row
<1>4. /\ invites' \in [Invite -> InviteRow \cup {None, Deleted}] /\ InvitesStay
  BY <1>2, <1>3, InviteRow1 DEF AuthInv, AuthBase, AuthTypes, InvitesStay, Issued
<1>5. AuthBase /\ ChangesApart BY DEF AuthInv
<1>6. /\ request' \in [Request -> Requested]
      /\ \A q \in Request : request'[q] = IF q = r THEN NoRequest ELSE request[q] BY <1>1, <1>5, Answering
<1>7. AuthTypes' /\ RowsStay BY <1>1, <1>4, <1>5, <1>6 DEF AuthBase, AuthTypes, RowsStay, Exists
<1>8. AuthBase' /\ PassInv' /\ InviteRead'
  BY <1>1, <1>4, <1>7, NoRequestTyped, Quiet DEF Answers, FoundRow
<1>9. ChangesApart'
  <2>1. Admins' = Admins BY <1>1 DEF Admins, Exists
  <2>2. \A q \in Request : request'[q].step \in Changing => request'[q] = request[q]
    BY <1>6, NoRequestTyped DEF Changing
  <2> QED BY <1>1, <1>5, <2>1, <2>2, ApartFrame
<1> QED BY <1>8, <1>9 DEF AuthInv

(* An invite is revoked or expires.                                        *)
LEMMA InviteStep ==
    ASSUME AuthInv, NEW i \in Invite, InviteExpires(i) \/ \E j \in Token : RevokeInvite(j, i)
    PROVE  AuthInv'
<1> DEFINE row == [invites[i] EXCEPT !.expired = TRUE]
<1>1. /\ Issued(i) /\ UNCHANGED <<users, epoch, tokens, request, redis, raced>>
      /\ invites' = [invites EXCEPT ![i] = row] \/ invites' = [invites EXCEPT ![i] = Deleted]
  BY DEF InviteExpires, RevokeInvite
<1>2. row \in InviteRow /\ row.email = invites[i].email BY <1>1 DEF Issued, InviteRow
<1> HIDE DEF row
<1>3. /\ invites' \in [Invite -> InviteRow \cup {None, Deleted}] /\ InvitesStay
  <2>1. Deleted # None /\ Deleted \notin InviteRow /\ row # None BY <1>2, InviteRow1, AuthAssumption
  <2> QED BY <1>1, <1>2, <2>1 DEF AuthInv, AuthBase, AuthTypes, InvitesStay, Issued
<1>4. ~Fresh BY <1>1, InviteRow1 DEF Issued, Fresh
<1>5. AuthBase' /\ PassInv'
  BY <1>1, <1>3 DEF AuthInv, AuthBase, AuthTypes, AboutUsers, PassInv, SignKnows, PassOf, BumpPending,
                    Doing, Free, Exists
<1>6. ChangesApart' BY <1>1, <1>4 DEF AuthInv, ChangesApart, SeesAdmins, Admins, Exists
<1>7. InviteRead'
  <2>1. InviteRead BY DEF AuthInv
  <2>2. \A q \in Request : request'[q] = request[q] BY <1>1
  <2> QED BY <1>3, <2>1, <2>2, ReadFrame
<1> QED BY <1>5, <1>6, <1>7 DEF AuthInv

-----------------------------------------------------------------------------
(* Sessions and passwords.                                                 *)

LEMMA IssueStep == ASSUME AuthInv, NEW r \in Request, IssueUserToken(r) PROVE AuthInv'
<1> DEFINE u == request[r].user
           late == Exists(u) /\ users[u].pw # request[r].pw /\ ~BumpPending(u)
           early == BumpPending(u) \/ ~redis
           ver == IF redis THEN epoch[u] ELSE 0
           t == [user |-> u, ver |-> ver, pw |-> request[r].pw, late |-> late, early |-> early]
<1>1. /\ Answers(r) /\ UNCHANGED <<users, epoch, invites, redis, raced>>
      /\ request[r].step = "sign" /\ Doing(r, "sign") /\ ~Fresh
  BY DEF IssueUserToken, Doing, Free, Fresh
<1>2. AuthBase /\ PassInv /\ ChangesApart /\ InviteRead BY DEF AuthInv
<1>3. u \in User /\ users[u] # None BY <1>1, <1>2 DEF AuthBase, AboutUsers, Free, FoundRow
<1>4. request[r].pw \in 1..MaxPassword /\ epoch[u] \in Nat /\ redis \in BOOLEAN
  BY <1>2, <1>3 DEF AuthBase, AuthTypes, Requested
<1>5. Exists(u) => request[r].pw <= users[u].pw /\ users[u].pw \in Nat
  <2>1. Exists(u) => users[u].pw \in 1..MaxPassword BY DEF Exists, UserRow
  <2> QED BY <1>1, <1>2, <2>1 DEF PassInv, SignKnows
<1>6. PICK j \in Token : tokens[j] = None /\ tokens' = [tokens EXCEPT ![j] = t]
  BY DEF IssueUserToken
<1> HIDE DEF late, early, ver
<1>7. t \in Granted
  <2>1. late \in BOOLEAN /\ early \in BOOLEAN BY DEF late, early
  <2>2. ver \in Nat BY <1>4 DEF ver
  <2> QED BY <1>3, <1>4, <2>1, <2>2 DEF Granted
<1>8. /\ t.user = u /\ t.pw = request[r].pw /\ t.ver <= epoch[u]
      /\ Exists(u) =>
           /\ t.pw # users[u].pw => t.late \/ BumpPending(u)
           /\ ~t.early => t.ver = epoch[u] /\ ~BumpPending(u)
  <2>1. t.user = u /\ t.pw = request[r].pw /\ t.ver = ver /\ t.late = late /\ t.early = early OBVIOUS
  <2>2. ver <= epoch[u] BY <1>4 DEF ver
  <2>3. Exists(u) /\ request[r].pw # users[u].pw => late \/ BumpPending(u) BY Zenon DEF late
  <2>4. ~early => ver = epoch[u] /\ ~BumpPending(u) BY <1>4 DEF early, ver
  <2> QED BY <2>1, <2>2, <2>3, <2>4
<1>9. PassOf(t) BY <1>3, <1>5, <1>8 DEF PassOf
<1> HIDE DEF t
<1>10. /\ request' \in [Request -> Requested]
       /\ \A q \in Request : request'[q] = IF q = r THEN NoRequest ELSE request[q] BY <1>1, <1>2, Answering
<1>11. \A v \in User : BumpPending(v)' <=> BumpPending(v)
  <2>1. \A q \in Request : \/ request'[q] = request[q]
                           \/ request'[q].step # "bump" /\ request[q].step # "bump"
    BY <1>1, <1>10, NoRequestTyped
  <2> QED BY <2>1, BumpFrame
<1>12. /\ DOMAIN tokens' = Token /\ tokens'[j] = t
       /\ \A k \in Token \ {j} : tokens'[k] = tokens[k]
  BY <1>2, <1>6 DEF AuthBase, AuthTypes
<1>13. AuthTypes' BY <1>1, <1>2, <1>7, <1>10, <1>12 DEF AuthBase, AuthTypes
<1>14. AboutUsers' BY <1>1, <1>2, <1>10, NoRequestTyped DEF AuthBase, AboutUsers, Free, FoundRow
<1>15. SignKnows' BY <1>1, <1>2, <1>10, NoRequestTyped DEF PassInv, SignKnows, Doing, Exists
<1>16. ASSUME NEW k \in Token, tokens'[k] # None PROVE PassOf(tokens'[k]) /\ tokens'[k].user \in User
  <2>1. CASE k = j BY <1>3, <1>8, <1>9, <1>12, <2>1
  <2>2. CASE k # j BY <1>2, <1>12, <1>16, <2>2 DEF PassInv, AuthBase, AuthTypes, Granted
  <2> QED BY <2>1, <2>2
<1>17. ASSUME NEW k \in Token, tokens'[k] # None PROVE PassOf(tokens[k])'
  <2> SUFFICES ASSUME NEW s, s = tokens'[k] PROVE PassOf(tokens[k])' OBVIOUS
  <2>1. PassOf(s) /\ s.user \in User BY <1>16, <1>17
  <2>2. BumpPending(s.user)' <=> BumpPending(s.user) BY <1>11, <2>1
  <2> QED BY <1>1, <2>1, <2>2 DEF PassOf, Exists, BumpPending, Doing
<1>18. ChangesApart'
  <2>1. Admins' = Admins BY <1>1 DEF Admins, Exists
  <2>2. \A q \in Request : request'[q].step \in Changing => request'[q] = request[q]
    BY <1>10, NoRequestTyped DEF Changing
  <2> QED BY <1>1, <1>2, <2>1, <2>2, ApartFrame
<1>19. InviteRead' BY <1>1, <1>2, <1>10, NoRequestTyped DEF InviteRead, Doing, Issued
<1> QED BY <1>13, <1>14, <1>15, <1>17, <1>18, <1>19 DEF AuthInv, AuthBase, PassInv

LEMMA ExpireStep == ASSUME AuthInv, NEW j \in Token, SessionExpires(j) PROVE AuthInv'
<1>1. /\ tokens[j] # None /\ tokens' = [tokens EXCEPT ![j] = None]
      /\ UNCHANGED <<users, epoch, invites, request, redis, raced>>
  BY DEF SessionExpires
<1>2. ~Fresh BY <1>1 DEF Fresh
<1>3. /\ DOMAIN tokens' = Token
      /\ \A k \in Token : tokens'[k] # None => tokens'[k] = tokens[k] /\ tokens[k] # None
  BY <1>1 DEF AuthInv, AuthBase, AuthTypes
<1>4. AuthBase' BY <1>1, <1>3 DEF AuthInv, AuthBase, AuthTypes, AboutUsers, Free
<1>5. PassInv' BY <1>1, <1>3 DEF AuthInv, PassInv, SignKnows, PassOf, BumpPending, Doing, Exists
<1>6. ChangesApart' BY <1>1, <1>2 DEF AuthInv, ChangesApart, SeesAdmins, Admins, Exists
<1>7. InviteRead' BY <1>1 DEF AuthInv, InviteRead, Doing, Issued
<1> QED BY <1>4, <1>5, <1>6, <1>7 DEF AuthInv

(* The admins stay as they are while passwords and sessions change.        *)
LEMMA SameAdmins ==
    ASSUME AuthInv, Admins' = Admins, raced' = raced, ~Fresh,
           \A q \in Request : request'[q].step \in Changing => request'[q] = request[q]
    PROVE  ChangesApart'
<1>1. AuthBase /\ ChangesApart BY DEF AuthInv
<1> QED BY <1>1, ApartFrame

LEMMA WritePasswordStep == ASSUME AuthInv, NEW r \in Request, WritePassword(r) PROVE AuthInv'
<1> DEFINE u == request[r].user
<1>1. /\ UNCHANGED <<epoch, tokens, revoked, invites, redis, raced>>
      /\ request[r].step = "password" /\ ~Free(r) /\ ~Fresh
  BY DEF WritePassword, Doing, Free, Fresh
<1>2. AuthBase /\ PassInv /\ InviteRead BY DEF AuthInv
<1>3. u \in User /\ users[u] # None BY <1>1, <1>2 DEF AuthBase, AboutUsers, Free, FoundRow
<1>4. CASE Exists(u) /\ users[u].pw < MaxPassword
  <2> DEFINE p == Pending("bump", u)  row == [users[u] EXCEPT !.pw = @ + 1]
  <2>1. p \in Requested /\ p.step = "bump" /\ p.user = u BY <1>3, PendingTyped DEF Steps
  <2>2. users' = [users EXCEPT ![u] = row] /\ Moves(r, p) BY <1>4 DEF WritePassword
  <2>3. users[u].pw \in 1..MaxPassword /\ users[u].role \in Role BY <1>4 DEF Exists, UserRow
  <2>4. row \in UserRow /\ row.pw = users[u].pw + 1 /\ row.role = users[u].role
    <3>1. users[u].pw + 1 \in 1..MaxPassword BY <1>4, <2>3, AuthAssumption
    <3> QED BY <1>4, <3>1 DEF Exists, UserRow
  <2> HIDE DEF p, row
  <2>5. /\ users' \in [User -> UserRow \cup {None, Deleted}] /\ users'[u] = row
        /\ \A v \in User \ {u} : users'[v] = users[v]
    BY <1>2, <1>3, <2>2, <2>4 DEF AuthBase, AuthTypes
  <2>6. /\ request' \in [Request -> Requested]
        /\ \A q \in Request : request'[q] = IF q = r THEN p ELSE request[q] BY <1>2, <2>1, <2>2, Moving
  <2>7. AuthTypes' BY <1>1, <1>2, <2>5, <2>6 DEF AuthBase, AuthTypes
  <2>8. row # None BY <2>4, AuthAssumption
  <2>9. AboutUsers'
    <3>1. \A v \in User : users[v] # None => users'[v] # None BY <2>5, <2>8
    <3> QED BY <1>2, <1>3, <2>1, <2>5, <2>6, <2>8, <3>1, AboutKept
  <2>10. \E q \in Request : request'[q].step = "bump" /\ request'[q].user = u BY <2>1, <2>6
  <2>11. \A v \in User \ {u} : BumpPending(v)' <=> BumpPending(v)
    <3> TAKE v \in User \ {u}
    <3>1. \A q \in Request : (request'[q].step = "bump" /\ request'[q].user = v)
                                 <=> (request[q].step = "bump" /\ request[q].user = v)
      BY <1>1, <2>1, <2>6
    <3> QED BY <3>1 DEF BumpPending, Doing
  <2>12. SignKnows'
    <3>1. ASSUME NEW q \in Request, request'[q].step = "sign", users'[request'[q].user] \in UserRow
          PROVE  request'[q].pw <= users'[request'[q].user].pw
      <4>1. request'[q] = request[q] BY <2>1, <2>6, <3>1
      <4> SUFFICES ASSUME NEW n, n = request[q], n.step = "sign", users'[n.user] \in UserRow
                   PROVE  n.pw <= users'[n.user].pw
        BY <3>1, <4>1
      <4>2. n.user \in User /\ n.pw \in Nat
        BY <1>2 DEF AuthBase, AuthTypes, AboutUsers, Free, Requested
      <4>3. Exists(n.user) => n.pw <= users[n.user].pw BY <1>2 DEF PassInv, SignKnows, Doing
      <4>4. CASE n.user = u BY <1>4, <2>3, <2>4, <2>5, <4>2, <4>3, <4>4
      <4>5. CASE n.user # u BY <2>5, <4>2, <4>3, <4>5 DEF Exists
      <4> QED BY <4>4, <4>5
    <3> QED BY <3>1 DEF SignKnows, Doing, Exists
  <2>13. ASSUME NEW k \in Token, tokens[k] # None PROVE PassOf(tokens[k])'
    <3> SUFFICES ASSUME NEW t, t = tokens[k], t = tokens'[k] PROVE PassOf(tokens[k])' BY <1>1
    <3>1. PassOf(t) /\ t.user \in User /\ t.pw \in Nat
      <4>1. PassOf(t) /\ t \in Granted BY <1>2, <2>13 DEF PassInv, AuthBase, AuthTypes
      <4> QED BY <4>1 DEF Granted
    <3>2. CASE t.user = u
      <4>1. t.pw <= users[u].pw BY <1>4, <3>1, <3>2 DEF PassOf
      <4>2. t.pw # users'[u].pw BY <2>3, <2>4, <2>5, <3>1, <4>1
      <4>3. t.pw <= users'[u].pw BY <2>3, <2>4, <2>5, <3>1, <4>1
      <4>4. users'[t.user] = row /\ users'[u] = row BY <2>5, <3>2
      <4>5. BumpPending(t.user)' BY <2>10, <3>2 DEF BumpPending, Doing
      <4>6. epoch' = epoch BY <1>1
      <4> QED BY <2>8, <3>1, <3>2, <4>2, <4>3, <4>4, <4>5, <4>6 DEF PassOf
    <3>3. CASE t.user # u
      <4>1. users'[t.user] = users[t.user] BY <2>5, <3>1, <3>3
      <4>2. BumpPending(t.user)' <=> BumpPending(t.user) BY <2>11, <3>1, <3>3
      <4> QED BY <1>1, <3>1, <4>1, <4>2 DEF PassOf, Exists
    <3> QED BY <3>2, <3>3
  <2>14. ChangesApart'
    <3>1. Admins' = Admins
      <4>1. \A v \in User : (users'[v] \in UserRow /\ users'[v].role = "admin")
                               <=> (users[v] \in UserRow /\ users[v].role = "admin")
        BY <1>4, <2>4, <2>5 DEF Exists
      <4> QED BY <4>1 DEF Admins, Exists
    <3>2. \A q \in Request : request'[q].step \in Changing => request'[q] = request[q]
      BY <2>1, <2>6 DEF Changing
    <3> QED BY <1>1, <3>1, <3>2, SameAdmins
  <2>15. InviteRead'
    <3>1. InvitesStay BY <1>1 DEF InvitesStay, Issued
    <3>2. \A q \in Request : request'[q] = request[q] \/ request'[q].step # "redeem" BY <2>1, <2>6
    <3> QED BY <1>2, <3>1, <3>2, ReadFrame
  <2>16. PassInv' BY <1>1, <2>12, <2>13 DEF PassInv
  <2> QED BY <2>7, <2>9, <2>14, <2>15, <2>16 DEF AuthInv, AuthBase
<1>5. CASE ~(Exists(u) /\ users[u].pw < MaxPassword)
  BY <1>1, <1>5, Refused DEF WritePassword
<1> QED BY <1>4, <1>5

(* The epoch is bumped, or the change ends without it.                     *)
LEMMA BumpEnds ==
    ASSUME AuthInv, NEW r \in Request, Doing(r, "bump"), Answers(r),
           UNCHANGED <<users, invites, redis, raced>>,
           \/ epoch' = [epoch EXCEPT ![request[r].user] = @ + 1] /\ UNCHANGED tokens
           \/ NotRevoked(request[r].user) /\ UNCHANGED epoch
    PROVE  AuthInv'
<1> DEFINE u == request[r].user
<1>1. request[r].step = "bump" /\ ~Free(r) /\ ~Fresh BY DEF Doing, Free, Fresh
<1>2. AuthBase /\ PassInv /\ InviteRead BY DEF AuthInv
<1>3. u \in User /\ users[u] # None /\ BumpPending(u)
  BY <1>1, <1>2 DEF AuthBase, AboutUsers, Free, FoundRow, BumpPending, Doing
<1>4. /\ request' \in [Request -> Requested]
      /\ \A q \in Request : request'[q] = IF q = r THEN NoRequest ELSE request[q] BY <1>2, Answering
<1>5. epoch' \in [User -> Nat] /\ \A v \in User \ {u} : epoch'[v] = epoch[v]
  BY <1>2, <1>3 DEF AuthBase, AuthTypes
<1>6. /\ DOMAIN tokens' = Token
      /\ \A k \in Token : tokens[k] = None => tokens'[k] = None
      /\ \A k \in Token : tokens[k] # None =>
            tokens'[k] = tokens[k] \/ tokens'[k] = [tokens[k] EXCEPT !.late = TRUE]
  BY <1>2 DEF AuthBase, AuthTypes, NotRevoked
<1>7. ASSUME NEW k \in Token, tokens[k] # None
      PROVE  /\ tokens'[k] \in Granted /\ tokens'[k].user = tokens[k].user /\ tokens'[k].ver = tokens[k].ver
             /\ tokens'[k].pw = tokens[k].pw /\ tokens'[k].early = tokens[k].early
             /\ tokens[k].late => tokens'[k].late
             /\ tokens[k].user = u => tokens'[k].late \/ epoch'[u] = epoch[u] + 1
             /\ epoch[tokens[k].user] <= epoch'[tokens[k].user]
  <2>1. tokens[k] \in Granted BY <1>2, <1>7 DEF AuthBase, AuthTypes
  <2>2. CASE epoch' = [epoch EXCEPT ![u] = @ + 1] /\ UNCHANGED tokens
    <3>1. epoch'[u] = epoch[u] + 1 /\ epoch \in [User -> Nat]
      BY <1>2, <1>3, <2>2 DEF AuthBase, AuthTypes
    <3>2. tokens[k].user \in User BY <2>1 DEF Granted
    <3>3. epoch[tokens[k].user] <= epoch'[tokens[k].user] BY <1>5, <3>1, <3>2
    <3>4. tokens'[k] = tokens[k] BY <2>2
    <3> QED BY <2>1, <3>1, <3>3, <3>4
  <2>3. CASE NotRevoked(u) /\ UNCHANGED epoch
    <3>1. tokens'[k] = IF tokens[k].user = u THEN [tokens[k] EXCEPT !.late = TRUE] ELSE tokens[k]
      BY <1>7, <2>3 DEF NotRevoked
    <3>2. epoch[tokens[k].user] <= epoch'[tokens[k].user]
      BY <1>2, <2>1, <2>3 DEF AuthBase, AuthTypes, Granted
    <3>3. CASE tokens[k].user = u
      <4>1. tokens'[k] = [tokens[k] EXCEPT !.late = TRUE] BY <3>1, <3>3
      <4>2. tokens'[k] \in Granted /\ tokens'[k].late = TRUE BY <2>1, <4>1 DEF Granted
      <4> QED BY <2>1, <3>2, <4>1, <4>2 DEF Granted
    <3>4. CASE tokens[k].user # u BY <2>1, <3>1, <3>2, <3>4
    <3> QED BY <3>3, <3>4
  <2> QED BY <2>2, <2>3
<1>8. AuthTypes' BY <1>2, <1>4, <1>5, <1>6, <1>7 DEF AuthBase, AuthTypes
<1>9. AboutUsers' BY <1>2, <1>4, NoRequestTyped DEF AuthBase, AboutUsers, Free, FoundRow
<1>10. SignKnows' BY <1>2, <1>4, NoRequestTyped DEF PassInv, SignKnows, Doing, Exists
<1>11. \A v \in User \ {u} : BumpPending(v)' <=> BumpPending(v)
  <2> TAKE v \in User \ {u}
  <2>1. \A q \in Request : (request'[q].step = "bump" /\ request'[q].user = v)
                               <=> (request[q].step = "bump" /\ request[q].user = v)
    BY <1>1, <1>4, NoRequestTyped
  <2> QED BY <2>1 DEF BumpPending, Doing
<1>12. ASSUME NEW k \in Token, tokens'[k] # None PROVE PassOf(tokens[k])'
  <2>1. tokens[k] # None BY <1>6, <1>12
  <2> SUFFICES ASSUME NEW t, t = tokens[k], NEW s, s = tokens'[k] PROVE PassOf(tokens[k])' OBVIOUS
  <2>2. PassOf(t) /\ t \in Granted BY <1>2, <2>1 DEF PassInv, AuthBase, AuthTypes
  <2>3. /\ s.user = t.user /\ s.ver = t.ver /\ s.pw = t.pw /\ s.early = t.early
        /\ t.late => s.late
        /\ t.user = u => s.late \/ epoch'[u] = epoch[u] + 1
        /\ epoch[t.user] <= epoch'[t.user]
    BY <1>7, <2>1
  <2>4. t.user \in User /\ t.ver \in Nat /\ epoch[t.user] \in Nat /\ epoch'[t.user] \in Nat
    BY <1>2, <1>5, <2>2 DEF AuthBase, AuthTypes, Granted
  <2>5. t.ver <= epoch[t.user] /\ users[t.user] # None BY <2>2 DEF PassOf
  <2>6. CASE t.user = u
    <3>1. Exists(u) => ~(t.pw = users[u].pw /\ ~t.early) BY <1>3, <2>2, <2>6 DEF PassOf
    <3>2. s.late \/ t.ver < epoch'[u] BY <2>3, <2>4, <2>5, <2>6
    <3>3. Exists(u) => t.pw <= users[u].pw BY <2>2, <2>6 DEF PassOf
    <3>4. t.ver <= epoch'[u] BY <2>3, <2>4, <2>5, <2>6
    <3> QED BY <2>3, <2>5, <2>6, <3>1, <3>2, <3>3, <3>4 DEF PassOf, Exists
  <2>7. CASE t.user # u
    <3>1. epoch'[t.user] = epoch[t.user] BY <1>5, <2>4, <2>7
    <3>2. BumpPending(t.user)' <=> BumpPending(t.user) BY <1>11, <2>4, <2>7
    <3>3. s.user = t.user BY <2>3
    <3>4. BumpPending(s.user)' <=> BumpPending(t.user) BY <3>2, <3>3
    <3> QED BY <2>2, <2>3, <3>1, <3>4 DEF PassOf, Exists
  <2> QED BY <2>6, <2>7
<1>13. ChangesApart'
  <2>1. Admins' = Admins BY DEF Admins, Exists
  <2>2. \A q \in Request : request'[q].step \in Changing => request'[q] = request[q]
    BY <1>4, NoRequestTyped DEF Changing
  <2> QED BY <1>1, <2>1, <2>2, SameAdmins
<1>14. InviteRead' BY <1>2, <1>4, NoRequestTyped DEF InviteRead, Doing, Issued
<1>15. PassInv' BY <1>10, <1>12 DEF PassInv
<1> QED BY <1>8, <1>9, <1>13, <1>14, <1>15 DEF AuthInv, AuthBase

-----------------------------------------------------------------------------
(* Changes of the set of admins.                                           *)

LEMMA Counting ==
    ASSUME NEW S \in SUBSET User
    PROVE  /\ Cardinality(S) \in Nat
           /\ Cardinality(S) > 0 => S # {}
           /\ Cardinality(S) > 1 => \E a, b \in S : a # b
<1>1. IsFiniteSet(S) BY FS_Subset, AuthAssumption
<1>2. Cardinality(S) \in Nat BY <1>1, FS_CardinalityType
<1>3. S = {} => Cardinality(S) = 0 BY FS_EmptySet
<1>4. ASSUME Cardinality(S) > 1, ~ \E a, b \in S : a # b PROVE FALSE
  <2>1. S # {} BY <1>2, <1>3, <1>4
  <2>2. PICK a \in S : TRUE BY <2>1
  <2>3. S = {a} BY <1>4, <2>2
  <2>4. Cardinality(S) = 1 BY <2>3, FS_Singleton
  <2> QED BY <1>4, <2>4
<1> QED BY <1>2, <1>3, <1>4

(* A change of the admins begins: it has seen what is there.               *)
LEMMA Starts ==
    ASSUME AuthInv, NEW r \in Request, NEW p \in Requested, Moves(r, p), RacesAdmins(r),
           UNCHANGED <<users, epoch, tokens, revoked, invites, redis>>,
           request[r].step # "bump", p.step \in Changing, p.user \in User, users[p.user] # None,
           SeesAdmins(p)
    PROVE  AuthInv'
<1>1. AuthBase /\ ChangesApart BY DEF AuthInv
<1>2. /\ request' \in [Request -> Requested]
      /\ \A q \in Request : request'[q] = IF q = r THEN p ELSE request[q] BY <1>1, Moving
<1>3. raced' \in BOOLEAN /\ (~raced' => ~raced /\ \A q \in Request \ {r} : request[q].step \notin Changing)
  BY <1>1 DEF RacesAdmins, AuthBase, AuthTypes
<1>4. AuthTypes' BY <1>1, <1>2, <1>3 DEF AuthBase, AuthTypes
<1>5. RowsStay /\ InvitesStay BY DEF RowsStay, InvitesStay, Exists, Issued
<1>6. p.step \in {"update", "remove", "erase"} BY DEF Changing
<1>7. AuthBase' /\ PassInv' /\ InviteRead' BY <1>4, <1>5, <1>6, Quiet
<1>8. Admins' = Admins BY DEF Admins, Exists
<1>9. ~Fresh BY DEF Fresh
<1>10. ASSUME ~raced' PROVE \A q \in Request : SeesAdmins(request[q])'
  <2> TAKE q \in Request
  <2>1. CASE q = r
    <3>1. request'[q] = p BY <1>2, <2>1
    <3> QED BY <1>8, <3>1 DEF SeesAdmins
  <2>2. CASE q # r
    <3>1. request'[q].step \notin Changing BY <1>2, <1>3, <1>10, <2>2
    <3> QED BY <3>1 DEF SeesAdmins, Changing
  <2> QED BY <2>1, <2>2
<1>11. ChangesApart'
  <2>1. ~raced' => \A n, q \in Request : request'[n].step \in Changing /\ request'[q].step \in Changing => n = q
    BY <1>2, <1>3
  <2> QED BY <1>1, <1>3, <1>8, <1>9, <1>10, <2>1 DEF ChangesApart
<1> QED BY <1>7, <1>11 DEF AuthInv

LEMMA AskDeleteStep ==
    ASSUME AuthInv, NEW r \in Request, NEW j \in Token, NEW u \in User, AskDelete(r, j, u)
    PROVE  AuthInv'
<1>1. /\ request[r].step = "none" /\ Exists(u) /\ users[u] # None /\ ~Fresh
      /\ UNCHANGED <<users, epoch, tokens, revoked, invites, redis>>
  BY ExistsNotNone, ExistsNotFresh DEF AskDelete, Free
<1>2. CASE users[u].role = "admin"
  <2> DEFINE p == Pending("delete", u)
  <2>1. Moves(r, p) /\ raced' = raced BY <1>2 DEF AskDelete
  <2>2. p \in Requested /\ p.step = "delete" /\ p.user = u BY PendingTyped DEF Steps
  <2> HIDE DEF p
  <2> QED BY <1>1, <2>1, <2>2, Begins DEF Changing
<1>3. CASE users[u].role # "admin"
  <2> DEFINE p == Pending("erase", u)
  <2>1. Moves(r, p) /\ RacesAdmins(r) BY <1>3 DEF AskDelete
  <2>2. p \in Requested /\ p.step = "erase" /\ p.user = u BY PendingTyped DEF Steps
  <2> HIDE DEF p
  <2>3. SeesAdmins(p) BY <1>3, <2>2 DEF SeesAdmins, Admins
  <2> QED BY <1>1, <2>1, <2>2, <2>3, Starts DEF Changing
<1> QED BY <1>2, <1>3

LEMMA StatementStartsStep == ASSUME AuthInv, NEW r \in Request, StatementStarts(r) PROVE AuthInv'
<1> DEFINE u == request[r].user
           p == [request[r] EXCEPT !.step = "update", !.snap = Cardinality(Admins)]
           d == [request[r] EXCEPT !.step = "remove", !.snap = Cardinality(Admins \ {u})]
<1>1. /\ request[r].step \in {"role", "delete"} /\ RacesAdmins(r)
      /\ UNCHANGED <<users, epoch, tokens, revoked, invites, redis>>
      /\ Moves(r, p) \/ Moves(r, d)
  BY DEF StatementStarts, Doing
<1>2. AuthBase BY DEF AuthInv
<1>3. u \in User /\ users[u] # None /\ request[r] \in Requested
  BY <1>1, <1>2 DEF AuthBase, AuthTypes, AboutUsers, Free, FoundRow
<1>4. Admins \subseteq User /\ Admins \ {u} \subseteq User BY DEF Admins
<1> DEFINE n == Cardinality(Admins)  m == Cardinality(Admins \ {u})
<1>5. /\ n \in Nat
      /\ n > 1 => \E a, b \in Admins : a # b
      /\ m \in Nat
      /\ m > 0 => \E a \in Admins : a # u
  <2>1. n \in Nat /\ (n > 1 => \E a, b \in Admins : a # b) BY <1>4, Counting
  <2>2. m \in Nat /\ (m > 0 => Admins \ {u} # {}) BY <1>4, Counting
  <2> QED BY <2>1, <2>2
<1> HIDE DEF n, m
<1>6. p \in Requested /\ p.step = "update" /\ p.user = u /\ p.snap = n
  BY <1>3, <1>5 DEF Requested, Steps, n
<1>7. d \in Requested /\ d.step = "remove" /\ d.user = u /\ d.snap = m
  BY <1>3, <1>5 DEF Requested, Steps, m
<1> HIDE DEF p, d
<1>8. SeesAdmins(p) BY <1>5, <1>6 DEF SeesAdmins
<1>9. SeesAdmins(d) BY <1>5, <1>7 DEF SeesAdmins
<1> QED BY <1>1, <1>3, <1>6, <1>7, <1>8, <1>9, Starts DEF Changing

(* A change of the admins ends; no other is under way unless they raced.   *)
LEMMA Ends ==
    ASSUME AuthInv, NEW r \in Request, request[r].step \in Changing, Answers(r),
           users' \in [User -> UserRow \cup {None, Deleted}], RowsStay,
           UNCHANGED <<epoch, tokens, revoked, invites, redis, raced>>,
           ~raced => Admins' # {}
    PROVE  AuthInv'
<1>1. AuthBase /\ ChangesApart BY DEF AuthInv
<1>2. /\ request' \in [Request -> Requested]
      /\ \A q \in Request : request'[q] = IF q = r THEN NoRequest ELSE request[q] BY <1>1, Answering
<1>3. AuthTypes' BY <1>1, <1>2 DEF AuthBase, AuthTypes
<1>4. InvitesStay BY DEF InvitesStay, Issued
<1>5. AuthBase' /\ PassInv' /\ InviteRead'
  BY <1>3, <1>4, NoRequestTyped, Quiet DEF Changing, FoundRow, Answers
<1>6. ~raced => \A q \in Request : request'[q].step \notin Changing
  BY <1>1, <1>2, NoRequestTyped DEF ChangesApart, Changing
<1>7. ~raced => \A q \in Request : SeesAdmins(request[q])'
  BY <1>6 DEF SeesAdmins, Changing
<1>8. ChangesApart' BY <1>6, <1>7 DEF ChangesApart
<1> QED BY <1>5, <1>8 DEF AuthInv

LEMMA UpdateRoleStep == ASSUME AuthInv, NEW r \in Request, UpdateRole(r) PROVE AuthInv'
<1> DEFINE u == request[r].user  row == [users[u] EXCEPT !.role = request[r].role]
<1>1. /\ request[r].step = "update" /\ ~Free(r) /\ ~Fresh /\ Answers(r)
      /\ UNCHANGED <<epoch, tokens, revoked, invites, redis, raced>>
  BY DEF UpdateRole, Doing, Free, Fresh
<1>2. AuthBase /\ ChangesApart BY DEF AuthInv
<1>3. u \in User /\ request[r].role \in Role
  BY <1>1, <1>2 DEF AuthBase, AuthTypes, AboutUsers, Free, Requested
<1>4. CASE DemoteIfOthers(r)
  <2>1. users' = [users EXCEPT ![u] = row] /\ Exists(u) BY <1>4 DEF UpdateRole, DemoteIfOthers
  <2>2. row \in UserRow /\ row.role = request[r].role /\ row.pw = users[u].pw
    BY <1>3, <2>1 DEF Exists, UserRow
  <2>3. /\ users[u].role = "admin" /\ request[r].role = "viewer" => request[r].snap > 1
    <3>1. request[r].snap \in Nat BY <1>2 DEF AuthBase, AuthTypes, Requested
    <3> QED BY <1>4, <3>1 DEF DemoteIfOthers
  <2> HIDE DEF row, u
  <2>4. /\ users' \in [User -> UserRow \cup {None, Deleted}] /\ users'[u] = row
        /\ \A v \in User \ {u} : users'[v] = users[v]
    BY <1>2, <1>3, <2>1, <2>2 DEF AuthBase, AuthTypes
  <2>5. row # None BY <2>2, AuthAssumption
  <2>6. RowsStay BY <2>1, <2>2, <2>4, <2>5 DEF RowsStay, Exists
  <2>7. ASSUME ~raced PROVE Admins' # {}
    <3>1. Admins # {} /\ SeesAdmins(request[r]) BY <1>1, <1>2, <2>7 DEF ChangesApart
    <3>2. CASE users[u].role = "admin" /\ request[r].role = "viewer"
      <4>1. PICK a, b \in Admins : a # b BY <1>1, <2>3, <3>1, <3>2 DEF SeesAdmins
      <4>2. PICK c \in Admins : c # u BY <4>1
      <4>3. c \in User /\ users'[c] = users[c] BY <2>4, <4>2 DEF Admins
      <4>4. c \in Admins' BY <4>2, <4>3 DEF Admins, Exists
      <4> QED BY <4>4
    <3>3. CASE ~(users[u].role = "admin" /\ request[r].role = "viewer")
      <4>1. PICK a \in Admins : TRUE BY <3>1
      <4>2. CASE a = u
        <5>1. users[u].role = "admin" BY <4>1, <4>2 DEF Admins
        <5>2. request[r].role = "admin" BY <1>3, <3>3, <5>1 DEF Role
        <5>3. u \in Admins' BY <1>3, <2>2, <2>4, <5>2 DEF Admins, Exists
        <5> QED BY <5>3
      <4>3. CASE a # u
        <5>1. a \in User /\ users'[a] = users[a] BY <2>4, <4>1, <4>3 DEF Admins
        <5>2. a \in Admins' BY <4>1, <5>1 DEF Admins, Exists
        <5> QED BY <5>2
      <4> QED BY <4>2, <4>3
    <3> QED BY <3>2, <3>3
  <2> QED BY <1>1, <2>4, <2>6, <2>7, Ends DEF Changing
<1>5. CASE ~DemoteIfOthers(r)
  BY <1>1, <1>5, Refused DEF UpdateRole
<1> QED BY <1>4, <1>5

LEMMA DeleteUserStep == ASSUME AuthInv, NEW r \in Request, DeleteUser(r) PROVE AuthInv'
<1> DEFINE u == request[r].user
           may == Exists(u) /\ (Doing(r, "erase") \/ request[r].snap > 0)
<1>1. /\ request[r].step \in {"erase", "remove"} /\ ~Free(r) /\ ~Fresh /\ Answers(r)
      /\ UNCHANGED <<epoch, tokens, revoked, invites, redis, raced>>
  BY DEF DeleteUser, Doing, Free, Fresh
<1>2. AuthBase /\ ChangesApart BY DEF AuthInv
<1>3. u \in User BY <1>1, <1>2 DEF AuthBase, AboutUsers, Free
<1>4. CASE may
  <2>1. users' = [users EXCEPT ![u] = Deleted] BY <1>4 DEF DeleteUser
  <2>2. request[r].step = "remove" => request[r].snap > 0 BY <1>4 DEF Doing
  <2> HIDE DEF u
  <2>3. /\ users' \in [User -> UserRow \cup {None, Deleted}] /\ users'[u] = Deleted
        /\ \A v \in User \ {u} : users'[v] = users[v]
    BY <1>2, <1>3, <2>1 DEF AuthBase, AuthTypes
  <2>4. Deleted # None /\ Deleted \notin UserRow BY AuthAssumption
  <2>5. RowsStay BY <2>3, <2>4 DEF RowsStay, Exists
  <2>6. ASSUME ~raced PROVE Admins' # {}
    <3>1. Admins # {} /\ SeesAdmins(request[r]) BY <1>1, <1>2, <2>6 DEF ChangesApart
    <3>2. PICK a \in Admins : a # u BY <1>1, <2>2, <3>1 DEF SeesAdmins, u
    <3>3. a \in User /\ users'[a] = users[a] BY <2>3, <3>2 DEF Admins
    <3>4. a \in Admins' BY <3>2, <3>3 DEF Admins, Exists
    <3> QED BY <3>4
  <2> QED BY <1>1, <2>3, <2>5, <2>6, Ends DEF Changing
<1>5. CASE ~may
  BY <1>1, <1>5, Refused DEF DeleteUser
<1> QED BY <1>4, <1>5

-----------------------------------------------------------------------------
LEMMA AuthStarts == AuthInit => AuthInv
<1> SUFFICES ASSUME AuthInit PROVE AuthInv OBVIOUS
<1> USE DEF AuthInit
<1>1. \A r \in Request : request[r] = NoRequest /\ request[r].step = "none" BY NoRequestTyped
<1>2. AuthTypes
  <2>1. \A role \in Role : [role |-> role, pw |-> 1] \in UserRow BY RowTyped
  <2>2. users \in [User -> UserRow \cup {None, Deleted}] BY <2>1 DEF Role
  <2> QED BY <2>2, NoRequestTyped DEF AuthTypes
<1>3. AboutUsers BY <1>1 DEF AboutUsers, Free, FoundRow
<1>4. PassInv BY <1>1 DEF PassInv, SignKnows, Doing
<1>5. Fresh \/ Admins # {} BY <1>1 DEF Fresh, Free
<1>6. ChangesApart BY <1>1, <1>5 DEF ChangesApart, SeesAdmins, Changing
<1>7. InviteRead BY <1>1 DEF InviteRead, Doing
<1> QED BY <1>2, <1>3, <1>4, <1>6, <1>7 DEF AuthInv, AuthBase

LEMMA BumpEpochStep == ASSUME AuthInv, NEW r \in Request, BumpEpoch(r) PROVE AuthInv'
BY BumpEnds DEF BumpEpoch

LEMMA LostStep == ASSUME AuthInv, NEW r \in Request, SessionRequestLost(r) PROVE AuthInv'
<1>1. CASE Doing(r, "bump") BY <1>1, BumpEnds DEF SessionRequestLost
<1>2. CASE ~Doing(r, "bump") BY <1>2, Refused DEF SessionRequestLost, Doing
<1> QED BY <1>1, <1>2

LEMMA AuthSteps == AuthInv /\ [AuthNext]_authVars => AuthInv'
<1> SUFFICES ASSUME AuthInv, [AuthNext]_authVars PROVE AuthInv' OBVIOUS
<1>1. CASE UNCHANGED authVars
  <2>1. redis' \in BOOLEAN BY <1>1 DEF authVars, AuthInv, AuthBase, AuthTypes
  <2> QED BY <1>1, <2>1, Elsewhere DEF authVars
<1>2. CASE SignIn BY <1>2, IssueStep, LoginStep, RegisterStep DEF SignIn
<1>3. CASE SessionNext
  <2>1. CASE \E r \in Request : WritePassword(r) \/ BumpEpoch(r) \/ \E j \in Token : AskPassword(r, j)
    BY <2>1, WritePasswordStep, BumpEpochStep, AskPasswordStep
  <2>2. CASE \E j \in Token : Logout(j)
    <3>1. redis' \in BOOLEAN BY <2>2 DEF Logout, AuthInv, AuthBase, AuthTypes
    <3> QED BY <2>2, <3>1, Elsewhere DEF Logout
  <2>3. CASE \E j \in Token : SessionExpires(j) BY <2>3, ExpireStep
  <2>4. CASE RedisToggles BY <2>4, Elsewhere DEF RedisToggles
  <2> QED BY <1>3, <2>1, <2>2, <2>3, <2>4 DEF SessionNext
<1>4. CASE AccountNext
  <2>1. CASE \E r \in Request, j \in Token, u \in User : AskDelete(r, j, u)
    BY <2>1, AskDeleteStep
  <2>2. CASE \E r \in Request, j \in Token, u \in User : \E role \in Role : AskRole(r, j, u, role)
    BY <2>2, AskRoleStep
  <2>3. CASE \E r \in Request, j \in Token, u \in User : \E role \in Role :
                AskCreate(r, j, u, role) \/ AskInvite(r, j, u, role)
    BY <2>3, AskForAnother
  <2>4. CASE \E r \in Request : StatementStarts(r) \/ UpdateRole(r) \/ DeleteUser(r)
    BY <2>4, StatementStartsStep, UpdateRoleStep, DeleteUserStep
  <2>5. CASE \E r \in Request : \/ CreateUser(r) \/ CreateInvite(r) \/ RedeemInvite(r)
                                \/ \E i \in Invite : AskRedeem(r, i)
    BY <2>5, CreateUserStep, CreateInviteStep, RedeemInviteStep, AskRedeemStep
  <2>6. CASE \E i \in Invite : InviteExpires(i) \/ \E j \in Token : RevokeInvite(j, i)
    BY <2>6, InviteStep
  <2> QED BY <1>4, <2>1, <2>2, <2>3, <2>4, <2>5, <2>6 DEF AccountNext
<1>5. CASE \E r \in Request : SessionRequestLost(r) BY <1>5, LostStep
<1> QED BY <1>1, <1>2, <1>3, <1>4, <1>5 DEF AuthNext

LEMMA InvImpliesAccess == AuthInv => AccessFollows
<1> SUFFICES ASSUME AuthInv PROVE AccessFollows OBVIOUS
<1>1. ASSUME NEW j \in Token, tokens[j] # None, redis, Exists(tokens[j].user), ~BumpPending(tokens[j].user)
      PROVE  /\ Accepts(j) /\ ~tokens[j].late => tokens[j].pw = users[tokens[j].user].pw
             /\ tokens[j].pw = users[tokens[j].user].pw /\ ~tokens[j].early /\ j \notin revoked => Accepts(j)
  <2> DEFINE t == tokens[j]
  <2>1. PassOf(t) BY <1>1 DEF AuthInv, PassInv
  <2>2. t.ver \in Nat /\ epoch[t.user] \in Nat
    BY <1>1 DEF AuthInv, AuthBase, AuthTypes, Granted
  <2> QED BY <1>1, <2>1, <2>2 DEF PassOf, Accepts, IsTokenRevoked
<1>2. SessionsFollowPassword BY <1>1 DEF SessionsFollowPassword
<1>3. AdminRemains BY ExistsNotNone DEF AuthInv, ChangesApart, AdminRemains, Fresh
<1> QED BY <1>2, <1>3 DEF AccessFollows

(* What the auth hook accepts follows the password, and the platform keeps *)
(* an admin, in every behaviour of the API's sessions and accounts.        *)
THEOREM AccessIsKept == AuthSpec => []AccessFollows
<1>1. AuthSpec => []AuthInv BY AuthStarts, AuthSteps, PTL DEF AuthSpec
<1> QED BY <1>1, InvImpliesAccess, PTL

(* One step of the API inserts no user on an invite that does not stand.   *)
LEMMA BindStep ==
    ASSUME AuthInv, [AuthNext]_authVars, NEW u \in User, users[u] = None, users'[u] # None
    PROVE  \/ \A v \in User : ~Exists(v)
           \/ \E r \in Request : Doing(r, "create") /\ request[r].user = u
           \/ \E i \in Invite : Issued(i) /\ invites[i].email = u /\ invites'[i].used
<1>1. users' # users OBVIOUS
<1>2. AuthBase BY DEF AuthInv
<1>3. AuthNext /\ users' # users BY <1>1 DEF authVars
<1>4. \E r \in Request : \/ \E v \in User : Register(r, v)
                         \/ WritePassword(r) \/ UpdateRole(r) \/ DeleteUser(r) \/ CreateUser(r) \/ RedeemInvite(r)
  <2>1. CASE SignIn BY <1>3, <2>1 DEF SignIn, IssueUserToken, Login
  <2>2. CASE SessionNext
    BY <1>3, <2>2 DEF SessionNext, BumpEpoch, AskPassword, Logout, SessionExpires, RedisToggles
  <2>3. CASE AccountNext
    <3>1. \A r \in Request, j \in Token, v \in User, role \in Role :
             ~AskDelete(r, j, v) /\ ~AskRole(r, j, v, role) /\ ~AskCreate(r, j, v, role) /\ ~AskInvite(r, j, v, role)
      BY <1>3 DEF AskDelete, AskRole, AskCreate, AskInvite
    <3>2. \A r \in Request : ~StatementStarts(r) /\ ~CreateInvite(r) /\ \A i \in Invite : ~AskRedeem(r, i)
      BY <1>3 DEF StatementStarts, CreateInvite, AskRedeem
    <3>3. \A i \in Invite : ~InviteExpires(i) /\ \A j \in Token : ~RevokeInvite(j, i)
      BY <1>3 DEF InviteExpires, RevokeInvite
    <3>4. AccountNext =>
             \/ \E r \in Request, j \in Token, v \in User :
                  AskDelete(r, j, v) \/ \E role \in Role : AskRole(r, j, v, role) \/ AskCreate(r, j, v, role)
                                                            \/ AskInvite(r, j, v, role)
             \/ \E r \in Request : UpdateRole(r) \/ DeleteUser(r) \/ CreateUser(r) \/ RedeemInvite(r)
             \/ \E r \in Request : StatementStarts(r) \/ CreateInvite(r) \/ \E i \in Invite : AskRedeem(r, i)
             \/ \E i \in Invite : InviteExpires(i) \/ \E j \in Token : RevokeInvite(j, i)
      BY DEF AccountNext
    <3>5. CASE \E r \in Request, j \in Token, v \in User :
                  AskDelete(r, j, v) \/ \E role \in Role : AskRole(r, j, v, role) \/ AskCreate(r, j, v, role)
                                                            \/ AskInvite(r, j, v, role)
      <4>1. "viewer" \in Role BY DEF Role
      <4> QED BY <3>1, <3>5, <4>1
    <3>6. CASE \E r \in Request : StatementStarts(r) \/ CreateInvite(r) \/ \E i \in Invite : AskRedeem(r, i)
      BY <3>2, <3>6
    <3>7. CASE \E i \in Invite : InviteExpires(i) \/ \E j \in Token : RevokeInvite(j, i)
      BY <3>3, <3>7
    <3>8. CASE \E r \in Request : UpdateRole(r) \/ DeleteUser(r) \/ CreateUser(r) \/ RedeemInvite(r)
      BY <3>8
    <3> QED BY <2>3, <3>4, <3>5, <3>6, <3>7, <3>8
  <2>4. CASE \E r \in Request : SessionRequestLost(r) BY <1>3, <2>4 DEF SessionRequestLost
  <2> QED BY <1>3, <2>1, <2>2, <2>3, <2>4 DEF AuthNext
<1>5. PICK r \in Request : \/ \E v \in User : Register(r, v)
                           \/ WritePassword(r) \/ UpdateRole(r) \/ DeleteUser(r) \/ CreateUser(r) \/ RedeemInvite(r)
  BY <1>4
<1>6. ~Exists(u) BY AuthAssumption DEF Exists
<1>7. DOMAIN users = User BY <1>2 DEF AuthBase, AuthTypes
<1>8. CASE \E v \in User : Register(r, v) BY <1>8 DEF Register
<1>9. CASE WritePassword(r) \/ UpdateRole(r) \/ DeleteUser(r)
  <2>1. \A v \in User : Exists(v) => v # u BY <1>6
  <2>2. \E v \in User : Exists(v) /\ \A w \in User \ {v} : users'[w] = users[w]
    <3>1. \/ users' = users
          \/ /\ Exists(request[r].user) /\ request[r].step \in FoundRow
             /\ \E x : users' = [users EXCEPT ![request[r].user] = x]
      BY <1>9 DEF WritePassword, UpdateRole, DeleteUser, DemoteIfOthers, Doing, FoundRow
    <3>2. request[r].step \in FoundRow => request[r].user \in User
      BY <1>2 DEF AuthBase, AboutUsers, Free, FoundRow
    <3> QED BY <1>1, <1>7, <3>1, <3>2
  <2> QED BY <2>1, <2>2
<1>10. CASE CreateUser(r)
  <2>1. Doing(r, "create") /\ request[r].user \in User
    BY <1>2, <1>10 DEF CreateUser, Doing, AuthBase, AboutUsers, Free
  <2>2. request[r].user = u BY <1>7, <1>10, <2>1 DEF CreateUser, Insert
  <2> QED BY <2>1, <2>2
<1>11. CASE RedeemInvite(r)
  <2>1. Doing(r, "redeem") /\ MayRedeem(r) BY <1>1, <1>11 DEF RedeemInvite
  <2> DEFINE i == request[r].invite
  <2>2. /\ i \in Invite /\ Issued(i) /\ invites[i].email = request[r].user
        /\ request[r].user \in User
    BY <1>2, <2>1 DEF MayRedeem, AuthInv, InviteRead, AuthBase, AboutUsers, Free, Doing
  <2>3. /\ invites' = [invites EXCEPT ![i].used = TRUE] /\ Insert(request[r].user, request[r].role)
    BY <1>11, <2>1, <2>2 DEF RedeemInvite
  <2>4. request[r].user = u BY <1>7, <2>2, <2>3 DEF Insert
  <2>5. invites'[i].used
    <3>1. DOMAIN invites = Invite /\ invites[i] \in InviteRow
      BY <1>2, <2>2 DEF AuthBase, AuthTypes, Issued
    <3> QED BY <2>2, <2>3, <3>1 DEF InviteRow
  <2> QED BY <2>2, <2>4, <2>5
<1> QED BY <1>5, <1>8, <1>9, <1>10, <1>11

(* Nobody joins on an invite that was revoked.                             *)
THEOREM InvitesAreKept == AuthSpec => InvitesBind
<1>1. AuthSpec => []AuthInv BY AuthStarts, AuthSteps, PTL DEF AuthSpec
<1>2. AuthInv /\ [AuthNext]_authVars =>
        [\A u \in User : users[u] = None /\ users'[u] # None =>
          \/ \A v \in User : ~Exists(v)
          \/ \E r \in Request : Doing(r, "create") /\ request[r].user = u
          \/ \E i \in Invite : /\ Issued(i) /\ invites[i].email = u
                               /\ invites'[i].used]_authVars
  BY BindStep
<1> QED BY <1>1, <1>2, PTL DEF AuthSpec, InvitesBind

-----------------------------------------------------------------------------
(***************************************************************************)
(* Resources: accounts, bots and webhooks. Four invariants, each on top of *)
(* the shape of the tables (ResBase, with the foreign key of a bot). For   *)
(* the quota, the inserts that were allowed are counted with the rows. For *)
(* the platforms, what a request has seen of an account stands until a bot *)
(* arrives and marks it late. For the secrets, a rotation under way has    *)
(* seen everything that is on an older key, so that nothing is left on one *)
(* when it has written. Each action is first reduced to what it does to    *)
(* one row; the invariants are then proved for the few kinds of change     *)
(* that are left.                                                          *)
(***************************************************************************)

AccountReads == [Account -> AccountRow \cup {None, Gone}]
BotReads == [Bot -> BotRow \cup {None, Gone}]
HookReads == [Hook -> HookRow \cup {None, Gone}]
AccountExport == [Account -> AccountRow \cup {None}]
BotExport == [Bot -> BotRow \cup {None}]
Export == [whole : BOOLEAN, accounts : AccountExport, bots : BotExport]

PatchReq == [at : {"patchAccount"}, acc : Account, plat : Platform, late : BOOLEAN]
DeleteReq == [at : {"deleteAccount"}, acc : Account, late : BOOLEAN]
CreateReq == [at : {"countBots", "insertBot"}, acc : Account, plat : Platform, seen : Platform]
SaveReq == [at : {"patchBot"}, bot : Bot, sent : Sent, stored : Secret]
ExportReq == [at : {"exportBots"}, whole : BOOLEAN, accounts : AccountExport]
RotateReq == [at : {"rotate"}, accounts : AccountReads, bots : BotReads, hooks : HookReads]

ReqTyped(p) ==
    /\ p.at \in {"none", "insertAccount", "patchAccount", "deleteAccount", "countBots", "insertBot",
                 "patchBot", "insertHook", "exportBots", "rotate"}
    /\ p.at = "insertAccount" => p.plat \in Platform
    /\ p.at = "patchAccount" => p \in PatchReq
    /\ p.at = "deleteAccount" => p \in DeleteReq
    /\ p.at \in {"countBots", "insertBot"} => p \in CreateReq
    /\ p.at = "patchBot" => p \in SaveReq
    /\ p.at = "insertHook" => p.bot \in Bot \cup {None}
    /\ p.at = "exportBots" => p \in ExportReq
    /\ p.at = "rotate" => p \in RotateReq

ResTypes ==
    /\ accounts \in AccountReads /\ bots \in BotReads /\ hooks \in HookReads
    /\ DOMAIN req = Request /\ \A r \in Request : ReqTyped(req[r])
    /\ keys \in [current : Key, known : SUBSET Key] /\ keys.current \in keys.known
    /\ rotated \in BOOLEAN /\ imported \in BOOLEAN /\ overtaken \in BOOLEAN
    /\ backup = None \/ backup \in Export

(* The foreign key: no bot without its account.                            *)
HaveAccounts == \A b \in RowsOf(bots) : InTable(accounts, bots[b].acc)

ResBase == ResTypes /\ HaveAccounts

(* What a request has seen of an account stands until it is late.          *)
SeenStands ==
    \A r \in Request :
        /\ At(r, "countBots") \/ At(r, "insertBot") => req[r].seen = req[r].plat
        /\ At(r, "deleteAccount") /\ ~req[r].late => BotsOf(req[r].acc) = {}
        /\ At(r, "patchAccount") /\ ~req[r].late /\ ~overtaken =>
              BotsOf(req[r].acc) = {} \/ req[r].plat = accounts[req[r].acc].plat

AgreeInv == SeenStands /\ PlatformAgrees /\ (~overtaken /\ backup # None => ~Torn(backup))

(* Nothing is on an older key that a rotation under way has not seen so.   *)
SeenOld(p) ==
    /\ \A a \in RowsOf(accounts) \ missed : accounts[a].enc \in OlderKeys =>
           a \in RowsOf(p.accounts) /\ OnOlderKey(p.accounts[a].enc)
    /\ \A b \in RowsOf(bots) \ missed : bots[b].wallet \in OlderKeys =>
           b \in RowsOf(p.bots) /\ OnOlderKey(p.bots[b].wallet)
    /\ \A h \in RowsOf(hooks) \ missed : hooks[h].enc \in OlderKeys =>
           h \in RowsOf(p.hooks) /\ OnOlderKey(p.hooks[h].enc)

AllCurrent ==
    /\ \A a \in RowsOf(accounts) \ missed : accounts[a].enc \notin OlderKeys
    /\ \A b \in RowsOf(bots) \ missed : bots[b].wallet \notin OlderKeys
    /\ \A h \in RowsOf(hooks) \ missed : hooks[h].enc \notin OlderKeys

SecretInv ==
    /\ SecretsReadable
    /\ \A r \in Request : At(r, "rotate") => SeenOld(req[r])
    /\ rotated => AllCurrent

QuotaInv == QuotaBound

ResInv == ResBase /\ AgreeInv /\ SecretInv /\ QuotaInv

-----------------------------------------------------------------------------
(* Rows, requests and secrets.                                             *)

LEMMA Apart ==
    /\ \A row \in AccountRow \cup BotRow \cup HookRow : row # None /\ row # Gone
    /\ None # Gone /\ \A k \in Key : k # None /\ k # Raw
    /\ None # Raw /\ None \notin Bot
BY RowAssumption, QuotaAssumption DEF Key

LEMMA TableRows ==
    ASSUME ResTypes
    PROVE  /\ \A a \in Account : InTable(accounts, a) <=> accounts[a] \in AccountRow
           /\ \A b \in Bot : InTable(bots, b) <=> bots[b] \in BotRow
           /\ \A h \in Hook : InTable(hooks, h) <=> hooks[h] \in HookRow
           /\ RowsOf(accounts) = {a \in Account : accounts[a] \in AccountRow}
           /\ RowsOf(bots) = {b \in Bot : bots[b] \in BotRow}
           /\ RowsOf(hooks) = {h \in Hook : hooks[h] \in HookRow}
BY Apart DEF ResTypes, InTable, RowsOf, AccountReads, BotReads, HookReads

LEMMA IdleTyped == ReqTyped(Idle) /\ Idle.at = "none"
BY DEF ReqTyped, Idle

(* A request that goes on.                                                 *)
LEMMA Going ==
    ASSUME ResTypes, NEW r \in Request, NEW p, Goto(r, p)
    PROVE  /\ DOMAIN req' = Request /\ req'[r] = p
           /\ \A q \in Request \ {r} : req'[q] = req[q]
BY DEF ResTypes, Goto

LEMMA SecretTyped ==
    ASSUME ResTypes, NEW s \in Secret
    PROVE  /\ EnsureEncrypted(s) \in Key \cup {None} /\ Reencrypt(s) \in Secret
           /\ keys.current \in Key
           /\ s = None <=> EnsureEncrypted(s) = None
           /\ s # None => Reencrypt(s) # None
<1>1. keys.current \in Key BY DEF ResTypes
<1> QED BY <1>1, Apart DEF EnsureEncrypted, Reencrypt, Secret

-----------------------------------------------------------------------------
(* Steps that only move one request on.                                    *)
Quietly(r, p) == Goto(r, p) /\ UNCHANGED <<tables, keys, history>>

LEMMA AskAccountMoves ==
    ASSUME ResBase, NEW r \in Request, NEW plat \in Platform, AskAccount(r, plat)
    PROVE  \E p : Quietly(r, p) /\ ReqTyped(p) /\ p.at = "insertAccount"
<1> DEFINE p == [at |-> "insertAccount", plat |-> plat]
<1>1. Quietly(r, p) BY DEF AskAccount, Quietly
<1>2. ReqTyped(p) /\ p.at = "insertAccount" BY DEF ReqTyped
<1> QED BY <1>1, <1>2

LEMMA AskPatchMoves ==
    ASSUME ResBase, NEW r \in Request, NEW a \in Account, NEW plat \in Platform, AskPatchAccount(r, a, plat)
    PROVE  \E p : /\ Quietly(r, p) /\ ReqTyped(p) /\ p.at = "patchAccount"
                  /\ BotsOf(p.acc) = {} \/ p.plat = accounts[p.acc].plat
<1> DEFINE p == [at |-> "patchAccount", acc |-> a, plat |-> plat, late |-> FALSE]
<1>1. Quietly(r, p) BY DEF AskPatchAccount, Quietly
<1>2. ReqTyped(p) /\ p.at = "patchAccount" /\ p.acc = a /\ p.plat = plat BY DEF ReqTyped, PatchReq
<1>3. BotsOf(a) = {} \/ plat = accounts[a].plat BY DEF AskPatchAccount
<1> HIDE DEF p
<1> QED BY <1>1, <1>2, <1>3

LEMMA AskDeleteMoves ==
    ASSUME ResBase, NEW r \in Request, NEW a \in Account, AskDeleteAccount(r, a)
    PROVE  \E p : Quietly(r, p) /\ ReqTyped(p) /\ p.at = "deleteAccount" /\ BotsOf(p.acc) = {}
<1> DEFINE p == [at |-> "deleteAccount", acc |-> a, late |-> FALSE]
<1>1. Quietly(r, p) BY DEF AskDeleteAccount, Quietly
<1>2. ReqTyped(p) /\ p.at = "deleteAccount" /\ p.acc = a BY DEF ReqTyped, DeleteReq
<1>3. BotsOf(a) = {} BY DEF AskDeleteAccount
<1> HIDE DEF p
<1> QED BY <1>1, <1>2, <1>3

LEMMA AskBotMoves ==
    ASSUME ResBase, NEW r \in Request, NEW a \in Account, NEW plat \in Platform, AskBot(r, a, plat)
    PROVE  \E p : Quietly(r, p) /\ ReqTyped(p) /\ p.at = "countBots" /\ p.seen = p.plat
<1> DEFINE p == [at |-> "countBots", acc |-> a, plat |-> plat, seen |-> accounts[a].plat]
<1>1. Quietly(r, p) /\ accounts[a].plat = plat BY DEF AskBot, Quietly
<1>2. p.at = "countBots" /\ p.seen = p.plat /\ p \in CreateReq BY <1>1 DEF CreateReq
<1>3. ReqTyped(p) BY <1>2 DEF ReqTyped
<1> HIDE DEF p
<1> QED BY <1>1, <1>2, <1>3

LEMMA CountBotsMoves ==
    ASSUME ResBase, NEW r \in Request, CountBots(r)
    PROVE  /\ At(r, "countBots")
           /\ \/ Quietly(r, Idle)
              \/ /\ Cardinality(RowsOf(bots)) < MaxBots
                 /\ \E p : Quietly(r, p) /\ ReqTyped(p) /\ p.at = "insertBot"
                            /\ p.plat = req[r].plat /\ p.seen = req[r].seen
<1> DEFINE p == [req[r] EXCEPT !.at = "insertBot"]
<1>1. At(r, "countBots") BY DEF CountBots
<1>2. req[r] \in CreateReq BY <1>1 DEF ResBase, ResTypes, ReqTyped, At
<1>3. p \in CreateReq /\ p.at = "insertBot" /\ p.plat = req[r].plat /\ p.seen = req[r].seen
  BY <1>2 DEF CreateReq
<1>4. ReqTyped(p) BY <1>3 DEF ReqTyped
<1>5. \/ Quietly(r, p) /\ Cardinality(RowsOf(bots)) < MaxBots
      \/ Quietly(r, Idle)
  BY DEF CountBots, CheckQuota, Refuse, Finish, Quietly
<1> HIDE DEF p
<1> QED BY <1>1, <1>3, <1>4, <1>5

LEMMA AskPatchBotMoves ==
    ASSUME ResBase, NEW r \in Request, NEW b \in Bot, NEW sent \in Sent, AskPatchBot(r, b, sent)
    PROVE  \E p : Quietly(r, p) /\ ReqTyped(p) /\ p.at = "patchBot"
<1> DEFINE p == [at |-> "patchBot", bot |-> b, sent |-> sent, stored |-> bots[b].wallet]
<1>1. Quietly(r, p) BY DEF AskPatchBot, Quietly
<1>2. bots[b].wallet \in Secret BY TableRows DEF AskPatchBot, ResBase, BotRow
<1>3. p \in SaveReq /\ p.at = "patchBot" BY <1>2 DEF SaveReq
<1>4. ReqTyped(p) BY <1>3 DEF ReqTyped
<1> QED BY <1>1, <1>3, <1>4

LEMMA AskHookMoves ==
    ASSUME ResBase, NEW r \in Request, NEW b \in Bot \cup {None}, AskHook(r, b)
    PROVE  \E p : Quietly(r, p) /\ ReqTyped(p) /\ p.at = "insertHook"
<1> DEFINE p == [at |-> "insertHook", bot |-> b]
<1>1. Quietly(r, p) BY DEF AskHook, Quietly
<1>2. ReqTyped(p) /\ p.at = "insertHook" BY DEF ReqTyped
<1> QED BY <1>1, <1>2

LEMMA MaskTyped == ASSUME NEW s \in Secret, NEW whole \in BOOLEAN PROVE Mask(s, whole) \in Secret
BY DEF Mask, Secret

LEMMA ExportAccountsMoves ==
    ASSUME ResBase, NEW r \in Request, NEW whole \in BOOLEAN, ExportAccounts(r, whole)
    PROVE  \E p : Quietly(r, p) /\ ReqTyped(p) /\ p.at = "exportBots"
<1> DEFINE read == [a \in Account |-> IF InTable(accounts, a)
                       THEN [accounts[a] EXCEPT !.enc = Mask(@, whole)] ELSE None]
           p == [at |-> "exportBots", whole |-> whole, accounts |-> read]
<1>1. Quietly(r, p) BY DEF ExportAccounts, Quietly
<1>2. read \in AccountExport
  <2>1. ASSUME NEW a \in Account, InTable(accounts, a)
        PROVE  [accounts[a] EXCEPT !.enc = Mask(@, whole)] \in AccountRow
    <3>1. accounts[a] \in AccountRow BY <2>1, TableRows DEF ResBase
    <3>2. Mask(accounts[a].enc, whole) \in Secret BY <3>1, MaskTyped DEF AccountRow
    <3> QED BY <3>1, <3>2 DEF AccountRow
  <2> QED BY <2>1 DEF AccountExport
<1> HIDE DEF read
<1>3. p \in ExportReq /\ p.at = "exportBots" BY <1>2 DEF ExportReq
<1>4. ReqTyped(p) BY <1>3 DEF ReqTyped
<1> QED BY <1>1, <1>3, <1>4

LEMMA RotationReadsMoves ==
    ASSUME ResBase, NEW r \in Request, RotationReads(r)
    PROVE  \E p : /\ Quietly(r, p) /\ ReqTyped(p) /\ p.at = "rotate"
                  /\ p.accounts = accounts /\ p.bots = bots /\ p.hooks = hooks
<1> DEFINE p == [at |-> "rotate", accounts |-> accounts, bots |-> bots, hooks |-> hooks]
<1>1. Quietly(r, p) BY DEF RotationReads, Quietly
<1>2. p \in RotateReq /\ p.at = "rotate" BY DEF ResBase, ResTypes, RotateReq
<1>3. ReqTyped(p) BY <1>2 DEF ReqTyped
<1> QED BY <1>1, <1>2, <1>3

-----------------------------------------------------------------------------
(* What the steps that write do.                                           *)

LEMMA LateTyped ==
    ASSUME NEW p, ReqTyped(p), p.at \in {"patchAccount", "deleteAccount"}
    PROVE  /\ ReqTyped([p EXCEPT !.late = TRUE]) /\ [p EXCEPT !.late = TRUE].at = p.at
           /\ [p EXCEPT !.late = TRUE].acc = p.acc /\ [p EXCEPT !.late = TRUE].late = TRUE
           /\ p.at = "patchAccount" => [p EXCEPT !.late = TRUE].plat = p.plat
<1> DEFINE n == [p EXCEPT !.late = TRUE]
<1>1. CASE p.at = "patchAccount"
  <2>1. p \in PatchReq BY <1>1 DEF ReqTyped
  <2>2. n \in PatchReq /\ n.at = p.at /\ n.acc = p.acc /\ n.late = TRUE /\ n.plat = p.plat
    BY <2>1 DEF PatchReq
  <2> HIDE DEF n
  <2>3. ReqTyped(n) BY <1>1, <2>2 DEF ReqTyped
  <2> QED BY <2>2, <2>3 DEF n
<1>2. CASE p.at = "deleteAccount"
  <2>1. p \in DeleteReq BY <1>2 DEF ReqTyped
  <2>2. n \in DeleteReq /\ n.at = p.at /\ n.acc = p.acc /\ n.late = TRUE
    BY <2>1 DEF DeleteReq
  <2> HIDE DEF n
  <2>3. ReqTyped(n) BY <1>2, <2>2 DEF ReqTyped
  <2> QED BY <1>2, <2>2, <2>3 DEF n
<1> QED BY <1>1, <1>2

(* Requests that have seen no bot where one has just appeared are late.    *)
LEMMA Marked ==
    ASSUME NEW rs, \A q \in Request : ReqTyped(rs[q]), req' = MarkLate(rs)
    PROVE  /\ DOMAIN req' = Request
           /\ \A q \in Request :
                /\ ReqTyped(req'[q]) /\ req'[q].at = rs[q].at
                /\ rs[q].at \notin {"patchAccount", "deleteAccount"} => req'[q] = rs[q]
                /\ rs[q].at \in {"patchAccount", "deleteAccount"} =>
                      /\ req'[q].acc = rs[q].acc
                      /\ rs[q].at = "patchAccount" => req'[q].plat = rs[q].plat
                      /\ ~req'[q].late => /\ ~rs[q].late
                                          /\ \A b \in RowsOf(bots)' \ RowsOf(bots) : bots'[b].acc # rs[q].acc
<1>1. DOMAIN req' = Request BY DEF MarkLate
<1>2. ASSUME NEW q \in Request
      PROVE  /\ ReqTyped(req'[q]) /\ req'[q].at = rs[q].at
             /\ rs[q].at \notin {"patchAccount", "deleteAccount"} => req'[q] = rs[q]
             /\ rs[q].at \in {"patchAccount", "deleteAccount"} =>
                   /\ req'[q].acc = rs[q].acc
                   /\ rs[q].at = "patchAccount" => req'[q].plat = rs[q].plat
                   /\ ~req'[q].late => /\ ~rs[q].late
                                       /\ \A b \in RowsOf(bots)' \ RowsOf(bots) : bots'[b].acc # rs[q].acc
  <2> DEFINE hit == rs[q].at \in {"patchAccount", "deleteAccount"}
                    /\ \E b \in RowsOf(bots)' \ RowsOf(bots) : bots'[b].acc = rs[q].acc
             n == [rs[q] EXCEPT !.late = TRUE]
  <2>1. req'[q] = IF hit THEN n ELSE rs[q] BY DEF MarkLate
  <2>2. ReqTyped(rs[q]) OBVIOUS
  <2>3. CASE hit
    <3>1. req'[q] = n /\ rs[q].at \in {"patchAccount", "deleteAccount"} BY <2>1, <2>3
    <3>2. /\ ReqTyped(n) /\ n.at = rs[q].at /\ n.acc = rs[q].acc /\ n.late = TRUE
          /\ rs[q].at = "patchAccount" => n.plat = rs[q].plat
      BY <2>2, <3>1, LateTyped
    <3> HIDE DEF n
    <3> QED BY <3>1, <3>2
  <2>4. CASE ~hit
    <3>1. req'[q] = rs[q] BY <2>1, <2>4
    <3>2. rs[q].at \in {"patchAccount", "deleteAccount"} =>
             \A b \in RowsOf(bots)' \ RowsOf(bots) : bots'[b].acc # rs[q].acc
      BY <2>4
    <3> HIDE DEF hit, n
    <3> QED BY <2>2, <3>1, <3>2
  <2> QED BY <2>3, <2>4
<1> QED BY <1>1, <1>2

(* A request that ends, and nobody else's.                                 *)
LEMMA Finishes ==
    ASSUME ResTypes, NEW r \in Request, Finish(r)
    PROVE  /\ DOMAIN req' = Request /\ req'[r] = Idle /\ \A q \in Request : ReqTyped(req'[q])
           /\ \A q \in Request \ {r} : req'[q] = req[q]
BY IdleTyped, Going DEF Finish, ResTypes

LEMMA InsertAccountDoes ==
    ASSUME ResBase, NEW r \in Request, InsertAccount(r)
    PROVE  \E a \in Account, row \in AccountRow :
              /\ accounts[a] = None /\ accounts' = [accounts EXCEPT ![a] = row]
              /\ row.enc \in {None, keys.current}
<1>1. PICK a \in Account, secret \in {None, Raw} :
         /\ accounts[a] = None
         /\ accounts' = [accounts EXCEPT ![a] =
                [name |-> a, plat |-> req[r].plat, enc |-> EnsureEncrypted(secret)]]
  BY DEF InsertAccount
<1>2. req[r].plat \in Platform BY DEF InsertAccount, At, ResBase, ResTypes, ReqTyped
<1>3. EnsureEncrypted(secret) \in {None, keys.current} /\ EnsureEncrypted(secret) \in Secret
  <2>1. keys.current \in Key BY DEF ResBase, ResTypes
  <2> QED BY <2>1, Apart DEF EnsureEncrypted, Secret
<1> DEFINE e == EnsureEncrypted(secret)  row == [name |-> a, plat |-> req[r].plat, enc |-> e]
<1> HIDE DEF e
<1>4. row \in AccountRow /\ row.enc = e BY <1>2, <1>3 DEF AccountRow, e
<1>5. accounts' = [accounts EXCEPT ![a] = row] BY <1>1 DEF e
<1> HIDE DEF row
<1> QED BY <1>1, <1>3, <1>4, <1>5 DEF e

LEMMA PatchAccountDoes ==
    ASSUME ResBase, NEW r \in Request, PatchAccount(r)
    PROVE  /\ req[r].acc \in Account
           /\ \/ UNCHANGED accounts /\ ~InTable(accounts, req[r].acc)
              \/ \E row \in AccountRow :
                   /\ InTable(accounts, req[r].acc) /\ accounts' = [accounts EXCEPT ![req[r].acc] = row]
                   /\ row.plat = req[r].plat /\ row.enc = keys.current
<1> DEFINE a == req[r].acc  row == [accounts[a] EXCEPT !.plat = req[r].plat, !.enc = keys.current]
<1>1. req[r] \in PatchReq BY DEF PatchAccount, At, ResBase, ResTypes, ReqTyped
<1>2. a \in Account /\ req[r].plat \in Platform BY <1>1 DEF PatchReq
<1>3. CASE InTable(accounts, a)
  <2>1. accounts[a] \in AccountRow BY <1>2, <1>3, TableRows DEF ResBase
  <2>2. keys.current \in Secret BY DEF ResBase, ResTypes, Secret
  <2>3. row \in AccountRow /\ row.plat = req[r].plat /\ row.enc = keys.current
    BY <1>2, <2>1, <2>2 DEF AccountRow
  <2>4. accounts' = [accounts EXCEPT ![a] = row] BY <1>3 DEF PatchAccount
  <2> HIDE DEF row
  <2> QED BY <1>2, <1>3, <2>3, <2>4
<1>4. CASE ~InTable(accounts, a) BY <1>2, <1>4 DEF PatchAccount
<1> QED BY <1>3, <1>4

LEMMA GoneTyped ==
    ASSUME ResBase, NEW gone \in SUBSET Bot, WithoutBots(gone)
    PROVE  /\ bots' \in BotReads /\ hooks' \in HookReads
           /\ \A b \in Bot : bots'[b] = IF b \in gone THEN Gone ELSE bots[b]
           /\ \A h \in Hook : \/ hooks'[h] = hooks[h]
                              \/ /\ hooks[h] \in HookRow /\ hooks'[h] \in HookRow
                                 /\ hooks'[h].enc = hooks[h].enc
<1>1. \A b \in Bot : bots'[b] = IF b \in gone THEN Gone ELSE bots[b] BY DEF WithoutBots
<1>2. bots' \in BotReads BY DEF WithoutBots, ResBase, ResTypes, BotReads
<1>3. ASSUME NEW h \in Hook
      PROVE  \/ hooks'[h] = hooks[h]
             \/ hooks[h] \in HookRow /\ hooks'[h] \in HookRow /\ hooks'[h].enc = hooks[h].enc
  <2>1. CASE InTable(hooks, h) /\ hooks[h].bot \in gone
    <3>1. hooks[h] \in HookRow BY <2>1, TableRows DEF ResBase
    <3>2. hooks'[h] = [hooks[h] EXCEPT !.bot = None] BY <2>1 DEF WithoutBots
    <3> QED BY <3>1, <3>2 DEF HookRow
  <2>2. CASE ~(InTable(hooks, h) /\ hooks[h].bot \in gone) BY <2>2 DEF WithoutBots
  <2> QED BY <2>1, <2>2
<1>4. hooks' \in HookReads
  <2>1. hooks' = [h \in Hook |-> hooks'[h]] BY DEF WithoutBots
  <2>2. \A h \in Hook : hooks'[h] \in HookRow \cup {None, Gone}
    BY <1>3 DEF ResBase, ResTypes, HookReads
  <2> QED BY <2>1, <2>2 DEF HookReads
<1> QED BY <1>1, <1>2, <1>3, <1>4

LEMMA BotsOfTyped == ASSUME ResBase, NEW a PROVE BotsOf(a) \in SUBSET Bot
BY TableRows DEF BotsOf, ResBase

LEMMA DeleteAccountDoes ==
    ASSUME ResBase, NEW r \in Request, DeleteAccount(r)
    PROVE  /\ req[r].acc \in Account
           /\ \/ UNCHANGED tables
              \/ /\ InTable(accounts, req[r].acc) /\ accounts' = [accounts EXCEPT ![req[r].acc] = Gone]
                 /\ WithoutBots(BotsOf(req[r].acc)) /\ BotsOf(req[r].acc) \in SUBSET Bot
<1>1. req[r] \in DeleteReq BY DEF DeleteAccount, At, ResBase, ResTypes, ReqTyped
<1>2. req[r].acc \in Account BY <1>1 DEF DeleteReq
<1> QED BY <1>2, BotsOfTyped DEF DeleteAccount

LEMMA InsertBotDoes ==
    ASSUME ResBase, NEW r \in Request, InsertBot(r)
    PROVE  \/ Quietly(r, Idle)
           \/ /\ InTable(accounts, req[r].acc)
              /\ \E b \in Bot, row \in BotRow :
                    /\ bots[b] = None /\ bots' = [bots EXCEPT ![b] = row]
                    /\ row.acc = req[r].acc /\ row.plat = req[r].plat
                    /\ row.wallet \in {None, keys.current}
              /\ req' = MarkLate([req EXCEPT ![r] = Idle])
              /\ overtaken' = (overtaken \/ accounts[req[r].acc].plat # req[r].seen)
              /\ UNCHANGED <<accounts, hooks, keys, rotated, missed, imported, backup>>
<1> DEFINE a == req[r].acc  plat == req[r].plat  w == IF plat = "crypto" THEN keys.current ELSE None
<1>1. req[r] \in CreateReq BY DEF InsertBot, At, ResBase, ResTypes, ReqTyped
<1>2. a \in Account /\ plat \in Platform BY <1>1 DEF CreateReq
<1>3. w \in {None, keys.current} /\ w \in Secret BY DEF Secret, ResBase, ResTypes
<1>4. CASE InTable(accounts, a)
  <2>1. PICK b \in Bot : bots[b] = None /\ bots' = [bots EXCEPT ![b] = [name |-> b, acc |-> a, plat |-> plat, wallet |-> w]]
    BY <1>4 DEF InsertBot
  <2> DEFINE row == [name |-> b, acc |-> a, plat |-> plat, wallet |-> w]
  <2> HIDE DEF w, a, plat
  <2>2. row \in BotRow /\ row.acc = a /\ row.plat = plat /\ row.wallet = w BY <1>2, <1>3 DEF BotRow
  <2>3. bots[b] = None /\ bots' = [bots EXCEPT ![b] = row] BY <2>1
  <2> HIDE DEF row
  <2>4. \E c \in Bot, n \in BotRow : /\ bots[c] = None /\ bots' = [bots EXCEPT ![c] = n]
                                     /\ n.acc = a /\ n.plat = plat /\ n.wallet \in {None, keys.current}
    BY <1>3, <2>2, <2>3
  <2> QED BY <1>4, <2>4 DEF InsertBot, a, plat
<1>5. CASE ~InTable(accounts, a)
  BY <1>5 DEF InsertBot, Refuse, Finish, Quietly
<1> QED BY <1>4, <1>5

LEMMA PatchBotDoes ==
    ASSUME ResBase, NEW r \in Request, PatchBot(r)
    PROVE  /\ req[r].bot \in Bot /\ req[r].stored \in Secret /\ req[r].sent \in Sent
           /\ \/ UNCHANGED <<bots, missed>>
              \/ \E row \in BotRow :
                   LET b == req[r].bot  w == PreserveWalletKey(req[r].stored, req[r].sent)
                   IN  /\ bots[b] \in BotRow /\ bots' = [bots EXCEPT ![b] = row]
                       /\ row.acc = bots[b].acc /\ row.plat = bots[b].plat /\ row.name = bots[b].name
                       /\ row.wallet = w
                       /\ missed' = IF w \in OlderKeys /\ bots[b].wallet # w THEN missed \cup {b} ELSE missed
<1> DEFINE b == req[r].bot  w == PreserveWalletKey(req[r].stored, req[r].sent)
<1>1. req[r] \in SaveReq BY DEF PatchBot, At, ResBase, ResTypes, ReqTyped
<1>2. b \in Bot /\ req[r].stored \in Secret /\ req[r].sent \in Sent BY <1>1 DEF SaveReq
<1>3. w \in Secret
  <2>1. keys.current \in Key BY DEF ResBase, ResTypes
  <2> QED BY <1>2, <2>1 DEF PreserveWalletKey, Sent, EnsureEncrypted, Secret
<1>4. CASE InTable(bots, b)
  <2>1. bots[b] \in BotRow BY <1>2, <1>4, TableRows DEF ResBase
  <2>2. /\ bots' = [bots EXCEPT ![b].wallet = w]
        /\ missed' = IF w \in OlderKeys /\ bots[b].wallet # w THEN missed \cup {b} ELSE missed
    BY <1>4 DEF PatchBot
  <2> HIDE DEF w, b
  <2> DEFINE row == [bots[b] EXCEPT !.wallet = w]
  <2>3. row \in BotRow /\ row.acc = bots[b].acc /\ row.plat = bots[b].plat /\ row.name = bots[b].name
        /\ row.wallet = w
    BY <1>3, <2>1 DEF BotRow
  <2>4. bots' = [bots EXCEPT ![b] = row] BY <2>2
  <2> HIDE DEF row
  <2> QED BY <1>2, <2>1, <2>2, <2>3, <2>4 DEF b, w
<1>5. CASE ~InTable(bots, b) BY <1>2, <1>5 DEF PatchBot
<1> QED BY <1>4, <1>5

LEMMA InsertHookDoes ==
    ASSUME ResBase, NEW r \in Request, InsertHook(r)
    PROVE  \/ Quietly(r, Idle)
           \/ /\ \E h \in Hook, row \in HookRow :
                    hooks[h] = None /\ hooks' = [hooks EXCEPT ![h] = row] /\ row.enc = keys.current
              /\ Finish(r) /\ UNCHANGED <<accounts, bots, keys, history>>
<1>1. CASE req[r].bot \in RowsOf(bots) \cup {None}
  <2> DEFINE row == [bot |-> req[r].bot, enc |-> EnsureEncrypted(Raw)]
  <2>1. EnsureEncrypted(Raw) = keys.current /\ keys.current \in Key
    BY Apart DEF EnsureEncrypted, ResBase, ResTypes
  <2>2. req[r].bot \in Bot \cup {None} BY <1>1, TableRows DEF ResBase
  <2>3. row \in HookRow /\ row.enc = keys.current BY <2>1, <2>2 DEF HookRow, Secret
  <2>4. \E h \in Hook : hooks[h] = None /\ hooks' = [hooks EXCEPT ![h] = row] BY <1>1 DEF InsertHook
  <2>5. Finish(r) /\ UNCHANGED <<accounts, bots, keys, history>> BY <1>1 DEF InsertHook
  <2> HIDE DEF row
  <2> QED BY <2>3, <2>4, <2>5
<1>2. CASE req[r].bot \notin RowsOf(bots) \cup {None}
  BY <1>2 DEF InsertHook, Refuse, Finish, Quietly
<1> QED BY <1>1, <1>2

LEMMA PatchHookDoes ==
    ASSUME ResBase, NEW h \in Hook, NEW b \in Bot \cup {None}, PatchHook(h, b)
    PROVE  \E row \in HookRow : /\ hooks[h] \in HookRow /\ hooks' = [hooks EXCEPT ![h] = row]
                                /\ row.enc = hooks[h].enc
<1> DEFINE row == [hooks[h] EXCEPT !.bot = b]
<1>1. hooks[h] \in HookRow BY TableRows DEF PatchHook, ResBase
<1>2. row \in HookRow /\ row.enc = hooks[h].enc BY <1>1 DEF HookRow
<1>3. hooks' = [hooks EXCEPT ![h] = row] BY DEF PatchHook
<1> HIDE DEF row
<1> QED BY <1>1, <1>2, <1>3

LEMMA ExportBotsDoes ==
    ASSUME ResBase, NEW r \in Request, ExportBots(r)
    PROVE  backup' \in Export
<1> DEFINE whole == req[r].whole
           read == [b \in Bot |-> IF InTable(bots, b) THEN [bots[b] EXCEPT !.wallet = Mask(@, whole)] ELSE None]
<1>1. req[r] \in ExportReq BY DEF ExportBots, At, ResBase, ResTypes, ReqTyped
<1>2. whole \in BOOLEAN /\ req[r].accounts \in AccountExport BY <1>1 DEF ExportReq
<1>3. read \in BotExport
  <2>1. ASSUME NEW b \in Bot, InTable(bots, b)
        PROVE  [bots[b] EXCEPT !.wallet = Mask(@, whole)] \in BotRow
    <3>1. bots[b] \in BotRow BY <2>1, TableRows DEF ResBase
    <3>2. Mask(bots[b].wallet, whole) \in Secret BY <1>2, <3>1, MaskTyped DEF BotRow
    <3> QED BY <3>1, <3>2 DEF BotRow
  <2> QED BY <2>1 DEF BotExport
<1>4. backup' = [whole |-> whole, accounts |-> req[r].accounts, bots |-> read] BY DEF ExportBots
<1> HIDE DEF read
<1> QED BY <1>2, <1>3, <1>4 DEF Export

(* An import leaves every row it finds where it is, and makes every other  *)
(* from one of the backup's.                                               *)
ImportedAccount(x) ==
    \/ accounts'[x] = accounts[x]
    \/ \E row \in AccountRow, a \in RowsOf(backup.accounts) :
         /\ accounts'[x] = row /\ row.name = backup.accounts[a].name /\ row.plat = backup.accounts[a].plat
         /\ row.enc = EnsureEncrypted(backup.accounts[a].enc)
         /\ backup.accounts[a].enc \in OlderKeys => x \in missed'
         /\ accounts[x] = None \/ (InTable(accounts, x) /\ accounts[x].plat = row.plat)

LEMMA ImportAccounts ==
    ASSUME ResBase, backup \in Export, NEW am \in [Account -> Account], NEW bm \in [Bot -> Bot], ImportInto(am, bm)
    PROVE  /\ accounts' \in AccountReads /\ \A x \in Account : ImportedAccount(x)
           /\ \A a \in RowsOf(backup.accounts) :
                 InTable(accounts, am[a])' /\ accounts'[am[a]].plat = backup.accounts[a].plat
<1> DEFINE A == RowsOf(backup.accounts)
<1>1. /\ backup.accounts \in AccountExport /\ A = {a \in Account : backup.accounts[a] \in AccountRow}
      /\ backup.whole \in BOOLEAN
  BY Apart DEF Export, RowsOf, InTable, AccountExport
<1> HIDE DEF A
<1>2. /\ \A x, y \in A : am[x] = am[y] => x = y
      /\ \A x \in A : IF Like(backup.accounts[x]) = {} THEN accounts[am[x]] = None
                       ELSE am[x] \in Like(backup.accounts[x])
  BY DEF ImportInto, Fits, A
<1>3. DOMAIN accounts' = Account BY DEF ImportInto
<1>4. ASSUME NEW x \in Account, ~ \E a \in A : am[a] = x PROVE accounts'[x] = accounts[x]
  BY <1>4 DEF ImportInto, A
<1>5. ASSUME NEW a \in A
      PROVE  /\ accounts'[am[a]] \in AccountRow /\ accounts'[am[a]].plat = backup.accounts[a].plat
             /\ ImportedAccount(am[a])
  <2> DEFINE x == am[a]  b == backup.accounts[a]
  <2>1. x \in Account /\ b \in AccountRow /\ a \in Account BY <1>1
  <2>2. (CHOOSE c \in A : am[c] = x) = a BY <1>2
  <2>3. accounts'[x] = LET row == backup.accounts[CHOOSE c \in A : am[c] = x] IN
                          IF InTable(accounts, x) /\ ~backup.whole THEN accounts[x]
                          ELSE [row EXCEPT !.enc = EnsureEncrypted(@)]
    BY <2>1 DEF ImportInto, A
  <2>4. accounts'[x] = IF InTable(accounts, x) /\ ~backup.whole THEN accounts[x]
                       ELSE [b EXCEPT !.enc = EnsureEncrypted(@)]
    BY <2>2, <2>3
  <2>5. accounts[x] = None \/ (accounts[x] \in AccountRow /\ InTable(accounts, x) /\ accounts[x].plat = b.plat)
    <3>1. CASE Like(b) = {} BY <1>2, <3>1
    <3>2. CASE Like(b) # {}
      <4>1. x \in Like(b) BY <1>2, <3>2
      <4>2. x \in RowsOf(accounts) /\ accounts[x].plat = b.plat BY <4>1 DEF Like
      <4>3. InTable(accounts, x) BY <4>2 DEF RowsOf
      <4> QED BY <2>1, <4>2, <4>3, TableRows DEF ResBase
    <3> QED BY <3>1, <3>2
  <2>6. missed' = missed \cup {am[c] : c \in {y \in A : backup.accounts[y].enc \in OlderKeys}}
                         \cup {bm[c] : c \in {y \in RowsOf(backup.bots) : backup.bots[y].wallet \in OlderKeys}}
    BY DEF ImportInto, A
  <2>7. b.enc \in OlderKeys => x \in missed' BY <2>6
  <2> DEFINE e == EnsureEncrypted(b.enc)  row == [b EXCEPT !.enc = e]
  <2>8. e \in Secret
    <3>1. b.enc \in Secret BY <2>1 DEF AccountRow
    <3> QED BY <3>1, SecretTyped DEF ResBase, Secret
  <2>9. row \in AccountRow /\ row.name = b.name /\ row.plat = b.plat /\ row.enc = e
    <3> HIDE DEF e
    <3> QED BY <2>1, <2>8 DEF AccountRow
  <2>10. (accounts'[x] = accounts[x] /\ InTable(accounts, x)) \/ accounts'[x] = row BY <2>4
  <2> HIDE DEF row, x
  <2>11. CASE accounts'[x] = accounts[x] /\ InTable(accounts, x)
    <3>1. accounts[x] \in AccountRow /\ accounts[x].plat = b.plat BY <2>5, <2>11, Apart DEF InTable
    <3> QED BY <2>11, <3>1 DEF ImportedAccount, x
  <2>12. CASE accounts'[x] = row
    <3>1. a \in RowsOf(backup.accounts) BY DEF A
    <3> QED BY <2>5, <2>7, <2>9, <2>12, <3>1 DEF ImportedAccount, x
  <2> QED BY <2>10, <2>11, <2>12
<1>6. ASSUME NEW x \in Account PROVE ImportedAccount(x) /\ accounts'[x] \in AccountRow \cup {None, Gone}
  <2>1. CASE \E a \in A : am[a] = x BY <1>5, <2>1
  <2>2. CASE ~ \E a \in A : am[a] = x
    BY <1>4, <2>2 DEF ImportedAccount, ResBase, ResTypes, AccountReads
  <2> QED BY <2>1, <2>2
<1>7. accounts' \in AccountReads
  <2>1. accounts' = [x \in Account |-> accounts'[x]] BY DEF ImportInto
  <2> QED BY <1>6, <2>1 DEF AccountReads
<1>8. \A a \in A : InTable(accounts, am[a])' BY <1>5, Apart DEF InTable
<1> QED BY <1>5, <1>6, <1>7, <1>8 DEF A

ImportedBot(x, am) ==
    \/ bots'[x] = bots[x]
    \/ \E row \in BotRow, b \in RowsOf(backup.bots) :
         /\ bots'[x] = row /\ row.wallet = backup.bots[b].wallet
         /\ backup.bots[b].wallet \in OlderKeys => x \in missed'
         /\ \/ /\ bots[x] \in BotRow /\ row.acc = bots[x].acc /\ row.plat = bots[x].plat
               /\ bots[x].name = backup.bots[b].name
            \/ /\ bots[x] = None /\ row.plat = backup.bots[b].plat
               /\ backup.bots[b].acc \in RowsOf(backup.accounts) /\ row.acc = am[backup.bots[b].acc]

LEMMA ImportBots ==
    ASSUME ResBase, backup \in Export, ValidateImport(backup),
           NEW am \in [Account -> Account], NEW bm \in [Bot -> Bot], ImportInto(am, bm)
    PROVE  bots' \in BotReads /\ \A x \in Bot : ImportedBot(x, am)
<1> DEFINE B == RowsOf(backup.bots)
<1>1. /\ B = {b \in Bot : backup.bots[b] \in BotRow}
      /\ \A b \in B : backup.bots[b].acc \in RowsOf(backup.accounts)
  <2>1. /\ RowsOf(backup.bots) = {b \in Bot : backup.bots[b] \in BotRow}
        /\ RowsOf(backup.accounts) = {b \in Account : backup.accounts[b] \in AccountRow}
        /\ \A a \in Account : backup.accounts[a] \in AccountRow \cup {None}
    BY Apart DEF Export, RowsOf, InTable, BotExport, AccountExport
  <2>2. \A b \in B : backup.bots[b] \in BotRow /\ backup.bots[b] # None BY <2>1, Apart
  <2>3. \A b \in B : backup.bots[b].acc \in Account /\ backup.accounts[backup.bots[b].acc] # None
    BY <2>1, <2>2 DEF ValidateImport, BotRow
  <2> QED BY <2>1, <2>3
<1> HIDE DEF B
<1>2. /\ \A x, y \in B : bm[x] = bm[y] => x = y
      /\ \A x \in B : IF LikeBot(backup.bots[x], am[backup.bots[x].acc]) = {} THEN bots[bm[x]] = None
                       ELSE bm[x] \in LikeBot(backup.bots[x], am[backup.bots[x].acc])
  BY DEF ImportInto, Fits, B
<1>4. ASSUME NEW x \in Bot, ~ \E b \in B : bm[b] = x PROVE bots'[x] = bots[x]
  BY <1>4 DEF ImportInto, B
<1>5. ASSUME NEW b \in B PROVE bots'[bm[b]] \in BotRow /\ ImportedBot(bm[b], am)
  <2> DEFINE x == bm[b]  k == backup.bots[b]  n == am[k.acc]
  <2>1. x \in Bot /\ k \in BotRow /\ b \in Bot /\ k.acc \in RowsOf(backup.accounts) BY <1>1
  <2>2. (CHOOSE c \in B : bm[c] = x) = b BY <1>2
  <2>3. bots'[x] = LET row == backup.bots[CHOOSE c \in B : bm[c] = x] IN
                      IF InTable(bots, x) THEN [bots[x] EXCEPT !.wallet = row.wallet]
                      ELSE [row EXCEPT !.acc = am[row.acc]]
    BY <2>1 DEF ImportInto, B
  <2>4. bots'[x] = IF InTable(bots, x) THEN [bots[x] EXCEPT !.wallet = k.wallet] ELSE [k EXCEPT !.acc = n]
    BY <2>2, <2>3
  <2>5. missed' = missed \cup {am[c] : c \in {y \in RowsOf(backup.accounts) : backup.accounts[y].enc \in OlderKeys}}
                         \cup {bm[c] : c \in {y \in B : backup.bots[y].wallet \in OlderKeys}}
    BY DEF ImportInto, B
  <2>6. k.wallet \in OlderKeys => x \in missed' BY <2>5
  <2>7. n \in Account BY <2>1 DEF BotRow
  <2>8. b \in RowsOf(backup.bots) BY DEF B
  <2>9. CASE InTable(bots, x)
    <3>1. bots[x] \in BotRow BY <2>1, <2>9, TableRows DEF ResBase
    <3>2. bots[x] # None BY <3>1, Apart
    <3>3. x \in LikeBot(k, n) BY <1>2, <3>2
    <3>4. bots[x].name = k.name BY <3>3 DEF LikeBot
    <3> DEFINE row == [bots[x] EXCEPT !.wallet = k.wallet]
    <3>5. bots'[x] = row BY <2>4, <2>9
    <3>6. row \in BotRow /\ row.wallet = k.wallet /\ row.acc = bots[x].acc /\ row.plat = bots[x].plat
      BY <2>1, <3>1 DEF BotRow
    <3> HIDE DEF row, x
    <3> QED BY <2>6, <2>8, <3>1, <3>4, <3>5, <3>6 DEF ImportedBot, x
  <2>10. CASE ~InTable(bots, x)
    <3>1. bots[x] \notin BotRow BY <2>1, <2>10, TableRows DEF ResBase
    <3>2. bots[x] = None
      <4>1. x \in LikeBot(k, n) => InTable(bots, x) BY DEF LikeBot, BotsOf, RowsOf
      <4> QED BY <1>2, <2>10, <4>1
    <3> DEFINE row == [k EXCEPT !.acc = n]
    <3>5. bots'[x] = row BY <2>4, <2>10
    <3>6. row \in BotRow /\ row.wallet = k.wallet /\ row.acc = n /\ row.plat = k.plat
      BY <2>1, <2>7 DEF BotRow
    <3> HIDE DEF row, x
    <3> QED BY <2>1, <2>6, <2>8, <3>2, <3>5, <3>6 DEF ImportedBot, x
  <2> QED BY <2>9, <2>10
<1>6. ASSUME NEW x \in Bot PROVE ImportedBot(x, am) /\ bots'[x] \in BotRow \cup {None, Gone}
  <2>1. CASE \E b \in B : bm[b] = x BY <1>5, <2>1
  <2>2. CASE ~ \E b \in B : bm[b] = x
    BY <1>4, <2>2 DEF ImportedBot, ResBase, ResTypes, BotReads
  <2> QED BY <2>1, <2>2
<1>7. bots' \in BotReads
  <2>1. bots' = [x \in Bot |-> bots'[x]] BY DEF ImportInto
  <2> QED BY <1>6, <2>1 DEF BotReads
<1> QED BY <1>6, <1>7

(* A rotation writes what it read, on the current key.                     *)

LEMMA RotationWritesDoes ==
    ASSUME ResBase, NEW r \in Request, RotationWrites(r)
    PROVE  \/ Quietly(r, Idle)
           \/ /\ rotated' = TRUE /\ Finish(r) /\ UNCHANGED <<keys, imported, overtaken, backup>>
              /\ accounts' \in AccountReads /\ bots' \in BotReads /\ hooks' \in HookReads
              /\ \A a \in Account :
                    IF a \in RowsOf(req[r].accounts) /\ OnOlderKey(req[r].accounts[a].enc)
                    THEN /\ accounts[a] \in AccountRow /\ accounts'[a] \in AccountRow
                         /\ accounts'[a].plat = accounts[a].plat /\ accounts'[a].enc = keys.current
                    ELSE accounts'[a] = accounts[a]
              /\ \A b \in Bot :
                    IF b \in RowsOf(req[r].bots) /\ OnOlderKey(req[r].bots[b].wallet)
                    THEN /\ bots[b] \in BotRow /\ bots'[b] \in BotRow
                         /\ bots'[b].acc = bots[b].acc /\ bots'[b].plat = bots[b].plat
                         /\ bots'[b].wallet = keys.current
                    ELSE bots'[b] = bots[b]
              /\ \A h \in Hook :
                    IF h \in RowsOf(req[r].hooks) /\ OnOlderKey(req[r].hooks[h].enc)
                    THEN \/ hooks'[h] = hooks[h] /\ h \in missed'
                         \/ /\ hooks[h] \in HookRow /\ hooks'[h] \in HookRow
                            /\ hooks'[h].enc = Reencrypt(hooks[h].enc)
                    ELSE hooks'[h] = hooks[h]
              /\ missed \subseteq missed'
<1> DEFINE seen == req[r]
           A == {a \in RowsOf(seen.accounts) : OnOlderKey(seen.accounts[a].enc)}
           B == {b \in RowsOf(seen.bots) : OnOlderKey(seen.bots[b].wallet)}
           H == {h \in RowsOf(seen.hooks) : OnOlderKey(seen.hooks[h].enc)}
           scoped == {h \in H : seen.hooks[h].bot # None}
<1>1. seen \in RotateReq BY DEF RotationWrites, At, ResBase, ResTypes, ReqTyped
<1>2. CASE ~(A \subseteq RowsOf(accounts) /\ B \subseteq RowsOf(bots) /\ scoped \subseteq RowsOf(hooks))
  BY <1>2 DEF RotationWrites, Refuse, Finish, Quietly
<1>3. CASE A \subseteq RowsOf(accounts) /\ B \subseteq RowsOf(bots) /\ scoped \subseteq RowsOf(hooks)
  <2>1. /\ accounts' = [a \in Account |-> IF a \notin A THEN accounts[a]
                       ELSE [accounts[a] EXCEPT !.enc = Reencrypt(seen.accounts[a].enc)]]
        /\ bots' = [b \in Bot |-> IF b \notin B THEN bots[b]
                       ELSE [bots[b] EXCEPT !.wallet = RotateWallet(seen.bots[b].wallet)]]
        /\ hooks' = [h \in Hook |-> IF h \notin scoped THEN hooks[h]
                       ELSE [hooks[h] EXCEPT !.enc = Reencrypt(@)]]
        /\ rotated' = TRUE
        /\ missed' = missed \cup (H \ scoped)
        /\ Finish(r) /\ UNCHANGED <<keys, imported, overtaken, backup>>
    BY <1>3 DEF RotationWrites
  <2>2. keys.current \in Secret /\ \A s : OnOlderKey(s) => Reencrypt(s) = keys.current
    BY DEF ResBase, ResTypes, Secret, OnOlderKey, Reencrypt
  <2>3. ASSUME NEW a \in Account
        PROVE  /\ accounts'[a] \in AccountRow \cup {None, Gone}
               /\ IF a \in A
                  THEN /\ accounts[a] \in AccountRow /\ accounts'[a] \in AccountRow
                       /\ accounts'[a].plat = accounts[a].plat /\ accounts'[a].enc = keys.current
                  ELSE accounts'[a] = accounts[a]
    <3>1. CASE a \in A
      <4>1. accounts[a] \in AccountRow BY <1>3, <3>1, TableRows DEF ResBase
      <4>2. Reencrypt(seen.accounts[a].enc) = keys.current BY <2>2, <3>1
      <4> DEFINE e == keys.current
      <4>3. accounts'[a] = [accounts[a] EXCEPT !.enc = e] BY <2>1, <3>1, <4>2
      <4> HIDE DEF A
      <4> QED BY <2>2, <3>1, <4>1, <4>3 DEF AccountRow
    <3>2. CASE a \notin A BY <2>1, <3>2 DEF ResBase, ResTypes, AccountReads
    <3> QED BY <3>1, <3>2
  <2>4. ASSUME NEW b \in Bot
        PROVE  /\ bots'[b] \in BotRow \cup {None, Gone}
               /\ IF b \in B
                  THEN /\ bots[b] \in BotRow /\ bots'[b] \in BotRow
                       /\ bots'[b].acc = bots[b].acc /\ bots'[b].plat = bots[b].plat
                       /\ bots'[b].wallet = keys.current
                  ELSE bots'[b] = bots[b]
    <3>1. CASE b \in B
      <4>1. bots[b] \in BotRow BY <1>3, <3>1, TableRows DEF ResBase
      <4>2. RotateWallet(seen.bots[b].wallet) = keys.current BY <2>2, <3>1 DEF RotateWallet
      <4> DEFINE e == keys.current
      <4>3. bots'[b] = [bots[b] EXCEPT !.wallet = e] BY <2>1, <3>1, <4>2
      <4> HIDE DEF B
      <4> QED BY <2>2, <3>1, <4>1, <4>3 DEF BotRow
    <3>2. CASE b \notin B BY <2>1, <3>2 DEF ResBase, ResTypes, BotReads
    <3> QED BY <3>1, <3>2
  <2>5. ASSUME NEW h \in Hook
        PROVE  /\ hooks'[h] \in HookRow \cup {None, Gone}
               /\ IF h \in H
                  THEN \/ hooks'[h] = hooks[h] /\ h \in missed'
                       \/ /\ hooks[h] \in HookRow /\ hooks'[h] \in HookRow
                          /\ hooks'[h].enc = Reencrypt(hooks[h].enc)
                  ELSE hooks'[h] = hooks[h]
    <3>1. CASE h \in scoped
      <4>1. hooks[h] \in HookRow BY <1>3, <3>1, TableRows DEF ResBase
      <4> DEFINE e == Reencrypt(hooks[h].enc)
      <4>2. e \in Secret BY <4>1, SecretTyped DEF ResBase, HookRow
      <4>3. hooks'[h] = [hooks[h] EXCEPT !.enc = e] BY <2>1, <3>1
      <4>4. h \in H BY <3>1
      <4> HIDE DEF scoped, H, e
      <4> QED BY <4>1, <4>2, <4>3, <4>4 DEF HookRow, e
    <3>2. CASE h \notin scoped
      <4>1. hooks'[h] = hooks[h] /\ (h \in H => h \in missed') BY <2>1, <3>2
      <4>2. hooks'[h] \in HookRow \cup {None, Gone} BY <4>1 DEF ResBase, ResTypes, HookReads
      <4> HIDE DEF scoped, H
      <4> QED BY <4>1, <4>2
    <3> QED BY <3>1, <3>2
  <2>6. accounts' \in AccountReads BY <2>1, <2>3 DEF AccountReads
  <2>7. bots' \in BotReads BY <2>1, <2>4 DEF BotReads
  <2>8. hooks' \in HookReads BY <2>1, <2>5 DEF HookReads
  <2> QED BY <2>1, <2>3, <2>4, <2>5, <2>6, <2>7, <2>8
<1> QED BY <1>2, <1>3

-----------------------------------------------------------------------------
(* The tables keep their shape, and every bot has its account.             *)

LEMMA RowsIn ==
    /\ \A t \in AccountReads : /\ RowsOf(t) = {a \in Account : t[a] \in AccountRow}
                               /\ \A a \in Account : InTable(t, a) <=> t[a] \in AccountRow
    /\ \A t \in BotReads : /\ RowsOf(t) = {b \in Bot : t[b] \in BotRow}
                           /\ \A b \in Bot : InTable(t, b) <=> t[b] \in BotRow
    /\ \A t \in HookReads : /\ RowsOf(t) = {h \in Hook : t[h] \in HookRow}
                            /\ \A h \in Hook : InTable(t, h) <=> t[h] \in HookRow
BY Apart DEF InTable, RowsOf, AccountReads, BotReads, HookReads

(* The foreign key where each bot stays with its account, and no account   *)
(* is removed from under one.                                              *)
LEMMA BaseFrame ==
    ASSUME ResBase, DOMAIN req' = Request, \A q \in Request : ReqTyped(req'[q]),
           accounts' \in AccountReads, bots' \in BotReads, hooks' \in HookReads,
           keys' \in [current : Key, known : SUBSET Key], keys'.current \in keys'.known,
           rotated' \in BOOLEAN, imported' \in BOOLEAN, overtaken' \in BOOLEAN,
           backup' = None \/ backup' \in Export,
           \A b \in Bot : bots'[b] \in BotRow => accounts'[bots'[b].acc] \in AccountRow
    PROVE  ResBase'
<1>1. ResTypes' BY DEF ResTypes
<1>2. RowsOf(bots') = {b \in Bot : bots'[b] \in BotRow}
  /\ \A a \in Account : InTable(accounts', a) <=> accounts'[a] \in AccountRow
  BY RowsIn
<1>3. \A b \in RowsOf(bots') : InTable(accounts', bots'[b].acc)
  BY <1>2 DEF BotRow
<1> QED BY <1>1, <1>3 DEF ResBase, HaveAccounts, RowsOf, InTable

LEMMA BotsAccounts ==
    ASSUME ResBase, NEW b \in Bot, bots[b] \in BotRow
    PROVE  bots[b].acc \in Account /\ accounts[bots[b].acc] \in AccountRow
BY TableRows DEF ResBase, HaveAccounts, BotRow

LEMMA QuietBase ==
    ASSUME ResBase, NEW r \in Request, NEW p, Quietly(r, p), ReqTyped(p) PROVE ResBase'
<1>1. DOMAIN req' = Request /\ req'[r] = p /\ \A q \in Request \ {r} : req'[q] = req[q]
  BY Going DEF ResBase, Quietly
<1>2. UNCHANGED <<tables, keys, history>> BY DEF Quietly
<1>3. \A q \in Request : ReqTyped(req'[q]) BY <1>1 DEF ResBase, ResTypes
<1> QED BY <1>1, <1>2, <1>3 DEF ResBase, ResTypes, HaveAccounts, tables, history, RowsOf, InTable

(* A request that ends leaves all but the tables typed.                    *)
LEMMA EndsTyped ==
    ASSUME ResBase, NEW r \in Request, Finish(r), UNCHANGED <<keys, imported>>, rotated' \in BOOLEAN,
           overtaken' \in BOOLEAN, backup' = None \/ backup' \in Export,
           accounts' \in AccountReads, bots' \in BotReads, hooks' \in HookReads,
           \A b \in Bot : bots'[b] \in BotRow => accounts'[bots'[b].acc] \in AccountRow
    PROVE  ResBase'
<1>1. DOMAIN req' = Request /\ \A q \in Request : ReqTyped(req'[q]) BY Finishes DEF ResBase
<1>2. keys' \in [current : Key, known : SUBSET Key] /\ keys'.current \in keys'.known /\ imported' \in BOOLEAN
  BY DEF ResBase, ResTypes
<1> QED BY <1>1, <1>2, BaseFrame

LEMMA InsertAccountBase == ASSUME ResBase, NEW r \in Request, InsertAccount(r) PROVE ResBase'
<1>1. PICK a \in Account, row \in AccountRow : accounts[a] = None /\ accounts' = [accounts EXCEPT ![a] = row]
  BY InsertAccountDoes
<1>2. Finish(r) /\ UNCHANGED <<bots, hooks, keys, rotated, missed, imported, overtaken, backup>>
  BY DEF InsertAccount, history
<1>3. accounts' \in AccountReads BY <1>1 DEF ResBase, ResTypes, AccountReads
<1>4. \A b \in Bot : bots'[b] \in BotRow => accounts'[bots'[b].acc] \in AccountRow
  BY <1>1, <1>2, BotsAccounts DEF ResBase, ResTypes, AccountReads
<1> QED BY <1>2, <1>3, <1>4, EndsTyped DEF ResBase, ResTypes

LEMMA PatchAccountBase == ASSUME ResBase, NEW r \in Request, PatchAccount(r) PROVE ResBase'
<1> DEFINE a == req[r].acc
<1>1. a \in Account /\ \/ UNCHANGED accounts
                       \/ \E row \in AccountRow : accounts' = [accounts EXCEPT ![a] = row]
  BY PatchAccountDoes
<1>2. Finish(r) /\ UNCHANGED <<bots, hooks, keys, rotated, missed, imported, backup>>
  BY DEF PatchAccount
<1>3. req[r] \in PatchReq BY DEF PatchAccount, At, ResBase, ResTypes, ReqTyped
<1>4. overtaken' \in BOOLEAN BY <1>3 DEF PatchAccount, ResBase, ResTypes, PatchReq
<1> HIDE DEF a
<1>5. accounts' \in AccountReads BY <1>1 DEF ResBase, ResTypes, AccountReads
<1>6. \A b \in Bot : bots'[b] \in BotRow => accounts'[bots'[b].acc] \in AccountRow
  BY <1>1, <1>2, BotsAccounts DEF ResBase, ResTypes, AccountReads
<1> QED BY <1>2, <1>4, <1>5, <1>6, EndsTyped DEF ResBase, ResTypes

LEMMA DeleteAccountBase == ASSUME ResBase, NEW r \in Request, DeleteAccount(r) PROVE ResBase'
<1> DEFINE a == req[r].acc
<1>1. Finish(r) /\ UNCHANGED <<keys, rotated, missed, imported, overtaken, backup>>
  BY DEF DeleteAccount, history
<1>2. CASE UNCHANGED tables
  BY <1>1, <1>2, BotsAccounts, EndsTyped DEF ResBase, ResTypes, tables
<1>3. CASE ~ UNCHANGED tables
  <2>1. /\ a \in Account /\ accounts' = [accounts EXCEPT ![a] = Gone]
        /\ WithoutBots(BotsOf(a)) /\ BotsOf(a) \in SUBSET Bot
    BY <1>3, DeleteAccountDoes
  <2>2. /\ bots' \in BotReads /\ hooks' \in HookReads
        /\ \A b \in Bot : bots'[b] = IF b \in BotsOf(a) THEN Gone ELSE bots[b]
    BY <2>1, GoneTyped
  <2>3. accounts' \in AccountReads BY <2>1 DEF ResBase, ResTypes, AccountReads
  <2>4. ASSUME NEW b \in Bot, bots'[b] \in BotRow PROVE accounts'[bots'[b].acc] \in AccountRow
    <3>1. Gone \notin BotRow BY Apart
    <3>2. bots'[b] = bots[b] /\ b \notin BotsOf(a) BY <2>2, <2>4, <3>1
    <3>3. bots[b] \in BotRow /\ bots[b].acc \in Account /\ accounts[bots[b].acc] \in AccountRow
      BY <2>4, <3>2, BotsAccounts
    <3>4. bots[b].acc # a BY <3>2, <3>3, TableRows DEF BotsOf, ResBase
    <3> QED BY <2>1, <3>2, <3>3, <3>4 DEF ResBase, ResTypes, AccountReads
  <2> QED BY <1>1, <2>2, <2>3, <2>4, EndsTyped DEF ResBase, ResTypes
<1> QED BY <1>2, <1>3

LEMMA InsertBotBase == ASSUME ResBase, NEW r \in Request, InsertBot(r) PROVE ResBase'
<1>1. CASE Quietly(r, Idle) BY <1>1, IdleTyped, QuietBase
<1>2. CASE ~Quietly(r, Idle)
  <2> DEFINE rs == [req EXCEPT ![r] = Idle]
  <2>1. /\ InTable(accounts, req[r].acc) /\ req' = MarkLate(rs)
        /\ overtaken' = (overtaken \/ accounts[req[r].acc].plat # req[r].seen)
        /\ UNCHANGED <<accounts, hooks, keys, rotated, missed, imported, backup>>
    BY <1>2, InsertBotDoes
  <2>2. PICK b \in Bot, row \in BotRow : /\ bots[b] = None /\ bots' = [bots EXCEPT ![b] = row]
                                         /\ row.acc = req[r].acc
    BY <1>2, InsertBotDoes
  <2>3. \A q \in Request : ReqTyped(rs[q]) BY IdleTyped DEF ResBase, ResTypes
  <2> HIDE DEF rs
  <2>4. DOMAIN req' = Request /\ \A q \in Request : ReqTyped(req'[q]) BY <2>1, <2>3, Marked
  <2>5. bots' \in BotReads BY <2>2 DEF ResBase, ResTypes, BotReads
  <2>6. ASSUME NEW c \in Bot, bots'[c] \in BotRow PROVE accounts'[bots'[c].acc] \in AccountRow
    <3>1. CASE c = b
      <4>1. bots'[c] = row BY <2>2, <3>1 DEF ResBase, ResTypes, BotReads
      <4>2. req[r].acc \in Account BY <2>2 DEF BotRow
      <4>3. accounts[req[r].acc] \in AccountRow BY <2>1, <4>2, TableRows DEF ResBase
      <4> QED BY <2>1, <2>2, <4>1, <4>3
    <3>2. CASE c # b
      <4>1. bots'[c] = bots[c] BY <2>2, <3>2 DEF ResBase, ResTypes, BotReads
      <4> QED BY <2>1, <2>6, <4>1, BotsAccounts
    <3> QED BY <3>1, <3>2
  <2>7. overtaken' \in BOOLEAN BY <2>1 DEF ResBase, ResTypes
  <2> QED BY <2>1, <2>4, <2>5, <2>6, <2>7, BaseFrame DEF ResBase, ResTypes
<1> QED BY <1>1, <1>2

LEMMA PatchBotBase == ASSUME ResBase, NEW r \in Request, PatchBot(r) PROVE ResBase'
<1> DEFINE b == req[r].bot
<1>1. Finish(r) /\ UNCHANGED <<accounts, hooks, keys, rotated, imported, overtaken, backup>>
  BY DEF PatchBot
<1>2. /\ b \in Bot
      /\ \/ UNCHANGED bots
         \/ \E row \in BotRow : /\ bots[b] \in BotRow /\ bots' = [bots EXCEPT ![b] = row]
                                /\ row.acc = bots[b].acc
  BY PatchBotDoes
<1> HIDE DEF b
<1>3. bots' \in BotReads BY <1>2 DEF ResBase, ResTypes, BotReads
<1>4. \A c \in Bot : bots'[c] \in BotRow => accounts'[bots'[c].acc] \in AccountRow
  BY <1>1, <1>2, BotsAccounts DEF ResBase, ResTypes, BotReads
<1> QED BY <1>1, <1>3, <1>4, EndsTyped DEF ResBase, ResTypes

LEMMA DeleteBotBase == ASSUME ResBase, NEW b \in Bot, DeleteBot(b) PROVE ResBase'
<1>1. WithoutBots({b}) /\ UNCHANGED <<accounts, req, keys, rotated, missed, imported, overtaken, backup>>
  BY DEF DeleteBot, history
<1>2. /\ bots' \in BotReads /\ hooks' \in HookReads
      /\ \A c \in Bot : bots'[c] = IF c \in {b} THEN Gone ELSE bots[c]
  BY <1>1, GoneTyped
<1>3. \A c \in Bot : bots'[c] \in BotRow => accounts'[bots'[c].acc] \in AccountRow
  BY <1>1, <1>2, Apart, BotsAccounts
<1> QED BY <1>1, <1>2, <1>3, BaseFrame DEF ResBase, ResTypes

LEMMA InsertHookBase == ASSUME ResBase, NEW r \in Request, InsertHook(r) PROVE ResBase'
<1>1. CASE Quietly(r, Idle) BY <1>1, IdleTyped, QuietBase
<1>2. CASE ~Quietly(r, Idle)
  <2>1. /\ \E h \in Hook, row \in HookRow : hooks' = [hooks EXCEPT ![h] = row]
        /\ Finish(r) /\ UNCHANGED <<accounts, bots, keys, rotated, missed, imported, overtaken, backup>>
    BY <1>2, InsertHookDoes DEF history
  <2>2. hooks' \in HookReads BY <2>1 DEF ResBase, ResTypes, HookReads
  <2> QED BY <2>1, <2>2, BotsAccounts, EndsTyped DEF ResBase, ResTypes
<1> QED BY <1>1, <1>2

LEMMA HookBase ==
    ASSUME ResBase, NEW h \in Hook, DeleteHook(h) \/ \E b \in Bot \cup {None} : PatchHook(h, b)
    PROVE  ResBase'
<1>1. UNCHANGED <<accounts, bots, req, keys, rotated, missed, imported, overtaken, backup>>
  BY DEF DeleteHook, PatchHook, history
<1>2. \E row \in HookRow \cup {Gone} : hooks' = [hooks EXCEPT ![h] = row]
  BY PatchHookDoes DEF DeleteHook
<1>3. hooks' \in HookReads BY <1>2 DEF ResBase, ResTypes, HookReads
<1> QED BY <1>1, <1>3, BotsAccounts, BaseFrame DEF ResBase, ResTypes

LEMMA ExportBotsBase == ASSUME ResBase, NEW r \in Request, ExportBots(r) PROVE ResBase'
<1>1. Finish(r) /\ UNCHANGED <<accounts, bots, hooks, keys, rotated, missed, imported>>
  BY DEF ExportBots, tables
<1>2. overtaken' \in BOOLEAN BY DEF ExportBots, ResBase, ResTypes
<1> QED BY <1>1, <1>2, ExportBotsDoes, BotsAccounts, EndsTyped DEF ResBase, ResTypes

LEMMA ImportDoes ==
    ASSUME ResBase, Import
    PROVE  \E am \in [Account -> Account] :
             /\ accounts' \in AccountReads /\ bots' \in BotReads /\ backup \in Export
             /\ \A x \in Account : ImportedAccount(x)
             /\ \A x \in Bot : ImportedBot(x, am)
             /\ \A a \in RowsOf(backup.accounts) :
                   InTable(accounts, am[a])' /\ accounts'[am[a]].plat = backup.accounts[a].plat
             /\ missed \subseteq missed'
<1>1. backup \in Export /\ ValidateImport(backup) BY DEF Import, ResBase, ResTypes
<1>2. PICK am \in [Account -> Account], bm \in [Bot -> Bot] : ImportInto(am, bm) BY DEF Import
<1>3. missed \subseteq missed' BY <1>2 DEF ImportInto
<1>4. /\ accounts' \in AccountReads /\ \A x \in Account : ImportedAccount(x)
      /\ \A a \in RowsOf(backup.accounts) :
            InTable(accounts, am[a])' /\ accounts'[am[a]].plat = backup.accounts[a].plat
  BY <1>1, <1>2, ImportAccounts
<1>5. bots' \in BotReads /\ \A x \in Bot : ImportedBot(x, am) BY <1>1, <1>2, ImportBots
<1> QED BY <1>1, <1>3, <1>4, <1>5

LEMMA ImportBase == ASSUME ResBase, Import PROVE ResBase'
<1>1. req' = MarkLate(req) /\ imported' = TRUE /\ UNCHANGED <<hooks, keys, rotated, overtaken, backup>>
  BY DEF Import
<1>2. PICK am \in [Account -> Account] :
         /\ accounts' \in AccountReads /\ bots' \in BotReads /\ backup \in Export
         /\ \A x \in Account : ImportedAccount(x)
         /\ \A x \in Bot : ImportedBot(x, am)
         /\ \A a \in RowsOf(backup.accounts) :
               InTable(accounts, am[a])' /\ accounts'[am[a]].plat = backup.accounts[a].plat
  BY ImportDoes
<1>3. DOMAIN req' = Request /\ \A q \in Request : ReqTyped(req'[q])
  BY <1>1, Marked DEF ResBase, ResTypes
<1>4. ASSUME NEW a \in Account, accounts[a] \in AccountRow PROVE accounts'[a] \in AccountRow
  BY <1>2, <1>4 DEF ImportedAccount
<1>5. ASSUME NEW b \in Bot, bots'[b] \in BotRow PROVE accounts'[bots'[b].acc] \in AccountRow
  <2>1. CASE bots'[b] = bots[b] BY <1>4, <1>5, <2>1, BotsAccounts
  <2>2. CASE bots'[b] # bots[b]
    <3>1. PICK row \in BotRow, k \in RowsOf(backup.bots) :
             /\ bots'[b] = row
             /\ \/ bots[b] \in BotRow /\ row.acc = bots[b].acc
                \/ backup.bots[k].acc \in RowsOf(backup.accounts) /\ row.acc = am[backup.bots[k].acc]
      BY <1>2, <2>2 DEF ImportedBot
    <3>2. CASE bots[b] \in BotRow /\ row.acc = bots[b].acc BY <1>4, <3>1, <3>2, BotsAccounts
    <3>3. CASE backup.bots[k].acc \in RowsOf(backup.accounts) /\ row.acc = am[backup.bots[k].acc]
      <4> DEFINE a == am[backup.bots[k].acc]
      <4>1. InTable(accounts', a) BY <1>2, <3>3 DEF InTable
      <4>2. a \in Account BY <3>1, <3>3 DEF BotRow
      <4>3. accounts'[a] \in AccountRow BY <1>2, <4>1, <4>2, RowsIn
      <4> QED BY <3>1, <3>3, <4>3
    <3> QED BY <3>1, <3>2, <3>3
  <2> QED BY <2>1, <2>2
<1> QED BY <1>1, <1>2, <1>3, <1>5, BaseFrame DEF ResBase, ResTypes

LEMMA RotationWritesBase == ASSUME ResBase, NEW r \in Request, RotationWrites(r) PROVE ResBase'
<1>1. CASE Quietly(r, Idle) BY <1>1, IdleTyped, QuietBase
<1>2. CASE ~Quietly(r, Idle)
  <2>1. /\ rotated' = TRUE /\ Finish(r) /\ UNCHANGED <<keys, imported, overtaken, backup>>
        /\ accounts' \in AccountReads /\ bots' \in BotReads /\ hooks' \in HookReads
        /\ \A a \in Account : accounts'[a] = accounts[a] \/ accounts'[a] \in AccountRow
        /\ \A b \in Bot : \/ bots'[b] = bots[b]
                          \/ bots[b] \in BotRow /\ bots'[b].acc = bots[b].acc
    BY <1>2, RotationWritesDoes
  <2>2. \A b \in Bot : bots'[b] \in BotRow => accounts'[bots'[b].acc] \in AccountRow
    BY <2>1, BotsAccounts
  <2> QED BY <2>1, <2>2, EndsTyped DEF ResBase, ResTypes
<1> QED BY <1>1, <1>2

LEMMA KeysBase == ASSUME ResBase, AddKey \/ DropLegacyKeys PROVE ResBase'
<1>1. /\ UNCHANGED <<accounts, bots, hooks, imported, overtaken, backup>>
      /\ req' = [r \in Request |-> Idle]
  BY DEF AddKey, DropLegacyKeys, tables, history
<1>2. DOMAIN req' = Request /\ \A q \in Request : ReqTyped(req'[q]) BY <1>1, IdleTyped
<1>3. keys' \in [current : Key, known : SUBSET Key] /\ keys'.current \in keys'.known /\ rotated' \in BOOLEAN
  <2>1. keys \in [current : Key, known : SUBSET Key] /\ rotated \in BOOLEAN BY DEF ResBase, ResTypes
  <2>2. CASE AddKey
    <3>1. keys.current + 1 \in Key BY <2>1, <2>2, QuotaAssumption DEF AddKey, Key
    <3> QED BY <2>1, <2>2, <3>1 DEF AddKey
  <2>3. CASE DropLegacyKeys BY <2>1, <2>3 DEF DropLegacyKeys, history
  <2> QED BY <2>2, <2>3
<1> QED BY <1>1, <1>2, <1>3, BotsAccounts, BaseFrame DEF ResBase, ResTypes

LEMMA LostMoves == ASSUME NEW r \in Request, RequestLost(r) PROVE Quietly(r, Idle)
BY DEF RequestLost, Refuse, Finish, Quietly

(* Every step moves one request on and does nothing else, or writes.       *)
Asks(r) ==
    \/ RequestLost(r) \/ CountBots(r) \/ RotationReads(r)
    \/ \E plat \in Platform : AskAccount(r, plat)
    \/ \E a \in Account : AskDeleteAccount(r, a)
    \/ \E a \in Account, plat \in Platform : AskPatchAccount(r, a, plat) \/ AskBot(r, a, plat)
    \/ \E b \in Bot, sent \in Sent : AskPatchBot(r, b, sent)
    \/ \E b \in Bot \cup {None} : AskHook(r, b)
    \/ \E whole \in BOOLEAN : ExportAccounts(r, whole)

Writes(r) ==
    \/ InsertAccount(r) \/ PatchAccount(r) \/ DeleteAccount(r) \/ InsertBot(r) \/ PatchBot(r)
    \/ InsertHook(r) \/ ExportBots(r) \/ RotationWrites(r)

AtOnce ==
    \/ \E b \in Bot : DeleteBot(b)
    \/ \E h \in Hook : DeleteHook(h) \/ \E b \in Bot \cup {None} : PatchHook(h, b)
    \/ Import \/ AddKey \/ DropLegacyKeys

LEMMA NextSteps == ResNext <=> (\E r \in Request : Asks(r) \/ Writes(r)) \/ AtOnce
BY DEF ResNext, NewAccountStep, AccountStep, BotStep, SaveStep, HookStep, BackupStep, KeyStep,
       Asks, Writes, AtOnce

(* What a request that only reads goes on to is what it has read.          *)
ReadsNow(r, p) ==
    /\ ReqTyped(p)
    /\ p.at \in {"none", "insertAccount", "patchAccount", "deleteAccount", "countBots", "insertBot",
                 "patchBot", "insertHook", "exportBots", "rotate"}
    /\ p.at = "patchAccount" => BotsOf(p.acc) = {} \/ p.plat = accounts[p.acc].plat
    /\ p.at = "deleteAccount" => BotsOf(p.acc) = {}
    /\ p.at = "countBots" => p.seen = p.plat
    /\ p.at = "insertBot" => /\ At(r, "countBots") /\ p.plat = req[r].plat /\ p.seen = req[r].seen
                             /\ Cardinality(RowsOf(bots)) < MaxBots
    /\ p.at = "rotate" => p.accounts = accounts /\ p.bots = bots /\ p.hooks = hooks

LEMMA AsksDo == ASSUME ResBase, NEW r \in Request, Asks(r) PROVE \E p : Quietly(r, p) /\ ReadsNow(r, p)
<1> USE DEF ReadsNow
<1>1. Quietly(r, Idle) => \E p : Quietly(r, p) /\ ReadsNow(r, p) BY IdleTyped
<1>2. CASE RequestLost(r) BY <1>1, <1>2, LostMoves
<1>3. CASE CountBots(r) BY <1>1, <1>3, CountBotsMoves
<1>4. CASE RotationReads(r) BY <1>4, RotationReadsMoves
<1>5. CASE \E plat \in Platform : AskAccount(r, plat) BY <1>5, AskAccountMoves
<1>6. CASE \E a \in Account : AskDeleteAccount(r, a) BY <1>6, AskDeleteMoves
<1>7. CASE \E a \in Account, plat \in Platform : AskPatchAccount(r, a, plat) BY <1>7, AskPatchMoves
<1>8. CASE \E a \in Account, plat \in Platform : AskBot(r, a, plat) BY <1>8, AskBotMoves
<1>9. CASE \E b \in Bot, sent \in Sent : AskPatchBot(r, b, sent) BY <1>9, AskPatchBotMoves
<1>10. CASE \E b \in Bot \cup {None} : AskHook(r, b) BY <1>10, AskHookMoves
<1>11. CASE \E whole \in BOOLEAN : ExportAccounts(r, whole) BY <1>11, ExportAccountsMoves
<1> QED BY <1>2, <1>3, <1>4, <1>5, <1>6, <1>7, <1>8, <1>9, <1>10, <1>11 DEF Asks

LEMMA BaseSteps == ResBase /\ [ResNext]_resVars => ResBase'
<1> SUFFICES ASSUME ResBase, [ResNext]_resVars PROVE ResBase' OBVIOUS
<1>1. CASE UNCHANGED resVars
  BY <1>1 DEF resVars, ResBase, ResTypes, HaveAccounts, RowsOf, InTable
<1>2. ASSUME NEW r \in Request, Asks(r) PROVE ResBase'
  BY <1>2, AsksDo, QuietBase DEF ReadsNow
<1>3. ASSUME NEW r \in Request, Writes(r) PROVE ResBase'
  BY <1>3, InsertAccountBase, PatchAccountBase, DeleteAccountBase, InsertBotBase, PatchBotBase,
     InsertHookBase, ExportBotsBase, RotationWritesBase DEF Writes
<1>4. CASE AtOnce BY <1>4, DeleteBotBase, HookBase, ImportBase, KeysBase DEF AtOnce
<1> QED BY <1>1, <1>2, <1>3, <1>4, NextSteps

LEMMA BaseStarts == ResInit => ResBase
<1> SUFFICES ASSUME ResInit PROVE ResBase OBVIOUS
<1> USE DEF ResInit
<1>1. 1 \in Key BY QuotaAssumption DEF Key
<1>2. accounts \in AccountReads BY <1>1 DEF AccountReads, AccountRow, Secret
<1>3. bots \in BotReads /\ hooks \in HookReads BY DEF BotReads, HookReads
<1>4. \A b \in Bot : bots[b] \notin BotRow BY Apart
<1>5. ResTypes BY <1>1, <1>2, <1>3, IdleTyped DEF ResTypes
<1>6. HaveAccounts BY <1>4, <1>5, TableRows DEF HaveAccounts
<1> QED BY <1>5, <1>6 DEF ResBase

-----------------------------------------------------------------------------
(* The quota.                                                              *)

LEMMA Finite ==
    ASSUME ResTypes
    PROVE  /\ IsFiniteSet(RowsOf(bots)) /\ IsFiniteSet(CountedBots) /\ IsFiniteSet(Request)
           /\ Cardinality(RowsOf(bots)) \in Nat /\ Cardinality(CountedBots) \in Nat
           /\ Cardinality(Request) \in Nat /\ Cardinality(CountedBots) <= Cardinality(Request)
<1>1. RowsOf(bots) \subseteq Bot /\ CountedBots \subseteq Request BY TableRows DEF CountedBots
<1> QED BY <1>1, QuotaAssumption, FS_Subset, FS_CardinalityType

LEMMA NoMore ==
    ASSUME ResTypes, QuotaBound, RowsOf(bots)' \subseteq RowsOf(bots), CountedBots' \subseteq CountedBots,
           imported' = imported
    PROVE  QuotaBound'
<1> DEFINE n == Cardinality(RowsOf(bots))  m == Cardinality(CountedBots)  k == Cardinality(Request)
           i == Cardinality(RowsOf(bots)')  j == Cardinality(CountedBots')
<1>1. i \in Nat /\ j \in Nat /\ i <= n /\ j <= m /\ n \in Nat /\ m \in Nat /\ k \in Nat
  BY Finite, FS_Subset, FS_CardinalityType
<1>2. ~imported => n + m <= MaxBots - 1 + k BY DEF QuotaBound
<1>3. MaxBots \in Nat BY QuotaAssumption
<1>4. QuotaBound' <=> (~imported' => i + j <= MaxBots - 1 + k) BY DEF QuotaBound
<1> HIDE DEF n, m, k, i, j
<1> QED BY <1>1, <1>2, <1>3, <1>4

LEMMA QuietCounts ==
    ASSUME ResBase, NEW r \in Request, NEW p, Quietly(r, p)
    PROVE  CountedBots' = IF p.at = "insertBot" THEN CountedBots \cup {r} ELSE CountedBots \ {r}
<1>1. req'[r] = p /\ \A q \in Request \ {r} : req'[q] = req[q]
  BY Going DEF ResBase, Quietly
<1> QED BY <1>1 DEF CountedBots, At

LEMMA QuietQuota ==
    ASSUME ResBase, QuotaBound, NEW r \in Request, NEW p, Quietly(r, p), ReadsNow(r, p)
    PROVE  QuotaBound'
<1>1. RowsOf(bots)' = RowsOf(bots) /\ imported' = imported
  BY DEF Quietly, tables, history, RowsOf, InTable
<1>2. CASE p.at # "insertBot" BY <1>1, <1>2, QuietCounts, NoMore DEF ResBase
<1>3. CASE p.at = "insertBot"
  <2> DEFINE n == Cardinality(RowsOf(bots))  k == Cardinality(Request)  j == Cardinality(CountedBots')
  <2>1. CountedBots' \subseteq Request BY DEF CountedBots
  <2>2. j \in Nat /\ j <= k BY <2>1, QuotaAssumption, FS_Subset, FS_CardinalityType
  <2>3. n < MaxBots /\ n \in Nat /\ k \in Nat /\ MaxBots \in Nat
    BY <1>3, Finite, QuotaAssumption DEF ReadsNow, ResBase
  <2>4. QuotaBound' <=> (~imported' => n + j <= MaxBots - 1 + k) BY <1>1 DEF QuotaBound
  <2> HIDE DEF n, k, j
  <2> QED BY <2>2, <2>3, <2>4
<1> QED BY <1>2, <1>3

LEMMA InsertBotQuota == ASSUME ResBase, QuotaBound, NEW r \in Request, InsertBot(r) PROVE QuotaBound'
<1>1. CASE Quietly(r, Idle)
  <2>1. ReadsNow(r, Idle) BY IdleTyped DEF ReadsNow
  <2> QED BY <1>1, <2>1, QuietQuota
<1>2. CASE ~Quietly(r, Idle)
  <2> DEFINE rs == [req EXCEPT ![r] = Idle]
  <2>1. req' = MarkLate(rs) /\ UNCHANGED imported BY <1>2, InsertBotDoes
  <2>2. PICK b \in Bot, row \in BotRow : bots[b] = None /\ bots' = [bots EXCEPT ![b] = row]
    BY <1>2, InsertBotDoes
  <2>3. \A q \in Request : ReqTyped(rs[q]) BY IdleTyped DEF ResBase, ResTypes
  <2>4. rs[r].at = "none" /\ \A q \in Request \ {r} : rs[q] = req[q]
    BY IdleTyped DEF ResBase, ResTypes
  <2> HIDE DEF rs
  <2>5. \A q \in Request : req'[q].at = rs[q].at BY <2>1, <2>3, Marked
  <2>6. r \in CountedBots /\ CountedBots' = CountedBots \ {r}
    BY <2>4, <2>5 DEF InsertBot, CountedBots, At
  <2>7. bots' \in BotReads /\ bots'[b] = row /\ \A c \in Bot \ {b} : bots'[c] = bots[c]
    BY <2>2 DEF ResBase, ResTypes, BotReads
  <2>8. b \notin RowsOf(bots) /\ RowsOf(bots') = RowsOf(bots) \cup {b}
    <3>1. RowsOf(bots) = {c \in Bot : bots[c] \in BotRow} BY TableRows DEF ResBase
    <3>2. RowsOf(bots') = {c \in Bot : bots'[c] \in BotRow} BY <2>7, RowsIn
    <3>3. None \notin BotRow BY Apart
    <3> QED BY <2>2, <2>7, <3>1, <3>2, <3>3
  <2> DEFINE n == Cardinality(RowsOf(bots))  m == Cardinality(CountedBots)  k == Cardinality(Request)
             i == Cardinality(RowsOf(bots'))  j == Cardinality(CountedBots')
  <2>9. n \in Nat /\ m \in Nat /\ k \in Nat /\ i = n + 1 /\ j = m - 1
    <3>1. ResTypes BY DEF ResBase
    <3>2. IsFiniteSet(RowsOf(bots)) /\ IsFiniteSet(CountedBots) /\ n \in Nat /\ m \in Nat /\ k \in Nat
      BY <3>1, Finite
    <3>3. i = n + 1
      <4> DEFINE S == RowsOf(bots)
      <4> HIDE DEF S
      <4>1. IsFiniteSet(S) => Cardinality(S \cup {b}) = IF b \in S THEN Cardinality(S) ELSE Cardinality(S) + 1
        BY FS_AddElement
      <4> QED BY <2>8, <3>2, <4>1 DEF S
    <3>4. j = m - 1
      <4> DEFINE S == CountedBots
      <4> HIDE DEF S
      <4>1. IsFiniteSet(S) => Cardinality(S \ {r}) = IF r \in S THEN Cardinality(S) - 1 ELSE Cardinality(S)
        BY FS_RemoveElement
      <4>2. CountedBots' = S \ {r} /\ r \in S /\ IsFiniteSet(S) /\ m = Cardinality(S) BY <2>6, <3>2 DEF S
      <4> QED BY <4>1, <4>2
    <3> QED BY <3>2, <3>3, <3>4
  <2>10. ~imported => n + m <= MaxBots - 1 + k BY DEF QuotaBound
  <2>11. QuotaBound' <=> (~imported' => i + j <= MaxBots - 1 + k) BY DEF QuotaBound, RowsOf, InTable
  <2> HIDE DEF n, m, k, i, j
  <2> QED BY <2>1, <2>9, <2>10, <2>11, QuotaAssumption
<1> QED BY <1>1, <1>2

(* A step that makes no bot and leaves no request counted.                 *)
LEMMA RowsDown ==
    ASSUME ResBase, bots' \in BotReads, \A b \in Bot : bots'[b] \in BotRow => bots[b] \in BotRow
    PROVE  RowsOf(bots)' \subseteq RowsOf(bots)
<1>1. RowsOf(bots') \subseteq RowsOf(bots) BY RowsIn, TableRows DEF ResBase
<1> QED BY <1>1 DEF RowsOf, InTable

LEMMA FinishCounts == ASSUME ResBase, NEW r \in Request, Finish(r) PROVE CountedBots' \subseteq CountedBots
BY Finishes, IdleTyped DEF ResBase, CountedBots, At

LEMMA QuotaSteps == ResBase /\ ResBase' /\ QuotaBound /\ [ResNext]_resVars => QuotaBound'
<1> SUFFICES ASSUME ResBase, ResBase', QuotaBound, [ResNext]_resVars PROVE QuotaBound' OBVIOUS
<1>0. bots' \in BotReads BY DEF ResBase, ResTypes
<1>1. CASE UNCHANGED resVars
  BY <1>1 DEF resVars, QuotaBound, CountedBots, At, RowsOf, InTable
<1>2. ASSUME NEW r \in Request, Asks(r) PROVE QuotaBound' BY <1>2, AsksDo, QuietQuota
<1>3. ASSUME NEW r \in Request, Writes(r), ~InsertBot(r) PROVE QuotaBound'
  <2>1. ReadsNow(r, Idle) BY IdleTyped DEF ReadsNow
  <2>2. CASE Quietly(r, Idle) BY <2>1, <2>2, QuietQuota
  <2>3. CASE ~Quietly(r, Idle)
    <3>1. Finish(r) /\ imported' = imported
      BY <1>3, <2>3, InsertHookDoes, RotationWritesDoes
      DEF Writes, InsertAccount, PatchAccount, DeleteAccount, PatchBot, ExportBots, tables, history
    <3>2. \A b \in Bot : bots'[b] \in BotRow => bots[b] \in BotRow
      <4>1. CASE InsertAccount(r) \/ PatchAccount(r) \/ InsertHook(r) \/ ExportBots(r)
        BY <2>3, <4>1, InsertHookDoes DEF InsertAccount, PatchAccount, ExportBots, tables
      <4>2. CASE DeleteAccount(r)
        BY <4>2, DeleteAccountDoes, GoneTyped, Apart DEF tables
      <4>3. CASE PatchBot(r)
        BY <4>3, PatchBotDoes DEF ResBase, ResTypes, BotReads
      <4>4. CASE RotationWrites(r)
        BY <2>3, <4>4, RotationWritesDoes
      <4> QED BY <1>3, <4>1, <4>2, <4>3, <4>4 DEF Writes
    <3> QED BY <1>0, <3>1, <3>2, RowsDown, FinishCounts, NoMore DEF ResBase
  <2> QED BY <2>2, <2>3
<1>4. CASE AtOnce
  <2>1. CASE \E b \in Bot : DeleteBot(b)
    <3>1. PICK b \in Bot : DeleteBot(b) BY <2>1
    <3>2. WithoutBots({b}) /\ req' = req /\ imported' = imported BY <3>1 DEF DeleteBot, history
    <3>3. \A c \in Bot : bots'[c] \in BotRow => bots[c] \in BotRow BY <3>2, GoneTyped, Apart
    <3>4. CountedBots' \subseteq CountedBots BY <3>2 DEF CountedBots, At
    <3> QED BY <1>0, <3>2, <3>3, <3>4, RowsDown, NoMore DEF ResBase
  <2>2. CASE \E h \in Hook : DeleteHook(h) \/ \E b \in Bot \cup {None} : PatchHook(h, b)
    BY <2>2 DEF DeleteHook, PatchHook, QuotaBound, CountedBots, At, RowsOf, InTable, history
  <2>3. CASE Import BY <2>3 DEF Import, QuotaBound
  <2>4. CASE AddKey \/ DropLegacyKeys
    <3>1. bots' = bots /\ imported' = imported /\ CountedBots' = {}
      BY <2>4, IdleTyped DEF AddKey, DropLegacyKeys, tables, history, CountedBots, At
    <3>2. RowsOf(bots)' = RowsOf(bots) BY <3>1 DEF RowsOf, InTable
    <3> QED BY <3>1, <3>2, NoMore DEF ResBase
  <2> QED BY <1>4, <2>1, <2>2, <2>3, <2>4 DEF AtOnce
<1> QED BY <1>1, <1>2, <1>3, <1>4, InsertBotQuota, NextSteps

LEMMA QuotaStarts == ResInit => QuotaBound
<1> SUFFICES ASSUME ResInit PROVE QuotaBound OBVIOUS
<1>1. RowsOf(bots) = {} /\ CountedBots = {}
  BY IdleTyped DEF ResInit, RowsOf, InTable, CountedBots, At
<1>2. Cardinality(RowsOf(bots)) = 0 /\ Cardinality(CountedBots) = 0 BY <1>1, FS_EmptySet
<1>3. Cardinality(Request) \in Nat BY QuotaAssumption, FS_CardinalityType
<1> QED BY <1>2, <1>3, QuotaAssumption DEF QuotaBound

-----------------------------------------------------------------------------
(* The platform of an account and of its bots.                             *)

LEMMA BotsOfIs ==
    /\ ResTypes => \A a : BotsOf(a) = {b \in Bot : bots[b] \in BotRow /\ bots[b].acc = a}
    /\ ResTypes' => \A a : BotsOf(a)' = {b \in Bot : bots'[b] \in BotRow /\ bots'[b].acc = a}
<1>1. ASSUME ResTypes PROVE \A a : BotsOf(a) = {b \in Bot : bots[b] \in BotRow /\ bots[b].acc = a}
  BY <1>1, TableRows DEF BotsOf
<1>2. ASSUME ResTypes' PROVE \A a : BotsOf(a)' = {b \in Bot : bots'[b] \in BotRow /\ bots'[b].acc = a}
  <2>1. bots' \in BotReads BY <1>2 DEF ResTypes
  <2>2. RowsOf(bots') = {b \in Bot : bots'[b] \in BotRow} BY <2>1, RowsIn
  <2> QED BY <2>2 DEF BotsOf
<1> QED BY <1>1, <1>2

(* No bot comes to a, and its platform stays unless it has no bots.        *)
SafeFor(a) ==
    /\ BotsOf(a)' \subseteq BotsOf(a)
    /\ ~overtaken' => accounts'[a].plat = accounts[a].plat \/ BotsOf(a)' = {}

LEMMA SeenNext ==
    ASSUME \A q \in Request : ReqTyped(req'[q]),
           \A q \in Request, a \in Account :
              /\ req'[q].at \in {"countBots", "insertBot"} => req'[q].seen = req'[q].plat
              /\ req'[q].at = "deleteAccount" /\ ~req'[q].late /\ a = req'[q].acc => BotsOf(a)' = {}
              /\ req'[q].at = "patchAccount" /\ ~req'[q].late /\ a = req'[q].acc /\ ~overtaken' =>
                    BotsOf(a)' = {} \/ req'[q].plat = accounts'[a].plat
    PROVE  SeenStands'
<1> SUFFICES ASSUME NEW q \in Request
             PROVE  /\ req'[q].at \in {"countBots", "insertBot"} => req'[q].seen = req'[q].plat
                    /\ req'[q].at = "deleteAccount" /\ ~req'[q].late =>
                          {b \in RowsOf(bots') : bots'[b].acc = req'[q].acc} = {}
                    /\ req'[q].at = "patchAccount" /\ ~req'[q].late /\ ~overtaken' =>
                          \/ {b \in RowsOf(bots') : bots'[b].acc = req'[q].acc} = {}
                          \/ req'[q].plat = accounts'[req'[q].acc].plat
  BY DEF SeenStands, At, BotsOf, RowsOf
<1>1. ReqTyped(req'[q]) OBVIOUS
<1>2. req'[q].at \in {"deleteAccount", "patchAccount"} => req'[q].acc \in Account
  BY <1>1 DEF ReqTyped, PatchReq, DeleteReq
<1>3. req'[q].at \in {"countBots", "insertBot"} => req'[q].acc \in Account
  BY <1>1 DEF ReqTyped, CreateReq
<1> QED BY <1>2, <1>3 DEF BotsOf, RowsOf, InTable

(* No step but an insert or an import gives an account a bot or changes    *)
(* whose it is, and a platform stays unless the account has no bots.       *)
BotsStay == \A b \in Bot : bots'[b] \in BotRow =>
               bots[b] \in BotRow /\ bots'[b].acc = bots[b].acc /\ bots'[b].plat = bots[b].plat
PlatStays == \A a \in Account : ~overtaken' =>
               accounts'[a].plat = accounts[a].plat \/ \A b \in Bot : bots'[b] \in BotRow => bots'[b].acc # a

LEMMA AgreesNext ==
    ASSUME ResBase, ResBase'
    PROVE  /\ PlatformAgrees' <=> \A b \in Bot : ~overtaken' /\ bots'[b] \in BotRow =>
                                     accounts'[bots'[b].acc].plat = bots'[b].plat
           /\ PlatformAgrees <=> \A b \in Bot : ~overtaken /\ bots[b] \in BotRow =>
                                     accounts[bots[b].acc].plat = bots[b].plat
<1>1. RowsOf(bots') = {b \in Bot : bots'[b] \in BotRow} BY RowsIn DEF ResBase, ResTypes
<1>2. RowsOf(bots) = {b \in Bot : bots[b] \in BotRow} BY RowsIn DEF ResBase, ResTypes
<1>3. PlatformAgrees' <=> (~overtaken' => \A b \in RowsOf(bots') : accounts'[bots'[b].acc].plat = bots'[b].plat)
  BY DEF PlatformAgrees, RowsOf, InTable
<1> QED BY <1>1, <1>2, <1>3 DEF PlatformAgrees

LEMMA StayAgrees ==
    ASSUME ResBase, ResBase', SeenStands, PlatformAgrees, overtaken => overtaken',
           \A q \in Request : req'[q] = req[q] \/ req'[q].at = "none", BotsStay, PlatStays
    PROVE  SeenStands' /\ PlatformAgrees'
<1>1. ResTypes /\ ResTypes' /\ \A q \in Request : ReqTyped(req'[q]) BY DEF ResBase, ResTypes
<1>2. \A a : /\ BotsOf(a) = {b \in Bot : bots[b] \in BotRow /\ bots[b].acc = a}
             /\ BotsOf(a)' = {b \in Bot : bots'[b] \in BotRow /\ bots'[b].acc = a}
  BY <1>1, BotsOfIs
<1>3. \A a : BotsOf(a)' \subseteq BotsOf(a) BY <1>2 DEF BotsStay
<1>4. \A a \in Account : ~overtaken' => accounts'[a].plat = accounts[a].plat \/ BotsOf(a)' = {}
  BY <1>2 DEF PlatStays
<1>5. SeenStands'
  <2>1. ASSUME NEW q \in Request, NEW a \in Account
        PROVE  /\ req'[q].at \in {"countBots", "insertBot"} => req'[q].seen = req'[q].plat
               /\ req'[q].at = "deleteAccount" /\ ~req'[q].late /\ a = req'[q].acc => BotsOf(a)' = {}
               /\ req'[q].at = "patchAccount" /\ ~req'[q].late /\ a = req'[q].acc /\ ~overtaken' =>
                     BotsOf(a)' = {} \/ req'[q].plat = accounts'[a].plat
    BY <1>3, <1>4 DEF SeenStands, At
  <2> QED BY <1>1, <2>1, SeenNext
<1>6. ASSUME NEW b \in Bot, bots'[b] \in BotRow, ~overtaken' PROVE accounts'[bots'[b].acc].plat = bots'[b].plat
  <2>1. bots[b] \in BotRow /\ bots'[b].acc = bots[b].acc /\ bots'[b].plat = bots[b].plat
    BY <1>6 DEF BotsStay
  <2>2. bots[b].acc \in Account BY <2>1 DEF BotRow
  <2>3. accounts'[bots[b].acc].plat = accounts[bots[b].acc].plat BY <1>6, <2>1, <2>2 DEF PlatStays
  <2>4. accounts[bots[b].acc].plat = bots[b].plat BY <1>6, <2>1, AgreesNext
  <2> QED BY <2>1, <2>3, <2>4
<1> QED BY <1>5, <1>6, AgreesNext

LEMMA QuietAgrees ==
    ASSUME ResBase, ResBase', SeenStands, PlatformAgrees, NEW r \in Request, NEW p, Quietly(r, p), ReadsNow(r, p)
    PROVE  SeenStands' /\ PlatformAgrees'
<1>1. /\ req'[r] = p /\ \A q \in Request \ {r} : req'[q] = req[q]
      /\ accounts' = accounts /\ bots' = bots /\ overtaken' = overtaken
  BY Going DEF ResBase, Quietly, tables, history
<1>2. \A a : BotsOf(a)' = BotsOf(a) BY <1>1 DEF BotsOf, RowsOf, InTable
<1>3. \A q \in Request : ReqTyped(req'[q]) BY DEF ResBase, ResTypes
<1>4. ASSUME NEW q \in Request, NEW a \in Account
      PROVE  /\ req'[q].at \in {"countBots", "insertBot"} => req'[q].seen = req'[q].plat
             /\ req'[q].at = "deleteAccount" /\ ~req'[q].late /\ a = req'[q].acc => BotsOf(a)' = {}
             /\ req'[q].at = "patchAccount" /\ ~req'[q].late /\ a = req'[q].acc /\ ~overtaken' =>
                   BotsOf(a)' = {} \/ req'[q].plat = accounts'[a].plat
  <2>1. CASE q # r BY <1>1, <1>2, <2>1 DEF SeenStands, At
  <2>2. CASE q = r BY <1>1, <1>2, <2>2 DEF SeenStands, At, ReadsNow
  <2> QED BY <2>1, <2>2
<1>5. SeenStands' BY <1>3, <1>4, SeenNext
<1>6. PlatformAgrees' BY <1>1, AgreesNext
<1> QED BY <1>5, <1>6

LEMMA FinishStays ==
    ASSUME ResBase, NEW r \in Request, Finish(r)
    PROVE  \A q \in Request : req'[q] = req[q] \/ req'[q].at = "none"
BY Finishes, IdleTyped DEF ResBase

LEMMA WritesAgree ==
    ASSUME ResBase, ResBase', SeenStands, PlatformAgrees, NEW r \in Request, Writes(r), ~InsertBot(r)
    PROVE  SeenStands' /\ PlatformAgrees'
<1>1. CASE Quietly(r, Idle)
  <2>1. ReadsNow(r, Idle) BY IdleTyped DEF ReadsNow
  <2> QED BY <1>1, <2>1, QuietAgrees
<1>2. CASE ~Quietly(r, Idle)
  <2>1. Finish(r) /\ (overtaken => overtaken')
    BY <1>2, InsertHookDoes, RotationWritesDoes
    DEF Writes, InsertAccount, PatchAccount, DeleteAccount, PatchBot, ExportBots, history
  <2>2. BotsStay
    <3>1. CASE InsertAccount(r) \/ PatchAccount(r) \/ InsertHook(r) \/ ExportBots(r)
      BY <1>2, <3>1, InsertHookDoes DEF InsertAccount, PatchAccount, ExportBots, tables, BotsStay
    <3>2. CASE DeleteAccount(r)
      BY <3>2, DeleteAccountDoes, GoneTyped, Apart DEF tables, BotsStay
    <3>3. CASE PatchBot(r)
      BY <3>3, PatchBotDoes DEF ResBase, ResTypes, BotReads, BotsStay
    <3>4. CASE RotationWrites(r)
      BY <1>2, <3>4, RotationWritesDoes DEF BotsStay
    <3> QED BY <1>2, <3>1, <3>2, <3>3, <3>4 DEF Writes
  <2>3. PlatStays
    <3>1. CASE InsertAccount(r)
      <4>1. PICK a \in Account, row \in AccountRow : accounts[a] = None /\ accounts' = [accounts EXCEPT ![a] = row]
        BY <3>1, InsertAccountDoes
      <4>2. \A b \in Bot : bots'[b] \in BotRow => bots'[b].acc # a
        BY <2>2, <4>1, BotsAccounts, Apart DEF BotsStay
      <4>3. \A c \in Account \ {a} : accounts'[c] = accounts[c] BY <4>1 DEF ResBase, ResTypes, AccountReads
      <4> QED BY <4>2, <4>3 DEF PlatStays
    <3>2. CASE PatchAccount(r)
      <4> DEFINE a == req[r].acc
      <4>1. /\ a \in Account
            /\ \/ UNCHANGED accounts
               \/ \E row \in AccountRow : accounts' = [accounts EXCEPT ![a] = row] /\ row.plat = req[r].plat
        BY <3>2, PatchAccountDoes
      <4>2. overtaken' = (overtaken \/ req[r].late) /\ At(r, "patchAccount") BY <3>2 DEF PatchAccount
      <4>3. ~overtaken' => BotsOf(a) = {} \/ req[r].plat = accounts[a].plat BY <4>2 DEF SeenStands
      <4>4. BotsOf(a) = {} => \A b \in Bot : bots'[b] \in BotRow => bots'[b].acc # a
        BY <2>2, BotsOfIs DEF ResBase, BotsStay
      <4> HIDE DEF a
      <4>5. \A c \in Account \ {a} : accounts'[c] = accounts[c] BY <4>1 DEF ResBase, ResTypes, AccountReads
      <4>6. ~overtaken' => accounts'[a].plat = accounts[a].plat \/ BotsOf(a) = {}
        BY <4>1, <4>3 DEF ResBase, ResTypes, AccountReads
      <4> QED BY <4>4, <4>5, <4>6 DEF PlatStays
    <3>3. CASE DeleteAccount(r)
      <4> DEFINE a == req[r].acc
      <4>1. CASE UNCHANGED tables BY <4>1 DEF tables, PlatStays
      <4>2. CASE ~ UNCHANGED tables
        <5>1. /\ a \in Account /\ accounts' = [accounts EXCEPT ![a] = Gone]
              /\ WithoutBots(BotsOf(a)) /\ BotsOf(a) \in SUBSET Bot
          BY <3>3, <4>2, DeleteAccountDoes
        <5>2. \A b \in Bot : bots'[b] = IF b \in BotsOf(a) THEN Gone ELSE bots[b] BY <5>1, GoneTyped
        <5>3. \A b \in Bot : bots'[b] \in BotRow => bots'[b].acc # a BY <5>2, BotsOfIs, Apart DEF ResBase
        <5> HIDE DEF a
        <5>4. \A c \in Account \ {a} : accounts'[c] = accounts[c] BY <5>1 DEF ResBase, ResTypes, AccountReads
        <5> QED BY <5>3, <5>4 DEF PlatStays
      <4> QED BY <4>1, <4>2
    <3>4. CASE PatchBot(r) \/ InsertHook(r) \/ ExportBots(r)
      BY <1>2, <3>4, InsertHookDoes DEF PatchBot, ExportBots, tables, PlatStays
    <3>5. CASE RotationWrites(r)
      BY <1>2, <3>5, RotationWritesDoes DEF PlatStays
    <3> QED BY <1>2, <3>1, <3>2, <3>3, <3>4, <3>5 DEF Writes
  <2> QED BY <2>1, <2>2, <2>3, FinishStays, StayAgrees
<1> QED BY <1>1, <1>2

LEMMA InsertBotAgrees ==
    ASSUME ResBase, ResBase', SeenStands, PlatformAgrees, NEW r \in Request, InsertBot(r)
    PROVE  SeenStands' /\ PlatformAgrees'
<1>1. CASE Quietly(r, Idle)
  <2>1. ReadsNow(r, Idle) BY IdleTyped DEF ReadsNow
  <2> QED BY <1>1, <2>1, QuietAgrees
<1>2. CASE ~Quietly(r, Idle)
  <2> DEFINE rs == [req EXCEPT ![r] = Idle]
  <2>1. /\ req' = MarkLate(rs) /\ UNCHANGED accounts
        /\ overtaken' = (overtaken \/ accounts[req[r].acc].plat # req[r].seen)
    BY <1>2, InsertBotDoes
  <2>2. PICK b \in Bot, row \in BotRow : /\ bots[b] = None /\ bots' = [bots EXCEPT ![b] = row]
                                         /\ row.acc = req[r].acc /\ row.plat = req[r].plat
    BY <1>2, InsertBotDoes
  <2>3. bots'[b] = row /\ \A c \in Bot \ {b} : bots'[c] = bots[c] BY <2>2 DEF ResBase, ResTypes, BotReads
  <2>4. \A q \in Request : ReqTyped(rs[q]) BY IdleTyped DEF ResBase, ResTypes
  <2>5. rs[r].at = "none" /\ \A q \in Request \ {r} : rs[q] = req[q] BY IdleTyped DEF ResBase, ResTypes
  <2> HIDE DEF rs
  <2>6. b \in RowsOf(bots)' \ RowsOf(bots)
    <3>1. RowsOf(bots) = {c \in Bot : bots[c] \in BotRow} BY RowsIn DEF ResBase, ResTypes
    <3>2. RowsOf(bots') = {c \in Bot : bots'[c] \in BotRow} BY RowsIn DEF ResBase, ResTypes
    <3>3. None \notin BotRow BY Apart
    <3>4. b \in RowsOf(bots') BY <2>3, <3>2
    <3> QED BY <2>2, <3>1, <3>3, <3>4 DEF RowsOf, InTable
  <2>7. \A q \in Request :
           /\ ReqTyped(req'[q]) /\ req'[q].at = rs[q].at
           /\ rs[q].at \notin {"patchAccount", "deleteAccount"} => req'[q] = rs[q]
           /\ rs[q].at \in {"patchAccount", "deleteAccount"} =>
                 /\ req'[q].acc = rs[q].acc
                 /\ rs[q].at = "patchAccount" => req'[q].plat = rs[q].plat
                 /\ ~req'[q].late => ~rs[q].late /\ row.acc # rs[q].acc
    BY <2>1, <2>3, <2>4, <2>6, Marked
  <2>8. \A a : /\ BotsOf(a) = {c \in Bot : bots[c] \in BotRow /\ bots[c].acc = a}
               /\ BotsOf(a)' = {c \in Bot : bots'[c] \in BotRow /\ bots'[c].acc = a}
    BY BotsOfIs DEF ResBase
  <2>9. \A a : row.acc # a => BotsOf(a)' \subseteq BotsOf(a) BY <2>3, <2>8
  <2>10. ASSUME NEW q \in Request, NEW a \in Account
        PROVE  /\ req'[q].at \in {"countBots", "insertBot"} => req'[q].seen = req'[q].plat
               /\ req'[q].at = "deleteAccount" /\ ~req'[q].late /\ a = req'[q].acc => BotsOf(a)' = {}
               /\ req'[q].at = "patchAccount" /\ ~req'[q].late /\ a = req'[q].acc /\ ~overtaken' =>
                     BotsOf(a)' = {} \/ req'[q].plat = accounts'[a].plat
    <3>1. CASE q = r BY <2>5, <2>7, <3>1
    <3>2. CASE q # r
      <4>1. rs[q] = req[q] BY <2>5, <3>2
      <4>2. /\ req[q].at \in {"countBots", "insertBot"} => req[q].seen = req[q].plat
            /\ req[q].at = "deleteAccount" /\ ~req[q].late /\ a = req[q].acc => BotsOf(a) = {}
            /\ req[q].at = "patchAccount" /\ ~req[q].late /\ a = req[q].acc /\ ~overtaken =>
                  BotsOf(a) = {} \/ req[q].plat = accounts[a].plat
        BY DEF SeenStands, At
      <4>3. /\ req'[q].at = req[q].at
            /\ req[q].at \notin {"patchAccount", "deleteAccount"} => req'[q] = req[q]
            /\ req[q].at \in {"patchAccount", "deleteAccount"} =>
                  /\ req'[q].acc = req[q].acc
                  /\ req[q].at = "patchAccount" => req'[q].plat = req[q].plat
                  /\ ~req'[q].late => ~req[q].late /\ row.acc # req[q].acc
        BY <2>7, <4>1
      <4>4. row.acc # a => BotsOf(a)' \subseteq BotsOf(a) BY <2>9
      <4>5. (overtaken => overtaken') /\ accounts' = accounts BY <2>1
      <4> QED BY <4>2, <4>3, <4>4, <4>5
    <3> QED BY <3>1, <3>2
  <2>11. SeenStands' BY <2>7, <2>10, SeenNext
  <2>12. ASSUME NEW c \in Bot, bots'[c] \in BotRow, ~overtaken' PROVE accounts'[bots'[c].acc].plat = bots'[c].plat
    <3>1. CASE c = b
      <4>1. req[r].seen = req[r].plat BY DEF SeenStands, InsertBot
      <4> QED BY <2>1, <2>2, <2>3, <2>12, <3>1, <4>1
    <3>2. CASE c # b BY <2>1, <2>3, <2>12, <3>2, AgreesNext
    <3> QED BY <3>1, <3>2
  <2> QED BY <2>11, <2>12, AgreesNext
<1> QED BY <1>1, <1>2

LEMMA ImportAgrees ==
    ASSUME ResBase, ResBase', AgreeInv, Import
    PROVE  SeenStands' /\ PlatformAgrees'
<1>1. req' = MarkLate(req) /\ overtaken' = overtaken /\ backup # None BY DEF Import
<1>2. PICK am \in [Account -> Account] :
         /\ backup \in Export /\ \A x \in Account : ImportedAccount(x)
         /\ \A x \in Bot : ImportedBot(x, am)
         /\ \A a \in RowsOf(backup.accounts) :
               InTable(accounts, am[a])' /\ accounts'[am[a]].plat = backup.accounts[a].plat
  BY ImportDoes
<1>3. \A q \in Request : ReqTyped(req[q]) BY DEF ResBase, ResTypes
<1>4. \A q \in Request :
        /\ ReqTyped(req'[q]) /\ req'[q].at = req[q].at
        /\ req[q].at \notin {"patchAccount", "deleteAccount"} => req'[q] = req[q]
        /\ req[q].at \in {"patchAccount", "deleteAccount"} =>
              /\ req'[q].acc = req[q].acc
              /\ req[q].at = "patchAccount" => req'[q].plat = req[q].plat
              /\ ~req'[q].late => /\ ~req[q].late
                                  /\ \A b \in RowsOf(bots)' \ RowsOf(bots) : bots'[b].acc # req[q].acc
  BY <1>1, <1>3, Marked
<1>5. \A a : /\ BotsOf(a) = {c \in Bot : bots[c] \in BotRow /\ bots[c].acc = a}
             /\ BotsOf(a)' = {c \in Bot : bots'[c] \in BotRow /\ bots'[c].acc = a}
  BY BotsOfIs DEF ResBase
<1>6. /\ RowsOf(bots) = {c \in Bot : bots[c] \in BotRow}
      /\ RowsOf(bots)' = {c \in Bot : bots'[c] \in BotRow}
  <2>1. RowsOf(bots') = {c \in Bot : bots'[c] \in BotRow} BY RowsIn DEF ResBase, ResTypes
  <2> QED BY <2>1, RowsIn DEF ResBase, ResTypes, RowsOf, InTable
<1>7. \A x \in Bot : bots[x] \in BotRow => bots'[x] \in BotRow /\ bots'[x].acc = bots[x].acc /\ bots'[x].plat = bots[x].plat
  BY <1>2, Apart DEF ImportedBot
<1>8. \A x \in Account : accounts[x] \in AccountRow => accounts'[x].plat = accounts[x].plat
  BY <1>2, Apart DEF ImportedAccount
<1>9. \A x \in Account : accounts'[x].plat = accounts[x].plat \/ BotsOf(x) = {}
  <2>1. ASSUME NEW x \in Account, accounts[x] = None PROVE BotsOf(x) = {}
    BY <1>5, <2>1, BotsAccounts, Apart
  <2>2. \A x \in Account : accounts'[x] = accounts[x] \/ accounts[x] = None \/ accounts[x] \in AccountRow
    BY <1>2, RowsIn DEF ImportedAccount, ResBase, ResTypes
  <2> QED BY <1>8, <2>1, <2>2
<1>10. SeenStands'
  <2>1. ASSUME NEW q \in Request, NEW a \in Account
        PROVE  /\ req'[q].at \in {"countBots", "insertBot"} => req'[q].seen = req'[q].plat
               /\ req'[q].at = "deleteAccount" /\ ~req'[q].late /\ a = req'[q].acc => BotsOf(a)' = {}
               /\ req'[q].at = "patchAccount" /\ ~req'[q].late /\ a = req'[q].acc /\ ~overtaken' =>
                     BotsOf(a)' = {} \/ req'[q].plat = accounts'[a].plat
    <3>1. /\ req[q].at \in {"countBots", "insertBot"} => req[q].seen = req[q].plat
          /\ req[q].at = "deleteAccount" /\ ~req[q].late /\ a = req[q].acc => BotsOf(a) = {}
          /\ req[q].at = "patchAccount" /\ ~req[q].late /\ a = req[q].acc /\ ~overtaken =>
                BotsOf(a) = {} \/ req[q].plat = accounts[a].plat
      BY DEF AgreeInv, SeenStands, At
    <3>2. (\A b \in RowsOf(bots)' \ RowsOf(bots) : bots'[b].acc # a) => BotsOf(a)' \subseteq BotsOf(a)
      BY <1>5, <1>6, <1>7
    <3>3. /\ req'[q].at = req[q].at
          /\ req[q].at \notin {"patchAccount", "deleteAccount"} => req'[q] = req[q]
          /\ req[q].at \in {"patchAccount", "deleteAccount"} /\ a = req'[q].acc =>
                /\ req[q].acc = a
                /\ req[q].at = "patchAccount" => req'[q].plat = req[q].plat
                /\ ~req'[q].late => ~req[q].late /\ BotsOf(a)' \subseteq BotsOf(a)
      BY <1>4, <3>2
    <3>4. accounts'[a].plat = accounts[a].plat \/ BotsOf(a) = {} BY <1>9
    <3> QED BY <1>1, <3>1, <3>3, <3>4
  <2> QED BY <1>4, <2>1, SeenNext
<1>11. ASSUME NEW b \in Bot, bots'[b] \in BotRow, ~overtaken' PROVE accounts'[bots'[b].acc].plat = bots'[b].plat
  <2>1. CASE bots[b] \in BotRow
    <3>1. bots'[b].acc = bots[b].acc /\ bots'[b].plat = bots[b].plat BY <1>7, <2>1
    <3>2. bots[b].acc \in Account /\ accounts[bots[b].acc] \in AccountRow BY <2>1, BotsAccounts
    <3>3. accounts[bots[b].acc].plat = bots[b].plat BY <1>1, <1>11, <2>1, AgreesNext DEF AgreeInv
    <3> QED BY <1>8, <3>1, <3>2, <3>3
  <2>2. CASE bots[b] \notin BotRow
    <3>1. PICK row \in BotRow, k \in RowsOf(backup.bots) :
             /\ bots'[b] = row /\ row.plat = backup.bots[k].plat
             /\ backup.bots[k].acc \in RowsOf(backup.accounts) /\ row.acc = am[backup.bots[k].acc]
      BY <1>2, <1>11, <2>2 DEF ImportedBot
    <3>2. ~Torn(backup) BY <1>1, <1>11 DEF AgreeInv
    <3>3. backup.accounts[backup.bots[k].acc] # None BY <3>1 DEF RowsOf, InTable
    <3>4. backup.bots[k].plat = backup.accounts[backup.bots[k].acc].plat BY <3>1, <3>2, <3>3 DEF Torn
    <3>5. accounts'[row.acc].plat = backup.accounts[backup.bots[k].acc].plat BY <1>2, <3>1
    <3> QED BY <3>1, <3>4, <3>5
  <2> QED BY <2>1, <2>2
<1> QED BY <1>10, <1>11, AgreesNext

LEMMA AtOnceAgrees ==
    ASSUME ResBase, ResBase', AgreeInv, AtOnce
    PROVE  SeenStands' /\ PlatformAgrees'
<1>1. CASE Import BY <1>1, ImportAgrees
<1>2. ASSUME NEW b \in Bot, DeleteBot(b) PROVE SeenStands' /\ PlatformAgrees'
  <2>1. WithoutBots({b}) /\ accounts' = accounts /\ req' = req /\ overtaken' = overtaken
    BY <1>2 DEF DeleteBot, history
  <2>2. BotsStay BY <2>1, GoneTyped, Apart DEF BotsStay
  <2>3. PlatStays BY <2>1 DEF PlatStays
  <2> QED BY <2>1, <2>2, <2>3, StayAgrees DEF AgreeInv
<1>3. CASE \E h \in Hook : DeleteHook(h) \/ \E b \in Bot \cup {None} : PatchHook(h, b)
  <2>1. UNCHANGED <<accounts, bots, req, overtaken>> BY <1>3 DEF DeleteHook, PatchHook, history
  <2> QED BY <2>1, StayAgrees DEF BotsStay, PlatStays, AgreeInv
<1>4. CASE AddKey \/ DropLegacyKeys
  <2>1. UNCHANGED <<accounts, bots, overtaken>> /\ \A q \in Request : req'[q].at = "none"
    BY <1>4, IdleTyped DEF AddKey, DropLegacyKeys, tables, history
  <2> QED BY <2>1, StayAgrees DEF BotsStay, PlatStays, AgreeInv
<1> QED BY <1>1, <1>2, <1>3, <1>4 DEF AtOnce

LEMMA AgreeSteps == ResBase /\ ResBase' /\ AgreeInv /\ [ResNext]_resVars => AgreeInv'
<1> SUFFICES ASSUME ResBase, ResBase', AgreeInv, [ResNext]_resVars PROVE AgreeInv' OBVIOUS
<1>1. SeenStands' /\ PlatformAgrees'
  <2>1. CASE UNCHANGED resVars
    BY <2>1, StayAgrees DEF resVars, BotsStay, PlatStays, AgreeInv
  <2>2. ASSUME NEW r \in Request, Asks(r) PROVE SeenStands' /\ PlatformAgrees'
    BY <2>2, AsksDo, QuietAgrees DEF AgreeInv
  <2>3. ASSUME NEW r \in Request, Writes(r) PROVE SeenStands' /\ PlatformAgrees'
    BY <2>3, WritesAgree, InsertBotAgrees DEF AgreeInv
  <2> QED BY <2>1, <2>2, <2>3, AtOnceAgrees, NextSteps
<1>2. ~overtaken' /\ backup' # None => ~Torn(backup')
  <2>1. CASE \E r \in Request : ExportBots(r) BY <2>1 DEF ExportBots
  <2>2. CASE ~ \E r \in Request : ExportBots(r)
    <3>1. backup' = backup /\ (overtaken => overtaken')
      <4>1. CASE UNCHANGED resVars BY <4>1 DEF resVars
      <4>2. ASSUME NEW r \in Request, Asks(r) PROVE backup' = backup /\ (overtaken => overtaken')
        BY <4>2, AsksDo DEF Quietly, history
      <4>3. ASSUME NEW r \in Request, Writes(r) PROVE backup' = backup /\ (overtaken => overtaken')
        BY <2>2, <4>3, InsertBotDoes, InsertHookDoes, RotationWritesDoes
        DEF Writes, InsertAccount, PatchAccount, DeleteAccount, PatchBot, Quietly, history
      <4>4. CASE AtOnce
        <5>1. CASE Import BY <5>1 DEF Import
        <5>2. CASE AddKey \/ DropLegacyKeys BY <5>2 DEF AddKey, DropLegacyKeys, history
        <5>3. CASE \E b \in Bot : DeleteBot(b) BY <5>3 DEF DeleteBot, history
        <5>4. CASE \E h \in Hook : DeleteHook(h) \/ \E b \in Bot \cup {None} : PatchHook(h, b)
          BY <5>4 DEF DeleteHook, PatchHook, history
        <5> QED BY <4>4, <5>1, <5>2, <5>3, <5>4 DEF AtOnce
      <4> QED BY <4>1, <4>2, <4>3, <4>4, NextSteps
    <3> QED BY <3>1 DEF AgreeInv
  <2> QED BY <2>1, <2>2
<1> QED BY <1>1, <1>2 DEF AgreeInv

LEMMA AgreeStarts == ResInit => AgreeInv
<1> SUFFICES ASSUME ResInit PROVE AgreeInv OBVIOUS
<1>1. RowsOf(bots) = {} /\ \A r \in Request : At(r, "none") BY IdleTyped DEF ResInit, RowsOf, InTable, At
<1>2. SeenStands BY <1>1 DEF SeenStands, At
<1>3. PlatformAgrees BY <1>1 DEF PlatformAgrees
<1>4. backup = None BY DEF ResInit
<1> QED BY <1>2, <1>3, <1>4 DEF AgreeInv

-----------------------------------------------------------------------------
(* The secrets.                                                            *)

LEMMA SecretsNow ==
    ASSUME ResTypes
    PROVE  /\ keys.current \in Key /\ Readable(keys.current) /\ Readable(None) /\ Readable(Raw)
           /\ keys.current \notin OlderKeys /\ None \notin OlderKeys /\ Raw \notin OlderKeys
           /\ \A s \in OlderKeys : Readable(s) => OnOlderKey(s)
           /\ \A row \in AccountRow \cup HookRow : row.enc \in Secret
           /\ \A row \in BotRow : row.wallet \in Secret
<1>1. keys.current \in Key /\ keys.current \in keys.known BY DEF ResTypes
<1> QED BY <1>1, Apart DEF Readable, OlderKeys, OnOlderKey, Reencrypt, AccountRow, BotRow, HookRow

(* The secrets of the next state, row by row.                              *)
AccountSecret(ok(_)) == \A a \in Account : accounts'[a] \in AccountRow /\ a \notin missed' => ok(accounts'[a].enc)
BotSecret(ok(_)) == \A b \in Bot : bots'[b] \in BotRow /\ b \notin missed' => ok(bots'[b].wallet)
HookSecret(ok(_)) == \A h \in Hook : hooks'[h] \in HookRow /\ h \notin missed' => ok(hooks'[h].enc)

LEMMA NextReadable ==
    ASSUME ResTypes'
    PROVE  SecretsReadable' <=>
             LET ok(s) == s \in keys'.known \cup {None, Raw}
             IN AccountSecret(ok) /\ BotSecret(ok) /\ HookSecret(ok)
<1>1. /\ RowsOf(accounts') = {a \in Account : accounts'[a] \in AccountRow}
      /\ RowsOf(bots') = {b \in Bot : bots'[b] \in BotRow}
      /\ RowsOf(hooks') = {h \in Hook : hooks'[h] \in HookRow}
  BY RowsIn DEF ResTypes
<1>2. SecretsReadable' <=>
        /\ \A a \in RowsOf(accounts') \ missed' : accounts'[a].enc \in keys'.known \cup {None, Raw}
        /\ \A b \in RowsOf(bots') \ missed' : bots'[b].wallet \in keys'.known \cup {None, Raw}
        /\ \A h \in RowsOf(hooks') \ missed' : hooks'[h].enc \in keys'.known \cup {None, Raw}
  BY DEF SecretsReadable, Readable, RowsOf, InTable
<1> QED BY <1>1, <1>2 DEF AccountSecret, BotSecret, HookSecret

LEMMA NextCurrent ==
    ASSUME ResTypes'
    PROVE  AllCurrent' <=>
             LET ok(s) == s \notin Key \ {keys'.current}
             IN AccountSecret(ok) /\ BotSecret(ok) /\ HookSecret(ok)
<1>1. /\ RowsOf(accounts') = {a \in Account : accounts'[a] \in AccountRow}
      /\ RowsOf(bots') = {b \in Bot : bots'[b] \in BotRow}
      /\ RowsOf(hooks') = {h \in Hook : hooks'[h] \in HookRow}
  BY RowsIn DEF ResTypes
<1>2. AllCurrent' <=>
        /\ \A a \in RowsOf(accounts') \ missed' : accounts'[a].enc \notin Key \ {keys'.current}
        /\ \A b \in RowsOf(bots') \ missed' : bots'[b].wallet \notin Key \ {keys'.current}
        /\ \A h \in RowsOf(hooks') \ missed' : hooks'[h].enc \notin Key \ {keys'.current}
  BY DEF AllCurrent, OlderKeys, RowsOf, InTable
<1> QED BY <1>1, <1>2 DEF AccountSecret, BotSecret, HookSecret

LEMMA CurrentSeen == ASSUME AllCurrent', NEW q \in Request PROVE SeenOld(req[q])'
BY DEF AllCurrent, SeenOld

(* Every secret of the next state is the one that was there, or is on the  *)
(* current key, or belongs to a row the properties leave out.              *)
SecretsStay ==
    /\ \A a \in Account : accounts'[a] \in AccountRow /\ a \notin missed' =>
          \/ accounts'[a].enc \in {None, Raw, keys.current}
          \/ accounts[a] \in AccountRow /\ accounts'[a].enc = accounts[a].enc
    /\ \A b \in Bot : bots'[b] \in BotRow /\ b \notin missed' =>
          \/ bots'[b].wallet \in {None, Raw, keys.current}
          \/ bots[b] \in BotRow /\ bots'[b].wallet = bots[b].wallet
    /\ \A h \in Hook : hooks'[h] \in HookRow /\ h \notin missed' =>
          \/ hooks'[h].enc \in {None, Raw, keys.current}
          \/ hooks[h] \in HookRow /\ hooks'[h].enc = hooks[h].enc

LEMMA StayReadable ==
    ASSUME ResBase, ResBase', SecretInv, keys' = keys, missed \subseteq missed', SecretsStay
    PROVE  SecretsReadable' /\ (AllCurrent => AllCurrent')
<1>1. /\ RowsOf(accounts) = {a \in Account : accounts[a] \in AccountRow}
      /\ RowsOf(bots) = {b \in Bot : bots[b] \in BotRow}
      /\ RowsOf(hooks) = {h \in Hook : hooks[h] \in HookRow}
  BY RowsIn DEF ResBase, ResTypes
<1>2. /\ Readable(keys.current) /\ Readable(None) /\ Readable(Raw)
      /\ keys.current \notin OlderKeys /\ None \notin OlderKeys /\ Raw \notin OlderKeys
  BY SecretsNow DEF ResBase
<1>3. SecretsReadable'
  <2>1. /\ \A a \in Account : accounts'[a] \in AccountRow /\ a \notin missed' => Readable(accounts'[a].enc)
        /\ \A b \in Bot : bots'[b] \in BotRow /\ b \notin missed' => Readable(bots'[b].wallet)
        /\ \A h \in Hook : hooks'[h] \in HookRow /\ h \notin missed' => Readable(hooks'[h].enc)
    BY <1>1, <1>2 DEF SecretsStay, SecretInv, SecretsReadable
  <2> QED BY <2>1, NextReadable DEF ResBase, AccountSecret, BotSecret, HookSecret, Readable
<1>4. ASSUME AllCurrent PROVE AllCurrent'
  <2>1. /\ \A a \in Account : accounts'[a] \in AccountRow /\ a \notin missed' => accounts'[a].enc \notin OlderKeys
        /\ \A b \in Bot : bots'[b] \in BotRow /\ b \notin missed' => bots'[b].wallet \notin OlderKeys
        /\ \A h \in Hook : hooks'[h] \in HookRow /\ h \notin missed' => hooks'[h].enc \notin OlderKeys
    BY <1>1, <1>2, <1>4 DEF SecretsStay, AllCurrent
  <2> QED BY <2>1, NextCurrent DEF ResBase, AccountSecret, BotSecret, HookSecret, OlderKeys
<1> QED BY <1>3, <1>4

(* What a rotation has seen on an older key, it still has seen so.         *)
LEMMA StaySeen ==
    ASSUME ResBase, ResBase', keys' = keys, missed \subseteq missed', SecretsStay,
           NEW q \in Request, At(q, "rotate"), SeenOld(req[q]), req'[q] = req[q]
    PROVE  SeenOld(req[q])'
<1>1. /\ RowsOf(accounts) = {a \in Account : accounts[a] \in AccountRow}
      /\ RowsOf(bots) = {b \in Bot : bots[b] \in BotRow}
      /\ RowsOf(hooks) = {h \in Hook : hooks[h] \in HookRow}
      /\ RowsOf(accounts') = {a \in Account : accounts'[a] \in AccountRow}
      /\ RowsOf(bots') = {b \in Bot : bots'[b] \in BotRow}
      /\ RowsOf(hooks') = {h \in Hook : hooks'[h] \in HookRow}
  BY RowsIn DEF ResBase, ResTypes
<1>2. keys.current \notin OlderKeys /\ None \notin OlderKeys /\ Raw \notin OlderKeys BY SecretsNow DEF ResBase
<1>3. \A a \in RowsOf(accounts') \ missed' : accounts'[a].enc \in OlderKeys =>
         a \in RowsOf(req[q].accounts) /\ OnOlderKey(req[q].accounts[a].enc)
  BY <1>1, <1>2 DEF SecretsStay, SeenOld
<1>4. \A b \in RowsOf(bots') \ missed' : bots'[b].wallet \in OlderKeys =>
         b \in RowsOf(req[q].bots) /\ OnOlderKey(req[q].bots[b].wallet)
  BY <1>1, <1>2 DEF SecretsStay, SeenOld
<1>5. \A h \in RowsOf(hooks') \ missed' : hooks'[h].enc \in OlderKeys =>
         h \in RowsOf(req[q].hooks) /\ OnOlderKey(req[q].hooks[h].enc)
  BY <1>1, <1>2 DEF SecretsStay, SeenOld
<1> QED BY <1>3, <1>4, <1>5 DEF SeenOld, RowsOf, InTable, OnOlderKey, Reencrypt, Readable, OlderKeys

LEMMA StaySecret ==
    ASSUME ResBase, ResBase', SecretInv, keys' = keys, rotated' => rotated, missed \subseteq missed', SecretsStay,
           \A q \in Request : req'[q].at = "rotate" => req'[q] = req[q]
    PROVE  SecretInv'
<1>1. SecretsReadable' /\ (AllCurrent => AllCurrent') BY StayReadable
<1>2. ASSUME NEW q \in Request, At(q, "rotate")' PROVE SeenOld(req[q])'
  <2>1. req'[q] = req[q] BY <1>2 DEF At
  <2>2. At(q, "rotate") /\ SeenOld(req[q]) BY <1>2, <2>1 DEF At, SecretInv
  <2> QED BY <2>1, <2>2, StaySeen
<1> QED BY <1>1, <1>2 DEF SecretInv

LEMMA QuietSecret ==
    ASSUME ResBase, ResBase', SecretInv, NEW r \in Request, NEW p, Quietly(r, p), ReadsNow(r, p)
    PROVE  SecretInv'
<1>1. /\ req'[r] = p /\ \A q \in Request \ {r} : req'[q] = req[q]
      /\ UNCHANGED <<accounts, bots, hooks, keys, missed, rotated>>
  BY Going DEF ResBase, Quietly, tables, history
<1>2. SecretsStay BY <1>1 DEF SecretsStay
<1>3. CASE p.at # "rotate" BY <1>1, <1>2, <1>3, StaySecret
<1>4. CASE p.at = "rotate"
  <2>1. SecretsReadable' /\ (AllCurrent => AllCurrent') BY <1>1, <1>2, StayReadable
  <2>2. ASSUME NEW q \in Request \ {r}, At(q, "rotate")' PROVE SeenOld(req[q])'
    <3>1. req'[q] = req[q] BY <1>1
    <3>2. At(q, "rotate") /\ SeenOld(req[q]) BY <2>2, <3>1 DEF At, SecretInv
    <3> QED BY <1>1, <1>2, <3>1, <3>2, StaySeen
  <2>3. SeenOld(req[r])'
    <3>1. p.accounts = accounts /\ p.bots = bots /\ p.hooks = hooks BY <1>4 DEF ReadsNow
    <3>2. \A s \in OlderKeys : Readable(s) => OnOlderKey(s) BY SecretsNow DEF ResBase
    <3>3. SeenOld(p) BY <3>1, <3>2 DEF SeenOld, SecretInv, SecretsReadable
    <3> QED BY <1>1, <3>3 DEF SeenOld, RowsOf, InTable, OnOlderKey, Reencrypt, Readable, OlderKeys
  <2> QED BY <1>1, <2>1, <2>2, <2>3 DEF SecretInv
<1> QED BY <1>3, <1>4

LEMMA WritesSecret ==
    ASSUME ResBase, ResBase', SecretInv, NEW r \in Request, Writes(r), ~InsertBot(r), ~RotationWrites(r)
    PROVE  SecretInv'
<1>1. CASE Quietly(r, Idle)
  <2>1. ReadsNow(r, Idle) BY IdleTyped DEF ReadsNow
  <2> QED BY <1>1, <2>1, QuietSecret
<1>2. CASE ~Quietly(r, Idle)
  <2>1. Finish(r) /\ keys' = keys /\ rotated' = rotated
    BY <1>2, InsertHookDoes
    DEF Writes, InsertAccount, PatchAccount, DeleteAccount, PatchBot, ExportBots, history
  <2>2. \A q \in Request : req'[q].at = "rotate" => req'[q] = req[q] BY <2>1, FinishStays
  <2>3. missed \subseteq missed' /\ SecretsStay
    <3>1. CASE InsertAccount(r)
      <4>1. UNCHANGED <<bots, hooks, missed>> BY <3>1 DEF InsertAccount, history
      <4>2. PICK a \in Account, row \in AccountRow : accounts' = [accounts EXCEPT ![a] = row] /\ row.enc \in {None, keys.current}
        BY <3>1, InsertAccountDoes
      <4>3. accounts'[a].enc \in {None, keys.current} /\ \A c \in Account \ {a} : accounts'[c] = accounts[c]
        BY <4>2 DEF ResBase, ResTypes, AccountReads
      <4> QED BY <4>1, <4>3 DEF SecretsStay
    <3>2. CASE PatchAccount(r)
      <4>1. UNCHANGED <<bots, hooks, missed>> BY <3>2 DEF PatchAccount
      <4>2. \A c \in Account :
               accounts'[c] = accounts[c] \/ (accounts'[c] \in AccountRow /\ accounts'[c].enc = keys.current)
        <5> DEFINE a == req[r].acc
        <5>1. /\ a \in Account
              /\ \/ UNCHANGED accounts
                 \/ \E row \in AccountRow : accounts' = [accounts EXCEPT ![a] = row] /\ row.enc = keys.current
          BY <3>2, PatchAccountDoes
        <5> HIDE DEF a
        <5>2. CASE accounts' = accounts BY <5>2
        <5>3. CASE accounts' # accounts
          <6>1. PICK row \in AccountRow : accounts' = [accounts EXCEPT ![a] = row] /\ row.enc = keys.current
            BY <5>1, <5>3
          <6>2. accounts'[a] = row /\ \A c \in Account \ {a} : accounts'[c] = accounts[c]
            BY <5>1, <6>1 DEF ResBase, ResTypes, AccountReads
          <6> QED BY <6>1, <6>2
        <5> QED BY <5>2, <5>3
      <4> QED BY <4>1, <4>2 DEF SecretsStay
    <3>3. CASE DeleteAccount(r)
      <4>1. missed' = missed BY <3>3 DEF DeleteAccount, history
      <4>2. CASE UNCHANGED tables BY <4>1, <4>2 DEF SecretsStay, tables
      <4>3. CASE ~ UNCHANGED tables
        <5>1. /\ accounts' = [accounts EXCEPT ![req[r].acc] = Gone] /\ req[r].acc \in Account
              /\ WithoutBots(BotsOf(req[r].acc)) /\ BotsOf(req[r].acc) \in SUBSET Bot
          BY <3>3, <4>3, DeleteAccountDoes
        <5>2. \A a \in Account : accounts'[a] = accounts[a] \/ accounts'[a] = Gone
          BY <5>1 DEF ResBase, ResTypes, AccountReads
        <5>3. /\ \A b \in Bot : bots'[b] = bots[b] \/ bots'[b] = Gone
              /\ \A h \in Hook : hooks'[h] = hooks[h] \/ (hooks[h] \in HookRow /\ hooks'[h].enc = hooks[h].enc)
          BY <5>1, GoneTyped
        <5> QED BY <4>1, <5>2, <5>3, Apart DEF SecretsStay
      <4> QED BY <4>2, <4>3
    <3>4. CASE PatchBot(r)
      <4>1. UNCHANGED <<accounts, hooks>> BY <3>4 DEF PatchBot
      <4>2. CASE UNCHANGED <<bots, missed>> BY <4>1, <4>2 DEF SecretsStay
      <4>3. CASE ~ UNCHANGED <<bots, missed>>
        <5> DEFINE b == req[r].bot  w == PreserveWalletKey(req[r].stored, req[r].sent)
        <5>1. /\ b \in Bot /\ req[r].stored \in Secret /\ req[r].sent \in Sent /\ bots[b] \in BotRow
              /\ \E row \in BotRow : bots' = [bots EXCEPT ![b] = row] /\ row.wallet = w
              /\ missed' = IF w \in OlderKeys /\ bots[b].wallet # w THEN missed \cup {b} ELSE missed
          BY <3>4, <4>3, PatchBotDoes
        <5>2. w \in OlderKeys \cup {None, keys.current}
          BY <5>1, SecretTyped, SecretsNow, Apart
          DEF PreserveWalletKey, Sent, EnsureEncrypted, OlderKeys, ResBase
        <5> HIDE DEF w, b
        <5>3. bots'[b].wallet = w /\ \A c \in Bot \ {b} : bots'[c] = bots[c]
          BY <5>1 DEF ResBase, ResTypes, BotReads
        <5> QED BY <4>1, <5>1, <5>2, <5>3 DEF SecretsStay
      <4> QED BY <4>2, <4>3
    <3>5. CASE InsertHook(r)
      <4>1. UNCHANGED <<accounts, bots, missed>> BY <1>2, <3>5, InsertHookDoes DEF history
      <4>2. PICK h \in Hook, row \in HookRow : hooks' = [hooks EXCEPT ![h] = row] /\ row.enc = keys.current
        BY <1>2, <3>5, InsertHookDoes
      <4> QED BY <4>1, <4>2 DEF SecretsStay, ResBase, ResTypes, HookReads
    <3>6. CASE ExportBots(r) BY <3>6 DEF ExportBots, tables, SecretsStay
    <3> QED BY <3>1, <3>2, <3>3, <3>4, <3>5, <3>6 DEF Writes
  <2> QED BY <2>1, <2>2, <2>3, StaySecret
<1> QED BY <1>1, <1>2

LEMMA InsertBotSecret ==
    ASSUME ResBase, ResBase', SecretInv, NEW r \in Request, InsertBot(r) PROVE SecretInv'
<1>1. CASE Quietly(r, Idle)
  <2>1. ReadsNow(r, Idle) BY IdleTyped DEF ReadsNow
  <2> QED BY <1>1, <2>1, QuietSecret
<1>2. CASE ~Quietly(r, Idle)
  <2> DEFINE rs == [req EXCEPT ![r] = Idle]
  <2>1. req' = MarkLate(rs) /\ UNCHANGED <<accounts, hooks, keys, rotated, missed>> BY <1>2, InsertBotDoes
  <2>2. PICK b \in Bot, row \in BotRow : bots' = [bots EXCEPT ![b] = row] /\ row.wallet \in {None, keys.current}
    BY <1>2, InsertBotDoes
  <2>3. \A q \in Request : ReqTyped(rs[q]) BY IdleTyped DEF ResBase, ResTypes
  <2>4. rs[r].at = "none" /\ \A q \in Request \ {r} : rs[q] = req[q] BY IdleTyped DEF ResBase, ResTypes
  <2> HIDE DEF rs
  <2>5. \A q \in Request : /\ req'[q].at = rs[q].at
                           /\ rs[q].at \notin {"patchAccount", "deleteAccount"} => req'[q] = rs[q]
    <3>1. req' = MarkLate(rs) BY <2>1
    <3> QED BY <2>3, <3>1, Marked
  <2>6. \A q \in Request : req'[q].at = "rotate" => req'[q] = req[q]
    <3> SUFFICES ASSUME NEW q \in Request, req'[q].at = "rotate" PROVE req'[q] = req[q] OBVIOUS
    <3>1. rs[q].at = "rotate" /\ req'[q] = rs[q] BY <2>5
    <3>2. q # r BY <2>4, <3>1
    <3> QED BY <2>4, <3>1, <3>2
  <2>7. SecretsStay BY <2>1, <2>2 DEF SecretsStay, ResBase, ResTypes, BotReads
  <2> QED BY <2>1, <2>6, <2>7, StaySecret
<1> QED BY <1>1, <1>2

LEMMA RotationSecret ==
    ASSUME ResBase, ResBase', SecretInv, NEW r \in Request, RotationWrites(r) PROVE SecretInv'
<1>1. CASE Quietly(r, Idle)
  <2>1. ReadsNow(r, Idle) BY IdleTyped DEF ReadsNow
  <2> QED BY <1>1, <2>1, QuietSecret
<1>2. CASE ~Quietly(r, Idle)
  <2>1. /\ keys' = keys /\ missed \subseteq missed'
        /\ \A a \in Account :
              IF a \in RowsOf(req[r].accounts) /\ OnOlderKey(req[r].accounts[a].enc)
              THEN accounts'[a].enc = keys.current ELSE accounts'[a] = accounts[a]
        /\ \A b \in Bot :
              IF b \in RowsOf(req[r].bots) /\ OnOlderKey(req[r].bots[b].wallet)
              THEN bots'[b].wallet = keys.current ELSE bots'[b] = bots[b]
        /\ \A h \in Hook :
              IF h \in RowsOf(req[r].hooks) /\ OnOlderKey(req[r].hooks[h].enc)
              THEN \/ h \in missed'
                   \/ hooks[h] \in HookRow /\ hooks'[h].enc = Reencrypt(hooks[h].enc)
              ELSE hooks'[h] = hooks[h]
    BY <1>2, RotationWritesDoes
  <2>2. SeenOld(req[r]) BY DEF RotationWrites, SecretInv
  <2>3. /\ RowsOf(accounts) = {a \in Account : accounts[a] \in AccountRow}
        /\ RowsOf(bots) = {b \in Bot : bots[b] \in BotRow}
        /\ RowsOf(hooks) = {h \in Hook : hooks[h] \in HookRow}
    BY RowsIn DEF ResBase, ResTypes
  <2>4. /\ Readable(keys.current) /\ Readable(None)
        /\ keys.current \notin OlderKeys /\ None \notin OlderKeys
    BY SecretsNow DEF ResBase
  <2>5. \A h \in Hook : hooks[h] \in HookRow /\ h \notin missed' => Reencrypt(hooks[h].enc) \in {None, keys.current}
    BY <2>1, <2>3 DEF SecretInv, SecretsReadable, Reencrypt
  <2>6. AllCurrent'
    <3>1. \A a \in Account : accounts'[a] \in AccountRow /\ a \notin missed' => accounts'[a].enc \notin OlderKeys
      BY <2>1, <2>2, <2>3, <2>4 DEF SeenOld
    <3>2. \A b \in Bot : bots'[b] \in BotRow /\ b \notin missed' => bots'[b].wallet \notin OlderKeys
      BY <2>1, <2>2, <2>3, <2>4 DEF SeenOld
    <3>3. \A h \in Hook : hooks'[h] \in HookRow /\ h \notin missed' => hooks'[h].enc \notin OlderKeys
      BY <2>1, <2>2, <2>3, <2>4, <2>5 DEF SeenOld
    <3> QED BY <2>1, <3>1, <3>2, <3>3, NextCurrent DEF ResBase, AccountSecret, BotSecret, HookSecret, OlderKeys
  <2>7. SecretsReadable'
    <3>1. \A a \in Account : accounts'[a] \in AccountRow /\ a \notin missed' => Readable(accounts'[a].enc)
      BY <2>1, <2>3, <2>4 DEF SecretInv, SecretsReadable
    <3>2. \A b \in Bot : bots'[b] \in BotRow /\ b \notin missed' => Readable(bots'[b].wallet)
      BY <2>1, <2>3, <2>4 DEF SecretInv, SecretsReadable
    <3>3. \A h \in Hook : hooks'[h] \in HookRow /\ h \notin missed' => Readable(hooks'[h].enc)
      BY <2>1, <2>3, <2>4, <2>5 DEF SecretInv, SecretsReadable
    <3> QED BY <2>1, <3>1, <3>2, <3>3, NextReadable DEF ResBase, AccountSecret, BotSecret, HookSecret, Readable
  <2> QED BY <2>6, <2>7, CurrentSeen DEF SecretInv
<1> QED BY <1>1, <1>2

LEMMA ImportSecret == ASSUME ResBase, ResBase', SecretInv, Import PROVE SecretInv'
<1>1. req' = MarkLate(req) /\ UNCHANGED <<hooks, keys, rotated>> BY DEF Import
<1>2. PICK am \in [Account -> Account] :
         /\ backup \in Export /\ missed \subseteq missed'
         /\ \A x \in Account : ImportedAccount(x)
         /\ \A x \in Bot : ImportedBot(x, am)
  BY ImportDoes
<1>3. \A q \in Request : req'[q].at = "rotate" => req'[q] = req[q]
  <2>1. \A q \in Request : ReqTyped(req[q]) BY DEF ResBase, ResTypes
  <2> QED BY <1>1, <2>1, Marked
<1>4. ASSUME NEW x \in Account, accounts'[x] \in AccountRow, x \notin missed'
      PROVE  \/ accounts'[x].enc \in {None, Raw, keys.current}
             \/ accounts[x] \in AccountRow /\ accounts'[x].enc = accounts[x].enc
  <2>1. CASE accounts'[x] = accounts[x] BY <1>4, <2>1
  <2>2. CASE accounts'[x] # accounts[x]
    <3>1. PICK a \in RowsOf(backup.accounts) :
             /\ accounts'[x].enc = EnsureEncrypted(backup.accounts[a].enc)
             /\ backup.accounts[a].enc \in OlderKeys => x \in missed'
      BY <1>2, <2>2 DEF ImportedAccount
    <3> QED BY <1>4, <3>1 DEF EnsureEncrypted, OlderKeys
  <2> QED BY <2>1, <2>2
<1>5. ASSUME NEW x \in Bot, bots'[x] \in BotRow, x \notin missed'
      PROVE  \/ bots'[x].wallet \in {None, Raw, keys.current}
             \/ bots[x] \in BotRow /\ bots'[x].wallet = bots[x].wallet
  <2>1. CASE bots'[x] = bots[x] BY <1>5, <2>1
  <2>2. CASE bots'[x] # bots[x]
    <3>1. PICK row \in BotRow, k \in RowsOf(backup.bots) :
             /\ bots'[x] = row /\ row.wallet = backup.bots[k].wallet
             /\ backup.bots[k].wallet \in OlderKeys => x \in missed'
      BY <1>2, <2>2 DEF ImportedBot
    <3>2. row.wallet \in Secret BY DEF BotRow
    <3> QED BY <1>5, <3>1, <3>2 DEF Secret, OlderKeys
  <2> QED BY <2>1, <2>2
<1>6. SecretsStay BY <1>1, <1>4, <1>5 DEF SecretsStay
<1> QED BY <1>1, <1>2, <1>3, <1>6, StaySecret

LEMMA KeysSecret == ASSUME ResBase, ResBase', SecretInv, AddKey \/ DropLegacyKeys PROVE SecretInv'
<1>1. UNCHANGED <<accounts, bots, hooks, missed>> /\ \A q \in Request : req'[q].at # "rotate"
  BY IdleTyped DEF AddKey, DropLegacyKeys, tables, history
<1>2. /\ RowsOf(accounts) = {a \in Account : accounts[a] \in AccountRow}
      /\ RowsOf(bots) = {b \in Bot : bots[b] \in BotRow}
      /\ RowsOf(hooks) = {h \in Hook : hooks[h] \in HookRow}
  BY RowsIn DEF ResBase, ResTypes
<1>3. CASE AddKey
  <2>1. keys.known \subseteq keys'.known /\ rotated' = FALSE BY <1>3 DEF AddKey
  <2>2. SecretsReadable'
    BY <1>1, <1>2, <2>1, NextReadable
    DEF ResBase, SecretInv, SecretsReadable, Readable, AccountSecret, BotSecret, HookSecret
  <2> QED BY <1>1, <2>1, <2>2 DEF SecretInv, At
<1>4. CASE DropLegacyKeys
  <2>1. AllCurrent /\ keys'.current = keys.current /\ keys'.known = {keys.current}
    BY <1>4 DEF DropLegacyKeys, SecretInv, ResBase, ResTypes
  <2>2. \A s \in Secret : s \notin OlderKeys => s \in keys'.known \cup {None, Raw}
    BY <2>1 DEF Secret, OlderKeys
  <2>3. /\ \A row \in AccountRow \cup HookRow : row.enc \in Secret
        /\ \A row \in BotRow : row.wallet \in Secret
    BY SecretsNow DEF ResBase
  <2>4. SecretsReadable'
    BY <1>1, <1>2, <2>1, <2>2, <2>3, NextReadable
    DEF ResBase, AllCurrent, AccountSecret, BotSecret, HookSecret
  <2>5. AllCurrent'
    BY <1>1, <1>2, <2>1, NextCurrent
    DEF ResBase, AllCurrent, OlderKeys, AccountSecret, BotSecret, HookSecret
  <2> QED BY <1>1, <2>4, <2>5 DEF SecretInv, At
<1> QED BY <1>3, <1>4

LEMMA AtOnceSecret == ASSUME ResBase, ResBase', SecretInv, AtOnce PROVE SecretInv'
<1>1. ASSUME NEW b \in Bot, DeleteBot(b) PROVE SecretInv'
  <2>1. WithoutBots({b}) /\ UNCHANGED <<accounts, req, keys, missed, rotated>> BY <1>1 DEF DeleteBot, history
  <2>2. /\ \A c \in Bot : bots'[c] = bots[c] \/ bots'[c] = Gone
        /\ \A h \in Hook : hooks'[h] = hooks[h] \/ (hooks[h] \in HookRow /\ hooks'[h].enc = hooks[h].enc)
    BY <2>1, GoneTyped
  <2>3. SecretsStay BY <2>1, <2>2, Apart DEF SecretsStay
  <2> QED BY <2>1, <2>3, StaySecret
<1>2. ASSUME NEW h \in Hook, DeleteHook(h) \/ \E b \in Bot \cup {None} : PatchHook(h, b) PROVE SecretInv'
  <2>1. UNCHANGED <<accounts, bots, req, keys, missed, rotated>> BY <1>2 DEF DeleteHook, PatchHook, history
  <2>2. \/ hooks' = [hooks EXCEPT ![h] = Gone]
        \/ \E row \in HookRow : /\ hooks[h] \in HookRow /\ hooks' = [hooks EXCEPT ![h] = row]
                                /\ row.enc = hooks[h].enc
    BY <1>2, PatchHookDoes DEF DeleteHook
  <2>3. SecretsStay BY <2>1, <2>2, Apart DEF SecretsStay, ResBase, ResTypes, HookReads
  <2> QED BY <2>1, <2>3, StaySecret
<1> QED BY <1>1, <1>2, ImportSecret, KeysSecret DEF AtOnce

LEMMA SecretSteps == ResBase /\ ResBase' /\ SecretInv /\ [ResNext]_resVars => SecretInv'
<1> SUFFICES ASSUME ResBase, ResBase', SecretInv, [ResNext]_resVars PROVE SecretInv' OBVIOUS
<1>1. CASE UNCHANGED resVars BY <1>1, StaySecret DEF resVars, SecretsStay
<1>2. ASSUME NEW r \in Request, Asks(r) PROVE SecretInv' BY <1>2, AsksDo, QuietSecret
<1>3. ASSUME NEW r \in Request, Writes(r) PROVE SecretInv'
  BY <1>3, WritesSecret, InsertBotSecret, RotationSecret
<1> QED BY <1>1, <1>2, <1>3, AtOnceSecret, NextSteps

LEMMA SecretStarts == ResInit => SecretInv
<1> SUFFICES ASSUME ResInit PROVE SecretInv OBVIOUS
<1>1. /\ RowsOf(bots) = {} /\ RowsOf(hooks) = {} /\ ~rotated /\ \A r \in Request : ~At(r, "rotate")
  BY IdleTyped DEF ResInit, RowsOf, InTable, At
<1>2. \A a \in RowsOf(accounts) : Readable(accounts[a].enc)
  BY DEF ResInit, RowsOf, InTable, Readable
<1> QED BY <1>1, <1>2 DEF SecretInv, SecretsReadable

-----------------------------------------------------------------------------
(* The rows of bots.                                                       *)

(* What a step may do to the row of a bot.                                 *)
Kept(b) == bots'[b] \in BotRow /\ (bots'[b].wallet = bots[b].wallet \/ bots'[b].wallet # None)
Removed(b) == bots' = [bots EXCEPT ![b] = Gone] /\ accounts' = accounts
LateDelete == \E r \in Request : At(r, "deleteAccount") /\ req[r].late
Unpatched == \E r \in Request : \/ At(r, "patchBot") /\ req[r].sent = "no wallet"
                                \/ At(r, "patchBot") /\ req[r].stored = None
Restored(b) == /\ backup # None /\ \A r \in Request : req'[r].at = req[r].at
               /\ \E x \in RowsOf(backup.bots) : /\ backup.bots[x].name = bots[b].name
                                                 /\ backup.bots[x].wallet = None
Answered(b) ==
    \/ Kept(b)
    \/ bots'[b] = Gone /\ (Removed(b) \/ LateDelete)
    \/ bots'[b] \in BotRow /\ (Unpatched \/ Restored(b))

LEMMA RowAnswers ==
    ASSUME ResBase, SeenStands, [ResNext]_resVars, NEW b \in Bot, bots[b] \in BotRow
    PROVE  Answered(b)
<1>1. CASE bots' = bots BY <1>1 DEF Answered, Kept
<1>2. ASSUME NEW r \in Request, InsertBot(r) PROVE Answered(b)
  <2>1. CASE Quietly(r, Idle) BY <1>1, <2>1 DEF Quietly, tables
  <2>2. CASE ~Quietly(r, Idle)
    <3>1. \E c \in Bot, row \in BotRow : bots[c] = None /\ bots' = [bots EXCEPT ![c] = row]
      BY <1>2, <2>2, InsertBotDoes
    <3>2. bots'[b] = bots[b] BY <3>1, Apart DEF ResBase, ResTypes, BotReads
    <3> QED BY <3>2 DEF Answered, Kept
  <2> QED BY <2>1, <2>2
<1>3. ASSUME NEW r \in Request, DeleteAccount(r) PROVE Answered(b)
  <2>1. CASE UNCHANGED tables BY <1>1, <2>1 DEF tables
  <2>2. CASE ~ UNCHANGED tables
    <3>1. WithoutBots(BotsOf(req[r].acc)) /\ BotsOf(req[r].acc) \in SUBSET Bot
      BY <1>3, <2>2, DeleteAccountDoes
    <3>2. bots'[b] = IF b \in BotsOf(req[r].acc) THEN Gone ELSE bots[b] BY <3>1, GoneTyped
    <3>3. CASE b \notin BotsOf(req[r].acc) BY <3>2, <3>3 DEF Answered, Kept
    <3>4. CASE b \in BotsOf(req[r].acc)
      <4>1. At(r, "deleteAccount") BY <1>3 DEF DeleteAccount
      <4>2. req[r] \in DeleteReq BY <4>1 DEF At, ResBase, ResTypes, ReqTyped
      <4>3. req[r].late BY <3>4, <4>1, <4>2 DEF SeenStands, DeleteReq
      <4> QED BY <3>2, <3>4, <4>1, <4>3 DEF Answered, LateDelete
    <3> QED BY <3>3, <3>4
  <2> QED BY <2>1, <2>2
<1>4. ASSUME NEW r \in Request, PatchBot(r) PROVE Answered(b)
  <2> DEFINE c == req[r].bot  w == PreserveWalletKey(req[r].stored, req[r].sent)
  <2>1. CASE bots' = bots BY <1>1, <2>1
  <2>2. CASE bots' # bots
    <3>1. /\ c \in Bot /\ req[r].stored \in Secret /\ req[r].sent \in Sent
          /\ \E row \in BotRow : bots' = [bots EXCEPT ![c] = row] /\ row.wallet = w
      BY <1>4, <2>2, PatchBotDoes
    <3>2. CASE b # c
      <4>1. bots'[b] = bots[b] BY <3>1, <3>2 DEF ResBase, ResTypes, BotReads
      <4> QED BY <4>1 DEF Answered, Kept
    <3>3. CASE b = c
      <4>1. w = None => req[r].sent = "no wallet" \/ req[r].stored = None
        <5>1. EnsureEncrypted(Raw) # None /\ (EnsureEncrypted(req[r].stored) = None => req[r].stored = None)
          BY <3>1, SecretTyped, Apart DEF ResBase, Secret
        <5> QED BY <3>1, <5>1 DEF PreserveWalletKey, Sent
      <4>2. At(r, "patchBot") BY <1>4 DEF PatchBot
      <4> HIDE DEF c, w
      <4>3. bots'[b] \in BotRow /\ bots'[b].wallet = w BY <3>1, <3>3 DEF ResBase, ResTypes, BotReads
      <4> QED BY <4>1, <4>2, <4>3 DEF Answered, Kept, Unpatched
    <3> QED BY <3>2, <3>3
  <2> QED BY <2>1, <2>2
<1>5. ASSUME NEW r \in Request, RotationWrites(r) PROVE Answered(b)
  <2>1. CASE Quietly(r, Idle) BY <1>1, <2>1 DEF Quietly, tables
  <2>2. CASE ~Quietly(r, Idle)
    <3>1. \/ bots'[b] = bots[b]
          \/ bots'[b] \in BotRow /\ bots'[b].wallet = keys.current
      BY <1>5, <2>2, RotationWritesDoes
    <3>2. keys.current # None BY Apart DEF ResBase, ResTypes
    <3> QED BY <3>1, <3>2 DEF Answered, Kept
  <2> QED BY <2>1, <2>2
<1>6. ASSUME NEW c \in Bot, DeleteBot(c) PROVE Answered(b)
  <2>1. WithoutBots({c}) /\ accounts' = accounts BY <1>6 DEF DeleteBot
  <2>2. bots'[b] = IF b = c THEN Gone ELSE bots[b] BY <2>1, GoneTyped
  <2>3. bots' = [bots EXCEPT ![c] = Gone]
    <3>1. bots' = [x \in Bot |-> IF x \in {c} THEN Gone ELSE bots[x]] BY <2>1 DEF WithoutBots
    <3> QED BY <3>1 DEF ResBase, ResTypes, BotReads
  <2> QED BY <2>1, <2>2, <2>3 DEF Answered, Kept, Removed
<1>7. CASE Import
  <2>1. req' = MarkLate(req) /\ backup # None /\ \A q \in Request : ReqTyped(req[q])
    BY <1>7 DEF Import, ResBase, ResTypes
  <2>2. \A q \in Request : req'[q].at = req[q].at BY <2>1, Marked
  <2>3. CASE bots'[b] = bots[b] BY <2>3 DEF Answered, Kept
  <2>4. CASE bots'[b] # bots[b]
    <3>1. PICK row \in BotRow, k \in RowsOf(backup.bots) :
             /\ bots'[b] = row /\ row.wallet = backup.bots[k].wallet
             /\ bots[b].name = backup.bots[k].name
      BY <1>7, <2>4, ImportDoes, Apart DEF ImportedBot
    <3> QED BY <2>1, <2>2, <3>1 DEF Answered, Kept, Restored
  <2> QED BY <2>3, <2>4
<1>8. CASE \E r \in Request : Asks(r)
  <2>1. bots' = bots BY <1>8, AsksDo DEF Quietly, tables
  <2> QED BY <1>1, <2>1
<1>9. CASE \E r \in Request : InsertAccount(r) \/ PatchAccount(r) \/ InsertHook(r) \/ ExportBots(r)
  <2>1. bots' = bots
    BY <1>9, InsertHookDoes DEF InsertAccount, PatchAccount, ExportBots, Quietly, tables
  <2> QED BY <1>1, <2>1
<1>10. CASE \E h \in Hook : DeleteHook(h) \/ \E c \in Bot \cup {None} : PatchHook(h, c)
  <2>1. bots' = bots BY <1>10 DEF DeleteHook, PatchHook
  <2> QED BY <1>1, <2>1
<1>11. CASE AddKey \/ DropLegacyKeys BY <1>1, <1>11 DEF AddKey, DropLegacyKeys, tables
<1>12. CASE UNCHANGED resVars BY <1>1, <1>12 DEF resVars
<1> QED BY <1>2, <1>3, <1>4, <1>5, <1>6, <1>7, <1>8, <1>9, <1>10, <1>11, <1>12, NextSteps
        DEF Writes, AtOnce

(* The steps that take a bot, or the key of its wallet, away.              *)
OutlivesStep ==
    \A b \in RowsOf(bots) : ~InTable(bots, b)' =>
        \/ bots' = [bots EXCEPT ![b] = Gone] /\ accounts' = accounts
        \/ \E r \in Request : At(r, "deleteAccount") /\ req[r].late
WalletStep ==
    \A b \in RowsOf(bots) :
        bots[b].wallet # None /\ InTable(bots, b)' /\ bots'[b].wallet = None =>
           \/ /\ backup # None /\ \A r \in Request : req'[r].at = req[r].at
              /\ \E x \in RowsOf(backup.bots) : /\ backup.bots[x].name = bots[b].name
                                                /\ backup.bots[x].wallet = None
           \/ \E r \in Request : \/ At(r, "patchBot") /\ req[r].sent = "no wallet"
                                 \/ At(r, "patchBot") /\ req[r].stored = None

LEMMA RowSteps ==
    ASSUME ResBase, ResBase', SeenStands, [ResNext]_resVars
    PROVE  OutlivesStep /\ WalletStep
<1>1. RowsOf(bots) = {b \in Bot : bots[b] \in BotRow} BY RowsIn DEF ResBase, ResTypes
<1>2. \A b \in Bot : InTable(bots, b)' <=> bots'[b] \in BotRow
  <2>1. \A b \in Bot : InTable(bots', b) <=> bots'[b] \in BotRow BY RowsIn DEF ResBase, ResTypes
  <2> QED BY <2>1 DEF InTable
<1>3. \A b \in Bot : bots[b] \in BotRow => Answered(b) BY RowAnswers
<1>4. OutlivesStep BY <1>1, <1>2, <1>3 DEF OutlivesStep, Answered, Kept, Removed, LateDelete
<1>5. WalletStep
  BY <1>1, <1>2, <1>3, Apart DEF WalletStep, Answered, Kept, Unpatched, Restored
<1> QED BY <1>4, <1>5

-----------------------------------------------------------------------------
(* The theorems.                                                           *)

LEMMA ResInvHolds == ResSpec => [](ResBase /\ AgreeInv /\ SecretInv /\ QuotaBound)
<1>1. ResInit => ResBase /\ AgreeInv /\ SecretInv /\ QuotaBound
  BY BaseStarts, AgreeStarts, SecretStarts, QuotaStarts
<1>2. ResBase /\ AgreeInv /\ SecretInv /\ QuotaBound /\ [ResNext]_resVars
        => (ResBase /\ AgreeInv /\ SecretInv /\ QuotaBound)'
  BY BaseSteps, AgreeSteps, SecretSteps, QuotaSteps
<1> QED BY <1>1, <1>2, PTL DEF ResSpec

(* Imports aside, the bots there are and the creates that were allowed     *)
(* never exceed the quota by more than the requests side by side, less     *)
(* one, however many requests there are and however they overtake each     *)
(* other (the route counts and inserts in separate calls).                 *)
THEOREM QuotasHold == ResSpec => []QuotaBound
BY ResInvHolds, PTL

(* A bot is on its account's platform unless a write was overtaken.        *)
THEOREM PlatformsAgree == ResSpec => []PlatformAgrees
<1>1. AgreeInv => PlatformAgrees BY DEF AgreeInv
<1> QED BY <1>1, ResInvHolds, PTL

(* Dropping the older keys after a rotation leaves every secret readable.  *)
THEOREM SecretsStayReadable == ResSpec => []SecretsReadable
<1>1. SecretInv => SecretsReadable BY DEF SecretInv
<1> QED BY <1>1, ResInvHolds, PTL

(* No request takes more of a bot away than its client asked for.          *)
THEOREM BotRowsAreKept == ResSpec => BotRowsKept
<1>1. ResBase /\ AgreeInv /\ ResBase' /\ [ResNext]_resVars => [OutlivesStep]_resVars /\ [WalletStep]_resVars
  BY RowSteps DEF AgreeInv
<1>2. ResSpec => [][OutlivesStep]_resVars /\ [][WalletStep]_resVars
  BY <1>1, ResInvHolds, PTL DEF ResSpec
<1> QED BY <1>2 DEF BotRowsKept, BotsOutliveRequests, WalletKept, OutlivesStep, WalletStep

=============================================================================
