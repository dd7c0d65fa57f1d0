-------------------------------- MODULE Sessions --------------------------------
(***************************************************************************)
(* Users, sessions and invitations of the API.  A request runs its checks  *)
(* and its writes in separate database calls, so requests interleave       *)
(* between them; a raw UPDATE or DELETE evaluates its sub-select on the    *)
(* snapshot it started with (PostgreSQL's default READ COMMITTED).         *)
(*                                                                         *)
(* An email stands for the user that registers it and is not registered    *)
(* again once that user is deleted, nor is a revoked invite's id given to  *)
(* another.  A password is its version number.                             *)
(***************************************************************************)
EXTENDS Integers, FiniteSets, ApiRequests

CONSTANTS User, Token, Invite, Deleted, MaxPassword

VARIABLES
    users,    \* the user table
    epoch,    \* revoked:<userId>, the revocation epoch
    tokens,   \* the sessions handed out and not expired
    revoked,  \* revoked:<userId>:<jti>
    invites,  \* the invite table
    request,  \* requests between two of their calls
    redis,    \* Redis answers
    raced     \* two changes of the set of admins have overlapped

authVars == <<users, epoch, tokens, revoked, invites, request, redis, raced>>

Role == {"admin", "viewer"}
UserRow == [role : Role, pw : 1..MaxPassword]
Session ==
    [user : User, ver : 0..MaxPassword, pw : 1..MaxPassword,
     late : BOOLEAN,     \* the password it was granted for was already replaced for good
     early : BOOLEAN]    \* signed while a change was half done, or without the epoch
InviteRow == [email : User, role : Role, used : BOOLEAN, expired : BOOLEAN]

ASSUME AuthAssumption ==
    /\ MaxPassword \in Nat \ {0} /\ IsFiniteSet(User) /\ None # Deleted /\ None \notin User
    /\ {None, Deleted} \cap (UserRow \cup InviteRow) = {}

Steps == {"none", "sign", "password", "bump", "role", "update", "delete", "remove", "erase",
          "invite", "create", "redeem"}
Pending(step, u) ==
    [step |-> step, user |-> u, role |-> "viewer", pw |-> 1, snap |-> 0, invite |-> None]

AuthTypeOK ==
    /\ users \in [User -> UserRow \cup {None, Deleted}]
    /\ epoch \in [User -> 0..MaxPassword]
    /\ tokens \in [Token -> Session \cup {None}] /\ revoked \in SUBSET Token
    /\ invites \in [Invite -> InviteRow \cup {None, Deleted}]
    /\ request \in [Request -> [step : Steps, user : User \cup {None}, role : Role,
                                pw : 1..MaxPassword, snap : 0..Cardinality(User),
                                invite : Invite \cup {None}]]
    /\ redis \in BOOLEAN /\ raced \in BOOLEAN

Free(r) == request[r].step = "none"
Doing(r, step) == request[r].step = step
NoRequest == Pending("none", None)
Moves(r, p) == request' = [request EXCEPT ![r] = p]
Answers(r) == Moves(r, NoRequest)

Exists(u) == users[u] \in UserRow
Issued(i) == invites[i] \in InviteRow
Admins == {u \in User : Exists(u) /\ users[u].role = "admin"}

(***************************************************************************)
(* The auth hook.  A Redis error counts as "not revoked"; the role is read *)
(* from the row, never from the token; viewers may not write.              *)
(***************************************************************************)
LoggedOut(j) == redis /\ j \in revoked
IsTokenRevoked(j) == redis /\ (j \in revoked \/ tokens[j].ver < epoch[tokens[j].user])
Accepts(j) == tokens[j] # None /\ ~IsTokenRevoked(j) /\ Exists(tokens[j].user)
RequireAdmin(j) == Accepts(j) /\ users[tokens[j].user].role = "admin"

(***************************************************************************)
(* Sessions.                                                               *)
(***************************************************************************)
Login(r, u) ==
    /\ Free(r) /\ Exists(u)
    /\ Moves(r, [Pending("sign", u) EXCEPT !.pw = users[u].pw])
    /\ UNCHANGED <<users, epoch, tokens, revoked, invites, redis, raced>>

BumpPending(u) == \E q \in Request : Doing(q, "bump") /\ request[q].user = u

(* The epoch is read when the token is signed, after the password was checked. *)
IssueUserToken(r) ==
    LET u == request[r].user  stale == Exists(u) /\ users[u].pw # request[r].pw
    IN  /\ Doing(r, "sign")
        /\ \E j \in Token :
             /\ tokens[j] = None
             /\ tokens' = [tokens EXCEPT ![j] =
                    [user |-> u, ver |-> IF redis THEN epoch[u] ELSE 0, pw |-> request[r].pw,
                     late |-> stale /\ ~BumpPending(u), early |-> BumpPending(u) \/ ~redis]]
        /\ Answers(r)
        /\ UNCHANGED <<users, epoch, revoked, invites, redis, raced>>

Logout(j) ==
    /\ tokens[j] # None /\ j \notin revoked
    /\ revoked' = IF redis THEN revoked \cup {j} ELSE revoked
    /\ UNCHANGED <<users, epoch, tokens, invites, request, redis, raced>>

(* After 24 hours the token expires, and the flag of its logout with it. *)
SessionExpires(j) ==
    /\ tokens[j] # None
    /\ tokens' = [tokens EXCEPT ![j] = None] /\ revoked' = revoked \ {j}
    /\ UNCHANGED <<users, epoch, invites, request, redis, raced>>

(* Only the first user can register; the count and the insert are serializable. *)
Register(r, u) ==
    /\ Free(r) /\ \A v \in User : ~Exists(v)
    /\ users[u] = None
    /\ users' = [users EXCEPT ![u] = [role |-> "admin", pw |-> 1]]
    /\ Moves(r, Pending("sign", u))
    /\ UNCHANGED <<epoch, tokens, revoked, invites, redis, raced>>

AskPassword(r, j) ==
    /\ Free(r) /\ RequireAdmin(j)
    /\ users[tokens[j].user].pw < MaxPassword      \* bound of the model
    /\ Moves(r, Pending("password", tokens[j].user))
    /\ UNCHANGED <<users, epoch, tokens, revoked, invites, redis, raced>>

WritePassword(r) ==
    LET u == request[r].user
    IN  /\ Doing(r, "password")
        /\ IF Exists(u) /\ users[u].pw < MaxPassword
           THEN users' = [users EXCEPT ![u].pw = @ + 1] /\ Moves(r, Pending("bump", u))
           ELSE UNCHANGED users /\ Answers(r)
        /\ UNCHANGED <<epoch, tokens, revoked, invites, redis, raced>>

(* Without Redis, or if the process dies here, the older sessions live on. *)
NotRevoked(u) ==
    tokens' = [j \in Token |-> IF tokens[j] # None /\ tokens[j].user = u
                               THEN [tokens[j] EXCEPT !.late = TRUE] ELSE tokens[j]]
BumpEpoch(r) ==
    LET u == request[r].user
    IN  /\ Doing(r, "bump")
        /\ IF redis THEN epoch' = [epoch EXCEPT ![u] = @ + 1] /\ UNCHANGED tokens
                    ELSE NotRevoked(u) /\ UNCHANGED epoch
        /\ Answers(r)
        /\ UNCHANGED <<users, revoked, invites, redis, raced>>

(***************************************************************************)
(* Users, by admins.                                                       *)
(***************************************************************************)
Changing == {"update", "remove", "erase"}
RacesAdmins(r) == raced' = (raced \/ \E q \in Request \ {r} : request[q].step \in Changing)

AskRole(r, j, u, role) ==
    /\ Free(r) /\ RequireAdmin(j) /\ Exists(u)
    /\ Moves(r, [Pending("role", u) EXCEPT !.role = role])
    /\ UNCHANGED <<users, epoch, tokens, revoked, invites, redis, raced>>

AskDelete(r, j, u) ==
    /\ Free(r) /\ RequireAdmin(j) /\ Exists(u) /\ u # tokens[j].user
    /\ IF users[u].role = "admin" THEN Moves(r, Pending("delete", u)) /\ UNCHANGED raced
                                  ELSE Moves(r, Pending("erase", u)) /\ RacesAdmins(r)
    /\ UNCHANGED <<users, epoch, tokens, revoked, invites, redis>>

(* The statement takes its snapshot of the admins. *)
StatementStarts(r) ==
    LET u == request[r].user
    IN  /\ \/ /\ Doing(r, "role")
              /\ Moves(r, [request[r] EXCEPT !.step = "update", !.snap = Cardinality(Admins)])
           \/ /\ Doing(r, "delete")
              /\ Moves(r, [request[r] EXCEPT !.step = "remove", !.snap = Cardinality(Admins \ {u})])
        /\ RacesAdmins(r)
        /\ UNCHANGED <<users, epoch, tokens, revoked, invites, redis>>

DemoteIfOthers(r) ==
    /\ Doing(r, "update") /\ Exists(request[r].user)
    /\ ~(users[request[r].user].role = "admin" /\ request[r].role = "viewer" /\ request[r].snap <= 1)
UpdateRole(r) ==
    /\ Doing(r, "update")
    /\ users' = IF DemoteIfOthers(r) THEN [users EXCEPT ![request[r].user].role = request[r].role]
                ELSE users
    /\ Answers(r)
    /\ UNCHANGED <<epoch, tokens, revoked, invites, redis, raced>>

DeleteUser(r) ==
    /\ Doing(r, "erase") \/ Doing(r, "remove")
    /\ users' = IF Exists(request[r].user) /\ (Doing(r, "erase") \/ request[r].snap > 0)
                THEN [users EXCEPT ![request[r].user] = Deleted] ELSE users
    /\ Answers(r)
    /\ UNCHANGED <<epoch, tokens, revoked, invites, redis, raced>>

AskCreate(r, j, u, role) ==
    /\ Free(r) /\ RequireAdmin(j) /\ ~Exists(u)
    /\ Moves(r, [Pending("create", u) EXCEPT !.role = role])
    /\ UNCHANGED <<users, epoch, tokens, revoked, invites, redis, raced>>

Insert(u, role) == users' = [users EXCEPT ![u] = [role |-> role, pw |-> 1]]

CreateUser(r) ==
    /\ Doing(r, "create")
    /\ IF users[request[r].user] = None THEN Insert(request[r].user, request[r].role)
                                        ELSE UNCHANGED users      \* the email is unique
    /\ Answers(r)
    /\ UNCHANGED <<epoch, tokens, revoked, invites, redis, raced>>

(***************************************************************************)
(* Invitations.  An unused invite blocks another for its email even after  *)
(* it has expired, until it is revoked.                                    *)
(***************************************************************************)
AskInvite(r, j, u, role) ==
    /\ Free(r) /\ RequireAdmin(j) /\ ~Exists(u)
    /\ \A i \in Invite : Issued(i) => invites[i].used \/ invites[i].email # u
    /\ Moves(r, [Pending("invite", u) EXCEPT !.role = role])
    /\ UNCHANGED <<users, epoch, tokens, revoked, invites, redis, raced>>

CreateInvite(r) ==
    /\ Doing(r, "invite")
    /\ \E i \in Invite :
         /\ invites[i] = None
         /\ invites' = [invites EXCEPT ![i] = [email |-> request[r].user, role |-> request[r].role,
                                               used |-> FALSE, expired |-> FALSE]]
    /\ Answers(r)
    /\ UNCHANGED <<users, epoch, tokens, revoked, redis, raced>>

RevokeInvite(j, i) ==
    /\ RequireAdmin(j) /\ Issued(i) /\ ~invites[i].used
    /\ invites' = [invites EXCEPT ![i] = Deleted]
    /\ UNCHANGED <<users, epoch, tokens, revoked, request, redis, raced>>

InviteExpires(i) ==
    /\ Issued(i) /\ ~invites[i].expired
    /\ invites' = [invites EXCEPT ![i].expired = TRUE]
    /\ UNCHANGED <<users, epoch, tokens, revoked, request, redis, raced>>

AskRedeem(r, i) ==
    /\ Free(r) /\ Issued(i) /\ ~invites[i].used /\ ~invites[i].expired
    /\ Moves(r, [Pending("redeem", invites[i].email) EXCEPT !.role = invites[i].role, !.invite = i])
    /\ UNCHANGED <<users, epoch, tokens, revoked, invites, redis, raced>>

(* One transaction: the user is inserted and the invite marked, or neither. *)
MayRedeemUnmarked(r) == Doing(r, "redeem") /\ users[request[r].user] = None
MayRedeem(r) ==
    /\ Doing(r, "redeem") /\ users[request[r].user] = None
    /\ Issued(request[r].invite)
RedeemInvite(r) ==
    /\ Doing(r, "redeem")
    /\ IF MayRedeem(r)
       THEN /\ Insert(request[r].user, request[r].role)
            /\ invites' = IF Issued(request[r].invite)
                          THEN [invites EXCEPT ![request[r].invite].used = TRUE] ELSE invites
            /\ Moves(r, Pending("sign", request[r].user))
       ELSE UNCHANGED <<users, invites>> /\ Answers(r)
    /\ UNCHANGED <<epoch, tokens, revoked, redis, raced>>

(* The API process dies with a request under way, or Redis comes and goes. *)
SessionRequestLost(r) ==
    /\ ~Free(r) /\ Answers(r)
    /\ IF Doing(r, "bump") THEN NotRevoked(request[r].user) ELSE UNCHANGED tokens
    /\ UNCHANGED <<users, epoch, revoked, invites, redis, raced>>

RedisToggles ==
    /\ redis' = ~redis
    /\ UNCHANGED <<users, epoch, tokens, revoked, invites, request, raced>>

AuthInit ==
    /\ users \in [User -> {None, [role |-> "admin", pw |-> 1], [role |-> "viewer", pw |-> 1]}]
    /\ Admins # {} \/ \A u \in User : users[u] = None
    /\ epoch = [u \in User |-> 0] /\ revoked = {}
    /\ tokens = [j \in Token |-> None] /\ invites = [i \in Invite |-> None]
    /\ request = [r \in Request |-> NoRequest]
    /\ redis = TRUE /\ raced = FALSE

SignIn ==
    \E r \in Request : IssueUserToken(r) \/ \E u \in User : Login(r, u) \/ Register(r, u)

SessionNext ==
    \/ \E r \in Request : \/ WritePassword(r) \/ BumpEpoch(r)
                          \/ \E j \in Token : AskPassword(r, j)
    \/ \E j \in Token : Logout(j) \/ SessionExpires(j)
    \/ RedisToggles

AccountNext ==
    \/ \E r \in Request, j \in Token, u \in User :
         \/ AskDelete(r, j, u)
         \/ \E role \in Role : AskRole(r, j, u, role) \/ AskCreate(r, j, u, role)
                                                   \/ AskInvite(r, j, u, role)
    \/ \E r \in Request : \/ StatementStarts(r) \/ UpdateRole(r) \/ DeleteUser(r)
                          \/ CreateUser(r) \/ CreateInvite(r) \/ RedeemInvite(r)
                          \/ \E i \in Invite : AskRedeem(r, i)
    \/ \E i \in Invite : InviteExpires(i) \/ \E j \in Token : RevokeInvite(j, i)

AuthNext == SignIn \/ SessionNext \/ AccountNext \/ \E r \in Request : SessionRequestLost(r)

AuthSpec == AuthInit /\ [][AuthNext]_authVars

(***************************************************************************)
(* Properties.                                                             *)
(***************************************************************************)
(* Sessions follow the password.  Once a change is complete no session     *)
(* granted for the older password is accepted while Redis answers, and a   *)
(* session granted for the current one is accepted until it is logged out: *)
(* the exceptions are a login that was checked before the change and       *)
(* signed after it, a change whose epoch was never bumped, and a session   *)
(* signed between the two writes of a change or without Redis.             *)
SessionsFollowPassword ==
    \A j \in Token :
        LET t == tokens[j] IN
        (t # None /\ redis /\ Exists(t.user) /\ ~BumpPending(t.user)) =>
          /\ Accepts(j) /\ ~t.late => t.pw = users[t.user].pw
          /\ t.pw = users[t.user].pw /\ ~t.early /\ j \notin revoked => Accepts(j)

(* The platform never loses its last admin, whatever requests, invites and *)
(* crashes come between the check of a demotion or deletion and its write, *)
(* as long as no two such changes overlap.                                 *)
AdminRemains == ~raced /\ (\E u \in User : Exists(u)) => Admins # {}

(* Access follows what the account's owner and the admins last decided.    *)
AccessFollows == SessionsFollowPassword /\ AdminRemains

(* Nobody joins on an invite that was revoked: a user appears as the first *)
(* one, by an admin's request, or on an invite the same step marks used.   *)
InvitesBind ==
    [][\A u \in User : users[u] = None /\ users'[u] # None =>
          \/ \A v \in User : ~Exists(v)
          \/ \E r \in Request : Doing(r, "create") /\ request[r].user = u
          \/ \E i \in Invite : /\ Issued(i) /\ invites[i].email = u
                               /\ invites'[i].used]_authVars
=================================================================================
