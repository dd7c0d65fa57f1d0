--------------------------------- MODULE MCApi ---------------------------------
(***************************************************************************)
(* Instances of the API's sessions, of an owner's rows and of the bot's    *)
(* domain object for TLC.  A behaviour moves one of them, "part" says      *)
(* which; the first two are cut again into the steps that bear on each     *)
(* other, since requests of one kind only meet through the rows they write.*)
(***************************************************************************)
EXTENDS Sessions, Resources, BotDomain, TLC

CONSTANTS a1, a2, b1, b2, h1, u1, u2, j1, j2, i1, i2, r1, r2

VARIABLE part

Accounts == {a1, a2}
Bots     == {b1, b2}
Hooks    == {h1}
Users    == {u1, u2}
Tokens   == {j1, j2}
Invites  == {i1, i2}
Requests == {r1, r2}

Vars == <<authVars, resVars, botVars, part>>

(* One account to start from, except where accounts are what is made. *)
Init ==
    /\ part \in {"sessions", "users", "rows", "keys", "backup", "domain"}
    /\ AuthInit /\ ResInit /\ BotInit
    /\ part \notin {"sessions", "users"} => \A u \in User : users[u] = None
    /\ part = "sessions" => \E u \in User : users[u] = None
    /\ IF part \in {"keys", "backup"}
       THEN accounts = [a \in Account |-> IF a = a1 THEN [name |-> a1, plat |-> "crypto", enc |-> 1]
                                          ELSE None]
       ELSE RowsOf(accounts) = {}

SessionPart ==
    \/ part = "sessions" /\ (SignIn \/ SessionNext \/ \E r \in Request : SessionRequestLost(r))
    \/ part = "users" /\ (SignIn \/ AccountNext \/ \E r \in Request : SessionRequestLost(r))

RowPart ==
    \/ part = "rows" /\ (NewAccountStep \/ AccountStep \/ BotStep \/ \E r \in Request : RequestLost(r))
    \/ part = "keys" /\ (BotStep \/ SaveStep \/ HookStep \/ KeyStep \/ \E r \in Request : RequestLost(r))
    \/ /\ part = "backup" /\ (AccountStep \/ BotStep \/ BackupStep)
       /\ backup \in {None, backup'}            \* one export

Next ==
    \/ SessionPart /\ UNCHANGED <<resVars, botVars, part>>
    \/ RowPart /\ UNCHANGED <<authVars, botVars, part>>
    \/ part = "domain" /\ BotNext /\ UNCHANGED <<authVars, resVars, part>>

Spec == Init /\ [][Next]_Vars

Symmetric == Permutations(Bots) \cup Permutations(Requests) \cup Permutations(Users)
                 \cup Permutations(Tokens)
================================================================================
