-------------------------------- MODULE Resources --------------------------------
(***************************************************************************)
(* The accounts, bots and webhooks of one owner, as the API's routes keep  *)
(* them.  A route checks first and writes later, in separate database      *)
(* calls, so requests overtake each other in between.  A stored secret is  *)
(* the version of the key it is encrypted with, Raw when it is stored as   *)
(* it came; ids of deleted rows are not used again.                        *)
(***************************************************************************)
EXTENDS Integers, FiniteSets, ApiRequests

CONSTANTS Account, Bot, Hook, Gone, Raw,
          MaxAccounts, MaxBots, MaxHooks, MaxKey

ASSUME QuotaAssumption ==
    /\ MaxBots \in Nat \ {0} /\ IsFiniteSet(Bot)
    /\ IsFiniteSet(Request) /\ None \notin Bot /\ Gone \notin Bot
    /\ MaxKey \in Nat \ {0} /\ {None, Raw} \cap 1..MaxKey = {} /\ None # Gone /\ None # Raw

VARIABLES
    accounts, bots, hooks,   \* the tables
    req,       \* what each request under way has read and goes on to write
    keys,      \* the key registry: the current version and the known ones
    rotated,   \* a rotation finished since the current key was added
    missed,    \* rows left on an older key, for a reason the properties name
    imported,  \* a backup was imported
    overtaken, \* a request wrote a platform that another had made stale
    backup     \* the last export

resVars == <<accounts, bots, hooks, req, keys, rotated, missed, imported, overtaken, backup>>
tables  == <<accounts, bots, hooks>>
history == <<rotated, missed, imported, overtaken, backup>>

Platform == {"crypto", "telegram"}
Key      == 1..MaxKey
Secret   == Key \cup {None, Raw}
AccountRow == [name : Account, plat : Platform, enc : Secret]
BotRow   == [name : Bot, acc : Account, plat : Platform, wallet : Secret]
HookRow  == [bot : Bot \cup {None}, enc : Secret]

ASSUME RowAssumption == {None, Gone} \cap (AccountRow \cup BotRow \cup HookRow) = {}

InTable(t, x) == t[x] \notin {None, Gone}
RowsOf(t) == {x \in DOMAIN t : InTable(t, x)}
BotsOf(a) == {b \in RowsOf(bots) : bots[b].acc = a}

Idle == [at |-> "none"]
At(r, step) == req[r].at = step
Goto(r, p)  == req' = [req EXCEPT ![r] = p]
Finish(r)   == Goto(r, Idle)
Refuse(r)   == Finish(r) /\ UNCHANGED <<tables, keys, history>>

CheckQuota(n, limit) == n < limit
CountedBots == {r \in Request : At(r, "insertBot")}

(* Secrets: a value that is already encrypted is stored as it comes. *)
EnsureEncrypted(s) == IF s \in Key \cup {None} THEN s ELSE keys.current
Readable(s) == s \in keys.known \cup {None, Raw}
OlderKeys == Key \ {keys.current}
Reencrypt(s) == IF s # None /\ Readable(s) THEN keys.current ELSE s

(***************************************************************************)
(* Accounts.                                                               *)
(***************************************************************************)
AskAccount(r, plat) ==
    /\ At(r, "none") /\ CheckQuota(Cardinality(RowsOf(accounts)), MaxAccounts)
    /\ Goto(r, [at |-> "insertAccount", plat |-> plat])
    /\ UNCHANGED <<tables, keys, history>>

InsertAccount(r) ==
    /\ At(r, "insertAccount")
    /\ \E a \in Account, secret \in {None, Raw} :
         /\ accounts[a] = None
         /\ accounts' = [accounts EXCEPT ![a] =
                [name |-> a, plat |-> req[r].plat, enc |-> EnsureEncrypted(secret)]]
    /\ Finish(r) /\ UNCHANGED <<bots, hooks, keys, history>>

(* The platform can only change while the account has no bots. *)
AskPatchAccount(r, a, plat) ==
    /\ At(r, "none") /\ InTable(accounts, a)
    /\ plat = accounts[a].plat \/ BotsOf(a) = {}
    /\ Goto(r, [at |-> "patchAccount", acc |-> a, plat |-> plat, late |-> FALSE])
    /\ UNCHANGED <<tables, keys, history>>

PatchAccount(r) ==
    LET a == req[r].acc
    IN  /\ At(r, "patchAccount")
        /\ accounts' = IF InTable(accounts, a)
                       THEN [accounts EXCEPT ![a].plat = req[r].plat, ![a].enc = keys.current]
                       ELSE accounts
        /\ overtaken' = (overtaken \/ req[r].late)
        /\ Finish(r) /\ UNCHANGED <<bots, hooks, keys, rotated, missed, imported, backup>>

AskDeleteAccount(r, a) ==
    /\ At(r, "none") /\ InTable(accounts, a) /\ BotsOf(a) = {}
    /\ Goto(r, [at |-> "deleteAccount", acc |-> a, late |-> FALSE])
    /\ UNCHANGED <<tables, keys, history>>

(* Deleting a row removes the rows under it: bots with their account, and  *)
(* the webhooks of a bot become webhooks for every bot.                    *)
WithoutBots(gone) ==
    /\ bots' = [b \in Bot |-> IF b \in gone THEN Gone ELSE bots[b]]
    /\ hooks' = [h \in Hook |-> IF InTable(hooks, h) /\ hooks[h].bot \in gone
                                THEN [hooks[h] EXCEPT !.bot = None] ELSE hooks[h]]

DeleteAccount(r) ==
    LET a == req[r].acc
    IN  /\ At(r, "deleteAccount")
        /\ IF InTable(accounts, a)
           THEN accounts' = [accounts EXCEPT ![a] = Gone] /\ WithoutBots(BotsOf(a))
           ELSE UNCHANGED tables
        /\ Finish(r) /\ UNCHANGED <<keys, history>>

(***************************************************************************)
(* Bots.  A create reads the account, then the counts, then inserts; the   *)
(* foreign key refuses an account that is gone by then.                    *)
(***************************************************************************)
AskBotAnyPlatform(r, a, plat) ==
    /\ At(r, "none") /\ InTable(accounts, a)
    /\ Goto(r, [at |-> "countBots", acc |-> a, plat |-> plat, seen |-> accounts[a].plat])
    /\ UNCHANGED <<tables, keys, history>>
AskBot(r, a, plat) ==
    /\ At(r, "none") /\ InTable(accounts, a) /\ accounts[a].plat = plat
    /\ Goto(r, [at |-> "countBots", acc |-> a, plat |-> plat, seen |-> accounts[a].plat])
    /\ UNCHANGED <<tables, keys, history>>

CountUnchecked(r) ==
    /\ At(r, "countBots")
    /\ Goto(r, [req[r] EXCEPT !.at = "insertBot"])
    /\ UNCHANGED <<tables, keys, history>>
CountBots(r) ==
    /\ At(r, "countBots")
    /\ IF CheckQuota(Cardinality(RowsOf(bots)), MaxBots)
       THEN /\ Goto(r, [req[r] EXCEPT !.at = "insertBot"])
            /\ UNCHANGED <<tables, keys, history>>
       ELSE Refuse(r)

(* A request that has seen no bot on an account is late once one arrives. *)
MarkLate(rs) ==
    [q \in Request |->
        IF rs[q].at \in {"patchAccount", "deleteAccount"}
           /\ \E b \in RowsOf(bots)' \ RowsOf(bots) : bots'[b].acc = rs[q].acc
        THEN [rs[q] EXCEPT !.late = TRUE] ELSE rs[q]]

(* A crypto bot gets a wallet, its private key encrypted. *)
InsertBot(r) ==
    LET a == req[r].acc  plat == req[r].plat
    IN  /\ At(r, "insertBot")
        /\ IF InTable(accounts, a)
           THEN /\ \E b \in Bot :
                     /\ bots[b] = None
                     /\ bots' = [bots EXCEPT ![b] =
                            [name |-> b, acc |-> a, plat |-> plat,
                             wallet |-> IF plat = "crypto" THEN keys.current ELSE None]]
                /\ req' = MarkLate([req EXCEPT ![r] = Idle])
                /\ overtaken' = (overtaken \/ accounts[a].plat # req[r].seen)
                /\ UNCHANGED <<accounts, hooks, keys, rotated, missed, imported, backup>>
           ELSE Refuse(r)

(* What a client sends back: its copy without the key, the config without  *)
(* the wallet, or a key of its own.                                        *)
Sent == {"masked", "no wallet", "own key"}

AskPatchBot(r, b, sent) ==
    /\ At(r, "none") /\ InTable(bots, b)
    /\ Goto(r, [at |-> "patchBot", bot |-> b, sent |-> sent, stored |-> bots[b].wallet])
    /\ UNCHANGED <<tables, keys, history>>

ReplaceWallet(stored, sent) ==
    CASE sent = "masked"    -> None
      [] sent = "no wallet" -> None
      [] sent = "own key"   -> EnsureEncrypted(Raw)
PreserveWalletKey(stored, sent) ==
    CASE sent = "masked"    -> EnsureEncrypted(stored)
      [] sent = "no wallet" -> None
      [] sent = "own key"   -> EnsureEncrypted(Raw)

PatchBot(r) ==
    LET b == req[r].bot  w == PreserveWalletKey(req[r].stored, req[r].sent)
    IN  /\ At(r, "patchBot")
        /\ IF InTable(bots, b)
           THEN /\ bots' = [bots EXCEPT ![b].wallet = w]
                /\ missed' = IF w \in OlderKeys /\ bots[b].wallet # w
                             THEN missed \cup {b} ELSE missed
           ELSE UNCHANGED <<bots, missed>>
        /\ Finish(r) /\ UNCHANGED <<accounts, hooks, keys, rotated, imported, overtaken, backup>>

(* One transaction: logs, scripts and the bot, its webhooks kept. *)
DeleteBot(b) ==
    /\ InTable(bots, b)
    /\ WithoutBots({b})
    /\ UNCHANGED <<accounts, req, keys, history>>

(***************************************************************************)
(* Webhooks.                                                               *)
(***************************************************************************)
AskHook(r, b) ==
    /\ At(r, "none") /\ b \in RowsOf(bots) \cup {None}
    /\ CheckQuota(Cardinality(RowsOf(hooks)), MaxHooks)
    /\ Goto(r, [at |-> "insertHook", bot |-> b])
    /\ UNCHANGED <<tables, keys, history>>

InsertHook(r) ==
    /\ At(r, "insertHook")
    /\ IF req[r].bot \in RowsOf(bots) \cup {None}
       THEN /\ \E h \in Hook : /\ hooks[h] = None
                               /\ hooks' = [hooks EXCEPT ![h] =
                                     [bot |-> req[r].bot, enc |-> EnsureEncrypted(Raw)]]
            /\ Finish(r) /\ UNCHANGED <<accounts, bots, keys, history>>
       ELSE Refuse(r)

(* The two reads and the update are apart, but the update names its fields *)
(* and the foreign key re-checks the bot.                                  *)
PatchHook(h, b) ==
    /\ InTable(hooks, h) /\ b \in RowsOf(bots) \cup {None}
    /\ hooks' = [hooks EXCEPT ![h].bot = b]
    /\ UNCHANGED <<accounts, bots, req, keys, history>>

DeleteHook(h) ==
    /\ InTable(hooks, h)
    /\ hooks' = [hooks EXCEPT ![h] = Gone]
    /\ UNCHANGED <<accounts, bots, req, keys, history>>

(***************************************************************************)
(* Backups.  An export reads its tables one by one; without credentials it *)
(* leaves out account secrets and wallet keys.  An import is a transaction *)
(* of its own: an account or bot it finds again is updated, any other is   *)
(* created, no quota is checked.                                           *)
(***************************************************************************)
Mask(s, whole) == IF whole THEN s ELSE None

ExportAccounts(r, whole) ==
    /\ At(r, "none")
    /\ Goto(r, [at |-> "exportBots", whole |-> whole,
                accounts |-> [a \in Account |-> IF InTable(accounts, a)
                    THEN [accounts[a] EXCEPT !.enc = Mask(@, whole)] ELSE None]])
    /\ UNCHANGED <<tables, keys, history>>

Torn(bk) ==
    \E b \in RowsOf(bk.bots) : /\ bk.accounts[bk.bots[b].acc] # None
                               /\ bk.bots[b].plat # bk.accounts[bk.bots[b].acc].plat

ExportBots(r) ==
    /\ At(r, "exportBots")
    /\ backup' = [whole |-> req[r].whole, accounts |-> req[r].accounts,
                  bots |-> [b \in Bot |-> IF InTable(bots, b)
                      THEN [bots[b] EXCEPT !.wallet = Mask(@, req[r].whole)] ELSE None]]
    /\ overtaken' = (overtaken \/ Torn(backup'))
    /\ Finish(r) /\ UNCHANGED <<tables, keys, rotated, missed, imported>>

(* A bot without its account makes the whole backup invalid. *)
ValidateImport(bk) ==
    \A b \in Bot : bk.bots[b] # None => bk.accounts[bk.bots[b].acc] # None

(* An account is found by name and platform, a bot by account and name;   *)
(* the id of one that is not found is new.  Backups in which two rows have *)
(* the same name are left out.                                             *)
Like(row) == {a \in RowsOf(accounts) : accounts[a].name = row.name /\ accounts[a].plat = row.plat}
LikeBot(row, a) == {b \in BotsOf(a) : bots[b].name = row.name}
Fits(m, listed, table, like(_)) ==
    /\ \A x, y \in listed : m[x] = m[y] => x = y
    /\ \A x \in listed : IF like(x) = {} THEN table[m[x]] = None ELSE m[x] \in like(x)

(* Secrets the backup leaves out stay as they are; a bot's config is taken *)
(* as it comes.                                                            *)
ImportInto(am, bm) ==
    LET A == RowsOf(backup.accounts)  B == RowsOf(backup.bots)
    IN  /\ Fits(am, A, accounts, LAMBDA a : Like(backup.accounts[a]))
        /\ Fits(bm, B, bots, LAMBDA b : LikeBot(backup.bots[b], am[backup.bots[b].acc]))
        /\ accounts' = [x \in Account |->
               IF \E a \in A : am[a] = x
               THEN LET row == backup.accounts[CHOOSE a \in A : am[a] = x] IN
                    IF InTable(accounts, x) /\ ~backup.whole THEN accounts[x]
                    ELSE [row EXCEPT !.enc = EnsureEncrypted(@)]
               ELSE accounts[x]]
        /\ bots' = [x \in Bot |->
               IF \E b \in B : bm[b] = x
               THEN LET row == backup.bots[CHOOSE b \in B : bm[b] = x] IN
                    IF InTable(bots, x) THEN [bots[x] EXCEPT !.wallet = row.wallet]
                    ELSE [row EXCEPT !.acc = am[row.acc]]
               ELSE bots[x]]
        /\ missed' = missed \cup {am[a] : a \in {x \in A : backup.accounts[x].enc \in OlderKeys}}
                           \cup {bm[b] : b \in {x \in B : backup.bots[x].wallet \in OlderKeys}}
NamesDiffer(bk) ==
    /\ \A x, y \in RowsOf(bk.accounts) : bk.accounts[x].name = bk.accounts[y].name => x = y
    /\ \A x, y \in RowsOf(bk.bots) : bk.bots[x].name = bk.bots[y].name => x = y
Import ==
    /\ backup # None /\ ValidateImport(backup) /\ NamesDiffer(backup)
    /\ \E am \in [Account -> Account], bm \in [Bot -> Bot] : ImportInto(am, bm)
    /\ imported' = TRUE /\ req' = MarkLate(req)
    /\ UNCHANGED <<hooks, keys, rotated, overtaken, backup>>

(***************************************************************************)
(* Rotation of the encryption key.  It reads each table and writes back    *)
(* the rows it read; of the webhooks only those of one of the owner's bots.*)
(***************************************************************************)
RotationReads(r) ==
    /\ At(r, "none")
    /\ Goto(r, [at |-> "rotate", accounts |-> accounts, bots |-> bots, hooks |-> hooks])
    /\ UNCHANGED <<tables, keys, history>>

OnOlderKey(s) == s # None /\ Reencrypt(s) # s
RotateNoWallet(stored) == stored
RotateWallet(stored) == Reencrypt(stored)
RotationWrites(r) ==
    LET seen == req[r]
        A == {a \in RowsOf(seen.accounts) : OnOlderKey(seen.accounts[a].enc)}
        B == {b \in RowsOf(seen.bots) : OnOlderKey(seen.bots[b].wallet)}
        H == {h \in RowsOf(seen.hooks) : OnOlderKey(seen.hooks[h].enc)}
        scoped == {h \in H : seen.hooks[h].bot # None}
    IN  /\ At(r, "rotate")
        /\ IF A \subseteq RowsOf(accounts) /\ B \subseteq RowsOf(bots)
              /\ scoped \subseteq RowsOf(hooks)
           THEN /\ accounts' = [a \in Account |-> IF a \notin A THEN accounts[a]
                       ELSE [accounts[a] EXCEPT !.enc = Reencrypt(seen.accounts[a].enc)]]
                /\ bots' = [b \in Bot |-> IF b \notin B THEN bots[b]
                       ELSE [bots[b] EXCEPT !.wallet = RotateWallet(seen.bots[b].wallet)]]
                /\ hooks' = [h \in Hook |-> IF h \notin scoped THEN hooks[h]
                       ELSE [hooks[h] EXCEPT !.enc = Reencrypt(@)]]
                /\ rotated' = TRUE
                /\ missed' = missed \cup (H \ scoped)
                /\ Finish(r) /\ UNCHANGED <<keys, imported, overtaken, backup>>
           ELSE Refuse(r)

(* The keys are read when the process starts: a new one is appended, the   *)
(* older ones are dropped once a rotation has run.                         *)
AddKey ==
    /\ keys.current < MaxKey
    /\ keys' = [current |-> keys.current + 1, known |-> keys.known \cup {keys.current + 1}]
    /\ rotated' = FALSE /\ req' = [r \in Request |-> Idle]
    /\ UNCHANGED <<tables, missed, imported, overtaken, backup>>

DropLegacyKeys ==
    /\ rotated
    /\ keys' = [keys EXCEPT !.known = {keys.current}]
    /\ req' = [r \in Request |-> Idle]
    /\ UNCHANGED <<tables, history>>

RequestLost(r) == ~At(r, "none") /\ Refuse(r)

ResInit ==
    /\ accounts \in [Account -> {None} \cup [name : Account, plat : Platform, enc : {None, 1}]]
    /\ \A a \in RowsOf(accounts) : accounts[a].name = a
    /\ bots = [b \in Bot |-> None]
    /\ hooks = [h \in Hook |-> None] /\ req = [r \in Request |-> Idle]
    /\ keys = [current |-> 1, known |-> {1}] /\ rotated = FALSE
    /\ missed = {} /\ imported = FALSE /\ overtaken = FALSE /\ backup = None

NewAccountStep ==
    \E r \in Request : InsertAccount(r) \/ \E plat \in Platform : AskAccount(r, plat)
AccountStep ==
    \E r \in Request :
        \/ PatchAccount(r) \/ DeleteAccount(r)
        \/ \E a \in Account :
             AskDeleteAccount(r, a) \/ \E plat \in Platform : AskPatchAccount(r, a, plat)
BotStep ==
    \/ \E r \in Request : \/ CountBots(r) \/ InsertBot(r)
                          \/ \E a \in Account, plat \in Platform : AskBot(r, a, plat)
    \/ \E b \in Bot : DeleteBot(b)
SaveStep ==
    \E r \in Request : PatchBot(r) \/ \E b \in Bot, sent \in Sent : AskPatchBot(r, b, sent)
HookStep ==
    \/ \E r \in Request : InsertHook(r) \/ \E b \in Bot \cup {None} : AskHook(r, b)
    \/ \E h \in Hook : DeleteHook(h) \/ \E b \in Bot \cup {None} : PatchHook(h, b)
BackupStep ==
    \/ \E r \in Request : ExportBots(r) \/ \E whole \in BOOLEAN : ExportAccounts(r, whole)
    \/ Import
KeyStep ==
    \/ \E r \in Request : RotationReads(r) \/ RotationWrites(r)
    \/ AddKey \/ DropLegacyKeys

ResNext ==
    \/ NewAccountStep \/ AccountStep \/ BotStep \/ SaveStep \/ HookStep \/ BackupStep \/ KeyStep
    \/ \E r \in Request : RequestLost(r)

ResSpec == ResInit /\ [][ResNext]_resVars

(***************************************************************************)
(* Properties.                                                             *)
(***************************************************************************)
(* The quota is checked before the insert and not with it: requests that   *)
(* counted together pass it together.  What holds is that the bots there   *)
(* are and the inserts that were allowed never exceed the quota by more    *)
(* than the requests that can run side by side, less one; an import counts *)
(* nothing at all.                                                         *)
QuotaBound ==
    ~imported =>
        Cardinality(RowsOf(bots)) + Cardinality(CountedBots)
            <= MaxBots - 1 + Cardinality(Request)

(* A bot runs on its account's platform, through every change and deletion *)
(* of accounts, unless a change that had seen no bot was overtaken by one, *)
(* or one that had seen the old platform was, or between an export's reads *)
(* the account changed its platform.                                       *)
PlatformAgrees ==
    ~overtaken => \A b \in RowsOf(bots) : accounts[bots[b].acc].plat = bots[b].plat

(* Deleting an account takes no bot with it: only a bot that appeared      *)
(* after the deletion had counted none is lost.                            *)
BotsOutliveRequests ==
    [][\A b \in RowsOf(bots) : ~InTable(bots, b)' =>
          \/ bots' = [bots EXCEPT ![b] = Gone] /\ accounts' = accounts
          \/ \E r \in Request : At(r, "deleteAccount") /\ req[r].late]_resVars

(* After a rotation the older keys can go: every stored secret is still    *)
(* readable.  Not so for a webhook that belonged to no bot when the        *)
(* rotation ran, for a bot whose config a client was saving across it, and *)
(* for what an older backup brought back.                                  *)
SecretsReadable ==
    /\ \A a \in RowsOf(accounts) \ missed : Readable(accounts[a].enc)
    /\ \A b \in RowsOf(bots) \ missed : Readable(bots[b].wallet)
    /\ \A h \in RowsOf(hooks) \ missed : Readable(hooks[h].enc)

(* A crypto bot keeps the key of its wallet whatever a client saves: it    *)
(* goes only when the client leaves the wallet out, with a save that read  *)
(* the config before the key came back, or with a backup that has none.    *)
WalletKept ==
    [][\A b \in RowsOf(bots) :
          bots[b].wallet # None /\ InTable(bots, b)' /\ bots'[b].wallet = None =>
             \/ /\ backup # None /\ \A r \in Request : req'[r].at = req[r].at
                /\ \E x \in RowsOf(backup.bots) : /\ backup.bots[x].name = bots[b].name
                                                  /\ backup.bots[x].wallet = None
             \/ \E r \in Request : \/ At(r, "patchBot") /\ req[r].sent = "no wallet"
                                   \/ At(r, "patchBot") /\ req[r].stored = None]_resVars

(* No request takes more of a bot away than its client asked for.          *)
BotRowsKept == BotsOutliveRequests /\ WalletKept
=================================================================================
