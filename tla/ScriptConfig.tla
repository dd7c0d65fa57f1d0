------------------------------ MODULE ScriptConfig ------------------------------
(***************************************************************************)
(* What a script may contain: the patterns that generate configs, the      *)
(* validation the script routes apply before a row is written, and the     *)
(* limits the engine applies again when the script runs.                   *)
(*                                                                         *)
(* Text is its length.  A regex filter also carries the two shapes the     *)
(* checks look for, code whether it uses a forbidden construct.  An action *)
(* chain is flat, every step with its depth.  Numbers are in tenths, so    *)
(* that a fraction can be told from an integer.                            *)
(***************************************************************************)
EXTENDS Integers, Sequences, FiniteSets

CONSTANTS Patterns,       \* pattern ids tried
          WordLists,      \* keyword lists, a word by the length of its escaped form
          TextLengths,    \* lengths of free text parameters
          Numbers,        \* numeric parameters, in tenths
          Drafts          \* configs sent to create and patch

PatternIds == {"auto-reply", "moderation", "random-response", "command", "welcome", "link-guard",
               "counter", "donation-thanks", "raid-host-thanks", "threshold-alert", "heartbeat"}

ASSUME ConfigAssumption ==
    /\ Patterns \subseteq PatternIds /\ WordLists \subseteq Seq(Nat)
    /\ TextLengths \subseteq Nat /\ Numbers \subseteq Int

MAX_FILTERS == 20
MAX_FILTER_VALUE == 500
MAX_REGEX_LENGTH == 500
MAX_CUSTOM_EXPRESSION == 500
MAX_CUSTOM_CODE == 4000
MAX_ACTIONS == 200
MAX_NESTING == 5
MAX_DELAY_MS == 300000
MAX_EXECUTION_MS == 600000
MAX_PAYLOAD_STRING == 10000
MAX_TEXT_LENGTH == 4000
MAX_KEYWORD_REGEX == 400

Filter(type, len)  == [type |-> type, len |-> len, nested |-> FALSE, optional |-> FALSE,
                       forbidden |-> FALSE, async |-> FALSE]
Action(type, depth, len) == [type |-> type, depth |-> depth, len |-> len, forbidden |-> FALSE,
                             ms |-> 0, urlAllowed |-> TRUE, unsafeCondition |-> FALSE]
Config(filters, actions) == [filters |-> filters, actions |-> actions,
                             cooldown |-> {}, interval |-> {}, maxExecutionMs |-> {}]

ElementsOf(s) == {s[i] : i \in DOMAIN s}
Least(a, b) == IF a < b THEN a ELSE b
Most(a, b)  == IF a > b THEN a ELSE b

(***************************************************************************)
(* validateScriptConfig.                                                   *)
(***************************************************************************)
IsRegexSafe(f) == f.len <= MAX_REGEX_LENGTH /\ ~f.nested
CheckCodePatternsOnly(x, max) == ~x.forbidden
CheckCode(x, max) == x.len <= max /\ ~x.forbidden

CheckFilters(filters) ==
    /\ Len(filters) <= MAX_FILTERS
    /\ \A f \in ElementsOf(filters) :
         \/ f.type = "regex" /\ IsRegexSafe(f)
         \/ f.type = "custom" /\ CheckCode(f, MAX_CUSTOM_EXPRESSION)
         \/ f.type \in {"keyword", "role"} /\ f.len <= MAX_FILTER_VALUE

WalkActions(actions) ==
    /\ Len(actions) <= MAX_ACTIONS
    /\ \A a \in ElementsOf(actions) :
         /\ a.depth <= MAX_NESTING /\ ~a.unsafeCondition
         /\ a.type = "custom" => CheckCode(a, MAX_CUSTOM_CODE)
         /\ a.type # "custom" => a.len <= MAX_PAYLOAD_STRING
         /\ a.type = "delay" => a.ms <= MAX_DELAY_MS
         /\ a.type = "webhook" => a.urlAllowed

IntegerBetween(field, lo, hi) ==
    \A n \in field : n % 10 = 0 /\ lo * 10 <= n /\ n <= hi * 10

ValidateScriptConfig(c) ==
    /\ CheckFilters(c.filters) /\ WalkActions(c.actions)
    /\ IntegerBetween(c.cooldown, 0, 86400)
    /\ IntegerBetween(c.interval, 1, 86400)
    /\ IntegerBetween(c.maxExecutionMs, 100, MAX_EXECUTION_MS)

(***************************************************************************)
(* The pattern library.                                                    *)
(***************************************************************************)
CapText(n) == Least(n, MAX_TEXT_LENGTH)

(* keywordRegex: words are joined until the next would pass the budget.    *)
Joined(words) ==                      \* how long the first n words are, joined
    LET length[n \in 0..Len(words)] ==
            IF n = 0 THEN 0 ELSE length[n - 1] + words[n] + (IF n > 1 THEN 1 ELSE 0)
    IN  length
Fitting(words) == {n \in 1..Len(words) : \A m \in 1..n : Joined(words)[m] \in 0..MAX_KEYWORD_REGEX}
KeywordRegex(words) ==
    LET given == IF words = <<>> THEN <<4>> ELSE words
    IN  Joined(given)[Cardinality(Fitting(given))]

(* What is put around the words: "(?:^|[^\w])(" and ")(?:$|[^\w])", or     *)
(* "^(" and ")\b".                                                         *)
BOUNDARY_LENGTH == 24
PREFIX_LENGTH == 5
KeywordBoundaryRegex(words) == KeywordRegex(words) + BOUNDARY_LENGTH

WithCooldown(c, n) == IF n > 0 THEN [c EXCEPT !.cooldown = {n}] ELSE c

KeywordReply(words, len, n) ==        \* auto-reply and moderation
    WithCooldown(Config(<<Filter("regex", KeywordBoundaryRegex(words))>>,
                        <<Action("reply", 0, CapText(len))>>), n)
RandomResponse(words, len) ==
    Config(<<Filter("regex", KeywordRegex(words) + PREFIX_LENGTH)>>,
           <<Action("random_reply", 0, 0)>>)
Command(len, word) ==
    Config(<<Filter("regex", word + 4)>>, <<Action("reply", 0, CapText(len))>>)
Welcome(len) == Config(<<>>, <<Action("say", 0, CapText(len))>>)
LinkGuard(len, n) ==
    WithCooldown(Config(<<Filter("regex", 30)>>, <<Action("reply", 0, CapText(len))>>), n)
CounterTracker(len) ==
    Config(<<>>, <<Action("increment_counter", 0, 0), Action("reply", 0, CapText(len))>>)
DonationThanks(len) ==
    Config(<<>>, <<Action("if", 0, 0), Action("reply", 1, CapText(len))>>)
RaidHostThanks(len, n) ==             \* the text is not capped here
    Config(<<>>, IF n > 0 THEN <<Action("if", 0, 0), Action("reply", 1, len)>>
                 ELSE <<Action("reply", 0, len)>>)
ThresholdAlert(len) ==
    Config(<<>>, <<Action("increment_counter", 0, 0), Action("if", 0, 0), Action("reply", 1, len)>>)

(* The interval is rounded and clamped, and is also the cooldown. *)
Heartbeat(len, n) ==
    LET interval == Most(10, Least(86400, (n + 5) \div 10)) * 10
    IN  [Config(<<>>, <<Action("log", 0, CapText(len))>>)
            EXCEPT !.interval = {interval}, !.cooldown = {interval}]

Generate(pattern, words, len, n) ==
    CASE pattern \in {"auto-reply", "moderation"} -> KeywordReply(words, len, n)
      [] pattern = "random-response" -> RandomResponse(words, len)
      [] pattern = "command"         -> Command(len, len)
      [] pattern = "welcome"         -> Welcome(len)
      [] pattern = "link-guard"      -> LinkGuard(len, n)
      [] pattern = "counter"         -> CounterTracker(len)
      [] pattern = "donation-thanks" -> DonationThanks(len)
      [] pattern = "raid-host-thanks" -> RaidHostThanks(len, n)
      [] pattern = "threshold-alert" -> ThresholdAlert(len)
      [] pattern = "heartbeat"       -> Heartbeat(len, n)

(***************************************************************************)
(* What the engine does with a stored config.                              *)
(***************************************************************************)
LooksDangerous(f) == f.nested \/ f.optional
RegexLive(f)      == f.len <= 500 /\ ~LooksDangerous(f)
ExpressionLive(f) == f.len <= MAX_CUSTOM_EXPRESSION /\ ~f.forbidden /\ ~f.async
(* Whether the engine can evaluate a filter at all, instead of answering FALSE for ever. *)
FilterLive(f) ==
    /\ f.type = "regex" => RegexLive(f)
    /\ f.type = "custom" => ExpressionLive(f)
ActionRuns(a) ==
    /\ a.type = "custom" => a.len <= MAX_CUSTOM_CODE /\ ~a.forbidden
    /\ a.type = "webhook" => a.urlAllowed
    /\ a.type = "delay" => a.ms <= MAX_DELAY_MS

VARIABLES stored,    \* the configs written to the script table
          refused    \* patterns and parameters whose generated config was refused
cfgVars == <<stored, refused>>

GenerateScript(pattern, words, len, n) ==
    LET c == Generate(pattern, words, len, n)
    IN  IF ValidateScriptConfig(c)
        THEN stored' = stored \cup {c} /\ refused' = refused
        ELSE refused' = refused \cup {<<pattern, words, len, n>>} /\ stored' = stored

(* create: the schema repeats the numeric limits and the filters' kinds. *)
SchemaAccepts(c) ==
    /\ \A f \in ElementsOf(c.filters) :
         /\ f.type \in {"regex", "keyword", "role", "custom"} /\ f.len <= 500
         /\ f.type = "regex" => IsRegexSafe(f)
    /\ IntegerBetween(c.cooldown, 0, 86400) /\ IntegerBetween(c.interval, 1, 86400)
    /\ IntegerBetween(c.maxExecutionMs, 100, MAX_EXECUTION_MS)
CreateConfig(c) ==
    /\ SchemaAccepts(c) /\ ValidateScriptConfig(c)
    /\ stored' = stored \cup {c} /\ refused' = refused
PatchConfig(c) ==
    /\ ValidateScriptConfig(c)
    /\ stored' = stored \cup {c} /\ refused' = refused

CfgInit == stored = {} /\ refused = {}
CfgNext ==
    /\ Cardinality(stored) + Cardinality(refused) < 1
    /\ \/ \E p \in Patterns, w \in WordLists, l \in TextLengths, n \in Numbers :
             GenerateScript(p, w, l, n)
       \/ \E c \in Drafts : CreateConfig(c) \/ PatchConfig(c)

CfgSpec == CfgInit /\ [][CfgNext]_cfgVars

(* The keyword budget leaves room for what the pattern puts around the     *)
(* words, and a heartbeat's interval is clamped before it is checked: for  *)
(* those patterns no keyword list, text or number makes generation fail.   *)
BudgetedPatterns == {"random-response", "heartbeat", "welcome", "counter", "donation-thanks"}
GeneratedAccepted ==
    \A r \in refused :
        /\ r[1] \notin BudgetedPatterns
        /\ r[1] \in {"auto-reply", "moderation", "link-guard"} =>
               r[4] % 10 # 0 \/ r[4] > 864000

(* Every action of a config that was accepted is one the engine executes   *)
(* as written: no stored custom code, delay or webhook is blocked or cut   *)
(* by the second set of limits in the worker.                              *)
StoredActionsRun == \A c \in stored : \A a \in ElementsOf(c.actions) : ActionRuns(a)

(* What the API stores is what it promised to generate and what the engine *)
(* runs.                                                                   *)
ConfigsAccepted == GeneratedAccepted /\ StoredActionsRun
=============================================================================
