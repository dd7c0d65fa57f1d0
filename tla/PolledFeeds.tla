------------------------------ MODULE PolledFeeds ------------------------------
(***************************************************************************)
(* What the adapters without a realtime gateway read on a timer: mentions  *)
(* and followers (workers/src/twitter/worker.ts), comments                 *)
(* (youtube/worker.ts) and notifications (bluesky/worker.ts).  A poll asks *)
(* for pages, newest item first, and emits what it has not seen; every     *)
(* page and every emit is awaited.  Items are numbered as they appear.     *)
(***************************************************************************)
EXTENDS Integers, Sequences, FiniteSets, SequencesExt

CONSTANTS MaxItems,   \* bound: items that may appear
          SeenBound,  \* dedupBound
          ScanLimit,  \* items a scan of mentions looks at
          PageSize,
          MaxConnects \* bound

ASSUME PollAssumption ==
    {MaxItems, SeenBound, ScanLimit, PageSize, MaxConnects} \subseteq Nat \ {0}

VARIABLES source,    \* what is read
          items,     \* items that have appeared
          connected, \* the bot has a client, hence a timer
          connects,  \* history: connects made
          seen,      \* the sets of seen items, by the number of the set, oldest first
          current,   \* the number of the bot's set in seenTweets and its like, 0 for none
          cursor,    \* lastSeenCursors, 0 for none
          inFlight,  \* pollInFlight has the bot
          paused,    \* pollPausedUntil lies ahead
          poll,      \* the polls under way
          backlog,   \* history: what had appeared when the bot connected
          emitted,   \* history: how often each item was emitted since
          upset      \* history: what has confused the scans since

pollVars == <<source, items, connected, connects, seen, current, cursor, inFlight, paused, poll,
              backlog, emitted, upset>>

Item == 1..MaxItems
Slot == 1..2
Sources == {"mentions", "followers", "comments", "notifications"}

(* A poll: awaiting a page, or scanning one from "next" down to "last",    *)
(* with so many items left to look at; the set it holds, and firstRun.     *)
NoPoll == [at |-> "none", next |-> 0, last |-> 1, left |-> 0, set |-> 0, first |-> FALSE]

PollInit ==
    /\ source \in Sources /\ items \in 0..1 /\ connected = FALSE /\ connects = 0
    /\ seen = <<>> /\ current = 0 /\ cursor = 0 /\ inFlight = FALSE /\ paused = FALSE
    /\ poll = [q \in Slot |-> NoPoll]
    /\ backlog = 0 /\ emitted = [i \in Item |-> 0] /\ upset = {}

Deduplicated == source # "notifications"
Polling == {q \in Slot : poll[q].at # "none"}

Appears == /\ items < MaxItems /\ items' = items + 1
           /\ UNCHANGED <<source, connected, connects, seen, current, cursor, inFlight, paused,
                          poll, backlog, emitted, upset>>

-----------------------------------------------------------------------------
(* A disconnect forgets what was seen, but a poll under way lives on.      *)
ConnectPolling ==
    /\ ~connected /\ connects < MaxConnects
    /\ connected' = TRUE /\ connects' = connects + 1
    /\ backlog' = items /\ emitted' = [i \in Item |-> 0]
    /\ upset' = IF Polling = {} /\ current = 0 THEN {} ELSE {"outlived"}
    /\ UNCHANGED <<source, items, seen, current, cursor, inFlight, paused, poll>>

Forgotten == current' = 0 /\ cursor' = 0 /\ inFlight' = FALSE /\ paused' = FALSE

DisconnectPolling ==
    /\ connected /\ connected' = FALSE /\ Forgotten
    /\ UNCHANGED <<source, items, connects, seen, poll, backlog, emitted, upset>>

-----------------------------------------------------------------------------
(* Mutant of MayPoll: a tick does not look for a poll under way.           *)
MayPollTwice == connected /\ ~paused

(* The timer: one poll at a time, but of notifications, and none while a   *)
(* rate limit lasts.                                                       *)
MayPoll == connected /\ (Deduplicated => ~inFlight /\ ~paused)

PollTick(q) ==
    /\ MayPoll /\ poll[q].at = "none" /\ \A r \in 1..(q - 1) : r \in Polling
    /\ poll' = [poll EXCEPT ![q] = [NoPoll EXCEPT !.at = "asking",
                       !.left = IF source = "mentions" THEN ScanLimit ELSE MaxItems]]
    /\ inFlight' = Deduplicated
    /\ UNCHANGED <<source, items, connected, connects, seen, current, cursor, paused, backlog, emitted, upset>>

(* The finally clause is for the bot, whoever polls for it by then.        *)
Done(q) == poll' = [poll EXCEPT ![q] = NoPoll] /\ inFlight' = FALSE

Turned(q, next) == [poll[q] EXCEPT !.at = "scanning", !.next = next,
                                   !.last = IF next > PageSize THEN next - PageSize + 1 ELSE 1]

(* The first page: the newest items, or what lies behind the cursor.  The  *)
(* bot's set of seen items is taken, or made by its first poll.            *)
FirstPage(q) ==
    /\ poll[q].at = "asking" /\ poll[q].next = 0
    /\ LET made == Deduplicated /\ current = 0
           set  == IF made THEN Len(seen) + 1 ELSE current
       IN  /\ seen' = IF made THEN Append(seen, <<>>) ELSE seen
           /\ current' = set
           /\ poll' = [poll EXCEPT ![q] = [Turned(q, IF cursor > 0 THEN cursor - 1 ELSE items)
                                             EXCEPT !.set = set, !.first = made]]
    /\ UNCHANGED <<source, items, connected, connects, cursor, inFlight, paused, backlog, emitted, upset>>

NextPage(q) ==
    /\ poll[q].at = "asking" /\ poll[q].next > 0
    /\ poll' = [poll EXCEPT ![q] = Turned(q, poll[q].next)]
    /\ UNCHANGED <<source, items, connected, connects, seen, current, cursor, inFlight, paused,
                   backlog, emitted, upset>>

(* A page does not come: mentions pause after a 429.  A first scan that    *)
(* has begun leaves its set behind.                                        *)
PageFails(q) ==
    /\ poll[q].at = "asking" /\ Done(q)
    /\ paused' \in IF source \in {"mentions", "followers"} THEN {paused, TRUE} ELSE {paused}
    /\ upset' = IF poll[q].first THEN upset \cup {"unfinished"} ELSE upset
    /\ UNCHANGED <<source, items, connected, connects, seen, current, cursor, backlog, emitted>>

PauseOver == /\ paused /\ paused' = FALSE
             /\ UNCHANGED <<source, items, connected, connects, seen, current, cursor, inFlight, poll,
                            backlog, emitted, upset>>

-----------------------------------------------------------------------------
(* The items of the page that are still looked at, none by a scan that     *)
(* finds the bot disconnected (followers and notifications do not look).   *)
Looked(p) ==
    IF ~connected /\ source \in {"mentions", "comments"} THEN {}
    ELSE {i \in p.last..p.next : p.next - i < p.left}

Newer(S, i) == {j \in S : j >= i}
NewestFirst(S) == [k \in 1..Cardinality(S) |-> CHOOSE i \in S : Cardinality(Newer(S, i)) = k]

(* A set that has grown past its bound drops what was added first.         *)
Added(s, S) == LET t == s \o NewestFirst(S)
               IN  IF Len(t) > SeenBound THEN SubSeq(t, Len(t) - SeenBound + 1, Len(t)) ELSE t

(* No item of the page is left: the next one is asked for, or the scan     *)
(* ends, and a page of notifications moves the cursor if it has one.       *)
PageEnds(q, p) ==
    LET left == p.left - (p.next - p.last + 1)
    IN  IF /\ source \in {"mentions", "followers"} /\ left > 0 /\ p.last > 1
           /\ (source = "mentions" => connected)
        THEN /\ poll' = [poll EXCEPT ![q] = [p EXCEPT !.at = "asking", !.next = p.last - 1, !.left = left]]
             /\ UNCHANGED <<inFlight, cursor>>
        ELSE /\ Done(q)
             /\ cursor' = IF Deduplicated \/ p.last <= 1 THEN cursor ELSE p.last

(* Emitting the newest item of the page that is not yet seen.              *)
Emit(q, i) ==
    /\ poll' = [poll EXCEPT ![q].next = i - 1, ![q].left = @ - (poll[q].next - i + 1)]
    /\ emitted' = [emitted EXCEPT ![i] = IF @ < 2 THEN @ + 1 ELSE @]

Scan(q) ==
    /\ poll[q].at = "scanning"
    /\ LET p == poll[q]
           fresh == IF Deduplicated THEN Looked(p) \ ToSet(seen[p.set]) ELSE Looked(p)
       IN  IF p.first \/ fresh = {}
           THEN /\ seen' = IF p.first THEN [seen EXCEPT ![p.set] = Added(@, fresh)] ELSE seen
                /\ PageEnds(q, p) /\ UNCHANGED emitted
           ELSE /\ \E i \in fresh : /\ \A j \in fresh : j <= i
                                   /\ Emit(q, i)
                                   /\ seen' = IF Deduplicated THEN [seen EXCEPT ![p.set] = Added(@, {i})] ELSE seen
                /\ UNCHANGED <<inFlight, cursor>>
    /\ UNCHANGED <<source, items, connected, connects, current, paused, backlog, upset>>

PollNext ==
    \/ Appears \/ ConnectPolling \/ DisconnectPolling \/ PauseOver
    \/ \E q \in Slot : PollTick(q) \/ FirstPage(q) \/ NextPage(q) \/ PageFails(q) \/ Scan(q)

PollSpec == PollInit /\ [][PollNext]_pollVars

-----------------------------------------------------------------------------
(* What appears while a bot is connected is emitted at most once, what was *)
(* there before it not at all, while all of it fits into the seen set.     *)
(* Two things break it: a poll that outlives its connection, whose late    *)
(* answer leaves an empty set to the next, and a first scan that fails.    *)
NewsOnce ==
    Deduplicated /\ upset = {} /\ items <= SeenBound =>
        \A i \in Item : emitted[i] <= IF i > backlog THEN 1 ELSE 0
================================================================================
