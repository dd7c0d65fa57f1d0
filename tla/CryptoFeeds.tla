------------------------------- MODULE CryptoFeeds -------------------------------
(***************************************************************************)
(* The runtimes of one crypto bot and its price stream: connect and        *)
(* disconnect of workers/src/crypto/worker.ts make and stop a runtime,     *)
(* which polls by a timer, subscribes to the symbol's shared socket        *)
(* (crypto/stream-hub.ts) and gives up after failures in a row.  Poll and  *)
(* handshake both wait for PriceFeed.refresh (core/src/crypto/prices.ts).  *)
(***************************************************************************)
EXTENDS Integers, FiniteSets

CONSTANTS MaxFeeds,       \* runtimes that connects may make (bound)
          KeyPairs,       \* key pairs of the account
          MaxPollFailures \* maxConsecutiveFailures

ASSUME FeedAssumption == MaxFeeds \in Nat \ {0} /\ KeyPairs \in Nat /\ MaxPollFailures \in Nat \ {0}

VARIABLES feed,       \* per runtime: where it is, its key pair, whether its first
                      \* or a timed poll is under way, and the failures in a row
          registered, \* runtimes.get(botId), 0 for none
          nextPair,   \* keypairIndexes
          cached,     \* the price cache of the CoinGecko client is fresh
          valid,      \* the symbol makes a URL that WebSocket accepts
          hub,        \* the symbol's entry: present, its refs, ws, reconnectTimer
          mishap      \* history: what has confused the registration so far

feedVars == <<feed, registered, nextPair, cached, valid, hub, mishap>>

Feeds == 1..MaxFeeds
NoFeed == [at |-> "none", pair |-> 0, first |-> FALSE, polling |-> FALSE, failures |-> 0]
NoEntry == [present |-> FALSE, refs |-> {}, ws |-> FALSE, timer |-> FALSE]

FeedInit ==
    /\ feed = [f \in Feeds |-> NoFeed] /\ registered = 0 /\ nextPair = 0 /\ cached = FALSE
    /\ valid \in BOOLEAN /\ hub = NoEntry /\ mishap = {}

-----------------------------------------------------------------------------
(* The shared socket.                                                      *)

(* scheduleReconnect arms a timer only for an entry somebody listens to;   *)
(* open makes a socket, or reschedules when the constructor throws.        *)
Rescheduled(h) == IF h.refs = {} THEN h ELSE [h EXCEPT !.timer = TRUE]
Opened(h) == IF valid THEN [h EXCEPT !.ws = TRUE] ELSE Rescheduled(h)

(* createSocket opens before the first listener is added.                  *)
Subscribed(h, f) ==
    LET g == IF h.present THEN h ELSE Opened([NoEntry EXCEPT !.present = TRUE])
    IN  [g EXCEPT !.refs = @ \cup {f}]

(* Mutant of Left: closeSocket forgets the reconnect timer.                *)
LeftWithTimer(h, f) ==
    IF h.refs = {f} THEN [NoEntry EXCEPT !.timer = h.timer] ELSE [h EXCEPT !.refs = @ \ {f}]

(* The unsubscribe function: the last listener closes the socket.          *)
Left(h, f) == IF h.refs = {f} THEN NoEntry ELSE [h EXCEPT !.refs = @ \ {f}]

(* The socket closes, or the heartbeat finds it silent and closes it.      *)
SocketDrops == /\ hub.ws /\ hub' = Rescheduled([hub EXCEPT !.ws = FALSE])
               /\ UNCHANGED <<feed, registered, nextPair, cached, valid, mishap>>

ReconnectFires == /\ hub.timer /\ hub' = Opened([hub EXCEPT !.timer = FALSE])
                  /\ UNCHANGED <<feed, registered, nextPair, cached, valid, mishap>>

-----------------------------------------------------------------------------
(* refresh: Binance, else CoinGecko, whose answer is kept for a while and  *)
(* spares it the next call.                                                *)
Refreshed(ok) == IF ok THEN cached' \in {cached, TRUE} ELSE ~cached /\ UNCHANGED cached

CacheExpires == cached /\ cached' = FALSE
                /\ UNCHANGED <<feed, registered, nextPair, valid, hub, mishap>>

Running == {f \in Feeds : feed[f].at = "running"}
Shaking == {f \in Feeds : feed[f].at \in {"pricing", "loading"}}

(* stopRuntime: timer and subscription go, a poll under way goes on.       *)
Stopped(fs, f) == IF f = 0 THEN fs ELSE [fs EXCEPT ![f].at = "stopped"]

(* runtimes.delete(botId), by a runtime that may not be the registered one. *)
Unregister(f) ==
    /\ registered' = 0
    /\ mishap' = IF registered \in {0, f} THEN mishap ELSE mishap \cup {"late"}

(* nextKeypairIndex, but that the first index is a hash of the bot's id.   *)
PairOf == IF KeyPairs <= 1 THEN 0 ELSE nextPair % KeyPairs

(* connect up to its first await: the registered runtime stops.            *)
ConnectFeed(f) ==
    /\ feed[f].at = "none" /\ \A g \in 1..(f - 1) : feed[g].at # "none"
    /\ feed' = Stopped([feed EXCEPT ![f].at = "pricing", ![f].pair = PairOf], registered)
    /\ hub' = Left(hub, registered) /\ registered' = 0
    /\ nextPair' = IF KeyPairs <= 1 THEN nextPair ELSE PairOf + 1
    /\ mishap' = IF Shaking = {} THEN mishap ELSE mishap \cup {"overlap"}
    /\ UNCHANGED <<cached, valid>>

(* The first refresh; without a price the connect throws.                  *)
FirstPrices(f, ok) ==
    /\ feed[f].at = "pricing" /\ Refreshed(ok)
    /\ feed' = [feed EXCEPT ![f].at = IF ok THEN "loading" ELSE "stopped"]
    /\ UNCHANGED <<registered, nextPair, valid, hub, mishap>>

(* loadDryState or loadLedger has answered: subscribe, start the timer,    *)
(* register over whoever is registered by then, and begin the first poll.  *)
Launch(f) ==
    /\ feed[f].at = "loading"
    /\ feed' = [feed EXCEPT ![f].at = "running", ![f].first = TRUE]
    /\ registered' = f /\ hub' = Subscribed(hub, f)
    /\ UNCHANGED <<nextPair, cached, valid, mishap>>

FirstPollEnds(f, ok) ==
    /\ feed[f].first /\ Refreshed(ok)
    /\ LET fs == [feed EXCEPT ![f].first = FALSE]
       IN  IF ok THEN feed' = fs /\ UNCHANGED <<registered, hub, mishap>>
           ELSE feed' = Stopped(fs, f) /\ hub' = Left(hub, f) /\ Unregister(f)
    /\ UNCHANGED <<nextPair, valid>>

(* poll, by the timer, which skips while one is under way.                 *)
PollBegins(f) ==
    /\ f \in Running /\ ~feed[f].polling
    /\ feed' = [feed EXCEPT ![f].polling = TRUE]
    /\ UNCHANGED <<registered, nextPair, cached, valid, hub, mishap>>

(* The last failure first marks the bot disconnected, which awaits the     *)
(* database, and stops the runtime after that.                             *)
PollEnds(f, ok) ==
    /\ feed[f].polling /\ feed[f].failures < MaxPollFailures /\ Refreshed(ok)
    /\ LET failures == IF ok THEN 0 ELSE feed[f].failures + 1
       IN  feed' = [feed EXCEPT ![f].failures = failures, ![f].polling = (failures = MaxPollFailures)]
    /\ UNCHANGED <<registered, nextPair, valid, hub, mishap>>

PollGivesUp(f) ==
    /\ feed[f].polling /\ feed[f].failures = MaxPollFailures
    /\ feed' = Stopped([feed EXCEPT ![f].polling = FALSE], f)
    /\ hub' = Left(hub, f) /\ Unregister(f)
    /\ UNCHANGED <<nextPair, cached, valid>>

DisconnectFeed ==
    /\ registered # 0
    /\ feed' = Stopped(feed, registered) /\ hub' = Left(hub, registered) /\ registered' = 0
    /\ UNCHANGED <<nextPair, cached, valid, mishap>>

FeedNext ==
    \/ SocketDrops \/ ReconnectFires \/ CacheExpires \/ DisconnectFeed
    \/ \E f \in Feeds :
         \/ ConnectFeed(f) \/ Launch(f) \/ PollBegins(f) \/ PollGivesUp(f)
         \/ \E ok \in BOOLEAN : FirstPrices(f, ok) \/ FirstPollEnds(f, ok) \/ PollEnds(f, ok)

FeedSpec == FeedInit /\ [][FeedNext]_feedVars

-----------------------------------------------------------------------------
(* A bot is traded by one runtime, the registered one: no other keeps a    *)
(* timer or a subscription.  Two things break it: a connect that overlaps  *)
(* another's handshake registers over it, and a poll that fails late       *)
(* deletes the runtime that has replaced its own.                          *)
OneTrader == mishap = {} => Running \subseteq {registered} /\ hub.refs = Running

(* While somebody listens, the symbol has a socket or a reconnect is due,  *)
(* never both, and nobody's entry is gone with its timer.  A symbol whose  *)
(* URL is refused is never retried: createSocket has no listener yet.      *)
StreamServed ==
    /\ hub.present = (hub.refs # {}) /\ ~(hub.ws /\ hub.timer)
    /\ IF hub.refs = {} THEN ~hub.ws /\ ~hub.timer ELSE valid => hub.ws \/ hub.timer

(* A bot's prices reach one runtime, and as long as somebody listens.      *)
FeedsServed == OneTrader /\ StreamServed
=================================================================================
