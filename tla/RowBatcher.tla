----------------------------- MODULE RowBatcher -----------------------------
(***************************************************************************)
(* The write batcher of the event store (event-batcher.ts; log-batcher.ts  *)
(* is the same code for log rows): rows are pushed to a buffer that a      *)
(* 250 ms timer flushes with one createMany, overlapping calls share the   *)
(* flush in flight, and a full buffer loses its oldest rows.               *)
(*                                                                         *)
(* Each action is the synchronous code between two awaits.  The write      *)
(* takes effect in WriteLands; what a failed createMany did is unknown.    *)
(***************************************************************************)
EXTENDS Naturals, Sequences

CONSTANTS Event,           \* event ids: the store's unique key
          MaxBufferedRows  \* MAX_BUFFERED_ROWS, 2000 in the code

ASSUME BatcherAssumption == MaxBufferedRows \in Nat \ {0}

VARIABLES buffer,      \* rows waiting for a flush
          flushTimer,  \* is the flush timer armed?
          flushing,    \* is a flush in flight?
          batch,       \* the rows it is writing
          stored,      \* rows in the table, unique by event id
          accepted,    \* history: rows enqueued
          dropped      \* history: rows given up

storeVars == <<buffer, flushTimer, flushing, batch, stored, accepted, dropped>>

Rows(s) == {s[i] : i \in DOMAIN s}

BatcherTypeOK ==
  /\ buffer \in Seq(Event)
  /\ flushTimer \in BOOLEAN
  /\ flushing \in BOOLEAN
  /\ batch \in Seq(Event)
  /\ stored \in SUBSET Event
  /\ accepted \in SUBSET Event
  /\ dropped \in SUBSET Event

BatcherInit ==
  /\ buffer = <<>> /\ flushTimer = FALSE
  /\ flushing = FALSE /\ batch = <<>>
  /\ stored = {} /\ accepted = {} /\ dropped = {}

-----------------------------------------------------------------------------
(* scheduleFlush: arm the timer unless one is armed or a flush will look   *)
(* at the buffer when it ends.                                             *)
ScheduleFlush(inFlight) == flushTimer' = (flushTimer \/ ~inFlight)

(* The newest rows the buffer has room for, and the ones it loses.         *)
KeepNewest(s) ==
  IF Len(s) > MaxBufferedRows THEN SubSeq(s, Len(s) - MaxBufferedRows + 1, Len(s)) ELSE s

Overflow(s) == Rows(s) \ Rows(KeepNewest(s))

EnqueueRow(r) ==
  /\ buffer' = KeepNewest(Append(buffer, r))
  /\ dropped' = dropped \cup Overflow(Append(buffer, r))
  /\ accepted' = accepted \cup {r}
  /\ ScheduleFlush(flushing)
  /\ UNCHANGED <<flushing, batch, stored>>

(* flushEvents: begin a flush with all that is buffered, or join the one   *)
(* in flight.                                                              *)
BeginFlush ==
  \/ /\ ~flushing
     /\ flushing' = TRUE /\ batch' = buffer /\ buffer' = <<>>
  \/ flushing /\ UNCHANGED <<flushing, batch, buffer>>

FlushRows ==
  /\ BeginFlush
  /\ UNCHANGED <<flushTimer, stored, accepted, dropped>>

TimerFires ==
  /\ flushTimer /\ flushTimer' = FALSE
  /\ BeginFlush
  /\ UNCHANGED <<stored, accepted, dropped>>

(* Mutant of WriteEnds: the flush empties the buffer when it ends instead  *)
(* of taking its rows when it begins.                                      *)
WriteEndsClearing(now) ==
  /\ flushing /\ flushing' = FALSE /\ batch' = <<>> /\ buffer' = <<>>
  /\ flushTimer' = flushTimer
  /\ stored' = now

(* Mutant of WriteEnds: the end of a flush does not look at the buffer.    *)
WriteEndsAsleep(now) ==
  /\ flushing /\ flushing' = FALSE /\ batch' = <<>>
  /\ UNCHANGED <<buffer, flushTimer>>
  /\ stored' = now

(* The promise of a flush settles with the table holding `now`.            *)
WriteEnds(now) ==
  /\ flushing /\ flushing' = FALSE /\ batch' = <<>>
  /\ IF buffer # <<>> THEN ScheduleFlush(FALSE) ELSE UNCHANGED flushTimer
  /\ UNCHANGED buffer
  /\ stored' = now

WriteLands ==
  /\ WriteEnds(stored \cup Rows(batch))
  /\ UNCHANGED <<accepted, dropped>>

(* createMany rejects: the batch is given up, even if Postgres has it.     *)
WriteFails ==
  /\ batch # <<>>
  /\ \E landed \in {{}, Rows(batch)} : WriteEnds(stored \cup landed)
  /\ dropped' = dropped \cup Rows(batch)
  /\ UNCHANGED accepted

(* The process ends: its memory goes, a write in flight may still land.    *)
BatcherLost ==
  /\ \E landed \in {{}, Rows(batch)} : stored' = stored \cup landed
  /\ dropped' = dropped \cup Rows(buffer) \cup Rows(batch)
  /\ buffer' = <<>> /\ flushTimer' = FALSE
  /\ flushing' = FALSE /\ batch' = <<>>
  /\ UNCHANGED accepted

BatcherNext ==
  \/ \E r \in Event : EnqueueRow(r)
  \/ FlushRows \/ TimerFires \/ WriteLands \/ WriteFails \/ BatcherLost

BatcherSpec == BatcherInit /\ [][BatcherNext]_storeVars

-----------------------------------------------------------------------------
(* Buffered rows are never forgotten: a timer will flush them, or the end  *)
(* of the flush in flight will arm one.                                    *)
BatcherLive == buffer # <<>> => flushTimer \/ flushing

(* A database outage bounds the memory the batcher takes.                  *)
BufferBounded == Len(buffer) <= MaxBufferedRows /\ Len(batch) <= MaxBufferedRows

(* Only a flush in flight holds rows.                                      *)
BatchInFlight == batch # <<>> => flushing

Store == INSTANCE BestEffortStore WITH Row <- Event,
                                      pending <- Rows(buffer) \cup Rows(batch)

(* The batcher keeps the promise of a best-effort store. *)
StoreSpec == Store!Spec
=============================================================================
