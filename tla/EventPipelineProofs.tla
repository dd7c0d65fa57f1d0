------------------------- MODULE EventPipelineProofs -------------------------
(***************************************************************************)
(* Proofs about EventPipeline, and about RowBatcher, which it composes.    *)
(*                                                                         *)
(* RowBatcher, for every row set and every buffer size: the buffer is      *)
(* never forgotten and never outgrows its bound, and the batcher           *)
(* implements BestEffortStore.  The process with its emission, replay,     *)
(* webhooks, shutdown and crash touches the batcher only by the batcher's  *)
(* own steps, and so keeps all of that.  The last part proves that events  *)
(* are accounted for, from an invariant about the jobs that were queued:   *)
(* they are numbered without a gap, so that a new one never takes the id   *)
(* of another, and none leaves the system unnoticed.                       *)
(***************************************************************************)
EXTENDS EventPipeline, FiniteSetTheorems, TLAPS

(* The newest rows of a buffer that has just taken one more row: still     *)
(* rows, within the bound, and together with the overflow all there was.   *)
LEMMA KeepNewestRows ==
  ASSUME NEW s \in Seq(Event)
  PROVE  /\ KeepNewest(s) \in Seq(Event)
         /\ Len(KeepNewest(s)) <= MaxBufferedRows
         /\ Rows(KeepNewest(s)) \subseteq Rows(s)
<1>1. CASE Len(s) > MaxBufferedRows
  <2> DEFINE m == Len(s) - MaxBufferedRows + 1
             t == SubSeq(s, m, Len(s))
  <2>1. m \in 1..Len(s) /\ Len(s) \in Nat
    BY <1>1, BatcherAssumption
  <2>2. t \in Seq(Event) /\ Len(t) = MaxBufferedRows
    BY <2>1, <1>1, BatcherAssumption
  <2>3. \A i \in DOMAIN t : t[i] = s[m + i - 1] /\ m + i - 1 \in DOMAIN s
    BY <2>1, <2>2, BatcherAssumption
  <2>4. Rows(t) \subseteq Rows(s)
    BY <2>3 DEF Rows
  <2> QED BY <2>2, <2>4, <1>1, BatcherAssumption DEF KeepNewest
<1>2. CASE ~(Len(s) > MaxBufferedRows)
  BY <1>2, BatcherAssumption DEF KeepNewest
<1> QED BY <1>1, <1>2

(* The rows of a buffer are rows, and appending one adds exactly it.       *)
LEMMA AppendedRows ==
  ASSUME NEW s \in Seq(Event), NEW r \in Event
  PROVE  /\ Append(s, r) \in Seq(Event)
         /\ Rows(Append(s, r)) = Rows(s) \cup {r}
         /\ Rows(s) \subseteq Event
<1>1. Append(s, r) \in Seq(Event) /\ Len(Append(s, r)) = Len(s) + 1 /\ Len(s) \in Nat
  OBVIOUS
<1>2. \A i \in DOMAIN s : i \in DOMAIN Append(s, r) /\ Append(s, r)[i] = s[i]
  OBVIOUS
<1>3. Len(s) + 1 \in DOMAIN Append(s, r) /\ Append(s, r)[Len(s) + 1] = r
  BY <1>1
<1>4. \A i \in DOMAIN Append(s, r) : i \in DOMAIN s \/ i = Len(s) + 1
  BY <1>1
<1>5. Rows(Append(s, r)) = Rows(s) \cup {r}
  BY <1>2, <1>3, <1>4 DEF Rows
<1>6. Rows(s) \subseteq Event
  <2>1. \A i \in DOMAIN s : s[i] \in Event
    OBVIOUS
  <2> QED BY <2>1 DEF Rows
<1> QED BY <1>1, <1>5, <1>6

LEMMA EmptyRows == Rows(<<>>) = {}
BY DEF Rows

-----------------------------------------------------------------------------
(* The inductive invariant.                                                *)
IInv == BatcherTypeOK /\ BatcherLive /\ BufferBounded /\ BatchInFlight

(* Every step keeps it: an enqueue arms the timer or relies on the flush   *)
(* in flight, and the end of that flush arms it again.                     *)
LEMMA IInvInductive == BatcherSpec => []IInv
<1>1. BatcherInit => IInv
  <2>1. <<>> \in Seq(Event) /\ Len(<<>>) = 0
    OBVIOUS
  <2>2. BatcherInit => BatcherTypeOK
    BY <2>1 DEF BatcherInit, BatcherTypeOK
  <2>3. BatcherInit => BatcherLive /\ BatchInFlight
    BY DEF BatcherInit, BatcherLive, BatchInFlight
  <2>4. BatcherInit => BufferBounded
    BY <2>1, BatcherAssumption DEF BatcherInit, BufferBounded
  <2> QED BY <2>2, <2>3, <2>4 DEF IInv
<1>2. IInv /\ [BatcherNext]_storeVars => IInv'
  <2> SUFFICES ASSUME IInv, [BatcherNext]_storeVars PROVE IInv'
    OBVIOUS
  <2>0. <<>> \in Seq(Event) /\ Len(<<>>) <= MaxBufferedRows
    BY BatcherAssumption
  <2>1. ASSUME NEW r \in Event, EnqueueRow(r) PROVE IInv'
    <3>1. Append(buffer, r) \in Seq(Event)
      BY AppendedRows DEF IInv, BatcherTypeOK
    <3>2. /\ buffer' \in Seq(Event) /\ Len(buffer') <= MaxBufferedRows
          /\ Overflow(Append(buffer, r)) \subseteq Event
      <4>1. Rows(Append(buffer, r)) \subseteq Event
        BY AppendedRows DEF IInv, BatcherTypeOK
      <4>2. buffer' = KeepNewest(Append(buffer, r))
        BY <2>1 DEF EnqueueRow
      <4>3. Overflow(Append(buffer, r)) \subseteq Event
        BY <4>1 DEF Overflow
      <4> QED BY <3>1, <4>2, <4>3, KeepNewestRows
    <3>3. BatcherTypeOK'
      BY <2>1, <3>2 DEF EnqueueRow, ScheduleFlush, IInv, BatcherTypeOK
    <3>4. BatcherLive' /\ BatchInFlight'
      BY <2>1 DEF EnqueueRow, ScheduleFlush, IInv, BatcherTypeOK, BatcherLive, BatchInFlight
    <3>5. BufferBounded'
      BY <2>1, <3>2 DEF EnqueueRow, IInv, BufferBounded
    <3> QED BY <3>3, <3>4, <3>5 DEF IInv
  <2>2. CASE FlushRows
    <3>1. BatcherTypeOK'
      BY <2>2, <2>0 DEF FlushRows, BeginFlush, IInv, BatcherTypeOK
    <3>2. BatcherLive' /\ BatchInFlight'
      BY <2>2 DEF FlushRows, BeginFlush, IInv, BatcherTypeOK, BatcherLive, BatchInFlight
    <3>3. BufferBounded'
      BY <2>2, <2>0 DEF FlushRows, BeginFlush, IInv, BufferBounded
    <3> QED BY <3>1, <3>2, <3>3 DEF IInv
  <2>3. CASE TimerFires
    <3>1. BatcherTypeOK'
      BY <2>3, <2>0 DEF TimerFires, BeginFlush, IInv, BatcherTypeOK
    <3>2. BatcherLive' /\ BatchInFlight'
      BY <2>3 DEF TimerFires, BeginFlush, IInv, BatcherTypeOK, BatcherLive, BatchInFlight
    <3>3. BufferBounded'
      BY <2>3, <2>0 DEF TimerFires, BeginFlush, IInv, BufferBounded
    <3> QED BY <3>1, <3>2, <3>3 DEF IInv
  <2>4. Rows(batch) \subseteq Event /\ Rows(buffer) \subseteq Event
    BY DEF IInv, BatcherTypeOK, Rows
  <2>5. ASSUME NEW now \in SUBSET Event, WriteEnds(now),
               accepted' \in SUBSET Event, dropped' \in SUBSET Event
        PROVE  IInv'
    <3>1. BatcherTypeOK'
      BY <2>5, <2>0 DEF WriteEnds, ScheduleFlush, IInv, BatcherTypeOK
    <3>2. BatcherLive' /\ BatchInFlight'
      BY <2>5 DEF WriteEnds, ScheduleFlush, IInv, BatcherTypeOK, BatcherLive, BatchInFlight
    <3>3. BufferBounded'
      BY <2>5, <2>0 DEF WriteEnds, ScheduleFlush, IInv, BufferBounded
    <3> QED BY <3>1, <3>2, <3>3 DEF IInv
  <2>6. CASE WriteLands
    <3>1. stored \cup Rows(batch) \in SUBSET Event
      BY <2>4 DEF IInv, BatcherTypeOK
    <3> QED BY <2>6, <2>5, <3>1 DEF WriteLands, IInv, BatcherTypeOK
  <2>7. CASE WriteFails
    <3>1. PICK landed \in {{}, Rows(batch)} : WriteEnds(stored \cup landed)
      BY <2>7 DEF WriteFails
    <3>2. stored \cup landed \in SUBSET Event /\ dropped \cup Rows(batch) \in SUBSET Event
      BY <2>4, <3>1 DEF IInv, BatcherTypeOK
    <3> QED BY <2>7, <2>5, <3>1, <3>2 DEF WriteFails, IInv, BatcherTypeOK
  <2>8. CASE BatcherLost
    <3>1. BatcherTypeOK'
      BY <2>8, <2>4, <2>0 DEF BatcherLost, IInv, BatcherTypeOK
    <3>2. BatcherLive' /\ BatchInFlight'
      BY <2>8, <2>4 DEF BatcherLost, IInv, BatcherTypeOK, BatcherLive, BatchInFlight
    <3>3. BufferBounded'
      BY <2>8, <2>4, <2>0 DEF BatcherLost, IInv, BufferBounded
    <3> QED BY <3>1, <3>2, <3>3 DEF IInv
  <2>9. CASE UNCHANGED storeVars
    <3>1. BatcherTypeOK'
      BY <2>9, <2>0 DEF storeVars, IInv, BatcherTypeOK
    <3>2. BatcherLive' /\ BatchInFlight'
      BY <2>9 DEF storeVars, IInv, BatcherTypeOK, BatcherLive, BatchInFlight
    <3>3. BufferBounded'
      BY <2>9, <2>0 DEF storeVars, IInv, BufferBounded
    <3> QED BY <3>1, <3>2, <3>3 DEF IInv
  <2> QED BY <2>1, <2>2, <2>3, <2>6, <2>7, <2>8, <2>9 DEF BatcherNext
<1> QED BY <1>1, <1>2, PTL DEF BatcherSpec

(* While rows are buffered, a timer is armed or a flush is in flight whose *)
(* end arms one: no row waits for the next event to come.                  *)
THEOREM BufferIsServed == BatcherSpec => []BatcherLive
<1>1. IInv => BatcherLive
  BY DEF IInv
<1> QED BY IInvInductive, <1>1, PTL

(* Neither the buffer nor a batch ever holds more than MaxBufferedRows.    *)
THEOREM MemoryBounded == BatcherSpec => []BufferBounded
<1>1. IInv => BufferBounded
  BY DEF IInv
<1> QED BY IInvInductive, <1>1, PTL

-----------------------------------------------------------------------------
Pending == Rows(buffer) \cup Rows(batch)

(* The end of a write moves its batch to the table or to the dropped rows. *)
LEMMA WriteMoves ==
  ASSUME BatcherTypeOK, NEW now, WriteEnds(now),
         stored \subseteq now, now \subseteq stored \cup Rows(batch),
         accepted' = accepted,
         dropped \subseteq dropped', dropped' \subseteq dropped \cup Rows(batch),
         Rows(batch) \subseteq now \cup dropped'
  PROVE  Store!Settle
<1>1. batch' = <<>> /\ buffer' = buffer /\ stored' = now
  BY DEF WriteEnds
<1>2. Rows(batch') = {} /\ Rows(buffer') = Rows(buffer)
  BY <1>1, EmptyRows
<1> QED BY <1>1, <1>2 DEF Store!Settle, Store!Moves

(* Every step of the batcher is a step of a best-effort store, or changes  *)
(* nothing the store sees.                                                 *)
LEMMA StepsAreStoreSteps ==
  ASSUME IInv, [BatcherNext]_storeVars
  PROVE  [Store!Next]_(Store!vars)
<1>1. ASSUME NEW r \in Event, EnqueueRow(r) PROVE Store!Accept(r)
  <2> DEFINE s == Append(buffer, r)
  <2>1. s \in Seq(Event) /\ Rows(s) = Rows(buffer) \cup {r}
    BY AppendedRows DEF IInv, BatcherTypeOK
  <2>2. Rows(KeepNewest(s)) \subseteq Rows(s)
    BY <2>1, KeepNewestRows
  <2>3. /\ Rows(buffer') = Rows(KeepNewest(s)) /\ Rows(batch') = Rows(batch)
        /\ dropped' = dropped \cup (Rows(s) \ Rows(KeepNewest(s)))
        /\ accepted' = accepted \cup {r} /\ stored' = stored
    BY <1>1 DEF EnqueueRow, Overflow
  <2> QED BY <2>1, <2>2, <2>3 DEF Store!Accept, Store!Moves
<1>2. ASSUME BeginFlush PROVE Pending' = Pending
  <2>1. CASE ~flushing
    <3>1. batch = <<>>
      BY <2>1 DEF IInv, BatchInFlight
    <3>2. batch' = buffer /\ buffer' = <<>>
      BY <1>2, <2>1 DEF BeginFlush
    <3> QED BY <3>1, <3>2, EmptyRows DEF Pending
  <2>2. CASE flushing
    BY <1>2, <2>2 DEF BeginFlush, Pending
  <2> QED BY <2>1, <2>2
<1>3. CASE FlushRows
  BY <1>2, <1>3 DEF FlushRows, Store!vars, Pending
<1>4. CASE TimerFires
  BY <1>2, <1>4 DEF TimerFires, Store!vars, Pending
<1>5. CASE WriteLands
  <2>1. Store!Settle
    BY <1>5, WriteMoves DEF WriteLands, IInv
  <2> QED BY <2>1 DEF Store!Next
<1>6. CASE WriteFails
  <2>1. PICK landed \in {{}, Rows(batch)} : WriteEnds(stored \cup landed)
    BY <1>6 DEF WriteFails
  <2>2. accepted' = accepted /\ dropped' = dropped \cup Rows(batch)
    BY <1>6 DEF WriteFails
  <2>3. Store!Settle
    BY <2>1, <2>2, WriteMoves DEF IInv
  <2> QED BY <2>3 DEF Store!Next
<1>7. CASE BatcherLost
  <2>1. Rows(buffer') = {} /\ Rows(batch') = {}
    BY <1>7, EmptyRows DEF BatcherLost
  <2>2. Store!Settle
    BY <1>7, <2>1 DEF BatcherLost, Store!Settle, Store!Moves
  <2> QED BY <2>2 DEF Store!Next
<1>8. CASE UNCHANGED storeVars
  BY <1>8 DEF storeVars, Store!vars
<1> QED BY <1>1, <1>3, <1>4, <1>5, <1>6, <1>7, <1>8 DEF BatcherNext, Store!Next

(* The batcher implements the best-effort store: overlapping flushes,      *)
(* overflow, failed writes and the end of the process lose no row that is  *)
(* not accounted for.                                                      *)
THEOREM BatcherImplementsStore == BatcherSpec => StoreSpec
<1>1. BatcherInit => Store!Init
  BY EmptyRows DEF BatcherInit, Store!Init
<1>2. IInv /\ [BatcherNext]_storeVars => [Store!Next]_(Store!vars)
  BY StepsAreStoreSteps
<1> QED BY <1>1, <1>2, IInvInductive, PTL DEF BatcherSpec, StoreSpec, Store!Spec

(* Every row the batcher ever accepted is in memory, in the table, or      *)
(* among the rows knowingly given up.                                      *)
THEOREM RowsAccounted == BatcherSpec => []Store!Accounted
<1>1. BatcherInit => Store!Accounted
  BY DEF BatcherInit, Store!Accounted
<1>2. IInv /\ Store!Accounted /\ [BatcherNext]_storeVars => Store!Accounted'
  <2> SUFFICES ASSUME IInv, Store!Accounted, [BatcherNext]_storeVars PROVE Store!Accounted'
    OBVIOUS
  <2>1. [Store!Next]_(Store!vars)
    BY StepsAreStoreSteps
  <2>2. CASE Store!Settle
    BY <2>2 DEF Store!Settle, Store!Moves, Store!Accounted
  <2>3. ASSUME NEW r \in Event, Store!Accept(r) PROVE Store!Accounted'
    BY <2>3 DEF Store!Accept, Store!Moves, Store!Accounted
  <2>4. CASE UNCHANGED Store!vars
    BY <2>4 DEF Store!vars, Store!Accounted
  <2> QED BY <2>1, <2>2, <2>3, <2>4 DEF Store!Next
<1> QED BY <1>1, <1>2, IInvInductive, PTL DEF BatcherSpec

-----------------------------------------------------------------------------
RerunRecord == [at : RerunState, event : Event \cup {NoEvent}, made : 0..RerunAttempts]

(* A replay job that has been queued names an event, and one that has not  *)
(* failed for good has attempts left.                                      *)
RerunsName ==
  /\ reruns \in [Rerun -> RerunRecord]
  /\ \A r \in Rerun : /\ reruns[r].at # "idle" => reruns[r].event \in Event
                      /\ reruns[r].at # "failed" => reruns[r].made < RerunAttempts

(* Only the routes and the job itself change a replay, and none of them    *)
(* takes its event away.                                                   *)
LEMMA RerunsNamed == Spec => []RerunsName
<1>1. Init => RerunsName
  <2>1. RerunAttempts \in Nat \ {0}
    BY PipelineAssumption
  <2> QED BY <2>1 DEF Init, RerunsName, RerunRecord, RerunState
<1>2. RerunsName /\ [Next]_vars => RerunsName'
  <2> SUFFICES ASSUME RerunsName, [Next]_vars PROVE RerunsName'
    OBVIOUS
  <2> USE DEF RerunsName, RerunRecord, RerunState
  <2>0. RerunAttempts \in Nat \ {0}
    BY PipelineAssumption
  <2>1. ASSUME reruns' = reruns PROVE RerunsName'
    BY <2>1
  <2>2. CASE Emission
    BY <2>1, <2>2 DEF Emission, Deliver, ClaimExpires, DeliverRejected
  <2>3. CASE Replaying
    <3>1. PICK r \in Rerun : \/ \E e \in Event : RequestRerun(r, e)
                             \/ StartRerun(r) \/ RerunDone(r) \/ RerunFails(r)
                             \/ \E failed \in SUBSET Hook : RerunEmits(r, failed)
      BY <2>3 DEF Replaying
    <3>2. ASSUME NEW e \in Event, RequestRerun(r, e) PROVE RerunsName'
      BY <2>0, <3>2 DEF RequestRerun
    <3>3. CASE StartRerun(r)
      BY <3>3 DEF StartRerun, RerunTo
    <3>4. CASE RerunDone(r)
      BY <3>4 DEF RerunDone, RerunTo
    <3>5. CASE RerunFails(r)
      BY <3>5 DEF RerunFails
    <3>6. ASSUME NEW failed \in SUBSET Hook, RerunEmits(r, failed) PROVE RerunsName'
      BY <3>6 DEF RerunEmits, RerunTo
    <3> QED BY <3>1, <3>2, <3>3, <3>4, <3>5, <3>6
  <2>4. CASE Storing
    BY <2>1, <2>4 DEF Storing, FlushTimer, FlushEnds, FlushFails
  <2>5. CASE Matching
    BY <2>1, <2>5 DEF Matching, LookupFails, Lookup, CacheExpires, EditHook, HookStep
  <2>6. ASSUME NEW j, Posting(j) PROVE RerunsName'
    BY <2>1, <2>6 DEF Posting, StartAttempt, PostSucceeds, PostFails, RecordSucceeds,
       RecordFails, MoveLands, MoveFails, HookStep
  <2>7. CASE Salvaging
    BY <2>1, <2>7 DEF Salvaging, ReplayFinds, ReplayAdds, ReplayRemoves, ReplayAborts, HookStep
  <2>8. CASE Process
    <3>1. CASE Shutdown \/ FlushAtExit \/ Restart
      BY <2>1, <3>1 DEF Shutdown, FlushAtExit, Restart
    <3>2. CASE ProcessEnds
      BY <3>2 DEF ProcessEnds
    <3> QED BY <2>8, <3>1, <3>2 DEF Process, Exit, Crash
  <2>9. CASE UNCHANGED vars
    BY <2>1, <2>9 DEF vars
  <2> QED BY <2>2, <2>3, <2>4, <2>5, <2>6, <2>7, <2>8, <2>9 DEF Next
<1> QED BY <1>1, <1>2, PTL DEF Spec

-----------------------------------------------------------------------------
(* A step of the process is a step of the batcher, or leaves it alone.     *)
LEMMA StepsAreBatcherSteps ==
  ASSUME RerunsName, [Next]_vars
  PROVE  [BatcherNext]_storeVars
<1>1. ASSUME NEW e \in Event, NEW replayed, NEW failed, FanOut(e, replayed, failed)
      PROVE  BatcherNext
  BY <1>1 DEF FanOut, BatcherNext
<1>2. CASE Emission
  BY <1>1, <1>2 DEF Emission, Deliver, ClaimExpires, DeliverRejected
<1>3. CASE Replaying
  <2>1. ASSUME NEW r \in Rerun, NEW failed \in SUBSET Hook, RerunEmits(r, failed)
        PROVE  BatcherNext
    <3>1. reruns[r].event \in Event
      BY <2>1 DEF RerunEmits, RerunsName
    <3> QED BY <1>1, <2>1, <3>1 DEF RerunEmits
  <2> QED BY <1>3, <2>1 DEF Replaying, RequestRerun, StartRerun, RerunDone, RerunFails
<1>4. CASE Storing
  BY <1>4 DEF Storing, FlushTimer, FlushEnds, FlushFails, BatcherNext
<1>5. CASE Matching
  BY <1>5 DEF Matching, LookupFails, Lookup, CacheExpires, EditHook, HookStep
<1>6. ASSUME NEW j, Posting(j) PROVE UNCHANGED storeVars
  BY <1>6 DEF Posting, StartAttempt, PostSucceeds, PostFails, RecordSucceeds,
     RecordFails, MoveLands, MoveFails, HookStep
<1>7. CASE Salvaging
  BY <1>7 DEF Salvaging, ReplayFinds, ReplayAdds, ReplayRemoves, ReplayAborts, HookStep
<1>8. CASE Process
  BY <1>8 DEF Process, Shutdown, FlushAtExit, Exit, Crash, ProcessEnds, Restart, BatcherNext
<1>9. CASE UNCHANGED vars
  BY <1>9 DEF vars
<1> QED BY <1>2, <1>3, <1>4, <1>5, <1>6, <1>7, <1>8, <1>9 DEF Next

(* The pipeline, whatever it meets, runs the batcher as RowBatcher says.   *)
LEMMA RunsTheBatcher == Spec => BatcherSpec
<1>1. Init => BatcherInit
  BY DEF Init
<1>2. RerunsName /\ [Next]_vars => [BatcherNext]_storeVars
  BY StepsAreBatcherSteps
<1> QED BY <1>1, <1>2, RerunsNamed, PTL DEF Spec, BatcherSpec

(* While rows are buffered, a timer is armed or a flush is in flight whose *)
(* end arms one, through redelivery, replay, shutdown, crash and restart.  *)
THEOREM PipelineServesBuffer == Spec => []BatcherLive
BY RunsTheBatcher, BufferIsServed, PTL

(* The event store of the whole process keeps the promise of a best-effort *)
(* store: no row that was accepted is lost without being given up.         *)
THEOREM PipelineImplementsStore == Spec => StoreSpec
BY RunsTheBatcher, BatcherImplementsStore, PTL

-----------------------------------------------------------------------------
ReplayRecord == [at : Webhooks!ReplayState, job : Webhooks!JobId \cup {Webhooks!NoJob}]

(* The types of the variables that hold no job.                            *)
HookTypes ==
  /\ hook \in [Hook -> Webhooks!HookState]
  /\ cache \in [known : BOOLEAN, match : SUBSET Hook]
  /\ lookups \in [Event -> Nat]
  /\ got \subseteq Hook \X Event
  /\ replays \in [Operator -> ReplayRecord]

ProcessTypes ==
  /\ phase \in Phase
  /\ claimed \subseteq Natural
  /\ answered \in [Event -> Nat] /\ fanouts \in [Event -> Nat]
  /\ faulted \in BOOLEAN /\ edited \in BOOLEAN

PlainTypes == HookTypes /\ ProcessTypes /\ env \in Scenario

(* What is right of a job, given what has been received and whether        *)
(* anything failed.                                                        *)
JobRight(j, t, received, failing) ==
  /\ t \in Webhooks!Job
  /\ t.state \in {"waiting", "posting", "recording"} => t.made < Webhooks!Attempts(t)
  /\ t.by = "event" => /\ t.state \in {"recording", "done"} => <<j[1], j[2]>> \in received
                       /\ t.state = "lost" => failing

(* Every job is in order.                                                  *)
JobsRight ==
  /\ jobs = [j \in DOMAIN jobs |-> jobs[j]]
  /\ DOMAIN jobs \subseteq Webhooks!JobId
  /\ \A j \in DOMAIN jobs : JobRight(j, jobs[j], got, faulted)

(* The deliveries of an event to a webhook are numbered without a gap.     *)
Numbered ==
  \A h \in Hook, e \in Event :
    /\ IsFiniteSet(Webhooks!CopiesOf(h, e))
    /\ Webhooks!CopiesOf(h, e) = {<<h, e, i>> : i \in 1..Cardinality(Webhooks!CopiesOf(h, e))}

(* A call of the replay route that has found its job still finds it.       *)
ReplaysName ==
  \A o \in Operator :
    /\ replays[o].job \in DOMAIN jobs \cup {Webhooks!NoJob}
    /\ replays[o].at \in {"found", "added"} => replays[o].job \in DOMAIN jobs

(* Until a webhook is edited, a known match is the one the table holds.    *)
CacheFresh == ~edited /\ cache.known => cache.match = Webhooks!Enabled

(* Only an id that is claimed, or that the platform did not assign and     *)
(* the store has accepted, has been answered, and once.                    *)
AnswersCounted ==
  \A e \in Event :
    answered[e] <= (IF e \in claimed \/ (e \notin Natural /\ e \in accepted) THEN 1 ELSE 0)

-----------------------------------------------------------------------------
(* The instance counts as the module itself does.                          *)
LEMMA SameCardinality == \A S : Webhooks!Cardinality(S) = Cardinality(S)
BY DEF Webhooks!Cardinality, Cardinality

(* Jobs that keep their origin are counted as before.                      *)
LEMMA SameJobs ==
  ASSUME DOMAIN jobs' = DOMAIN jobs, \A j \in DOMAIN jobs : jobs'[j].by = jobs[j].by
  PROVE  \A h \in Hook, e \in Event :
           /\ Webhooks!CopiesOf(h, e)' = Webhooks!CopiesOf(h, e)
           /\ EventJobs(h, e)' = EventJobs(h, e)
BY DEF EventJobs, Webhooks!CopiesOf

(* Queueing adds one new job for each webhook, under an id never used.     *)
LEMMA JobsAdded ==
  ASSUME Numbered, JobsRight, NEW hooks \in SUBSET Hook, NEW e \in Event,
         NEW by \in {"event", "operator"}, Webhooks!QueueJobs(hooks, e, by)
  PROVE  /\ DOMAIN jobs' = DOMAIN jobs \cup {Webhooks!NextId(h, e) : h \in hooks}
         /\ jobs' = [j \in DOMAIN jobs' |-> jobs'[j]]
         /\ \A h \in hooks : /\ Webhooks!NextId(h, e) \in Webhooks!JobId \ DOMAIN jobs
                             /\ jobs'[Webhooks!NextId(h, e)] = Webhooks!NewJob(by)
         /\ \A j \in DOMAIN jobs : jobs'[j] = jobs[j]
<1>1. ASSUME NEW h \in hooks
      PROVE  Webhooks!NextId(h, e) \in Webhooks!JobId \ DOMAIN jobs
  <2> DEFINE n == Cardinality(Webhooks!CopiesOf(h, e))
  <2>1. n \in Nat
    BY FS_CardinalityType DEF Numbered
  <2>2. Webhooks!NextId(h, e) = <<h, e, n + 1>>
    BY SameCardinality DEF Webhooks!NextId
  <2>3. <<h, e, n + 1>> \notin Webhooks!CopiesOf(h, e)
    <3>1. Webhooks!CopiesOf(h, e) = {<<h, e, i>> : i \in 1..n}
      BY DEF Numbered
    <3> HIDE DEF n
    <3> QED BY <2>1, <3>1
  <2>4. <<h, e, n + 1>> \in Webhooks!JobId
    <3> HIDE DEF n
    <3> QED BY <2>1 DEF Webhooks!JobId
  <2>5. <<h, e, n + 1>> \notin DOMAIN jobs
    <3> HIDE DEF n
    <3> QED BY <2>3 DEF Webhooks!CopiesOf
  <2> QED BY <2>2, <2>4, <2>5
<1> DEFINE new == {Webhooks!NextId(h, e) : h \in hooks}
<1>2. jobs' = [j \in new \cup DOMAIN jobs |->
                IF j \in new THEN Webhooks!NewJob(by) ELSE jobs[j]]
  BY DEF Webhooks!QueueJobs
<1>3. \A h \in hooks : Webhooks!NextId(h, e) \in new
  OBVIOUS
<1>4. new \cap DOMAIN jobs = {}
  BY <1>1
<1> HIDE DEF new
<1>5. DOMAIN jobs' = DOMAIN jobs \cup new
  BY <1>2
<1>6. jobs' = [j \in DOMAIN jobs' |-> jobs'[j]]
  BY <1>2
<1>7. \A j \in new : jobs'[j] = Webhooks!NewJob(by)
  BY <1>2
<1>8. \A j \in DOMAIN jobs : jobs'[j] = jobs[j]
  BY <1>2, <1>4
<1> QED BY <1>1, <1>3, <1>5, <1>6, <1>7, <1>8 DEF new

(* The new jobs are numbered on, and only the event jobs of the webhooks   *)
(* they are for count.                                                     *)
LEMMA CopiesAdded ==
  ASSUME Numbered, JobsRight, NEW hooks \in SUBSET Hook, NEW e \in Event,
         NEW by \in {"event", "operator"}, Webhooks!QueueJobs(hooks, e, by)
  PROVE  /\ Numbered'
         /\ \A h \in Hook, x \in Event :
              Cardinality(EventJobs(h, x)') =
                Cardinality(EventJobs(h, x))
                  + (IF by = "event" /\ x = e /\ h \in hooks THEN 1 ELSE 0)
<1> SUFFICES ASSUME NEW h \in Hook, NEW x \in Event
             PROVE  /\ IsFiniteSet(Webhooks!CopiesOf(h, x)')
                    /\ Webhooks!CopiesOf(h, x)' =
                         {<<h, x, i>> : i \in 1..Cardinality(Webhooks!CopiesOf(h, x)')}
                    /\ Cardinality(EventJobs(h, x)') =
                         Cardinality(EventJobs(h, x))
                           + (IF by = "event" /\ x = e /\ h \in hooks THEN 1 ELSE 0)
  BY DEF Numbered
<1> DEFINE C == Webhooks!CopiesOf(h, x)
           E == EventJobs(h, x)
           n == Cardinality(C)
<1>1. /\ IsFiniteSet(C) /\ n \in Nat
      /\ C = {<<h, x, i>> : i \in 1..n}
  BY FS_CardinalityType DEF Numbered
<1>2. /\ IsFiniteSet(E) /\ Cardinality(E) \in Nat
  <2>1. E \subseteq C
    BY DEF EventJobs
  <2> QED BY <1>1, <2>1, FS_Subset, FS_CardinalityType
<1>3. \A j \in DOMAIN jobs' \ DOMAIN jobs :
        \E g \in hooks : j = Webhooks!NextId(g, e) /\ j[1] = g /\ j[2] = e
  <2>1. DOMAIN jobs' = DOMAIN jobs \cup {Webhooks!NextId(g, e) : g \in hooks}
    BY JobsAdded
  <2>2. \A g \in hooks : Webhooks!NextId(g, e)[1] = g /\ Webhooks!NextId(g, e)[2] = e
    BY DEF Webhooks!NextId
  <2> QED BY <2>1, <2>2
<1>4. CASE x = e /\ h \in hooks
  <2> DEFINE k == Webhooks!NextId(h, e)
  <2>1. /\ k \notin DOMAIN jobs /\ k = <<h, x, n + 1>>
        /\ k \in DOMAIN jobs' /\ jobs'[k].by = by
    <3>1. /\ k \notin DOMAIN jobs /\ jobs'[k] = Webhooks!NewJob(by)
          /\ DOMAIN jobs' = DOMAIN jobs \cup {Webhooks!NextId(g, e) : g \in hooks}
      BY <1>4, JobsAdded
    <3>2. k = <<h, x, n + 1>>
      BY <1>4, SameCardinality DEF Webhooks!NextId
    <3>3. k \in DOMAIN jobs'
      BY <1>4, <3>1
    <3>4. Webhooks!NewJob(by).by = by
      BY DEF Webhooks!NewJob
    <3> QED BY <3>1, <3>2, <3>3, <3>4
  <2>2. \A j \in DOMAIN jobs' \ DOMAIN jobs : j[1] = h /\ j[2] = x => j = k
    BY <1>3, <1>4
  <2>3. DOMAIN jobs \subseteq DOMAIN jobs' /\ \A j \in DOMAIN jobs : jobs'[j] = jobs[j]
    BY JobsAdded
  <2>4. C' = C \cup {k}
    BY <2>1, <2>2, <2>3 DEF Webhooks!CopiesOf
  <2>5. E' = IF by = "event" THEN E \cup {k} ELSE E
    BY <2>1, <2>2, <2>3, <2>4 DEF EventJobs, Webhooks!CopiesOf
  <2>6. k \notin C /\ k \notin E
    BY <2>1 DEF EventJobs, Webhooks!CopiesOf
  <2> HIDE DEF C, E, k
  <2>7. IsFiniteSet(C') /\ Cardinality(C') = n + 1
    BY <1>1, <2>4, <2>6, FS_AddElement DEF n
  <2>8. Cardinality(E') = Cardinality(E) + (IF by = "event" THEN 1 ELSE 0)
    <3>1. IsFiniteSet(E) /\ k \notin E => Cardinality(E \cup {k}) = Cardinality(E) + 1
      BY FS_AddElement
    <3>2. CASE by = "event"
      BY <1>2, <2>5, <2>6, <3>1, <3>2
    <3>3. CASE by # "event"
      BY <1>2, <2>5, <3>3
    <3> QED BY <3>2, <3>3
  <2>9. C' = {<<h, x, i>> : i \in 1..(n + 1)}
    <3> HIDE DEF n
    <3>1. 1..(n + 1) = (1..n) \cup {n + 1}
      BY <1>1
    <3>2. C' = {<<h, x, i>> : i \in 1..n} \cup {<<h, x, n + 1>>}
      BY <1>1, <2>1, <2>4
    <3> QED BY <3>1, <3>2
  <2> QED BY <1>4, <2>7, <2>8, <2>9 DEF C, E
<1>5. CASE ~(x = e /\ h \in hooks)
  <2>1. \A j \in DOMAIN jobs' \ DOMAIN jobs : ~(j[1] = h /\ j[2] = x)
    BY <1>3, <1>5
  <2>2. DOMAIN jobs \subseteq DOMAIN jobs' /\ \A j \in DOMAIN jobs : jobs'[j] = jobs[j]
    BY JobsAdded
  <2>3. C' = C
    BY <2>1, <2>2 DEF Webhooks!CopiesOf
  <2>4. E' = E
    BY <2>1, <2>2, <2>3 DEF EventJobs, Webhooks!CopiesOf
  <2> HIDE DEF C, E
  <2>5. Cardinality(E') = Cardinality(E) + 0
    BY <1>2, <2>4
  <2> QED BY <1>1, <1>5, <2>3, <2>5 DEF C, E, n
<1> QED BY <1>4, <1>5

-----------------------------------------------------------------------------
(* A job changes state without being overtaken by its promise.             *)
LEMMA StateChange ==
  ASSUME NEW j, NEW t, NEW g, NEW f, JobRight(j, t, g, f),
         NEW h, NEW q, NEW s \in Webhooks!JobState,
         s \in {"waiting", "posting", "recording"} => t.made < Webhooks!Attempts(t),
         t.by = "event" /\ s \in {"recording", "done"} => <<j[1], j[2]>> \in h,
         t.by = "event" /\ s = "lost" => q
  PROVE  JobRight(j, [t EXCEPT !.state = s], h, q) /\ [t EXCEPT !.state = s].by = t.by
BY DEF JobRight, Webhooks!Job, Webhooks!Attempts

(* A failed attempt of an event job sends it back to wait or to the        *)
(* dead-letter queue, never out of the system.                             *)
LEMMA RetriedRight ==
  ASSUME NEW j, NEW t, NEW g, NEW f, JobRight(j, t, g, f),
         t.state \in {"posting", "recording"}, NEW h, NEW q
  PROVE  JobRight(j, Webhooks!Retried(t), h, q) /\ Webhooks!Retried(t).by = t.by
<1> DEFINE made == t.made + 1
           s == IF made < Webhooks!Attempts(t) THEN "waiting"
                ELSE IF Webhooks!GoesToDlq(made) THEN "moving" ELSE "lost"
           u == [t EXCEPT !.made = made, !.state = s]
<1>1. /\ t \in Webhooks!Job /\ t.made \in Nat /\ t.made < Webhooks!Attempts(t)
      /\ Webhooks!Attempts(t) \in Nat /\ Webhooks!Attempts(t) <= WebhookAttempts
      /\ WebhookAttempts \in Nat
      /\ t.by = "event" => Webhooks!Attempts(t) = WebhookAttempts
  BY PipelineAssumption DEF JobRight, Webhooks!Job, Webhooks!Attempts
<1>2. made \in 0..WebhookAttempts
  BY <1>1
<1>3. s \in {"waiting", "moving", "lost"}
  OBVIOUS
<1>4. s = "waiting" => made < Webhooks!Attempts(t)
  OBVIOUS
<1>5. t.by = "event" => s # "lost"
  BY <1>1 DEF Webhooks!GoesToDlq
<1> HIDE DEF made, s
<1>6. u \in Webhooks!Job /\ u.by = t.by /\ u.made = made /\ u.state = s
  BY <1>1, <1>2, <1>3 DEF Webhooks!Job, Webhooks!JobState
<1>7. Webhooks!Attempts(u) = Webhooks!Attempts(t)
  BY <1>6 DEF Webhooks!Attempts
<1>8. JobRight(j, u, h, q)
  BY <1>3, <1>4, <1>5, <1>6, <1>7 DEF JobRight
<1>9. Webhooks!Retried(t) = u
  BY DEF Webhooks!Retried, made, s
<1> QED BY <1>6, <1>8, <1>9

(* The end of the process hands an active job out again, or loses it and   *)
(* counts as a fault.                                                      *)
LEMMA StalledRight ==
  ASSUME NEW j, NEW t, NEW g, NEW f, JobRight(j, t, g, f),
         t.state \in {"posting", "recording"}, NEW h, NEW q, q = TRUE
  PROVE  JobRight(j, Webhooks!Stalled(t), h, q) /\ Webhooks!Stalled(t).by = t.by
<1>1. t \in Webhooks!Job /\ t.made < Webhooks!Attempts(t)
  BY DEF JobRight
<1>2. CASE t.stalls = 0
  <2> DEFINE u == [t EXCEPT !.stalls = 1, !.state = "waiting"]
  <2>1. u \in Webhooks!Job /\ u.by = t.by /\ u.made = t.made /\ u.state = "waiting"
    BY <1>1 DEF Webhooks!Job, Webhooks!JobState
  <2>2. Webhooks!Stalled(t) = u
    BY <1>2 DEF Webhooks!Stalled
  <2> HIDE DEF u
  <2> QED BY <1>1, <2>1, <2>2 DEF JobRight, Webhooks!Attempts
<1>3. CASE t.stalls # 0
  <2> DEFINE u == [t EXCEPT !.state = "lost"]
  <2>1. u \in Webhooks!Job /\ u.by = t.by /\ u.state = "lost"
    BY <1>1 DEF Webhooks!Job, Webhooks!JobState
  <2>2. Webhooks!Stalled(t) = u
    BY <1>3 DEF Webhooks!Stalled
  <2> HIDE DEF u
  <2>3. JobRight(j, u, h, q)
    BY <2>1 DEF JobRight
  <2> QED BY <2>1, <2>2, <2>3
<1> QED BY <1>2, <1>3

-----------------------------------------------------------------------------
(* A step that adds no job and changes the origin of none.                 *)
JobsMove ==
  DOMAIN jobs' = DOMAIN jobs /\ \A j \in DOMAIN jobs : jobs'[j].by = jobs[j].by

(* One job changes state.                                                  *)
LEMMA JobMoves ==
  ASSUME JobsRight, NEW j \in DOMAIN jobs, NEW u, jobs' = [jobs EXCEPT ![j] = u],
         u.by = jobs[j].by, JobRight(j, u, got', faulted'),
         got \subseteq got', faulted => faulted'
  PROVE  JobsRight' /\ JobsMove
<1>1. /\ DOMAIN jobs' = DOMAIN jobs
      /\ jobs' = [i \in DOMAIN jobs' |-> jobs'[i]]
      /\ jobs'[j] = u /\ \A i \in DOMAIN jobs \ {j} : jobs'[i] = jobs[i]
  BY DEF JobsRight
<1>2. \A i \in DOMAIN jobs \ {j} : JobRight(i, jobs[i], got', faulted')
  BY DEF JobsRight, JobRight
<1>3. \A i \in DOMAIN jobs' : JobRight(i, jobs'[i], got', faulted')
  BY <1>1, <1>2
<1> QED BY <1>1, <1>3 DEF JobsRight, JobsMove

(* No job changes; what was received, and what failed, is remembered.      *)
LEMMA JobsStay ==
  ASSUME JobsRight, UNCHANGED jobs, got \subseteq got', faulted => faulted'
  PROVE  JobsRight' /\ JobsMove
BY DEF JobsRight, JobRight, JobsMove

(* Running, posting and recording a delivery.                              *)
LEMMA PostingKeepsJobs ==
  ASSUME JobsRight, NEW j \in DOMAIN jobs, Posting(j)
  PROVE  JobsRight' /\ JobsMove
<1> DEFINE t == jobs[j]
<1>1. JobRight(j, t, got, faulted) /\ t \in Webhooks!Job
  BY DEF JobsRight, JobRight
<1>2. \A s : Webhooks!SetState(j, s) => jobs' = [jobs EXCEPT ![j] = [t EXCEPT !.state = s]]
  BY DEF Webhooks!SetState
<1>3. ASSUME NEW s \in Webhooks!JobState, Webhooks!SetState(j, s),
             s \in {"waiting", "posting", "recording"} => t.made < Webhooks!Attempts(t),
             t.by = "event" /\ s \in {"recording", "done"} => <<j[1], j[2]>> \in got',
             t.by = "event" /\ s = "lost" => faulted',
             got \subseteq got', faulted => faulted'
      PROVE  JobsRight' /\ JobsMove
  <2> DEFINE u == [t EXCEPT !.state = s]
  <2>1. JobRight(j, u, got', faulted') /\ u.by = t.by
    BY <1>1, <1>3, StateChange
  <2>2. jobs' = [jobs EXCEPT ![j] = u]
    BY <1>2, <1>3
  <2> HIDE DEF u
  <2> QED BY <1>3, <2>1, <2>2, JobMoves
<1>4. ASSUME Webhooks!AttemptFails(j), t.state \in {"posting", "recording"},
             got \subseteq got', faulted => faulted'
      PROVE  JobsRight' /\ JobsMove
  <2> DEFINE u == Webhooks!Retried(t)
  <2>1. JobRight(j, u, got', faulted') /\ u.by = t.by
    BY <1>1, <1>4, RetriedRight
  <2>2. jobs' = [jobs EXCEPT ![j] = u]
    BY <1>4 DEF Webhooks!AttemptFails
  <2> HIDE DEF u
  <2> QED BY <1>4, <2>1, <2>2, JobMoves
<1> USE DEF Webhooks!JobState
<1>5. CASE StartAttempt(j)
  BY <1>1, <1>3, <1>5 DEF StartAttempt, Webhooks!StartAttempt, Healthy, JobRight
<1>6. CASE PostSucceeds(j)
  BY <1>1, <1>3, <1>6 DEF PostSucceeds, Webhooks!PostSucceeds, Healthy, JobRight
<1>7. ASSUME NEW reached \in BOOLEAN, PostFails(j, reached) PROVE JobsRight' /\ JobsMove
  <2>1. /\ t.state = "posting" /\ Webhooks!AttemptFails(j) /\ UNCHANGED faulted
        /\ got' = IF reached THEN got \cup {<<j[1], j[2]>>} ELSE got
    BY <1>7 DEF PostFails, Webhooks!PostFails
  <2>2. got \subseteq got'
    BY <2>1
  <2> QED BY <1>4, <2>1, <2>2
<1>8. CASE RecordSucceeds(j)
  BY <1>1, <1>3, <1>8 DEF RecordSucceeds, Webhooks!RecordSucceeds, Healthy, JobRight
<1>9. CASE RecordFails(j)
  <2>1. t.state = "recording" /\ Webhooks!AttemptFails(j) /\ UNCHANGED got
    BY <1>9 DEF RecordFails, Webhooks!RecordFails
  <2>2. faulted => faulted'
    BY <1>9 DEF RecordFails, Healthy, Fault
  <2> QED BY <1>4, <2>1, <2>2
<1>10. CASE MoveLands(j)
  BY <1>1, <1>3, <1>10 DEF MoveLands, Webhooks!MoveLands, Healthy
<1>11. CASE MoveFails(j)
  BY <1>1, <1>3, <1>11 DEF MoveFails, Webhooks!MoveFails, Fault
<1> QED BY <1>5, <1>6, <1>7, <1>8, <1>9, <1>10, <1>11 DEF Posting

(* New jobs have every attempt before them.                                *)
LEMMA AddedRight ==
  ASSUME JobsRight, Numbered, NEW hooks \in SUBSET Hook, NEW e \in Event,
         NEW by \in {"event", "operator"}, Webhooks!QueueJobs(hooks, e, by),
         got' = got, faulted => faulted'
  PROVE  JobsRight' /\ Numbered' /\ DOMAIN jobs \subseteq DOMAIN jobs'
<1>1. /\ DOMAIN jobs' = DOMAIN jobs \cup {Webhooks!NextId(h, e) : h \in hooks}
      /\ jobs' = [j \in DOMAIN jobs' |-> jobs'[j]]
      /\ \A h \in hooks : /\ Webhooks!NextId(h, e) \in Webhooks!JobId \ DOMAIN jobs
                          /\ jobs'[Webhooks!NextId(h, e)] = Webhooks!NewJob(by)
      /\ \A j \in DOMAIN jobs : jobs'[j] = jobs[j]
  BY JobsAdded
<1>2. \A j : JobRight(j, Webhooks!NewJob(by), got', faulted')
  BY PipelineAssumption
  DEF JobRight, Webhooks!NewJob, Webhooks!Job, Webhooks!JobState, Webhooks!Attempts
<1>3. \A j \in DOMAIN jobs : JobRight(j, jobs[j], got', faulted')
  BY DEF JobsRight, JobRight
<1>4. DOMAIN jobs' \subseteq Webhooks!JobId
  BY <1>1 DEF JobsRight
<1>5. \A j \in DOMAIN jobs' : JobRight(j, jobs'[j], got', faulted')
  BY <1>1, <1>2, <1>3
<1>6. Numbered'
  BY CopiesAdded
<1> QED BY <1>1, <1>4, <1>5, <1>6 DEF JobsRight

(* A dispatch queues the deliveries of a known match, or looks one up.     *)
LEMMA Dispatches ==
  ASSUME PlainTypes, NEW e, NEW failed, Webhooks!Dispatch(e, failed)
  PROVE  /\ \/ /\ cache.known /\ cache.match \ failed \in SUBSET Hook
               /\ Webhooks!QueueJobs(cache.match \ failed, e, "event")
               /\ lookups' = lookups
            \/ /\ ~cache.known /\ jobs' = jobs
               /\ lookups' = [lookups EXCEPT ![e] = @ + 1]
         /\ got' = got
BY DEF Webhooks!Dispatch, Webhooks!AddJobs, PlainTypes, HookTypes, ProcessTypes

(* A change of state renumbers no job.                                     *)
LEMMA MoveKeepsNumbers ==
  ASSUME Numbered, JobsMove
  PROVE  Numbered' /\ DOMAIN jobs \subseteq DOMAIN jobs'
BY SameJobs DEF Numbered, JobsMove

(* The end of the process changes states only.                             *)
LEMMA ProcessEndKeepsJobs ==
  ASSUME JobsRight, ProcessEnds
  PROVE  JobsRight' /\ JobsMove
<1>1. PICK reached \in SUBSET {j \in Webhooks!InState({"posting"}) : Webhooks!HasUrl(j)},
           moved \in SUBSET Webhooks!InState({"moving"}) :
        /\ got' = got \cup {<<j[1], j[2]>> : j \in reached}
        /\ jobs' = [j \in DOMAIN jobs |->
                      IF j \in Webhooks!Active THEN Webhooks!Stalled(jobs[j])
                      ELSE IF jobs[j].state = "moving"
                        THEN [jobs[j] EXCEPT !.state = IF j \in moved THEN "dead" ELSE "lost"]
                      ELSE jobs[j]]
  BY DEF ProcessEnds, Webhooks!WorkerLost
<1>2. faulted' = TRUE
  BY DEF ProcessEnds
<1>3. /\ DOMAIN jobs' = DOMAIN jobs
      /\ jobs' = [j \in DOMAIN jobs' |-> jobs'[j]]
  BY <1>1
<1>4. ASSUME NEW j \in DOMAIN jobs
      PROVE  JobRight(j, jobs'[j], got', faulted') /\ jobs'[j].by = jobs[j].by
  <2> DEFINE t == jobs[j]
  <2>1. JobRight(j, t, got, faulted) /\ t \in Webhooks!Job
    BY DEF JobsRight, JobRight
  <2>2. CASE j \in Webhooks!Active
    <3>1. t.state \in {"posting", "recording"}
      BY <2>2 DEF Webhooks!Active, Webhooks!InState
    <3>2. jobs'[j] = Webhooks!Stalled(t)
      BY <1>1, <2>2
    <3> QED BY <1>2, <2>1, <3>1, <3>2, StalledRight
  <2>3. CASE j \notin Webhooks!Active /\ t.state = "moving"
    <3> DEFINE s == IF j \in moved THEN "dead" ELSE "lost"
               u == [t EXCEPT !.state = s]
    <3>1. jobs'[j] = u
      BY <1>1, <2>3
    <3>2. u \in Webhooks!Job /\ u.by = t.by /\ u.state \in {"dead", "lost"}
      BY <2>1 DEF Webhooks!Job, Webhooks!JobState
    <3> HIDE DEF u
    <3>3. JobRight(j, u, got', faulted')
      BY <1>2, <3>2 DEF JobRight
    <3> QED BY <3>1, <3>2, <3>3
  <2>4. CASE j \notin Webhooks!Active /\ t.state # "moving"
    <3>1. jobs'[j] = t
      BY <1>1, <2>4
    <3>2. got \subseteq got'
      BY <1>1
    <3>3. JobRight(j, t, got', faulted')
      BY <1>2, <2>1, <3>2 DEF JobRight
    <3> QED BY <3>1, <3>3
  <2> QED BY <2>2, <2>3, <2>4
<1> QED BY <1>3, <1>4 DEF JobsRight, JobsMove

(* No step loses a job, renumbers one, or takes one out of its promise.    *)
LEMMA StepKeepsJobs ==
  ASSUME PlainTypes, JobsRight, Numbered, RerunsName, ReplaysName, [Next]_vars
  PROVE  JobsRight' /\ Numbered' /\ DOMAIN jobs \subseteq DOMAIN jobs'
<1> DEFINE Kept == JobsRight' /\ Numbered' /\ DOMAIN jobs \subseteq DOMAIN jobs'
<1>1. ASSUME UNCHANGED jobs, got \subseteq got', faulted => faulted' PROVE Kept
  BY <1>1, JobsStay, MoveKeepsNumbers
<1>2. ASSUME NEW e \in Event, NEW replayed, NEW failed, FanOut(e, replayed, failed),
             faulted => faulted'
      PROVE  Kept
  <2>1. Webhooks!Dispatch(e, failed)
    BY <1>2 DEF FanOut
  <2>2. CASE /\ cache.match \ failed \in SUBSET Hook
             /\ Webhooks!QueueJobs(cache.match \ failed, e, "event")
    BY <1>2, <2>1, <2>2, Dispatches, AddedRight
  <2>3. CASE jobs' = jobs
    BY <1>1, <1>2, <2>1, <2>3, Dispatches
  <2> QED BY <2>1, <2>2, <2>3, Dispatches
<1>3. CASE Emission
  <2>1. ASSUME NEW e \in Event, Deliver(e) PROVE Kept
    BY <1>2, <2>1 DEF Deliver
  <2>2. ASSUME NEW e \in Event, ClaimExpires(e) PROVE Kept
    BY <1>1, <2>2 DEF ClaimExpires, hookVars
  <2>3. ASSUME NEW e \in Event, NEW failed, DeliverRejected(e, failed) PROVE Kept
    BY <1>2, <2>3 DEF DeliverRejected
  <2> QED BY <1>3, <2>1, <2>2, <2>3 DEF Emission
<1>4. CASE Replaying
  <2>1. ASSUME NEW r \in Rerun, NEW failed, RerunEmits(r, failed) PROVE Kept
    <3>1. reruns[r].event \in Event
      BY <2>1 DEF RerunEmits, RerunsName
    <3>2. faulted => faulted'
      BY <2>1 DEF RerunEmits, Rejecting, Fault
    <3> QED BY <1>2, <2>1, <3>1, <3>2 DEF RerunEmits
  <2>2. ASSUME NEW r \in Rerun, NEW e \in Event,
               RequestRerun(r, e) \/ StartRerun(r) \/ RerunDone(r) \/ RerunFails(r)
        PROVE  Kept
    BY <1>1, <2>2 DEF RequestRerun, StartRerun, RerunDone, RerunFails, Fault, hookVars
  <2>3. ASSUME NEW r \in Rerun, StartRerun(r) \/ RerunDone(r) \/ RerunFails(r)
        PROVE  Kept
    BY <1>1, <2>3 DEF StartRerun, RerunDone, RerunFails, Fault, hookVars
  <2> QED BY <1>4, <2>1, <2>2, <2>3 DEF Replaying
<1>5. CASE Storing
  BY <1>1, <1>5 DEF Storing, FlushTimer, FlushEnds, FlushFails, Fault, hookVars
<1>6. CASE Matching
  <2>1. ASSUME NEW e \in Event, NEW failed, Lookup(e, failed) PROVE Kept
    <3>1. /\ Webhooks!QueueJobs(Webhooks!Enabled \ failed, e, "event") /\ got' = got
          /\ Webhooks!Enabled \ failed \in SUBSET Hook
      BY <2>1 DEF Lookup, Webhooks!LookupReply, Webhooks!AddJobs, Webhooks!Enabled
    <3>2. faulted => faulted'
      BY <2>1 DEF Lookup, Rejecting, Fault
    <3> QED BY <3>1, <3>2, AddedRight
  <2>2. ASSUME NEW e \in Event, LookupFails(e) PROVE Kept
    BY <1>1, <2>2 DEF LookupFails, Webhooks!LookupFails, Fault
  <2>3. CASE CacheExpires
    BY <1>1, <2>3 DEF CacheExpires, Webhooks!CacheExpires
  <2>4. ASSUME NEW h, NEW s, EditHook(h, s) PROVE Kept
    BY <1>1, <2>4 DEF EditHook, Webhooks!EditHook
  <2> QED BY <1>6, <2>1, <2>2, <2>3, <2>4 DEF Matching
<1>7. ASSUME NEW j \in DOMAIN jobs, Posting(j) PROVE Kept
  BY <1>7, PostingKeepsJobs, MoveKeepsNumbers
<1>8. CASE Salvaging
  <2>1. ASSUME NEW o \in Operator, ReplayAdds(o) PROVE Kept
    <3> DEFINE j == replays[o].job
    <3>1. j[1] \in Hook /\ j[2] \in Event
      BY <2>1 DEF ReplayAdds, Webhooks!ReplayAdds, ReplaysName, JobsRight, Webhooks!JobId
    <3>2. Webhooks!QueueJobs({j[1]}, j[2], "operator") /\ got' = got /\ faulted' = faulted
      BY <2>1 DEF ReplayAdds, Webhooks!ReplayAdds, Healthy
    <3> QED BY <3>1, <3>2, AddedRight
  <2>2. ASSUME NEW o \in Operator, ReplayRemoves(o) PROVE Kept
    <3> DEFINE j == replays[o].job
               u == [jobs[j] EXCEPT !.state = "removed"]
    <3>1. j \in DOMAIN jobs
      BY <2>2 DEF ReplayRemoves, Webhooks!ReplayRemoves, ReplaysName
    <3>2. jobs' = [jobs EXCEPT ![j] = u] /\ got' = got /\ faulted' = faulted
      BY <2>2 DEF ReplayRemoves, Webhooks!ReplayRemoves, Webhooks!SetState, Healthy
    <3>3. JobRight(j, jobs[j], got, faulted)
      BY <3>1 DEF JobsRight
    <3>4. JobRight(j, u, got', faulted') /\ u.by = jobs[j].by
      BY <3>3, StateChange DEF Webhooks!JobState
    <3> HIDE DEF j, u
    <3> QED BY <3>1, <3>2, <3>4, JobMoves, MoveKeepsNumbers
  <2>3. ASSUME NEW o \in Operator, NEW j, ReplayFinds(o, j) PROVE Kept
    BY <1>1, <2>3 DEF ReplayFinds, Webhooks!ReplayFinds
  <2>4. ASSUME NEW o \in Operator, ReplayAborts(o) PROVE Kept
    BY <1>1, <2>4 DEF ReplayAborts, Webhooks!ReplayAborts, Fault
  <2> QED BY <1>8, <2>1, <2>2, <2>3, <2>4 DEF Salvaging
<1>9. CASE Process
  <2>1. CASE Shutdown \/ FlushAtExit \/ Restart
    BY <1>1, <2>1 DEF Shutdown, FlushAtExit, Restart, hookVars
  <2>2. CASE ProcessEnds
    BY <2>2, ProcessEndKeepsJobs, MoveKeepsNumbers
  <2> QED BY <1>9, <2>1, <2>2 DEF Process, Exit, Crash
<1>10. CASE UNCHANGED vars
  BY <1>1, <1>10 DEF vars, hookVars
<1> QED BY <1>3, <1>4, <1>5, <1>6, <1>7, <1>8, <1>9, <1>10 DEF Next

-----------------------------------------------------------------------------
(* The counts.                                                             *)
CountsRight == OneJobPerFanout /\ EveryFanoutQueued

CountsKept ==
  \A h \in Hook, x \in Event : Cardinality(EventJobs(h, x)') = Cardinality(EventJobs(h, x))

(* Only finitely many deliveries of an event were ever queued.             *)
LEMMA CountIsNat ==
  ASSUME Numbered, NEW h \in Hook, NEW x \in Event
  PROVE  Cardinality(EventJobs(h, x)) \in Nat
<1>1. IsFiniteSet(Webhooks!CopiesOf(h, x))
  BY DEF Numbered
<1>2. EventJobs(h, x) \subseteq Webhooks!CopiesOf(h, x)
  BY DEF EventJobs
<1> QED BY <1>1, <1>2, FS_Subset, FS_CardinalityType

(* A change of state is no new delivery.                                   *)
LEMMA MoveKeepsCounts ==
  ASSUME JobsMove
  PROVE  CountsKept
BY SameJobs DEF JobsMove, CountsKept

(* A step that queues nothing, looks nothing up and edits no webhook       *)
(* unnoticed changes no balance.                                           *)
LEMMA QuietCounts ==
  ASSUME CountsRight, CountsKept, UNCHANGED <<lookups, fanouts>>, faulted => faulted',
         edited' = TRUE \/ (edited' = edited /\ hook' = hook)
  PROVE  CountsRight'
<1>1. OneJobPerFanout'
  BY DEF CountsRight, CountsKept, OneJobPerFanout
<1>2. EveryFanoutQueued'
  <2>1. Webhooks!Enabled \subseteq Hook
    BY DEF Webhooks!Enabled
  <2>2. hook' = hook => Webhooks!Enabled' = Webhooks!Enabled
    BY DEF Webhooks!Enabled
  <2> QED BY <2>1, <2>2 DEF CountsRight, CountsKept, EveryFanoutQueued
<1> QED BY <1>1, <1>2 DEF CountsRight

(* Handing an event over queues a delivery for each webhook of the match,  *)
(* or begins the lookup that will.                                         *)
LEMMA FanOutCounts ==
  ASSUME PlainTypes, JobsRight, Numbered, CacheFresh, CountsRight,
         NEW e \in Event, NEW replayed, NEW failed, FanOut(e, replayed, failed),
         failed = {} \/ faulted' = TRUE, faulted => faulted', edited' = edited
  PROVE  CountsRight'
<1>1. Webhooks!Dispatch(e, failed) /\ fanouts' = [fanouts EXCEPT ![e] = @ + 1]
  BY DEF FanOut
<1>2. hook' = hook
  BY <1>1 DEF Webhooks!Dispatch
<1>3. Webhooks!Enabled' = Webhooks!Enabled /\ Webhooks!Enabled \subseteq Hook
  BY <1>2 DEF Webhooks!Enabled
<1>4. /\ fanouts \in [Event -> Nat] /\ lookups \in [Event -> Nat]
      /\ fanouts' = [x \in Event |-> IF x = e THEN fanouts[x] + 1 ELSE fanouts[x]]
  BY <1>1 DEF PlainTypes, HookTypes, ProcessTypes
<1>5. CASE /\ cache.known /\ cache.match \ failed \in SUBSET Hook
           /\ Webhooks!QueueJobs(cache.match \ failed, e, "event") /\ lookups' = lookups
  <2>1. ASSUME NEW h \in Hook, NEW x \in Event
        PROVE  Cardinality(EventJobs(h, x)') = Cardinality(EventJobs(h, x))
                 + (IF "event" = "event" /\ x = e /\ h \in cache.match \ failed THEN 1 ELSE 0)
    BY <1>5, CopiesAdded
  <2>2. ASSUME NEW h \in Hook, NEW x \in Event
        PROVE  Cardinality(EventJobs(h, x)') + lookups'[x] <= fanouts'[x]
    <3>1. Cardinality(EventJobs(h, x)) \in Nat
      BY CountIsNat
    <3>2. Cardinality(EventJobs(h, x)) + lookups[x] <= fanouts[x]
      BY DEF CountsRight, OneJobPerFanout
    <3> QED BY <1>4, <1>5, <2>1, <3>1, <3>2
  <2>3. ASSUME ~faulted', ~edited', NEW h \in Webhooks!Enabled', NEW x \in Event
        PROVE  Cardinality(EventJobs(h, x)') + lookups'[x] = fanouts'[x]
    <3>1. Cardinality(EventJobs(h, x)) \in Nat
      BY <1>3, CountIsNat
    <3>2. Cardinality(EventJobs(h, x)) + lookups[x] = fanouts[x]
      BY <1>3, <2>3 DEF CountsRight, EveryFanoutQueued
    <3>3. h \in cache.match \ failed /\ h \in Hook
      BY <1>3, <1>5, <2>3 DEF CacheFresh
    <3>4. Cardinality(EventJobs(h, x)') = Cardinality(EventJobs(h, x)) + (IF x = e THEN 1 ELSE 0)
      BY <2>1, <3>3
    <3> QED BY <1>4, <1>5, <3>1, <3>2, <3>4
  <2> QED BY <2>2, <2>3 DEF CountsRight, OneJobPerFanout, EveryFanoutQueued
<1>6. CASE ~cache.known /\ jobs' = jobs /\ lookups' = [lookups EXCEPT ![e] = @ + 1]
  <2>1. lookups' = [x \in Event |-> IF x = e THEN lookups[x] + 1 ELSE lookups[x]]
    BY <1>4, <1>6
  <2>2. \A h \in Hook, x \in Event : EventJobs(h, x)' = EventJobs(h, x)
    BY <1>6, SameJobs
  <2>3. ASSUME NEW h \in Hook, NEW x \in Event
        PROVE  Cardinality(EventJobs(h, x)') + lookups'[x] <= fanouts'[x]
    <3>1. Cardinality(EventJobs(h, x)) \in Nat
      BY CountIsNat
    <3>2. Cardinality(EventJobs(h, x)) + lookups[x] <= fanouts[x]
      BY DEF CountsRight, OneJobPerFanout
    <3>3. Cardinality(EventJobs(h, x)') = Cardinality(EventJobs(h, x))
      BY <2>2
    <3> QED BY <1>4, <2>1, <3>1, <3>2, <3>3
  <2>4. ASSUME ~faulted', ~edited', NEW h \in Webhooks!Enabled', NEW x \in Event
        PROVE  Cardinality(EventJobs(h, x)') + lookups'[x] = fanouts'[x]
    <3>1. Cardinality(EventJobs(h, x)) \in Nat
      BY <1>3, CountIsNat
    <3>2. Cardinality(EventJobs(h, x)) + lookups[x] = fanouts[x]
      BY <1>3, <2>4 DEF CountsRight, EveryFanoutQueued
    <3>3. Cardinality(EventJobs(h, x)') = Cardinality(EventJobs(h, x))
      BY <1>3, <2>2
    <3> QED BY <1>4, <2>1, <3>1, <3>2, <3>3
  <2> QED BY <2>3, <2>4 DEF CountsRight, OneJobPerFanout, EveryFanoutQueued
<1> QED BY <1>1, <1>5, <1>6, Dispatches

(* The answer of a lookup turns it into the deliveries it was to queue.    *)
LEMMA LookupCounts ==
  ASSUME PlainTypes, JobsRight, Numbered, CountsRight,
         NEW e \in Event, NEW failed, Lookup(e, failed)
  PROVE  CountsRight'
<1>1. /\ Webhooks!QueueJobs(Webhooks!Enabled \ failed, e, "event")
      /\ lookups[e] > 0 /\ lookups' = [lookups EXCEPT ![e] = @ - 1]
      /\ hook' = hook /\ fanouts' = fanouts /\ edited' = edited
  BY DEF Lookup, Webhooks!LookupReply, Webhooks!AddJobs, HookStep, eventVars
<1>2. Webhooks!Enabled' = Webhooks!Enabled /\ Webhooks!Enabled \subseteq Hook
  BY <1>1 DEF Webhooks!Enabled
<1>3. /\ fanouts \in [Event -> Nat] /\ lookups \in [Event -> Nat]
      /\ lookups' = [x \in Event |-> IF x = e THEN lookups[x] - 1 ELSE lookups[x]]
  BY <1>1 DEF PlainTypes, HookTypes, ProcessTypes
<1>4. (failed = {} \/ faulted' = TRUE) /\ (faulted => faulted')
  BY DEF Lookup, Rejecting, Fault
<1>5. ASSUME NEW h \in Hook, NEW x \in Event
      PROVE  Cardinality(EventJobs(h, x)') = Cardinality(EventJobs(h, x))
               + (IF x = e /\ h \in Webhooks!Enabled \ failed THEN 1 ELSE 0)
  <2> DEFINE A == Webhooks!Enabled \ failed
  <2>1. A \in SUBSET Hook /\ Webhooks!QueueJobs(A, e, "event")
    BY <1>1, <1>2
  <2> HIDE DEF A
  <2>2. Cardinality(EventJobs(h, x)') = Cardinality(EventJobs(h, x))
          + (IF "event" = "event" /\ x = e /\ h \in A THEN 1 ELSE 0)
    BY <2>1, CopiesAdded
  <2> QED BY <2>2 DEF A
<1>6. ASSUME NEW h \in Hook, NEW x \in Event
      PROVE  Cardinality(EventJobs(h, x)') + lookups'[x] <= fanouts'[x]
  <2>1. Cardinality(EventJobs(h, x)) \in Nat
    BY CountIsNat
  <2>2. Cardinality(EventJobs(h, x)) + lookups[x] <= fanouts[x]
    BY DEF CountsRight, OneJobPerFanout
  <2> QED BY <1>1, <1>3, <1>5, <2>1, <2>2
<1>7. ASSUME ~faulted', ~edited', NEW h \in Webhooks!Enabled', NEW x \in Event
      PROVE  Cardinality(EventJobs(h, x)') + lookups'[x] = fanouts'[x]
  <2>1. Cardinality(EventJobs(h, x)) \in Nat
    BY <1>2, CountIsNat
  <2>2. Cardinality(EventJobs(h, x)) + lookups[x] = fanouts[x]
    BY <1>1, <1>2, <1>4, <1>7 DEF CountsRight, EveryFanoutQueued
  <2>3. h \in Webhooks!Enabled \ failed /\ h \in Hook
    BY <1>2, <1>4, <1>7
  <2>4. Cardinality(EventJobs(h, x)') = Cardinality(EventJobs(h, x)) + (IF x = e THEN 1 ELSE 0)
    BY <1>5, <2>3
  <2> QED BY <1>1, <1>3, <2>1, <2>2, <2>4
<1> QED BY <1>6, <1>7 DEF CountsRight, OneJobPerFanout, EveryFanoutQueued

(* Lookups that are given up.                                              *)
LEMMA LostLookupCounts ==
  ASSUME PlainTypes, Numbered, CountsRight, CountsKept, faulted' = TRUE,
         lookups' \in [Event -> Nat], \A e \in Event : lookups'[e] <= lookups[e],
         fanouts' = fanouts
  PROVE  CountsRight'
<1>1. ASSUME NEW h \in Hook, NEW x \in Event
      PROVE  Cardinality(EventJobs(h, x)') + lookups'[x] <= fanouts'[x]
  <2>1. Cardinality(EventJobs(h, x)) \in Nat
    BY CountIsNat
  <2>2. Cardinality(EventJobs(h, x)) + lookups[x] <= fanouts[x]
    BY DEF CountsRight, OneJobPerFanout
  <2>3. Cardinality(EventJobs(h, x)') = Cardinality(EventJobs(h, x))
    BY DEF CountsKept
  <2>4. lookups[x] \in Nat /\ lookups'[x] \in Nat /\ fanouts[x] \in Nat
    BY DEF PlainTypes, HookTypes, ProcessTypes
  <2> QED BY <2>1, <2>2, <2>3, <2>4
<1>2. EveryFanoutQueued'
  BY DEF EveryFanoutQueued
<1> QED BY <1>1, <1>2 DEF CountsRight, OneJobPerFanout

(* Every step keeps the balance of handings-over and deliveries.           *)
LEMMA StepKeepsCounts ==
  ASSUME PlainTypes, JobsRight, Numbered, RerunsName, ReplaysName, CacheFresh, CountsRight,
         [Next]_vars
  PROVE  CountsRight'
<1>1. ASSUME UNCHANGED <<jobs, lookups, fanouts>>, faulted => faulted',
             edited' = TRUE \/ (edited' = edited /\ hook' = hook)
      PROVE  CountsRight'
  <2>1. JobsMove
    BY <1>1 DEF JobsMove
  <2> QED BY <1>1, <2>1, MoveKeepsCounts, QuietCounts
<1>2. CASE Emission
  <2>1. ASSUME NEW e \in Event, Deliver(e) PROVE CountsRight'
    BY <2>1, FanOutCounts DEF Deliver
  <2>2. ASSUME NEW e \in Event, ClaimExpires(e) PROVE CountsRight'
    BY <1>1, <2>2 DEF ClaimExpires, hookVars
  <2>3. ASSUME NEW e \in Event, NEW failed, DeliverRejected(e, failed) PROVE CountsRight'
    BY <2>3, FanOutCounts DEF DeliverRejected
  <2> QED BY <1>2, <2>1, <2>2, <2>3 DEF Emission
<1>3. CASE Replaying
  <2>1. ASSUME NEW r \in Rerun, NEW failed, RerunEmits(r, failed) PROVE CountsRight'
    <3>1. reruns[r].event \in Event
      BY <2>1 DEF RerunEmits, RerunsName
    <3>2. (failed = {} \/ faulted' = TRUE) /\ (faulted => faulted') /\ edited' = edited
      BY <2>1 DEF RerunEmits, Rejecting, Fault
    <3> QED BY <2>1, <3>1, <3>2, FanOutCounts DEF RerunEmits
  <2>2. ASSUME NEW r \in Rerun, NEW e \in Event, RequestRerun(r, e) PROVE CountsRight'
    BY <1>1, <2>2 DEF RequestRerun, hookVars, eventVars
  <2>3. ASSUME NEW r \in Rerun, StartRerun(r) \/ RerunDone(r) \/ RerunFails(r)
        PROVE  CountsRight'
    BY <1>1, <2>3 DEF StartRerun, RerunDone, RerunFails, Fault, hookVars, eventVars
  <2> QED BY <1>3, <2>1, <2>2, <2>3 DEF Replaying
<1>4. CASE Storing
  BY <1>1, <1>4 DEF Storing, FlushTimer, FlushEnds, FlushFails, Fault, hookVars, eventVars
<1>5. CASE Matching
  <2>1. ASSUME NEW e \in Event, NEW failed, Lookup(e, failed) PROVE CountsRight'
    BY <2>1, LookupCounts
  <2>2. ASSUME NEW e \in Event, LookupFails(e) PROVE CountsRight'
    <3>1. /\ lookups[e] > 0 /\ lookups' = [lookups EXCEPT ![e] = @ - 1]
          /\ jobs' = jobs /\ faulted' = TRUE /\ fanouts' = fanouts
      BY <2>2 DEF LookupFails, Webhooks!LookupFails, Fault, HookStep, eventVars
    <3>2. lookups' \in [Event -> Nat] /\ \A x \in Event : lookups'[x] <= lookups[x]
      BY <3>1 DEF PlainTypes, HookTypes, ProcessTypes
    <3>3. CountsKept
      BY <3>1, MoveKeepsCounts DEF JobsMove
    <3> QED BY <3>1, <3>2, <3>3, LostLookupCounts
  <2>3. CASE CacheExpires
    BY <1>1, <2>3 DEF CacheExpires, Webhooks!CacheExpires, HookStep, eventVars
  <2>4. ASSUME NEW h, NEW s, EditHook(h, s) PROVE CountsRight'
    BY <1>1, <2>4 DEF EditHook, Webhooks!EditHook, eventVars
  <2> QED BY <1>5, <2>1, <2>2, <2>3, <2>4 DEF Matching
<1>6. ASSUME NEW j \in DOMAIN jobs, Posting(j) PROVE CountsRight'
  <2>1. CountsKept
    BY <1>6, PostingKeepsJobs, MoveKeepsCounts
  <2>2. UNCHANGED <<lookups, fanouts, hook, edited>>
    BY <1>6 DEF Posting, HookStep, eventVars, StartAttempt, PostSucceeds, PostFails,
       RecordSucceeds, RecordFails, MoveLands, MoveFails, Webhooks!StartAttempt,
       Webhooks!PostSucceeds, Webhooks!PostFails, Webhooks!RecordSucceeds,
       Webhooks!RecordFails, Webhooks!MoveLands, Webhooks!MoveFails
  <2>3. faulted => faulted'
    BY <1>6 DEF Posting, Healthy, Fault, StartAttempt, PostSucceeds, PostFails,
       RecordSucceeds, RecordFails, MoveLands, MoveFails
  <2> QED BY <2>1, <2>2, <2>3, QuietCounts
<1>7. CASE Salvaging
  <2>1. ASSUME NEW o \in Operator, ReplayAdds(o) PROVE CountsRight'
    <3>1. PICK g \in Hook, e \in Event : Webhooks!QueueJobs({g}, e, "operator")
      <4> DEFINE j == replays[o].job
      <4>1. j[1] \in Hook /\ j[2] \in Event
        BY <2>1 DEF ReplayAdds, Webhooks!ReplayAdds, ReplaysName, JobsRight, Webhooks!JobId
      <4>2. Webhooks!QueueJobs({j[1]}, j[2], "operator")
        BY <2>1 DEF ReplayAdds, Webhooks!ReplayAdds
      <4> QED BY <4>1, <4>2
    <3>2. faulted' = faulted /\ UNCHANGED <<lookups, fanouts, hook, edited>>
      BY <2>1 DEF ReplayAdds, Webhooks!ReplayAdds, Healthy, HookStep, eventVars
    <3>3. ASSUME NEW h \in Hook, NEW x \in Event
          PROVE  Cardinality(EventJobs(h, x)') = Cardinality(EventJobs(h, x))
                   + (IF "operator" = "event" /\ x = e /\ h \in {g} THEN 1 ELSE 0)
      BY <3>1, CopiesAdded
    <3>4. CountsKept
      BY <3>3, CountIsNat DEF CountsKept
    <3> QED BY <3>2, <3>4, QuietCounts
  <2>2. ASSUME NEW o \in Operator, ReplayRemoves(o) PROVE CountsRight'
    <3> DEFINE j == replays[o].job
    <3>1. /\ jobs' = [jobs EXCEPT ![j].state = "removed"] /\ faulted' = faulted
          /\ UNCHANGED <<lookups, fanouts, hook, edited>>
      BY <2>2 DEF ReplayRemoves, Webhooks!ReplayRemoves, Webhooks!SetState, Healthy,
         HookStep, eventVars
    <3>2. JobsMove
      BY <3>1 DEF JobsMove, JobsRight, JobRight, Webhooks!Job
    <3> QED BY <3>1, <3>2, MoveKeepsCounts, QuietCounts
  <2>3. ASSUME NEW o \in Operator, NEW j, ReplayFinds(o, j) PROVE CountsRight'
    BY <1>1, <2>3 DEF ReplayFinds, Webhooks!ReplayFinds, HookStep, eventVars
  <2>4. ASSUME NEW o \in Operator, ReplayAborts(o) PROVE CountsRight'
    BY <1>1, <2>4 DEF ReplayAborts, Webhooks!ReplayAborts, Fault, HookStep, eventVars
  <2> QED BY <1>7, <2>1, <2>2, <2>3, <2>4 DEF Salvaging
<1>8. CASE Process
  <2>1. CASE Shutdown \/ FlushAtExit \/ Restart
    BY <1>1, <2>1 DEF Shutdown, FlushAtExit, Restart, hookVars, eventVars
  <2>2. CASE ProcessEnds
    <3>1. CountsKept
      BY <2>2, ProcessEndKeepsJobs, MoveKeepsCounts
    <3>2. /\ lookups' = [e \in Event |-> 0] /\ faulted' = TRUE /\ fanouts' = fanouts
      BY <2>2 DEF ProcessEnds, Webhooks!WorkerLost
    <3>3. lookups' \in [Event -> Nat] /\ \A x \in Event : lookups'[x] <= lookups[x]
      BY <3>2 DEF PlainTypes, HookTypes, ProcessTypes
    <3> QED BY <3>1, <3>2, <3>3, LostLookupCounts
  <2> QED BY <1>8, <2>1, <2>2 DEF Process, Exit, Crash
<1>9. CASE UNCHANGED vars
  BY <1>1, <1>9 DEF vars, hookVars, eventVars
<1> QED BY <1>2, <1>3, <1>4, <1>5, <1>6, <1>7, <1>8, <1>9 DEF Next

-----------------------------------------------------------------------------
(* The plain types, step by step.                                          *)
(* The budgets of the environment.                                         *)
LEMMA Spending ==
  ASSUME env \in Scenario, NEW b \in DOMAIN env, Spend(b)
  PROVE  env' \in Scenario
BY DEF Spend, Scenario

(* Every bound a step names is one the scenario has.                       *)
LEMMA Bounds ==
  ASSUME env \in Scenario
  PROVE  {"deliveries", "expiries", "edits", "evictions", "faults", "refusals", "exits",
          "reruns", "salvages"} \subseteq DOMAIN env
BY DEF Scenario

(* No step spends what the scenario does not allow.                        *)
LEMMA StepKeepsEnv ==
  ASSUME env \in Scenario, [Next]_vars
  PROVE  env' \in Scenario
<1> USE Spending, Bounds
<1>1. CASE Emission
  <2>1. ASSUME NEW e, Deliver(e) \/ ClaimExpires(e) PROVE env' \in Scenario
    BY <2>1 DEF Deliver, ClaimExpires
  <2>2. ASSUME NEW e, NEW failed, DeliverRejected(e, failed) PROVE env' \in Scenario
    <3> DEFINE d == env.deliveries - 1
               f == env.faults - 1
    <3>1. env' = [env EXCEPT !.deliveries = d, !.faults = f]
      BY <2>2 DEF DeliverRejected
    <3>2. d \in Nat /\ f \in Nat
      BY <2>2 DEF DeliverRejected, Scenario
    <3> HIDE DEF d, f
    <3> QED BY <3>1, <3>2 DEF Scenario
  <2> QED BY <1>1, <2>1, <2>2 DEF Emission
<1>2. CASE Replaying
  BY <1>2 DEF Replaying, RequestRerun, StartRerun, RerunDone, RerunFails, RerunEmits,
     Rejecting, Fault
<1>3. CASE Storing
  BY <1>3 DEF Storing, FlushTimer, FlushEnds, FlushFails, Fault
<1>4. CASE Matching
  BY <1>4 DEF Matching, LookupFails, Lookup, CacheExpires, EditHook, Rejecting, Fault
<1>5. ASSUME NEW j, Posting(j) PROVE env' \in Scenario
  BY <1>5 DEF Posting, StartAttempt, PostSucceeds, PostFails, RecordSucceeds, RecordFails,
     MoveLands, MoveFails, Healthy, Fault
<1>6. CASE Salvaging
  BY <1>6 DEF Salvaging, ReplayFinds, ReplayAdds, ReplayRemoves, ReplayAborts, Healthy, Fault
<1>7. CASE Process
  BY <1>7 DEF Process, Shutdown, FlushAtExit, Exit, Crash, Restart
<1>8. CASE UNCHANGED vars
  BY <1>8 DEF vars
<1> QED BY <1>1, <1>2, <1>3, <1>4, <1>5, <1>6, <1>7, <1>8 DEF Next


(* Types of the webhooks' state; a call of the replay route names a job    *)
(* as long as no job goes.                                                 *)
LEMMA StepKeepsHooks ==
  ASSUME HookTypes, ReplaysName, DOMAIN jobs \subseteq Webhooks!JobId, [Next]_vars
  PROVE  HookTypes' /\ (DOMAIN jobs \subseteq DOMAIN jobs' => ReplaysName')
<1> USE DEF HookTypes
<1> DEFINE Good == HookTypes' /\ (DOMAIN jobs \subseteq DOMAIN jobs' => ReplaysName')
<1>1. ASSUME UNCHANGED replays PROVE DOMAIN jobs \subseteq DOMAIN jobs' => ReplaysName'
  BY <1>1 DEF ReplaysName
<1>2. ASSUME UNCHANGED <<hook, cache, lookups, got, replays>> PROVE Good
  BY <1>1, <1>2
<1>3. ASSUME NEW e, NEW failed, Webhooks!Dispatch(e, failed) PROVE Good
  <2>1. UNCHANGED <<hook, cache, got, replays>>
    BY <1>3 DEF Webhooks!Dispatch
  <2>2. lookups' \in [Event -> Nat]
    BY <1>3 DEF Webhooks!Dispatch
  <2> QED BY <1>1, <2>1, <2>2
<1>4. CASE Emission
  BY <1>2, <1>3, <1>4 DEF Emission, Deliver, ClaimExpires, DeliverRejected, FanOut, hookVars
<1>5. CASE Replaying
  BY <1>2, <1>3, <1>5 DEF Replaying, RequestRerun, StartRerun, RerunDone, RerunFails, RerunEmits,
     FanOut, hookVars
<1>6. CASE Storing
  BY <1>2, <1>6 DEF Storing, FlushTimer, FlushEnds, FlushFails, hookVars
<1>7. CASE Matching
  <2>1. ASSUME NEW e \in Event, NEW failed, Lookup(e, failed) PROVE Good
    <3>1. /\ lookups[e] > 0 /\ lookups' = [lookups EXCEPT ![e] = @ - 1]
          /\ cache' = [known |-> TRUE, match |-> Webhooks!Enabled]
          /\ UNCHANGED <<hook, got, replays>>
      BY <2>1 DEF Lookup, Webhooks!LookupReply, Webhooks!CacheMatch
    <3>2. Webhooks!Enabled \subseteq Hook
      BY DEF Webhooks!Enabled
    <3> QED BY <1>1, <3>1, <3>2
  <2>2. ASSUME NEW e \in Event, LookupFails(e) PROVE Good
    BY <1>1, <2>2 DEF LookupFails, Webhooks!LookupFails
  <2>3. CASE CacheExpires
    BY <1>1, <2>3 DEF CacheExpires, Webhooks!CacheExpires
  <2>4. ASSUME NEW h \in Hook, NEW s \in Webhooks!HookState, EditHook(h, s) PROVE Good
    BY <1>1, <2>4 DEF EditHook, Webhooks!EditHook
  <2> QED BY <1>7, <2>1, <2>2, <2>3, <2>4 DEF Matching
<1>8. ASSUME NEW j \in DOMAIN jobs, Posting(j) PROVE Good
  <2>1. j[1] \in Hook /\ j[2] \in Event
    BY DEF Webhooks!JobId
  <2>2. UNCHANGED <<hook, cache, lookups, replays>>
    BY <1>8 DEF Posting, StartAttempt, PostSucceeds, PostFails,
       RecordSucceeds, RecordFails, MoveLands, MoveFails, Webhooks!StartAttempt,
       Webhooks!PostSucceeds, Webhooks!PostFails, Webhooks!RecordSucceeds,
       Webhooks!RecordFails, Webhooks!MoveLands, Webhooks!MoveFails
  <2>3. got' = got \/ got' = got \cup {<<j[1], j[2]>>}
    BY <1>8 DEF Posting, StartAttempt, PostSucceeds, PostFails,
       RecordSucceeds, RecordFails, MoveLands, MoveFails, Webhooks!StartAttempt,
       Webhooks!PostSucceeds, Webhooks!PostFails, Webhooks!RecordSucceeds,
       Webhooks!RecordFails, Webhooks!MoveLands, Webhooks!MoveFails
  <2> QED BY <1>1, <2>1, <2>2, <2>3
<1>9. CASE Salvaging
  <2> USE DEF ReplayRecord, Webhooks!ReplayState
  <2>1. ASSUME NEW o \in Operator, NEW j \in DOMAIN jobs, ReplayFinds(o, j) PROVE Good
    <3>1. /\ replays' = [replays EXCEPT ![o] = [at |-> "found", job |-> j]]
          /\ UNCHANGED <<hook, cache, lookups, got>>
      BY <2>1 DEF ReplayFinds, Webhooks!ReplayFinds
    <3> QED BY <3>1 DEF ReplaysName
  <2>2. ASSUME NEW o \in Operator, ReplayAdds(o) PROVE Good
    <3>1. /\ replays[o].at = "found" /\ replays' = [replays EXCEPT ![o].at = "added"]
          /\ UNCHANGED <<hook, cache, lookups, got>>
      BY <2>2 DEF ReplayAdds, Webhooks!ReplayAdds
    <3> QED BY <3>1 DEF ReplaysName
  <2>3. ASSUME NEW o \in Operator, ReplayRemoves(o) \/ ReplayAborts(o) PROVE Good
    <3>1. /\ replays' = [replays EXCEPT ![o].at = "done"]
          /\ UNCHANGED <<hook, cache, lookups, got>>
      BY <2>3 DEF ReplayRemoves, Webhooks!ReplayRemoves, ReplayAborts, Webhooks!ReplayAborts
    <3> QED BY <3>1 DEF ReplaysName
  <2> QED BY <1>9, <2>1, <2>2, <2>3 DEF Salvaging
<1>10. CASE Process
  <2>1. CASE Shutdown \/ FlushAtExit \/ Restart
    BY <1>2, <2>1 DEF Shutdown, FlushAtExit, Restart, hookVars
  <2>2. CASE ProcessEnds
    <3>1. /\ cache' = [known |-> FALSE, match |-> {}] /\ lookups' = [e \in Event |-> 0]
          /\ UNCHANGED <<hook, replays>>
      BY <2>2 DEF ProcessEnds, Webhooks!WorkerLost
    <3>2. got' \subseteq Hook \X Event
      <4>1. PICK reached \in SUBSET DOMAIN jobs :
              got' = got \cup {<<j[1], j[2]>> : j \in reached}
        BY <2>2 DEF ProcessEnds, Webhooks!WorkerLost, Webhooks!InState
      <4>2. \A j \in reached : j[1] \in Hook /\ j[2] \in Event
        BY DEF Webhooks!JobId
      <4> QED BY <4>1, <4>2
    <3> QED BY <1>1, <3>1, <3>2
  <2> QED BY <1>10, <2>1, <2>2 DEF Process, Exit, Crash
<1>11. CASE UNCHANGED vars
  BY <1>2, <1>11 DEF vars, hookVars
<1> QED BY <1>4, <1>5, <1>6, <1>7, <1>8, <1>9, <1>10, <1>11 DEF Next


(* Types of the state of the process.                                      *)
LEMMA StepKeepsProcess ==
  ASSUME ProcessTypes, RerunsName, [Next]_vars
  PROVE  ProcessTypes'
<1> USE DEF ProcessTypes, Phase
<1>1. ASSUME UNCHANGED eventVars, phase' \in Phase, faulted' \in BOOLEAN, edited' \in BOOLEAN
      PROVE  ProcessTypes'
  BY <1>1 DEF eventVars
<1>2. ASSUME NEW e \in Event, NEW replayed, NEW failed, FanOut(e, replayed, failed)
      PROVE  answered' \in [Event -> Nat] /\ fanouts' \in [Event -> Nat]
  <2>1. /\ fanouts' = [fanouts EXCEPT ![e] = @ + 1]
        /\ answered' = answered \/ answered' = [answered EXCEPT ![e] = @ + 1]
    BY <1>2 DEF FanOut
  <2> QED BY <2>1
<1>3. CASE Emission
  <2>1. ASSUME NEW e \in Event, Deliver(e) PROVE ProcessTypes'
    BY <1>2, <2>1 DEF Deliver
  <2>2. ASSUME NEW e \in Event, ClaimExpires(e) PROVE ProcessTypes'
    BY <2>2 DEF ClaimExpires
  <2>3. ASSUME NEW e \in Event, NEW failed, DeliverRejected(e, failed) PROVE ProcessTypes'
    BY <1>2, <2>3 DEF DeliverRejected
  <2> QED BY <1>3, <2>1, <2>2, <2>3 DEF Emission
<1>4. CASE Replaying
  <2>1. ASSUME NEW r \in Rerun, NEW failed, RerunEmits(r, failed) PROVE ProcessTypes'
    <3>1. faulted' \in BOOLEAN
      BY <2>1 DEF RerunEmits, Rejecting, Fault
    <3>2. reruns[r].event \in Event
      BY <2>1 DEF RerunEmits, RerunsName
    <3> QED BY <1>2, <2>1, <3>1, <3>2 DEF RerunEmits
  <2>2. ASSUME NEW r, NEW e, RequestRerun(r, e) PROVE ProcessTypes'
    BY <1>1, <2>2 DEF RequestRerun
  <2>3. ASSUME NEW r, StartRerun(r) \/ RerunDone(r) \/ RerunFails(r) PROVE ProcessTypes'
    BY <1>1, <2>3 DEF StartRerun, RerunDone, RerunFails, Fault
  <2> QED BY <1>4, <2>1, <2>2, <2>3 DEF Replaying
<1>5. CASE Storing
  <2>1. CASE FlushTimer
    BY <1>1, <2>1 DEF FlushTimer
  <2>2. CASE FlushEnds
    BY <1>1, <2>2 DEF FlushEnds, AfterFlush
  <2>3. CASE FlushFails
    BY <1>1, <2>3 DEF FlushFails, AfterFlush, Fault
  <2> QED BY <1>5, <2>1, <2>2, <2>3 DEF Storing
<1>6. CASE Matching
  BY <1>1, <1>6 DEF Matching, LookupFails, Lookup, CacheExpires, EditHook, Rejecting, Fault,
     HookStep
<1>7. ASSUME NEW j, Posting(j) PROVE ProcessTypes'
  BY <1>1, <1>7 DEF Posting, StartAttempt, PostSucceeds, PostFails, RecordSucceeds, RecordFails,
     MoveLands, MoveFails, Healthy, Fault, HookStep
<1>8. CASE Salvaging
  BY <1>1, <1>8 DEF Salvaging, ReplayFinds, ReplayAdds, ReplayRemoves, ReplayAborts, Healthy,
     Fault, HookStep
<1>9. CASE Process
  <2>1. CASE Shutdown \/ FlushAtExit \/ Restart
    BY <1>1, <2>1 DEF Shutdown, FlushAtExit, Restart
  <2>2. CASE ProcessEnds
    BY <2>2 DEF ProcessEnds
  <2> QED BY <1>9, <2>1, <2>2 DEF Process, Exit, Crash
<1>10. CASE UNCHANGED vars
  BY <1>1, <1>10 DEF vars
<1> QED BY <1>3, <1>4, <1>5, <1>6, <1>7, <1>8, <1>9, <1>10 DEF Next

-----------------------------------------------------------------------------
(* Until a webhook is edited, a cached match is what the table holds: only *)
(* a lookup fills the cache, and it reads the table in the same step.      *)
LEMMA StepKeepsCache ==
  ASSUME CacheFresh, [Next]_vars
  PROVE  CacheFresh'
<1>1. ASSUME hook' = hook, (cache' = cache \/ cache'.known = FALSE), edited' = edited
      PROVE  CacheFresh'
  BY <1>1 DEF CacheFresh, Webhooks!Enabled
<1>2. ASSUME NEW e, NEW failed, Webhooks!Dispatch(e, failed), edited' = edited
      PROVE  CacheFresh'
  BY <1>1, <1>2 DEF Webhooks!Dispatch
<1>3. CASE Emission
  BY <1>1, <1>2, <1>3 DEF Emission, Deliver, ClaimExpires, DeliverRejected, FanOut, hookVars
<1>4. CASE Replaying
  BY <1>1, <1>2, <1>4 DEF Replaying, RequestRerun, StartRerun, RerunDone, RerunFails, RerunEmits,
     FanOut, hookVars
<1>5. CASE Storing
  BY <1>1, <1>5 DEF Storing, FlushTimer, FlushEnds, FlushFails, hookVars
<1>6. CASE Matching
  <2>1. ASSUME NEW e, NEW failed, Lookup(e, failed) PROVE CacheFresh'
    BY <2>1 DEF Lookup, Webhooks!LookupReply, Webhooks!CacheMatch, CacheFresh, Webhooks!Enabled
  <2>2. ASSUME NEW e, LookupFails(e) PROVE CacheFresh'
    BY <1>1, <2>2 DEF LookupFails, Webhooks!LookupFails, HookStep
  <2>3. CASE CacheExpires
    BY <1>1, <2>3 DEF CacheExpires, Webhooks!CacheExpires, HookStep
  <2>4. ASSUME NEW h, NEW s, EditHook(h, s) PROVE CacheFresh'
    BY <2>4 DEF EditHook, CacheFresh
  <2> QED BY <1>6, <2>1, <2>2, <2>3, <2>4 DEF Matching
<1>7. ASSUME NEW j, Posting(j) PROVE CacheFresh'
  BY <1>1, <1>7 DEF Posting, StartAttempt, PostSucceeds, PostFails, RecordSucceeds, RecordFails,
     MoveLands, MoveFails, HookStep, Webhooks!StartAttempt, Webhooks!PostSucceeds,
     Webhooks!PostFails, Webhooks!RecordSucceeds, Webhooks!RecordFails, Webhooks!MoveLands,
     Webhooks!MoveFails
<1>8. CASE Salvaging
  BY <1>1, <1>8 DEF Salvaging, ReplayFinds, ReplayAdds, ReplayRemoves, ReplayAborts, HookStep,
     Webhooks!ReplayFinds, Webhooks!ReplayAdds, Webhooks!ReplayRemoves, Webhooks!ReplayAborts
<1>9. CASE Process
  <2>1. CASE Shutdown \/ FlushAtExit \/ Restart
    BY <1>1, <2>1 DEF Shutdown, FlushAtExit, Restart, hookVars
  <2>2. CASE ProcessEnds
    BY <1>1, <2>2 DEF ProcessEnds, Webhooks!WorkerLost
  <2> QED BY <1>9, <2>1, <2>2 DEF Process, Exit, Crash
<1>10. CASE UNCHANGED vars
  BY <1>1, <1>10 DEF vars, hookVars
<1> QED BY <1>3, <1>4, <1>5, <1>6, <1>7, <1>8, <1>9, <1>10 DEF Next

(* Only an event that is not claimed is answered, and its claim, or the    *)
(* store that has accepted it, stands until the count starts anew.         *)
LEMMA StepKeepsAnswers ==
  ASSUME ProcessTypes, AnswersCounted, [Next]_vars
  PROVE  AnswersCounted'
<1> USE DEF ProcessTypes
<1>1. ASSUME answered' = answered, claimed \subseteq claimed', accepted \subseteq accepted'
      PROVE  AnswersCounted'
  BY <1>1 DEF AnswersCounted
<1>2. ASSUME NEW e \in Event, NEW failed, Fresh(e), e \notin claimed,
             claimed' = claimed \cup ({e} \cap Natural), FanOut(e, FALSE, failed)
      PROVE  AnswersCounted'
  <2>1. answered' = [answered EXCEPT ![e] = @ + 1] /\ accepted' = accepted \cup {e}
    BY <1>2 DEF FanOut, EnqueueRow
  <2>2. answered[e] = 0
    BY <1>2 DEF Fresh, AnswersCounted
  <2>3. answered' = [answered EXCEPT ![e] = 1]
    BY <2>1, <2>2
  <2> QED BY <1>2, <2>1, <2>3 DEF AnswersCounted
<1>3. CASE Emission
  <2>1. ASSUME NEW e \in Event, Deliver(e) PROVE AnswersCounted'
    BY <1>2, <2>1 DEF Deliver
  <2>2. ASSUME NEW e \in Event, ClaimExpires(e) PROVE AnswersCounted'
    BY <2>2 DEF ClaimExpires, AnswersCounted, storeVars
  <2>3. ASSUME NEW e \in Event, NEW failed, DeliverRejected(e, failed) PROVE AnswersCounted'
    BY <1>2, <2>3 DEF DeliverRejected
  <2> QED BY <1>3, <2>1, <2>2, <2>3 DEF Emission
<1>4. CASE Replaying
  <2>1. ASSUME NEW r, NEW failed, RerunEmits(r, failed) PROVE AnswersCounted'
    BY <1>1, <2>1 DEF RerunEmits, FanOut, EnqueueRow
  <2>2. ASSUME NEW r, NEW e, RequestRerun(r, e) PROVE AnswersCounted'
    BY <1>1, <2>2 DEF RequestRerun, eventVars, storeVars
  <2>3. ASSUME NEW r, StartRerun(r) \/ RerunDone(r) \/ RerunFails(r) PROVE AnswersCounted'
    BY <1>1, <2>3 DEF StartRerun, RerunDone, RerunFails, eventVars, storeVars
  <2> QED BY <1>4, <2>1, <2>2, <2>3 DEF Replaying
<1>5. CASE Storing
  BY <1>1, <1>5 DEF Storing, FlushTimer, FlushEnds, FlushFails, TimerFires, WriteLands, WriteFails,
     eventVars
<1>6. CASE Matching
  BY <1>1, <1>6 DEF Matching, LookupFails, Lookup, CacheExpires, EditHook, HookStep,
     eventVars, storeVars
<1>7. ASSUME NEW j, Posting(j) PROVE AnswersCounted'
  BY <1>1, <1>7 DEF Posting, StartAttempt, PostSucceeds, PostFails, RecordSucceeds, RecordFails,
     MoveLands, MoveFails, HookStep, eventVars, storeVars
<1>8. CASE Salvaging
  BY <1>1, <1>8 DEF Salvaging, ReplayFinds, ReplayAdds, ReplayRemoves, ReplayAborts, HookStep,
     eventVars, storeVars
<1>9. CASE Process
  <2>1. CASE Shutdown \/ FlushAtExit \/ Restart
    BY <1>1, <2>1 DEF Shutdown, FlushAtExit, FlushRows, Restart, eventVars, storeVars
  <2>2. CASE ProcessEnds
    BY <2>2 DEF ProcessEnds, AnswersCounted
  <2> QED BY <1>9, <2>1, <2>2 DEF Process, Exit, Crash
<1>10. CASE UNCHANGED vars
  BY <1>1, <1>10 DEF vars, eventVars, storeVars
<1> QED BY <1>3, <1>4, <1>5, <1>6, <1>7, <1>8, <1>9, <1>10 DEF Next

-----------------------------------------------------------------------------
(* The inductive invariant of the pipeline.                                *)
PipelineInv ==
  /\ PlainTypes /\ RerunsName /\ ReplaysName
  /\ JobsRight /\ Numbered
  /\ CacheFresh /\ AnswersCounted /\ CountsRight

(* At the start there is no job, no lookup and no answer.                  *)
LEMMA InitCounts == Init => PipelineInv
<1> SUFFICES ASSUME Init PROVE PipelineInv
  OBVIOUS
<1> USE DEF Init, Webhooks!Init
<1>1. HookTypes
  BY DEF HookTypes, Webhooks!HookState, ReplayRecord, Webhooks!ReplayState
<1>2. ProcessTypes /\ env \in Scenario
  BY PipelineAssumption DEF ProcessTypes, Phase
<1>3. RerunsName
  <2>1. RerunAttempts \in Nat \ {0}
    BY PipelineAssumption
  <2> QED BY <2>1 DEF RerunsName, RerunRecord, RerunState
<1>4. ReplaysName
  BY DEF ReplaysName
<1>5. DOMAIN jobs = {} /\ jobs = [j \in {} |-> jobs[j]]
  OBVIOUS
<1>6. JobsRight
  BY <1>5 DEF JobsRight
<1>7. \A h \in Hook, e \in Event : Webhooks!CopiesOf(h, e) = {} /\ EventJobs(h, e) = {}
  BY <1>5 DEF Webhooks!CopiesOf, EventJobs
<1>8. IsFiniteSet({}) /\ Cardinality({}) = 0
  BY FS_EmptySet
<1>9. Numbered
  <2>1. 1..0 = {}
    OBVIOUS
  <2>2. ASSUME NEW h \in Hook, NEW e \in Event
        PROVE  Webhooks!CopiesOf(h, e) = {<<h, e, i>> : i \in 1..0}
    BY <1>7, <2>1
  <2> QED BY <1>7, <1>8, <2>2 DEF Numbered
<1>10. CacheFresh /\ AnswersCounted
  BY DEF CacheFresh, AnswersCounted
<1>11. CountsRight
  <2>1. \A h \in Hook, e \in Event : Cardinality(EventJobs(h, e)) = 0
    BY <1>7, <1>8
  <2>2. Webhooks!Enabled \subseteq Hook
    BY DEF Webhooks!Enabled
  <2> QED BY <2>1, <2>2 DEF CountsRight, OneJobPerFanout, EveryFanoutQueued
<1> QED BY <1>1, <1>2, <1>3, <1>4, <1>6, <1>9, <1>10, <1>11 DEF PipelineInv, PlainTypes

LEMMA PipelineInductive == Spec => []PipelineInv
<1>1. PipelineInv /\ RerunsName' /\ [Next]_vars => PipelineInv'
  <2> SUFFICES ASSUME PipelineInv, RerunsName', [Next]_vars PROVE PipelineInv'
    OBVIOUS
  <2>1. JobsRight' /\ Numbered' /\ DOMAIN jobs \subseteq DOMAIN jobs'
    BY StepKeepsJobs DEF PipelineInv
  <2>2. HookTypes' /\ ReplaysName'
    BY <2>1, StepKeepsHooks DEF PipelineInv, PlainTypes, JobsRight
  <2>3. ProcessTypes' /\ AnswersCounted'
    BY StepKeepsProcess, StepKeepsAnswers DEF PipelineInv, PlainTypes
  <2>4. (env \in Scenario)'
    BY StepKeepsEnv DEF PipelineInv, PlainTypes
  <2>5. CacheFresh'
    BY StepKeepsCache DEF PipelineInv
  <2>6. CountsRight'
    BY StepKeepsCounts DEF PipelineInv
  <2> QED BY <2>1, <2>2, <2>3, <2>4, <2>5, <2>6 DEF PipelineInv, PlainTypes
<1> QED BY <1>1, InitCounts, RerunsNamed, PTL DEF Spec

(* Every event is accounted for, whatever the scenario: an id is answered  *)
(* once per claim, no handing-over queues two deliveries for a webhook,    *)
(* none is hidden by the match cache, and a delivery the endpoint never    *)
(* took is still queued or in the dead-letter queue unless something other *)
(* than an endpoint failed.                                                *)
THEOREM EventsAreAccounted == Spec => []EventAccounted
<1>1. ASSUME PipelineInv, BatcherTypeOK PROVE EventAccounted
  <2>0. /\ PlainTypes /\ RerunsName /\ ReplaysName /\ JobsRight
        /\ AnswersCounted /\ CountsRight /\ BatcherTypeOK
    BY <1>1 DEF PipelineInv
  <2>1. Webhooks!TypeOK
    <3>1. \A j \in DOMAIN jobs : jobs[j] \in Webhooks!Job
      BY <2>0 DEF JobsRight, JobRight
    <3>2. \A o \in Operator : replays[o].at \in Webhooks!ReplayState
      BY <2>0 DEF PlainTypes, HookTypes, ReplayRecord
    <3> QED BY <2>0, <3>1, <3>2 DEF Webhooks!TypeOK, PlainTypes, HookTypes, JobsRight, ReplaysName
  <2>2. \A r \in Rerun : /\ reruns[r].at \in RerunState
                         /\ reruns[r].made \in 0..RerunAttempts
                         /\ reruns[r].at # "idle" => reruns[r].event \in Event
    BY <2>0 DEF RerunsName, RerunRecord
  <2>3. TypeOK
    <3>1. ProcessTypes /\ env \in Scenario
      BY <2>0 DEF PlainTypes
    <3>2. /\ phase \in Phase /\ claimed \subseteq Natural
          /\ answered \in [Event -> Nat] /\ fanouts \in [Event -> Nat]
          /\ faulted \in BOOLEAN /\ edited \in BOOLEAN
      BY <3>1 DEF ProcessTypes
    <3>3. BatcherTypeOK
      BY <2>0
    <3> QED BY <2>1, <2>2, <3>1, <3>2, <3>3 DEF TypeOK
  <2>4. AnsweredOnce
    <3>1. answered \in [Event -> Nat]
      BY <2>0 DEF PlainTypes, ProcessTypes
    <3>2. ASSUME NEW e \in Event PROVE answered[e] <= 1
      <4>1. answered[e] <= 1 \/ answered[e] <= 0
        BY <2>0 DEF AnswersCounted
      <4>2. answered[e] \in Nat
        BY <3>1
      <4> QED BY <4>1, <4>2
    <3> QED BY <3>2 DEF AnsweredOnce
  <2>5. DeliveryKept
    BY <2>0 DEF DeliveryKept, JobsRight, JobRight
  <2> QED BY <2>0, <2>3, <2>4, <2>5 DEF EventAccounted, CountsRight
<1>2. IInv => BatcherTypeOK
  BY DEF IInv
<1> QED BY <1>1, <1>2, PipelineInductive, RunsTheBatcher, IInvInductive, PTL
=============================================================================
