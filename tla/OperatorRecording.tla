-------------------------- MODULE OperatorRecording --------------------------
(***************************************************************************)
(* One operator recording session: the coordinator's task, the bounded     *)
(* recorder and the framed sink it drives, and the worker threads that do  *)
(* the file operations.  A cancelled or timed-out await does not stop its  *)
(* thread: the sink waits for the thread once more, a second interruption  *)
(* leaves it running beside the clean-up.  Segments have fresh identifiers,*)
(* so only the threads of the session's last segment can overlap.          *)
(* A file's content is its size: two units per whole record, one for the   *)
(* header alone.                                                           *)
(***************************************************************************)
EXTENDS Integers, FiniteSets

CONSTANTS SegmentGoal,   \* _segment_packet_goal
          PacketGoal,    \* _packet_goal, also the delivery's
          MaxSegments,   \* _max_segments
          MaxActive,     \* _max_active_recordings
          MaxInterrupts, \* bound: timeouts and cancellations
          MaxIoFaults    \* bound: file operations that fail

VARIABLES
  rpc,       \* where the task awaits
  again,     \* the sink's CancelledError handler is waiting for its thread
  inner,     \* the segment is given up inside finalize_segment, not in the outer finally
  seg,       \* the segment in progress, 0 for none (recording_id)
  made,      \* segments started
  recorder,  \* BoundedRtpRecorder._state of the segment in progress
  sink,      \* FramedAtomicRecordingSink._state
  packets,   \* the sink's _packets
  total,     \* total_packets
  written,   \* [segment -> packets it had when its sink was finalized]
  receipts,  \* segments with a receipt
  jobs,      \* file threads: [kind, at]
  disk,      \* [segment -> its files]
  own,       \* the attempt's _owns_lock, _owns_staging and the sink's open _file
  active,    \* _active_recordings
  cut,       \* the clean-up itself was cancelled
  stuck,     \* a file could not be removed, or a thread that creates one was left behind
  rfaults, interrupts

recvars == <<rpc, again, inner, seg, made, recorder, sink, packets, total, written, receipts, jobs,
             disk, own, active, cut, stuck, rfaults, interrupts>>

Segments == 1..MaxSegments
Absent == -1
NoFiles == [lock |-> FALSE, stage |-> Absent, media |-> Absent, dstage |-> Absent, desc |-> Absent]
NoOwn == [lock |-> FALSE, stage |-> FALSE, file |-> FALSE]

Job(k, a) == [kind |-> k, at |-> a]
Running == {j \in jobs : j.at \notin {"done", "failed"}}
Ended(k) == {j \in jobs : j.kind = k /\ j.at \in {"done", "failed"}}

RecInit ==
  /\ rpc = "idle" /\ again = FALSE /\ inner = FALSE /\ seg = 0 /\ made = 0
  /\ recorder = "none" /\ sink = "none" /\ packets = 0 /\ total = 0
  /\ written = [i \in Segments |-> 0] /\ receipts = {} /\ jobs = {}
  /\ disk = [i \in Segments |-> NoFiles] /\ own = NoOwn
  /\ active \in 0..MaxActive /\ cut = FALSE /\ stuck = FALSE
  /\ rfaults = 0 /\ interrupts = 0

-----------------------------------------------------------------------------
(* The file threads, one file operation per step.                          *)

Step(j, at) == jobs' = (jobs \ {j}) \cup {Job(j.kind, at)}
Fails(j) == Step(j, "failed")
IoFault == rfaults < MaxIoFaults /\ rfaults' = rfaults + 1
Files(f) == disk' = [disk EXCEPT ![seg] = f]
F == disk[seg]

LockForgotten(f) == [f EXCEPT !.stage = IF own.stage THEN Absent ELSE @]
\* RecordingAttempt._remove_staging and _release_lock.
CleanedUp(f) == [f EXCEPT !.stage = IF own.stage THEN Absent ELSE @,
                          !.lock = IF own.lock THEN FALSE ELSE @]

\* acquire_staging and _open_sync.
OpenLock(j) == /\ j = Job("open", "lock")
               /\ \/ Files([F EXCEPT !.lock = TRUE]) /\ own' = [own EXCEPT !.lock = TRUE]
                     /\ Step(j, "stage") /\ UNCHANGED rfaults
                  \/ IoFault /\ Fails(j) /\ UNCHANGED <<disk, own>>
               /\ UNCHANGED stuck
OpenStage(j) == /\ j = Job("open", "stage")
                /\ \/ Files([F EXCEPT !.stage = 0])
                      /\ own' = [own EXCEPT !.stage = TRUE] /\ Step(j, "done") /\ UNCHANGED rfaults
                   \/ IoFault /\ Fails(j) /\ Files(CleanedUp(F)) /\ own' = NoOwn
                /\ UNCHANGED stuck

\* _write_record_sync: header, then payload; a closed file raises.
WriteHalf(j) == /\ j.kind = "write" /\ j.at \in {"header", "payload"}
                /\ \/ own.file /\ F.stage # Absent /\ Files([F EXCEPT !.stage = @ + 1])
                      /\ Step(j, IF j.at = "header" THEN "payload" ELSE "done")
                      /\ UNCHANGED rfaults
                   \/ ~own.file /\ Fails(j) /\ UNCHANGED <<disk, rfaults>>
                   \/ IoFault /\ Fails(j) /\ UNCHANGED disk
                /\ UNCHANGED <<own, stuck>>

\* _finalize_sync: flush and close, then RecordingAttempt.publish.
FinalClose(j) == /\ j = Job("finalize", "close")
                 /\ \/ own.file /\ own' = [own EXCEPT !.file = FALSE] /\ Step(j, "link")
                       /\ UNCHANGED rfaults
                    \/ ~own.file /\ Fails(j) /\ UNCHANGED <<own, rfaults>>
                    \/ IoFault /\ Fails(j) /\ UNCHANGED own
                 /\ UNCHANGED <<disk, stuck>>
FinalLink(j) == /\ j = Job("finalize", "link")
                /\ \/ own.lock /\ own.stage /\ F.stage # Absent
                      /\ Files([F EXCEPT !.media = F.stage]) /\ Step(j, "unlink")
                      /\ UNCHANGED rfaults
                   \/ ~(own.lock /\ own.stage /\ F.stage # Absent) /\ Fails(j)
                      /\ UNCHANGED <<disk, rfaults>>
                   \/ IoFault /\ Fails(j) /\ UNCHANGED disk
                /\ UNCHANGED <<own, stuck>>

\* rollback_published: the published file is removed again.
RollbackPublished(f) == [f EXCEPT !.media = Absent]

\* publish fails after the link: roll back and clean up.
PublishFails(j) == /\ Files(RollbackPublished(CleanedUp(F))) /\ own' = NoOwn /\ Fails(j)
FinalUnlink(j) == /\ j = Job("finalize", "unlink")
                  /\ \/ F.stage # Absent /\ Files([F EXCEPT !.stage = Absent])
                        /\ own' = [own EXCEPT !.stage = FALSE] /\ Step(j, "unlock")
                        /\ UNCHANGED rfaults
                     \/ F.stage = Absent /\ PublishFails(j) /\ UNCHANGED rfaults
                     \/ IoFault /\ PublishFails(j)
                  /\ UNCHANGED stuck
FinalUnlock(j) == /\ j = Job("finalize", "unlock")
                  /\ \/ Files([F EXCEPT !.lock = IF own.lock THEN FALSE ELSE @])
                        /\ own' = [own EXCEPT !.lock = FALSE] /\ Step(j, "done") /\ UNCHANGED rfaults
                     \/ IoFault /\ PublishFails(j)
                  /\ UNCHANGED stuck

\* _abort_sync: close, then cleanup, which tries both files.
AbortClose(j) == /\ j = Job("abort", "close") /\ own' = [own EXCEPT !.file = FALSE]
                 /\ Step(j, "stage") /\ UNCHANGED <<disk, rfaults, stuck>>
AbortStage(j) == /\ j = Job("abort", "stage")
                 /\ \/ Files([F EXCEPT !.stage = IF own.stage THEN Absent ELSE @])
                       /\ own' = [own EXCEPT !.stage = FALSE] /\ UNCHANGED <<rfaults, stuck>>
                    \/ own.stage /\ IoFault /\ stuck' = TRUE /\ UNCHANGED <<disk, own>>
                 /\ Step(j, "unlock")
AbortUnlock(j) == /\ j = Job("abort", "unlock")
                  /\ \/ Files([F EXCEPT !.lock = IF own.lock THEN FALSE ELSE @])
                        /\ own' = [own EXCEPT !.lock = FALSE]
                        /\ Step(j, IF own.stage THEN "failed" ELSE "done")
                        /\ UNCHANGED <<rfaults, stuck>>
                     \/ own.lock /\ IoFault /\ stuck' = TRUE /\ Fails(j) /\ UNCHANGED <<disk, own>>

\* _write_descriptor_sync: staged, then renamed.
DescribeStage(j) == /\ j = Job("describe", "stage")
                    /\ \/ Files([F EXCEPT !.dstage = 2 * written[seg]]) /\ Step(j, "replace")
                          /\ UNCHANGED rfaults
                       \/ IoFault /\ Fails(j) /\ UNCHANGED disk
                    /\ UNCHANGED <<own, stuck>>
DescribeReplace(j) == /\ j = Job("describe", "replace")
                      /\ \/ F.dstage # Absent
                            /\ Files([F EXCEPT !.desc = F.dstage, !.dstage = Absent])
                            /\ Step(j, "done") /\ UNCHANGED rfaults
                         \/ F.dstage = Absent /\ Fails(j) /\ UNCHANGED <<disk, rfaults>>
                         \/ IoFault /\ Fails(j) /\ Files([F EXCEPT !.dstage = Absent])
                      /\ UNCHANGED <<own, stuck>>

\* _delete_recording_pair_best_effort: media, descriptor, staged descriptor.
DeleteOne(j) ==
  /\ j.kind = "delete" /\ j.at \in {"media", "desc", "dstage"}
  /\ \/ Files([F EXCEPT ![j.at] = Absent]) /\ UNCHANGED <<rfaults, stuck>>
     \/ F[j.at] # Absent /\ IoFault /\ stuck' = TRUE /\ UNCHANGED disk
  /\ Step(j, CASE j.at = "media" -> "desc" [] j.at = "desc" -> "dstage" [] OTHER -> "done")
  /\ UNCHANGED own

ThreadStep ==
  /\ \E j \in Running :
       \/ OpenLock(j) \/ OpenStage(j) \/ WriteHalf(j)
       \/ FinalClose(j) \/ FinalLink(j) \/ FinalUnlink(j) \/ FinalUnlock(j)
       \/ AbortClose(j) \/ AbortStage(j) \/ AbortUnlock(j)
       \/ DescribeStage(j) \/ DescribeReplace(j) \/ DeleteOne(j)
  /\ UNCHANGED <<rpc, again, inner, seg, made, recorder, sink, packets, total, written, receipts,
                 active, cut, interrupts>>

-----------------------------------------------------------------------------
(* The task: reservation and delivery.                                     *)

Start(k, a) == jobs' = {j \in Running : j.kind # k} \cup {Job(k, a)}

Reserve == /\ rpc = "idle"
           /\ IF active >= MaxActive THEN rpc' = "refused" /\ UNCHANGED active
              ELSE rpc' = "resolve" /\ active' = active + 1
           /\ UNCHANGED <<again, inner, seg, made, recorder, sink, packets, total, written,
                          receipts, jobs, disk, own, cut, stuck, rfaults, interrupts>>
Resolve == /\ rpc = "resolve" /\ rpc' = "deliver"
           /\ UNCHANGED <<again, inner, seg, made, recorder, sink, packets, total, written,
                          receipts, jobs, disk, own, active, cut, stuck, rfaults, interrupts>>

\* The source cannot be resolved, the relay fails, the delivery times out, a
\* packet has another payload type, or the segments are used up.
DeliveryFails == /\ rpc \in {"resolve", "deliver"} /\ rpc' = "unwind"
                 /\ UNCHANGED <<again, inner, seg, made, recorder, sink, packets, total, written,
                                receipts, jobs, disk, own, active, cut, stuck, rfaults, interrupts>>

\* consume: the first packet of a segment opens its sink.
StartSegment == /\ rpc = "deliver" /\ total < PacketGoal /\ seg = 0 /\ made < MaxSegments
                /\ seg' = made + 1 /\ made' = made + 1
                /\ recorder' = "created" /\ sink' = "created" /\ packets' = 0 /\ own' = NoOwn
                /\ Start("open", "lock") /\ rpc' = "opening"
                /\ UNCHANGED <<again, inner, total, written, receipts, disk, active, cut, stuck,
                               rfaults, interrupts>>
ConsumePacket == /\ rpc = "deliver" /\ total < PacketGoal /\ seg # 0
                 /\ Start("write", "header") /\ rpc' = "writing"
                 /\ UNCHANGED <<again, inner, seg, made, recorder, sink, packets, total, written,
                                receipts, disk, own, active, cut, stuck, rfaults, interrupts>>
\* The delivery has its packets: finalize_segment for the rest, or the receipt.
DeliveryEnds == /\ rpc = "deliver" /\ total = PacketGoal
                /\ IF seg # 0 THEN Start("finalize", "close") /\ rpc' = "finalizing"
                   ELSE rpc' = "unwind" /\ UNCHANGED jobs
                /\ UNCHANGED <<again, inner, seg, made, recorder, sink, packets, total, written,
                               receipts, disk, own, active, cut, stuck, rfaults, interrupts>>

OpenDone == /\ rpc = "opening" /\ ~again /\ Job("open", "done") \in jobs
            /\ own' = [own EXCEPT !.file = TRUE] /\ sink' = "open" /\ recorder' = "recording"
            /\ Start("write", "header") /\ rpc' = "writing"
            /\ UNCHANGED <<again, inner, seg, made, packets, total, written, receipts, disk, active,
                           cut, stuck, rfaults, interrupts>>
WriteDone == /\ rpc = "writing" /\ ~again /\ Job("write", "done") \in jobs
             /\ packets' = packets + 1 /\ total' = total + 1
             /\ IF packets + 1 >= SegmentGoal THEN Start("finalize", "close") /\ rpc' = "finalizing"
                ELSE rpc' = "deliver" /\ jobs' = {}
             /\ UNCHANGED <<again, inner, seg, made, recorder, sink, written, receipts, disk, own,
                            active, cut, stuck, rfaults, interrupts>>
FinalizeDone == /\ rpc = "finalizing" /\ ~again /\ Job("finalize", "done") \in jobs
                /\ sink' = "finalized" /\ recorder' = "finalized"
                /\ written' = [written EXCEPT ![seg] = packets]
                /\ Start("describe", "stage") /\ rpc' = "describing"
                /\ UNCHANGED <<again, inner, seg, made, packets, total, receipts, disk, own, active,
                               cut, stuck, rfaults, interrupts>>

ForgetSegment == seg' = 0
\* The receipt: the segment is no longer the session's to clean up.
DescribeDone == /\ rpc = "describing" /\ Job("describe", "done") \in jobs
                /\ receipts' = receipts \cup {seg} /\ ForgetSegment /\ jobs' = {}
                /\ rpc' = "deliver"
                /\ UNCHANGED <<again, inner, made, recorder, sink, packets, total, written, disk,
                               own, active, cut, stuck, rfaults, interrupts>>

-----------------------------------------------------------------------------
(* The task: failures and interruptions.                                   *)

SinkOp == CASE rpc = "opening" -> "open" [] rpc = "writing" -> "write"
            [] rpc = "finalizing" -> "finalize" [] OTHER -> "abort"
InSink == rpc \in {"opening", "writing", "finalizing"}

\* The recorder gives up: _abort_sink_best_effort unless the sink is aborted.
GiveUp(s, r, caught) ==
  /\ sink' = s /\ recorder' = r /\ inner' = caught /\ again' = FALSE
  /\ IF s = "aborted" THEN rpc' = "unwind" ELSE rpc' = "abortSink"

\* The thread reports failure; finalize deletes the part itself.
SinkFails == /\ InSink /\ ~again /\ Job(SinkOp, "failed") \in jobs
             /\ GiveUp("failed", "failed", rpc = "finalizing") /\ Start("abort", "close")
             /\ UNCHANGED <<seg, made, packets, total, written, receipts, disk, own, active, cut,
                            stuck, rfaults, interrupts>>

\* A timeout or cancellation reaches the sink: it waits for its thread.
SinkInterrupted == /\ InSink /\ ~again /\ interrupts < MaxInterrupts
                   /\ again' = TRUE /\ interrupts' = interrupts + 1
                   /\ UNCHANGED <<rpc, inner, seg, made, recorder, sink, packets, total, written,
                                  receipts, jobs, disk, own, active, cut, stuck, rfaults>>
\* The thread has ended: what it published is rolled back, the attempt removed.
SinkReconciles(r) ==
  /\ InSink /\ again /\ Ended(SinkOp) # {} /\ r \in {"aborted", "failed"}
  /\ Files(IF Job("finalize", "done") \in jobs THEN RollbackPublished(CleanedUp(F))
           ELSE CleanedUp(F))
  /\ own' = NoOwn /\ jobs' = {}
  /\ GiveUp("aborted", r, r = "failed" /\ rpc = "finalizing")
  /\ UNCHANGED <<seg, made, packets, total, written, receipts, active, cut, stuck, rfaults,
                 interrupts>>
\* A second interruption leaves the handler; the thread goes on.  The delivery's
\* timeout around consume and the recorder's own are both three seconds, so a
\* stalled file operation meets both.  A thread that is still opening then
\* creates its staging file behind the clean-up.
SinkAbandoned == /\ InSink /\ again /\ interrupts < MaxInterrupts
                 /\ interrupts' = interrupts + 1
                 /\ GiveUp(sink, "aborted", FALSE) /\ Start("abort", "close")
                 /\ stuck' = (stuck \/ \E j \in Running : j.kind = "open")
                 /\ UNCHANGED <<seg, made, packets, total, written, receipts, disk, own, active,
                                cut, rfaults>>

\* sink.abort ends, or is interrupted twice; errors are swallowed.  A thread that
\* was left behind while publishing may then publish behind the deletion too.
AbortEnds == /\ rpc = "abortSink"
             /\ \/ Ended("abort") # {} /\ UNCHANGED <<interrupts, stuck>>
                   /\ sink' = IF Job("abort", "done") \in jobs THEN "aborted" ELSE "failed"
                \/ again /\ interrupts < MaxInterrupts /\ interrupts' = interrupts + 1
                   /\ stuck' = (stuck \/ \E j \in Running : j.kind = "finalize")
                   /\ UNCHANGED sink
             /\ again' = FALSE /\ rpc' = "unwind"
             /\ UNCHANGED <<inner, seg, made, recorder, packets, total, written, receipts, jobs,
                            disk, own, active, cut, rfaults>>
AbortInterrupted == /\ rpc = "abortSink" /\ ~again /\ interrupts < MaxInterrupts
                    /\ again' = TRUE /\ interrupts' = interrupts + 1
                    /\ UNCHANGED <<rpc, inner, seg, made, recorder, sink, packets, total, written,
                                   receipts, jobs, disk, own, active, cut, stuck, rfaults>>

\* The descriptor cannot be written, or its await is interrupted: the thread
\* that writes it is not waited for.
DescribeFails == /\ rpc = "describing" /\ rpc' = "unwind"
                 /\ \/ Job("describe", "failed") \in jobs /\ inner' = TRUE /\ UNCHANGED interrupts
                    \/ interrupts < MaxInterrupts /\ interrupts' = interrupts + 1 /\ inner' = FALSE
                 /\ UNCHANGED <<again, seg, made, recorder, sink, packets, total, written, receipts,
                                jobs, disk, own, active, cut, stuck, rfaults>>

\* abort_active_segment: abort a recorder that is neither finalized nor
\* aborted, then delete the pair.
UnwindAbort == /\ rpc = "unwind" /\ seg # 0 /\ recorder \notin {"finalized", "aborted"}
               /\ recorder' = "aborted"
               /\ IF sink = "aborted" THEN UNCHANGED <<rpc, jobs>>
                  ELSE rpc' = "abortSink" /\ Start("abort", "close")
               /\ UNCHANGED <<again, inner, seg, made, sink, packets, total, written, receipts,
                              disk, own, active, cut, stuck, rfaults, interrupts>>
UnwindDelete == /\ rpc = "unwind" /\ seg # 0 /\ recorder \in {"finalized", "aborted"}
                /\ Start("delete", "media") /\ rpc' = "deleting"
                /\ UNCHANGED <<again, inner, seg, made, recorder, sink, packets, total, written,
                               receipts, disk, own, active, cut, stuck, rfaults, interrupts>>
\* The session ends; the deleted segment's lingering threads may still run.
DeleteDone == /\ rpc = "deleting" /\ Job("delete", "done") \in jobs
              /\ rpc' = "ended" /\ active' = active - 1
              /\ UNCHANGED <<again, inner, seg, made, recorder, sink, packets, total, written,
                             receipts, jobs, disk, own, cut, stuck, rfaults, interrupts>>
\* Interrupted inside finalize_segment the outer finally deletes again;
\* interrupted there, the reservation is not released.
DeleteInterrupted == /\ rpc = "deleting" /\ interrupts < MaxInterrupts
                     /\ interrupts' = interrupts + 1 /\ inner' = FALSE
                     /\ IF inner THEN rpc' = "unwind" /\ UNCHANGED cut
                        ELSE rpc' = "ended" /\ cut' = TRUE
                     /\ UNCHANGED <<again, seg, made, recorder, sink, packets, total, written,
                                    receipts, jobs, disk, own, active, stuck, rfaults>>
Release == /\ rpc = "unwind" /\ seg = 0
           /\ rpc' = "ended" /\ active' = active - 1
           /\ UNCHANGED <<again, inner, seg, made, recorder, sink, packets, total, written,
                          receipts, jobs, disk, own, cut, stuck, rfaults, interrupts>>

-----------------------------------------------------------------------------
RecNext == \/ ThreadStep
           \/ Reserve \/ Resolve \/ DeliveryFails \/ StartSegment \/ ConsumePacket \/ DeliveryEnds
           \/ OpenDone \/ WriteDone \/ FinalizeDone \/ DescribeDone
           \/ SinkFails \/ SinkInterrupted \/ SinkAbandoned \/ AbortEnds \/ AbortInterrupted
           \/ \E r \in {"aborted", "failed"} : SinkReconciles(r)
           \/ DescribeFails \/ UnwindAbort \/ UnwindDelete \/ DeleteDone \/ DeleteInterrupted
           \/ Release
RecSpec == RecInit /\ [][RecNext]_recvars

\* BoundedRecordingCatalog.recover: pairs whose media has the described size.
Recovered == {i \in Segments : disk[i].desc # Absent /\ disk[i].media = disk[i].desc}

-----------------------------------------------------------------------------
(* Properties.                                                             *)

\* A segment with a receipt stays in the catalogue, whole, whatever happens to
\* the session afterwards: failures, timeouts and clean-up of a later segment.
FinishedSegmentsKept ==
  \A i \in receipts : i \in Recovered /\ disk[i].media = 2 * written[i] /\ written[i] > 0

\* A published file is never torn, and once the session and its threads have
\* ended an unfinished segment leaves neither media nor lock nor staging file
\* (unless the system refused to remove it, or the thread opening it was left
\* behind by two interruptions, or the one publishing it by four), so the
\* catalogue lists exactly the segments with a receipt.
NothingHalfRecorded ==
  /\ \A i \in Segments : disk[i].media # Absent => disk[i].media % 2 = 0
  /\ (rpc = "ended" /\ Running = {} /\ ~stuck) =>
       /\ Recovered = receipts
       /\ \A i \in Segments \ receipts :
            disk[i].media = Absent /\ disk[i].stage = Absent /\ ~disk[i].lock

-----------------------------------------------------------------------------
(* What makes them inductive.                                              *)

FileSizes == Nat \cup {Absent}
\* The session's segments have a receipt, except the one in progress; the others do
\* not exist yet.  The attempt knows which files it has created.
SegmentsSound ==
  /\ made \in 0..MaxSegments /\ seg \in {0, made} /\ receipts = (1..made) \ {seg}
  /\ packets \in Nat /\ written \in [Segments -> Nat] /\ stuck \in BOOLEAN
  /\ disk \in [Segments -> [lock : BOOLEAN, stage : FileSizes, media : FileSizes,
                            dstage : FileSizes, desc : FileSizes]]
  /\ own \in [lock : BOOLEAN, stage : BOOLEAN, file : BOOLEAN]
  /\ \A i \in Segments : (i > made => disk[i] = NoFiles) /\ (disk[i].media # Absent => disk[i].media % 2 = 0)
  /\ seg # 0 => own.lock = F.lock /\ (own.stage <=> F.stage # Absent)

\* Beside the thread of the file operation the session is at there are at most a
\* clean-up and a deletion, one of each.
OneEach ==
  \A j, k \in jobs : j.kind = k.kind \/ {j.kind, k.kind} \cap {"abort", "delete"} = {} => j = k
Disowned == ~own.lock /\ ~own.stage /\ ~own.file
Leaving == rpc \in {"unwind", "deleting", "ended"}

\* While the task waits for it a thread leaves whole records; a thread that was left
\* behind finds its files taken away by the clean-up, or a file stays for good.
OpenSound(j) ==
  /\ j \in Running => rpc = "opening" \/ stuck
  /\ rpc = "opening" /\ j.at = "done" => F.stage = 0
WriteSound(j) ==
  rpc = "writing" => /\ j.at = "header" => F.stage = 2 * packets
                     /\ j.at = "payload" => F.stage = 2 * packets + 1
                     /\ j.at = "done" => F.stage = 2 * packets + 2
FinalSound(j) ==
  /\ j.at \in {"close", "link"} => F.stage \in {Absent, 2 * packets}
  /\ j.at \in {"link", "unlink", "unlock", "done"} => ~own.file
  /\ j.at \in {"unlock", "done"} => ~own.stage
  /\ j.at = "done" => ~own.lock
  /\ rpc = "finalizing" /\ j.at \in {"unlink", "unlock", "done"} => F.media = 2 * packets
  /\ j \in Running /\ Leaving => stuck \/ Disowned
DescribeSound(j) ==
  rpc = "describing" => /\ j.at = "replace" => F.dstage = 2 * written[seg]
                        /\ j.at = "done" => F.desc = 2 * written[seg]
AbortSound(j) ==
  /\ j.at \in {"stage", "unlock", "done"} => ~own.file
  /\ j.at \in {"unlock", "done"} => ~own.stage \/ stuck
  /\ j.at = "done" => ~own.lock \/ stuck
  /\ j.at = "failed" => stuck
DeleteSound(j) ==
  /\ Leaving /\ recorder \in {"finalized", "aborted"}
  /\ j.at # "media" => F.media = Absent \/ stuck
ThreadSound(j) ==
  /\ j = Job(j.kind, j.at)
  /\ j.kind = "open" => OpenSound(j)
  /\ j.kind = "write" => WriteSound(j)
  /\ j.kind = "finalize" => FinalSound(j)
  /\ j.kind = "describe" => DescribeSound(j)
  /\ j.kind = "abort" => AbortSound(j)
  /\ j.kind = "delete" => DeleteSound(j)

\* Nothing of the segment is left to remove, or a clean-up that will is running.
Cleaned == stuck \/ Disowned \/ \E j \in Running : j.kind = "abort"
TaskSound ==
  /\ rpc \in {"idle", "refused", "resolve"} => seg = 0
  /\ seg = 0 \/ rpc = "deliver" => jobs = {}
  /\ InSink => seg # 0 /\ \A j \in jobs : j.kind = SinkOp
  /\ rpc = "describing" => seg # 0 /\ \A j \in jobs : j.kind = "describe"
  /\ rpc = "opening" => sink = "created" /\ packets = 0
  /\ rpc \in {"writing", "finalizing"} \/ (rpc = "deliver" /\ seg # 0) => sink = "open" /\ recorder = "recording"
  /\ rpc = "finalizing" \/ (rpc = "deliver" /\ seg # 0) => packets > 0
  /\ rpc = "deliver" /\ seg # 0 => F.stage = 2 * packets
  /\ rpc = "describing" => /\ Disowned /\ recorder = "finalized"
                           /\ F.media = 2 * written[seg] /\ written[seg] > 0
  /\ rpc = "abortSink" => seg # 0 /\ \E j \in jobs : j.kind = "abort"
  /\ rpc = "unwind" /\ seg # 0 => Cleaned \/ (recorder \notin {"finalized", "aborted"} /\ sink # "aborted")
  /\ rpc = "deleting" => seg # 0
  /\ rpc \in {"deleting", "ended"} /\ seg # 0 => Cleaned /\ \E j \in jobs : j.kind = "delete"
RecInv == SegmentsSound /\ OneEach /\ (\A j \in jobs : ThreadSound(j)) /\ TaskSound /\ FinishedSegmentsKept
=============================================================================
