--------------------------- MODULE RecordedPlayback ---------------------------
(***************************************************************************)
(* One playback of a finished recording: the reader and the stages that    *)
(* filter and schedule its packets, the pump that paces them, the pause    *)
(* control that freezes its clock, and the native decoder whose calls run  *)
(* in worker threads.  A recording is the media times of its packets, in   *)
(* ticks; the file holds them as RTP timestamps that wrap at Modulus.      *)
(***************************************************************************)
EXTENDS Integers, Sequences

CONSTANTS Modulus,      \* _RTP_MODULUS
          TicksPerMs,   \* clock_rate_hz / 1000
          Origin,       \* RTP timestamp of the first packet
          MediaTimes,   \* media times of packets, in ticks
          PacketCount,  \* packets of a recording
          Rates,        \* _RATE_RATIO: <<numerator, denominator>>
          WorkBound,    \* consumer_timeout_seconds of the pump
          FrameGoal,    \* most frames one packet decodes to
          MaxTime,      \* bound: the raw clock
          MaxPauses     \* bound: pause requests

VARIABLES
  times,     \* media time of each packet
  file,      \* the records: [ts, ok], ok is the CRC
  described, \* descriptor: [count, duration]
  win,       \* [from, to] in ms
  rate,
  ppc,       \* where the delivery's task is
  read,      \* records read
  ticks,     \* the timeline's elapsed_ticks
  origin,    \* the schedule's origin_ms, -1 before the first packet
  item,      \* the scheduled packet: [at, due]
  got,       \* packets handed to the consumer
  started,   \* virtual time when the pump started
  wake,      \* raw time the sleep ends, -1 when not sleeping
  raw,       \* raw monotonic clock
  pausedAt, pausedTotal, pauses,
  deadline,  \* raw time work_timeout fires, -1 when suspended or absent
  left,      \* what was left of a suspended deadline
  worked,    \* raw time spent on the current packet outside a pause wait
  frames,    \* decoded frames not yet emitted
  op, closer,\* the decoder thread and the thread that closes the decoder
  played     \* how the delivery ended

srcvars == <<times, file, described, win, rate>>
readvars == <<read, ticks, origin, item, got>>
clockvars == <<raw, pausedAt, pausedTotal, pauses>>
workvars == <<deadline, left, worked, frames>>
pbvars == <<srcvars, ppc, readvars, started, wake, clockvars, workvars, op, closer, played>>

None == -1
PbInit ==
  /\ times = <<>> /\ file = <<>> /\ described = [count |-> 0, duration |-> 0]
  /\ win = [from |-> 0, to |-> 0] /\ rate = <<1, 1>> /\ ppc = "idle"
  /\ read = 0 /\ ticks = 0 /\ origin = None /\ item = [at |-> 0, due |-> 0] /\ got = <<>>
  /\ started = 0 /\ wake = None /\ raw = 0 /\ pausedAt = None /\ pausedTotal = 0 /\ pauses = 0
  /\ deadline = None /\ left = 0 /\ worked = 0 /\ frames = 0
  /\ op = "none" /\ closer = "none" /\ played = "none"

-----------------------------------------------------------------------------
(* The recording and the request.                                          *)

Stamp(t) == (Origin + t) % Modulus
\* Media time counts from the first packet; a step is one the timestamps can tell,
\* backwards by half their range or forwards by less than all of it.
Steps == -(Modulus \div 2)..Modulus - 1
Recordings == {t \in [1..PacketCount -> MediaTimes] :
                 t[1] = 0 /\ \A i \in 2..PacketCount : t[i] - t[i - 1] \in Steps}

\* The recorder's descriptor duration: last timestamp minus first, masked.
Duration(ts) == ((Stamp(ts[Len(ts)]) - Stamp(ts[1])) % Modulus) \div TicksPerMs

\* A request for a window of a recording; its file may have been damaged since
\* the descriptor was written, or the descriptor may count other packets.
Play ==
  /\ ppc = "idle" /\ ppc' = "pull"
  /\ \E ts \in Recordings, r \in Rates, bad \in {0, PacketCount}, more \in {0, 1} :
       /\ bad = 0 \/ more = 0
       /\ times' = ts /\ rate' = r
       /\ file' = [i \in 1..PacketCount |-> [ts |-> Stamp(ts[i]), ok |-> i # bad]]
       /\ described' = [count |-> PacketCount + more, duration |-> Duration(ts)]
       /\ \E f, t \in 0..Duration(ts) :
            f <= t /\ (bad + more > 0 => f = t) /\ win' = [from |-> f, to |-> t]
  /\ UNCHANGED <<readvars, started, wake, clockvars, workvars, op, closer, played>>

-----------------------------------------------------------------------------
(* Reading, timing, selecting and scheduling one record.                   *)

\* An error of any stage ends the delivery; its decoder is closed.
Give(o) == /\ played' = o /\ ppc' = "closing" /\ closer' = "queued"
           /\ wake' = None /\ deadline' = None

Delta == IF read = 0 THEN 0 ELSE (file[read + 1].ts - file[read].ts) % Modulus
Elapsed == (ticks + Delta) \div TicksPerMs

\* BoundedPlaybackNavigator: from the first packet at or after the target on.
Navigated(ms) == origin # None \/ ms >= win.from
\* BoundedPlaybackWindow: the inclusive end.
InWindow(ms) == ms <= win.to

Due(ms) == ((ms - (IF origin = None THEN ms ELSE origin)) * rate[2]) \div rate[1]

ReadBad == /\ ppc = "pull" /\ read < Len(file)
           /\ \/ ~file[read + 1].ok
              \/ read + 1 > described.count
              \/ Delta >= Modulus \div 2
           /\ Give("failed")
           /\ UNCHANGED <<srcvars, readvars, started, clockvars, left, worked, frames, op>>

ReadRecord ==
  /\ ppc = "pull" /\ read < Len(file)
  /\ file[read + 1].ok /\ read + 1 <= described.count /\ Delta < Modulus \div 2
  /\ read' = read + 1 /\ ticks' = ticks + Delta
  /\ IF Navigated(Elapsed) /\ InWindow(Elapsed)
     THEN /\ origin' = IF origin = None THEN Elapsed ELSE origin
          /\ item' = [at |-> read + 1, due |-> Due(Elapsed)] /\ ppc' = "pace"
     ELSE UNCHANGED <<origin, item, ppc>>
  /\ UNCHANGED <<srcvars, got, started, wake, clockvars, workvars, op, closer, played>>

\* _validate_complete; then the decoder is flushed.
ReadEnd == /\ ppc = "pull" /\ read = Len(file)
           /\ IF read = described.count
              THEN /\ ppc' = "decode" /\ op' = "queued" /\ deadline' = None
                   /\ item' = [at |-> 0, due |-> 0]
                   /\ UNCHANGED <<played, closer, wake>>
              ELSE Give("failed") /\ UNCHANGED <<op, item>>
           /\ UNCHANGED <<srcvars, read, ticks, origin, got, started, clockvars, left, worked,
                          frames>>

-----------------------------------------------------------------------------
(* The pause control and the pump.                                         *)

Paused == pausedAt # None
\* PlaybackPauseControl.monotonic.
Virtual == (IF Paused THEN pausedAt ELSE raw) - pausedTotal

Pause == /\ ppc \notin {"idle", "closing", "ended"} /\ ~Paused /\ pauses < MaxPauses
         /\ pausedAt' = raw /\ pauses' = pauses + 1
         /\ UNCHANGED <<srcvars, ppc, readvars, started, wake, raw, pausedTotal, workvars, op,
                        closer, played>>
Resume == /\ ppc \notin {"closing", "ended"} /\ Paused /\ pausedTotal' = pausedTotal + (raw - pausedAt) /\ pausedAt' = None
          /\ UNCHANGED <<srcvars, ppc, readvars, started, wake, raw, pauses, workvars, op,
                         closer, played>>

Target == started + item.due
\* sleep ends when virtual time has reached the target, not when a timer fires.
Slept == Virtual >= Target

\* wait_until_running, then either the packet is due or the task sleeps.
Pace == /\ ppc = "pace" /\ ~Paused
        /\ IF Slept THEN ppc' = "admit" /\ wake' = None
           ELSE ppc' = "sleep" /\ wake' = raw + (Target - Virtual)
        /\ UNCHANGED <<srcvars, readvars, started, clockvars, workvars, op, closer, played>>
\* The timer or the pause event, whichever the task sees first.
SleepEnds == /\ ppc = "sleep" /\ (raw >= wake \/ Paused) /\ ppc' = "pace"
             /\ UNCHANGED <<srcvars, readvars, started, wake, clockvars, workvars, op, closer,
                            played>>

\* wait_until_running, then work_timeout around the packet consumer.
Consume == /\ ppc = "admit" /\ ~Paused
           /\ ppc' = "decode" /\ op' = "queued" /\ got' = Append(got, item.at)
           /\ deadline' = raw + WorkBound /\ worked' = 0
           /\ UNCHANGED <<srcvars, read, ticks, origin, item, started, wake, clockvars, left,
                          frames, closer, played>>

Working == ppc \in {"decode", "emit", "frame"} /\ item.at > 0

\* Time passes where the task waits for something.
Tick == /\ ppc \in {"pace", "sleep", "admit", "decode", "frame", "frameWait"} /\ raw < MaxTime
        /\ (Paused \/ ppc \in {"sleep", "decode", "frame"}) /\ raw' = raw + 1
        /\ worked' = IF Working THEN worked + 1 ELSE worked
        /\ UNCHANGED <<srcvars, ppc, readvars, started, wake, pausedAt, pausedTotal, pauses,
                       deadline, left, frames, op, closer, played>>

-----------------------------------------------------------------------------
(* Decoding: a call of the native backend runs in a thread.                *)

\* The thread takes _native_operation_lock and reads the pipeline's handles.
OpStart == /\ op = "queued" /\ closer # "releasing"
           /\ op' = IF closer = "released" THEN "null" ELSE "native"
           /\ UNCHANGED <<srcvars, ppc, readvars, started, wake, clockvars, workvars, closer,
                          played>>
\* _drain: the samples the sink has ready, up to the per-packet limit.
Drained == 0..FrameGoal
\* It returns: the awaiting task gets frames or an error, if it still waits.
OpReturns == /\ op \in {"native", "null"} /\ op' = "none"
             /\ \/ ppc # "decode" /\ UNCHANGED <<ppc, frames, played, closer, wake, deadline>>
                \/ /\ ppc = "decode" /\ op = "native"
                   /\ frames' \in Drained
                   /\ ppc' = "emit" /\ UNCHANGED <<played, closer, wake, deadline>>
                \/ ppc = "decode" /\ Give("failed") /\ UNCHANGED frames
             /\ UNCHANGED <<srcvars, readvars, started, clockvars, left, worked>>
\* The decoder's own timeout: the thread goes on.
OpTimesOut == /\ ppc = "decode" /\ op # "none" /\ Give("failed")
              /\ op' = IF op = "queued" THEN "none" ELSE op
              /\ UNCHANGED <<srcvars, readvars, started, clockvars, left, worked, frames>>

\* _emit_frames: pause admission before every frame.
EmitDone == /\ ppc = "emit" /\ frames = 0
            /\ IF item.at > 0
               THEN ppc' = "pull" /\ deadline' = None /\ UNCHANGED <<played, closer, wake>>
               ELSE Give("complete")
            /\ UNCHANGED <<srcvars, readvars, started, clockvars, left, worked, frames, op>>
EmitFrame == /\ ppc = "emit" /\ frames > 0 /\ ~Paused /\ ppc' = "frame"
             /\ UNCHANGED <<srcvars, readvars, started, wake, clockvars, workvars, op, closer,
                            played>>

DeadlineKept == deadline' = deadline /\ left' = left
\* reschedule(None): the pause wait of the task itself does not count.
DeadlineSuspended == deadline' = None /\ left' = IF deadline = None THEN 0 ELSE deadline - raw
EmitWaits == /\ ppc = "emit" /\ frames > 0 /\ Paused
             /\ deadline = None \/ deadline > raw
             /\ DeadlineSuspended /\ ppc' = "frameWait"
             /\ UNCHANGED <<srcvars, readvars, started, wake, clockvars, worked, frames, op,
                            closer, played>>
\* The waiter runs after a resume that no later pause has superseded.
FrameAdmitted == /\ ppc = "frameWait" /\ ~Paused /\ ppc' = "frame"
                 /\ deadline' = IF left > 0 THEN raw + left ELSE deadline
                 /\ left' = 0
                 /\ UNCHANGED <<srcvars, readvars, started, wake, clockvars, worked, frames, op,
                                closer, played>>
FrameDone == /\ ppc = "frame" /\ frames' = frames - 1 /\ ppc' = "emit"
             /\ UNCHANGED <<srcvars, readvars, started, wake, clockvars, deadline, left, worked,
                            op, closer, played>>
FrameFails == /\ ppc = "frame" /\ Give("failed")
              /\ UNCHANGED <<srcvars, readvars, started, clockvars, left, worked, frames, op>>

WorkTimesOut == /\ deadline # None /\ raw >= deadline /\ ppc \in {"decode", "emit", "frame", "frameWait"}
                /\ Give("timeout") /\ op' = IF op = "queued" THEN "none" ELSE op
                /\ UNCHANGED <<srcvars, readvars, started, clockvars, left, worked, frames>>
CancelPlayback == /\ ppc \notin {"idle", "pull", "closing", "ended"} /\ Give("cancelled")
                  /\ op' = IF op = "queued" THEN "none" ELSE op
                  /\ UNCHANGED <<srcvars, readvars, started, clockvars, left, worked, frames>>

-----------------------------------------------------------------------------
(* Closing the decoder.                                                    *)

\* close runs under the lock a running native call still holds.
OpLockFree == op # "native"
CloserStarts == /\ closer = "queued" /\ OpLockFree /\ closer' = "releasing"
                /\ UNCHANGED <<srcvars, ppc, readvars, started, wake, clockvars, workvars, op, played>>
CloserDone == /\ closer = "releasing" /\ closer' = "released"
              /\ UNCHANGED <<srcvars, ppc, readvars, started, wake, clockvars, workvars, op, played>>
\* close is awaited with a timeout; its failure spoils a complete delivery.
CloseEnds == /\ ppc = "closing" /\ ppc' = "ended"
             /\ played' = IF closer # "released" /\ played = "complete" THEN "failed" ELSE played
             /\ UNCHANGED <<srcvars, readvars, started, wake, clockvars, workvars, op, closer>>

PbNext == \/ Play \/ ReadBad \/ ReadRecord \/ ReadEnd
          \/ Pause \/ Resume \/ Pace \/ SleepEnds \/ Consume \/ Tick
          \/ OpStart \/ OpReturns \/ OpTimesOut
          \/ EmitDone \/ EmitFrame \/ EmitWaits \/ FrameAdmitted \/ FrameDone \/ FrameFails
          \/ WorkTimesOut \/ CancelPlayback \/ CloserStarts \/ CloserDone \/ CloseEnds
PbSpec == PbInit /\ [][PbNext]_pbvars

-----------------------------------------------------------------------------
(* Properties.                                                             *)

\* What the requested window holds of the first n packets, from the media times.
Wanted(n) == {i \in 1..n : times[i] \div TicksPerMs \in win.from..win.to}
\* The sequence got hands over the packets of the set, each once and in order.
HandsOver(packets) ==
  /\ {got[i] : i \in 1..Len(got)} = packets
  /\ \A i \in 2..Len(got) : got[i - 1] < got[i]

\* A delivery that reports completion has handed over exactly the packets of
\* the requested window, across wrap-around of the timestamps, and has checked
\* every record of the recording; one whose media time steps back, or with a
\* damaged record or a wrong count, never reports completion.
WindowExact ==
  played = "complete" =>
    /\ HandsOver(Wanted(Len(times)))
    /\ described.count = Len(file) /\ \A i \in 1..Len(file) : file[i].ok
    /\ \A i \in 2..Len(times) : times[i] >= times[i - 1]

\* No packet reaches the decoder before its time on the playback clock, however
\* often the playback is paused and resumed while the pump sleeps.
NeverEarly == Working => Virtual >= Target

\* The pump's consumer timeout fires only when that much time was spent on the
\* packet: a pause while a decoded frame waits for admission does not count.
TimeoutMeansWork == played = "timeout" => worked >= WorkBound

\* The native pipeline is not released while a call that uses it is running,
\* although the task that awaited the call has given up on it.
NativeKeptWhileUsed == op = "native" => closer \in {"none", "queued"}

-----------------------------------------------------------------------------
(* What makes them inductive.                                              *)

Deciding == {"pace", "sleep", "admit"}
AtDecoder == {"decode", "emit", "frame", "frameWait"}
Live == {"pull"} \cup Deciding \cup AtDecoder

\* The clock, the work and how the delivery stands.
PlainSound ==
  /\ ppc \in Live \cup {"idle", "closing", "ended"} /\ {started, pausedTotal, worked} \subseteq Int
  /\ raw \in Nat /\ pausedAt \in Nat \cup {None}
  /\ closer \in {"none", "queued", "releasing", "released"}
  /\ played \in {"none", "failed", "complete", "timeout", "cancelled"}
  /\ ppc \notin {"closing", "ended"} => played = "none"
  /\ ppc \in AtDecoder => item.at = read \/ item.at = 0
  /\ read \in Nat /\ item.due \in Int
  /\ ppc = "idle" => read = 0 /\ ticks = 0 /\ origin = None /\ got = <<>>

\* Once a packet is due it stays due.
DueSound == ppc \in {"admit"} \cup AtDecoder /\ item.at > 0 => Virtual >= Target

\* A deadline that runs, and one that is suspended, leave the packet the rest of its time.
DeadlineSound ==
  /\ deadline # None =>
       ppc \in {"decode", "emit", "frame"} /\ item.at > 0 /\ deadline + worked = raw + WorkBound
  /\ deadline \in Nat \cup {None}
  /\ ppc = "frameWait" => left = 0 \/ (left \in Nat /\ item.at > 0 /\ left + worked = WorkBound)

\* The records of the file carry the stamps of the media times.
FileSound ==
  /\ times \in Recordings /\ win.from \in Nat /\ win.to \in Nat
  /\ file \in Seq([ts : Int, ok : BOOLEAN]) /\ Len(file) = PacketCount
  /\ \A i \in 1..PacketCount : file[i].ts = Stamp(times[i])
  /\ rate \in Rates /\ described.count \in Nat

\* What is read is whole, does not step back and was counted exactly; the window opens
\* with the first packet at or after its start.
ReadSound ==
  /\ read <= PacketCount /\ read <= described.count
  /\ \A i \in 1..read : file[i].ok
  /\ \A i \in 2..read : times[i] >= times[i - 1]
  /\ ticks = (IF read = 0 THEN 0 ELSE times[read]) /\ ticks \in Nat
  /\ origin \in Nat \cup {None}
  /\ origin # None => read > 0 /\ ticks \div TicksPerMs >= win.from

\* The packets handed over are those wanted of the records read, but for the one that
\* waits for its time; the flush follows the last record.
HandedSound ==
  /\ got \in Seq(Nat)
  /\ ppc \in Deciding => item.at = read /\ read \in Wanted(read) /\ HandsOver(Wanted(read - 1))
  /\ ppc \in {"pull"} \cup AtDecoder => HandsOver(Wanted(read))
  /\ ppc \in AtDecoder /\ item.at = 0 => read = PacketCount /\ read = described.count

PbInv ==
  /\ PlainSound /\ DueSound /\ DeadlineSound
  /\ ppc \in Live => FileSound /\ ReadSound /\ HandedSound
  /\ WindowExact /\ TimeoutMeansWork /\ NativeKeptWhileUsed
=============================================================================
