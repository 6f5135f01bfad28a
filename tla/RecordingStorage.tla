-------------------------- MODULE RecordingStorage --------------------------
(***************************************************************************)
(* The bounded maintenance of recording segments                           *)
(* (operator_recording_storage.py): one maintenance worker scans the       *)
(* private recording root, remembers how long every segment was seen       *)
(* unchanged, and deletes segments that are over quota or over age, while  *)
(* the external recorder (MediaMTX) keeps opening, growing and closing     *)
(* segments and API requests read the cached recording progress.           *)
(*                                                                         *)
(* A segment name is a number, so that names are ordered the way the code  *)
(* orders paths; each name is created once.  File identities never repeat, *)
(* so a signature is reduced to what distinguishes two states of one file: *)
(* its size and its modification time.  Modification times come from the   *)
(* wall clock, which may step in either direction: any stamp can appear.   *)
(* `mono' is the monotonic clock.                                          *)
(***************************************************************************)
EXTENDS Integers, Sequences, FiniteSets, SequencesExt

CONSTANTS
    NumDirs,       \* camera directories k5_<hash>, numbered in scan order
    NumSegs,       \* segment names that may ever be used
    DirOf,         \* the directory of a segment
    Stamps,        \* wall-clock readings
    MaxSize,       \* bound: bytes of one segment
    MaxTime,       \* bound: monotonic clock
    MinClosed,     \* MIN_CLOSED_AGE_SECONDS
    MaxProgress,   \* MAX_PROGRESS_PATHS
    Capacity,      \* bytes of the volume
    Policies,      \* the storage policies an administrator may save
    History,       \* segments left by an earlier run of the product
    Asked,         \* the camera paths whose progress is queried
    MaxRestarts,   \* bound: restarts of the maintenance process
    MaxGen         \* bound: complete scans in a row

Dir == 1..NumDirs
Seg == 1..NumSegs

ASSUME SizesAssumption ==
    /\ NumDirs \in Nat \ {0} /\ NumSegs \in Nat
    /\ DirOf \in [Seg -> Dir]
    /\ Stamps \subseteq Nat /\ Stamps # {}
    /\ MaxSize \in Nat /\ MaxTime \in Nat /\ MinClosed \in Nat
    /\ MaxProgress \in Nat /\ Capacity \in Int
    /\ MaxRestarts \in Nat /\ MaxGen \in Nat
    /\ History \subseteq Seg /\ Asked \subseteq Dir
    /\ Asked # {} => MaxProgress > 0

ASSUME PoliciesAssumption ==
    /\ Policies # {}
    /\ \A p \in Policies : /\ p.max \in Nat \ {0}
                           /\ p.minFree \in Nat
                           /\ p.retention \in Nat

VARIABLES
    \* the recording root, and the recorder that writes it
    state, size, mtime,
    mono, restarts,
    \* RecordingStorage: policy, _observations, _scan_generation
    policy, obs, scanGen,
    \* RecordingStorage: _progress (its keys in order, their samples), _progress_complete
    slots, sample, progressComplete,
    \* the running call of the maintenance worker
    pc, mode, curDir, curSeg, observed, total, free, cand, prevSample,
    prevComplete, tracked, newSample, overQuota, inHand, heldSize,
    recordingAllowed,
    \* history variables, read only by the properties
    lastWrite, checkedAt, deletedAt, deletedSize, scanStart, baseStart

fileVars     == <<state, size, mtime, lastWrite>>
progressVars == <<slots, sample, progressComplete>>
scanVars     == <<curDir, curSeg, observed, total, free, cand, prevSample,
                  prevComplete, tracked, newSample, scanStart>>
pruneVars    == <<overQuota, inHand, heldSize, checkedAt>>
deletedVars  == <<deletedAt, deletedSize>>
vars == <<fileVars, mono, restarts, policy, obs, scanGen, progressVars, pc, mode,
          scanVars, pruneVars, recordingAllowed, deletedVars, baseStart>>

-----------------------------------------------------------------------------
(* Records of the code.                                                    *)

\* _Observation; `known' is membership in the dictionary, and `from' (history only)
\* the start of the scan that made the observation.
Observation(known, z, m, since, gen, from) ==
    [known |-> known, size |-> z, mtime |-> m, since |-> since, gen |-> gen, from |-> from]
NoObs == Observation(FALSE, 0, 0, 0, 0, 0)
NoObservations == [s \in Seg |-> NoObs]

\* _PathProgress(); `seen' stands for directory_identity, last = -1 for None and
\* a file size of -1 for a name that is not in `files'.
NoFiles == [s \in Seg |-> -1]
PathProgress == [seen |-> FALSE, last |-> -1, files |-> NoFiles]
NoSamples == [d \in Dir |-> PathProgress]

Exists(s)  == state[s] \in {"open", "closed"}
FilesOf(d) == {s \in Seg : DirOf[s] = d /\ Exists(s)}

\* The sum of a weight of the segments.
Total(w) ==
    LET sum[n \in 0..NumSegs] == IF n = 0 THEN 0 ELSE sum[n - 1] + w[n]
    IN  sum[NumSegs]
Bytes(S)   == Total([s \in Seg |-> IF s \in S THEN size[s] ELSE 0])
Used       == Bytes({s \in Seg : Exists(s)})
FreeBytes  == Capacity - Used

-----------------------------------------------------------------------------
\* Between calls the locals of _scan and prune do not exist.
Idle ==
    /\ pc = "idle" /\ mode = "inspect"
    /\ curDir = 1 /\ curSeg = 0 /\ observed = NoObservations
    /\ total = 0 /\ free = 0 /\ cand = {}
    /\ prevSample = NoSamples /\ prevComplete = FALSE
    /\ tracked = <<>> /\ newSample = NoSamples /\ scanStart = 0
    /\ overQuota = FALSE /\ inHand = 0 /\ heldSize = 0 /\ checkedAt = 0

Return(allowed) ==
    /\ recordingAllowed' = allowed
    /\ pc' = "idle" /\ mode' = "inspect"
    /\ curDir' = 1 /\ curSeg' = 0 /\ observed' = NoObservations
    /\ total' = 0 /\ free' = 0 /\ cand' = {}
    /\ prevSample' = NoSamples /\ prevComplete' = FALSE
    /\ tracked' = <<>> /\ newSample' = NoSamples /\ scanStart' = 0
    /\ overQuota' = FALSE /\ inHand' = 0 /\ heldSize' = 0 /\ checkedAt' = 0

Init ==
    /\ state = [s \in Seg |-> IF s \in History THEN "closed" ELSE "none"]
    /\ size = [s \in Seg |-> IF s \in History THEN 1 ELSE 0]
    /\ mtime \in {m \in [Seg -> Stamps \cup {0}] :
                   \A s \in Seg : s \in History \/ m[s] = 0}
    /\ lastWrite = [s \in Seg |-> 0]
    /\ mono = 0 /\ restarts = 0
    /\ policy \in Policies
    /\ obs = NoObservations /\ scanGen = 0
    /\ slots = <<>> /\ sample = NoSamples /\ progressComplete = FALSE
    /\ recordingAllowed = FALSE /\ Idle
    /\ deletedAt = [s \in Seg |-> 0] /\ deletedSize = [s \in Seg |-> 0] /\ baseStart = 0

-----------------------------------------------------------------------------
(* The recorder: at most one open segment in a directory.                  *)

OpenSegment(s) ==
    /\ state[s] = "none"
    /\ \A t \in Seg : DirOf[t] = DirOf[s] => state[t] # "open"
    /\ \E w \in Stamps :
         /\ state' = [state EXCEPT ![s] = "open"]
         /\ mtime' = [mtime EXCEPT ![s] = w]
    /\ lastWrite' = [lastWrite EXCEPT ![s] = mono]
    /\ UNCHANGED <<size, mono, restarts, policy, obs, scanGen, progressVars, pc, mode,
                   scanVars, pruneVars, recordingAllowed, deletedVars, baseStart>>

\* Recorded bytes only grow, so two states of a file differ in size.
Grow(s) ==
    /\ state[s] = "open" /\ size[s] < MaxSize
    /\ \E w \in Stamps : mtime' = [mtime EXCEPT ![s] = w]
    /\ size' = [size EXCEPT ![s] = @ + 1]
    /\ lastWrite' = [lastWrite EXCEPT ![s] = mono]
    /\ UNCHANGED <<state, mono, restarts, policy, obs, scanGen, progressVars, pc, mode,
                   scanVars, pruneVars, recordingAllowed, deletedVars, baseStart>>

CloseSegment(s) ==
    /\ state[s] = "open"
    /\ state' = [state EXCEPT ![s] = "closed"]
    /\ UNCHANGED <<size, mtime, lastWrite, mono, restarts, policy, obs, scanGen,
                   progressVars, pc, mode, scanVars, pruneVars, recordingAllowed, deletedVars, baseStart>>

Tick ==
    /\ mono < MaxTime
    /\ mono' = mono + 1
    /\ UNCHANGED <<fileVars, restarts, policy, obs, scanGen, progressVars, pc, mode,
                   scanVars, pruneVars, recordingAllowed, deletedVars, baseStart>>

-----------------------------------------------------------------------------
(* _scan.  The worker holds _lock from the start of a call to its end.     *)

\* The snapshot of lines 195-210: samples are copied, every nominated path starts blank.
ScanStart(m) ==
    /\ \/ pc = "idle" /\ m \in {"inspect", "prune"}
       \/ pc = "rescan" /\ m = "final"
    /\ scanGen < MaxGen
    /\ pc' = "scan" /\ mode' = m
    /\ curDir' = 1 /\ curSeg' = 0
    /\ observed' = NoObservations /\ cand' = {} /\ total' = 0
    /\ free' = FreeBytes
    /\ prevSample' = sample /\ prevComplete' = progressComplete
    /\ tracked' = slots /\ newSample' = NoSamples
    /\ scanStart' = mono
    /\ UNCHANGED <<fileVars, mono, restarts, policy, obs, scanGen, progressVars,
                   pruneVars, recordingAllowed, deletedVars, baseStart>>

\* The next segment of the directory in enumeration order.
NextFile(s) ==
    /\ s \in FilesOf(curDir) /\ s > curSeg
    /\ \A t \in FilesOf(curDir) : t > curSeg => s <= t

SameSignature(o, s) == o.known /\ o.size = size[s] /\ o.mtime = mtime[s]

\* An unchanged file keeps its observation; a new or changed one starts a new age
\* and, once a complete scan set the baseline, takes this scan's generation.
Observe(s) ==
    IF SameSignature(obs[s], s) /\ mono >= obs[s].since
    THEN obs[s]
    ELSE Observation(TRUE, size[s], mtime[s], mono,
                     IF scanGen # 0 THEN scanGen + 1 ELSE 0, scanStart)

ScanFile ==
    /\ pc = "scan"
    /\ \E s \in Seg :
         /\ NextFile(s)
         /\ curSeg' = s
         /\ observed' = [observed EXCEPT ![s] = Observe(s)]
         /\ total' = total + size[s]
    /\ UNCHANGED <<fileVars, mono, restarts, policy, obs, scanGen, progressVars, pc, mode,
                   curDir, free, cand, prevSample, prevComplete, tracked, newSample,
                   scanStart, pruneVars, recordingAllowed, deletedVars, baseStart>>

\* What the scan read in the current directory.
Segments == {s \in Seg : DirOf[s] = curDir /\ observed[s].known}

BaselineFromAnyScan == prevComplete

\* A sample counts as a baseline only if the last scan was complete and had read
\* the directory.
Comparable == prevComplete /\ prevSample[curDir].seen

Progressed ==
    /\ Comparable
    /\ \E s \in Segments : /\ observed[s].size > 0
                           /\ observed[s].size > prevSample[curDir].files[s]

\* A slot is free, or the path was nominated before the scan.
TrackProgress == curDir \in Range(tracked) \/ Len(tracked) < MaxProgress

DirectorySample ==
    [seen  |-> TRUE,
     last  |-> IF Progressed THEN mono
               ELSE IF Comparable /\ prevSample[curDir].last <= mono
                    THEN prevSample[curDir].last ELSE -1,
     files |-> [s \in Seg |-> IF s \in Segments THEN observed[s].size ELSE -1]]

\* The segment with the largest (mtime, name).
Newest(s) == \A t \in Segments \ {s} :
                \/ observed[t].mtime < observed[s].mtime
                \/ observed[t].mtime = observed[s].mtime /\ t < s

\* A change seen across complete scans protects the files that changed last.
NotLatestChange(s) ==
    \/ \A t \in Segments : observed[t].gen = 0
    \/ \E t \in Segments : observed[s].gen < observed[t].gen

CandidateByTimestamp(s) == ~Newest(s) /\ mono - observed[s].since >= MinClosed

Candidate(s) == /\ ~Newest(s)
                /\ NotLatestChange(s)
                /\ mono - observed[s].since >= MinClosed

ScanDirectoryEnd ==
    /\ pc = "scan" /\ curDir <= NumDirs
    /\ \A s \in Seg : ~NextFile(s)
    /\ IF TrackProgress
       THEN /\ newSample' = [newSample EXCEPT ![curDir] = DirectorySample]
            /\ tracked' = IF curDir \in Range(tracked) THEN tracked
                          ELSE Append(tracked, curDir)
       ELSE UNCHANGED <<newSample, tracked>>
    /\ cand' = cand \cup {s \in Segments : Candidate(s)}
    /\ curSeg' = 0
    /\ IF curDir < NumDirs THEN curDir' = curDir + 1 /\ pc' = pc
                           ELSE curDir' = curDir /\ pc' = "commit"
    /\ UNCHANGED <<fileVars, mono, restarts, policy, obs, scanGen, progressVars, mode,
                   observed, total, free, prevSample, prevComplete, scanStart, pruneVars,
                   recordingAllowed, deletedVars, baseStart>>

\* _status: the admission the product applies to its recorder.
Allowed == total <= policy.max /\ free >= policy.minFree

\* _invalidate_progress: the slots stay, their samples are forgotten.
InvalidateProgress ==
    /\ sample' = NoSamples /\ progressComplete' = FALSE
    /\ UNCHANGED slots

\* The names of `names' that are not in D, in their order.
Without(names, D) ==
    LET rest[n \in 0..Len(names)] ==
          IF n = 0 THEN <<>>
          ELSE IF names[n] \in D THEN rest[n - 1] ELSE Append(rest[n - 1], names[n])
    IN  rest[Len(names)]

\* The names of `new' that are not in `old', after those of `old', up to the limit.
MergedSlots(old, new) ==
    LET extra == Without(new, Range(old))
        room  == MaxProgress - Len(old)
    IN  old \o SubSeq(extra, 1, IF Len(extra) < room THEN Len(extra) ELSE room)

\* Paths queried while the scan ran keep their slots; the directories of the
\* scan fill what is left.
UpdatedSlots(old, new) == MergedSlots(old, new)

Expired(since) == policy.retention > 0 /\ mono - since >= policy.retention

ScanCommit ==
    /\ pc = "commit"
    /\ obs' = observed /\ scanGen' = scanGen + 1
    /\ slots' = UpdatedSlots(slots, tracked)
    /\ sample' = [d \in Dir |-> IF d \in Range(slots') THEN newSample[d] ELSE PathProgress]
    /\ progressComplete' = TRUE
    /\ baseStart' = scanStart
    /\ IF mode = "prune" /\ ~(Allowed /\ \A s \in cand : ~Expired(observed[s].since))
       THEN /\ pc' = "loop" /\ overQuota' = (total > policy.max)
            /\ UNCHANGED <<mode, scanVars, inHand, heldSize, checkedAt, recordingAllowed>>
       ELSE Return(Allowed)
    /\ UNCHANGED <<fileVars, mono, restarts, policy, deletedVars>>

\* An exhausted budget or an entry that is not admitted breaks the history.
ScanAbort ==
    /\ pc \in {"scan", "commit"}
    /\ obs' = NoObservations /\ scanGen' = 0
    /\ InvalidateProgress
    /\ Return(FALSE)
    /\ UNCHANGED <<fileVars, mono, restarts, policy, deletedVars, baseStart>>

-----------------------------------------------------------------------------
(* The deletion loop of prune.                                             *)

\* Candidates are taken in the order (stable_since, mtime, path).
Before(a, b) ==
    LET x == observed[a]  y == observed[b]
    IN  \/ x.since < y.since
        \/ x.since = y.since /\ x.mtime < y.mtime
        \/ x.since = y.since /\ x.mtime = y.mtime /\ a < b

Turn(c) == c \in cand /\ \A o \in cand \ {c} : Before(c, o)

Target == IF overQuota THEN (policy.max * 9) \div 10 ELSE policy.max

Wanted(c) == \/ Expired(observed[c].since)
             \/ total > Target
             \/ free < policy.minFree

RecheckAgeOnly(c) == mono - observed[c].since >= MinClosed

Recheck(c) ==
    /\ SameSignature(obs[c], c) /\ obs[c].since = observed[c].since
    /\ mono - obs[c].since >= MinClosed

\* The segment is left alone: it is not wanted, or it changed since the scan
\* (its observation is then forgotten).
SkipCandidate ==
    /\ pc = "loop"
    /\ \E c \in cand :
         /\ Turn(c)
         /\ cand' = cand \ {c}
         /\ ~(Wanted(c) /\ Recheck(c))
         /\ obs' = IF Wanted(c) /\ ~SameSignature(obs[c], c)
                   THEN [obs EXCEPT ![c] = NoObs] ELSE obs
    /\ inHand' = 0
    /\ UNCHANGED <<fileVars, mono, restarts, policy, scanGen, progressVars, pc, mode,
                   curDir, curSeg, observed, total, free, prevSample, prevComplete,
                   tracked, newSample, scanStart, overQuota,
                   heldSize, checkedAt, recordingAllowed, deletedVars, baseStart>>

\* The last look at the file before it is unlinked.
RecheckCandidate ==
    /\ pc = "loop"
    /\ \E c \in cand :
         /\ Turn(c) /\ Wanted(c) /\ Recheck(c)
         /\ inHand' = c /\ heldSize' = size[c]
         /\ cand' = cand \ {c}
    /\ checkedAt' = mono /\ pc' = "unlink"
    /\ UNCHANGED <<fileVars, mono, restarts, policy, obs, scanGen, progressVars, mode,
                   curDir, curSeg, observed, total, free, prevSample, prevComplete,
                   tracked, newSample, scanStart, overQuota,
                   recordingAllowed, deletedVars, baseStart>>

\* Windows refuses to remove a file the recorder has open.
UnlinkRefused ==
    /\ pc = "unlink" /\ state[inHand] = "open"
    /\ pc' = "loop" /\ inHand' = 0
    /\ UNCHANGED <<fileVars, mono, restarts, policy, obs, scanGen, progressVars, mode,
                   scanVars, overQuota, heldSize, checkedAt, recordingAllowed, deletedVars, baseStart>>

\* The removal, and the free space read after it.
Unlink ==
    /\ pc = "unlink" /\ state[inHand] = "closed"
    /\ state' = [state EXCEPT ![inHand] = "deleted"]
    /\ deletedAt' = [deletedAt EXCEPT ![inHand] = checkedAt]
    /\ deletedSize' = [deletedSize EXCEPT ![inHand] = heldSize]
    /\ total' = total - heldSize
    /\ free' = FreeBytes + size[inHand]
    /\ pc' = "loop"
    /\ UNCHANGED <<size, mtime, lastWrite, mono, restarts, policy, obs, scanGen,
                   progressVars, mode, curDir, curSeg, observed, cand, prevSample,
                   prevComplete, tracked, newSample, scanStart, overQuota, inHand,
                   heldSize, checkedAt, recordingAllowed, baseStart>>

\* The budget ran out before a candidate was handled, an admission failed, or the
\* free space could not be read after a removal.
LoopAbort ==
    /\ \/ pc = "loop" /\ (cand # {} \/ inHand # 0)
       \/ pc = "unlink"
    /\ InvalidateProgress
    /\ Return(FALSE)
    /\ UNCHANGED <<fileVars, mono, restarts, policy, obs, scanGen, deletedVars, baseStart>>

\* Every candidate was handled: the status comes from another scan.
LoopDone ==
    /\ pc = "loop" /\ cand = {}
    /\ pc' = "rescan"
    /\ UNCHANGED <<fileVars, mono, restarts, policy, obs, scanGen, progressVars, mode,
                   scanVars, pruneVars, recordingAllowed, deletedVars, baseStart>>

-----------------------------------------------------------------------------
(* Other callers.                                                          *)

\* The path becomes the most recently asked; the oldest makes room for a new one.
Nominate(d) ==
    LET rest == Without(slots, {d})
    IN  IF d \notin Range(slots) /\ Len(slots) >= MaxProgress
        THEN Append(Tail(rest), d) ELSE Append(rest, d)

\* recording_progress and recording_files: any thread, under _progress_lock only.
RecordingProgress(d) ==
    /\ slots' = Nominate(d)
    /\ sample' = [e \in Dir |-> IF e \in Range(slots') THEN sample[e] ELSE PathProgress]
    /\ UNCHANGED <<fileVars, mono, restarts, policy, obs, scanGen, progressComplete, pc,
                   mode, scanVars, pruneVars, recordingAllowed, deletedVars, baseStart>>

ConfigurePolicy ==
    /\ pc = "idle"
    /\ policy' \in Policies \ {policy}
    /\ UNCHANGED <<fileVars, mono, restarts, obs, scanGen, progressVars, pc, mode,
                   scanVars, pruneVars, recordingAllowed, deletedVars, baseStart>>

\* A new process constructs a new RecordingStorage and starts a new recorder: every
\* observation starts over.
Restart ==
    /\ restarts < MaxRestarts
    /\ restarts' = restarts + 1
    /\ obs' = NoObservations /\ scanGen' = 0
    /\ slots' = <<>> /\ sample' = NoSamples /\ progressComplete' = FALSE
    /\ Return(FALSE)
    /\ state' = [s \in Seg |-> IF state[s] = "open" THEN "closed" ELSE state[s]]
    /\ UNCHANGED <<size, mtime, lastWrite, mono, policy, deletedVars, baseStart>>

Recorder == \E s \in Seg : OpenSegment(s) \/ Grow(s) \/ CloseSegment(s)

Scanning == \/ \E m \in {"inspect", "prune", "final"} : ScanStart(m)
            \/ ScanFile \/ ScanDirectoryEnd \/ ScanCommit \/ ScanAbort

Pruning == \/ SkipCandidate \/ RecheckCandidate \/ UnlinkRefused \/ Unlink
           \/ LoopAbort \/ LoopDone

Next == \/ Recorder \/ Tick \/ Scanning \/ Pruning
        \/ \E d \in Asked : RecordingProgress(d)
        \/ ConfigurePolicy \/ Restart

Spec == Init /\ [][Next]_vars

-----------------------------------------------------------------------------
ObservationSet ==
    [known : BOOLEAN, size : Nat, mtime : Nat, since : Nat, gen : Nat, from : Nat]
SampleSet == [seen : BOOLEAN, last : Int, files : [Seg -> Int]]

\* The types of the files, the clocks and the maintenance worker.
WorkerTypeOK ==
    /\ state \in [Seg -> {"none", "open", "closed", "deleted"}]
    /\ size \in [Seg -> Nat] /\ mtime \in [Seg -> Nat] /\ lastWrite \in [Seg -> Nat]
    /\ mono \in Nat
    /\ obs \in [Seg -> ObservationSet] /\ scanGen \in Nat
    /\ pc \in {"idle", "scan", "commit", "loop", "unlink", "rescan"}
    /\ observed \in [Seg -> ObservationSet]
    /\ cand \subseteq Seg
    /\ inHand \in 0..NumSegs /\ heldSize \in Nat
    /\ checkedAt \in Nat /\ deletedAt \in [Seg -> Nat] /\ deletedSize \in [Seg -> Nat]
    /\ scanStart \in Nat

\* The types of the progress cache and of the remaining locals of a scan.
CacheTypeOK ==
    /\ restarts \in Nat /\ policy \in Policies
    /\ slots \in Seq(Dir) /\ Len(slots) <= MaxProgress
    /\ sample \in [Dir -> SampleSet] /\ progressComplete \in BOOLEAN
    /\ mode \in {"inspect", "prune", "final"}
    /\ curDir \in Dir /\ curSeg \in 0..NumSegs
    /\ total \in Int /\ free \in Int
    /\ prevSample \in [Dir -> SampleSet] /\ prevComplete \in BOOLEAN
    /\ tracked \in Seq(Dir) /\ newSample \in [Dir -> SampleSet]
    /\ overQuota \in BOOLEAN /\ recordingAllowed \in BOOLEAN
    /\ baseStart \in Nat

\* Every variable has its type; in particular the progress cache never holds more
\* than MAX_PROGRESS_PATHS paths (recording_progress, line 373).
TypeOK == WorkerTypeOK /\ CacheTypeOK

\* A segment is removed only if, when the loop looked at it last (line 482), no byte
\* had been written to it for MIN_CLOSED_AGE_SECONDS: whatever the wall clock did,
\* whichever scans were abandoned and however the recorder interleaved.  A write
\* that falls between that look and the unlink is the one window the code leaves.
DeletedWasStable ==
    \A s \in Seg : state[s] = "deleted" =>
        \/ deletedAt[s] - lastWrite[s] >= MinClosed
        \/ size[s] # deletedSize[s]

\* Pruning never empties a camera's directory: the newest segment survives (line 306).
DirectoryKeepsOne ==
    \A d \in Dir : (\E s \in Seg : DirOf[s] = d /\ state[s] = "deleted") => FilesOf(d) # {}

\* A segment is deleted only for a reason an administrator configured: it was unchanged
\* for the whole retention period, the files really exceed 90% of the byte budget, or
\* the last reading of the free space was below its floor (lines 470-475).
RetentionHonoured ==
    \A s \in Seg : state[s] # "deleted" /\ state'[s] = "deleted" =>
      \/ /\ policy.retention > 0
         /\ \/ checkedAt - lastWrite[s] >= policy.retention
            \/ size[s] # heldSize
      \/ Used > (policy.max * 9) \div 10
      \/ free < policy.minFree

\* Once complete scans have seen a change in a camera's directory, a deletion there
\* leaves a segment written no earlier than the scan that began the deleted one's age:
\* the latest footage survives a wall clock that runs backwards (lines 312-318).
LatestFootageKept ==
    \A s \in Seg :
      /\ state[s] # "deleted" /\ state'[s] = "deleted"
      /\ \E t \in Seg : DirOf[t] = DirOf[s] /\ obs[t].gen > 0
      => \E t \in FilesOf(DirOf[s]) \ {s} : lastWrite[t] >= obs[s].from

\* A camera is reported as freshly progressing only if a byte of its directory was
\* written after the previous complete scan began: historic bytes, an abandoned scan,
\* an evicted slot or a deletion never count as progress (lines 219-223, 361-365).  A
\* path evicted and queried again during a scan only gets back the age it had before.
ProgressIsReal ==
    \A d \in Dir : sample'[d].last > sample[d].last =>
      \/ sample'[d].last = prevSample[d].last
      \/ \E s \in Seg : DirOf[s] = d /\ lastWrite[s] >= baseStart

\* A camera path queried while a scan runs keeps its slot when the scan is committed
\* (lines 336-339).
NominationsSurviveScan ==
    scanGen' > scanGen => Range(slots) \subseteq Range(slots')

-----------------------------------------------------------------------------
(* What the worker knows between its steps.                                *)

\* A scan has passed segment s once its directory, or the segment itself, is behind.
Passed(s) == pc = "scan" => DirOf[s] < curDir \/ (DirOf[s] = curDir /\ s <= curSeg)

\* Whatever a scan passed it saw as it is, unless it was written since the scan began;
\* what it saw it passed, and it is still there.
ScanSees ==
    pc \in {"scan", "commit"} => \A s \in Seg :
      /\ Exists(s) /\ Passed(s) => (SameSignature(observed[s], s) \/ lastWrite[s] >= scanStart)
      /\ observed[s].known => Exists(s) /\ Passed(s)

\* The same of the last complete scan.
CommittedSees ==
    scanGen # 0 => \A s \in Seg :
      Exists(s) => (SameSignature(obs[s], s) \/ lastWrite[s] >= baseStart)

\* An observation of the scan in hand was kept from the last one, or is of this one.
ObservedKept(s) == observed[s] = obs[s]
ObservedNow(s) ==
    /\ observed[s].from = scanStart
    /\ observed[s].gen = IF scanGen # 0 THEN scanGen + 1 ELSE 0
    /\ scanGen # 0 => lastWrite[s] >= baseStart
ScanObserves ==
    pc \in {"scan", "commit"} =>
      \A s \in Seg : observed[s].known => ObservedKept(s) \/ ObservedNow(s)

\* While candidates are handled, an observation is the scan's or was forgotten.
LoopObserves ==
    pc \in {"loop", "unlink"} => \A s \in Seg : obs[s] = observed[s] \/ obs[s] = NoObs

\* The scan in hand began after the last complete one, and neither is yet to begin.
StartsOrdered ==
    /\ pc # "idle" => baseStart <= scanStart
    /\ baseStart <= mono /\ scanStart <= mono

\* Generations and starts of scans never run ahead.
GenerationsSound ==
    /\ StartsOrdered
    /\ \A s \in Seg : obs[s].gen <= scanGen /\ obs[s].from <= baseStart
    /\ \A s \in Seg : ~obs[s].known => obs[s] = NoObs
    /\ \A s \in Seg : ~observed[s].known => observed[s] = NoObs

\* A file of a later generation was written after the scan that began an earlier one.
LaterWritten(o) ==
    \A s, t \in Seg : o[s].known /\ o[t].known /\ o[s].gen < o[t].gen => lastWrite[t] >= o[s].from

\* What may be deleted yet; each such segment leaves one that may not, and one that
\* changed later if its directory has seen a change.
Doomed == cand \cup (IF pc = "unlink" THEN {inHand} ELSE {})
Safe(s, t) == DirOf[t] = DirOf[s] /\ t \notin Doomed /\ observed[t].known /\ Exists(t)
Spared ==
    \A s \in Doomed :
      /\ pc = "scan" => DirOf[s] < curDir
      /\ observed[s].known
      /\ \E t \in Seg : Safe(s, t)
      /\ \/ \A t \in Seg : DirOf[t] = DirOf[s] => observed[t].gen = 0
         \/ \E t \in Seg : Safe(s, t) /\ observed[s].gen < observed[t].gen

\* The total is no more than what the files hold that were read and are still there.
ReadSize == [s \in Seg |-> IF observed[s].known /\ Exists(s) THEN observed[s].size ELSE 0]
TotalSound == pc # "idle" => total <= Total(ReadSize)

\* The segment in hand is as it was observed, and there is a reason to remove it.
ReasonSound ==
    pc = "unlink" =>
      /\ inHand \notin cand /\ heldSize = observed[inHand].size
      /\ \/ /\ policy.retention > 0
            /\ (checkedAt - lastWrite[inHand] >= policy.retention \/ size[inHand] # heldSize)
         \/ total > Target
         \/ free < policy.minFree

\* The inductive strengthening of what the deletions rest on.
DeletionInv ==
    /\ ScanSees /\ CommittedSees /\ ScanObserves /\ LoopObserves /\ GenerationsSound
    /\ LaterWritten(obs) /\ LaterWritten(observed)
    /\ Spared /\ TotalSound /\ ReasonSound /\ DirectoryKeepsOne

\* In the sample m of a scan that began at `from', a size that was outgrown since was
\* outgrown by a write after that.
SampleSound(m, from) ==
    \A d \in Dir : m[d].seen =>
      \A s \in Seg : DirOf[s] = d /\ Exists(s) /\ size[s] > 0 /\ size[s] > m[d].files[s]
                     => lastWrite[s] >= from

\* The samples of the last complete scan, and those of the scan in hand.
BaselinesSound ==
    /\ progressComplete => SampleSound(sample, baseStart)
    /\ pc \in {"scan", "commit"} =>
         /\ prevComplete => SampleSound(prevSample, baseStart)
         /\ SampleSound(newSample, scanStart)

\* An age the scan in hand found is the one it began with, or of bytes written since.
FreshSound ==
    pc \in {"scan", "commit"} =>
      \A d \in Dir : \/ newSample[d].last \in {-1, prevSample[d].last}
                     \/ \E s \in Seg : DirOf[s] = d /\ lastWrite[s] >= baseStart

\* The inductive strengthening of what reported progress rests on.
ProgressSound ==
    /\ pc = "unlink" => inHand \in Seg
    /\ \A d \in Dir : sample[d].last >= -1 /\ prevSample[d].last >= -1 /\ newSample[d].last >= -1
    /\ ScanSees /\ StartsOrdered /\ BaselinesSound /\ FreshSound
ProgressInv == TypeOK /\ ProgressSound
=============================================================================
