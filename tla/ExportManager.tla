--------------------------- MODULE ExportManager ----------------------------
(***************************************************************************)
(* MP4 exports (operator_exports.py): jobs prepared by at most two threads *)
(* into a private cache of bounded size, re-verified after a restart,      *)
(* opened by readers, pruned by lease and capacity, and audited.           *)
(*                                                                         *)
(* A job's cache entry is three files: the download (.part), the finished  *)
(* clip (.mp4) and its metadata (.json).  A file is its size, 0 if absent. *)
(* The event loop runs one step at a time; the preparing threads run       *)
(* beside it, also while a request is inside _prune.  The process can      *)
(* crash at any step; files and the audit log survive.                     *)
(***************************************************************************)
EXTENDS Integers, Sequences, FiniteSets, SequencesExt

CONSTANTS NumJobs,     \* bound: export requests
          MaxBytes,    \* MAX_EXPORT_BYTES
          MaxRetained, \* MAX_RETAINED_BYTES
          MaxJobs,     \* MAX_EXPORT_JOBS
          MaxReaders,  \* bound: downloads of one file at a time
          MaxCrashes,  \* bound: crashes of the process
          MaxFaults    \* bound: failed I/O and failed audit commits

Job == 1..NumJobs

ASSUME BoundsAssumption ==
    /\ NumJobs \in Nat /\ MaxBytes \in Nat \ {0}
    /\ MaxRetained \in Nat /\ MaxBytes <= MaxRetained
    /\ MaxJobs \in Nat \ {0} /\ MaxReaders \in Nat
    /\ MaxCrashes \in Nat /\ MaxFaults \in Nat

VARIABLES
    up, closed, auditUnavailable,         \* the process and its flags
    order,                                \* _jobs in insertion (and lease) order
    status, bytes, expired, readers,      \* ExportJob
    identity,                             \* version of the clip admitted, -1 for None
    orphans,                              \* jobs whose files _load found unusable
    request, lapsing,                     \* the call inside _prune; its expired jobs
    thread,                               \* the preparing thread of a job
    verifying,                            \* _verifications: the verifying thread of a job
    admitted,                             \* the version its verification read
    part, clip, metadata,                 \* the files; metadata holds the clip's size
    version,                              \* 0 while the clip is what was prepared
    audited,                              \* export.completed is in the audit log
    created, crashes, faults,             \* counters
    loaded, refused, leaked               \* history: entered by _load, audit refused it,
                                          \* a file could not be removed

procVars == <<up, closed, auditUnavailable>>
jobVars  == <<order, status, bytes, expired, readers, identity>>
loopVars == <<orphans, request, lapsing>>
verifyVars == <<verifying, admitted>>
fileVars == <<part, clip, metadata, version>>
counters == <<created, crashes, faults>>
history  == <<loaded, refused, leaked>>
vars == <<procVars, jobVars, loopVars, thread, verifyVars, fileVars, audited, counters,
          history>>

Fault == faults < MaxFaults /\ faults' = faults + 1

All(v) == [j \in Job |-> v]

\* The sum of a weight over the jobs.
Total(weight) ==
    LET upTo[n \in 0..NumJobs] == IF n = 0 THEN 0 ELSE upTo[n - 1] + weight[n]
    IN  upTo[NumJobs]

Known  == Range(order)
Tasks  == {j \in Job : thread[j] # "none"}
Verifications == {j \in Job : verifying[j] # "none"}

\* The event loop is between two steps: no call is inside the synchronous _prune.
Loop == up /\ request = "none" /\ \A j \in Job : thread[j] # "cleanup"

-----------------------------------------------------------------------------
Init ==
    /\ up = TRUE /\ closed = FALSE /\ auditUnavailable = FALSE
    /\ order = <<>> /\ status = All("absent") /\ bytes = All(0)
    /\ expired = All(FALSE) /\ readers = All(0) /\ identity = All(-1)
    /\ orphans = {} /\ request = "none" /\ lapsing = {} /\ thread = All("none")
    /\ verifying = All("none") /\ admitted = All(0)
    /\ part = All(0) /\ clip = All(0) /\ metadata = All(0) /\ version = All(0)
    /\ audited = {} /\ created = 0 /\ crashes = 0 /\ faults = 0
    /\ loaded = {} /\ refused = {} /\ leaked = {}

-----------------------------------------------------------------------------
(* _prune, the synchronous part of create and get: orphans, then expired   *)
(* jobs, then the oldest jobs until the rest fits.                         *)

\* The readers are forgotten.
RemovableAnyway(j) == status[j] \in {"ready", "failed"}

\* _remove leaves a job with readers alone.
Removable(j) == status[j] \in {"ready", "failed"} /\ readers[j] = 0

Reserved(j) == IF status[j] = "preparing" THEN MaxBytes ELSE bytes[j]

Need == IF request = "create" THEN 1 ELSE 0

Reservation == [j \in Job |-> IF j \in Known THEN Reserved(j) ELSE 0]

Fits == /\ Total(Reservation) + Need * MaxBytes <= MaxRetained
        /\ Cardinality(Known) <= MaxJobs - Need

\* The unlinks of a job's files; a failing one leaves its file and not the others'.
Unlink(j, stays) ==
    /\ IF stays = {} THEN UNCHANGED faults ELSE Fault
    /\ part' = [part EXCEPT ![j] = IF "part" \in stays THEN @ ELSE 0]
    /\ clip' = [clip EXCEPT ![j] = IF "mp4" \in stays THEN @ ELSE 0]
    /\ metadata' = [metadata EXCEPT ![j] = IF "json" \in stays THEN @ ELSE 0]
    /\ UNCHANGED version

CacheFiles == {"part", "mp4", "json"}

\* _remove forgets the job only when every file is gone.
RemoveJob(j, stays) ==
    /\ Removable(j) /\ Unlink(j, stays)
    /\ IF stays # {} THEN UNCHANGED jobVars
       ELSE /\ \E i \in 1..Len(order) : order[i] = j /\ order' = RemoveAt(order, i)
            /\ status' = [status EXCEPT ![j] = "absent"]
            /\ UNCHANGED <<bytes, expired, readers, identity>>

\* The checks of create after its last await; get has none.
Request(kind) ==
    /\ Loop
    /\ kind = "create" => /\ ~closed /\ ~auditUnavailable
                          /\ Cardinality(Tasks) < 2
                          /\ created < NumJobs
    /\ request' = kind
    /\ lapsing' = {j \in Known : status[j] # "preparing" /\ expired[j]}
    /\ UNCHANGED <<procVars, jobVars, orphans, thread, verifyVars, fileVars, audited,
                   counters, history>>

PruneOrphan ==
    /\ request # "none"
    /\ \E j \in orphans :
         \/ /\ Unlink(j, {}) /\ orphans' = orphans \ {j}
            /\ UNCHANGED <<request, lapsing>>
         \/ /\ \E stays \in SUBSET CacheFiles \ {{}} : Unlink(j, stays)
            /\ request' = "none" /\ lapsing' = {}
            /\ UNCHANGED orphans
    /\ UNCHANGED <<procVars, jobVars, thread, verifyVars, audited, created, crashes,
                   history>>

PruneExpired ==
    /\ request # "none" /\ orphans = {}
    /\ \E j \in lapsing :
         /\ lapsing' = lapsing \ {j}
         /\ \/ \E stays \in SUBSET CacheFiles : RemoveJob(j, stays)
            \/ ~Removable(j) /\ UNCHANGED <<jobVars, fileVars, faults>>
    /\ UNCHANGED <<procVars, orphans, request, thread, verifyVars, audited, created,
                   crashes, history>>

\* The earliest lease among the removable jobs; a removal that fails ends the call.
PruneEvict ==
    /\ request # "none" /\ orphans = {} /\ lapsing = {} /\ ~Fits
    /\ \E i \in 1..Len(order) :
         /\ Removable(order[i]) /\ \A k \in 1..(i - 1) : ~Removable(order[k])
         /\ \E stays \in SUBSET CacheFiles :
              /\ RemoveJob(order[i], stays)
              /\ request' = IF stays = {} THEN request ELSE "none"
    /\ UNCHANGED <<procVars, orphans, lapsing, thread, verifyVars, audited, created,
                   crashes, history>>

\* The loop goes on although nothing can be removed.
PruneSpins ==
    /\ request # "none" /\ orphans = {} /\ lapsing = {} /\ ~Fits
    /\ \A j \in Known : ~Removable(j)
    /\ UNCHANGED vars

PruneRefused ==
    /\ request # "none" /\ orphans = {} /\ lapsing = {} /\ ~Fits
    /\ \A j \in Known : ~Removable(j)
    /\ request' = "none"
    /\ UNCHANGED <<procVars, jobVars, orphans, lapsing, thread, verifyVars, fileVars,
                   audited, counters, history>>

\* The new job, with a fresh lease and its preparing task; or the end of get.
PruneDone ==
    /\ request # "none" /\ orphans = {} /\ lapsing = {} /\ Fits
    /\ request' = "none"
    /\ IF request = "get" THEN UNCHANGED <<jobVars, thread, created>>
       ELSE LET j == created + 1
            IN  /\ created' = j
                /\ order' = Append(order, j)
                /\ status' = [status EXCEPT ![j] = "preparing"]
                /\ thread' = [thread EXCEPT ![j] = "download"]
                /\ UNCHANGED <<bytes, expired, readers, identity>>
    /\ UNCHANGED <<procVars, orphans, lapsing, verifyVars, fileVars, audited, crashes,
                   faults, history>>

-----------------------------------------------------------------------------
(* _prepare: the thread, then the completion on the event loop.            *)

\* _download refuses to write more than MAX_EXPORT_BYTES.
DownloadSizes == 1..MaxBytes

\* The bytes counted while downloading; the stop flag of aclose is then checked.
Download(j) ==
    /\ up /\ thread[j] = "download"
    /\ \E z \in DownloadSizes : /\ part' = [part EXCEPT ![j] = z]
                                /\ bytes' = [bytes EXCEPT ![j] = z]
    /\ thread' = [thread EXCEPT ![j] = IF closed THEN "error" ELSE "persist"]
    /\ UNCHANGED <<procVars, order, status, expired, readers, identity, loopVars,
                   verifyVars, clip, metadata, version, audited, counters, history>>

\* Validated and hashed, the download becomes the clip.
Persist(j) ==
    /\ up /\ thread[j] = "persist"
    /\ clip' = [clip EXCEPT ![j] = part[j]] /\ part' = [part EXCEPT ![j] = 0]
    /\ identity' = [identity EXCEPT ![j] = 0]
    /\ thread' = [thread EXCEPT ![j] = "save"]
    /\ UNCHANGED <<procVars, order, status, bytes, expired, readers, loopVars,
                   verifyVars, metadata, version, audited, counters, history>>

Save(j) ==
    /\ up /\ thread[j] = "save"
    /\ metadata' = [metadata EXCEPT ![j] = bytes[j]]
    /\ thread' = [thread EXCEPT ![j] = "saved"]
    /\ UNCHANGED <<procVars, jobVars, loopVars, verifyVars, part, clip, version,
                   audited, counters, history>>

\* The download breaks off, a validation or a write fails.
ThreadError(j) ==
    /\ up /\ thread[j] \in {"download", "persist", "save"} /\ Fault
    /\ thread' = [thread EXCEPT ![j] = "error"]
    /\ IF thread[j] = "download"
       THEN \E z \in 0..MaxBytes : part' = [part EXCEPT ![j] = z]
       ELSE part' = part
    /\ UNCHANGED <<procVars, jobVars, loopVars, verifyVars, clip, metadata, version,
                   audited, created, crashes, history>>

\* A job is offered whatever becomes of its audit record.
OfferAnyway(j) ==
    /\ Loop /\ thread[j] = "saved"
    /\ status' = [status EXCEPT ![j] = "ready"]
    /\ thread' = [thread EXCEPT ![j] = "none"]
    /\ \/ audited' = audited \cup {j} /\ UNCHANGED <<auditUnavailable, faults>>
       \/ auditUnavailable' = TRUE /\ Fault /\ UNCHANGED audited
    /\ UNCHANGED <<up, closed, order, bytes, expired, readers, identity, loopVars,
                   verifyVars, fileVars, created, crashes, history>>

\* Only a committed export.completed record makes the job ready.
Offer(j) ==
    /\ Loop /\ thread[j] = "saved" /\ ~auditUnavailable
    /\ audited' = audited \cup {j}
    /\ status' = [status EXCEPT ![j] = "ready"]
    /\ thread' = [thread EXCEPT ![j] = "none"]
    /\ UNCHANGED <<procVars, order, bytes, expired, readers, identity, loopVars,
                   verifyVars, fileVars, counters, history>>

\* The job failed, or its audit record could not be committed: the files are next.
Reject(j) ==
    /\ Loop
    /\ \/ thread[j] = "error" /\ UNCHANGED <<auditUnavailable, faults, refused>>
       \/ /\ thread[j] \in {"error", "saved"} /\ ~auditUnavailable /\ Fault
          /\ auditUnavailable' = TRUE
          /\ refused' = IF thread[j] = "saved" THEN refused \cup {j} ELSE refused
       \/ /\ thread[j] = "saved" /\ auditUnavailable
          /\ refused' = refused \cup {j} /\ UNCHANGED <<auditUnavailable, faults>>
    /\ status' = [status EXCEPT ![j] = "failed"]
    /\ bytes' = [bytes EXCEPT ![j] = 0]
    /\ thread' = [thread EXCEPT ![j] = "cleanup"]
    /\ UNCHANGED <<up, closed, order, expired, readers, identity, loopVars, verifyVars,
                   fileVars, audited, created, crashes, loaded, leaked>>

\* Removal errors are swallowed: what cannot be unlinked stays.
Cleanup(j) ==
    /\ up /\ request = "none" /\ thread[j] = "cleanup"
    /\ thread' = [thread EXCEPT ![j] = "none"]
    /\ \E stays \in SUBSET CacheFiles : Unlink(j, stays)
    /\ leaked' = IF part'[j] + clip'[j] > 0 THEN leaked \cup {j} ELSE leaked
    /\ UNCHANGED <<procVars, jobVars, loopVars, verifyVars, audited, created, crashes,
                   loaded, refused>>

-----------------------------------------------------------------------------
(* verify_ready, open_file, release_file.                                  *)

VerifyBegin(j) ==
    /\ Loop /\ status[j] = "ready" /\ identity[j] = -1
    /\ verifying[j] = "none" /\ Cardinality(Verifications) < 2
    /\ verifying' = [verifying EXCEPT ![j] = "running"]
    /\ UNCHANGED <<procVars, jobVars, loopVars, thread, admitted, fileVars, audited,
                   counters, history>>

\* The hash is not compared.
VerifiedSize(j) == clip[j] > 0 /\ clip[j] = bytes[j]

\* Size, hash and structure of the clip are those of the prepared one.
Verified(j) == clip[j] > 0 /\ clip[j] = bytes[j] /\ version[j] = 0

VerifyThread(j) ==
    /\ up /\ verifying[j] = "running"
    /\ verifying' = [verifying EXCEPT ![j] = IF Verified(j) THEN "good" ELSE "bad"]
    /\ admitted' = [admitted EXCEPT ![j] = version[j]]
    /\ UNCHANGED <<procVars, jobVars, loopVars, thread, fileVars, audited, counters,
                   history>>

\* The waiting request continues; a job removed meanwhile is no longer anyone's.
VerifyEnd(j) ==
    /\ Loop /\ verifying[j] \in {"good", "bad"}
    /\ verifying' = [verifying EXCEPT ![j] = "none"]
    /\ admitted' = [admitted EXCEPT ![j] = 0]
    /\ \/ /\ verifying[j] = "good"
          /\ identity' = [identity EXCEPT ![j] = IF j \in Known THEN admitted[j] ELSE @]
          /\ UNCHANGED <<auditUnavailable, status, faults>>
       \/ /\ verifying[j] = "bad"
          /\ status' = [status EXCEPT ![j] = IF j \in Known THEN "failed" ELSE @]
          /\ \/ UNCHANGED <<auditUnavailable, faults>>
             \/ ~auditUnavailable /\ auditUnavailable' = TRUE /\ Fault
          /\ UNCHANGED identity
    /\ UNCHANGED <<up, closed, order, bytes, expired, readers, loopVars, thread,
                   fileVars, audited, created, crashes, history>>

OpenFile(j) ==
    /\ Loop /\ status[j] = "ready" /\ identity[j] # -1
    /\ clip[j] > 0 /\ version[j] = identity[j]
    /\ readers[j] < MaxReaders
    /\ readers' = [readers EXCEPT ![j] = @ + 1]
    /\ UNCHANGED <<procVars, order, status, bytes, expired, identity, loopVars, thread,
                   verifyVars, fileVars, audited, counters, history>>

\* The transfer is audited, then the file released.
ReleaseFile(j) ==
    /\ Loop /\ readers[j] > 0
    /\ readers' = [readers EXCEPT ![j] = @ - 1]
    /\ \/ UNCHANGED <<auditUnavailable, faults>>
       \/ ~auditUnavailable /\ auditUnavailable' = TRUE /\ Fault
    /\ UNCHANGED <<up, closed, order, status, bytes, expired, identity, loopVars,
                   thread, verifyVars, fileVars, audited, created, crashes, history>>

-----------------------------------------------------------------------------
(* Time, outside changes, shutdown, crash and restart.                     *)

Expire(j) ==
    /\ Loop /\ j \in Known /\ ~expired[j]
    /\ expired' = [expired EXCEPT ![j] = TRUE]
    /\ UNCHANGED <<procVars, order, status, bytes, readers, identity, loopVars, thread,
                   verifyVars, fileVars, audited, counters, history>>

\* Something else rewrites a finished clip.
Alter(j) ==
    /\ clip[j] > 0 /\ readers[j] = 0 /\ thread[j] = "none" /\ version[j] = 0 /\ Fault
    /\ version' = [version EXCEPT ![j] = 1]
    /\ UNCHANGED <<procVars, jobVars, loopVars, thread, verifyVars, part, clip,
                   metadata, audited, created, crashes, history>>

\* aclose: no new work, downloads are told to stop, running work is awaited.
Close ==
    /\ Loop /\ ~closed
    /\ closed' = TRUE
    /\ UNCHANGED <<up, auditUnavailable, jobVars, loopVars, thread, verifyVars,
                   fileVars, audited, counters, history>>

\* The memory of the process is gone.
Gone ==
    /\ up' = FALSE /\ closed' = FALSE /\ auditUnavailable' = FALSE
    /\ order' = <<>> /\ status' = All("absent") /\ bytes' = All(0)
    /\ expired' = All(FALSE) /\ readers' = All(0) /\ identity' = All(-1)
    /\ orphans' = {} /\ request' = "none" /\ lapsing' = {}
    /\ thread' = All("none")
    /\ verifying' = All("none") /\ admitted' = All(0)
    /\ UNCHANGED <<fileVars, audited, created, faults, history>>

Exit == Loop /\ closed /\ Tasks = {} /\ Verifications = {} /\ Gone /\ UNCHANGED crashes

Crash == up /\ crashes < MaxCrashes /\ crashes' = crashes + 1 /\ Gone

\* _load: a clip whose metadata has its size is offered again, unverified, under a
\* fresh lease; every other file is an orphan.
Load ==
    /\ ~up
    /\ LET good == {j \in Job : metadata[j] > 0 /\ clip[j] = metadata[j]}
       IN  /\ order' \in SetToSeqs(good)
           /\ status' = [j \in Job |-> IF j \in good THEN "ready" ELSE "absent"]
           /\ bytes' = [j \in Job |-> IF j \in good THEN metadata[j] ELSE 0]
           /\ orphans' = {j \in Job \ good : part[j] + clip[j] + metadata[j] > 0}
           /\ loaded' = loaded \cup good
    /\ up' = TRUE
    /\ UNCHANGED <<closed, auditUnavailable, expired, readers, identity, request,
                   lapsing, thread, verifyVars, fileVars, audited, counters, refused,
                   leaked>>

Pruning == PruneOrphan \/ PruneExpired \/ PruneEvict \/ PruneRefused \/ PruneDone

Preparing(j) == \/ Download(j) \/ Persist(j) \/ Save(j) \/ ThreadError(j)
                \/ Offer(j) \/ Reject(j) \/ Cleanup(j)

Next ==
    \/ \E kind \in {"create", "get"} : Request(kind)
    \/ Pruning \/ Close \/ Exit \/ Crash \/ Load
    \/ \E j \in Job : \/ Preparing(j) \/ VerifyBegin(j) \/ VerifyThread(j) \/ VerifyEnd(j)
                      \/ OpenFile(j) \/ ReleaseFile(j) \/ Expire(j) \/ Alter(j)

\* Threads run, and a request inside _prune returns.  What waits for the event loop is
\* in its first-in-first-out queue: other requests cannot overtake it forever.
Fairness == /\ WF_vars(Pruning) /\ SF_vars(Exit)
            /\ \A j \in Job : /\ SF_vars(Preparing(j))
                             /\ WF_vars(VerifyThread(j)) /\ SF_vars(VerifyEnd(j))

Spec == Init /\ [][Next]_vars

FairSpec == Spec /\ Fairness

-----------------------------------------------------------------------------
\* Every variable has its type, and the order lists no job twice.
TypeOK ==
    /\ up \in BOOLEAN /\ closed \in BOOLEAN /\ auditUnavailable \in BOOLEAN
    /\ order \in Seq(Job)
    /\ \A i, k \in 1..Len(order) : order[i] = order[k] => i = k
    /\ status \in [Job -> {"absent", "preparing", "ready", "failed"}]
    /\ bytes \in [Job -> 0..MaxBytes] /\ expired \in [Job -> BOOLEAN]
    /\ readers \in [Job -> 0..MaxReaders] /\ identity \in [Job -> {-1, 0, 1}]
    /\ orphans \subseteq Job /\ request \in {"none", "create", "get"}
    /\ lapsing \subseteq Job
    /\ thread \in [Job -> {"none", "download", "persist", "save", "saved", "error",
                           "cleanup"}]
    /\ verifying \in [Job -> {"none", "running", "good", "bad"}]
    /\ admitted \in [Job -> {0, 1}]
    /\ part \in [Job -> 0..MaxBytes] /\ clip \in [Job -> 0..MaxBytes]
    /\ metadata \in [Job -> 0..MaxBytes] /\ version \in [Job -> {0, 1}]
    /\ audited \subseteq Job /\ loaded \subseteq Job
    /\ refused \subseteq Job /\ leaked \subseteq Job
    /\ created \in 0..NumJobs /\ crashes \in 0..MaxCrashes /\ faults \in 0..MaxFaults

\* The cache stays bounded through restarts: jobs, threads, and the bytes on disk, the
\* leavings of crashed processes included; only a clip that could not be unlinked after
\* a failed preparation (line 696) escapes the account.
CacheBounded ==
    /\ Cardinality(Known) <= MaxJobs
    /\ Cardinality(Tasks) <= 2 /\ Cardinality(Verifications) <= 2
    /\ Total([j \in Job |-> IF j \in leaked THEN 0 ELSE part[j] + clip[j]]) <= MaxRetained

\* While a file is being downloaded its job and its clip stay: neither its lease, nor
\* capacity, nor another request removes them (_remove, line 438).
ReadersKeepFile ==
    \A j \in Job : readers[j] > 0 => status[j] = "ready" /\ clip[j] > 0 /\ j \in Known

\* The cache: types, bounds and the files that are being downloaded.
CacheSound == TypeOK /\ CacheBounded /\ ReadersKeepFile

\* A download only ever starts on the clip that was prepared and hashed, also when the
\* file changed on disk before, during or after a restart (verify_ready, open_file).
ServedIntact ==
    [][\A j \in Job : readers'[j] > readers[j] => version[j] = 0]_vars

\* A job that this process prepared is offered only once its completion is in the audit
\* log (line 683).
OfferedWasAudited ==
    \A j \in Job : status[j] = "ready" /\ j \notin loaded => j \in audited

\* A prepared file whose audit record could not be committed is not offered
\* (docs/OPERATIONAL_AUDIT.md:75), neither now nor after a restart.
RefusedNeverOffered == \A j \in refused : status[j] # "ready"

\* Every accepted export is settled, ready or failed, and a shutdown ends.
Settles == /\ \A j \in Job : (thread[j] # "none") ~> (thread[j] = "none")
           /\ closed ~> ~up

=============================================================================
