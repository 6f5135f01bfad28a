------------------------ MODULE ExportManagerProofs -------------------------
(***************************************************************************)
(* Theorems about ExportManager, for any number of exports, any limits and *)
(* any number of crashes and faults: what is offered was audited, what is  *)
(* served is what was prepared, and a file being downloaded stays.         *)
(***************************************************************************)
EXTENDS ExportManager, FiniteSetTheorems, SequenceTheorems, TLAPS

-----------------------------------------------------------------------------
(* The inductive invariant.                                                *)

Working == {"download", "persist", "save", "saved", "error"}

\* The order lists the jobs that are not absent.
OrderSound == \A j \in Job : status[j] # "absent" <=> j \in Known

\* Nothing exists of a job that was not created.
FreshSound ==
    \A j \in Job : j > created =>
      /\ status[j] = "absent" /\ thread[j] = "none" /\ verifying[j] = "none"
      /\ part[j] = 0 /\ clip[j] = 0 /\ metadata[j] = 0

\* A job in preparation has its thread at work; what is being cleaned up has failed.
ThreadSound ==
    \A j \in Job : /\ thread[j] \in Working <=> status[j] = "preparing"
                   /\ thread[j] = "cleanup" => status[j] = "failed" /\ bytes[j] = 0

\* While a request is inside _prune nobody else is on the event loop.
RequestSound ==
    /\ request # "none" => \A j \in Job : thread[j] # "cleanup"
    /\ request = "create" => created < NumJobs

\* Orphaned files belong to nobody, and a stopped process has no memory.
AbsentSound ==
    /\ \A j \in orphans : status[j] = "absent"
    /\ ~up => /\ order = <<>> /\ request = "none"
              /\ \A j \in Job : /\ status[j] = "absent" /\ readers[j] = 0 /\ identity[j] = -1
                                /\ thread[j] = "none" /\ verifying[j] = "none"

\* Whatever admits a clip to readers saw the prepared one; a job is verified only until
\* it has been, and read only after that.
IdentitySound ==
    \A j \in Job :
      /\ identity[j] \in {-1, 0}
      /\ verifying[j] = "good" => admitted[j] = 0
      /\ verifying[j] # "none" => identity[j] = -1 /\ thread[j] = "none"
      /\ readers[j] > 0 => identity[j] # -1 /\ status[j] = "ready" /\ clip[j] > 0

\* The files of a job at each point of its preparation and after it: never more than
\* MAX_EXPORT_BYTES, and never more than the bytes accounted for unless they leaked.
FilesSound ==
    \A j \in Job :
      /\ thread[j] \in {"download", "persist"} => clip[j] = 0
      /\ thread[j] = "persist" => part[j] = bytes[j]
      /\ thread[j] \in {"save", "saved"} => part[j] = 0 /\ clip[j] = bytes[j]
      /\ thread[j] \in {"download", "persist", "save", "error"} => metadata[j] = 0
      /\ thread[j] # "none" => part[j] + clip[j] <= MaxBytes
      /\ thread[j] = "none" /\ status[j] # "absent" /\ j \notin leaked =>
           part[j] + clip[j] <= bytes[j]
      /\ metadata[j] > 0 => part[j] = 0

Present == {j \in Job : part[j] + clip[j] + metadata[j] > 0}

\* A running process knows every job that has files, or knows them as orphans.
PresentSound == up => \A j \in Present : status[j] # "absent" \/ j \in orphans

\* What a job may take on disk: all that is allowed while it is prepared and cleaned up.
Weight == [j \in Job |-> IF j \in leaked THEN 0
                         ELSE IF thread[j] # "none" THEN MaxBytes
                         ELSE IF status[j] # "absent" THEN bytes[j]
                         ELSE part[j] + clip[j]]

\* The jobs that are known or have files.
Held == {j \in Job : status[j] # "absent" \/ j \in Present}

\* The bounds; the slot that create found free is still free when it gets to it.
BoundsSound == /\ Total(Weight) <= MaxRetained
               /\ Cardinality(Held) <= MaxJobs
               /\ Cardinality(Tasks) <= 2 /\ Cardinality(Verifications) <= 2
               /\ request = "create" => Cardinality(Tasks) < 2

\* What can be said of each job by itself.
JobsSound == /\ TypeOK /\ OrderSound /\ FreshSound /\ ThreadSound /\ RequestSound
             /\ AbsentSound /\ IdentitySound /\ FilesSound /\ PresentSound
             /\ OfferedWasAudited

IInv == JobsSound /\ BoundsSound

-----------------------------------------------------------------------------
(* Sums.  Induction on the naturals is stated for a set.                   *)

\* A set that has 0 and with every number the next one has them all.
LEMMA SetInduction ==
  ASSUME NEW T, 0 \in T, \A n \in Nat : n \in T => n + 1 \in T
  PROVE  Nat \subseteq T
  <1> DEFINE B == {n \in Nat : n \notin T}
             R == {ss \in Nat \X Nat : ss[1] < ss[2]}
  <1>1. SUFFICES ASSUME B # {} PROVE FALSE
    OBVIOUS
  <1>2. IsWellFoundedOn(R, Nat)
    BY NatLessThanWellFounded, Zenon DEF OpToRel
  <1>3. PICK x \in B : \A y \in B : ~(<<y, x>> \in R)
    BY <1>1, <1>2, WFMin
  <1>4. x # 0 /\ x - 1 \in Nat /\ x - 1 \notin T
    OBVIOUS
  <1>5. <<x - 1, x>> \in R
    BY <1>4
  <1>6. QED
    BY <1>3, <1>4, <1>5

\* The sums of a weight over 1..n, for each n up to m.
Sums(w, m, f) == /\ f \in [0..m -> Nat] /\ f[0] = 0
                 /\ \A n \in 1..m : f[n] = f[n - 1] + w[n]

\* There are such sums.
LEMMA SumsExist ==
  ASSUME NEW w \in [Job -> Nat]
  PROVE  \E f : Sums(w, NumJobs, f)
  <1> DEFINE T == {n \in Nat : n <= NumJobs => \E f : Sums(w, n, f)}
  <1>1. 0 \in T
    <2>1. Sums(w, 0, [k \in 0..0 |-> 0])
      BY DEF Sums
    <2>2. QED
      BY <2>1
  <1>2. ASSUME NEW n \in Nat, n \in T PROVE n + 1 \in T
    <2> SUFFICES ASSUME n + 1 <= NumJobs PROVE \E f : Sums(w, n + 1, f)
      OBVIOUS
    <2>1. PICK f : Sums(w, n, f)
      BY <1>2, BoundsAssumption
    <2> DEFINE g == [k \in 0..(n + 1) |-> IF k <= n THEN f[k] ELSE f[n] + w[n + 1]]
    <2>2. w[n + 1] \in Nat
      BY BoundsAssumption DEF Job
    <2>3. g \in [0..(n + 1) -> Nat] /\ g[0] = 0
      BY <2>1, <2>2 DEF Sums
    <2>4. ASSUME NEW k \in 1..(n + 1) PROVE g[k] = g[k - 1] + w[k]
      <3>1. CASE k <= n
        BY <2>1, <3>1 DEF Sums
      <3>2. CASE k = n + 1
        BY <3>2
      <3>3. QED
        BY <3>1, <3>2
    <2>5. QED
      BY <2>3, <2>4 DEF Sums
  <1> HIDE DEF T
  <1>3. Nat \subseteq T
    BY <1>1, <1>2, SetInduction
  <1>4. QED
    BY <1>3, BoundsAssumption DEF T

\* Total is the last of the sums.
LEMMA TotalIsSum ==
  ASSUME NEW w \in [Job -> Nat]
  PROVE  \E f : Sums(w, NumJobs, f) /\ Total(w) = f[NumJobs]
  <1> DEFINE Eqn(g) == g = [n \in 0..NumJobs |-> IF n = 0 THEN 0 ELSE g[n - 1] + w[n]]
             F == CHOOSE g : Eqn(g)
  <1>1. PICK f : Sums(w, NumJobs, f)
    BY SumsExist
  <1>2. Eqn(f)
    BY <1>1, BoundsAssumption DEF Sums
  <1>3. Eqn(F)
    BY <1>2, Zenon
  <1>4. Total(w) = F[NumJobs]
    BY Zenon DEF Total
  <1> HIDE DEF F
  <1>5. \A n \in 0..NumJobs : F[n] = f[n]
    <2> DEFINE T == {n \in Nat : n <= NumJobs => F[n] = f[n]}
    <2>1. 0 \in T
      BY <1>1, <1>3, BoundsAssumption DEF Sums
    <2>2. ASSUME NEW n \in Nat, n \in T PROVE n + 1 \in T
      BY <1>1, <1>3, <2>2, BoundsAssumption DEF Sums
    <2> HIDE DEF T
    <2>3. Nat \subseteq T
      BY <2>1, <2>2, SetInduction
    <2>4. QED
      BY <2>3, BoundsAssumption DEF T
  <1>6. QED
    BY <1>1, <1>4, <1>5, BoundsAssumption DEF Sums

\* A sum is a natural number.
LEMMA TotalType == ASSUME NEW w \in [Job -> Nat] PROVE Total(w) \in Nat
  BY TotalIsSum, BoundsAssumption DEF Sums

\* A sum grows with its weights.
LEMMA TotalMonotone ==
  ASSUME NEW w \in [Job -> Nat], NEW u \in [Job -> Nat], \A j \in Job : w[j] <= u[j]
  PROVE  Total(w) <= Total(u)
  <1>1. PICK f : Sums(w, NumJobs, f) /\ Total(w) = f[NumJobs]
    BY TotalIsSum
  <1>2. PICK g : Sums(u, NumJobs, g) /\ Total(u) = g[NumJobs]
    BY TotalIsSum
  <1> DEFINE T == {n \in Nat : n <= NumJobs => f[n] <= g[n]}
  <1>3. 0 \in T
    BY <1>1, <1>2 DEF Sums
  <1>4. ASSUME NEW n \in Nat, n \in T PROVE n + 1 \in T
    <2> SUFFICES ASSUME n + 1 <= NumJobs PROVE n + 1 \in T
      OBVIOUS
    <2>1. n + 1 \in Job /\ n + 1 \in 1..NumJobs /\ n \in 0..NumJobs
      BY BoundsAssumption DEF Job
    <2>2. f[n + 1] = f[n] + w[n + 1] /\ g[n + 1] = g[n] + u[n + 1]
      BY <1>1, <1>2, <2>1 DEF Sums
    <2>3. f[n] \in Nat /\ g[n] \in Nat /\ w[n + 1] \in Nat /\ u[n + 1] \in Nat
      BY <1>1, <1>2, <2>1 DEF Sums
    <2>4. QED
      BY <1>4, <2>1, <2>2, <2>3, BoundsAssumption DEF Job
  <1> HIDE DEF T
  <1>5. Nat \subseteq T
    BY <1>3, <1>4, SetInduction
  <1>6. QED
    BY <1>1, <1>2, <1>5, BoundsAssumption DEF T

\* Raising one weight raises the sum by as much at most.
LEMMA TotalAdd ==
  ASSUME NEW w \in [Job -> Nat], NEW u \in [Job -> Nat], NEW j \in Job, NEW d \in Nat,
         \A i \in Job \ {j} : u[i] <= w[i],
         u[j] <= w[j] + d
  PROVE  Total(u) <= Total(w) + d
  <1>1. PICK f : Sums(w, NumJobs, f) /\ Total(w) = f[NumJobs]
    BY TotalIsSum
  <1>2. PICK g : Sums(u, NumJobs, g) /\ Total(u) = g[NumJobs]
    BY TotalIsSum
  <1> DEFINE T == {n \in Nat : n <= NumJobs => g[n] <= f[n] + (IF j <= n THEN d ELSE 0)}
  <1>3. 0 \in T
    BY <1>1, <1>2 DEF Sums, Job
  <1>4. ASSUME NEW n \in Nat, n \in T PROVE n + 1 \in T
    <2> SUFFICES ASSUME n + 1 <= NumJobs PROVE n + 1 \in T
      OBVIOUS
    <2>1. n + 1 \in Job /\ n + 1 \in 1..NumJobs /\ n \in 0..NumJobs
      BY BoundsAssumption DEF Job
    <2>2. f[n + 1] = f[n] + w[n + 1] /\ g[n + 1] = g[n] + u[n + 1]
      BY <1>1, <1>2, <2>1 DEF Sums
    <2>3. f[n] \in Nat /\ g[n] \in Nat /\ w[n + 1] \in Nat /\ u[n + 1] \in Nat
      BY <1>1, <1>2, <2>1 DEF Sums
    <2>4. j \in Nat /\ g[n] <= f[n] + (IF j <= n THEN d ELSE 0)
      BY <1>4, BoundsAssumption DEF Job
    <2>5. CASE n + 1 = j
      BY <2>2, <2>3, <2>4, <2>5
    <2>6. CASE n + 1 # j
      <3>1. u[n + 1] <= w[n + 1]
        BY <2>1, <2>6
      <3>2. j <= n + 1 <=> j <= n
        BY <2>4, <2>6
      <3>3. QED
        BY <2>2, <2>3, <2>4, <3>1, <3>2
    <2>7. QED
      BY <2>5, <2>6
  <1> HIDE DEF T
  <1>5. Nat \subseteq T
    BY <1>3, <1>4, SetInduction
  <1>6. QED
    BY <1>1, <1>2, <1>5, BoundsAssumption DEF T, Job

-----------------------------------------------------------------------------
(* The order of the jobs.                                                  *)

\* A sequence of jobs without repetition.
Listing(s) == s \in Seq(Job) /\ \A i, k \in 1..Len(s) : s[i] = s[k] => i = k

\* Forgetting a job takes it, and nothing else, from the order.
LEMMA RemoveAtSound ==
  ASSUME NEW s, Listing(s), NEW i \in 1..Len(s)
  PROVE  Listing(RemoveAt(s, i)) /\ Range(RemoveAt(s, i)) = Range(s) \ {s[i]}
  <1> DEFINE r == RemoveAt(s, i)
  <1>1. Len(s) \in Nat /\ s \in Seq(Job) /\ s \in [1..Len(s) -> Job]
    BY DEF Listing
  <1>2. /\ r \in Seq(Job) /\ Len(r) = Len(s) - 1
        /\ \A k \in 1..Len(r) : r[k] = IF k < i THEN s[k] ELSE s[k + 1]
    <2> DEFINE a == SubSeq(s, 1, i - 1)
               b == SubSeq(s, i + 1, Len(s))
    <2>1. /\ a \in Seq(Job) /\ Len(a) = i - 1
          /\ \A k \in 1..(i - 1) : a[k] = s[k]
      BY <1>1, SubSeqProperties
    <2>2. /\ b \in Seq(Job) /\ Len(b) = Len(s) - i
          /\ \A k \in 1..(Len(s) - i) : b[k] = s[i + k]
      <3>1. i + 1 \in Int /\ Len(s) \in Int /\ \A k \in (i + 1)..Len(s) : s[k] \in Job
        BY <1>1
      <3>2. /\ b \in Seq(Job)
            /\ Len(b) = IF i + 1 <= Len(s) THEN Len(s) - (i + 1) + 1 ELSE 0
            /\ \A k \in 1..(Len(s) - (i + 1) + 1) : b[k] = s[(i + 1) + k - 1]
        BY <3>1, SubSeqProperties
      <3>3. Len(s) - (i + 1) + 1 = Len(s) - i
        BY <1>1
      <3>4. \A k \in 1..(Len(s) - i) : (i + 1) + k - 1 = i + k
        BY <1>1
      <3> HIDE DEF b
      <3>5. Len(b) = Len(s) - i
        <4>1. i \in Int /\ i <= Len(s)
          BY <1>1
        <4>2. CASE i + 1 <= Len(s)
          BY <3>2, <3>3, <4>2
        <4>3. CASE ~(i + 1 <= Len(s))
          <5>1. Len(s) - i = 0
            BY <3>1, <4>1, <4>3
          <5>2. QED
            BY <3>2, <4>3, <5>1
        <4>4. QED
          BY <4>2, <4>3
      <3>6. \A k \in 1..(Len(s) - i) : b[k] = s[i + k]
        BY <3>2, <3>3, <3>4
      <3>7. QED
        BY <3>2, <3>5, <3>6
    <2>3. r = a \o b
      BY DEF RemoveAt
    <2> HIDE DEF a, b, r
    <2>4. /\ a \o b \in Seq(Job) /\ Len(a \o b) = Len(s) - 1
          /\ \A k \in 1..(Len(s) - 1) :
               (a \o b)[k] = IF k <= i - 1 THEN a[k] ELSE b[k - (i - 1)]
      <3>1. /\ a \o b \in Seq(Job) /\ Len(a \o b) = Len(a) + Len(b)
            /\ \A k \in 1..(Len(a) + Len(b)) :
                 (a \o b)[k] = IF k <= Len(a) THEN a[k] ELSE b[k - Len(a)]
        BY <2>1, <2>2, ConcatProperties
      <3>2. Len(a) + Len(b) = Len(s) - 1
        BY <1>1, <2>1, <2>2
      <3>3. QED
        BY <2>1, <3>1, <3>2
    <2>5. QED
      BY <1>1, <2>1, <2>2, <2>3, <2>4
  <1> HIDE DEF r
  <1>3. Listing(r)
    BY <1>1, <1>2 DEF Listing
  <1>4. Range(s) = {s[k] : k \in 1..Len(s)} /\ Range(r) = {r[k] : k \in 1..Len(r)}
    BY <1>1, <1>2 DEF Range
  <1>5. \A k \in 1..Len(s) : k # i => \E m \in 1..Len(r) : r[m] = s[k]
    <2> TAKE k \in 1..Len(s)
    <2> HAVE k # i
    <2>1. CASE k < i
      BY <1>1, <1>2, <2>1
    <2>2. CASE k > i
      <3>1. k - 1 \in 1..Len(r) /\ r[k - 1] = s[k]
        BY <1>1, <1>2, <2>2
      <3>2. QED
        BY <3>1
    <2>3. QED
      BY <1>1, <2>1, <2>2
  <1>6. \A m \in 1..Len(r) : r[m] # s[i] /\ \E k \in 1..Len(s) : s[k] = r[m]
    BY <1>1, <1>2 DEF Listing
  <1>7. Range(r) = Range(s) \ {s[i]}
    <2>1. \A x \in Range(r) : x \in Range(s) /\ x # s[i]
      BY <1>4, <1>6
    <2>2. \A x \in Range(s) : x # s[i] => x \in Range(r)
      BY <1>4, <1>5
    <2>3. QED
      BY <2>1, <2>2
  <1>8. QED
    BY <1>3, <1>7 DEF r

\* A new job is listed after the others.
LEMMA AppendSound ==
  ASSUME NEW s, Listing(s), NEW j \in Job, j \notin Range(s)
  PROVE  Listing(Append(s, j)) /\ Range(Append(s, j)) = Range(s) \cup {j}
  <1> DEFINE r == Append(s, j)
  <1>1. s \in Seq(Job) /\ Len(s) \in Nat /\ s \in [1..Len(s) -> Job]
    BY DEF Listing
  <1>2. /\ r \in Seq(Job) /\ Len(r) = Len(s) + 1 /\ r[Len(s) + 1] = j
        /\ \A k \in 1..Len(s) : r[k] = s[k]
    BY <1>1, AppendProperties
  <1> HIDE DEF r
  <1>3. Range(s) = {s[k] : k \in 1..Len(s)} /\ Range(r) = {r[k] : k \in 1..Len(r)}
    BY <1>1, <1>2 DEF Range
  <1>4. \A k \in 1..Len(r) : k \in 1..Len(s) \/ k = Len(s) + 1
    BY <1>1, <1>2
  <1>5. Listing(r)
    BY <1>1, <1>2, <1>3, <1>4 DEF Listing
  <1>6. Range(r) = Range(s) \cup {j}
    BY <1>1, <1>2, <1>3, <1>4
  <1>7. QED
    BY <1>5, <1>6 DEF r

\* There are finitely many jobs.
LEMMA JobsFinite == \A S \in SUBSET Job : IsFiniteSet(S)
  <1>1. IsFiniteSet(Job)
    BY FS_Interval, BoundsAssumption DEF Job
  <1>2. QED
    BY <1>1, FS_Subset

\* The jobs that _load finds are listed in some order.
LEMMA SetToSeqsSound ==
  ASSUME NEW S \in SUBSET Job, NEW s \in SetToSeqs(S)
  PROVE  Listing(s) /\ Range(s) = S
  <1>1. IsFiniteSet(S) /\ Cardinality(S) \in Nat
    BY JobsFinite, FS_CardinalityType
  <1>2. /\ s \in [1..Cardinality(S) -> S]
        /\ \A i, k \in 1..Cardinality(S) : i # k => s[i] # s[k]
    BY DEF SetToSeqs
  <1>3. s \in Injection(1..Cardinality(S), S)
    BY <1>2 DEF Injection, IsInjective
  <1>4. Cardinality(1..Cardinality(S)) = Cardinality(S)
    BY <1>1, FS_Interval
  <1>5. s \in Surjection(1..Cardinality(S), S)
    BY <1>1, <1>3, <1>4, FS_Injection
  <1>6. Range(s) = S
    BY <1>2, <1>5 DEF Surjection, Range
  <1>7. s \in Seq(Job) /\ Len(s) = Cardinality(S)
    BY <1>1, <1>2
  <1>8. QED
    BY <1>2, <1>6, <1>7 DEF Listing

-----------------------------------------------------------------------------
(* Each job by itself.                                                     *)

\* The switches of the process and the elapsed leases.
Flags == /\ up \in BOOLEAN /\ closed \in BOOLEAN /\ auditUnavailable \in BOOLEAN
         /\ expired \in [Job -> BOOLEAN]

\* The empty cache satisfies the invariant of the jobs.
LEMMA JobsInit == Init => JobsSound
  <1> SUFFICES ASSUME Init PROVE JobsSound
    OBVIOUS
  <1>1. Flags
    BY Zenon DEF Init, Flags, All
  <1>2. Known = {}
    BY DEF Init, Known, Range
  <1>3. QED
    BY <1>1, <1>2, BoundsAssumption
       DEF Init, All, Flags, JobsSound, TypeOK, OrderSound, FreshSound, ThreadSound, RequestSound,
           AbsentSound, IdentitySound, FilesSound, PresentSound, Present, OfferedWasAudited, Working

\* The preparation of a job: its thread, and the completion on the event loop.
LEMMA PreparingKeepsJobs ==
  ASSUME JobsSound, NEW j \in Job, Preparing(j)
  PROVE  JobsSound'
  <1> USE BoundsAssumption DEF Fault, Loop, procVars, jobVars, loopVars, verifyVars, fileVars,
          counters, history
  <1>0. order' = order => Known' = Known
    BY DEF Known
  <1>1. CASE Download(j)
    <2>1. TypeOK'
      BY <1>0, <1>1 DEF Download, DownloadSizes, JobsSound, TypeOK
    <2>2. OrderSound' /\ FreshSound' /\ ThreadSound' /\ RequestSound'
      BY <1>0, <1>1 DEF Download, DownloadSizes, JobsSound, TypeOK, OrderSound, FreshSound,
         ThreadSound, RequestSound, Working
    <2>3. AbsentSound' /\ IdentitySound'
      BY <1>0, <1>1 DEF Download, DownloadSizes, JobsSound, TypeOK, AbsentSound,
         IdentitySound, ThreadSound, OrderSound, Working
    <2>4. FilesSound'
      BY <1>0, <1>1 DEF Download, DownloadSizes, JobsSound, TypeOK, FilesSound, ThreadSound,
         FreshSound, AbsentSound, Working
    <2>5. PresentSound' /\ OfferedWasAudited'
      BY <1>0, <1>1 DEF Download, DownloadSizes, JobsSound, TypeOK, PresentSound,
         OfferedWasAudited, Present, ThreadSound, AbsentSound, Working
    <2>6. QED
      BY <2>1, <2>2, <2>3, <2>4, <2>5 DEF JobsSound
  <1>2. CASE Persist(j)
    <2>1. TypeOK'
      BY <1>0, <1>2 DEF Persist, JobsSound, TypeOK
    <2>2. OrderSound' /\ FreshSound' /\ ThreadSound' /\ RequestSound'
      BY <1>0, <1>2 DEF Persist, JobsSound, TypeOK, OrderSound, FreshSound, ThreadSound,
         RequestSound, Working
    <2>3. AbsentSound' /\ IdentitySound'
      BY <1>0, <1>2 DEF Persist, JobsSound, TypeOK, AbsentSound, IdentitySound, ThreadSound,
         OrderSound, Working
    <2>4. FilesSound'
      BY <1>0, <1>2 DEF Persist, JobsSound, TypeOK, FilesSound, ThreadSound, FreshSound,
         AbsentSound, Working
    <2>5. PresentSound' /\ OfferedWasAudited'
      BY <1>0, <1>2 DEF Persist, JobsSound, TypeOK, PresentSound, OfferedWasAudited, Present,
         ThreadSound, AbsentSound, Working
    <2>6. QED
      BY <2>1, <2>2, <2>3, <2>4, <2>5 DEF JobsSound
  <1>3. CASE Save(j)
    <2>1. TypeOK'
      BY <1>0, <1>3 DEF Save, JobsSound, TypeOK
    <2>2. OrderSound' /\ FreshSound' /\ ThreadSound' /\ RequestSound'
      BY <1>0, <1>3 DEF Save, JobsSound, TypeOK, OrderSound, FreshSound, ThreadSound,
         RequestSound, Working
    <2>3. AbsentSound' /\ IdentitySound'
      BY <1>0, <1>3 DEF Save, JobsSound, TypeOK, AbsentSound, IdentitySound, ThreadSound,
         OrderSound, Working
    <2>4. FilesSound'
      BY <1>0, <1>3 DEF Save, JobsSound, TypeOK, FilesSound, ThreadSound, FreshSound,
         AbsentSound, Working
    <2>5. PresentSound' /\ OfferedWasAudited'
      BY <1>0, <1>3 DEF Save, JobsSound, TypeOK, PresentSound, OfferedWasAudited, Present,
         ThreadSound, AbsentSound, Working
    <2>6. QED
      BY <2>1, <2>2, <2>3, <2>4, <2>5 DEF JobsSound
  <1>4. CASE ThreadError(j)
    <2>1. \E z \in 0..MaxBytes : part' = [part EXCEPT ![j] = z]
      BY <1>4 DEF ThreadError, JobsSound, TypeOK
    <2>2. part' \in [Job -> 0..MaxBytes]
      BY <1>4, <2>1 DEF JobsSound, TypeOK
    <2>3. TypeOK'
      BY <1>0, <1>4, <2>1, <2>2 DEF ThreadError, JobsSound, TypeOK
    <2>4. OrderSound' /\ FreshSound' /\ ThreadSound' /\ RequestSound'
      BY <1>0, <1>4, <2>1, <2>2 DEF ThreadError, JobsSound, TypeOK, OrderSound, FreshSound,
         ThreadSound, RequestSound, Working
    <2>5. AbsentSound' /\ IdentitySound'
      BY <1>0, <1>4, <2>1, <2>2 DEF ThreadError, JobsSound, TypeOK, AbsentSound,
         IdentitySound, ThreadSound, OrderSound, Working
    <2>6. FilesSound'
      BY <1>0, <1>4, <2>1, <2>2 DEF ThreadError, JobsSound, TypeOK, FilesSound, ThreadSound,
         FreshSound, AbsentSound, Working
    <2>7. PresentSound' /\ OfferedWasAudited'
      BY <1>0, <1>4, <2>1, <2>2 DEF ThreadError, JobsSound, TypeOK, PresentSound,
         OfferedWasAudited, Present, ThreadSound, AbsentSound, Working
    <2>8. QED
      BY <2>3, <2>4, <2>5, <2>6, <2>7 DEF JobsSound
  <1>5. CASE Offer(j)
    <2>1. TypeOK'
      BY <1>0, <1>5 DEF Offer, JobsSound, TypeOK
    <2>2. OrderSound' /\ FreshSound' /\ ThreadSound' /\ RequestSound'
      BY <1>0, <1>5 DEF Offer, JobsSound, TypeOK, OrderSound, FreshSound, ThreadSound,
         RequestSound, Working
    <2>3. AbsentSound' /\ IdentitySound'
      BY <1>0, <1>5 DEF Offer, JobsSound, TypeOK, AbsentSound, IdentitySound, ThreadSound,
         OrderSound, Working
    <2>4. FilesSound'
      BY <1>0, <1>5 DEF Offer, JobsSound, TypeOK, FilesSound, ThreadSound, FreshSound,
         AbsentSound, Working
    <2>5. PresentSound' /\ OfferedWasAudited'
      BY <1>0, <1>5 DEF Offer, JobsSound, TypeOK, PresentSound, OfferedWasAudited, Present,
         ThreadSound, AbsentSound, Working
    <2>6. QED
      BY <2>1, <2>2, <2>3, <2>4, <2>5 DEF JobsSound
  <1>6. CASE Reject(j)
    <2>1. Flags'
      BY <1>6, Zenon DEF Reject, JobsSound, TypeOK, Flags
    <2>2. refused' \subseteq Job /\ faults' \in 0..MaxFaults
      BY <1>6, <2>1 DEF Reject, JobsSound, TypeOK
    <2>3. TypeOK'
      BY <1>0, <1>6, <2>1, <2>2 DEF Reject, JobsSound, TypeOK, Flags
    <2>4. OrderSound' /\ FreshSound' /\ ThreadSound' /\ RequestSound'
      BY <1>0, <1>6, <2>1, <2>2 DEF Reject, JobsSound, TypeOK, OrderSound, FreshSound,
         ThreadSound, RequestSound, Working, Flags
    <2>5. AbsentSound' /\ IdentitySound'
      BY <1>0, <1>6, <2>1, <2>2 DEF Reject, JobsSound, TypeOK, AbsentSound, IdentitySound,
         ThreadSound, OrderSound, Working, Flags
    <2>6. FilesSound'
      BY <1>0, <1>6, <2>1, <2>2 DEF Reject, JobsSound, TypeOK, FilesSound, ThreadSound,
         FreshSound, AbsentSound, Working, Flags
    <2>7. PresentSound' /\ OfferedWasAudited'
      BY <1>0, <1>6, <2>1, <2>2 DEF Reject, JobsSound, TypeOK, PresentSound,
         OfferedWasAudited, Present, ThreadSound, AbsentSound, Working, Flags
    <2>8. QED
      BY <2>3, <2>4, <2>5, <2>6, <2>7 DEF JobsSound
  <1>7. CASE Cleanup(j)
    <2>1. \E stays \in SUBSET CacheFiles : Unlink(j, stays)
      BY <1>7 DEF Cleanup
    <2>2. /\ part' \in [Job -> 0..MaxBytes] /\ clip' \in [Job -> 0..MaxBytes]
          /\ metadata' \in [Job -> 0..MaxBytes] /\ version' = version /\ faults' \in 0..MaxFaults
          /\ part'[j] <= part[j] /\ clip'[j] <= clip[j] /\ metadata'[j] <= metadata[j]
          /\ \A i \in Job \ {j} : /\ part'[i] = part[i] /\ clip'[i] = clip[i]
                                  /\ metadata'[i] = metadata[i]
      BY <1>7, <2>1 DEF Unlink, JobsSound, TypeOK
    <2>3. leaked' \subseteq Job
      BY <1>7, <2>1, <2>2 DEF Cleanup, JobsSound, TypeOK
    <2>4. TypeOK'
      BY <1>0, <1>7, <2>1, <2>2, <2>3 DEF Cleanup, JobsSound, TypeOK
    <2>5. OrderSound' /\ FreshSound' /\ ThreadSound' /\ RequestSound'
      BY <1>0, <1>7, <2>1, <2>2, <2>3 DEF Cleanup, JobsSound, TypeOK, OrderSound, FreshSound,
         ThreadSound, RequestSound, Working
    <2>6. AbsentSound'
      BY <1>7 DEF Cleanup, JobsSound, AbsentSound
    <2>7. IdentitySound'
      <3>1. /\ thread[j] = "cleanup" /\ thread' = [thread EXCEPT ![j] = "none"]
            /\ UNCHANGED <<readers, identity, status, verifying, admitted>>
        BY <1>7 DEF Cleanup
      <3>2. status[j] = "failed"
        BY <3>1 DEF JobsSound, ThreadSound
      <3>3. ~(readers[j] > 0)
        BY <3>2 DEF JobsSound, IdentitySound
      <3>4. \A i \in Job : (readers[i] > 0 => clip'[i] = clip[i])
                          /\ (thread[i] = "none" => thread'[i] = "none")
        BY <2>2, <3>1, <3>3 DEF JobsSound, TypeOK
      <3>5. QED
        BY <3>1, <3>4 DEF JobsSound, IdentitySound
    <2>8. FilesSound'
      <3>1. /\ bytes[j] = 0 /\ thread' = [thread EXCEPT ![j] = "none"]
            /\ UNCHANGED <<bytes, status>>
        BY <1>7 DEF Cleanup, JobsSound, ThreadSound
      <3>2. leaked' = IF part'[j] + clip'[j] > 0 THEN leaked \cup {j} ELSE leaked
        BY <1>7 DEF Cleanup
      <3>3. j \notin leaked' => part'[j] + clip'[j] <= bytes[j]
        BY <2>2, <3>1, <3>2 DEF JobsSound, TypeOK
      <3>4. metadata'[j] > 0 => part'[j] = 0
        BY <2>2 DEF JobsSound, TypeOK, FilesSound
      <3>5. \A i \in Job \ {j} : i \in leaked' <=> i \in leaked
        BY <3>2
      <3>6. QED
        BY <2>2, <3>1, <3>3, <3>4, <3>5 DEF JobsSound, TypeOK, FilesSound
    <2>9. PresentSound' /\ OfferedWasAudited'
      BY <1>0, <1>7, <2>1, <2>2, <2>3 DEF Cleanup, JobsSound, TypeOK, PresentSound,
         OfferedWasAudited, Present, ThreadSound, AbsentSound, Working
    <2>10. QED
      BY <2>4, <2>5, <2>6, <2>7, <2>8, <2>9 DEF JobsSound
  <1>8. QED
    BY <1>1, <1>2, <1>3, <1>4, <1>5, <1>6, <1>7 DEF Preparing

\* Verification, downloads, leases and changes from outside.
LEMMA ReadingKeepsJobs ==
  ASSUME JobsSound, NEW j \in Job,
         \/ VerifyBegin(j) \/ VerifyThread(j) \/ VerifyEnd(j)
         \/ OpenFile(j) \/ ReleaseFile(j) \/ Expire(j) \/ Alter(j)
  PROVE  JobsSound'
  <1> USE BoundsAssumption DEF Fault, Loop, procVars, jobVars, loopVars, verifyVars, fileVars,
          counters, history
  <1>0. order' = order => Known' = Known
    BY DEF Known
  <1>1. CASE VerifyBegin(j)
    <2>1. TypeOK'
      BY <1>0, <1>1 DEF VerifyBegin, JobsSound, TypeOK
    <2>2. OrderSound' /\ FreshSound' /\ ThreadSound' /\ RequestSound'
      BY <1>0, <1>1 DEF VerifyBegin, JobsSound, TypeOK, OrderSound, FreshSound, ThreadSound,
         RequestSound, Working
    <2>3. AbsentSound' /\ IdentitySound'
      <3>1. thread[j] = "none"
        BY <1>1 DEF VerifyBegin, JobsSound, TypeOK, ThreadSound, Working
      <3>2. AbsentSound'
        BY <1>1 DEF VerifyBegin, JobsSound, AbsentSound
      <3>3. IdentitySound'
        BY <1>1, <3>1 DEF VerifyBegin, JobsSound, TypeOK, IdentitySound
      <3>4. QED
        BY <3>2, <3>3
    <2>4. FilesSound'
      BY <1>0, <1>1 DEF VerifyBegin, JobsSound, TypeOK, FilesSound, ThreadSound, FreshSound,
         AbsentSound, Working
    <2>5. PresentSound' /\ OfferedWasAudited'
      BY <1>0, <1>1 DEF VerifyBegin, JobsSound, TypeOK, PresentSound, OfferedWasAudited,
         Present, ThreadSound, AbsentSound, Working
    <2>6. QED
      BY <2>1, <2>2, <2>3, <2>4, <2>5 DEF JobsSound
  <1>2. CASE VerifyThread(j)
    <2>1. TypeOK'
      BY <1>0, <1>2 DEF VerifyThread, Verified, JobsSound, TypeOK
    <2>2. OrderSound' /\ FreshSound' /\ ThreadSound' /\ RequestSound'
      BY <1>0, <1>2 DEF VerifyThread, Verified, JobsSound, TypeOK, OrderSound, FreshSound,
         ThreadSound, RequestSound, Working
    <2>3. AbsentSound' /\ IdentitySound'
      BY <1>0, <1>2 DEF VerifyThread, Verified, JobsSound, TypeOK, AbsentSound, IdentitySound,
         ThreadSound, OrderSound, Working
    <2>4. FilesSound'
      BY <1>0, <1>2 DEF VerifyThread, Verified, JobsSound, TypeOK, FilesSound, ThreadSound,
         FreshSound, AbsentSound, Working
    <2>5. PresentSound' /\ OfferedWasAudited'
      BY <1>0, <1>2 DEF VerifyThread, Verified, JobsSound, TypeOK, PresentSound,
         OfferedWasAudited, Present, ThreadSound, AbsentSound, Working
    <2>6. QED
      BY <2>1, <2>2, <2>3, <2>4, <2>5 DEF JobsSound
  <1>3. CASE VerifyEnd(j)
    <2>1. Flags'
      BY <1>3, Zenon DEF VerifyEnd, JobsSound, TypeOK, Flags
    <2>2. /\ faults' \in 0..MaxFaults
          /\ verifying' = [verifying EXCEPT ![j] = "none"]
          /\ admitted' = [admitted EXCEPT ![j] = 0]
          /\ UNCHANGED <<up, closed, order, bytes, expired, readers, loopVars, thread,
                         fileVars, audited, created, crashes, history>>
      BY <1>3 DEF VerifyEnd, JobsSound, TypeOK
    <2>3. /\ identity[j] = -1 /\ thread[j] = "none" /\ status[j] # "preparing"
          /\ readers[j] = 0 /\ up
      BY <1>3 DEF VerifyEnd, JobsSound, TypeOK, IdentitySound, ThreadSound, Working
    <2>4. /\ identity' \in [Job -> {-1, 0, 1}] /\ identity'[j] \in {-1, 0}
          /\ \A i \in Job \ {j} : identity'[i] = identity[i]
      <3>1. CASE verifying[j] = "good"
        <4>1. admitted[j] = 0
          BY <3>1 DEF JobsSound, IdentitySound
        <4>2. identity' = [identity EXCEPT ![j] = IF j \in Known THEN admitted[j] ELSE @]
          BY <1>3, <3>1 DEF VerifyEnd
        <4>3. identity' = [identity EXCEPT ![j] = IF j \in Known THEN 0 ELSE -1]
          BY <2>3, <4>1, <4>2
        <4>4. QED
          BY <4>3 DEF JobsSound, TypeOK
      <3>2. CASE verifying[j] = "bad"
        BY <1>3, <2>3, <3>2 DEF VerifyEnd, JobsSound, TypeOK
      <3>3. QED
        BY <1>3, <3>1, <3>2 DEF VerifyEnd
    <2>5. /\ status' \in [Job -> {"absent", "preparing", "ready", "failed"}]
          /\ status'[j] = status[j] \/ (status'[j] = "failed" /\ j \in Known)
          /\ \A i \in Job \ {j} : status'[i] = status[i]
      <3>1. CASE verifying[j] = "good"
        BY <1>3, <3>1 DEF VerifyEnd, JobsSound, TypeOK
      <3>2. CASE verifying[j] = "bad"
        BY <1>3, <3>2 DEF VerifyEnd, JobsSound, TypeOK
      <3>3. QED
        BY <1>3, <3>1, <3>2 DEF VerifyEnd
    <2>6. status[j] # "absent" <=> status'[j] # "absent"
      BY <2>5 DEF JobsSound, OrderSound
    <2>7. TypeOK'
      BY <2>1, <2>2, <2>4, <2>5 DEF JobsSound, TypeOK, Flags
    <2>8. OrderSound' /\ FreshSound' /\ ThreadSound' /\ RequestSound'
      <3>1. OrderSound'
        BY <1>0, <2>2, <2>5, <2>6 DEF JobsSound, TypeOK, OrderSound
      <3>2. FreshSound'
        BY <2>2, <2>5, <2>6 DEF JobsSound, TypeOK, FreshSound
      <3>3. ThreadSound' /\ RequestSound'
        BY <2>2, <2>3, <2>5 DEF JobsSound, TypeOK, ThreadSound, RequestSound, Working
      <3>4. QED
        BY <3>1, <3>2, <3>3
    <2>9. AbsentSound'
      BY <2>2, <2>3, <2>5, <2>6 DEF JobsSound, TypeOK, AbsentSound
    <2>10. IdentitySound'
      BY <2>2, <2>3, <2>4, <2>5 DEF JobsSound, TypeOK, IdentitySound
    <2>11. FilesSound'
      BY <2>2, <2>3, <2>5, <2>6 DEF JobsSound, TypeOK, FilesSound
    <2>12. PresentSound' /\ OfferedWasAudited'
      BY <2>2, <2>3, <2>5, <2>6 DEF JobsSound, TypeOK, PresentSound, Present,
         OfferedWasAudited
    <2>13. QED
      BY <2>7, <2>8, <2>9, <2>10, <2>11, <2>12 DEF JobsSound
  <1>4. CASE OpenFile(j)
    <2>1. TypeOK'
      BY <1>0, <1>4 DEF OpenFile, JobsSound, TypeOK
    <2>2. OrderSound' /\ FreshSound' /\ ThreadSound' /\ RequestSound'
      BY <1>0, <1>4 DEF OpenFile, JobsSound, TypeOK, OrderSound, FreshSound, ThreadSound,
         RequestSound, Working
    <2>3. AbsentSound' /\ IdentitySound'
      BY <1>0, <1>4 DEF OpenFile, JobsSound, TypeOK, AbsentSound, IdentitySound, ThreadSound,
         OrderSound, Working
    <2>4. FilesSound'
      BY <1>0, <1>4 DEF OpenFile, JobsSound, TypeOK, FilesSound, ThreadSound, FreshSound,
         AbsentSound, Working
    <2>5. PresentSound' /\ OfferedWasAudited'
      BY <1>0, <1>4 DEF OpenFile, JobsSound, TypeOK, PresentSound, OfferedWasAudited, Present,
         ThreadSound, AbsentSound, Working
    <2>6. QED
      BY <2>1, <2>2, <2>3, <2>4, <2>5 DEF JobsSound
  <1>5. CASE ReleaseFile(j)
    <2>1. Flags'
      BY <1>5, Zenon DEF ReleaseFile, JobsSound, TypeOK, Flags
    <2>2. readers' \in [Job -> 0..MaxReaders] /\ faults' \in 0..MaxFaults
      BY <1>5, <2>1 DEF ReleaseFile, JobsSound, TypeOK
    <2>3. TypeOK'
      BY <1>0, <1>5, <2>1, <2>2 DEF ReleaseFile, JobsSound, TypeOK, Flags
    <2>4. OrderSound' /\ FreshSound' /\ ThreadSound' /\ RequestSound'
      BY <1>0, <1>5, <2>1, <2>2 DEF ReleaseFile, JobsSound, TypeOK, OrderSound, FreshSound,
         ThreadSound, RequestSound, Working, Flags
    <2>5. AbsentSound' /\ IdentitySound'
      BY <1>0, <1>5, <2>1, <2>2 DEF ReleaseFile, JobsSound, TypeOK, AbsentSound,
         IdentitySound, ThreadSound, OrderSound, Working, Flags
    <2>6. FilesSound'
      BY <1>0, <1>5, <2>1, <2>2 DEF ReleaseFile, JobsSound, TypeOK, FilesSound, ThreadSound,
         FreshSound, AbsentSound, Working, Flags
    <2>7. PresentSound' /\ OfferedWasAudited'
      BY <1>0, <1>5, <2>1, <2>2 DEF ReleaseFile, JobsSound, TypeOK, PresentSound,
         OfferedWasAudited, Present, ThreadSound, AbsentSound, Working, Flags
    <2>8. QED
      BY <2>3, <2>4, <2>5, <2>6, <2>7 DEF JobsSound
  <1>6. CASE Expire(j)
    <2>1. Flags'
      BY <1>6, Zenon DEF Expire, JobsSound, TypeOK, Flags
    <2>2. TypeOK'
      BY <1>0, <1>6, <2>1 DEF Expire, JobsSound, TypeOK, Flags
    <2>3. OrderSound' /\ FreshSound' /\ ThreadSound' /\ RequestSound'
      BY <1>0, <1>6, <2>1 DEF Expire, JobsSound, TypeOK, OrderSound, FreshSound, ThreadSound,
         RequestSound, Working, Flags
    <2>4. AbsentSound' /\ IdentitySound'
      BY <1>0, <1>6, <2>1 DEF Expire, JobsSound, TypeOK, AbsentSound, IdentitySound,
         ThreadSound, OrderSound, Working, Flags
    <2>5. FilesSound'
      BY <1>0, <1>6, <2>1 DEF Expire, JobsSound, TypeOK, FilesSound, ThreadSound, FreshSound,
         AbsentSound, Working, Flags
    <2>6. PresentSound' /\ OfferedWasAudited'
      BY <1>0, <1>6, <2>1 DEF Expire, JobsSound, TypeOK, PresentSound, OfferedWasAudited,
         Present, ThreadSound, AbsentSound, Working, Flags
    <2>7. QED
      BY <2>2, <2>3, <2>4, <2>5, <2>6 DEF JobsSound
  <1>7. CASE Alter(j)
    <2>1. TypeOK'
      BY <1>0, <1>7 DEF Alter, JobsSound, TypeOK
    <2>2. OrderSound' /\ FreshSound' /\ ThreadSound' /\ RequestSound'
      BY <1>0, <1>7 DEF Alter, JobsSound, TypeOK, OrderSound, FreshSound, ThreadSound,
         RequestSound, Working
    <2>3. AbsentSound' /\ IdentitySound'
      BY <1>0, <1>7 DEF Alter, JobsSound, TypeOK, AbsentSound, IdentitySound, ThreadSound,
         OrderSound, Working
    <2>4. FilesSound'
      BY <1>0, <1>7 DEF Alter, JobsSound, TypeOK, FilesSound, ThreadSound, FreshSound,
         AbsentSound, Working
    <2>5. PresentSound' /\ OfferedWasAudited'
      BY <1>0, <1>7 DEF Alter, JobsSound, TypeOK, PresentSound, OfferedWasAudited, Present,
         ThreadSound, AbsentSound, Working
    <2>6. QED
      BY <2>1, <2>2, <2>3, <2>4, <2>5 DEF JobsSound
  <1>8. QED
    BY <1>1, <1>2, <1>3, <1>4, <1>5, <1>6, <1>7

\* The files of a job got smaller, and nobody else's changed.
Shrunk(j) ==
    /\ part' \in [Job -> 0..MaxBytes] /\ clip' \in [Job -> 0..MaxBytes]
    /\ metadata' \in [Job -> 0..MaxBytes] /\ version' = version /\ faults' \in 0..MaxFaults
    /\ part'[j] <= part[j] /\ clip'[j] <= clip[j] /\ metadata'[j] <= metadata[j]
    /\ \A i \in Job \ {j} : /\ part'[i] = part[i] /\ clip'[i] = clip[i]
                            /\ metadata'[i] = metadata[i]

\* What the unlinks of a job's files do, and what they do when all succeed.
LEMMA UnlinkSound ==
  ASSUME JobsSound, NEW j \in Job, NEW stays, Unlink(j, stays)
  PROVE  Shrunk(j) /\ (stays = {} => part'[j] = 0 /\ clip'[j] = 0 /\ metadata'[j] = 0)
  <1> USE BoundsAssumption
  <1>1. faults' \in 0..MaxFaults /\ version' = version
    BY DEF Unlink, Fault, JobsSound, TypeOK
  <1>2. /\ part' \in [Job -> 0..MaxBytes] /\ part'[j] <= part[j]
        /\ (stays = {} => part'[j] = 0) /\ \A i \in Job \ {j} : part'[i] = part[i]
    BY DEF Unlink, JobsSound, TypeOK
  <1>3. /\ clip' \in [Job -> 0..MaxBytes] /\ clip'[j] <= clip[j]
        /\ (stays = {} => clip'[j] = 0) /\ \A i \in Job \ {j} : clip'[i] = clip[i]
    BY DEF Unlink, JobsSound, TypeOK
  <1>4. /\ metadata' \in [Job -> 0..MaxBytes] /\ metadata'[j] <= metadata[j]
        /\ (stays = {} => metadata'[j] = 0)
        /\ \A i \in Job \ {j} : metadata'[i] = metadata[i]
    BY DEF Unlink, JobsSound, TypeOK
  <1>5. QED
    BY <1>1, <1>2, <1>3, <1>4 DEF Shrunk

\* Smaller files keep what is said of files, when nobody prepares or reads them.
LEMMA ShrunkKeepsFiles ==
  ASSUME JobsSound, NEW j \in Job, Shrunk(j), thread[j] = "none", readers[j] = 0,
         UNCHANGED <<bytes, thread, leaked, readers, identity, verifying, admitted>>,
         status'[j] \in {status[j], "absent"},
         \A i \in Job \ {j} : status'[i] = status[i]
  PROVE  FilesSound' /\ IdentitySound' /\ Present' \subseteq Present
  <1> USE BoundsAssumption
  <1>1. IdentitySound'
    <2>1. \A i \in Job : readers[i] > 0 => clip'[i] = clip[i] /\ status'[i] = status[i]
      BY DEF Shrunk
    <2>2. QED
      BY <2>1 DEF JobsSound, IdentitySound
  <1>2. ASSUME NEW i \in Job
        PROVE  /\ part'[i] \in Nat /\ clip'[i] \in Nat /\ metadata'[i] \in Nat
               /\ part[i] \in Nat /\ clip[i] \in Nat /\ metadata[i] \in Nat
               /\ part'[i] <= part[i] /\ clip'[i] <= clip[i] /\ metadata'[i] <= metadata[i]
               /\ bytes[i] \in Nat
    <2>1. /\ part[i] \in Nat /\ clip[i] \in Nat /\ metadata[i] \in Nat /\ bytes[i] \in Nat
      BY DEF JobsSound, TypeOK
    <2>2. /\ part'[i] \in Nat /\ clip'[i] \in Nat /\ metadata'[i] \in Nat
      BY DEF Shrunk
    <2>3. CASE i = j
      BY <2>1, <2>2, <2>3 DEF Shrunk
    <2>4. CASE i # j
      BY <2>1, <2>2, <2>4 DEF Shrunk
    <2>5. QED
      BY <2>1, <2>2, <2>3, <2>4
  <1>3. Present' \subseteq Present
    BY <1>2 DEF Present
  <1>4. FilesSound'
    <2> SUFFICES ASSUME NEW i \in Job PROVE FilesSound!(i)'
      BY DEF FilesSound
    <2>1. CASE i = j
      <3>1. /\ thread'[i] = "none" /\ bytes'[i] = bytes[i] /\ leaked' = leaked
            /\ status'[i] # "absent" => status[i] # "absent"
        BY <2>1
      <3>2. /\ thread[i] = "none" /\ status[i] # "absent" /\ i \notin leaked =>
                 part[i] + clip[i] <= bytes[i]
            /\ metadata[i] > 0 => part[i] = 0
        BY DEF JobsSound, FilesSound
      <3>3. metadata'[i] > 0 => part'[i] = 0
        BY <1>2, <3>2
      <3>4. QED
        BY <1>2, <2>1, <3>1, <3>2, <3>3
    <2>2. CASE i # j
      BY <2>2 DEF JobsSound, FilesSound, Shrunk
    <2>3. QED
      BY <2>1, <2>2
  <1>5. QED
    BY <1>1, <1>3, <1>4

\* A request enters _prune, leaves it, or passes over a job.
LEMMA LoopKeepsJobs ==
  ASSUME JobsSound, lapsing' \subseteq Job, request' \in {"none", "create", "get"},
         RequestSound', ~up => request' = "none",
         UNCHANGED <<procVars, jobVars, orphans, thread, verifyVars, fileVars, audited,
                     counters, history>>
  PROVE  JobsSound'
  <1> USE DEF procVars, jobVars, verifyVars, fileVars, counters, history
  <1>1. Known' = Known /\ Present' = Present
    BY DEF Known, Present
  <1>2. TypeOK' /\ OrderSound' /\ FreshSound' /\ ThreadSound'
    BY <1>1 DEF JobsSound, TypeOK, OrderSound, FreshSound, ThreadSound
  <1>3. AbsentSound' /\ IdentitySound' /\ FilesSound' /\ PresentSound' /\ OfferedWasAudited'
    BY <1>1 DEF JobsSound, AbsentSound, IdentitySound, FilesSound, PresentSound,
       OfferedWasAudited
  <1>4. QED
    BY <1>2, <1>3 DEF JobsSound

\* _remove, whether it can unlink every file or not.
LEMMA RemoveJobKeepsJobs ==
  ASSUME JobsSound, NEW j \in Job, NEW stays \in SUBSET CacheFiles, RemoveJob(j, stays),
         request # "none", lapsing' \subseteq Job, request' \in {request, "none"},
         UNCHANGED <<procVars, orphans, thread, verifyVars, audited, created, crashes,
                     history>>
  PROVE  JobsSound'
  <1> USE BoundsAssumption DEF procVars, jobVars, verifyVars, history
  <1>1. Shrunk(j) /\ (stays = {} => part'[j] = 0 /\ clip'[j] = 0 /\ metadata'[j] = 0)
    BY UnlinkSound DEF RemoveJob
  <1>2. /\ status[j] \in {"ready", "failed"} /\ readers[j] = 0
        /\ UNCHANGED <<bytes, expired, readers, identity>>
    BY DEF RemoveJob, Removable
  <1>3. thread[j] = "none"
    BY <1>2 DEF JobsSound, TypeOK, ThreadSound, RequestSound, Working
  <1>4. /\ Listing(order)' /\ status' \in [Job -> {"absent", "preparing", "ready", "failed"}]
        /\ status'[j] \in {status[j], "absent"}
        /\ \A i \in Job \ {j} : status'[i] = status[i]
        /\ \A i \in Job \ {j} : i \in Known' <=> i \in Known
        /\ j \in Known' <=> status'[j] # "absent"
        /\ stays # {} => status' = status
    <2>0. Listing(order)
      BY DEF Listing, JobsSound, TypeOK
    <2>1. CASE stays = {}
      <3>1. PICK i \in 1..Len(order) : order[i] = j /\ order' = RemoveAt(order, i)
        BY <2>1 DEF RemoveJob
      <3>2. Listing(order') /\ Known' = Known \ {j}
        BY <2>0, <3>1, RemoveAtSound DEF Known
      <3>3. status' = [status EXCEPT ![j] = "absent"]
        BY <2>1 DEF RemoveJob
      <3>4. QED
        BY <2>1, <3>2, <3>3 DEF JobsSound, TypeOK, Listing
    <2>2. CASE stays # {}
      <3>1. order' = order /\ status' = status
        BY <2>2 DEF RemoveJob
      <3>2. Known' = Known
        BY <3>1 DEF Known
      <3>3. QED
        BY <2>0, <3>1, <3>2 DEF JobsSound, TypeOK, OrderSound, Listing
    <2>3. QED
      BY <2>1, <2>2
  <1>5. FilesSound' /\ IdentitySound' /\ Present' \subseteq Present
    <2>1. UNCHANGED <<bytes, thread, leaked, readers, identity, verifying, admitted>>
      BY <1>2
    <2>2. QED
      BY <1>1, <1>2, <1>3, <1>4, <2>1, ShrunkKeepsFiles
  <1>6. TypeOK'
    <2>1. order' \in Seq(Job) /\ \A i, k \in 1..Len(order') : order'[i] = order'[k] => i = k
      BY <1>4 DEF Listing
    <2>2. QED
      BY <1>1, <1>2, <1>4, <2>1 DEF JobsSound, TypeOK, Shrunk
  <1>7. OrderSound' /\ ThreadSound'
    <2>1. OrderSound'
      BY <1>4 DEF JobsSound, OrderSound
    <2>2. ThreadSound'
      BY <1>2, <1>3, <1>4 DEF JobsSound, ThreadSound, Working
    <2>3. QED
      BY <2>1, <2>2
  <1>8. FreshSound'
    <2>1. ~(j > created)
      BY <1>2 DEF JobsSound, FreshSound
    <2>2. QED
      BY <1>1, <1>4, <2>1 DEF JobsSound, FreshSound, Shrunk
  <1>9. RequestSound' /\ AbsentSound'
    <2>1. up
      BY DEF JobsSound, AbsentSound
    <2>2. RequestSound'
      BY DEF JobsSound, RequestSound
    <2>3. j \notin orphans
      BY <1>2 DEF JobsSound, AbsentSound
    <2>4. AbsentSound'
      BY <1>4, <2>1, <2>3 DEF JobsSound, TypeOK, AbsentSound
    <2>5. QED
      BY <2>2, <2>4
  <1>10. PresentSound'
    <2>1. j \in Present' => status'[j] # "absent"
      <3>1. CASE stays = {}
        BY <1>1, <3>1 DEF Present
      <3>2. CASE stays # {}
        BY <1>2, <1>4, <3>2
      <3>3. QED
        BY <3>1, <3>2
    <2>2. \A i \in Present' : i \in Job /\ i \in Present
      BY <1>5 DEF Present
    <2>3. QED
      BY <1>4, <2>1, <2>2 DEF JobsSound, PresentSound
  <1>11. OfferedWasAudited'
    BY <1>4 DEF JobsSound, OfferedWasAudited
  <1>12. QED
    BY <1>5, <1>6, <1>7, <1>8, <1>9, <1>10, <1>11 DEF JobsSound

\* Only a job that is offered is read.
LEMMA UnofferedUnread ==
  ASSUME JobsSound, NEW j \in Job, status[j] # "ready"
  PROVE  readers[j] = 0
  <1>1. ~(readers[j] > 0)
    BY DEF JobsSound, IdentitySound
  <1>2. readers[j] \in 0..MaxReaders
    BY DEF JobsSound, TypeOK
  <1>3. QED
    BY <1>1, <1>2, BoundsAssumption

\* An orphan's files go, or some of them stay and the request fails.
LEMMA PruneOrphanKeepsJobs == ASSUME JobsSound, PruneOrphan PROVE JobsSound'
  <1> USE BoundsAssumption DEF procVars, jobVars, verifyVars, history
  <1>1. PICK j \in orphans :
          \/ /\ Unlink(j, {}) /\ orphans' = orphans \ {j}
             /\ UNCHANGED <<request, lapsing>>
          \/ /\ \E stays \in SUBSET CacheFiles \ {{}} : Unlink(j, stays)
             /\ request' = "none" /\ lapsing' = {}
             /\ UNCHANGED orphans
    BY DEF PruneOrphan
  <1>2. /\ request # "none" /\ up /\ j \in Job /\ status[j] = "absent"
        /\ UNCHANGED <<procVars, jobVars, thread, verifyVars, audited, created, crashes,
                       history>>
    BY DEF PruneOrphan, JobsSound, TypeOK, AbsentSound
  <1>3. /\ Shrunk(j) /\ lapsing' \subseteq Job /\ request' \in {request, "none"}
        /\ \/ orphans' = orphans
           \/ orphans' = orphans \ {j} /\ part'[j] = 0 /\ clip'[j] = 0 /\ metadata'[j] = 0
    <2>1. CASE Unlink(j, {}) /\ orphans' = orphans \ {j} /\ UNCHANGED <<request, lapsing>>
      BY <1>2, <2>1, UnlinkSound DEF JobsSound, TypeOK
    <2>2. CASE /\ \E stays \in SUBSET CacheFiles \ {{}} : Unlink(j, stays)
               /\ request' = "none" /\ lapsing' = {} /\ UNCHANGED orphans
      <3>1. PICK stays : Unlink(j, stays)
        BY <2>2
      <3>2. QED
        BY <1>2, <2>2, <3>1, UnlinkSound
    <2>3. QED
      BY <1>1, <2>1, <2>2
  <1>4. thread[j] = "none" /\ readers[j] = 0
    BY <1>2, UnofferedUnread DEF JobsSound, TypeOK, ThreadSound, Working
  <1>5. FilesSound' /\ IdentitySound' /\ Present' \subseteq Present
    BY <1>2, <1>3, <1>4, ShrunkKeepsFiles
  <1>6. Known' = Known
    BY <1>2 DEF Known
  <1>7. TypeOK'
    BY <1>2, <1>3 DEF JobsSound, TypeOK, Shrunk
  <1>8. OrderSound' /\ ThreadSound' /\ RequestSound' /\ AbsentSound'
    BY <1>2, <1>3, <1>6 DEF JobsSound, TypeOK, OrderSound, ThreadSound, RequestSound,
       AbsentSound
  <1>9. FreshSound'
    <2>1. j > created => part[j] = 0 /\ clip[j] = 0 /\ metadata[j] = 0
      BY <1>2 DEF JobsSound, FreshSound
    <2>2. j > created => part'[j] = 0 /\ clip'[j] = 0 /\ metadata'[j] = 0
      BY <1>2, <1>3, <2>1 DEF Shrunk
    <2>3. QED
      BY <1>2, <1>3, <2>2 DEF JobsSound, FreshSound, Shrunk
  <1>10. PresentSound' /\ OfferedWasAudited'
    <2>1. \A i \in Present' : i \in Present /\ (i \in orphans => i \in orphans')
      BY <1>3, <1>5 DEF Present
    <2>2. QED
      BY <1>2, <2>1 DEF JobsSound, PresentSound, OfferedWasAudited
  <1>11. QED
    BY <1>5, <1>7, <1>8, <1>9, <1>10 DEF JobsSound

\* create enters the new job and starts its thread.
LEMMA CreateKeepsJobs ==
  ASSUME JobsSound, PruneDone, request # "get"
  PROVE  JobsSound'
  <1> USE BoundsAssumption DEF procVars, jobVars, verifyVars, fileVars, history
  <1> DEFINE j == created + 1
  <1>1. /\ created' = j /\ order' = Append(order, j)
        /\ status' = [status EXCEPT ![j] = "preparing"]
        /\ thread' = [thread EXCEPT ![j] = "download"]
        /\ request' = "none"
        /\ UNCHANGED <<bytes, expired, readers, identity, procVars, orphans, lapsing,
                       verifyVars, fileVars, audited, crashes, faults, history>>
    BY DEF PruneDone
  <1>2. j \in Job /\ created \in Nat /\ up
    BY DEF PruneDone, JobsSound, TypeOK, RequestSound, AbsentSound, Job
  <1>3. /\ status[j] = "absent" /\ thread[j] = "none" /\ verifying[j] = "none"
        /\ part[j] = 0 /\ clip[j] = 0 /\ metadata[j] = 0 /\ readers[j] = 0
    <2>1. /\ status[j] = "absent" /\ thread[j] = "none" /\ verifying[j] = "none"
          /\ part[j] = 0 /\ clip[j] = 0 /\ metadata[j] = 0
      BY <1>2 DEF JobsSound, FreshSound
    <2>2. QED
      BY <1>2, <2>1, UnofferedUnread
  <1>4. Listing(order') /\ Known' = Known \cup {j}
    <2>1. Listing(order) /\ j \notin Known
      BY <1>2, <1>3 DEF JobsSound, TypeOK, OrderSound, Listing
    <2>2. QED
      BY <1>1, <1>2, <2>1, AppendSound DEF Known
  <1> HIDE DEF j
  <1>5. TypeOK'
    <2>1. order' \in Seq(Job) /\ \A i, k \in 1..Len(order') : order'[i] = order'[k] => i = k
      BY <1>4 DEF Listing
    <2>2. created' \in 0..NumJobs
      BY <1>1, <1>2 DEF Job
    <2>3. QED
      BY <1>1, <1>2, <2>1, <2>2 DEF JobsSound, TypeOK
  <1>6. OrderSound' /\ RequestSound'
    BY <1>1, <1>2, <1>4 DEF JobsSound, TypeOK, OrderSound, RequestSound
  <1>7. FreshSound'
    <2>1. \A i \in Job : i > created' => i > created /\ i # j
      BY <1>1, <1>2 DEF j, Job
    <2>2. QED
      BY <1>1, <2>1 DEF JobsSound, TypeOK, FreshSound
  <1>8. ThreadSound'
    BY <1>1, <1>2 DEF JobsSound, TypeOK, ThreadSound, Working
  <1>9. AbsentSound' /\ IdentitySound'
    <2>1. j \notin orphans
      BY DEF PruneDone
    <2>2. AbsentSound'
      BY <1>1, <1>2, <2>1 DEF JobsSound, TypeOK, AbsentSound
    <2>3. IdentitySound'
      BY <1>1, <1>2, <1>3 DEF JobsSound, TypeOK, IdentitySound
    <2>4. QED
      BY <2>2, <2>3
  <1>10. FilesSound'
    BY <1>1, <1>2, <1>3 DEF JobsSound, TypeOK, FilesSound
  <1>11. PresentSound' /\ OfferedWasAudited'
    BY <1>1, <1>2, <1>3 DEF JobsSound, TypeOK, PresentSound, Present, OfferedWasAudited
  <1>12. QED
    BY <1>5, <1>6, <1>7, <1>8, <1>9, <1>10, <1>11 DEF JobsSound

\* _prune.
LEMMA PruningKeepsJobs == ASSUME JobsSound, Pruning PROVE JobsSound'
  <1> USE DEF procVars, jobVars, verifyVars, fileVars, counters, history
  <1>1. CASE PruneExpired
    <2>1. PICK j \in lapsing :
            /\ lapsing' = lapsing \ {j}
            /\ \/ \E stays \in SUBSET CacheFiles : RemoveJob(j, stays)
               \/ ~Removable(j) /\ UNCHANGED <<jobVars, fileVars, faults>>
      BY <1>1 DEF PruneExpired
    <2>2. /\ j \in Job /\ lapsing' \subseteq Job /\ request # "none" /\ request' = request
          /\ UNCHANGED <<procVars, orphans, thread, verifyVars, audited, created, crashes,
                         history>>
      BY <1>1, <2>1 DEF PruneExpired, JobsSound, TypeOK
    <2>3. CASE \E stays \in SUBSET CacheFiles : RemoveJob(j, stays)
      BY <2>2, <2>3, RemoveJobKeepsJobs
    <2>4. CASE UNCHANGED <<jobVars, fileVars, faults>>
      <3>1. RequestSound' /\ (~up => request' = "none") /\ request' \in {"none", "create", "get"}
        BY <2>2, <2>4 DEF JobsSound, TypeOK, RequestSound, AbsentSound
      <3>2. QED
        BY <2>2, <2>4, <3>1, LoopKeepsJobs
    <2>5. QED
      BY <2>1, <2>3, <2>4
  <1>2. CASE PruneEvict
    <2>1. PICK i \in 1..Len(order), stays \in SUBSET CacheFiles :
            /\ RemoveJob(order[i], stays)
            /\ request' = IF stays = {} THEN request ELSE "none"
      BY <1>2 DEF PruneEvict
    <2>2. /\ order[i] \in Job /\ lapsing' \subseteq Job /\ request # "none"
          /\ request' \in {request, "none"}
          /\ UNCHANGED <<procVars, orphans, thread, verifyVars, audited, created, crashes,
                         history>>
      BY <1>2, <2>1 DEF PruneEvict, JobsSound, TypeOK
    <2>3. QED
      BY <2>1, <2>2, RemoveJobKeepsJobs
  <1>3. CASE PruneRefused \/ (PruneDone /\ request = "get")
    <2>1. /\ request' = "none" /\ RequestSound' /\ lapsing' \subseteq Job
          /\ UNCHANGED <<procVars, jobVars, orphans, thread, verifyVars, fileVars, audited,
                         counters, history>>
      BY <1>3 DEF PruneRefused, PruneDone, RequestSound, JobsSound, TypeOK
    <2>2. QED
      BY <2>1, LoopKeepsJobs
  <1>4. QED
    BY <1>1, <1>2, <1>3, PruneOrphanKeepsJobs, CreateKeepsJobs DEF Pruning

\* The end of a process leaves the files as they are.
LEMMA GoneKeepsJobs ==
  ASSUME JobsSound, Gone, crashes' \in 0..MaxCrashes
  PROVE  JobsSound'
  <1> USE BoundsAssumption DEF fileVars, history
  <1>1. Known' = {}
    BY DEF Gone, Known, Range
  <1>2. Flags'
    BY Zenon DEF Gone, Flags, All
  <1>3. TypeOK'
    <2>1. order' \in Seq(Job) /\ Len(order') = 0
      BY DEF Gone
    <2>2. QED
      BY <1>2, <2>1 DEF Gone, All, JobsSound, TypeOK, Flags
  <1>4. OrderSound' /\ FreshSound' /\ ThreadSound' /\ RequestSound'
    BY <1>1 DEF Gone, All, JobsSound, OrderSound, FreshSound, ThreadSound, RequestSound, Working
  <1>5. AbsentSound' /\ IdentitySound'
    BY DEF Gone, All, AbsentSound, IdentitySound
  <1>6. FilesSound' /\ PresentSound' /\ OfferedWasAudited'
    BY DEF Gone, All, JobsSound, FilesSound, PresentSound, OfferedWasAudited
  <1>7. QED
    BY <1>3, <1>4, <1>5, <1>6 DEF JobsSound

\* A new process takes up what it finds.
LEMMA LoadKeepsJobs == ASSUME JobsSound, Load PROVE JobsSound'
  <1> USE BoundsAssumption DEF fileVars, verifyVars, counters
  <1> DEFINE good == {j \in Job : metadata[j] > 0 /\ clip[j] = metadata[j]}
  <1>1. /\ order' \in SetToSeqs(good)
        /\ status' = [j \in Job |-> IF j \in good THEN "ready" ELSE "absent"]
        /\ bytes' = [j \in Job |-> IF j \in good THEN metadata[j] ELSE 0]
        /\ orphans' = {j \in Job \ good : part[j] + clip[j] + metadata[j] > 0}
        /\ loaded' = loaded \cup good
        /\ up' = TRUE /\ ~up
        /\ UNCHANGED <<closed, auditUnavailable, expired, readers, identity, request,
                       lapsing, thread, verifyVars, fileVars, audited, counters, refused,
                       leaked>>
    BY DEF Load
  <1>2. \A j \in good : j \in Job /\ metadata[j] > 0 /\ clip[j] = metadata[j]
    OBVIOUS
  <1>3. \A j \in Job : (part[j] + clip[j] + metadata[j] > 0) => j \in good \/ j \in orphans'
    BY <1>1
  <1>4. good \subseteq Job
    OBVIOUS
  <1>5. \A j \in orphans' : j \in Job /\ j \notin good
    BY <1>1
  <1> HIDE DEF good
  <1>6. Listing(order') /\ Known' = good
    BY <1>1, <1>4, SetToSeqsSound DEF Known
  <1>7. /\ request = "none"
        /\ \A j \in Job : /\ status[j] = "absent" /\ readers[j] = 0 /\ identity[j] = -1
                          /\ thread[j] = "none" /\ verifying[j] = "none"
    BY <1>1 DEF JobsSound, AbsentSound
  <1>8. Flags'
    BY <1>1, Zenon DEF JobsSound, TypeOK, Flags
  <1>9. TypeOK'
    <2>1. order' \in Seq(Job) /\ \A i, k \in 1..Len(order') : order'[i] = order'[k] => i = k
      BY <1>6 DEF Listing
    <2>2. bytes' \in [Job -> 0..MaxBytes] /\ orphans' \subseteq Job /\ loaded' \subseteq Job
      BY <1>1, <1>2, <1>4, <1>5 DEF JobsSound, TypeOK
    <2>3. status' \in [Job -> {"absent", "preparing", "ready", "failed"}]
      BY <1>1
    <2>4. QED
      BY <1>1, <1>8, <2>1, <2>2, <2>3 DEF JobsSound, TypeOK, Flags
  <1>10. OrderSound' /\ RequestSound' /\ ThreadSound'
    BY <1>1, <1>6, <1>7 DEF OrderSound, RequestSound, ThreadSound, Working
  <1>11. FreshSound'
    <2>1. \A j \in Job : j > created => j \notin good
      BY <1>2 DEF JobsSound, FreshSound
    <2>2. QED
      BY <1>1, <2>1 DEF JobsSound, FreshSound
  <1>12. AbsentSound' /\ IdentitySound'
    BY <1>1, <1>5, <1>7 DEF AbsentSound, IdentitySound, JobsSound, TypeOK
  <1>13. FilesSound'
    <2>1. \A j \in good : part[j] + clip[j] <= bytes'[j]
      BY <1>1, <1>2 DEF JobsSound, TypeOK, FilesSound
    <2>2. QED
      BY <1>1, <1>7, <2>1 DEF JobsSound, FilesSound
  <1>14. PresentSound' /\ OfferedWasAudited'
    BY <1>1, <1>3 DEF PresentSound, Present, OfferedWasAudited
  <1>15. QED
    BY <1>9, <1>10, <1>11, <1>12, <1>13, <1>14 DEF JobsSound

\* Every step keeps what is said of each job by itself.
LEMMA NextKeepsJobs == ASSUME JobsSound, [Next]_vars PROVE JobsSound'
  <1> USE BoundsAssumption DEF procVars, jobVars, loopVars, verifyVars, fileVars, counters,
          history
  <1>1. ASSUME NEW kind \in {"create", "get"}, Request(kind) PROVE JobsSound'
    <2>1. /\ lapsing' \subseteq Job /\ request' \in {"none", "create", "get"}
          /\ RequestSound' /\ up
      BY <1>1 DEF Request, Loop, RequestSound, JobsSound, TypeOK, OrderSound, Known, Range
    <2>2. QED
      BY <1>1, <2>1, LoopKeepsJobs DEF Request
  <1>2. CASE Close
    <2>1. Known' = Known /\ Present' = Present
      BY <1>2 DEF Close, Known, Present
    <2>2. Flags'
      BY <1>2, Zenon DEF Close, Flags, JobsSound, TypeOK
    <2>3. TypeOK'
      BY <1>2, <2>2 DEF Close, JobsSound, TypeOK, Flags
    <2>4. QED
      BY <1>2, <2>1, <2>3 DEF Close, JobsSound, OrderSound, FreshSound, ThreadSound,
         RequestSound, AbsentSound, IdentitySound, FilesSound, PresentSound, OfferedWasAudited
  <1>3. CASE Exit \/ Crash
    <2>1. Gone /\ crashes' \in 0..MaxCrashes
      BY <1>3 DEF Exit, Crash, JobsSound, TypeOK
    <2>2. QED
      BY <2>1, GoneKeepsJobs
  <1>4. CASE UNCHANGED vars
    <2>1. Known' = Known /\ Present' = Present
      BY <1>4 DEF vars, Known, Present
    <2>2. TypeOK'
      BY <1>4 DEF vars, JobsSound, TypeOK
    <2>3. QED
      BY <1>4, <2>1, <2>2 DEF vars, JobsSound, OrderSound, FreshSound, ThreadSound,
         RequestSound, AbsentSound, IdentitySound, FilesSound, PresentSound, OfferedWasAudited
  <1>5. QED
    BY <1>1, <1>2, <1>3, <1>4, PruningKeepsJobs, LoadKeepsJobs, PreparingKeepsJobs,
       ReadingKeepsJobs DEF Next

-----------------------------------------------------------------------------
(* The bounds.                                                             *)

\* No job weighs more, is held, prepared or verified that was not.
Lighter ==
    \A j \in Job : /\ Weight'[j] <= Weight[j] /\ (j \in Held' => j \in Held)
                   /\ (thread'[j] # "none" => thread[j] # "none")
                   /\ (verifying'[j] # "none" => verifying[j] # "none")

\* Weights are natural numbers.
LEMMA WeightType == JobsSound => Weight \in [Job -> Nat]
  BY BoundsAssumption DEF JobsSound, TypeOK, Weight

\* Nothing that gets lighter breaks a bound.
LEMMA LighterKeepsBounds ==
  ASSUME IInv, JobsSound', Lighter, request' = "create" => request = "create"
  PROVE  BoundsSound'
  <1>1. Weight \in [Job -> Nat] /\ Weight' \in [Job -> Nat]
    <2>1. Weight \in [Job -> Nat]
      BY WeightType DEF IInv
    <2>2. JobsSound' => (Weight \in [Job -> Nat])'
      BY WeightType, PTL
    <2>3. QED
      BY <2>1, <2>2
  <1>2. Total(Weight') <= Total(Weight) /\ Total(Weight') \in Nat /\ Total(Weight) \in Nat
    BY <1>1, TotalMonotone, TotalType DEF Lighter
  <1>3. /\ Held' \subseteq Held /\ Tasks' \subseteq Tasks
        /\ Verifications' \subseteq Verifications
        /\ Held \subseteq Job /\ Tasks \subseteq Job /\ Verifications \subseteq Job
    BY DEF Lighter, Held, Tasks, Verifications
  <1>4. \A S, T \in SUBSET Job : S \subseteq T => /\ Cardinality(S) <= Cardinality(T)
                                                  /\ Cardinality(S) \in Nat
                                                  /\ Cardinality(T) \in Nat
    BY JobsFinite, FS_Subset, FS_CardinalityType
  <1>5. /\ Cardinality(Held') <= Cardinality(Held) /\ Cardinality(Tasks') <= Cardinality(Tasks)
        /\ Cardinality(Verifications') <= Cardinality(Verifications)
        /\ Cardinality(Held') \in Nat /\ Cardinality(Held) \in Nat
        /\ Cardinality(Tasks') \in Nat /\ Cardinality(Tasks) \in Nat
        /\ Cardinality(Verifications') \in Nat /\ Cardinality(Verifications) \in Nat
    BY <1>3, <1>4
  <1>6. Total(Weight)' = Total(Weight')
    BY DEF Total
  <1>7. QED
    BY <1>2, <1>5, <1>6, BoundsAssumption DEF IInv, BoundsSound

\* The steps of a preparation never weigh more than what is reserved for it.
LEMMA PreparingLighter ==
  ASSUME IInv, NEW j \in Job, Preparing(j)
  PROVE  Lighter /\ request' = request
  <1> USE BoundsAssumption DEF Loop, Fault, procVars, jobVars, loopVars, verifyVars, fileVars,
          counters, history
  <1>1. request' = request /\ verifying' = verifying
    BY DEF Preparing, Download, Persist, Save, ThreadError, Offer, Reject, Cleanup
  <1>2. /\ thread[j] # "none" /\ status[j] # "absent" /\ status'[j] # "absent"
        /\ \A i \in Job \ {j} : /\ thread'[i] = thread[i] /\ status'[i] = status[i]
                                /\ bytes'[i] = bytes[i] /\ part'[i] = part[i]
                                /\ clip'[i] = clip[i] /\ metadata'[i] = metadata[i]
    <2>1. CASE Download(j)
      BY <2>1 DEF Download, IInv, JobsSound, TypeOK, ThreadSound, Working
    <2>2. CASE Persist(j)
      BY <2>2 DEF Persist, IInv, JobsSound, TypeOK, ThreadSound, Working
    <2>3. CASE Save(j)
      BY <2>3 DEF Save, IInv, JobsSound, TypeOK, ThreadSound, Working
    <2>4. CASE ThreadError(j)
      BY <2>4 DEF ThreadError, IInv, JobsSound, TypeOK, ThreadSound, Working
    <2>5. CASE Offer(j)
      BY <2>5 DEF Offer, IInv, JobsSound, TypeOK, ThreadSound, Working
    <2>6. CASE Reject(j)
      <3>1. /\ thread[j] \in {"error", "saved"} /\ thread' = [thread EXCEPT ![j] = "cleanup"]
            /\ status' = [status EXCEPT ![j] = "failed"] /\ bytes' = [bytes EXCEPT ![j] = 0]
            /\ UNCHANGED fileVars
        BY <2>6 DEF Reject
      <3>2. QED
        BY <3>1 DEF IInv, JobsSound, TypeOK, ThreadSound, Working
    <2>7. CASE Cleanup(j)
      <3>1. Shrunk(j)
        BY <2>7, UnlinkSound DEF Cleanup, IInv
      <3>2. QED
        BY <2>7, <3>1 DEF Cleanup, IInv, JobsSound, TypeOK, ThreadSound, Shrunk
    <2>8. QED
      BY <2>1, <2>2, <2>3, <2>4, <2>5, <2>6, <2>7 DEF Preparing
  <1>3. /\ \A i \in Job \ {j} : i \in leaked' <=> i \in leaked
        /\ leaked \subseteq leaked'
        /\ thread'[j] = "none" => bytes'[j] \in 0..MaxBytes
    <2>1. CASE Offer(j)
      BY <2>1 DEF Offer, IInv, JobsSound, TypeOK
    <2>2. CASE Cleanup(j)
      BY <2>2 DEF Cleanup, IInv, JobsSound, TypeOK
    <2>3. CASE Download(j) \/ Persist(j) \/ Save(j) \/ ThreadError(j) \/ Reject(j)
      <3>1. leaked' = leaked
        BY <2>3 DEF Download, Persist, Save, ThreadError, Reject
      <3>2. thread'[j] # "none"
        BY <2>3 DEF Download, Persist, Save, ThreadError, Reject, IInv, JobsSound, TypeOK
      <3>3. QED
        BY <3>1, <3>2
    <2>4. QED
      BY <2>1, <2>2, <2>3 DEF Preparing
  <1>4. SUFFICES ASSUME NEW i \in Job
                 PROVE  /\ Weight'[i] <= Weight[i] /\ (i \in Held' => i \in Held)
                        /\ (thread'[i] # "none" => thread[i] # "none")
    BY <1>1 DEF Lighter
  <1>5. CASE i # j
    <2>1. Weight'[i] = Weight[i] /\ Weight[i] \in Nat
      BY <1>2, <1>3, <1>5, WeightType DEF Weight, IInv
    <2>2. QED
      BY <1>2, <1>5, <2>1 DEF Held, Present
  <1>6. CASE i = j
    <2>1. Weight[j] = IF j \in leaked THEN 0 ELSE MaxBytes
      BY <1>2 DEF Weight
    <2>2. Weight'[j] = IF j \in leaked' THEN 0
                       ELSE IF thread'[j] # "none" THEN MaxBytes ELSE bytes'[j]
      BY <1>2 DEF Weight
    <2>3. Weight'[j] <= Weight[j]
      BY <1>3, <2>1, <2>2
    <2>4. QED
      BY <1>2, <1>6, <2>3 DEF Held
  <1>7. QED
    BY <1>5, <1>6

\* Reading moves no bytes.
LEMMA ReadingLighter ==
  ASSUME IInv, JobsSound', NEW j \in Job,
         \/ VerifyThread(j) \/ VerifyEnd(j)
         \/ OpenFile(j) \/ ReleaseFile(j) \/ Expire(j) \/ Alter(j)
  PROVE  Lighter /\ request' = request
  <1> USE BoundsAssumption DEF procVars, jobVars, loopVars, verifyVars, fileVars, counters,
          history
  <1>1. /\ UNCHANGED <<request, thread, bytes, part, clip, metadata, leaked, order>>
    BY DEF VerifyThread, VerifyEnd, OpenFile, ReleaseFile, Expire, Alter
  <1>2. Known' = Known /\ Present' = Present
    BY <1>1 DEF Known, Present
  <1>3. \A i \in Job : status'[i] # "absent" <=> status[i] # "absent"
    BY <1>2 DEF IInv, JobsSound, OrderSound
  <1>4. \A i \in Job : verifying'[i] # "none" => verifying[i] # "none"
    <2>1. CASE VerifyThread(j)
      BY <2>1 DEF VerifyThread, IInv, JobsSound, TypeOK
    <2>2. CASE VerifyEnd(j)
      BY <2>2 DEF VerifyEnd, IInv, JobsSound, TypeOK
    <2>3. CASE OpenFile(j) \/ ReleaseFile(j) \/ Expire(j) \/ Alter(j)
      <3>1. verifying' = verifying
        BY <2>3 DEF OpenFile, ReleaseFile, Expire, Alter
      <3>2. QED
        BY <3>1
    <2>4. QED
      BY <2>1, <2>2, <2>3
  <1>5. Weight' = Weight /\ Weight \in [Job -> Nat]
    BY <1>1, <1>3, WeightType DEF Weight, IInv
  <1>6. \A i \in Job : i \in Held' => i \in Held
    BY <1>2, <1>3 DEF Held
  <1>7. QED
    BY <1>1, <1>4, <1>5, <1>6 DEF Lighter

\* Fewer files weigh less.
LEMMA ShrunkLighter ==
  ASSUME IInv, JobsSound', NEW j \in Job, Shrunk(j), thread[j] = "none",
         UNCHANGED <<bytes, thread, leaked, verifying>>,
         \/ status' = status
         \/ /\ status' = [status EXCEPT ![j] = "absent"]
            /\ part'[j] = 0 /\ clip'[j] = 0 /\ metadata'[j] = 0
  PROVE  Lighter
  <1> USE BoundsAssumption
  <1>0. status \in [Job -> {"absent", "preparing", "ready", "failed"}]
    BY DEF IInv, JobsSound, TypeOK
  <1>1. \A i \in Job \ {j} : status'[i] = status[i]
    BY <1>0
  <1>2. /\ part[j] \in Nat /\ clip[j] \in Nat /\ metadata[j] \in Nat /\ bytes[j] \in Nat
        /\ part'[j] \in Nat /\ clip'[j] \in Nat /\ metadata'[j] \in Nat
        /\ part'[j] <= part[j] /\ clip'[j] <= clip[j] /\ metadata'[j] <= metadata[j]
    BY DEF IInv, JobsSound, TypeOK, Shrunk
  <1>3. SUFFICES ASSUME NEW i \in Job
                 PROVE  Weight'[i] <= Weight[i] /\ (i \in Held' => i \in Held)
    BY DEF Lighter
  <1>4. CASE i # j
    <2>1. Weight'[i] = Weight[i] /\ Weight[i] \in Nat
      BY <1>1, <1>4, WeightType DEF Weight, IInv, Shrunk
    <2>2. QED
      BY <1>1, <1>4, <2>1 DEF Held, Present, Shrunk
  <1>5. CASE i = j
    <2>1. CASE status' = status
      BY <1>2, <1>5, <2>1 DEF Weight, Held, Present
    <2>2. CASE /\ status' = [status EXCEPT ![j] = "absent"]
               /\ part'[j] = 0 /\ clip'[j] = 0 /\ metadata'[j] = 0
      <3>1. status'[j] = "absent"
        BY <2>2 DEF IInv, JobsSound, TypeOK
      <3>2. Weight'[j] = 0
        BY <2>2, <3>1 DEF Weight
      <3>3. Weight[j] \in Nat
        BY WeightType DEF IInv
      <3>4. j \notin Held'
        BY <2>2, <3>1 DEF Held, Present
      <3>5. QED
        BY <1>5, <3>2, <3>3, <3>4
    <2>3. QED
      BY <2>1, <2>2
  <1>6. QED
    BY <1>4, <1>5

\* One more job of a set of jobs.
LEMMA OneMore ==
  ASSUME NEW S \in SUBSET Job, NEW T \in SUBSET Job, NEW j \in Job, T \subseteq S \cup {j}
  PROVE  /\ Cardinality(S) \in Nat /\ Cardinality(T) \in Nat
         /\ Cardinality(T) <= Cardinality(S) + 1
  <1>1. IsFiniteSet(S) /\ IsFiniteSet(T) /\ S \cup {j} \in SUBSET Job
    BY JobsFinite
  <1>2. IsFiniteSet(S \cup {j}) /\ Cardinality(S \cup {j}) <= Cardinality(S) + 1
    <2>1. Cardinality(S \cup {j}) = IF j \in S THEN Cardinality(S) ELSE Cardinality(S) + 1
      BY <1>1, FS_AddElement
    <2>2. QED
      BY <1>1, <2>1, JobsFinite, FS_CardinalityType
  <1>3. Cardinality(T) <= Cardinality(S \cup {j})
    BY <1>2, FS_Subset
  <1>4. QED
    BY <1>1, <1>2, <1>3, FS_CardinalityType

\* What create checks is what the new job needs: once the orphans are gone, the jobs it
\* counts are all that is on disk.
LEMMA CreateKeepsBounds ==
  ASSUME IInv, JobsSound', PruneDone, request # "get"
  PROVE  BoundsSound'
  <1> USE BoundsAssumption DEF procVars, verifyVars, fileVars, history
  <1> DEFINE j == created + 1
  <1>1. /\ status' = [status EXCEPT ![j] = "preparing"]
        /\ thread' = [thread EXCEPT ![j] = "download"]
        /\ request' = "none" /\ orphans = {} /\ Fits /\ request = "create"
        /\ UNCHANGED <<bytes, verifying, part, clip, metadata, leaked>>
    BY DEF PruneDone, IInv, JobsSound, TypeOK
  <1>2. j \in Job /\ up /\ \A i \in Job : thread[i] # "cleanup"
    BY <1>1 DEF IInv, JobsSound, TypeOK, RequestSound, AbsentSound, Job
  <1> HIDE DEF j
  <1>3. /\ status \in [Job -> {"absent", "preparing", "ready", "failed"}]
        /\ thread \in [Job -> {"none", "download", "persist", "save", "saved", "error",
                               "cleanup"}]
        /\ bytes \in [Job -> 0..MaxBytes]
        /\ part \in [Job -> 0..MaxBytes] /\ clip \in [Job -> 0..MaxBytes]
        /\ metadata \in [Job -> 0..MaxBytes]
    BY DEF IInv, JobsSound, TypeOK
  <1>4. /\ Total(Reservation) + MaxBytes <= MaxRetained
        /\ Cardinality(Known) <= MaxJobs - 1
    BY <1>1 DEF Fits, Need
  <1>5. \A i \in Job : i \in Known <=> status[i] # "absent"
    BY DEF IInv, JobsSound, OrderSound
  <1>6. \A i \in Present : status[i] # "absent"
    BY <1>1, <1>2 DEF IInv, JobsSound, PresentSound
  <1>7. Weight \in [Job -> Nat] /\ Weight' \in [Job -> Nat]
    <2>1. JobsSound' => (Weight \in [Job -> Nat])'
      BY WeightType, PTL
    <2>2. QED
      BY <2>1, WeightType DEF IInv
  <1>8. Reservation \in [Job -> Nat]
    BY <1>3 DEF Reservation, Reserved
  <1>9. \A i \in Job : Weight[i] <= Reservation[i]
    <2> TAKE i \in Job
    <2>1. CASE status[i] = "absent"
      <3>1. thread[i] = "none"
        BY <1>2, <1>3, <2>1 DEF IInv, JobsSound, ThreadSound, Working
      <3>2. part[i] + clip[i] = 0
        <4>1. part[i] \in Nat /\ clip[i] \in Nat /\ metadata[i] \in Nat
          BY <1>3
        <4>2. ~(part[i] + clip[i] + metadata[i] > 0)
          BY <1>6, <2>1 DEF Present
        <4>3. \A a, b, c \in Nat : ~(a + b + c > 0) => a + b = 0
          OBVIOUS
        <4>4. QED
          BY <4>1, <4>2, <4>3
      <3>3. Weight[i] = 0
        BY <2>1, <3>1, <3>2 DEF Weight
      <3>4. QED
        BY <1>8, <3>3
    <2>2. CASE status[i] # "absent"
      <3>1. Reservation[i] = IF status[i] = "preparing" THEN MaxBytes ELSE bytes[i]
        BY <1>5, <2>2 DEF Reservation, Reserved
      <3>2. thread[i] # "none" <=> status[i] = "preparing"
        BY <1>2, <1>3 DEF IInv, JobsSound, ThreadSound, Working
      <3>3. Weight[i] = IF i \in leaked THEN 0
                        ELSE IF thread[i] # "none" THEN MaxBytes ELSE bytes[i]
        BY <2>2 DEF Weight
      <3>4. QED
        BY <1>3, <3>1, <3>2, <3>3
    <2>3. QED
      BY <2>1, <2>2
  <1>10. Total(Weight') <= Total(Weight) + MaxBytes
    <2>1. \A i \in Job \ {j} : Weight'[i] <= Weight[i]
      <3> TAKE i \in Job \ {j}
      <3>1. Weight'[i] = Weight[i]
        BY <1>1, <1>3 DEF Weight
      <3>2. QED
        BY <1>7, <3>1
    <2>2. Weight'[j] <= Weight[j] + MaxBytes
      <3>1. thread'[j] # "none"
        BY <1>1, <1>2, <1>3
      <3>2. Weight'[j] <= MaxBytes
        BY <1>2, <3>1 DEF Weight
      <3>3. QED
        BY <1>2, <1>7, <3>2
    <2>3. QED
      BY <1>2, <1>7, <2>1, <2>2, TotalAdd
  <1>11. Total(Weight') <= MaxRetained
    <2>1. Total(Weight) <= Total(Reservation)
      BY <1>7, <1>8, <1>9, TotalMonotone
    <2>2. Total(Weight) \in Nat /\ Total(Reservation) \in Nat /\ Total(Weight') \in Nat
      BY <1>7, <1>8, TotalType
    <2>3. QED
      BY <1>4, <1>10, <2>1, <2>2
  <1>12. Cardinality(Held') <= MaxJobs
    <2>1. Held' \subseteq Known \cup {j} /\ Known \subseteq Job
      <3>1. Known \subseteq Job
        BY DEF Known, Range, IInv, JobsSound, TypeOK
      <3>2. Present' = Present
        BY <1>1 DEF Present
      <3>3. \A i \in Held' : i \in Job /\ (i # j => status[i] # "absent")
        BY <1>1, <1>3, <1>6, <3>2 DEF Held
      <3>4. QED
        BY <1>5, <3>1, <3>3
    <2>2. Held' \subseteq Job
      BY DEF Held
    <2>3. /\ Cardinality(Known) \in Nat /\ Cardinality(Held') \in Nat
          /\ Cardinality(Held') <= Cardinality(Known) + 1
      BY <1>2, <2>1, <2>2, OneMore
    <2>4. QED
      BY <1>4, <2>3
  <1>13. Cardinality(Tasks') <= 2
    <2>1. Tasks' \subseteq Tasks \cup {j} /\ Tasks \subseteq Job /\ Tasks' \subseteq Job
      BY <1>1, <1>3 DEF Tasks
    <2>2. /\ Cardinality(Tasks) \in Nat /\ Cardinality(Tasks') \in Nat
          /\ Cardinality(Tasks') <= Cardinality(Tasks) + 1
      BY <1>2, <2>1, OneMore
    <2>3. QED
      BY <1>1, <2>2 DEF IInv, BoundsSound
  <1>14. Verifications' = Verifications
    BY <1>1 DEF Verifications
  <1>15. Total(Weight)' = Total(Weight')
    BY DEF Total
  <1>16. QED
    BY <1>1, <1>11, <1>12, <1>13, <1>14, <1>15 DEF IInv, BoundsSound

\* verify_ready starts another verification only when there is room for it.
LEMMA VerifyBeginKeepsBounds ==
  ASSUME IInv, JobsSound', NEW j \in Job, VerifyBegin(j)
  PROVE  BoundsSound'
  <1> USE DEF procVars, jobVars, loopVars, fileVars, counters, history
  <1>1. /\ UNCHANGED <<thread, bytes, part, clip, metadata, leaked, status>>
        /\ request' = request /\ Cardinality(Verifications) < 2
        /\ verifying' = [verifying EXCEPT ![j] = "running"]
    BY DEF VerifyBegin
  <1>2. Weight' = Weight /\ Held' = Held /\ Tasks' = Tasks
    BY <1>1 DEF Weight, Held, Present, Tasks
  <1>3. Cardinality(Verifications') <= 2
    <2>1. verifying \in [Job -> {"none", "running", "good", "bad"}]
      BY DEF IInv, JobsSound, TypeOK
    <2>2. /\ Verifications' \subseteq Verifications \cup {j} /\ Verifications \subseteq Job
          /\ Verifications' \subseteq Job
      BY <1>1, <2>1 DEF Verifications
    <2>3. /\ Cardinality(Verifications) \in Nat /\ Cardinality(Verifications') \in Nat
          /\ Cardinality(Verifications') <= Cardinality(Verifications) + 1
      BY <2>2, OneMore
    <2>4. QED
      BY <1>1, <2>3
  <1>4. Total(Weight)' = Total(Weight')
    BY DEF Total
  <1>5. QED
    BY <1>1, <1>2, <1>3, <1>4 DEF IInv, BoundsSound

\* _prune only ever removes.
LEMMA PruningLighter ==
  ASSUME IInv, JobsSound', Pruning, ~(PruneDone /\ request # "get")
  PROVE  Lighter /\ (request' = "create" => request = "create")
  <1> USE BoundsAssumption DEF procVars, jobVars, verifyVars, fileVars, counters, history
  <1>0. /\ request # "none"
        /\ \A j \in Job : status[j] # "preparing" => thread[j] = "none"
    <2>1. request # "none"
      BY DEF Pruning, PruneOrphan, PruneExpired, PruneEvict, PruneRefused, PruneDone
    <2>2. QED
      BY <2>1 DEF IInv, JobsSound, TypeOK, ThreadSound, RequestSound, Working
  <1>1. ASSUME NEW j \in Job, NEW stays, RemoveJob(j, stays),
               UNCHANGED <<thread, leaked, verifying>>
        PROVE  Lighter
    <2>1. Shrunk(j) /\ (stays = {} => part'[j] = 0 /\ clip'[j] = 0 /\ metadata'[j] = 0)
      BY <1>1, UnlinkSound DEF RemoveJob, IInv
    <2>2. thread[j] = "none" /\ UNCHANGED bytes
      BY <1>0, <1>1 DEF RemoveJob, Removable
    <2>3. \/ status' = status
          \/ status' = [status EXCEPT ![j] = "absent"] /\ stays = {}
      BY <1>1 DEF RemoveJob
    <2>4. QED
      BY <1>1, <2>1, <2>2, <2>3, ShrunkLighter
  <1>2. ASSUME UNCHANGED <<status, thread, bytes, part, clip, metadata, leaked, verifying>>
        PROVE  Lighter
    <2>1. Weight' = Weight /\ Held' = Held /\ Weight \in [Job -> Nat]
      BY <1>2, WeightType DEF Weight, Held, Present, IInv
    <2>2. QED
      BY <1>2, <2>1 DEF Lighter
  <1>3. CASE PruneOrphan
    <2>1. PICK j \in orphans : \E stays : Unlink(j, stays)
      BY <1>3 DEF PruneOrphan
    <2>2. /\ j \in Job /\ status[j] = "absent" /\ UNCHANGED <<status, bytes, thread, leaked,
                                                              verifying>>
      BY <1>3 DEF PruneOrphan, IInv, JobsSound, TypeOK, AbsentSound
    <2>3. Shrunk(j)
      BY <2>1, <2>2, UnlinkSound DEF IInv
    <2>4. Lighter
      BY <1>0, <2>2, <2>3, ShrunkLighter
    <2>5. request' \in {request, "none"}
      BY <1>3 DEF PruneOrphan
    <2>6. QED
      BY <2>4, <2>5
  <1>4. CASE PruneExpired
    <2>1. PICK j \in lapsing :
            \/ \E stays \in SUBSET CacheFiles : RemoveJob(j, stays)
            \/ UNCHANGED <<jobVars, fileVars, faults>>
      BY <1>4 DEF PruneExpired
    <2>2. j \in Job /\ UNCHANGED <<thread, leaked, verifying, request>>
      BY <1>4 DEF PruneExpired, IInv, JobsSound, TypeOK
    <2>3. QED
      BY <1>1, <1>2, <2>1, <2>2
  <1>5. CASE PruneEvict
    <2>1. PICK i \in 1..Len(order), stays \in SUBSET CacheFiles :
            /\ RemoveJob(order[i], stays)
            /\ request' = IF stays = {} THEN request ELSE "none"
      BY <1>5 DEF PruneEvict
    <2>2. order[i] \in Job /\ UNCHANGED <<thread, leaked, verifying>>
      BY <1>5 DEF PruneEvict, IInv, JobsSound, TypeOK
    <2>3. QED
      BY <1>1, <2>1, <2>2
  <1>6. CASE PruneRefused \/ (PruneDone /\ request = "get")
    <2>1. /\ UNCHANGED <<status, thread, bytes, part, clip, metadata, leaked, verifying>>
          /\ request' = "none"
      BY <1>6 DEF PruneRefused, PruneDone
    <2>2. QED
      BY <1>2, <2>1
  <1>7. QED
    BY <1>3, <1>4, <1>5, <1>6 DEF Pruning

\* A process that ends leaves no more than was reserved, and the next one finds no more
\* than it left.
LEMMA RestartLighter ==
  ASSUME IInv, JobsSound', Gone \/ Load
  PROVE  Lighter /\ (request' = "create" => request = "create")
  <1> USE BoundsAssumption DEF verifyVars, fileVars, counters, history
  <1>1. /\ status \in [Job -> {"absent", "preparing", "ready", "failed"}]
        /\ bytes \in [Job -> 0..MaxBytes]
        /\ part \in [Job -> 0..MaxBytes] /\ clip \in [Job -> 0..MaxBytes]
        /\ metadata \in [Job -> 0..MaxBytes]
    BY DEF IInv, JobsSound, TypeOK
  <1>2. CASE Gone
    <2>1. /\ UNCHANGED <<part, clip, metadata, leaked>> /\ request' = "none"
          /\ \A j \in Job : /\ status'[j] = "absent" /\ thread'[j] = "none"
                            /\ verifying'[j] = "none"
      BY <1>2 DEF Gone, All
    <2>2. ASSUME NEW j \in Job PROVE Weight'[j] <= Weight[j]
      <3>1. Weight'[j] = IF j \in leaked THEN 0 ELSE part[j] + clip[j]
        BY <2>1 DEF Weight
      <3>2. /\ thread[j] # "none" => part[j] + clip[j] <= MaxBytes
            /\ thread[j] = "none" /\ status[j] # "absent" /\ j \notin leaked =>
                 part[j] + clip[j] <= bytes[j]
        BY DEF IInv, JobsSound, FilesSound
      <3>3. QED
        BY <1>1, <3>1, <3>2 DEF Weight
    <2>3. \A j \in Job : j \in Held' => j \in Held
      BY <2>1 DEF Held, Present
    <2>4. QED
      BY <2>1, <2>2, <2>3 DEF Lighter
  <1>3. CASE Load
    <2> DEFINE good == {j \in Job : metadata[j] > 0 /\ clip[j] = metadata[j]}
    <2>1. /\ status' = [j \in Job |-> IF j \in good THEN "ready" ELSE "absent"]
          /\ bytes' = [j \in Job |-> IF j \in good THEN metadata[j] ELSE 0]
          /\ ~up /\ UNCHANGED <<part, clip, metadata, leaked, thread, verifying, request>>
      BY <1>3 DEF Load
    <2>2. \A j \in Job : status[j] = "absent" /\ thread[j] = "none"
      BY <2>1 DEF IInv, JobsSound, AbsentSound
    <2>3. ASSUME NEW j \in Job PROVE Weight'[j] <= Weight[j] /\ (j \in Held' => j \in Held)
      <3>1. Weight[j] = IF j \in leaked THEN 0 ELSE part[j] + clip[j]
        BY <2>2 DEF Weight
      <3>2. CASE j \in good
        <4>1. Weight'[j] = IF j \in leaked THEN 0 ELSE clip[j]
          BY <2>1, <2>2, <3>2 DEF Weight
        <4>2. j \in Held
          BY <1>1, <3>2 DEF Held, Present
        <4>3. QED
          BY <1>1, <3>1, <4>1, <4>2
      <3>3. CASE j \notin good
        <4>1. Weight'[j] = IF j \in leaked THEN 0 ELSE part[j] + clip[j]
          BY <2>1, <2>2, <3>3 DEF Weight
        <4>2. j \in Held' => j \in Held
          BY <2>1, <3>3 DEF Held, Present
        <4>3. QED
          BY <1>1, <3>1, <4>1, <4>2
      <3>4. QED
        BY <3>2, <3>3
    <2>4. QED
      BY <2>1, <2>3 DEF Lighter
  <1>4. QED
    BY <1>2, <1>3

\* The empty cache is within its bounds.
LEMMA BoundsInit == Init => BoundsSound
  <1> USE BoundsAssumption
  <1> SUFFICES ASSUME Init PROVE BoundsSound
    OBVIOUS
  <1>1. \A j \in Job : Weight[j] = 0
    BY DEF Init, All, Weight
  <1>2. Weight \in [Job -> Nat] /\ Reservation \in [Job -> Nat]
    BY JobsInit, WeightType DEF Init, All, Reservation, Reserved
  <1>3. Total(Weight) = 0
    <2>1. PICK f : Sums(Weight, NumJobs, f) /\ Total(Weight) = f[NumJobs]
      BY <1>2, TotalIsSum
    <2> DEFINE T == {n \in Nat : n <= NumJobs => f[n] = 0}
    <2>2. 0 \in T
      BY <2>1 DEF Sums
    <2>3. ASSUME NEW n \in Nat, n \in T PROVE n + 1 \in T
      BY <1>1, <2>1, <2>3 DEF Sums, Job
    <2> HIDE DEF T
    <2>4. Nat \subseteq T
      BY <2>2, <2>3, SetInduction
    <2>5. QED
      BY <2>1, <2>4 DEF T
  <1>4. Held = {} /\ Tasks = {} /\ Verifications = {}
    BY DEF Init, All, Held, Present, Tasks, Verifications
  <1>5. Cardinality({}) = 0
    BY FS_EmptySet
  <1>6. QED
    BY <1>3, <1>4, <1>5 DEF Init, BoundsSound

-----------------------------------------------------------------------------
(* The theorems.                                                           *)

\* Every reachable state satisfies the invariant, whatever crashes, fails or is changed
\* from outside.
THEOREM ExportInvariant == Spec => []IInv
  <1>1. Init => IInv
    BY JobsInit, BoundsInit DEF IInv
  <1>2. IInv /\ [Next]_vars => IInv'
    <2> SUFFICES ASSUME IInv, [Next]_vars PROVE IInv'
      OBVIOUS
    <2> USE DEF procVars, jobVars, loopVars, verifyVars, fileVars, counters, history
    <2>1. JobsSound'
      BY NextKeepsJobs DEF IInv
    <2> SUFFICES BoundsSound'
      BY <2>1 DEF IInv
    <2>2. ASSUME UNCHANGED <<status, thread, bytes, part, clip, metadata, leaked, verifying>>
          PROVE  Lighter
      <3>1. Weight' = Weight /\ Held' = Held /\ Weight \in [Job -> Nat]
        BY <2>2, WeightType DEF Weight, Held, Present, IInv
      <3>2. QED
        BY <2>2, <3>1 DEF Lighter
    <2>3. ASSUME NEW kind \in {"create", "get"}, Request(kind) PROVE BoundsSound'
      <3>1. CASE kind = "create"
        <4>1. /\ UNCHANGED <<thread, bytes, part, clip, metadata, leaked, status, verifying>>
              /\ Cardinality(Tasks) < 2
          BY <2>3, <3>1 DEF Request
        <4>2. /\ Weight' = Weight /\ Held' = Held /\ Tasks' = Tasks
              /\ Verifications' = Verifications
          BY <4>1 DEF Weight, Held, Present, Tasks, Verifications
        <4>3. Total(Weight)' = Total(Weight')
          BY DEF Total
        <4>4. QED
          BY <4>1, <4>2, <4>3 DEF IInv, BoundsSound
      <3>2. CASE kind = "get"
        <4>1. /\ UNCHANGED <<status, thread, bytes, part, clip, metadata, leaked, verifying>>
              /\ request' = "get"
          BY <2>3, <3>2 DEF Request
        <4>2. QED
          BY <2>1, <2>2, <4>1, LighterKeepsBounds
      <3>3. QED
        BY <3>1, <3>2
    <2>4. CASE Close \/ UNCHANGED vars
      <3>1. UNCHANGED <<status, thread, bytes, part, clip, metadata, leaked, verifying, request>>
        BY <2>4 DEF Close, vars
      <3>2. QED
        BY <2>1, <2>2, <3>1, LighterKeepsBounds
    <2>5. CASE Exit \/ Crash \/ Load
      <3>1. Gone \/ Load
        BY <2>5 DEF Exit, Crash
      <3>2. QED
        BY <2>1, <3>1, RestartLighter, LighterKeepsBounds
    <2>6. CASE Pruning
      BY <2>1, <2>6, CreateKeepsBounds, PruningLighter, LighterKeepsBounds
    <2>7. ASSUME NEW j \in Job, Preparing(j) PROVE BoundsSound'
      BY <2>1, <2>7, PreparingLighter, LighterKeepsBounds
    <2>8. ASSUME NEW j \in Job, VerifyBegin(j) PROVE BoundsSound'
      BY <2>1, <2>8, VerifyBeginKeepsBounds
    <2>9. ASSUME NEW j \in Job,
                 \/ VerifyThread(j) \/ VerifyEnd(j)
                 \/ OpenFile(j) \/ ReleaseFile(j) \/ Expire(j) \/ Alter(j)
          PROVE  BoundsSound'
      BY <2>1, <2>9, ReadingLighter, LighterKeepsBounds
    <2>10. QED
      BY <2>3, <2>4, <2>5, <2>6, <2>7, <2>8, <2>9 DEF Next
  <1>3. QED
    BY <1>1, <1>2, PTL DEF Spec

\* The cache stays within its limits of jobs, threads and bytes through any number of
\* crashes and restarts, and a file that is being downloaded stays (CacheSound).
THEOREM CacheStaysSound == Spec => []CacheSound
  <1>1. IInv => CacheSound
    <2> SUFFICES ASSUME IInv PROVE CacheSound
      OBVIOUS
    <2> USE BoundsAssumption
    <2>1. TypeOK
      BY DEF IInv, JobsSound
    <2>2. ReadersKeepFile
      BY DEF IInv, JobsSound, IdentitySound, OrderSound, ReadersKeepFile
    <2>3. Cardinality(Known) <= MaxJobs
      <3>1. Known \subseteq Held /\ Held \subseteq Job
        <4>1. Known \subseteq Job
          BY <2>1 DEF Known, Range, TypeOK
        <4>2. QED
          BY <4>1 DEF IInv, JobsSound, OrderSound, Held
      <3>2. Cardinality(Known) <= Cardinality(Held)
        BY <3>1, JobsFinite, FS_Subset
      <3>3. Cardinality(Known) \in Nat /\ Cardinality(Held) \in Nat
        BY <3>1, JobsFinite, FS_CardinalityType, FS_Subset
      <3>4. QED
        BY <3>2, <3>3 DEF IInv, BoundsSound
    <2>4. Total([j \in Job |-> IF j \in leaked THEN 0 ELSE part[j] + clip[j]]) <= MaxRetained
      <3> DEFINE disk == [j \in Job |-> IF j \in leaked THEN 0 ELSE part[j] + clip[j]]
      <3>1. disk \in [Job -> Nat]
        BY <2>1 DEF TypeOK
      <3>2. Weight \in [Job -> Nat]
        BY WeightType DEF IInv
      <3>3. ASSUME NEW j \in Job PROVE disk[j] <= Weight[j]
        <4>1. /\ thread[j] # "none" => part[j] + clip[j] <= MaxBytes
              /\ thread[j] = "none" /\ status[j] # "absent" /\ j \notin leaked =>
                   part[j] + clip[j] <= bytes[j]
          BY DEF IInv, JobsSound, FilesSound
        <4>2. part[j] \in Nat /\ clip[j] \in Nat
          BY <2>1 DEF TypeOK
        <4>3. QED
          BY <4>1, <4>2 DEF Weight
      <3> HIDE DEF disk
      <3>4. Total(disk) <= Total(Weight)
        BY <3>1, <3>2, <3>3, TotalMonotone
      <3>5. Total(disk) \in Nat /\ Total(Weight) \in Nat
        BY <3>1, <3>2, TotalType
      <3>6. Total(disk) <= MaxRetained
        BY <3>4, <3>5 DEF IInv, BoundsSound
      <3>7. QED
        BY <3>6 DEF disk
    <2>5. CacheBounded
      BY <2>3, <2>4 DEF CacheBounded, IInv, BoundsSound
    <2>6. QED
      BY <2>1, <2>2, <2>5 DEF CacheSound
  <1>2. QED
    BY <1>1, ExportInvariant, PTL

\* What this process prepared it offers only with its completion in the audit log
\* (_prepare).
THEOREM OfferedAudited == Spec => []OfferedWasAudited
  <1>1. IInv => OfferedWasAudited
    BY DEF IInv, JobsSound
  <1>2. QED
    BY <1>1, ExportInvariant, PTL

\* A download starts only on the clip that was prepared, whatever was changed on disk and
\* whenever (verify_ready, open_file).
THEOREM DownloadsIntact == Spec => ServedIntact
  <1>1. IInv /\ [Next]_vars =>
          [\A j \in Job : readers'[j] > readers[j] => version[j] = 0]_vars
    <2> SUFFICES ASSUME IInv, Next, NEW j \in Job, readers'[j] > readers[j]
                 PROVE  version[j] = 0
      OBVIOUS
    <2> USE BoundsAssumption DEF procVars, jobVars, loopVars, verifyVars, fileVars, counters,
            history
    <2>0. readers \in [Job -> 0..MaxReaders] /\ \A i \in Job : ~(readers[i] > readers[i])
      BY DEF IInv, JobsSound, TypeOK
    <2>1. ASSUME NEW i \in Job, OpenFile(i) PROVE version[j] = 0
      <3>1. j = i
        BY <2>0, <2>1 DEF OpenFile
      <3>2. QED
        BY <2>1, <3>1 DEF OpenFile, IInv, JobsSound, IdentitySound
    <2>2. ASSUME NEW i \in Job, ReleaseFile(i) PROVE FALSE
      <3>1. readers' = [readers EXCEPT ![i] = @ - 1]
        BY <2>2 DEF ReleaseFile
      <3>2. readers'[j] <= readers[j]
        BY <2>0, <3>1
      <3>3. readers'[j] \in Int /\ readers[j] \in Int
        BY <2>0, <3>1
      <3>4. QED
        BY <3>2, <3>3
    <2>3. CASE Exit \/ Crash
      <3>1. readers'[j] = 0
        BY <2>3 DEF Exit, Crash, Gone, All
      <3>2. QED
        BY <2>0, <3>1
    <2>4. CASE readers' = readers
      BY <2>0, <2>4
    <2>5. (\E kind \in {"create", "get"} : Request(kind)) \/ Close \/ Load => readers' = readers
      BY DEF Request, Close, Load
    <2>6. Pruning => readers' = readers
      BY DEF Pruning, PruneOrphan, PruneExpired, PruneEvict, PruneRefused, PruneDone, RemoveJob
    <2>7. ASSUME NEW i \in Job, Preparing(i) PROVE readers' = readers
      BY <2>7 DEF Preparing, Download, Persist, Save, ThreadError, Offer, Reject, Cleanup
    <2>8. ASSUME NEW i \in Job,
                 VerifyBegin(i) \/ VerifyThread(i) \/ VerifyEnd(i) \/ Expire(i) \/ Alter(i)
          PROVE  readers' = readers
      BY <2>8 DEF VerifyBegin, VerifyThread, VerifyEnd, Expire, Alter
    <2>9. QED
      BY <2>1, <2>2, <2>3, <2>4, <2>5, <2>6, <2>7, <2>8 DEF Next
  <1>2. QED
    BY <1>1, ExportInvariant, PTL DEF Spec, ServedIntact

=============================================================================
