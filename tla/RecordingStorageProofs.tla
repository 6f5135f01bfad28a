----------------------- MODULE RecordingStorageProofs -----------------------
(***************************************************************************)
(* RecordingStorage for every number of cameras and segments, every policy *)
(* and every clock.                                                        *)
(*                                                                         *)
(* IInv says what an observation is worth: as long as the file still has   *)
(* the signature that was observed, nothing was written to it after        *)
(* `since'; so only stable segments are removed.  DInv adds what a scan    *)
(* and the loop after it know of the files, so that a removal has its      *)
(* reason and leaves later footage.  ProgressInv of the instance Progress  *)
(* says what the samples of a complete scan are worth: a size outgrown     *)
(* since was outgrown by a write after that scan began.                    *)
(***************************************************************************)
EXTENDS MCRecordingStorage, SequenceTheorems, WellFoundedInduction, TLAPS

-----------------------------------------------------------------------------
(* Naturals, sums and greatest elements.                                   *)

\* A nonempty set of naturals has a least element.
LEMMA LeastNatural ==
  ASSUME NEW T, T \subseteq Nat, T # {} PROVE \E n \in T : \A m \in T : n <= m
  <1> DEFINE R == {ss \in Nat \X Nat : ss[1] < ss[2]}
  <1>1. IsWellFoundedOn(R, Nat)
    BY NatLessThanWellFounded DEF OpToRel
  <1>2. \A m, n \in T : m < n => <<m, n>> \in R
    <2> SUFFICES ASSUME NEW m \in T, NEW n \in T, m < n PROVE <<m, n>> \in R
      OBVIOUS
    <2>1. <<m, n>> \in Nat \X Nat /\ <<m, n>>[1] < <<m, n>>[2]
      OBVIOUS
    <2>2. QED
      BY Zenon, <2>1
  <1> HIDE DEF R
  <1>3. PICK n \in T : \A m \in T : ~(<<m, n>> \in R)
    BY <1>1, WFMin
  <1>4. ASSUME NEW m \in T PROVE n <= m
    <2>1. m \in Nat /\ n \in Nat
      OBVIOUS
    <2>2. ~(m < n)
      BY Zenon, <1>2, <1>3
    <2>3. QED
      BY <2>1, <2>2
  <1>5. QED
    BY Zenon, <1>4

\* What holds of 0 and passes from a number to the next holds of every number.
LEMMA EveryNatural ==
  ASSUME NEW G, 0 \in G, \A n \in Nat : n \in G => n + 1 \in G PROVE Nat \subseteq G
  <1>1. SUFFICES ASSUME Nat \ G # {} PROVE FALSE
    OBVIOUS
  <1>2. PICK n \in Nat \ G : \A m \in Nat \ G : n <= m
    BY <1>1, LeastNatural
  <1>3. n # 0 /\ n - 1 \in Nat /\ ~(n <= n - 1)
    BY <1>2
  <1>4. n - 1 \in G
    BY <1>2, <1>3
  <1>5. QED
    BY <1>2, <1>3, <1>4

\* Of some segments one comes last in the order of a measure f, and of their names where f agrees.
LEMMA Greatest ==
  ASSUME NEW S \in SUBSET Seg, S # {}, NEW f \in [Seg -> Nat]
  PROVE  \E t \in S : \A u \in S \ {t} : f[u] < f[t] \/ (f[u] = f[t] /\ u < t)
  <1> DEFINE Final(t, n) == \A u \in S \ {t} : u <= n => f[u] < f[t] \/ (f[u] = f[t] /\ u < t)
             G == {n \in Nat : (\E u \in S : u <= n) => \E t \in S : t <= n /\ Final(t, n)}
  <1>1. 0 \in G
    BY DEF Seg
  <1>2. ASSUME NEW n \in Nat, n \in G PROVE n + 1 \in G
    <2> SUFFICES ASSUME NEW v \in S, v <= n + 1 PROVE \E t \in S : t <= n + 1 /\ Final(t, n + 1)
      OBVIOUS
    <2>0. S \subseteq Nat /\ \A u \in S : f[u] \in Nat /\ (u <= n + 1 => u <= n \/ u = n + 1)
      BY DEF Seg
    <2>1. CASE n + 1 \notin S
      <3>1. v <= n
        BY <2>0, <2>1
      <3>2. PICK t \in S : t <= n /\ Final(t, n)
        BY <1>2, <3>1
      <3>3. t <= n + 1 /\ Final(t, n + 1)
        BY <2>0, <2>1, <3>2
      <3>4. QED
        BY <3>3
    <2>2. CASE n + 1 \in S /\ ~\E u \in S : u <= n
      <3>1. Final(n + 1, n + 1)
        BY <2>0, <2>2
      <3>2. QED
        BY <2>2, <3>1
    <2>3. CASE n + 1 \in S /\ \E u \in S : u <= n
      <3>1. PICK t \in S : t <= n /\ Final(t, n)
        BY <1>2, <2>3
      <3>2. CASE f[t] <= f[n + 1]
        <4>1. ASSUME NEW u \in S \ {n + 1}, u <= n + 1
              PROVE  f[u] < f[n + 1] \/ (f[u] = f[n + 1] /\ u < n + 1)
          <5>1. u <= n /\ u < n + 1 /\ f[u] \in Nat /\ f[t] \in Nat /\ f[n + 1] \in Nat
            BY <2>0, <2>3, <4>1
          <5>2. f[u] <= f[t]
            BY <3>1, <4>1, <5>1
          <5>3. QED
            BY <3>2, <5>1, <5>2
        <4>2. QED
          BY <2>3, <4>1
      <3>3. CASE ~(f[t] <= f[n + 1])
        <4>1. ASSUME NEW u \in S \ {t}, u <= n + 1
              PROVE  f[u] < f[t] \/ (f[u] = f[t] /\ u < t)
          <5>1. CASE u <= n
            BY <3>1, <4>1, <5>1
          <5>2. CASE u = n + 1
            <6>1. f[t] \in Nat /\ f[n + 1] \in Nat
              BY <2>0, <2>3
            <6>2. QED
              BY <3>3, <5>2, <6>1
          <5>3. QED
            BY <2>0, <4>1, <5>1, <5>2
        <4>2. t <= n + 1
          BY <2>0, <3>1
        <4>3. QED
          BY <4>1, <4>2
      <3>4. QED
        BY <3>2, <3>3
    <2>4. QED
      BY <2>1, <2>2, <2>3
  <1> HIDE DEF G
  <1>3. NumSegs \in G
    BY <1>1, <1>2, EveryNatural, SizesAssumption DEF SizesAssumption
  <1>4. PICK t \in S : t <= NumSegs /\ Final(t, NumSegs)
    <2>1. PICK u \in S : TRUE
      OBVIOUS
    <2>2. u <= NumSegs
      BY SizesAssumption DEF SizesAssumption, Seg
    <2>3. QED
      BY Zenon, <1>3, <2>2 DEF G
  <1>5. \A u \in S : u <= NumSegs
    BY DEF Seg
  <1>6. QED
    BY <1>4, <1>5

\* The sums of a weight over the segments up to n, for each n up to m.
Sums(w, m, f) == /\ f \in [0..m -> Nat] /\ f[0] = 0
                 /\ \A n \in 1..m : f[n] = f[n - 1] + w[n]

\* There are such sums.
LEMMA SumsExist ==
  ASSUME NEW w \in [Seg -> Nat]
  PROVE  \E f : Sums(w, NumSegs, f)
  <1> DEFINE T == {n \in Nat : n <= NumSegs => \E f : Sums(w, n, f)}
  <1>0. NumSegs \in Nat
    BY SizesAssumption DEF SizesAssumption
  <1>1. 0 \in T
    <2>1. Sums(w, 0, [k \in 0..0 |-> 0])
      BY DEF Sums
    <2>2. QED
      BY <2>1
  <1>2. ASSUME NEW n \in Nat, n \in T PROVE n + 1 \in T
    <2> SUFFICES ASSUME n + 1 <= NumSegs PROVE \E f : Sums(w, n + 1, f)
      OBVIOUS
    <2>1. PICK f : Sums(w, n, f)
      BY <1>0, <1>2
    <2> DEFINE g == [k \in 0..(n + 1) |-> IF k <= n THEN f[k] ELSE f[n] + w[n + 1]]
    <2>2. w[n + 1] \in Nat
      BY <1>0 DEF Seg
    <2>3. g \in [0..(n + 1) -> Nat] /\ g[0] = 0
      BY <2>1, <2>2 DEF Sums
    <2>4. ASSUME NEW k \in 1..(n + 1) PROVE g[k] = g[k - 1] + w[k]
      <3>1. CASE k <= n
        BY <2>1, <3>1 DEF Sums
      <3>2. CASE k = n + 1
        BY <3>2
      <3>3. QED
        BY <3>1, <3>2
    <2>5. QED
      BY <2>3, <2>4 DEF Sums
  <1> HIDE DEF T
  <1>3. Nat \subseteq T
    BY <1>1, <1>2, EveryNatural
  <1>4. QED
    BY <1>0, <1>3 DEF T

\* Total is the last of the sums.
LEMMA TotalIsSum ==
  ASSUME NEW w \in [Seg -> Nat]
  PROVE  \E f : Sums(w, NumSegs, f) /\ Total(w) = f[NumSegs]
  <1> DEFINE Eqn(g) == g = [n \in 0..NumSegs |-> IF n = 0 THEN 0 ELSE g[n - 1] + w[n]]
             F == CHOOSE g : Eqn(g)
  <1>0. NumSegs \in Nat
    BY SizesAssumption DEF SizesAssumption
  <1>1. PICK f : Sums(w, NumSegs, f)
    BY SumsExist
  <1>2. Eqn(f)
    BY <1>0, <1>1 DEF Sums
  <1>3. Eqn(F)
    BY <1>2, Zenon
  <1>4. Total(w) = F[NumSegs]
    BY Zenon DEF Total
  <1> HIDE DEF F
  <1>5. \A n \in 0..NumSegs : F[n] = f[n]
    <2> DEFINE T == {n \in Nat : n <= NumSegs => F[n] = f[n]}
    <2>1. 0 \in T
      BY <1>0, <1>1, <1>3 DEF Sums
    <2>2. ASSUME NEW n \in Nat, n \in T PROVE n + 1 \in T
      BY <1>0, <1>1, <1>3, <2>2 DEF Sums
    <2> HIDE DEF T
    <2>3. Nat \subseteq T
      BY <2>1, <2>2, EveryNatural
    <2>4. QED
      BY <1>0, <2>3 DEF T
  <1>6. QED
    BY <1>0, <1>1, <1>4, <1>5 DEF Sums

\* A sum is a natural number.
LEMMA TotalType == ASSUME NEW w \in [Seg -> Nat] PROVE Total(w) \in Nat
  BY TotalIsSum, SizesAssumption DEF Sums, SizesAssumption

\* A sum grows with its weights.
LEMMA TotalMonotone ==
  ASSUME NEW w \in [Seg -> Nat], NEW u \in [Seg -> Nat], \A s \in Seg : w[s] <= u[s]
  PROVE  Total(w) <= Total(u)
  <1>0. NumSegs \in Nat
    BY SizesAssumption DEF SizesAssumption
  <1>1. PICK f : Sums(w, NumSegs, f) /\ Total(w) = f[NumSegs]
    BY TotalIsSum
  <1>2. PICK g : Sums(u, NumSegs, g) /\ Total(u) = g[NumSegs]
    BY TotalIsSum
  <1> DEFINE T == {n \in Nat : n <= NumSegs => f[n] <= g[n]}
  <1>3. 0 \in T
    BY <1>1, <1>2 DEF Sums
  <1>4. ASSUME NEW n \in Nat, n \in T PROVE n + 1 \in T
    <2> SUFFICES ASSUME n + 1 <= NumSegs PROVE n + 1 \in T
      OBVIOUS
    <2>1. n + 1 \in Seg /\ n + 1 \in 1..NumSegs /\ n \in 0..NumSegs
      BY <1>0 DEF Seg
    <2>2. f[n + 1] = f[n] + w[n + 1] /\ g[n + 1] = g[n] + u[n + 1]
      BY <1>1, <1>2, <2>1 DEF Sums
    <2>3. f[n] \in Nat /\ g[n] \in Nat /\ w[n + 1] \in Nat /\ u[n + 1] \in Nat
      BY <1>1, <1>2, <2>1 DEF Sums
    <2>4. QED
      BY <1>0, <1>4, <2>1, <2>2, <2>3 DEF Seg
  <1> HIDE DEF T
  <1>5. Nat \subseteq T
    BY <1>3, <1>4, EveryNatural
  <1>6. QED
    BY <1>0, <1>1, <1>2, <1>5 DEF T

\* Changing one weight changes the sum by as much.
LEMMA TotalChange ==
  ASSUME NEW w \in [Seg -> Nat], NEW u \in [Seg -> Nat], NEW s \in Seg,
         \A t \in Seg \ {s} : u[t] = w[t]
  PROVE  Total(u) + w[s] = Total(w) + u[s]
  <1>0. NumSegs \in Nat /\ s \in Nat /\ s >= 1 /\ s <= NumSegs
    BY SizesAssumption DEF SizesAssumption, Seg
  <1>1. PICK f : Sums(w, NumSegs, f) /\ Total(w) = f[NumSegs]
    BY TotalIsSum
  <1>2. PICK g : Sums(u, NumSegs, g) /\ Total(u) = g[NumSegs]
    BY TotalIsSum
  <1> DEFINE T == {n \in Nat : n <= NumSegs =>
                     IF s <= n THEN g[n] + w[s] = f[n] + u[s] ELSE g[n] = f[n]}
  <1>3. 0 \in T
    BY <1>0, <1>1, <1>2 DEF Sums
  <1>4. ASSUME NEW n \in Nat, n \in T PROVE n + 1 \in T
    <2> SUFFICES ASSUME n + 1 <= NumSegs PROVE n + 1 \in T
      OBVIOUS
    <2>1. n + 1 \in Seg /\ n + 1 \in 1..NumSegs /\ n \in 0..NumSegs
      BY <1>0 DEF Seg
    <2>2. f[n + 1] = f[n] + w[n + 1] /\ g[n + 1] = g[n] + u[n + 1]
      BY <1>1, <1>2, <2>1 DEF Sums
    <2>3. f[n] \in Nat /\ g[n] \in Nat /\ w[n + 1] \in Nat /\ u[n + 1] \in Nat /\ w[s] \in Nat /\ u[s] \in Nat
      BY <1>1, <1>2, <2>1 DEF Sums
    <2>4. IF s <= n THEN g[n] + w[s] = f[n] + u[s] ELSE g[n] = f[n]
      BY <1>0, <1>4
    <2>5. CASE n + 1 = s
      BY <1>0, <2>2, <2>3, <2>4, <2>5
    <2>6. CASE n + 1 # s
      <3>1. u[n + 1] = w[n + 1] /\ (s <= n + 1 <=> s <= n)
        BY <1>0, <2>1, <2>6
      <3>2. QED
        BY <2>2, <2>3, <2>4, <3>1
    <2>7. QED
      BY <2>5, <2>6
  <1> HIDE DEF T
  <1>5. NumSegs \in T
    BY <1>0, <1>3, <1>4, EveryNatural
  <1>6. QED
    BY <1>0, <1>1, <1>2, <1>5 DEF T

-----------------------------------------------------------------------------
(* The observations, and the deletions of stable segments only.              *)

\* What an observation o of segment s tells about the file now.
Sound(o, s) ==
    o.known => /\ state[s] # "none"
               /\ o.since <= mono
               /\ o.size <= size[s]
               /\ (o.size = size[s] /\ o.mtime = mtime[s]) => lastWrite[s] <= o.since

ObservationsSound == \A s \in Seg : Sound(obs[s], s) /\ Sound(observed[s], s)

\* The file the worker is about to unlink was stable at the recheck, unless it grew since.
InHandSound ==
    pc = "unlink" => /\ inHand \in Seg /\ state[inHand] # "none"
                     /\ heldSize <= size[inHand]
                     /\ size[inHand] = heldSize => checkedAt - lastWrite[inHand] >= MinClosed

\* No write lies in the future of the monotonic clock.
WrittenBefore == \A s \in Seg : lastWrite[s] <= mono

IInv ==
    WorkerTypeOK /\ WrittenBefore /\ ObservationsSound /\ InHandSound /\ DeletedWasStable

-----------------------------------------------------------------------------
\* The maintenance worker starts with sound (empty) observations.
LEMMA InitIInv == Init => IInv
<1> SUFFICES ASSUME Init PROVE IInv
    OBVIOUS
<1> USE DEF Init, Idle
<1>1. WorkerTypeOK
  <2>1. NoObs \in ObservationSet
    BY DEF NoObs, Observation, ObservationSet
  <2>2. mtime \in [Seg -> Nat]
    <3>1. mtime \in [Seg -> Stamps \cup {0}]
      OBVIOUS
    <3>2. Stamps \cup {0} \subseteq Nat
      BY SizesAssumption DEF SizesAssumption
    <3> QED
      BY <3>1, <3>2
  <2>3. inHand \in 0..NumSegs
    BY SizesAssumption DEF SizesAssumption
  <2> QED
    BY <2>1, <2>2, <2>3 DEF WorkerTypeOK, NoObservations
<1>2. ObservationsSound
  BY DEF ObservationsSound, Sound, NoObservations, NoObs, Observation
<1>3. WrittenBefore /\ InHandSound /\ DeletedWasStable
  BY DEF InHandSound, WrittenBefore, DeletedWasStable
<1> QED
  BY <1>1, <1>2, <1>3 DEF IInv

\* The recorder: a write makes the file larger than any observation of it.
LEMMA RecorderIInv ==
    ASSUME IInv, NEW s \in Seg, OpenSegment(s) \/ Grow(s) \/ CloseSegment(s)
    PROVE  IInv'
<1> USE DEF IInv, fileVars, scanVars, pruneVars, deletedVars
<1>0. Stamps \subseteq Nat
  BY SizesAssumption DEF SizesAssumption
<1>1. CASE OpenSegment(s)
  <2> USE <1>1 DEF OpenSegment
  <2>1. WorkerTypeOK'
    BY <1>0 DEF WorkerTypeOK
  <2>2. ObservationsSound'
    BY DEF WorkerTypeOK, ObservationsSound, Sound
  <2>3. WrittenBefore' /\ InHandSound' /\ DeletedWasStable'
    BY DEF WorkerTypeOK, InHandSound, WrittenBefore, DeletedWasStable
  <2> QED
    BY <2>1, <2>2, <2>3
<1>2. CASE Grow(s)
  <2> USE <1>2 DEF Grow
  <2>1. WorkerTypeOK'
    BY <1>0 DEF WorkerTypeOK
  <2>2. ObservationsSound'
    <3> SUFFICES ASSUME NEW t \in Seg
                 PROVE  Sound(obs[t], t)' /\ Sound(observed[t], t)'
      BY DEF ObservationsSound
    <3>1. CASE t = s
      BY <3>1 DEF WorkerTypeOK, ObservationSet, ObservationsSound, Sound
    <3>2. CASE t # s
      BY <3>2 DEF WorkerTypeOK, ObservationsSound, Sound
    <3> QED
      BY <3>1, <3>2
  <2>3. WrittenBefore' /\ InHandSound' /\ DeletedWasStable'
    BY DEF WorkerTypeOK, InHandSound, WrittenBefore, DeletedWasStable
  <2> QED
    BY <2>1, <2>2, <2>3
<1>3. CASE CloseSegment(s)
  <2> USE <1>3 DEF CloseSegment
  <2>1. WorkerTypeOK'
    BY DEF WorkerTypeOK
  <2>2. ObservationsSound'
    BY DEF WorkerTypeOK, ObservationsSound, Sound
  <2>3. WrittenBefore' /\ InHandSound' /\ DeletedWasStable'
    BY DEF WorkerTypeOK, InHandSound, WrittenBefore, DeletedWasStable
  <2> QED
    BY <2>1, <2>2, <2>3
<1> QED
  BY <1>1, <1>2, <1>3

\* A scan: an observation is made, or kept, only with the signature the file has now.
LEMMA ScanningIInv ==
    ASSUME IInv, Scanning
    PROVE  IInv'
<1> USE DEF IInv, fileVars, scanVars, pruneVars, deletedVars, progressVars
<1>0. NoObs \in ObservationSet /\ NoObs.known = FALSE
  BY DEF NoObs, Observation, ObservationSet
<1>0a. 0 \in 0..NumSegs
  BY SizesAssumption DEF SizesAssumption
<1>1. ASSUME NEW m \in {"inspect", "prune", "final"}, ScanStart(m)
      PROVE  IInv'
  BY <1>0, <1>1 DEF ScanStart, WorkerTypeOK, ObservationsSound, Sound, InHandSound, WrittenBefore,
                    DeletedWasStable, NoObservations
<1>2. CASE ScanFile
  <2> USE <1>2 DEF ScanFile
  <2>1. PICK s \in Seg : NextFile(s) /\ observed' = [observed EXCEPT ![s] = Observe(s)]
    OBVIOUS
  <2>2. state[s] # "none"
    BY <2>1 DEF NextFile, FilesOf, Exists
  <2>3. Observe(s) \in ObservationSet /\ Sound(Observe(s), s)
    <3>1. CASE SameSignature(obs[s], s) /\ mono >= obs[s].since
      BY <3>1 DEF Observe, WorkerTypeOK, ObservationsSound
    <3>2. CASE ~(SameSignature(obs[s], s) /\ mono >= obs[s].since)
      <4> DEFINE g == IF scanGen # 0 THEN scanGen + 1 ELSE 0
                 o == Observation(TRUE, size[s], mtime[s], mono, g, scanStart)
      <4>1. Observe(s) = o
        BY <3>2 DEF Observe
      <4>2. g \in Nat
        BY DEF WorkerTypeOK
      <4>3. o \in ObservationSet
        <5> HIDE DEF g
        <5> QED
          BY <4>2 DEF Observation, ObservationSet, WorkerTypeOK
      <4>4. o.since = mono /\ o.size = size[s] /\ lastWrite[s] <= mono
        BY DEF Observation, WrittenBefore
      <4>5. mono \in Nat /\ size[s] \in Nat
        BY DEF WorkerTypeOK
      <4> HIDE DEF o
      <4> QED
        BY <2>2, <4>1, <4>3, <4>4, <4>5 DEF Sound
    <3> QED
      BY <3>1, <3>2
  <2>4. WorkerTypeOK'
    BY <2>1, <2>3 DEF WorkerTypeOK
  <2>5. ObservationsSound'
    BY <2>1, <2>3 DEF WorkerTypeOK, ObservationsSound, Sound
  <2>6. WrittenBefore' /\ InHandSound' /\ DeletedWasStable'
    BY DEF InHandSound, WrittenBefore, DeletedWasStable
  <2> QED
    BY <2>4, <2>5, <2>6
<1>3. CASE ScanDirectoryEnd
  <2>1. WorkerTypeOK'
    BY <1>3 DEF ScanDirectoryEnd, WorkerTypeOK, Segments
  <2>2. ObservationsSound'
    BY <1>3 DEF ScanDirectoryEnd, ObservationsSound, Sound
  <2>3. WrittenBefore' /\ InHandSound' /\ DeletedWasStable'
    BY <1>3 DEF ScanDirectoryEnd, InHandSound, WrittenBefore, DeletedWasStable
  <2> QED
    BY <2>1, <2>2, <2>3
<1>4. CASE ScanCommit
  <2>1. WorkerTypeOK'
    BY <1>0, <1>0a, <1>4 DEF ScanCommit, Return, WorkerTypeOK, NoObservations
  <2>2. ObservationsSound'
    BY <1>0, <1>4 DEF ScanCommit, Return, ObservationsSound, Sound, NoObservations
  <2>3. WrittenBefore' /\ InHandSound' /\ DeletedWasStable'
    BY <1>4 DEF ScanCommit, Return, InHandSound, WrittenBefore, DeletedWasStable
  <2> QED
    BY <2>1, <2>2, <2>3
<1>5. CASE ScanAbort
  BY <1>0, <1>0a, <1>5 DEF ScanAbort, Return, WorkerTypeOK, ObservationsSound, Sound,
                          InHandSound, WrittenBefore, DeletedWasStable, NoObservations
<1> QED
  BY <1>1, <1>2, <1>3, <1>4, <1>5 DEF Scanning

\* The deletion loop: the recheck ties the age of the observation to the file.
LEMMA PruningIInv ==
    ASSUME IInv, Pruning
    PROVE  IInv'
<1> USE DEF IInv, fileVars, scanVars, pruneVars, deletedVars, progressVars
<1>0. NoObs \in ObservationSet /\ NoObs.known = FALSE
  BY DEF NoObs, Observation, ObservationSet
<1>0a. Seg \subseteq 0..NumSegs /\ 0 \in 0..NumSegs
  BY SizesAssumption DEF SizesAssumption, Seg
<1>0b. MinClosed \in Nat
  BY SizesAssumption DEF SizesAssumption
<1>1. CASE SkipCandidate
  <2> USE <1>1 DEF SkipCandidate
  <2>1. PICK c \in cand :
            /\ cand' = cand \ {c}
            /\ obs' = obs \/ obs' = [obs EXCEPT ![c] = NoObs]
    OBVIOUS
  <2>2. c \in Seg
    BY DEF WorkerTypeOK
  <2>3. WorkerTypeOK'
    BY <1>0, <1>0a, <2>1, <2>2 DEF WorkerTypeOK
  <2>4. ObservationsSound'
    BY <1>0, <2>1, <2>2 DEF WorkerTypeOK, ObservationsSound, Sound
  <2>5. WrittenBefore' /\ InHandSound' /\ DeletedWasStable'
    BY DEF InHandSound, WrittenBefore, DeletedWasStable
  <2> QED
    BY <2>3, <2>4, <2>5
<1>2. CASE RecheckCandidate
  <2> USE <1>2 DEF RecheckCandidate
  <2>1. PICK c \in cand : /\ Recheck(c) /\ inHand' = c /\ heldSize' = size[c]
                          /\ cand' = cand \ {c}
    OBVIOUS
  <2>2. c \in Seg
    BY DEF WorkerTypeOK
  <2>3. WorkerTypeOK'
    BY <1>0a, <2>1, <2>2 DEF WorkerTypeOK
  <2>4. ObservationsSound'
    BY DEF ObservationsSound, Sound
  <2>5. InHandSound'
    <3>1. /\ state[c] # "none" /\ lastWrite[c] <= obs[c].since
          /\ mono - obs[c].since >= MinClosed
      BY <2>1, <2>2 DEF Recheck, SameSignature, ObservationsSound, Sound
    <3>2. mono - lastWrite[c] >= MinClosed
      BY <1>0b, <2>2, <3>1 DEF WorkerTypeOK, ObservationSet
    <3> QED
      BY <2>1, <2>2, <3>1, <3>2 DEF WorkerTypeOK, InHandSound
  <2>6. WrittenBefore' /\ DeletedWasStable'
    BY DEF WrittenBefore, DeletedWasStable
  <2> QED
    BY <2>3, <2>4, <2>5, <2>6
<1>3. CASE UnlinkRefused
  BY <1>0a, <1>3 DEF UnlinkRefused, WorkerTypeOK, ObservationsSound, Sound, InHandSound,
     WrittenBefore,
                    DeletedWasStable
<1>4. CASE Unlink
  <2> USE <1>4 DEF Unlink
  <2>1. WorkerTypeOK'
    BY DEF WorkerTypeOK, InHandSound
  <2>2. ObservationsSound'
    BY DEF WorkerTypeOK, ObservationsSound, Sound
  <2>3. WrittenBefore' /\ InHandSound' /\ DeletedWasStable'
    BY DEF WorkerTypeOK, InHandSound, WrittenBefore, DeletedWasStable
  <2> QED
    BY <2>1, <2>2, <2>3
<1>5. CASE LoopAbort
  BY <1>0, <1>0a, <1>5 DEF LoopAbort, Return, WorkerTypeOK, ObservationsSound, Sound,
                          InHandSound, WrittenBefore, DeletedWasStable, NoObservations
<1>6. CASE LoopDone
  BY <1>6 DEF LoopDone, WorkerTypeOK, ObservationsSound, Sound, InHandSound, WrittenBefore,
     DeletedWasStable
<1> QED
  BY <1>1, <1>2, <1>3, <1>4, <1>5, <1>6 DEF Pruning

\* Clock ticks, progress queries, policy changes, restarts and stuttering.
LEMMA OtherIInv ==
    ASSUME IInv, \/ Tick \/ ConfigurePolicy \/ Restart \/ UNCHANGED vars
                 \/ \E d \in Asked : RecordingProgress(d)
    PROVE  IInv'
<1> USE DEF IInv, fileVars, scanVars, pruneVars, deletedVars, progressVars
<1>0. NoObs \in ObservationSet /\ NoObs.known = FALSE
  BY DEF NoObs, Observation, ObservationSet
<1>0a. 0 \in 0..NumSegs
  BY SizesAssumption DEF SizesAssumption
<1>1. CASE Tick
  <2>1. WorkerTypeOK' /\ WrittenBefore' /\ InHandSound' /\ DeletedWasStable'
    BY <1>1 DEF Tick, WorkerTypeOK, InHandSound, WrittenBefore, DeletedWasStable
  <2>2. ObservationsSound'
    BY <1>1 DEF Tick, WorkerTypeOK, ObservationSet, ObservationsSound, Sound
  <2> QED
    BY <2>1, <2>2
<1>2. CASE ConfigurePolicy
  BY <1>2 DEF ConfigurePolicy, WorkerTypeOK, ObservationsSound, Sound, InHandSound, WrittenBefore,
              DeletedWasStable
<1>3. CASE Restart
  BY <1>0, <1>0a, <1>3 DEF Restart, Return, WorkerTypeOK, ObservationsSound, Sound,
                          InHandSound, WrittenBefore, DeletedWasStable, NoObservations
<1>4. CASE UNCHANGED vars
  BY <1>4 DEF vars, WorkerTypeOK, ObservationsSound, Sound, InHandSound, WrittenBefore,
     DeletedWasStable
<1>5. CASE \E d \in Asked : RecordingProgress(d)
  BY <1>5 DEF RecordingProgress, WorkerTypeOK, ObservationsSound, Sound, InHandSound, WrittenBefore,
              DeletedWasStable
<1> QED
  BY <1>1, <1>2, <1>3, <1>4, <1>5

\* No segment that the recorder is still writing loses its footage to maintenance:
\* every removed segment had been unwritten for MIN_CLOSED_AGE_SECONDS at the worker's
\* last look, for any interleaving of recorder, clock steps, scans and restarts.
THEOREM DeletionSafety == Spec => []DeletedWasStable
<1>1. IInv /\ [Next]_vars => IInv'
  BY RecorderIInv, ScanningIInv, PruningIInv, OtherIInv DEF Next, Recorder
<1>2. IInv => DeletedWasStable
  BY DEF IInv
<1> QED
  BY InitIInv, <1>1, <1>2, PTL DEF Spec

\* The files, the clocks and the worker's locals keep their types.
THEOREM WorkerTypes == Spec => []WorkerTypeOK
<1>1. IInv /\ [Next]_vars => IInv'
  BY RecorderIInv, ScanningIInv, PruningIInv, OtherIInv DEF Next, Recorder
<1>2. IInv => WorkerTypeOK
  BY DEF IInv
<1> QED
  BY InitIInv, <1>1, <1>2, PTL DEF Spec

-----------------------------------------------------------------------------
(* Why and what the worker deletes.                                        *)

\* The types of the locals the deletions rest on.
Locals ==
    /\ curDir \in Dir /\ curSeg \in 0..NumSegs /\ total \in Int /\ free \in Int
    /\ policy \in Policies /\ overQuota \in BOOLEAN /\ baseStart \in Nat

DInv == IInv /\ Locals /\ DeletionInv

\* The used space is a number.
LEMMA UsedType == WorkerTypeOK => Used \in Nat
  <1> SUFFICES ASSUME WorkerTypeOK PROVE Used \in Nat
    OBVIOUS
  <1> DEFINE w == [s \in Seg |-> IF s \in {t \in Seg : Exists(t)} THEN size[s] ELSE 0]
  <1>1. w \in [Seg -> Nat]
    BY DEF WorkerTypeOK
  <1> HIDE DEF w
  <1>2. Total(w) \in Nat
    BY <1>1, TotalType
  <1>3. Used = Total(w)
    BY DEF Used, Bytes, w
  <1>4. QED
    BY <1>2, <1>3

\* The free space is a number.
LEMMA FreeType == WorkerTypeOK => FreeBytes \in Int
  BY UsedType, SizesAssumption DEF FreeBytes, SizesAssumption

\* What was read and is still there has sizes, no more than the files hold.
LEMMA ReadSizeSound ==
    ASSUME IInv
    PROVE  /\ ReadSize \in [Seg -> Nat] /\ Total(ReadSize) \in Nat
           /\ Total(ReadSize) <= Used
  <1> DEFINE w == [s \in Seg |-> IF s \in {t \in Seg : Exists(t)} THEN size[s] ELSE 0]
  <1>1. w \in [Seg -> Nat] /\ ReadSize \in [Seg -> Nat]
    BY DEF IInv, WorkerTypeOK, ObservationSet, ReadSize
  <1>2. \A s \in Seg : ReadSize[s] <= w[s]
    BY DEF IInv, WorkerTypeOK, ObservationSet, ReadSize, ObservationsSound, Sound
  <1> HIDE DEF w
  <1>3. Total(ReadSize) <= Total(w) /\ Total(ReadSize) \in Nat
    BY <1>1, <1>2, TotalMonotone, TotalType
  <1>4. Used = Total(w)
    BY DEF Used, Bytes, w
  <1>5. QED
    BY <1>1, <1>3, <1>4

\* The locals keep their types.
LEMMA LocalsStep == ASSUME IInv, IInv', Locals, Next PROVE Locals'
  <1> USE DEF Locals, fileVars, scanVars, pruneVars, deletedVars, progressVars
  <1>0. /\ NumDirs \in Nat \ {0} /\ NumSegs \in Nat /\ 1 \in Dir /\ 0 \in 0..NumSegs
        /\ WorkerTypeOK
    BY SizesAssumption DEF SizesAssumption, Dir, IInv
  <1>1. FreeBytes \in Int
    BY <1>0, FreeType
  <1>2. ASSUME NEW s \in Seg, OpenSegment(s) \/ Grow(s) \/ CloseSegment(s) PROVE Locals'
    BY <1>2 DEF OpenSegment, Grow, CloseSegment
  <1>3. CASE Tick \/ ConfigurePolicy \/ \E d \in Asked : RecordingProgress(d)
    BY <1>3 DEF Tick, ConfigurePolicy, RecordingProgress
  <1>4. ASSUME NEW m \in {"inspect", "prune", "final"}, ScanStart(m) PROVE Locals'
    BY <1>0, <1>1, <1>4 DEF ScanStart
  <1>5. CASE ScanFile
    BY <1>0, <1>5 DEF ScanFile, WorkerTypeOK, Seg
  <1>6. CASE ScanDirectoryEnd
    BY <1>0, <1>6 DEF ScanDirectoryEnd, Dir
  <1>6a. ASSUME NEW a, Return(a) PROVE /\ curDir' = 1 /\ curSeg' = 0 /\ total' = 0 /\ free' = 0
                                        /\ overQuota' \in BOOLEAN
    <2>1. overQuota' = FALSE
      BY Zenon, <1>6a DEF Return
    <2>2. QED
      BY Zenon, <1>6a, <2>1 DEF Return
  <1>7. CASE ScanCommit
    <2>1. policy' = policy /\ baseStart' = scanStart /\ scanStart \in Nat
      BY <1>0, <1>7 DEF ScanCommit, WorkerTypeOK
    <2>2. CASE Return(Allowed)
      BY <1>0, <1>6a, <2>1, <2>2
    <2>3. CASE overQuota' = (total > policy.max) /\ UNCHANGED scanVars
      <3>1. overQuota' \in BOOLEAN
        <4>1. (total > policy.max) \in BOOLEAN
          OBVIOUS
        <4>2. QED
          BY Zenon, <2>3, <4>1
      <3>2. QED
        BY <1>0, <2>1, <2>3, <3>1
    <2>4. QED
      BY <1>7, <2>2, <2>3 DEF ScanCommit
  <1>8. CASE ScanAbort \/ LoopAbort \/ Restart
    <2>1. Return(FALSE) /\ UNCHANGED <<policy, baseStart>>
      BY <1>8 DEF ScanAbort, LoopAbort, Restart
    <2>2. overQuota' \in BOOLEAN /\ curDir' = 1 /\ curSeg' = 0 /\ total' = 0 /\ free' = 0
      BY Zenon, <1>6a, <2>1
    <2>3. QED
      BY <1>0, <2>1, <2>2
  <1>9. CASE SkipCandidate \/ RecheckCandidate \/ UnlinkRefused \/ LoopDone
    BY <1>9 DEF SkipCandidate, RecheckCandidate, UnlinkRefused, LoopDone
  <1>10. CASE Unlink
    <2>1. size[inHand] \in Int /\ heldSize \in Int
      BY <1>0, <1>10 DEF IInv, InHandSound, WorkerTypeOK, Unlink
    <2>2. QED
      BY <1>0, <1>1, <1>10, <2>1 DEF Unlink
  <1>11. QED
    BY <1>2, <1>3, <1>4, <1>5, <1>6, <1>7, <1>8, <1>9, <1>10 DEF Next, Recorder, Scanning, Pruning

\* The worker begins with nothing observed.
LEMMA InitDInv == Init => DInv
  <1> SUFFICES ASSUME Init PROVE DInv
    OBVIOUS
  <1>1. IInv
    BY InitIInv
  <1>2. Locals
    <2>1. overQuota \in BOOLEAN
      BY Zenon DEF Init, Idle
    <2>2. QED
      BY <2>1, SizesAssumption, PoliciesAssumption DEF SizesAssumption, Init, Idle, Locals, Dir
  <1>3. DeletionInv
    BY DEF DeletionInv, Init, Idle, ScanSees, CommittedSees, ScanObserves, LoopObserves,
       GenerationsSound, StartsOrdered,
           LaterWritten, Spared, Doomed, TotalSound, ReasonSound, DirectoryKeepsOne, NoObservations,
           NoObs, Observation
  <1>4. QED
    BY <1>1, <1>2, <1>3 DEF DInv

\* Whatever the recorder does to a file, it is there, and was written now or is as it was.
LEMMA RecorderMoves ==
    ASSUME IInv, NEW s \in Seg, OpenSegment(s) \/ Grow(s) \/ CloseSegment(s)
    PROVE  /\ UNCHANGED <<mono, restarts, policy, obs, scanGen, progressVars, pc, mode, scanVars,
                          pruneVars, recordingAllowed, deletedVars, baseStart>>
           /\ \A t \in Seg :
                /\ Exists(t) => Exists(t)'
                /\ state'[t] = "deleted" <=> state[t] = "deleted"
                /\ observed[t].known => (Exists(t)' <=> Exists(t))
                /\ lastWrite[t] \in Nat /\ lastWrite'[t] \in Nat /\ lastWrite[t] <= lastWrite'[t]
                /\ \/ lastWrite'[t] = mono
                   \/ /\ Exists(t)' <=> Exists(t)
                      /\ size'[t] = size[t] /\ mtime'[t] = mtime[t] /\ lastWrite'[t] = lastWrite[t]
                /\ \/ lastWrite'[t] = lastWrite[t] /\ size'[t] = size[t]
                   \/ size'[t] > size[t]
                   \/ state[t] = "none"
  <1> USE DEF IInv, WorkerTypeOK, WrittenBefore, ObservationsSound, Sound, Exists, fileVars
  <1>1. CASE OpenSegment(s)
    BY <1>1 DEF OpenSegment
  <1>2. CASE Grow(s)
    BY <1>2 DEF Grow
  <1>3. CASE CloseSegment(s)
    BY <1>3 DEF CloseSegment
  <1>4. QED
    BY <1>1, <1>2, <1>3

\* A write never makes a scan wrong: it is later than the scan.
LEMMA RecorderDeletion ==
    ASSUME DInv, NEW s \in Seg, OpenSegment(s) \/ Grow(s) \/ CloseSegment(s)
    PROVE  DeletionInv'
  <1>1. /\ UNCHANGED <<mono, policy, obs, scanGen, pc, baseStart>>
        /\ UNCHANGED <<curDir, curSeg, observed, total, free, cand, scanStart>>
        /\ UNCHANGED <<overQuota, inHand, heldSize, checkedAt>>
    BY RecorderMoves DEF DInv, scanVars, pruneVars
  <1>2. \A t \in Seg :
          /\ Exists(t) => Exists(t)'
          /\ state'[t] = "deleted" <=> state[t] = "deleted"
          /\ observed[t].known => (Exists(t)' <=> Exists(t))
          /\ lastWrite[t] \in Nat /\ lastWrite'[t] \in Nat /\ lastWrite[t] <= lastWrite'[t]
          /\ \/ lastWrite'[t] = mono
             \/ /\ Exists(t)' <=> Exists(t)
                /\ size'[t] = size[t] /\ mtime'[t] = mtime[t] /\ lastWrite'[t] = lastWrite[t]
          /\ \/ lastWrite'[t] = lastWrite[t] /\ size'[t] = size[t]
             \/ size'[t] > size[t]
             \/ state[t] = "none"
    BY RecorderMoves DEF DInv
  <1>0. /\ mono \in Nat /\ scanStart \in Nat /\ baseStart \in Nat
        /\ scanStart <= mono /\ baseStart <= mono
        /\ obs \in [Seg -> ObservationSet] /\ observed \in [Seg -> ObservationSet]
        /\ size \in [Seg -> Nat] /\ heldSize \in Nat /\ checkedAt \in Nat /\ scanGen \in Nat
    BY DEF DInv, IInv, WorkerTypeOK, Locals, DeletionInv, GenerationsSound, StartsOrdered
  <1> USE DEF DInv, DeletionInv
  <1>3. ScanSees'
    <2> SUFFICES ASSUME pc \in {"scan", "commit"}, NEW t \in Seg
                 PROVE  /\ Exists(t)' /\ Passed(t) =>
                             (SameSignature(observed[t], t)' \/ lastWrite'[t] >= scanStart)
                        /\ observed[t].known => Exists(t)' /\ Passed(t)
      BY <1>1 DEF ScanSees, Passed
    <2>1. QED
      BY <1>0, <1>1, <1>2 DEF ScanSees, SameSignature
  <1>4. CommittedSees'
    <2> SUFFICES ASSUME scanGen # 0, NEW t \in Seg, Exists(t)'
                 PROVE  SameSignature(obs[t], t)' \/ lastWrite'[t] >= baseStart
      BY <1>1 DEF CommittedSees
    <2>1. QED
      BY <1>0, <1>1, <1>2 DEF CommittedSees, SameSignature
  <1>5. ScanObserves' /\ LoopObserves'
    <2>1. LoopObserves'
      BY <1>1 DEF LoopObserves
    <2>2. ScanObserves'
      BY <1>0, <1>1, <1>2 DEF ScanObserves, ObservedKept, ObservedNow
    <2>3. QED
      BY <2>1, <2>2
  <1>6. GenerationsSound'
    BY <1>1 DEF GenerationsSound, StartsOrdered
  <1>7. LaterWritten(obs)' /\ LaterWritten(observed)'
    <2>1. ASSUME NEW o \in [Seg -> ObservationSet], LaterWritten(o), NEW t \in Seg, NEW u \in Seg,
                 o[u].known, o[t].known, o[u].gen < o[t].gen
          PROVE  lastWrite'[t] >= o[u].from
      <3>1. lastWrite[t] >= o[u].from
        BY <2>1 DEF LaterWritten
      <3>2. o[u].from \in Nat /\ lastWrite[t] \in Nat /\ lastWrite'[t] \in Nat /\ lastWrite[t] <= lastWrite'[t]
        BY <1>2, <2>1 DEF ObservationSet
      <3>3. QED
        BY <3>1, <3>2
    <2>2. LaterWritten(obs) /\ LaterWritten(observed)
      OBVIOUS
    <2>3. QED
      BY <1>0, <1>1, <2>1, <2>2 DEF LaterWritten
  <1>8. Spared'
    <2>1. Doomed' = Doomed /\ Doomed \subseteq Seg
      BY <1>1 DEF Doomed, IInv, WorkerTypeOK, InHandSound
    <2>2. \A d, t \in Seg : Safe(d, t) => Safe(d, t)'
      BY <1>1, <1>2, <2>1 DEF Safe
    <2>3. QED
      BY <1>1, <2>1, <2>2 DEF Spared
  <1>9. TotalSound'
    <2>1. ReadSize' = ReadSize
      BY <1>1, <1>2 DEF ReadSize
    <2>2. QED
      BY <1>1, <2>1 DEF TotalSound
  <1>10. ReasonSound'
    <2> SUFFICES ASSUME pc = "unlink" PROVE ReasonSound'
      BY <1>1 DEF ReasonSound
    <2>1. inHand \in Seg /\ state[inHand] # "none" /\ heldSize <= size[inHand]
      BY DEF IInv, InHandSound
    <2>2. \/ lastWrite'[inHand] = lastWrite[inHand] /\ size'[inHand] = size[inHand]
          \/ size'[inHand] # heldSize
      <3>1. size[inHand] \in Nat /\ heldSize \in Nat
        BY <1>0, <2>1
      <3>2. size'[inHand] > size[inHand] => size'[inHand] # heldSize
        BY <2>1, <3>1
      <3>3. QED
        BY <1>2, <2>1, <3>2
    <2>3. QED
      BY <1>1, <2>2 DEF ReasonSound, Target
  <1>11. DirectoryKeepsOne'
    BY <1>2 DEF DirectoryKeepsOne, FilesOf
  <1>12. QED
    BY <1>3, <1>4, <1>5, <1>6, <1>7, <1>8, <1>9, <1>10, <1>11

\* When a call returns nothing of its scan is left.
LEMMA ReturnDeletion ==
    ASSUME DInv, NEW a, Return(a), CommittedSees', LaterWritten(obs)', DirectoryKeepsOne',
           baseStart' <= mono', mono' \in Nat,
           \A s \in Seg : obs'[s].gen <= scanGen' /\ obs'[s].from <= baseStart',
           \A s \in Seg : ~obs'[s].known => obs'[s] = NoObs
    PROVE  DeletionInv'
  <1>1. /\ pc' = "idle" /\ observed' = NoObservations /\ cand' = {} /\ scanStart' = 0
        /\ \A s \in Seg : observed'[s] = NoObs
    BY DEF Return, NoObservations
  <1>2. NoObs.known = FALSE
    BY DEF NoObs, Observation
  <1>3. QED
    BY <1>1, <1>2 DEF DeletionInv, ScanSees, ScanObserves, LoopObserves, GenerationsSound,
       StartsOrdered, LaterWritten,
                      Spared, Doomed, TotalSound, ReasonSound

\* A scan begins with nothing read.
LEMMA ScanStartDeletion ==
    ASSUME DInv, WorkerTypeOK', NEW m, ScanStart(m) PROVE DeletionInv'
  <1>0. /\ DirOf \in [Seg -> Dir] /\ NoObs.known = FALSE
        /\ \A s \in Seg : s \in Nat /\ s > 0 /\ DirOf[s] \in Nat /\ DirOf[s] > 0
    BY SizesAssumption DEF SizesAssumption, Seg, Dir, NoObs, Observation
  <1>1. observed' = NoObservations /\ \A s \in Seg : observed'[s] = NoObs
    BY DEF ScanStart, NoObservations
  <1>2. /\ pc \in {"idle", "rescan"} /\ pc' = "scan" /\ curDir' = 1
        /\ curSeg' = 0 /\ cand' = {} /\ total' = 0
        /\ scanStart' = mono /\ mono \in Nat
        /\ UNCHANGED <<mono, policy, obs, scanGen, baseStart, state, size, mtime, lastWrite>>
    BY DEF ScanStart, fileVars, DInv, IInv, WorkerTypeOK
  <1>3. ScanSees'
    <2> SUFFICES ASSUME NEW s \in Seg
                 PROVE  ~Passed(s)' /\ ~observed'[s].known
      BY DEF ScanSees
    <2>1. QED
      BY <1>0, <1>1, <1>2 DEF Passed
  <1>4. CommittedSees' /\ LaterWritten(obs)' /\ DirectoryKeepsOne'
    BY <1>2 DEF DInv, DeletionInv, CommittedSees, SameSignature, Exists, LaterWritten,
       DirectoryKeepsOne, FilesOf
  <1>5. ScanObserves' /\ LoopObserves' /\ LaterWritten(observed)' /\ ReasonSound'
    BY <1>0, <1>1, <1>2 DEF ScanObserves, LoopObserves, LaterWritten, ReasonSound
  <1>6. GenerationsSound'
    BY <1>0, <1>1, <1>2 DEF DInv, DeletionInv, GenerationsSound, StartsOrdered
  <1>7. Spared'
    BY <1>2 DEF Spared, Doomed
  <1>8. TotalSound'
    <2>1. ReadSize' \in [Seg -> Nat]
      BY DEF ReadSize, WorkerTypeOK, ObservationSet
    <2>2. Total(ReadSize)' \in Nat
      BY <2>1, TotalType DEF Total
    <2>3. QED
      BY <1>2, <2>2 DEF TotalSound
  <1>9. QED
    BY <1>3, <1>4, <1>5, <1>6, <1>7, <1>8 DEF DeletionInv

\* The observation of a file is what it is now: kept, or made by this scan.
LEMMA ObserveIs ==
    ASSUME DInv, NEW s \in Seg
    PROVE  /\ SameSignature(Observe(s), s)
           /\ \/ Observe(s) = obs[s]
              \/ /\ ~SameSignature(obs[s], s)
                 /\ Observe(s).from = scanStart
                 /\ Observe(s).gen = IF scanGen # 0 THEN scanGen + 1 ELSE 0
  <1>1. CASE SameSignature(obs[s], s)
    <2>1. mono >= obs[s].since
      BY <1>1 DEF DInv, IInv, ObservationsSound, Sound, SameSignature, WorkerTypeOK, ObservationSet
    <2>2. QED
      BY <1>1, <2>1 DEF Observe
  <1>2. CASE ~SameSignature(obs[s], s)
    BY <1>2 DEF Observe, Observation, SameSignature
  <1>3. QED
    BY <1>1, <1>2

\* A file is read.
LEMMA ScanFileDeletion ==
    ASSUME DInv, WorkerTypeOK', ScanFile PROVE DeletionInv'
  <1>1. PICK s \in Seg : /\ NextFile(s) /\ curSeg' = s
                         /\ observed' = [observed EXCEPT ![s] = Observe(s)]
                         /\ total' = total + size[s]
    BY DEF ScanFile
  <1>2. /\ pc = "scan" /\ UNCHANGED <<mono, policy, obs, scanGen, pc, baseStart, state, size, mtime, lastWrite>>
        /\ UNCHANGED <<curDir, free, cand, scanStart, overQuota, inHand, heldSize, checkedAt>>
    BY DEF ScanFile, fileVars, pruneVars
  <1>3. /\ WorkerTypeOK /\ Locals /\ DeletionInv
        /\ DirOf \in [Seg -> Dir] /\ \A t \in Seg : t \in Nat /\ DirOf[t] \in Int
        /\ curSeg \in Int /\ curDir \in Int /\ total \in Int
    BY SizesAssumption DEF DInv, IInv, Locals, SizesAssumption, Seg, Dir
  <1>4. /\ DirOf[s] = curDir /\ Exists(s) /\ s > curSeg
        /\ \A t \in Seg : DirOf[t] = curDir /\ Exists(t) /\ t > curSeg => s <= t
    BY <1>1 DEF NextFile, FilesOf
  <1>5. ~observed[s].known
    BY <1>2, <1>3, <1>4 DEF DeletionInv, ScanSees, Passed
  <1>6. /\ observed'[s] = Observe(s)
        /\ \A t \in Seg \ {s} : observed'[t] = observed[t]
    BY <1>1, <1>3 DEF WorkerTypeOK
  <1>7. /\ SameSignature(observed'[s], s)
        /\ \/ observed'[s] = obs[s]
           \/ /\ ~SameSignature(obs[s], s)
              /\ observed'[s].from = scanStart
              /\ observed'[s].gen = IF scanGen # 0 THEN scanGen + 1 ELSE 0
    BY <1>6, ObserveIs
  <1>8. ScanSees'
    <2> SUFFICES ASSUME NEW t \in Seg
                 PROVE  /\ Exists(t) /\ Passed(t)' =>
                             (SameSignature(observed[t], t)' \/ lastWrite[t] >= scanStart)
                        /\ observed'[t].known => Exists(t) /\ Passed(t)'
      BY <1>2 DEF ScanSees, Exists
    <2>1. CASE t = s
      BY <1>1, <1>2, <1>3, <1>4, <1>7, <2>1 DEF Passed, SameSignature
    <2>2. CASE t # s
      <3>1. Exists(t) /\ Passed(t)' => Passed(t)
        BY <1>1, <1>2, <1>3, <1>4, <2>2 DEF Passed
      <3>2. Passed(t) => Passed(t)'
        BY <1>1, <1>2, <1>3, <1>4 DEF Passed
      <3>3. QED
        BY <1>2, <1>3, <1>6, <2>2, <3>1, <3>2 DEF DeletionInv, ScanSees, SameSignature
    <2>3. QED
      BY <2>1, <2>2
  <1>9. CommittedSees' /\ LaterWritten(obs)' /\ DirectoryKeepsOne' /\ LoopObserves' /\ ReasonSound'
    BY <1>2, <1>3 DEF DeletionInv, CommittedSees, SameSignature, Exists, LaterWritten,
       DirectoryKeepsOne,
                      FilesOf, LoopObserves, ReasonSound
  <1>10. ScanObserves'
    <2> SUFFICES ASSUME NEW t \in Seg, observed'[t].known PROVE ObservedKept(t)' \/ ObservedNow(t)'
      BY DEF ScanObserves
    <2>1. CASE t = s
      BY <1>2, <1>3, <1>4, <1>7, <2>1 DEF DeletionInv, CommittedSees, ObservedKept, ObservedNow
    <2>2. CASE t # s
      BY <1>2, <1>3, <1>6, <2>2 DEF DeletionInv, ScanObserves, ObservedKept, ObservedNow
    <2>3. QED
      BY <2>1, <2>2
  <1>11. GenerationsSound'
    BY <1>2, <1>3, <1>6, <1>7 DEF DeletionInv, GenerationsSound, StartsOrdered, SameSignature
  <1>12. LaterWritten(observed)'
    <2> SUFFICES ASSUME NEW u \in Seg, NEW t \in Seg, observed'[u].known, observed'[t].known,
                        observed'[u].gen < observed'[t].gen
                 PROVE  lastWrite[t] >= observed'[u].from
      BY <1>2 DEF LaterWritten
    <2>1. /\ ObservedKept(u)' \/ ObservedNow(u)'
          /\ ObservedKept(t)' \/ ObservedNow(t)'
      BY <1>2, <1>10 DEF ScanObserves
    <2>2. /\ obs[u].gen \in Nat /\ obs[t].gen \in Nat /\ lastWrite[t] \in Nat /\ scanGen \in Nat
          /\ observed'[u].gen \in Nat /\ observed'[t].gen \in Nat /\ obs[u].from \in Nat
          /\ obs[u].gen <= scanGen /\ obs[t].gen <= scanGen
          /\ obs[u].from <= baseStart /\ baseStart \in Nat
      BY <1>3 DEF ObservationSet, GenerationsSound, StartsOrdered, WorkerTypeOK, DeletionInv, Locals
    <2>3. CASE observed'[t] = obs[t]
      BY <1>2, <1>3, <2>1, <2>2, <2>3 DEF DeletionInv, LaterWritten, ObservedKept, ObservedNow
    <2>4. CASE ObservedNow(t)'
      BY <1>2, <2>1, <2>2, <2>4 DEF ObservedKept, ObservedNow
    <2>5. QED
      BY <1>2, <2>1, <2>3, <2>4 DEF ObservedKept
  <1>13. Spared'
    <2>1. Doomed' = cand /\ Doomed = cand /\ cand \subseteq Seg
      BY <1>2, <1>3 DEF Doomed, WorkerTypeOK
    <2> SUFFICES ASSUME NEW d \in cand
                 PROVE  /\ DirOf[d] < curDir /\ observed'[d].known
                        /\ \E t \in Seg : Safe(d, t)'
                        /\ \/ \A t \in Seg : DirOf[t] = DirOf[d] => observed'[t].gen = 0
                           \/ \E t \in Seg : Safe(d, t)' /\ observed'[d].gen < observed'[t].gen
      BY <1>2, <2>1 DEF Spared
    <2>2. DirOf[d] < curDir /\ d # s /\ \A t \in Seg : DirOf[t] = DirOf[d] => t # s
      BY <1>2, <1>3, <1>4, <2>1 DEF DeletionInv, Spared
    <2>3. \A t \in Seg : Safe(d, t) => Safe(d, t)' /\ t # s
      BY <1>2, <1>6, <2>1, <2>2 DEF Safe, Exists
    <2>4. QED
      BY <1>2, <1>3, <1>6, <2>1, <2>2, <2>3 DEF DeletionInv, Spared
  <1>14. TotalSound'
    <2>1. ReadSize \in [Seg -> Nat] /\ ReadSize' \in [Seg -> Nat]
      BY <1>3 DEF ReadSize, WorkerTypeOK, ObservationSet
    <2>2. ReadSize[s] = 0 /\ ReadSize'[s] = size[s]
      BY <1>2, <1>4, <1>5, <1>7 DEF ReadSize, SameSignature, Exists
    <2>3. \A t \in Seg \ {s} : ReadSize'[t] = ReadSize[t]
      BY <1>2, <1>6 DEF ReadSize, Exists
    <2>4. Total(ReadSize') + 0 = Total(ReadSize) + size[s]
      BY <2>1, <2>2, <2>3, TotalChange
    <2>5. Total(ReadSize') \in Nat /\ Total(ReadSize) \in Nat /\ size[s] \in Nat
      BY <1>3, <2>1, TotalType DEF WorkerTypeOK
    <2>6. Total(ReadSize)' = Total(ReadSize')
      BY DEF Total
    <2>7. QED
      BY <1>1, <1>2, <1>3, <2>4, <2>5, <2>6 DEF DeletionInv, TotalSound
  <1>15. QED
    BY <1>8, <1>9, <1>10, <1>11, <1>12, <1>13, <1>14 DEF DeletionInv

\* A directory was read: the newest of its files stays, and one that changed last.
LEMMA DirectoryDeletion ==
    ASSUME DInv, WorkerTypeOK', ScanDirectoryEnd PROVE DeletionInv'
  <1>1. /\ pc = "scan" /\ curDir <= NumDirs /\ \A s \in Seg : ~NextFile(s)
        /\ cand' = cand \cup {s \in Segments : Candidate(s)}
        /\ curSeg' = 0
        /\ IF curDir < NumDirs THEN curDir' = curDir + 1 /\ pc' = "scan" ELSE curDir' = curDir /\ pc' = "commit"
        /\ UNCHANGED <<mono, policy, obs, scanGen, baseStart, state, size, mtime, lastWrite>>
        /\ UNCHANGED <<observed, total, free, scanStart, overQuota, inHand, heldSize, checkedAt>>
    BY DEF ScanDirectoryEnd, fileVars, pruneVars
  <1>2. /\ WorkerTypeOK /\ Locals /\ DeletionInv
        /\ DirOf \in [Seg -> Dir]
        /\ \A t \in Seg : t \in Nat /\ t > 0 /\ DirOf[t] \in Int /\ DirOf[t] <= NumDirs
        /\ curSeg \in Int /\ curDir \in Int /\ NumDirs \in Int
    BY SizesAssumption DEF DInv, IInv, Locals, SizesAssumption, Seg, Dir
  <1>3. \A t \in Seg : DirOf[t] = curDir /\ Exists(t) => t <= curSeg
    <2> SUFFICES ASSUME NEW t \in Seg, DirOf[t] = curDir, Exists(t), t > curSeg PROVE FALSE
      BY <1>2
    <2> DEFINE T == {u \in FilesOf(curDir) : u > curSeg}
    <2>1. t \in T /\ T \subseteq Nat
      BY <1>2 DEF FilesOf
    <2>2. PICK n \in T : \A u \in T : n <= u
      BY <2>1, LeastNatural
    <2>3. n \in Seg /\ NextFile(n)
      BY <2>2 DEF NextFile, FilesOf
    <2>4. QED
      BY <1>1, <2>3
  <1>4. \A t \in Seg : /\ Exists(t) /\ Passed(t)' => Passed(t)
                       /\ Passed(t) => Passed(t)'
    BY <1>1, <1>2, <1>3 DEF Passed
  <1>5. ScanSees'
    BY <1>1, <1>2, <1>4 DEF DeletionInv, ScanSees, SameSignature, Exists
  <1>6. /\ CommittedSees' /\ LaterWritten(obs)' /\ LaterWritten(observed)' /\ DirectoryKeepsOne'
        /\ LoopObserves' /\ ReasonSound' /\ GenerationsSound'
    BY <1>1, <1>2 DEF DeletionInv, CommittedSees, SameSignature, Exists, LaterWritten,
       DirectoryKeepsOne,
                      FilesOf, LoopObserves, ReasonSound, GenerationsSound, StartsOrdered
  <1>7. ScanObserves'
    BY <1>1, <1>2 DEF DeletionInv, ScanObserves, ObservedKept, ObservedNow
  <1>8. TotalSound'
    <2>1. ReadSize' = ReadSize
      BY <1>1 DEF ReadSize, Exists
    <2>2. QED
      BY <1>1, <1>2, <2>1 DEF DeletionInv, TotalSound
  <1>9. Spared'
    <2>1. Doomed' = cand' /\ Doomed = cand /\ cand \subseteq Seg /\ Segments \subseteq Seg
      BY <1>1, <1>2 DEF Doomed, WorkerTypeOK, Segments
    <2>2. /\ \A d \in cand : DirOf[d] < curDir /\ observed[d].known
          /\ \A d \in Segments : DirOf[d] = curDir /\ observed[d].known /\ Exists(d)
      BY <1>1, <1>2, <2>1 DEF DeletionInv, Spared, Segments, ScanSees
    <2>3. \A d, t \in Seg : DirOf[d] = DirOf[t] /\ t \notin cand' /\ observed[t].known /\ Exists(t) => Safe(d, t)'
      BY <1>1, <2>1 DEF Safe, Exists
    <2>4. ASSUME NEW d \in cand
          PROVE  /\ \E t \in Seg : Safe(d, t)'
                 /\ \/ \A t \in Seg : DirOf[t] = DirOf[d] => observed'[t].gen = 0
                    \/ \E t \in Seg : Safe(d, t)' /\ observed'[d].gen < observed'[t].gen
      <3>1. \A t \in Seg : Safe(d, t) => Safe(d, t)'
        BY <1>1, <1>2, <2>1, <2>2 DEF Safe, Exists
      <3>2. QED
        BY <1>1, <1>2, <2>1, <3>1 DEF DeletionInv, Spared
    <2>5. ASSUME NEW d \in Segments, Candidate(d)
          PROVE  /\ \E t \in Seg : Safe(d, t)'
                 /\ \/ \A t \in Seg : DirOf[t] = DirOf[d] => observed'[t].gen = 0
                    \/ \E t \in Seg : Safe(d, t)' /\ observed'[d].gen < observed'[t].gen
      <3> DEFINE times == [t \in Seg |-> observed[t].mtime]
                 gens == [t \in Seg |-> observed[t].gen]
      <3>0. times \in [Seg -> Nat] /\ gens \in [Seg -> Nat] /\ Segments # {} /\ Segments \in SUBSET Seg
        BY <1>2, <2>1, <2>5 DEF WorkerTypeOK, ObservationSet
      <3>1. PICK t \in Segments :
              \A u \in Segments \ {t} : times[u] < times[t] \/ (times[u] = times[t] /\ u < t)
        <4> HIDE DEF times
        <4>1. QED
          BY <3>0, Greatest
      <3>2. Newest(t) /\ t \in Seg /\ t \notin cand'
        <4>1. Newest(t)
          BY <2>1, <3>1 DEF Newest
        <4>2. t \notin cand
          BY <1>2, <2>1, <2>2
        <4>3. QED
          BY <1>1, <2>1, <4>1, <4>2 DEF Candidate
      <3>3. Safe(d, t)'
        BY <2>1, <2>2, <2>3, <3>2
      <3>4. NotLatestChange(d)
        BY <2>5 DEF Candidate
      <3>5. CASE \A u \in Segments : observed[u].gen = 0
        <4>1. \A u \in Seg : DirOf[u] = DirOf[d] => observed[u].gen = 0
          BY <1>2, <2>2, <3>5 DEF Segments, DeletionInv, GenerationsSound, StartsOrdered, NoObs,
             Observation
        <4>2. QED
          BY <1>1, <3>2, <3>3, <4>1
      <3>6. CASE \E u \in Segments : observed[d].gen < observed[u].gen
        <4>1. PICK u \in Segments : observed[d].gen < observed[u].gen
          BY <3>6
        <4>2. PICK v \in Segments :
                \A x \in Segments \ {v} : gens[x] < gens[v] \/ (gens[x] = gens[v] /\ x < v)
          <5> HIDE DEF gens
          <5>1. QED
            BY <3>0, Greatest
        <4>3. /\ \A x \in Segments : observed[x].gen \in Nat /\ observed[x].gen <= observed[v].gen
              /\ observed[d].gen \in Nat
          <5>1. \A x \in Segments : observed[x].gen \in Nat /\ gens[x] = observed[x].gen
            BY <1>2, <2>1 DEF WorkerTypeOK, ObservationSet
          <5>2. \A x \in Segments : x = v \/ gens[x] < gens[v] \/ gens[x] = gens[v]
            BY Zenon, <4>2
          <5> HIDE DEF gens
          <5>3. QED
            BY <2>5, <5>1, <5>2
        <4>4. ~NotLatestChange(v) /\ observed[d].gen < observed[v].gen
          BY <4>1, <4>3 DEF NotLatestChange
        <4>5. v \in Seg /\ v \notin cand'
          BY <1>1, <1>2, <2>1, <2>2, <4>4 DEF Candidate
        <4>6. Safe(d, v)'
          BY <2>1, <2>2, <2>3, <4>5
        <4>7. QED
          BY <1>1, <3>2, <3>3, <4>4, <4>5, <4>6
      <3>7. QED
        BY <3>4, <3>5, <3>6 DEF NotLatestChange
    <2>6. ASSUME NEW d \in cand' PROVE (pc' = "scan" => DirOf[d] < curDir') /\ observed'[d].known
      BY <1>1, <1>2, <2>1, <2>2
    <2>7. QED
      BY <1>1, <2>1, <2>4, <2>5, <2>6 DEF Spared
  <1>10. QED
    BY <1>5, <1>6, <1>7, <1>8, <1>9 DEF DeletionInv

\* A complete scan becomes the last one.
LEMMA CommitDeletion ==
    ASSUME DInv, WorkerTypeOK', ScanCommit PROVE DeletionInv'
  <1>1. /\ pc = "commit" /\ obs' = observed /\ scanGen' = scanGen + 1 /\ baseStart' = scanStart
        /\ UNCHANGED <<mono, policy, state, size, mtime, lastWrite>>
    BY DEF ScanCommit, fileVars
  <1>2. WorkerTypeOK /\ Locals /\ DeletionInv
    BY DEF DInv, IInv
  <1>3. CommittedSees'
    BY <1>1, <1>2 DEF DeletionInv, ScanSees, Passed, CommittedSees, SameSignature, Exists
  <1>4. LaterWritten(obs)'
    BY <1>1, <1>2 DEF DeletionInv, LaterWritten
  <1>5. DirectoryKeepsOne'
    BY <1>1, <1>2 DEF DeletionInv, DirectoryKeepsOne, FilesOf, Exists
  <1>6. /\ baseStart' <= mono' /\ mono' \in Nat
        /\ \A s \in Seg : ~obs'[s].known => obs'[s] = NoObs
    BY <1>1, <1>2 DEF DeletionInv, GenerationsSound, StartsOrdered, WorkerTypeOK
  <1>7. ASSUME NEW s \in Seg PROVE obs'[s].gen <= scanGen' /\ obs'[s].from <= baseStart'
    <2>1. /\ scanGen \in Nat /\ scanStart \in Nat /\ baseStart \in Nat /\ baseStart <= scanStart
          /\ obs[s].gen <= scanGen /\ obs[s].from <= baseStart
          /\ obs[s].gen \in Nat /\ obs[s].from \in Nat
      BY <1>1, <1>2 DEF WorkerTypeOK, ObservationSet, Locals, DeletionInv, GenerationsSound,
         StartsOrdered
    <2>2. CASE ~observed[s].known
      BY <1>1, <1>2, <2>1, <2>2 DEF DeletionInv, GenerationsSound, StartsOrdered, NoObs, Observation
    <2>3. CASE ObservedKept(s)
      BY <1>1, <2>1, <2>3 DEF ObservedKept
    <2>4. CASE ObservedNow(s)
      BY <1>1, <2>1, <2>4 DEF ObservedNow
    <2>5. QED
      BY <1>1, <1>2, <2>2, <2>3, <2>4 DEF DeletionInv, ScanObserves
  <1>8. CASE Return(Allowed)
    BY <1>3, <1>4, <1>5, <1>6, <1>7, <1>8, ReturnDeletion
  <1>9. CASE pc' = "loop" /\ UNCHANGED <<scanVars, inHand>>
    <2>1. /\ UNCHANGED <<curDir, curSeg, observed, total, free, cand, scanStart>>
      BY <1>9 DEF scanVars
    <2>2. ScanSees' /\ ScanObserves' /\ ReasonSound'
      BY <1>9 DEF ScanSees, ScanObserves, ReasonSound
    <2>3. LoopObserves'
      BY <1>1, <2>1 DEF LoopObserves
    <2>4. GenerationsSound'
      BY <1>1, <1>2, <1>6, <1>7, <2>1 DEF DeletionInv, GenerationsSound, StartsOrdered, WorkerTypeOK
    <2>5. LaterWritten(observed)'
      BY <1>1, <1>2, <2>1 DEF DeletionInv, LaterWritten
    <2>6. Spared'
      <3>1. Doomed' = Doomed /\ Doomed \subseteq Seg
        BY <1>1, <1>2, <1>9, <2>1 DEF Doomed, WorkerTypeOK
      <3>2. \A d, t \in Seg : Safe(d, t) => Safe(d, t)'
        BY <1>1, <2>1, <3>1 DEF Safe, Exists
      <3>3. QED
        BY <1>2, <1>9, <2>1, <3>1, <3>2 DEF DeletionInv, Spared
    <2>7. TotalSound'
      <3>1. ReadSize' = ReadSize
        BY <1>1, <2>1 DEF ReadSize, Exists
      <3>2. QED
        BY <1>1, <1>2, <2>1, <3>1 DEF DeletionInv, TotalSound
    <2>8. QED
      BY <1>3, <1>4, <1>5, <2>2, <2>3, <2>4, <2>5, <2>6, <2>7 DEF DeletionInv
  <1>10. QED
    BY <1>8, <1>9 DEF ScanCommit

\* An abandoned scan, an abandoned loop and a restart leave no scan in hand.
LEMMA AbandonDeletion ==
    ASSUME DInv, WorkerTypeOK', ScanAbort \/ LoopAbort \/ Restart PROVE DeletionInv'
  <1>1. WorkerTypeOK /\ Locals /\ DeletionInv
    BY DEF DInv, IInv
  <1>2. /\ \/ obs' = NoObservations /\ scanGen' = 0
           \/ UNCHANGED <<obs, scanGen>>
        /\ UNCHANGED <<mono, baseStart, size, mtime, lastWrite>>
        /\ Return(FALSE)
        /\ \A s \in Seg : (Exists(s)' <=> Exists(s)) /\ (state'[s] = "deleted" <=> state[s] = "deleted")
    BY <1>1 DEF ScanAbort, LoopAbort, Restart, fileVars, Exists, WorkerTypeOK
  <1>3. /\ NoObs.known = FALSE /\ NoObs.gen = 0 /\ NoObs.from = 0
        /\ \A s \in Seg : NoObservations[s] = NoObs
    BY DEF NoObs, Observation, NoObservations
  <1>4. CommittedSees' /\ LaterWritten(obs)'
    BY <1>1, <1>2, <1>3 DEF DeletionInv, CommittedSees, LaterWritten, SameSignature
  <1>5. DirectoryKeepsOne'
    BY <1>1, <1>2 DEF DeletionInv, DirectoryKeepsOne, FilesOf
  <1>6. /\ baseStart' <= mono' /\ mono' \in Nat
        /\ \A s \in Seg : obs'[s].gen <= scanGen' /\ obs'[s].from <= baseStart'
        /\ \A s \in Seg : ~obs'[s].known => obs'[s] = NoObs
    BY <1>1, <1>2, <1>3 DEF DeletionInv, GenerationsSound, StartsOrdered, WorkerTypeOK, Locals
  <1>7. QED
    BY <1>2, <1>4, <1>5, <1>6, ReturnDeletion

\* A candidate is left alone, looked at for the last time, or refused by the system.
LEMMA CandidateDeletion ==
    ASSUME DInv, WorkerTypeOK', SkipCandidate \/ RecheckCandidate \/ UnlinkRefused \/ LoopDone
    PROVE  DeletionInv'
  <1>1. WorkerTypeOK /\ Locals /\ DeletionInv /\ IInv
    BY DEF DInv, IInv
  <1>2. /\ pc \in {"loop", "unlink"} /\ pc' \in {"loop", "unlink", "rescan"}
        /\ UNCHANGED <<mono, policy, scanGen, baseStart, state, size, mtime, lastWrite>>
        /\ UNCHANGED <<curDir, curSeg, observed, total, free, scanStart, overQuota>>
        /\ cand' \subseteq cand /\ cand \subseteq Seg
    BY <1>1 DEF SkipCandidate, RecheckCandidate, UnlinkRefused, LoopDone, fileVars, scanVars,
       pruneVars,
                WorkerTypeOK
  <1>3. \A s \in Seg :
          \/ obs'[s] = obs[s]
          \/ obs'[s] = NoObs /\ ~SameSignature(obs[s], s)
    BY <1>1 DEF SkipCandidate, RecheckCandidate, UnlinkRefused, LoopDone, WorkerTypeOK
  <1>4. NoObs.known = FALSE /\ NoObs.gen = 0 /\ NoObs.from = 0
    BY DEF NoObs, Observation
  <1>5. ScanSees' /\ ScanObserves'
    BY <1>2 DEF ScanSees, ScanObserves
  <1>6. CommittedSees'
    <2> SUFFICES ASSUME scanGen # 0, NEW s \in Seg, Exists(s)
                 PROVE  SameSignature(obs'[s], s) \/ lastWrite[s] >= baseStart
      BY <1>2 DEF CommittedSees, SameSignature, Exists
    <2>1. QED
      BY <1>1, <1>3 DEF DeletionInv, CommittedSees
  <1>7. LoopObserves'
    BY <1>1, <1>2, <1>3 DEF DeletionInv, LoopObserves
  <1>8. GenerationsSound'
    BY <1>1, <1>2, <1>3, <1>4 DEF DeletionInv, GenerationsSound, StartsOrdered, WorkerTypeOK, Locals
  <1>9. LaterWritten(obs)' /\ LaterWritten(observed)'
    BY <1>1, <1>2, <1>3, <1>4 DEF DeletionInv, LaterWritten
  <1>10. Spared'
    <2>1. Doomed' \subseteq Doomed /\ Doomed \subseteq Seg
      BY <1>1, <1>2 DEF SkipCandidate, RecheckCandidate, UnlinkRefused, LoopDone, Doomed, IInv,
         InHandSound,
                        scanVars
    <2>2. \A d, t \in Seg : Safe(d, t) => Safe(d, t)'
      BY <1>2, <2>1 DEF Safe, Exists
    <2>3. QED
      BY <1>1, <1>2, <2>1, <2>2 DEF DeletionInv, Spared
  <1>11. TotalSound'
    <2>1. ReadSize' = ReadSize
      BY <1>2 DEF ReadSize, Exists
    <2>2. QED
      BY <1>1, <1>2, <2>1 DEF DeletionInv, TotalSound
  <1>12. ReasonSound'
    <2> SUFFICES ASSUME pc' = "unlink" PROVE ReasonSound'
      BY DEF ReasonSound
    <2>1. RecheckCandidate
      BY <1>2 DEF SkipCandidate, RecheckCandidate, UnlinkRefused, LoopDone
    <2>2. PICK c \in cand : /\ Wanted(c) /\ Recheck(c) /\ inHand' = c /\ heldSize' = size[c]
                            /\ cand' = cand \ {c} /\ checkedAt' = mono
      BY <2>1 DEF RecheckCandidate
    <2>3. /\ pc = "loop" /\ c \in Seg
      BY <1>2, <2>1 DEF RecheckCandidate
    <2>4. /\ obs[c] = observed[c] /\ obs[c].known /\ size[c] = observed[c].size
          /\ lastWrite[c] <= observed[c].since
          /\ mono \in Nat /\ lastWrite[c] \in Nat /\ observed[c].since \in Nat
      BY <1>1, <1>4, <2>2, <2>3 DEF Recheck, SameSignature, DeletionInv, LoopObserves, IInv,
         ObservationsSound,
                                    Sound, WorkerTypeOK, ObservationSet
    <2>5. policy.retention \in Nat
      BY <1>1, PoliciesAssumption DEF Locals, PoliciesAssumption
    <2>6. CASE Expired(observed[c].since)
      <3>1. policy.retention > 0 /\ mono - lastWrite[c] >= policy.retention
        BY <2>4, <2>5, <2>6 DEF Expired
      <3>2. QED
        BY <1>2, <2>2, <2>4, <3>1 DEF ReasonSound
    <2>7. CASE total > Target \/ free < policy.minFree
      BY <1>2, <2>2, <2>4, <2>7 DEF ReasonSound, Target
    <2>8. QED
      BY <2>2, <2>6, <2>7 DEF Wanted
  <1>13. DirectoryKeepsOne'
    BY <1>1, <1>2 DEF DeletionInv, DirectoryKeepsOne, FilesOf, Exists
  <1>14. QED
    BY <1>5, <1>6, <1>7, <1>8, <1>9, <1>10, <1>11, <1>12, <1>13 DEF DeletionInv

\* A segment is removed: one of its directory stays.
LEMMA UnlinkDeletion ==
    ASSUME DInv, WorkerTypeOK', Unlink PROVE DeletionInv'
  <1>1. WorkerTypeOK /\ Locals /\ DeletionInv /\ IInv
    BY DEF DInv, IInv
  <1>2. /\ pc = "unlink" /\ pc' = "loop" /\ state[inHand] = "closed" /\ inHand \in Seg
        /\ state' = [state EXCEPT ![inHand] = "deleted"] /\ total' = total - heldSize
        /\ UNCHANGED <<mono, policy, obs, scanGen, baseStart, size, mtime, lastWrite>>
        /\ UNCHANGED <<curDir, curSeg, observed, cand, scanStart, overQuota, inHand, heldSize>>
        /\ Doomed' = cand /\ Doomed = cand \cup {inHand} /\ cand \subseteq Seg
    BY <1>1 DEF Unlink, IInv, InHandSound, Doomed, WorkerTypeOK
  <1>3. /\ Exists(inHand) /\ ~Exists(inHand)' /\ state'[inHand] = "deleted"
        /\ \A s \in Seg \ {inHand} : state'[s] = state[s] /\ (Exists(s)' <=> Exists(s))
    BY <1>1, <1>2 DEF Exists, WorkerTypeOK
  <1>4. ScanSees' /\ ScanObserves' /\ ReasonSound'
    BY <1>2 DEF ScanSees, ScanObserves, ReasonSound
  <1>5. CommittedSees'
    <2> SUFFICES ASSUME scanGen # 0, NEW s \in Seg, Exists(s)'
                 PROVE  SameSignature(obs[s], s) \/ lastWrite[s] >= baseStart
      BY <1>2 DEF CommittedSees, SameSignature
    <2>1. Exists(s)
      BY <1>3
    <2>2. QED
      BY <1>1, <2>1 DEF DeletionInv, CommittedSees
  <1>6. LoopObserves' /\ GenerationsSound' /\ LaterWritten(obs)' /\ LaterWritten(observed)'
    BY <1>1, <1>2 DEF DeletionInv, LoopObserves, GenerationsSound, StartsOrdered, LaterWritten
  <1>7. \A d \in Doomed : \A t \in Seg : Safe(d, t) => Safe(d, t)' /\ t # inHand
    BY <1>2, <1>3 DEF Safe
  <1>8. Spared'
    BY <1>1, <1>2, <1>7 DEF DeletionInv, Spared
  <1>9. TotalSound'
    <2>1. ReadSize \in [Seg -> Nat] /\ ReadSize' \in [Seg -> Nat]
      BY <1>1 DEF ReadSize, WorkerTypeOK, ObservationSet
    <2>2. heldSize = observed[inHand].size /\ observed[inHand].known
      BY <1>1, <1>2 DEF DeletionInv, ReasonSound, Spared
    <2>3. ReadSize[inHand] = heldSize /\ ReadSize'[inHand] = 0
      BY <1>2, <1>3, <2>2 DEF ReadSize
    <2>4. \A t \in Seg \ {inHand} : ReadSize'[t] = ReadSize[t]
      BY <1>2, <1>3 DEF ReadSize
    <2>5. Total(ReadSize') + heldSize = Total(ReadSize) + 0
      BY <1>2, <2>1, <2>3, <2>4, TotalChange
    <2>6. Total(ReadSize') \in Nat /\ Total(ReadSize) \in Nat /\ heldSize \in Nat /\ total \in Int
      BY <1>1, <2>1, TotalType DEF WorkerTypeOK, Locals
    <2>7. Total(ReadSize)' = Total(ReadSize')
      BY DEF Total
    <2>8. QED
      BY <1>1, <1>2, <2>5, <2>6, <2>7 DEF DeletionInv, TotalSound
  <1>10. DirectoryKeepsOne'
    <2> SUFFICES ASSUME NEW d \in Dir, NEW s \in Seg, DirOf[s] = d, state'[s] = "deleted"
                 PROVE  FilesOf(d)' # {}
      BY DEF DirectoryKeepsOne
    <2>1. CASE d = DirOf[inHand]
      <3>1. PICK t \in Seg : Safe(inHand, t)
        BY <1>1, <1>2 DEF DeletionInv, Spared
      <3>2. Safe(inHand, t)'
        BY <1>2, <1>7, <3>1
      <3>3. QED
        BY <1>2, <2>1, <3>2 DEF Safe, FilesOf
    <2>2. CASE d # DirOf[inHand]
      <3>1. s # inHand /\ state[s] = "deleted"
        BY <1>3, <2>2
      <3>2. PICK t \in FilesOf(d) : TRUE
        BY <1>1, <3>1 DEF DeletionInv, DirectoryKeepsOne
      <3>3. t \in FilesOf(d)'
        BY <1>3, <2>2, <3>2 DEF FilesOf
      <3>4. QED
        BY <3>3
    <2>3. QED
      BY <2>1, <2>2
  <1>11. QED
    BY <1>4, <1>5, <1>6, <1>8, <1>9, <1>10 DEF DeletionInv

\* The clock, requests, a new policy, and steps of nobody.
LEMMA OtherDeletion ==
    ASSUME DInv, \/ Tick \/ ConfigurePolicy \/ UNCHANGED vars
                 \/ \E d \in Asked : RecordingProgress(d)
    PROVE  DeletionInv'
  <1>1. /\ UNCHANGED <<obs, scanGen, baseStart, state, size, mtime, lastWrite, pc>>
        /\ UNCHANGED <<curDir, curSeg, observed, total, free, cand, scanStart, overQuota, inHand,
                       heldSize, checkedAt>>
        /\ mono' \in Nat /\ mono <= mono' /\ mono \in Nat /\ baseStart \in Nat /\ scanStart \in Nat
        /\ policy' = policy \/ pc = "idle"
    BY DEF DInv, IInv, WorkerTypeOK, Locals, Tick, ConfigurePolicy, vars, RecordingProgress,
       fileVars,
           scanVars, pruneVars
  <1>2. DeletionInv
    BY DEF DInv
  <1>3. GenerationsSound'
    BY <1>1, <1>2 DEF DeletionInv, GenerationsSound, StartsOrdered
  <1>4. /\ ScanSees' /\ CommittedSees' /\ ScanObserves' /\ LoopObserves' /\ LaterWritten(obs)'
        /\ LaterWritten(observed)' /\ DirectoryKeepsOne'
    BY <1>1, <1>2 DEF DeletionInv, ScanSees, Passed, CommittedSees, SameSignature, Exists,
       ScanObserves,
                      ObservedKept, ObservedNow, LoopObserves, LaterWritten, DirectoryKeepsOne, FilesOf
  <1>5. Spared' /\ TotalSound' /\ ReasonSound'
    <2>1. ReadSize' = ReadSize /\ Doomed' = Doomed
      BY <1>1 DEF ReadSize, Exists, Doomed
    <2>2. Spared'
      BY <1>1, <1>2, <2>1 DEF DeletionInv, Spared, Safe, Exists
    <2>3. TotalSound'
      BY <1>1, <1>2, <2>1 DEF DeletionInv, TotalSound
    <2>4. ReasonSound'
      BY <1>1, <1>2 DEF DeletionInv, ReasonSound, Target
    <2>5. QED
      BY <2>2, <2>3, <2>4
  <1>6. QED
    BY <1>3, <1>4, <1>5 DEF DeletionInv

\* Every step keeps what the deletions rest on.
LEMMA DInvStep == ASSUME DInv, [Next]_vars PROVE DInv'
  <1>1. IInv'
    BY RecorderIInv, ScanningIInv, PruningIInv, OtherIInv DEF DInv, Next, Recorder
  <1>2. CASE Next
    <2>1. Locals' /\ WorkerTypeOK'
      BY <1>1, <1>2, LocalsStep DEF DInv, IInv
    <2>2. DeletionInv'
      BY <1>2, <2>1, RecorderDeletion, ScanStartDeletion, ScanFileDeletion, DirectoryDeletion,
         CommitDeletion,
         AbandonDeletion, CandidateDeletion, UnlinkDeletion, OtherDeletion
         DEF Next, Recorder, Scanning, Pruning
    <2>3. QED
      BY <1>1, <2>1, <2>2 DEF DInv
  <1>3. CASE UNCHANGED vars
    <2>1. DeletionInv'
      BY <1>3, OtherDeletion
    <2>2. Locals'
      BY <1>3 DEF DInv, Locals, vars, scanVars, pruneVars
    <2>3. QED
      BY <1>1, <2>1, <2>2 DEF DInv
  <1>4. QED
    BY <1>2, <1>3

\* Only the removal of the segment in hand deletes.
LEMMA OnlyUnlinkDeletes ==
    ASSUME DInv, Next, NEW s \in Seg, state[s] # "deleted", state'[s] = "deleted"
    PROVE  Unlink /\ s = inHand
  <1> USE DEF fileVars
  <1>0. state \in [Seg -> {"none", "open", "closed", "deleted"}]
    BY DEF DInv, IInv, WorkerTypeOK
  <1>1. Recorder => FALSE
    BY <1>0 DEF Recorder, OpenSegment, Grow, CloseSegment
  <1>2. Scanning => FALSE
    BY <1>0 DEF Scanning, ScanStart, ScanFile, ScanDirectoryEnd, ScanCommit, ScanAbort
  <1>3. SkipCandidate \/ RecheckCandidate \/ UnlinkRefused \/ LoopAbort \/ LoopDone => FALSE
    BY <1>0 DEF SkipCandidate, RecheckCandidate, UnlinkRefused, LoopAbort, LoopDone
  <1>4. Tick \/ ConfigurePolicy \/ Restart \/ (\E d \in Asked : RecordingProgress(d)) => FALSE
    BY <1>0 DEF Tick, ConfigurePolicy, Restart, RecordingProgress
  <1>5. Unlink => s = inHand
    BY <1>0 DEF Unlink
  <1>6. QED
    BY <1>1, <1>2, <1>3, <1>4, <1>5 DEF Next, Pruning

\* What a step deletes, it deletes for a reason, and later footage stays.
LEMMA DeletionJustified ==
    ASSUME DInv, DInv', Next
    PROVE  RetentionHonoured /\ LatestFootageKept /\ DirectoryKeepsOne'
  <1>1. DirectoryKeepsOne'
    BY DEF DInv, DeletionInv
  <1>2. ASSUME NEW s \in Seg, state[s] # "deleted", state'[s] = "deleted"
        PROVE  \/ /\ policy.retention > 0
                  /\ \/ checkedAt - lastWrite[s] >= policy.retention
                     \/ size[s] # heldSize
               \/ Used > (policy.max * 9) \div 10
               \/ free < policy.minFree
    <2>1. pc = "unlink" /\ s = inHand
      BY <1>2, OnlyUnlinkDeletes DEF Unlink
    <2>2. CASE total > Target
      <3>1. total <= Total(ReadSize) /\ Total(ReadSize) <= Used /\ Total(ReadSize) \in Nat
        BY <2>1, ReadSizeSound DEF DInv, DeletionInv, TotalSound
      <3>2. total \in Int /\ policy.max \in Nat
        BY PoliciesAssumption DEF DInv, Locals, PoliciesAssumption
      <3>3. (policy.max * 9) \div 10 \in Int /\ (policy.max * 9) \div 10 <= Target
        BY <3>2 DEF Target
      <3>4. Used \in Int
        BY UsedType DEF DInv, IInv
      <3>5. Target \in Int
        BY <3>2, <3>3 DEF Target
      <3>6. QED
        BY <2>2, <3>1, <3>2, <3>3, <3>4, <3>5
    <2>3. QED
      BY <2>1, <2>2 DEF DInv, DeletionInv, ReasonSound
  <1>3. ASSUME NEW s \in Seg, state[s] # "deleted", state'[s] = "deleted",
               NEW t \in Seg, DirOf[t] = DirOf[s], obs[t].gen > 0
        PROVE  \E u \in FilesOf(DirOf[s]) \ {s} : lastWrite[u] >= obs[s].from
    <2>1. pc = "unlink" /\ s = inHand /\ s \in Doomed
      BY <1>3, OnlyUnlinkDeletes DEF Unlink, Doomed
    <2>2. \A u \in Seg : obs[u] = observed[u] \/ obs[u] = NoObs
      BY <2>1 DEF DInv, DeletionInv, LoopObserves
    <2>3. NoObs.gen = 0 /\ NoObs.from = 0
      BY DEF NoObs, Observation
    <2>4. observed[t].gen # 0
      BY <1>3, <2>2, <2>3
    <2>5. PICK u \in Seg : Safe(s, u) /\ observed[s].gen < observed[u].gen
      BY <1>3, <2>1, <2>4 DEF DInv, DeletionInv, Spared
    <2>6. lastWrite[u] >= observed[s].from
      BY <2>1, <2>5 DEF DInv, DeletionInv, LaterWritten, Safe, Spared
    <2>7. u # s /\ u \in FilesOf(DirOf[s])
      BY <2>1, <2>5 DEF Safe, FilesOf
    <2>8. lastWrite[u] \in Nat
      BY DEF DInv, IInv, WorkerTypeOK
    <2>9. lastWrite[u] >= obs[s].from
      BY <2>2, <2>3, <2>6, <2>8
    <2>10. QED
      BY <2>7, <2>9
  <1>4. QED
    BY <1>1, <1>2, <1>3 DEF RetentionHonoured, LatestFootageKept

\* In the instance with one camera the worker keeps what its deletions rest on.
THEOREM DeletionInvariant == PartSpec => [](part = "retention" => DInv)
  <1>1. PartInit => (part = "retention" => DInv)
    BY InitDInv DEF PartInit
  <1>2. (part = "retention" => DInv) /\ [PartNext]_<<part, vars>> => (part = "retention" => DInv)'
    <2>1. [PartNext]_<<part, vars>> /\ (part = "retention")' => part = "retention" /\ [Next]_vars
      BY DEF PartNext
    <2>2. QED
      BY <2>1, DInvStep
  <1>3. QED
    BY <1>1, <1>2, PTL DEF PartSpec

\* Every deletion has a configured reason, leaves the latest footage and leaves a file,
\* for any cameras, segments, policies and clocks.
THEOREM DeletionsStayJustified == PartSpec => DeletionsJustified
  <1>1. PartSpec => [](part = "retention" => DInv)
    BY DeletionInvariant
  <1>2. /\ part = "retention" => DInv
        /\ (part = "retention" => DInv)'
        /\ [PartNext]_<<part, vars>>
        => [part = "retention" /\ state' # state =>
              RetentionHonoured /\ LatestFootageKept /\ DirectoryKeepsOne']_vars
    <2>1. [PartNext]_<<part, vars>> /\ part = "retention" => part' = "retention" /\ [Next]_vars
      BY DEF PartNext
    <2>2. UNCHANGED vars => state' = state
      BY DEF vars, fileVars
    <2>3. QED
      BY <2>1, <2>2, DeletionJustified
  <1>3. QED
    BY <1>1, <1>2, PTL DEF PartSpec, DeletionsJustified

-----------------------------------------------------------------------------
(* What is left of a sequence of names.                                    *)

\* The first n names without those in D, for each n up to m.
Rests(names, D, X, m, f) ==
    /\ f \in [0..m -> Seq(X)] /\ f[0] = <<>>
    /\ \A n \in 1..m : f[n] = IF names[n] \in D THEN f[n - 1] ELSE Append(f[n - 1], names[n])

\* There are such rests.
LEMMA RestsExist ==
  ASSUME NEW X, NEW names \in Seq(X), NEW D
  PROVE  \E f : Rests(names, D, X, Len(names), f)
  <1> DEFINE T == {n \in Nat : n <= Len(names) => \E f : Rests(names, D, X, n, f)}
  <1>0. Len(names) \in Nat
    OBVIOUS
  <1>1. 0 \in T
    <2>1. Rests(names, D, X, 0, [k \in 0..0 |-> <<>>])
      <3>1. <<>> \in Seq(X)
        OBVIOUS
      <3>2. QED
        BY <3>1 DEF Rests
    <2>2. QED
      BY <2>1
  <1>2. ASSUME NEW n \in Nat, n \in T PROVE n + 1 \in T
    <2> SUFFICES ASSUME n + 1 <= Len(names) PROVE \E f : Rests(names, D, X, n + 1, f)
      OBVIOUS
    <2>1. PICK f : Rests(names, D, X, n, f)
      BY <1>0, <1>2
    <2> DEFINE e == IF names[n + 1] \in D THEN f[n] ELSE Append(f[n], names[n + 1])
               g == [k \in 0..(n + 1) |-> IF k <= n THEN f[k] ELSE e]
    <2>2. e \in Seq(X)
      <3>1. names[n + 1] \in X /\ f[n] \in Seq(X)
        BY <1>0, <2>1 DEF Rests
      <3>2. QED
        BY <3>1
    <2> HIDE DEF e
    <2>3. g \in [0..(n + 1) -> Seq(X)] /\ g[0] = <<>>
      BY <2>1, <2>2 DEF Rests
    <2>4. ASSUME NEW k \in 1..(n + 1)
          PROVE  g[k] = IF names[k] \in D THEN g[k - 1] ELSE Append(g[k - 1], names[k])
      <3>1. CASE k <= n
        <4>1. k \in 1..n /\ g[k] = f[k] /\ g[k - 1] = f[k - 1]
          BY <3>1
        <4>2. QED
          BY Zenon, <2>1, <4>1 DEF Rests
      <3>2. CASE k = n + 1
        <4>1. g[k] = e /\ g[k - 1] = f[n]
          BY <3>2
        <4>2. QED
          BY Zenon, <3>2, <4>1 DEF e
      <3>3. QED
        BY <3>1, <3>2
    <2> HIDE DEF g
    <2>5. QED
      BY Zenon, <2>3, <2>4 DEF Rests
  <1> HIDE DEF T
  <1>3. Nat \subseteq T
    BY <1>1, <1>2, EveryNatural
  <1>4. QED
    BY <1>0, <1>3 DEF T

\* Without is the last of the rests.
LEMMA WithoutIsRest ==
  ASSUME NEW X, NEW names \in Seq(X), NEW D
  PROVE  \E f : Rests(names, D, X, Len(names), f) /\ Without(names, D) = f[Len(names)]
  <1> DEFINE Eqn(g) == g = [n \in 0..Len(names) |->
                              IF n = 0 THEN <<>>
                              ELSE IF names[n] \in D THEN g[n - 1] ELSE Append(g[n - 1], names[n])]
             F == CHOOSE g : Eqn(g)
             m == Len(names)
  <1>0. m \in Nat
    OBVIOUS
  <1>1. PICK f : Rests(names, D, X, m, f)
    BY RestsExist
  <1>2. Eqn(f)
    <2>1. f = [n \in 0..m |-> f[n]]
      BY <1>1 DEF Rests
    <2>2. ASSUME NEW n \in 0..m
          PROVE  f[n] = IF n = 0 THEN <<>>
                        ELSE IF names[n] \in D THEN f[n - 1] ELSE Append(f[n - 1], names[n])
      <3>1. n = 0 \/ n \in 1..m
        BY <1>0
      <3>2. QED
        BY Zenon, <1>1, <3>1 DEF Rests
    <2>3. QED
      BY Zenon, <2>1, <2>2
  <1>3. Eqn(F)
    BY <1>2, Zenon
  <1>4. Without(names, D) = F[m]
    BY Zenon DEF Without
  <1>5. \A n \in 0..m : F[n] = IF n = 0 THEN <<>>
                               ELSE IF names[n] \in D THEN F[n - 1] ELSE Append(F[n - 1], names[n])
    BY Zenon, <1>3
  <1> HIDE DEF F
  <1>6. F[m] = f[m]
    <2> DEFINE T == {n \in Nat : n <= m => F[n] = f[n]}
    <2>1. 0 \in T
      BY <1>0, <1>1, <1>5 DEF Rests
    <2>2. ASSUME NEW n \in Nat, n \in T PROVE n + 1 \in T
      <3> SUFFICES ASSUME n + 1 <= m PROVE F[n + 1] = f[n + 1]
        OBVIOUS
      <3>1. n + 1 \in 1..m /\ n + 1 \in 0..m /\ n + 1 # 0 /\ (n + 1) - 1 = n /\ F[n] = f[n]
        BY <1>0, <2>2
      <3>2. F[n + 1] = IF names[n + 1] \in D THEN F[n] ELSE Append(F[n], names[n + 1])
        BY Zenon, <1>5, <3>1
      <3>3. f[n + 1] = IF names[n + 1] \in D THEN f[n] ELSE Append(f[n], names[n + 1])
        BY Zenon, <1>1, <3>1 DEF Rests
      <3>4. QED
        BY Zenon, <3>1, <3>2, <3>3
    <2> HIDE DEF T
    <2>3. Nat \subseteq T
      BY <2>1, <2>2, EveryNatural
    <2>4. QED
      BY <1>0, <2>3 DEF T
  <1>7. QED
    BY Zenon, <1>1, <1>4, <1>6

\* What is left is made of the names, and is shorter just when one of them is left out.
LEMMA WithoutSound ==
  ASSUME NEW X, NEW names \in Seq(X), NEW D
  PROVE  /\ Without(names, D) \in Seq(X) /\ Len(Without(names, D)) <= Len(names)
         /\ (\A i \in 1..Len(names) : names[i] \notin D) => Len(Without(names, D)) = Len(names)
         /\ (\E i \in 1..Len(names) : names[i] \in D) => Len(Without(names, D)) < Len(names)
  <1> DEFINE m == Len(names)
  <1>0. m \in Nat
    OBVIOUS
  <1>1. PICK f : Rests(names, D, X, m, f) /\ Without(names, D) = f[m]
    BY WithoutIsRest
  <1> DEFINE T == {n \in Nat : n <= m =>
                     /\ Len(f[n]) <= n
                     /\ (\A i \in 1..n : names[i] \notin D) => Len(f[n]) = n
                     /\ (\E i \in 1..n : names[i] \in D) => Len(f[n]) < n}
  <1>2. 0 \in T
    BY <1>0, <1>1 DEF Rests
  <1>3. ASSUME NEW n \in Nat, n \in T PROVE n + 1 \in T
    <2> SUFFICES ASSUME n + 1 <= m PROVE n + 1 \in T
      OBVIOUS
    <2>1. n + 1 \in 1..m /\ n \in 0..m /\ (n + 1) - 1 = n
      BY <1>0
    <2>2. f[n] \in Seq(X) /\ names[n + 1] \in X
      <3>1. f[n] \in Seq(X)
        BY <1>1, <2>1 DEF Rests
      <3>2. names[n + 1] \in X
        BY <2>1, ElementOfSeq
      <3>3. QED
        BY <3>1, <3>2
    <2>3. Len(f[n]) \in Nat
      BY <2>2
    <2>4. f[n + 1] = IF names[n + 1] \in D THEN f[n] ELSE Append(f[n], names[n + 1])
      BY Zenon, <1>1, <2>1 DEF Rests
    <2>5. Len(f[n + 1]) = IF names[n + 1] \in D THEN Len(f[n]) ELSE Len(f[n]) + 1
      BY <2>2, <2>4
    <2>6. \A i \in 1..(n + 1) : i \in 1..n \/ i = n + 1
      OBVIOUS
    <2>7. n + 1 \in 1..(n + 1) /\ 1..n \subseteq 1..(n + 1)
      OBVIOUS
    <2>8. /\ Len(f[n]) <= n
          /\ (\A i \in 1..n : names[i] \notin D) => Len(f[n]) = n
          /\ (\E i \in 1..n : names[i] \in D) => Len(f[n]) < n
      BY <1>0, <1>3, <2>1
    <2>9. CASE names[n + 1] \in D
      BY <2>3, <2>5, <2>7, <2>8, <2>9
    <2>10. CASE names[n + 1] \notin D
      <3>1. Len(f[n + 1]) = Len(f[n]) + 1
        BY <2>5, <2>10
      <3>2. (\E i \in 1..(n + 1) : names[i] \in D) => \E i \in 1..n : names[i] \in D
        BY Zenon, <2>6, <2>10
      <3>3. (\A i \in 1..(n + 1) : names[i] \notin D) => \A i \in 1..n : names[i] \notin D
        BY Zenon, <2>7
      <3>4. QED
        BY <2>3, <2>8, <3>1, <3>2, <3>3
    <2>11. QED
      BY <2>9, <2>10
  <1> HIDE DEF T
  <1>4. m \in T
    BY <1>0, <1>2, <1>3, EveryNatural
  <1>5. Without(names, D) \in Seq(X)
    BY <1>0, <1>1 DEF Rests
  <1>6. /\ Len(f[m]) <= m
        /\ (\A i \in 1..m : names[i] \notin D) => Len(f[m]) = m
        /\ (\E i \in 1..m : names[i] \in D) => Len(f[m]) < m
    BY <1>0, <1>4 DEF T
  <1>7. QED
    BY Zenon, <1>1, <1>5, <1>6

-----------------------------------------------------------------------------
(* The bounded cache of progress.                                          *)

\* A new name moves to the end, and the oldest makes room for it.
LEMMA NominateSound ==
  ASSUME NEW d \in Polled, slots \in Seq(1..Cameras), Len(slots) <= Places
  PROVE  Progress!Nominate(d) \in Seq(1..Cameras) /\ Len(Progress!Nominate(d)) <= Places
  <1> DEFINE rest == Without(slots, {d})
  <1>1. d \in 1..Cameras /\ Places \in Nat /\ Places > 0
    BY CamerasAssumption DEF CamerasAssumption
  <1>2. rest = Progress!Without(slots, {d})
    BY Zenon DEF Without, Progress!Without
  <1>3. /\ rest \in Seq(1..Cameras) /\ Len(rest) <= Len(slots)
        /\ (\A i \in 1..Len(slots) : slots[i] \notin {d}) => Len(rest) = Len(slots)
        /\ (\E i \in 1..Len(slots) : slots[i] \in {d}) => Len(rest) < Len(slots)
    BY WithoutSound
  <1>4. Range(slots) = {slots[i] : i \in 1..Len(slots)}
    BY DEF Range
  <1> HIDE DEF rest
  <1>5. Len(rest) \in Nat /\ Len(slots) \in Nat
    BY <1>3
  <1>6. Progress!Nominate(d) = IF d \notin Range(slots) /\ Len(slots) >= Places
                               THEN Append(Tail(rest), d) ELSE Append(rest, d)
    BY <1>2 DEF Progress!Nominate, Range, Progress!Range
  <1>7. CASE d \notin Range(slots) /\ Len(slots) >= Places
    <2>1. Len(rest) = Len(slots)
      BY <1>3, <1>4, <1>7
    <2>2. rest # <<>>
      BY <1>1, <1>5, <1>7, <2>1
    <2>3. Tail(rest) \in Seq(1..Cameras) /\ Len(Tail(rest)) = Len(rest) - 1
      BY <1>3, <2>2, HeadTailProperties
    <2>4. QED
      BY <1>1, <1>5, <1>6, <1>7, <2>1, <2>3
  <1>8. CASE d \notin Range(slots) /\ ~(Len(slots) >= Places)
    BY <1>1, <1>3, <1>5, <1>6, <1>8
  <1>9. CASE d \in Range(slots)
    <2>1. Len(rest) < Len(slots)
      BY <1>3, <1>4, <1>9
    <2>2. QED
      BY <1>1, <1>3, <1>5, <1>6, <1>9, <2>1
  <1>10. QED
    BY <1>7, <1>8, <1>9

\* The names a scan adds come after those asked for, as many as there is room for.
LEMMA MergedSound ==
  ASSUME NEW old \in Seq(1..Cameras), NEW new \in Seq(1..Cameras), Len(old) <= Places
  PROVE  /\ Progress!MergedSlots(old, new) \in Seq(1..Cameras)
         /\ Len(Progress!MergedSlots(old, new)) <= Places
         /\ Range(old) \subseteq Range(Progress!MergedSlots(old, new))
  <1> DEFINE extra == Without(new, Range(old))
             room == Places - Len(old)
             k == IF Len(extra) < room THEN Len(extra) ELSE room
             added == SubSeq(extra, 1, k)
  <1>1. extra = Progress!Without(new, Progress!Range(old))
    BY Zenon DEF Without, Progress!Without, Range, Progress!Range
  <1>2. extra \in Seq(1..Cameras)
    BY WithoutSound
  <1>3. Progress!MergedSlots(old, new) = old \o added
    BY Zenon, <1>1 DEF Progress!MergedSlots
  <1> HIDE DEF extra
  <1>4. Places \in Nat /\ Len(old) \in Nat /\ Len(extra) \in Nat
    BY <1>2, CamerasAssumption DEF CamerasAssumption
  <1>5. room \in Nat /\ k \in Nat /\ k <= room /\ k <= Len(extra)
    BY <1>4
  <1> HIDE DEF k
  <1>6. added \in Seq(1..Cameras) /\ Len(added) = k
    <2>1. \A i \in 1..k : i \in 1..Len(extra)
      BY <1>4, <1>5
    <2>2. \A i \in 1..k : extra[i] \in 1..Cameras
      BY <1>2, <2>1, ElementOfSeq
    <2>3. QED
      BY <1>5, <2>2, SubSeqProperties
  <1> HIDE DEF added
  <1>7. /\ old \o added \in Seq(1..Cameras)
        /\ Len(old \o added) = Len(old) + k
    BY <1>6, ConcatProperties
  <1>7a. Range(old \o added) = Range(old) \cup Range(added)
    BY Zenon, <1>6, RangeConcatenation
  <1>8. QED
    BY <1>3, <1>4, <1>5, <1>7, <1>7a

-----------------------------------------------------------------------------
(* Reported progress.                                                      *)

\* The blank observations and samples, and the sets the constants range over.
LEMMA CameraFacts ==
  /\ Progress!Seg = Seg /\ Progress!Dir = 1..Cameras /\ 1 \in Progress!Dir
  /\ 0 \in 0..NumSegs /\ NumSegs \in Nat
  /\ CameraOf \in [Progress!Seg -> Progress!Dir] /\ Cameras \in Nat
  /\ \A s \in Progress!Seg : s \in Nat /\ s > 0 /\ CameraOf[s] \in Nat /\ CameraOf[s] > 0 /\ CameraOf[s] <= Cameras
  /\ Progress!NoObs \in Progress!ObservationSet /\ Progress!NoObs.known = FALSE
  /\ Progress!NoObservations \in [Progress!Seg -> Progress!ObservationSet]
  /\ \A s \in Progress!Seg : Progress!NoObservations[s] = Progress!NoObs
  /\ Progress!PathProgress \in Progress!SampleSet /\ Progress!PathProgress.seen = FALSE
  /\ Progress!PathProgress.last = -1
  /\ Progress!NoSamples \in [Progress!Dir -> Progress!SampleSet] /\ \A d \in Progress!Dir : Progress!NoSamples[d] = Progress!PathProgress
  <1>1. /\ Progress!Seg = Seg /\ Progress!Dir = 1..Cameras /\ 1 \in Progress!Dir
        /\ 0 \in 0..NumSegs /\ NumSegs \in Nat
        /\ CameraOf \in [Progress!Seg -> Progress!Dir] /\ Cameras \in Nat
    BY SizesAssumption, CamerasAssumption DEF SizesAssumption, CamerasAssumption, Progress!Seg,
       Seg, Progress!Dir
  <1>2. \A s \in Progress!Seg : s \in Nat /\ s > 0 /\ CameraOf[s] \in Nat /\ CameraOf[s] > 0 /\ CameraOf[s] <= Cameras
    BY <1>1 DEF Progress!Seg, Progress!Dir
  <1>3. Progress!NoObs \in Progress!ObservationSet /\ Progress!NoObs.known = FALSE
    BY DEF Progress!NoObs, Progress!Observation, Progress!ObservationSet
  <1>4. Progress!PathProgress \in Progress!SampleSet /\ Progress!PathProgress.seen = FALSE /\ Progress!PathProgress.last = -1
    BY DEF Progress!PathProgress, Progress!SampleSet, Progress!NoFiles
  <1>5. QED
    BY <1>1, <1>2, <1>3, <1>4 DEF Progress!NoObservations, Progress!NoSamples

\* The free space is a number.
LEMMA VolumeType == Progress!WorkerTypeOK => Progress!FreeBytes \in Int
  <1> SUFFICES ASSUME Progress!WorkerTypeOK PROVE Progress!FreeBytes \in Int
    OBVIOUS
  <1> DEFINE w == [s \in Progress!Seg |-> IF s \in {t \in Progress!Seg : Progress!Exists(t)} THEN size[s] ELSE 0]
  <1>1. w \in [Seg -> Nat]
    BY CameraFacts DEF Progress!WorkerTypeOK
  <1>2. Progress!Used = Progress!Total(w)
    BY DEF Progress!Used, Progress!Bytes
  <1> HIDE DEF w
  <1>3. Progress!Total(w) = Total(w)
    BY Zenon DEF Progress!Total, Total
  <1>4. Total(w) \in Nat
    BY <1>1, TotalType
  <1>5. QED
    BY <1>2, <1>3, <1>4, CamerasAssumption DEF Progress!FreeBytes, CamerasAssumption

\* The files, the clocks and the worker keep their types.
LEMMA ProgressWorkerTypes == ASSUME Progress!TypeOK, Progress!Next PROVE Progress!WorkerTypeOK'
  <1> USE DEF Progress!WorkerTypeOK, Progress!fileVars, Progress!scanVars, Progress!pruneVars,
              Progress!deletedVars, Progress!progressVars
  <1>0. /\ Progress!WorkerTypeOK /\ 0 \in 0..NumSegs
        /\ Progress!Seg \subseteq 0..NumSegs /\ Readings \subseteq Nat
        /\ Progress!NoObs \in Progress!ObservationSet
        /\ Progress!NoObservations \in [Progress!Seg -> Progress!ObservationSet]
    <2>1. Progress!Seg \subseteq 0..NumSegs
      BY CameraFacts DEF Progress!Seg
    <2>2. Readings \subseteq Nat
      BY CamerasAssumption DEF CamerasAssumption
    <2>3. QED
      BY Zenon, CameraFacts, <2>1, <2>2 DEF Progress!TypeOK
  <1>1. ASSUME NEW s \in Progress!Seg, Progress!OpenSegment(s) PROVE Progress!WorkerTypeOK'
    BY <1>0, <1>1 DEF Progress!OpenSegment
  <1>2. ASSUME NEW s \in Progress!Seg, Progress!Grow(s) PROVE Progress!WorkerTypeOK'
    BY <1>0, <1>2 DEF Progress!Grow
  <1>3. ASSUME NEW s \in Progress!Seg, Progress!CloseSegment(s) PROVE Progress!WorkerTypeOK'
    BY <1>0, <1>3 DEF Progress!CloseSegment
  <1>4. CASE \/ Progress!Tick \/ Progress!ConfigurePolicy
             \/ \E d \in Polled : Progress!RecordingProgress(d)
    BY <1>0, <1>4 DEF Progress!Tick, Progress!ConfigurePolicy, Progress!RecordingProgress
  <1>5. ASSUME NEW m \in {"inspect", "prune", "final"}, Progress!ScanStart(m)
        PROVE  Progress!WorkerTypeOK'
    BY <1>0, <1>5 DEF Progress!ScanStart
  <1>6. CASE Progress!ScanFile
    <2>1. PICK s \in Progress!Seg : observed' = [observed EXCEPT ![s] = Progress!Observe(s)]
      BY <1>6 DEF Progress!ScanFile
    <2>2. Progress!Observe(s) \in Progress!ObservationSet
      BY <1>0 DEF Progress!Observe, Progress!Observation, Progress!ObservationSet
    <2>3. QED
      BY <1>0, <1>6, <2>1, <2>2 DEF Progress!ScanFile
  <1>7. CASE Progress!ScanDirectoryEnd
    <2>1. cand' \subseteq Progress!Seg
      BY <1>0, <1>7 DEF Progress!ScanDirectoryEnd, Progress!Segments
    <2>2. QED
      BY <1>0, <1>7, <2>1 DEF Progress!ScanDirectoryEnd
  <1>8. CASE Progress!ScanCommit
    <2>1. UNCHANGED <<state, size, mtime, lastWrite, mono, deletedAt, deletedSize>>
          /\ obs' = observed /\ scanGen' \in Nat
      BY <1>0, <1>8 DEF Progress!ScanCommit
    <2>2. CASE Progress!Return(Progress!Allowed)
      BY <1>0, <2>1, <2>2 DEF Progress!Return
    <2>3. CASE pc' = "loop" /\ UNCHANGED <<mode, Progress!scanVars, inHand, heldSize, checkedAt, recordingAllowed>>
      BY <1>0, <2>1, <2>3 DEF Progress!scanVars
    <2>4. QED
      BY <1>8, <2>2, <2>3 DEF Progress!ScanCommit, Progress!scanVars
  <1>9. CASE Progress!ScanAbort \/ Progress!LoopAbort \/ Progress!Restart
    <2>1. state' \in [Progress!Seg -> {"none", "open", "closed", "deleted"}]
      BY <1>0, <1>9 DEF Progress!ScanAbort, Progress!LoopAbort, Progress!Restart
    <2>2. /\ UNCHANGED <<size, mtime, lastWrite, mono, deletedAt, deletedSize>>
          /\ Progress!Return(FALSE) /\ (scanGen' = 0 \/ scanGen' = scanGen)
          /\ (obs' = Progress!NoObservations \/ obs' = obs)
      BY Zenon, <1>9 DEF Progress!ScanAbort, Progress!LoopAbort, Progress!Restart
    <2>3. obs' \in [Progress!Seg -> Progress!ObservationSet] /\ scanGen' \in Nat
      BY <1>0, <2>2
    <2>4. QED
      BY <1>0, <2>1, <2>2, <2>3 DEF Progress!Return
  <1>10. CASE Progress!SkipCandidate
    BY <1>0, <1>10 DEF Progress!SkipCandidate
  <1>11. CASE Progress!RecheckCandidate
    BY <1>0, <1>11 DEF Progress!RecheckCandidate
  <1>12. CASE Progress!UnlinkRefused \/ Progress!LoopDone
    BY <1>0, <1>12 DEF Progress!UnlinkRefused, Progress!LoopDone
  <1>13. CASE Progress!Unlink
    BY <1>0, <1>13 DEF Progress!Unlink
  <1>14. QED
    BY <1>1, <1>2, <1>3, <1>4, <1>5, <1>6, <1>7, <1>8, <1>9, <1>10, <1>11, <1>12, <1>13
       DEF Progress!Next, Progress!Recorder, Progress!Scanning, Progress!Pruning

\* What a scan tells of a directory is a sample.
LEMMA SampleType == Progress!TypeOK => Progress!DirectorySample \in Progress!SampleSet
  <1> SUFFICES ASSUME Progress!TypeOK PROVE Progress!DirectorySample \in Progress!SampleSet
    OBVIOUS
  <1>1. [s \in Progress!Seg |-> IF s \in Progress!Segments THEN observed[s].size ELSE -1] \in [Progress!Seg -> Int]
    BY DEF Progress!TypeOK, Progress!WorkerTypeOK, Progress!ObservationSet
  <1>2. (IF Progress!Progressed THEN mono
         ELSE IF Progress!Comparable /\ prevSample[curDir].last <= mono THEN prevSample[curDir].last ELSE -1) \in Int
    BY DEF Progress!TypeOK, Progress!WorkerTypeOK, Progress!CacheTypeOK, Progress!SampleSet
  <1>3. QED
    BY <1>1, <1>2 DEF Progress!DirectorySample, Progress!SampleSet

\* A call that returns leaves nothing of its scan.
LEMMA ReturnTypes ==
  ASSUME Progress!CacheTypeOK, NEW a \in BOOLEAN, Progress!Return(a), restarts' \in Nat, policy' \in Rules,
         slots' \in Seq(Progress!Dir), Len(slots') <= Places, sample' \in [Progress!Dir -> Progress!SampleSet],
         progressComplete' \in BOOLEAN, baseStart' \in Nat
  PROVE  Progress!CacheTypeOK'
  <1>1. /\ overQuota' \in BOOLEAN /\ recordingAllowed' \in BOOLEAN /\ prevComplete' \in BOOLEAN
        /\ mode' = "inspect" /\ curDir' = 1 /\ curSeg' = 0 /\ total' = 0 /\ free' = 0
        /\ prevSample' = Progress!NoSamples /\ tracked' = <<>> /\ newSample' = Progress!NoSamples
    <2>1. /\ overQuota' = FALSE /\ recordingAllowed' = a /\ prevComplete' = FALSE
          /\ mode' = "inspect" /\ curDir' = 1 /\ curSeg' = 0 /\ total' = 0 /\ free' = 0
          /\ prevSample' = Progress!NoSamples /\ tracked' = <<>> /\ newSample' = Progress!NoSamples
      BY Zenon DEF Progress!Return
    <2>2. QED
      BY Zenon, <2>1
  <1>2. tracked' \in Seq(Progress!Dir)
    BY <1>1
  <1>3. QED
    BY <1>1, <1>2, CameraFacts DEF Progress!CacheTypeOK

\* The cache and the locals of a scan keep their types; the cache its bound.
LEMMA ProgressCacheTypes ==
  ASSUME Progress!TypeOK, pc = "unlink" => inHand \in Progress!Seg, Progress!Next
  PROVE  Progress!CacheTypeOK'
  <1> USE DEF Progress!CacheTypeOK, Progress!fileVars, Progress!scanVars, Progress!pruneVars,
              Progress!deletedVars, Progress!progressVars
  <1>0. Progress!WorkerTypeOK /\ Progress!CacheTypeOK /\ Progress!FreeBytes \in Int
    BY VolumeType DEF Progress!TypeOK
  <1>1. ASSUME NEW s \in Progress!Seg, Progress!OpenSegment(s) \/ Progress!Grow(s) \/ Progress!CloseSegment(s)
        PROVE  Progress!CacheTypeOK'
    BY <1>0, <1>1 DEF Progress!OpenSegment, Progress!Grow, Progress!CloseSegment
  <1>2. CASE Progress!Tick \/ Progress!ConfigurePolicy
    BY <1>0, <1>2 DEF Progress!Tick, Progress!ConfigurePolicy
  <1>3. ASSUME NEW d \in Polled, Progress!RecordingProgress(d) PROVE Progress!CacheTypeOK'
    <2>1. slots' \in Seq(Progress!Dir) /\ Len(slots') <= Places
      BY <1>0, <1>3, NominateSound, CameraFacts DEF Progress!RecordingProgress
    <2>2. sample' \in [Progress!Dir -> Progress!SampleSet]
      BY <1>0, <1>3, CameraFacts DEF Progress!RecordingProgress
    <2>3. QED
      BY <1>0, <1>3, <2>1, <2>2 DEF Progress!RecordingProgress
  <1>4. ASSUME NEW m \in {"inspect", "prune", "final"}, Progress!ScanStart(m)
        PROVE  Progress!CacheTypeOK'
    <2>1. prevComplete' \in BOOLEAN
      BY Zenon, <1>0, <1>4 DEF Progress!ScanStart
    <2>2. QED
      BY <1>0, <1>4, <2>1, CameraFacts DEF Progress!ScanStart, Progress!WorkerTypeOK
  <1>5. CASE Progress!ScanFile
    <2>1. PICK s \in Progress!Seg : curSeg' = s /\ total' = total + size[s]
      BY <1>5 DEF Progress!ScanFile
    <2>2. curSeg' \in 0..NumSegs /\ total' \in Int
      BY <1>0, <2>1 DEF Progress!WorkerTypeOK, Progress!Seg
    <2>3. QED
      BY <1>0, <1>5, <2>2 DEF Progress!ScanFile
  <1>6. CASE Progress!ScanDirectoryEnd
    <2>1. newSample' \in [Progress!Dir -> Progress!SampleSet]
      BY <1>0, <1>6, SampleType DEF Progress!ScanDirectoryEnd
    <2>2. tracked' \in Seq(Progress!Dir)
      <3>1. curDir \in Progress!Dir /\ tracked \in Seq(Progress!Dir)
        BY <1>0
      <3>2. Append(tracked, curDir) \in Seq(Progress!Dir)
        BY <3>1
      <3>3. tracked' = tracked \/ tracked' = Append(tracked, curDir)
        BY Zenon, <1>6 DEF Progress!ScanDirectoryEnd
      <3>4. QED
        BY Zenon, <3>1, <3>2, <3>3
    <2>3. curDir' \in Progress!Dir /\ curSeg' \in 0..NumSegs
      BY <1>0, <1>6, CameraFacts DEF Progress!ScanDirectoryEnd
    <2>4. QED
      BY <1>0, <1>6, <2>1, <2>2, <2>3 DEF Progress!ScanDirectoryEnd
  <1>7. CASE Progress!ScanCommit
    <2>1. slots' \in Seq(Progress!Dir) /\ Len(slots') <= Places
      BY <1>0, <1>7, MergedSound, CameraFacts DEF Progress!ScanCommit, Progress!UpdatedSlots
    <2>2. sample' \in [Progress!Dir -> Progress!SampleSet]
      BY <1>0, <1>7, CameraFacts DEF Progress!ScanCommit
    <2>3. /\ restarts' = restarts /\ policy' = policy
          /\ progressComplete' = TRUE /\ baseStart' = scanStart
          /\ scanStart \in Nat
      BY <1>0, <1>7 DEF Progress!ScanCommit, Progress!WorkerTypeOK
    <2>4. Progress!Allowed \in BOOLEAN
      BY DEF Progress!Allowed
    <2>5. CASE Progress!Return(Progress!Allowed)
      BY <1>0, <2>1, <2>2, <2>3, <2>4, <2>5, ReturnTypes
    <2>6. CASE /\ overQuota' = (total > policy.max)
               /\ UNCHANGED <<mode, Progress!scanVars, inHand, heldSize, checkedAt, recordingAllowed>>
      <3>1. (total > policy.max) \in BOOLEAN
        OBVIOUS
      <3>2. overQuota' \in BOOLEAN /\ progressComplete' \in BOOLEAN
        BY Zenon, <2>3, <2>6, <3>1
      <3>3. QED
        BY <1>0, <2>1, <2>2, <2>3, <2>6, <3>2
    <2>7. QED
      BY <1>7, <2>5, <2>6 DEF Progress!ScanCommit
  <1>8. CASE Progress!ScanAbort \/ Progress!LoopAbort \/ Progress!Restart
    <2>1. /\ Progress!Return(FALSE) /\ (restarts' = restarts \/ restarts' = restarts + 1)
          /\ UNCHANGED <<policy, baseStart>>
          /\ sample' = Progress!NoSamples /\ (slots' = slots \/ slots' = <<>>)
      BY Zenon, <1>8 DEF Progress!ScanAbort, Progress!LoopAbort, Progress!Restart,
         Progress!InvalidateProgress
    <2>2. progressComplete' \in BOOLEAN
      <3>1. progressComplete' = FALSE
        BY Zenon, <1>8 DEF Progress!ScanAbort, Progress!LoopAbort, Progress!Restart,
           Progress!InvalidateProgress
      <3>2. QED
        BY Zenon, <3>1
    <2>3. slots' \in Seq(Progress!Dir) /\ Len(slots') <= Places
      <3>1. <<>> \in Seq(Progress!Dir) /\ Len(<<>>) = 0
        BY EmptySeq
      <3>2. Places \in Nat
        BY CamerasAssumption DEF CamerasAssumption
      <3>3. CASE slots' = slots
        BY <1>0, <3>3
      <3>4. CASE slots' = <<>>
        BY <3>1, <3>2, <3>4
      <3>5. QED
        BY <2>1, <3>3, <3>4
    <2>4. restarts' \in Nat /\ policy' \in Rules /\ baseStart' \in Nat /\ sample' \in [Progress!Dir -> Progress!SampleSet]
      BY <1>0, <2>1, CameraFacts
    <2>5. QED
      BY <1>0, <2>1, <2>2, <2>3, <2>4, ReturnTypes
  <1>9. CASE \/ Progress!SkipCandidate \/ Progress!RecheckCandidate
             \/ Progress!UnlinkRefused \/ Progress!LoopDone
    BY <1>0, <1>9 DEF Progress!SkipCandidate, Progress!RecheckCandidate, Progress!UnlinkRefused,
       Progress!LoopDone
  <1>10. CASE Progress!Unlink
    <2>1. heldSize \in Int /\ size[inHand] \in Int
      BY <1>0, <1>10 DEF Progress!Unlink, Progress!WorkerTypeOK
    <2>2. QED
      BY <1>0, <1>10, <2>1 DEF Progress!Unlink
  <1>11. QED
    BY <1>1, <1>2, <1>3, <1>4, <1>5, <1>6, <1>7, <1>8, <1>9, <1>10
       DEF Progress!Next, Progress!Recorder, Progress!Scanning, Progress!Pruning

\* A write never makes a sample wrong: it is later than the scan that took it.
LEMMA WritesAreProgress ==
  ASSUME Progress!ProgressInv, mono \in Nat, mono' \in Nat, mono <= mono',
         UNCHANGED <<pc, curDir, curSeg, observed, prevSample, newSample, prevComplete, baseStart,
                     scanStart, inHand, progressComplete>>,
         \A d \in Progress!Dir : sample'[d] = sample[d] \/ sample'[d] = Progress!PathProgress,
         \A t \in Progress!Seg :
           /\ Progress!Exists(t) => Progress!Exists(t)'
           /\ \/ lastWrite'[t] = mono
              \/ /\ Progress!Exists(t)' => Progress!Exists(t)
                 /\ size'[t] = size[t] /\ mtime'[t] = mtime[t] /\ lastWrite'[t] = lastWrite[t]
  PROVE  Progress!ProgressSound'
  <1> USE DEF Progress!ProgressInv, Progress!ProgressSound
  <1>1. /\ scanStart <= mono /\ baseStart <= mono /\ scanStart \in Nat /\ baseStart \in Nat
    BY DEF Progress!StartsOrdered, Progress!TypeOK, Progress!WorkerTypeOK, Progress!CacheTypeOK
  <1>2. Progress!ScanSees'
    <2> SUFFICES ASSUME pc \in {"scan", "commit"}, NEW t \in Progress!Seg
                 PROVE  /\ Progress!Exists(t)' /\ Progress!Passed(t) =>
                             (Progress!SameSignature(observed[t], t)' \/ lastWrite'[t] >= scanStart)
                        /\ observed[t].known => Progress!Exists(t)' /\ Progress!Passed(t)
      BY DEF Progress!ScanSees, Progress!Passed
    <2>1. QED
      BY <1>1 DEF Progress!ScanSees, Progress!SameSignature
  <1>3. Progress!StartsOrdered'
    BY <1>1 DEF Progress!StartsOrdered
  <1>4. ASSUME NEW m, NEW from, from <= mono, Progress!SampleSound(m, from),
               NEW n, \A d \in Progress!Dir : n[d] = m[d] \/ n[d] = Progress!PathProgress
        PROVE  \A d \in Progress!Dir : n[d].seen =>
                 \A s \in Progress!Seg : CameraOf[s] = d /\ Progress!Exists(s)' /\ size'[s] > 0 /\ size'[s] > n[d].files[s]
                                 => lastWrite'[s] >= from
    <2> SUFFICES ASSUME NEW d \in Progress!Dir, n[d].seen,
                        NEW s \in Progress!Seg, CameraOf[s] = d, Progress!Exists(s)', size'[s] > 0, size'[s] > n[d].files[s]
                 PROVE  lastWrite'[s] >= from
      OBVIOUS
    <2>1. n[d] = m[d]
      BY <1>4, CameraFacts
    <2>2. CASE lastWrite'[s] = mono
      BY <1>4, <2>2
    <2>3. CASE Progress!Exists(s) /\ size'[s] = size[s] /\ lastWrite'[s] = lastWrite[s]
      BY <1>4, <2>1, <2>3 DEF Progress!SampleSound
    <2>4. QED
      BY <2>2, <2>3
  <1>5. Progress!BaselinesSound'
    <2>1. progressComplete => Progress!SampleSound(sample, baseStart)'
      BY <1>1, <1>4 DEF Progress!BaselinesSound, Progress!SampleSound
    <2>2. pc \in {"scan", "commit"} /\ prevComplete => Progress!SampleSound(prevSample, baseStart)'
      BY <1>1, <1>4 DEF Progress!BaselinesSound, Progress!SampleSound
    <2>3. pc \in {"scan", "commit"} => Progress!SampleSound(newSample, scanStart)'
      BY <1>1, <1>4 DEF Progress!BaselinesSound, Progress!SampleSound
    <2>4. QED
      BY <2>1, <2>2, <2>3 DEF Progress!BaselinesSound
  <1>6. Progress!FreshSound'
    BY <1>1 DEF Progress!FreshSound
  <1>7. (pc = "unlink" => inHand \in Progress!Seg)'
    BY CameraFacts DEF Progress!Seg
  <1>8. \A d \in Progress!Dir : sample'[d].last >= -1 /\ prevSample'[d].last >= -1 /\ newSample'[d].last >= -1
    BY CameraFacts
  <1>9. QED
    BY <1>2, <1>3, <1>5, <1>6, <1>7, <1>8, CameraFacts DEF Progress!Seg, Progress!Dir

\* The recorder, the clock, requests, a new policy, and steps of nobody.
LEMMA QuietProgress ==
  ASSUME Progress!ProgressInv,
         \/ Progress!Recorder \/ Progress!Tick \/ Progress!ConfigurePolicy \/ UNCHANGED Progress!vars
         \/ \E d \in Polled : Progress!RecordingProgress(d)
  PROVE  Progress!ProgressSound'
  <1> USE DEF Progress!fileVars, Progress!scanVars, Progress!pruneVars, Progress!deletedVars,
              Progress!progressVars
  <1>0. /\ mono \in Nat /\ state \in [Progress!Seg -> {"none", "open", "closed", "deleted"}]
        /\ size \in [Progress!Seg -> Nat] /\ mtime \in [Progress!Seg -> Nat]
        /\ lastWrite \in [Progress!Seg -> Nat]
        /\ sample \in [Progress!Dir -> Progress!SampleSet]
    BY DEF Progress!ProgressInv, Progress!TypeOK, Progress!WorkerTypeOK, Progress!CacheTypeOK
  <1>1. CASE Progress!Recorder
    <2>1. PICK s \in Progress!Seg : Progress!OpenSegment(s) \/ Progress!Grow(s) \/ Progress!CloseSegment(s)
      BY <1>1 DEF Progress!Recorder
    <2>2. /\ UNCHANGED <<mono, pc, curDir, curSeg, observed, prevSample, newSample, prevComplete, baseStart,
                         scanStart, inHand, progressComplete, sample>>
      BY <2>1 DEF Progress!OpenSegment, Progress!Grow, Progress!CloseSegment
    <2>3. \A t \in Progress!Seg :
           /\ Progress!Exists(t) => Progress!Exists(t)'
           /\ \/ lastWrite'[t] = mono
              \/ /\ Progress!Exists(t)' => Progress!Exists(t)
                 /\ size'[t] = size[t] /\ mtime'[t] = mtime[t] /\ lastWrite'[t] = lastWrite[t]
      <3>1. CASE Progress!OpenSegment(s)
        BY <1>0, <3>1 DEF Progress!OpenSegment, Progress!Exists
      <3>2. CASE Progress!Grow(s)
        BY <1>0, <3>2 DEF Progress!Grow, Progress!Exists
      <3>3. CASE Progress!CloseSegment(s)
        BY <1>0, <3>3 DEF Progress!CloseSegment, Progress!Exists
      <3>4. QED
        BY <2>1, <3>1, <3>2, <3>3
    <2>4. QED
      BY <1>0, <2>2, <2>3, WritesAreProgress
  <1>2. CASE \/ Progress!Tick \/ Progress!ConfigurePolicy \/ UNCHANGED Progress!vars
             \/ \E d \in Polled : Progress!RecordingProgress(d)
    <2>1. /\ UNCHANGED <<pc, curDir, curSeg, observed, prevSample, newSample, prevComplete, baseStart,
                         scanStart, inHand, progressComplete, state, size, mtime, lastWrite>>
          /\ mono' = mono \/ mono' = mono + 1
      BY <1>2 DEF Progress!Tick, Progress!ConfigurePolicy, Progress!vars, Progress!RecordingProgress
    <2>2. \A d \in Progress!Dir : sample'[d] = sample[d] \/ sample'[d] = Progress!PathProgress
      BY <1>0, <1>2 DEF Progress!Tick, Progress!ConfigurePolicy, Progress!vars,
         Progress!RecordingProgress
    <2>3. mono' \in Nat /\ mono <= mono'
      BY <1>0, <2>1
    <2>4. \A t \in Progress!Seg : Progress!Exists(t)' <=> Progress!Exists(t)
      BY <2>1 DEF Progress!Exists
    <2>5. QED
      BY <1>0, <2>1, <2>2, <2>3, <2>4, WritesAreProgress
  <1>3. QED
    BY <1>1, <1>2

\* When a call returns nothing of its scan is left.
LEMMA ReturnProgress ==
  ASSUME NEW a, Progress!Return(a), baseStart' <= mono', mono' \in Nat,
         \A d \in Progress!Dir : sample'[d].last >= -1,
         progressComplete' => Progress!SampleSound(sample, baseStart)'
  PROVE  Progress!ProgressSound'
  <1>1. /\ pc' = "idle" /\ scanStart' = 0
        /\ prevSample' = Progress!NoSamples /\ newSample' = Progress!NoSamples
    BY DEF Progress!Return
  <1>2. /\ Progress!ScanSees' /\ Progress!StartsOrdered'
        /\ Progress!BaselinesSound' /\ Progress!FreshSound'
    BY <1>1 DEF Progress!ScanSees, Progress!StartsOrdered, Progress!BaselinesSound,
       Progress!FreshSound
  <1>3. \A d \in Progress!Dir : prevSample'[d].last >= -1 /\ newSample'[d].last >= -1
    BY <1>1, CameraFacts
  <1>4. QED
    BY <1>1, <1>2, <1>3, CameraFacts DEF Progress!ProgressSound, Progress!Dir, Progress!Seg

\* A scan begins with the samples of the last.
LEMMA ScanStartProgress ==
  ASSUME Progress!ProgressInv, NEW m, Progress!ScanStart(m) PROVE Progress!ProgressSound'
  <1>1. /\ pc \in {"idle", "rescan"} /\ pc' = "scan" /\ curDir' = 1 /\ curSeg' = 0
        /\ scanStart' = mono /\ mono \in Nat /\ baseStart <= mono
        /\ observed' = Progress!NoObservations /\ prevSample' = sample
        /\ prevComplete' = progressComplete
        /\ newSample' = Progress!NoSamples
        /\ UNCHANGED <<mono, baseStart, state, size, mtime, lastWrite, sample, progressComplete>>
    BY DEF Progress!ScanStart, Progress!fileVars, Progress!progressVars, Progress!ProgressInv,
       Progress!ProgressSound, Progress!StartsOrdered, Progress!TypeOK, Progress!WorkerTypeOK
  <1>2. Progress!ScanSees'
    <2> SUFFICES ASSUME NEW s \in Progress!Seg
                 PROVE  ~Progress!Passed(s)' /\ ~observed'[s].known
      BY CameraFacts DEF Progress!ScanSees, Progress!Seg
    <2>1. QED
      BY <1>1, CameraFacts DEF Progress!Passed
  <1>3. Progress!StartsOrdered'
    BY <1>1 DEF Progress!StartsOrdered
  <1>4. Progress!BaselinesSound'
    <2>1. progressComplete => Progress!SampleSound(sample, baseStart)'
      BY <1>1 DEF Progress!ProgressInv, Progress!ProgressSound, Progress!BaselinesSound,
         Progress!SampleSound, Progress!Exists
    <2>2. prevComplete' => Progress!SampleSound(prevSample, baseStart)'
      BY <1>1 DEF Progress!ProgressInv, Progress!ProgressSound, Progress!BaselinesSound,
         Progress!SampleSound, Progress!Exists
    <2>3. Progress!SampleSound(newSample, scanStart)'
      BY <1>1, CameraFacts DEF Progress!SampleSound, Progress!Dir
    <2>4. QED
      BY <1>1, <2>1, <2>2, <2>3 DEF Progress!BaselinesSound
  <1>5. \A d \in Progress!Dir : sample'[d].last >= -1 /\ prevSample'[d].last >= -1 /\ newSample'[d].last = -1
    BY <1>1, CameraFacts DEF Progress!ProgressInv, Progress!ProgressSound
  <1>6. Progress!FreshSound'
    BY <1>5 DEF Progress!FreshSound, Progress!Dir
  <1>7. QED
    BY <1>1, <1>2, <1>3, <1>4, <1>5, <1>6 DEF Progress!ProgressSound, Progress!Dir

\* A file is read.
LEMMA ScanFileProgress ==
  ASSUME Progress!ProgressInv, Progress!ScanFile PROVE Progress!ProgressSound'
  <1>1. PICK s \in Progress!Seg :
          Progress!NextFile(s) /\ curSeg' = s /\ observed' = [observed EXCEPT ![s] = Progress!Observe(s)]
    BY DEF Progress!ScanFile
  <1>2. /\ pc = "scan"
        /\ UNCHANGED <<mono, pc, baseStart, state, size, mtime, lastWrite, curDir, scanStart, inHand>>
        /\ UNCHANGED <<sample, progressComplete, prevSample, prevComplete, newSample>>
    BY DEF Progress!ScanFile, Progress!fileVars, Progress!pruneVars, Progress!progressVars
  <1>3. /\ \A t \in Progress!Seg : t \in Nat /\ CameraOf[t] \in Int
        /\ curSeg \in Int /\ curDir \in Int /\ observed \in [Progress!Seg -> Progress!ObservationSet]
    BY CameraFacts DEF Progress!ProgressInv, Progress!TypeOK, Progress!WorkerTypeOK,
       Progress!CacheTypeOK, Progress!Dir
  <1>4. /\ CameraOf[s] = curDir /\ Progress!Exists(s) /\ s > curSeg
        /\ \A t \in Progress!Seg : CameraOf[t] = curDir /\ Progress!Exists(t) /\ t > curSeg => s <= t
    BY <1>1 DEF Progress!NextFile, Progress!FilesOf
  <1>5. /\ Progress!SameSignature(observed'[s], s)
        /\ \A t \in Progress!Seg \ {s} : observed'[t] = observed[t]
    BY <1>1, <1>3 DEF Progress!Observe, Progress!Observation, Progress!SameSignature
  <1>6. Progress!ScanSees'
    <2> SUFFICES ASSUME NEW t \in Progress!Seg
                 PROVE  /\ Progress!Exists(t) /\ Progress!Passed(t)' =>
                             (Progress!SameSignature(observed[t], t)' \/ lastWrite[t] >= scanStart)
                        /\ observed'[t].known => Progress!Exists(t) /\ Progress!Passed(t)'
      BY <1>2 DEF Progress!ScanSees, Progress!Exists
    <2>1. CASE t = s
      BY <1>1, <1>2, <1>3, <1>4, <1>5, <2>1 DEF Progress!Passed, Progress!SameSignature
    <2>2. CASE t # s
      <3>1. Progress!Exists(t) /\ Progress!Passed(t)' => Progress!Passed(t)
        BY <1>1, <1>2, <1>3, <1>4, <2>2 DEF Progress!Passed
      <3>2. Progress!Passed(t) => Progress!Passed(t)'
        BY <1>1, <1>2, <1>3, <1>4 DEF Progress!Passed
      <3>3. QED
        BY <1>2, <1>5, <2>2, <3>1, <3>2 DEF Progress!ProgressInv, Progress!ProgressSound,
           Progress!ScanSees, Progress!SameSignature
    <2>3. QED
      BY <2>1, <2>2
  <1>7. Progress!StartsOrdered' /\ Progress!BaselinesSound' /\ Progress!FreshSound'
    BY <1>2 DEF Progress!ProgressInv, Progress!ProgressSound, Progress!StartsOrdered,
       Progress!BaselinesSound, Progress!FreshSound, Progress!SampleSound, Progress!Exists
  <1>8. QED
    BY <1>2, <1>6, <1>7 DEF Progress!ProgressInv, Progress!ProgressSound

\* A directory was read: its sample holds what is there, and its age is real.
LEMMA DirectoryProgress ==
  ASSUME Progress!ProgressInv, Progress!ScanDirectoryEnd PROVE Progress!ProgressSound'
  <1>1. /\ pc = "scan" /\ curDir <= Cameras /\ \A s \in Progress!Seg : ~Progress!NextFile(s)
        /\ newSample' = newSample \/ newSample' = [newSample EXCEPT ![curDir] = Progress!DirectorySample]
        /\ curSeg' = 0
        /\ IF curDir < Cameras THEN curDir' = curDir + 1 /\ pc' = "scan" ELSE curDir' = curDir /\ pc' = "commit"
        /\ UNCHANGED <<mono, baseStart, state, size, mtime, lastWrite, observed, scanStart, inHand>>
        /\ UNCHANGED <<sample, progressComplete, prevSample, prevComplete>>
    BY DEF Progress!ScanDirectoryEnd, Progress!fileVars, Progress!pruneVars, Progress!progressVars
  <1>2. /\ Progress!TypeOK /\ Progress!ProgressSound
        /\ \A t \in Progress!Seg : t \in Nat /\ t > 0 /\ CameraOf[t] \in Int /\ CameraOf[t] <= Cameras
        /\ curSeg \in Int /\ curDir \in Int /\ Cameras \in Int /\ curDir \in Progress!Dir
    BY CameraFacts DEF Progress!ProgressInv, Progress!TypeOK, Progress!CacheTypeOK, Progress!Dir
  <1>3. \A t \in Progress!Seg : CameraOf[t] = curDir /\ Progress!Exists(t) => t <= curSeg
    <2> SUFFICES ASSUME NEW t \in Progress!Seg, CameraOf[t] = curDir, Progress!Exists(t), t > curSeg
                 PROVE  FALSE
      BY <1>2
    <2> DEFINE T == {u \in Progress!FilesOf(curDir) : u > curSeg}
    <2>1. t \in T /\ T \subseteq Nat
      BY <1>2 DEF Progress!FilesOf
    <2>2. PICK n \in T : \A u \in T : n <= u
      BY <2>1, LeastNatural
    <2>3. n \in Progress!Seg /\ Progress!NextFile(n)
      BY <2>2 DEF Progress!NextFile, Progress!FilesOf
    <2>4. QED
      BY <1>1, <2>3
  <1>4. \A t \in Progress!Seg :
          /\ Progress!Exists(t) /\ Progress!Passed(t)' => Progress!Passed(t)
          /\ Progress!Passed(t) => Progress!Passed(t)'
          /\ Progress!Exists(t) /\ CameraOf[t] = curDir => Progress!Passed(t)
    BY <1>1, <1>2, <1>3 DEF Progress!Passed
  <1>5. Progress!ScanSees'
    <2> SUFFICES ASSUME NEW t \in Progress!Seg
                 PROVE  /\ Progress!Exists(t) /\ Progress!Passed(t)' =>
                             (Progress!SameSignature(observed[t], t) \/ lastWrite[t] >= scanStart)
                        /\ observed[t].known => Progress!Exists(t) /\ Progress!Passed(t)'
      BY <1>1 DEF Progress!ScanSees, Progress!Exists, Progress!SameSignature
    <2>1. QED
      BY <1>1, <1>2, <1>4 DEF Progress!ProgressSound, Progress!ScanSees
  <1>6. ASSUME NEW s \in Progress!Seg, CameraOf[s] = curDir, Progress!Exists(s)
        PROVE  Progress!SameSignature(observed[s], s) \/ lastWrite[s] >= scanStart
    BY <1>1, <1>2, <1>4, <1>6 DEF Progress!ProgressSound, Progress!ScanSees
  <1>7. /\ baseStart <= scanStart /\ baseStart \in Nat /\ scanStart \in Nat
        /\ lastWrite \in [Progress!Seg -> Nat] /\ size \in [Progress!Seg -> Nat]
        /\ newSample \in [Progress!Dir -> Progress!SampleSet]
        /\ observed \in [Progress!Seg -> Progress!ObservationSet] /\ mono \in Nat
        /\ prevSample \in [Progress!Dir -> Progress!SampleSet]
    BY <1>1, <1>2 DEF Progress!ProgressSound, Progress!StartsOrdered, Progress!TypeOK,
       Progress!WorkerTypeOK, Progress!CacheTypeOK
  <1>8. ASSUME NEW s \in Progress!Seg, CameraOf[s] = curDir, Progress!Exists(s), size[s] > 0, size[s] > Progress!DirectorySample.files[s]
        PROVE  lastWrite[s] >= scanStart
    <2>1. Progress!DirectorySample.files[s] = IF s \in Progress!Segments THEN observed[s].size ELSE -1
      BY <1>8 DEF Progress!DirectorySample
    <2>2. CASE Progress!SameSignature(observed[s], s)
      <3>1. s \in Progress!Segments /\ observed[s].size = size[s]
        BY <1>8, <2>2 DEF Progress!Segments, Progress!SameSignature
      <3>2. QED
        BY <1>7, <1>8, <2>1, <3>1
    <2>3. QED
      BY <1>6, <1>8, <2>2
  <1>9. ASSUME Progress!Progressed
        PROVE  \E s \in Progress!Seg : CameraOf[s] = curDir /\ lastWrite[s] >= baseStart
    <2>1. PICK s \in Progress!Segments : observed[s].size > 0 /\ observed[s].size > prevSample[curDir].files[s]
      BY <1>9 DEF Progress!Progressed
    <2>2. /\ s \in Progress!Seg /\ CameraOf[s] = curDir /\ observed[s].known /\ Progress!Exists(s)
          /\ prevComplete /\ prevSample[curDir].seen
      BY <1>1, <1>2, <1>9, <2>1 DEF Progress!Segments, Progress!ProgressSound, Progress!ScanSees,
         Progress!Progressed, Progress!Comparable
    <2>3. CASE Progress!SameSignature(observed[s], s)
      <3>1. Progress!SampleSound(prevSample, baseStart)
        BY <1>1, <1>2, <2>2 DEF Progress!ProgressSound, Progress!BaselinesSound
      <3>2. size[s] > 0 /\ size[s] > prevSample[curDir].files[s]
        BY <2>1, <2>3 DEF Progress!SameSignature
      <3>3. lastWrite[s] >= baseStart
        BY <1>2, <2>2, <3>1, <3>2 DEF Progress!SampleSound
      <3>4. QED
        BY <2>2, <3>3
    <2>4. CASE lastWrite[s] >= scanStart
      BY <1>7, <2>2, <2>4
    <2>5. QED
      BY <1>6, <2>2, <2>3, <2>4
  <1>10. /\ Progress!DirectorySample.last >= -1
         /\ \/ Progress!DirectorySample.last \in {-1, prevSample[curDir].last}
            \/ \E s \in Progress!Seg : CameraOf[s] = curDir /\ lastWrite[s] >= baseStart
    <2>1. /\ Progress!Progressed => Progress!DirectorySample.last = mono
          /\ ~Progress!Progressed => Progress!DirectorySample.last \in {-1, prevSample[curDir].last}
      BY DEF Progress!DirectorySample
    <2>2. prevSample[curDir].last >= -1
      BY <1>2 DEF Progress!ProgressSound
    <2>3. QED
      BY <1>7, <1>9, <2>1, <2>2
  <1>11. \A d \in Progress!Dir : newSample'[d] = newSample[d] \/ (d = curDir /\ newSample'[d] = Progress!DirectorySample)
    BY <1>1, <1>2, <1>7
  <1> HIDE DEF Progress!DirectorySample
  <1>12. Progress!SampleSound(newSample, scanStart)'
    <2> SUFFICES ASSUME NEW d \in Progress!Dir, newSample'[d].seen,
                        NEW s \in Progress!Seg, CameraOf[s] = d, Progress!Exists(s), size[s] > 0, size[s] > newSample'[d].files[s]
                 PROVE  lastWrite[s] >= scanStart
      BY <1>1 DEF Progress!SampleSound, Progress!Exists
    <2>1. CASE newSample'[d] = newSample[d]
      BY <1>1, <1>2, <2>1 DEF Progress!ProgressSound, Progress!BaselinesSound, Progress!SampleSound
    <2>2. CASE d = curDir /\ newSample'[d] = Progress!DirectorySample
      BY <1>8, <2>2
    <2>3. QED
      BY <1>11, <2>1, <2>2
  <1>13. Progress!BaselinesSound'
    BY <1>1, <1>2, <1>12 DEF Progress!ProgressSound, Progress!BaselinesSound,
       Progress!SampleSound, Progress!Exists
  <1>14. Progress!FreshSound' /\ \A d \in Progress!Dir : newSample'[d].last >= -1
    BY <1>1, <1>2, <1>10, <1>11 DEF Progress!ProgressSound, Progress!FreshSound
  <1>15. Progress!StartsOrdered'
    BY <1>1, <1>2 DEF Progress!ProgressSound, Progress!StartsOrdered
  <1>16. QED
    BY <1>1, <1>2, <1>5, <1>13, <1>14, <1>15 DEF Progress!ProgressSound

\* The samples of a complete scan become the baseline.
LEMMA CommitProgress ==
  ASSUME Progress!ProgressInv, Progress!ScanCommit PROVE Progress!ProgressSound'
  <1>1. /\ pc = "commit" /\ baseStart' = scanStart /\ progressComplete' = TRUE
        /\ UNCHANGED <<mono, state, size, mtime, lastWrite>>
        /\ sample' = [d \in Progress!Dir |-> IF d \in Progress!Range(slots') THEN newSample[d] ELSE Progress!PathProgress]
    BY DEF Progress!ScanCommit, Progress!fileVars
  <1>2. Progress!TypeOK /\ Progress!ProgressSound
    BY DEF Progress!ProgressInv
  <1>3. \A d \in Progress!Dir : sample'[d] = newSample[d] \/ sample'[d] = Progress!PathProgress
    BY <1>1
  <1>4. \A d \in Progress!Dir : sample'[d].last >= -1
    BY <1>2, <1>3, CameraFacts DEF Progress!ProgressSound
  <1>5. Progress!SampleSound(sample, baseStart)'
    BY <1>1, <1>2, <1>3, CameraFacts DEF Progress!ProgressSound, Progress!BaselinesSound,
       Progress!SampleSound, Progress!Exists
  <1>6. mono' \in Nat /\ baseStart' <= mono'
    BY <1>1, <1>2 DEF Progress!ProgressSound, Progress!StartsOrdered, Progress!TypeOK,
       Progress!WorkerTypeOK
  <1>7. CASE Progress!Return(Progress!Allowed)
    BY <1>4, <1>5, <1>6, <1>7, ReturnProgress
  <1>8. CASE pc' = "loop" /\ UNCHANGED <<mode, Progress!scanVars, inHand, heldSize, checkedAt, recordingAllowed>>
    <2>1. UNCHANGED <<scanStart, prevSample, newSample>>
      BY <1>8 DEF Progress!scanVars
    <2>2. Progress!ScanSees' /\ Progress!FreshSound'
      BY <1>8 DEF Progress!ScanSees, Progress!FreshSound
    <2>3. Progress!BaselinesSound'
      BY <1>5, <1>8 DEF Progress!BaselinesSound
    <2>4. Progress!StartsOrdered'
      BY <1>1, <1>2, <1>6, <2>1 DEF Progress!ProgressSound, Progress!StartsOrdered,
         Progress!TypeOK, Progress!WorkerTypeOK
    <2>5. QED
      BY <1>2, <1>4, <1>8, <2>1, <2>2, <2>3, <2>4 DEF Progress!ProgressSound
  <1>9. QED
    BY <1>7, <1>8 DEF Progress!ScanCommit

\* An abandoned call and a restart forget the samples.
LEMMA AbandonProgress ==
  ASSUME Progress!ProgressInv, Progress!ScanAbort \/ Progress!LoopAbort \/ Progress!Restart
  PROVE  Progress!ProgressSound'
  <1>1. /\ Progress!Return(FALSE) /\ UNCHANGED <<mono, baseStart>>
        /\ sample' = Progress!NoSamples /\ progressComplete' = FALSE
    BY DEF Progress!ScanAbort, Progress!LoopAbort, Progress!Restart, Progress!InvalidateProgress
  <1>2. mono' \in Nat /\ baseStart' <= mono' /\ \A d \in Progress!Dir : sample'[d].last >= -1
    BY <1>1, CameraFacts DEF Progress!ProgressInv, Progress!ProgressSound, Progress!StartsOrdered,
       Progress!TypeOK, Progress!WorkerTypeOK
  <1>3. ~progressComplete'
    BY <1>1
  <1>4. QED
    BY <1>1, <1>2, <1>3, ReturnProgress

\* Handling the candidates leaves the samples alone; a removal takes a file away.
LEMMA PruningProgress ==
  ASSUME Progress!ProgressInv, Progress!SkipCandidate \/ Progress!RecheckCandidate \/ Progress!UnlinkRefused \/ Progress!Unlink \/ Progress!LoopDone
  PROVE  Progress!ProgressSound'
  <1>1. /\ pc \in {"loop", "unlink"} /\ pc' \in {"loop", "unlink", "rescan"}
        /\ UNCHANGED <<mono, baseStart, size, lastWrite, sample, progressComplete, prevSample, newSample, scanStart>>
        /\ state' = state \/ state' = [state EXCEPT ![inHand] = "deleted"]
    BY DEF Progress!SkipCandidate, Progress!RecheckCandidate, Progress!UnlinkRefused,
       Progress!Unlink, Progress!LoopDone, Progress!fileVars, Progress!scanVars,
           Progress!progressVars, Progress!pruneVars
  <1>2. Progress!ProgressSound /\ state \in [Progress!Seg -> {"none", "open", "closed", "deleted"}] /\ cand \subseteq Progress!Seg
    BY DEF Progress!ProgressInv, Progress!TypeOK, Progress!WorkerTypeOK
  <1>3. \A s \in Progress!Seg : Progress!Exists(s)' => Progress!Exists(s)
    BY <1>1, <1>2 DEF Progress!Exists
  <1>4. Progress!ScanSees' /\ Progress!FreshSound'
    BY <1>1 DEF Progress!ScanSees, Progress!FreshSound
  <1>5. Progress!StartsOrdered'
    BY <1>1, <1>2 DEF Progress!ProgressSound, Progress!StartsOrdered
  <1>6. Progress!BaselinesSound'
    BY <1>1, <1>2, <1>3 DEF Progress!ProgressSound, Progress!BaselinesSound, Progress!SampleSound
  <1>7. (pc = "unlink" => inHand \in Progress!Seg)'
    <2>1. CASE Progress!RecheckCandidate
      BY <1>2, <2>1 DEF Progress!RecheckCandidate, Progress!Seg
    <2>2. CASE Progress!SkipCandidate \/ Progress!UnlinkRefused \/ Progress!Unlink \/ Progress!LoopDone
      BY <2>2 DEF Progress!SkipCandidate, Progress!UnlinkRefused, Progress!Unlink, Progress!LoopDone
    <2>3. QED
      BY <2>1, <2>2
  <1>8. QED
    BY <1>1, <1>2, <1>4, <1>5, <1>6, <1>7 DEF Progress!ProgressSound

\* The instance is over the same variables.
LEMMA SameVars == UNCHANGED vars <=> UNCHANGED Progress!vars
  BY DEF vars, fileVars, progressVars, scanVars, pruneVars, deletedVars, Progress!vars,
     Progress!fileVars, Progress!progressVars,
         Progress!scanVars, Progress!pruneVars, Progress!deletedVars

\* Every step keeps what reported progress rests on.
LEMMA ProgressStep ==
  ASSUME Progress!ProgressInv, [Progress!Next]_Progress!vars
  PROVE  Progress!ProgressInv'
  <1>1. CASE Progress!Next
    <2>1. Progress!TypeOK'
      BY <1>1, ProgressWorkerTypes, ProgressCacheTypes DEF Progress!ProgressInv,
         Progress!ProgressSound, Progress!TypeOK
    <2>2. Progress!ProgressSound'
      BY <1>1, QuietProgress, ScanStartProgress, ScanFileProgress, DirectoryProgress,
         CommitProgress,
         AbandonProgress, PruningProgress DEF Progress!Next, Progress!Scanning, Progress!Pruning
    <2>3. QED
      BY <2>1, <2>2 DEF Progress!ProgressInv
  <1>2. CASE UNCHANGED Progress!vars
    <2>1. Progress!ProgressSound'
      BY <1>2, QuietProgress
    <2>2. Progress!TypeOK'
      BY <1>2 DEF Progress!ProgressInv, Progress!TypeOK, Progress!WorkerTypeOK,
         Progress!CacheTypeOK, Progress!vars, Progress!fileVars, Progress!progressVars,
                  Progress!scanVars, Progress!pruneVars, Progress!deletedVars
    <2>3. QED
      BY <2>1, <2>2 DEF Progress!ProgressInv
  <1>3. QED
    BY <1>1, <1>2

\* The worker begins with no sample.
LEMMA InitProgress == Progress!Init => Progress!ProgressInv
  <1> SUFFICES ASSUME Progress!Init PROVE Progress!ProgressInv
    OBVIOUS
  <1>1. Progress!WorkerTypeOK
    <2>1. mtime \in [Progress!Seg -> Nat]
      <3>1. mtime \in [Progress!Seg -> Readings \cup {0}]
        BY DEF Progress!Init
      <3>2. Readings \cup {0} \subseteq Nat
        BY CamerasAssumption DEF CamerasAssumption
      <3>3. QED
        BY <3>1, <3>2
    <2>2. QED
      BY <2>1, CameraFacts DEF Progress!Init, Progress!Idle, Progress!WorkerTypeOK
  <1>2. Progress!CacheTypeOK
    <2>1. /\ progressComplete = FALSE /\ recordingAllowed = FALSE
          /\ overQuota = FALSE /\ prevComplete = FALSE
          /\ slots = <<>> /\ tracked = <<>>
          /\ sample = Progress!NoSamples /\ newSample = Progress!NoSamples
          /\ prevSample = Progress!NoSamples /\ restarts = 0 /\ policy \in Rules
          /\ mode = "inspect" /\ curDir = 1
          /\ curSeg = 0 /\ total = 0 /\ free = 0 /\ baseStart = 0
      BY Zenon DEF Progress!Init, Progress!Idle
    <2>2. progressComplete \in BOOLEAN /\ recordingAllowed \in BOOLEAN /\ overQuota \in BOOLEAN
          /\ prevComplete \in BOOLEAN
      BY Zenon, <2>1
    <2>3. slots \in Seq(Progress!Dir) /\ tracked \in Seq(Progress!Dir) /\ Len(slots) = 0
      BY <2>1
    <2>4. QED
      BY <2>1, <2>2, <2>3, CameraFacts, CamerasAssumption DEF Progress!CacheTypeOK,
         CamerasAssumption
  <1>3. Progress!ProgressSound
    <2>1. pc = "idle" /\ mono = 0 /\ baseStart = 0 /\ scanStart = 0 /\ progressComplete = FALSE
      BY Zenon DEF Progress!Init, Progress!Idle
    <2>2. sample = Progress!NoSamples /\ newSample = Progress!NoSamples /\ prevSample = Progress!NoSamples
      BY Zenon DEF Progress!Init, Progress!Idle
    <2>3. QED
      BY <2>1, <2>2, CameraFacts DEF Progress!ProgressSound, Progress!ScanSees,
         Progress!StartsOrdered, Progress!BaselinesSound, Progress!FreshSound
  <1>4. QED
    BY <1>1, <1>2, <1>3 DEF Progress!ProgressInv, Progress!TypeOK

\* An age that grows is the one the scan began with or of bytes written since, the
\* paths asked for keep their slots, and the cache its bound.
LEMMA ProgressReal ==
  ASSUME Progress!ProgressInv, Progress!ProgressInv', [Progress!Next]_Progress!vars
  PROVE  Progress!ProgressIsReal /\ Progress!NominationsSurviveScan /\ Len(slots') <= Places
  <1> USE DEF Progress!fileVars, Progress!scanVars, Progress!pruneVars, Progress!deletedVars,
              Progress!progressVars
  <1>0. Len(slots') <= Places
    BY DEF Progress!ProgressInv, Progress!TypeOK, Progress!CacheTypeOK
  <1>1. /\ sample \in [Progress!Dir -> Progress!SampleSet]
        /\ prevSample \in [Progress!Dir -> Progress!SampleSet]
        /\ scanGen \in Nat /\ slots \in Seq(Progress!Dir)
        /\ tracked \in Seq(Progress!Dir) /\ Len(slots) <= Places
        /\ \A d \in Progress!Dir : sample[d].last \in Int /\ sample[d].last >= -1
    BY DEF Progress!ProgressInv, Progress!TypeOK, Progress!WorkerTypeOK, Progress!CacheTypeOK,
       Progress!ProgressSound, Progress!SampleSet
  <1>2. CASE Progress!ScanCommit
    <2>1. /\ pc = "commit" /\ slots' = Progress!UpdatedSlots(slots, tracked)
          /\ \A d \in Progress!Dir : sample'[d] = newSample[d] \/ sample'[d] = Progress!PathProgress
      BY <1>2 DEF Progress!ScanCommit
    <2>2. ASSUME NEW d \in Progress!Dir, sample'[d].last > sample[d].last
          PROVE  \/ sample'[d].last = prevSample[d].last
                 \/ \E s \in Progress!Seg : CameraOf[s] = d /\ lastWrite[s] >= baseStart
      <3>1. CASE sample'[d] = newSample[d]
        <4>1. \/ newSample[d].last \in {-1, prevSample[d].last}
              \/ \E s \in Progress!Seg : CameraOf[s] = d /\ lastWrite[s] >= baseStart
          BY <2>1 DEF Progress!ProgressInv, Progress!ProgressSound, Progress!FreshSound
        <4>2. QED
          BY <1>1, <2>2, <3>1, <4>1
      <3>2. CASE sample'[d] = Progress!PathProgress
        BY <1>1, <2>2, <3>2, CameraFacts
      <3>3. QED
        BY <2>1, <3>1, <3>2
    <2>3. Range(slots) \subseteq Range(slots')
      BY <1>1, <2>1, MergedSound, CameraFacts DEF Progress!UpdatedSlots
    <2>4. QED
      BY <1>0, <2>2, <2>3 DEF Progress!ProgressIsReal, Progress!NominationsSurviveScan,
         Progress!Range, Range
  <1>3. CASE ~Progress!ScanCommit
    <2>1. /\ \A d \in Progress!Dir : sample'[d] = sample[d] \/ sample'[d] = Progress!PathProgress
          /\ scanGen' = scanGen \/ scanGen' = 0
      <3>1. CASE \/ Progress!Recorder \/ Progress!Tick
                 \/ Progress!ConfigurePolicy \/ UNCHANGED Progress!vars
        BY <3>1 DEF Progress!Recorder, Progress!OpenSegment, Progress!Grow, Progress!CloseSegment,
           Progress!Tick, Progress!ConfigurePolicy, Progress!vars
      <3>2. CASE \E d \in Polled : Progress!RecordingProgress(d)
        BY <3>2 DEF Progress!RecordingProgress
      <3>3. CASE \/ \E m \in {"inspect", "prune", "final"} : Progress!ScanStart(m)
                 \/ Progress!ScanFile \/ Progress!ScanDirectoryEnd
        BY <3>3 DEF Progress!ScanStart, Progress!ScanFile, Progress!ScanDirectoryEnd
      <3>4. CASE Progress!ScanAbort \/ Progress!LoopAbort \/ Progress!Restart
        BY <3>4, CameraFacts DEF Progress!ScanAbort, Progress!LoopAbort, Progress!Restart,
           Progress!InvalidateProgress
      <3>5. CASE \/ Progress!SkipCandidate \/ Progress!RecheckCandidate \/ Progress!UnlinkRefused
                 \/ Progress!Unlink \/ Progress!LoopDone
        BY <3>5 DEF Progress!SkipCandidate, Progress!RecheckCandidate, Progress!UnlinkRefused,
           Progress!Unlink, Progress!LoopDone
      <3>6. QED
        BY <1>3, <3>1, <3>2, <3>3, <3>4, <3>5 DEF Progress!Next, Progress!Scanning, Progress!Pruning
    <2>2. \A d \in Progress!Dir : ~(sample'[d].last > sample[d].last)
      <3> SUFFICES ASSUME NEW d \in Progress!Dir PROVE ~(sample'[d].last > sample[d].last)
        OBVIOUS
      <3>1. Progress!PathProgress.last = -1
        BY CameraFacts
      <3>2. sample'[d].last = sample[d].last \/ sample'[d].last = -1
        BY <2>1, <3>1
      <3>3. QED
        BY <1>1, <3>2
    <2>3. ~(scanGen' > scanGen)
      BY <1>1, <2>1
    <2>4. QED
      BY <1>0, <2>2, <2>3 DEF Progress!ProgressIsReal, Progress!NominationsSurviveScan
  <1>4. QED
    BY <1>2, <1>3

\* In the instance with more cameras than slots the types hold, the cache keeps its
\* bound, and every sample is as old as it says.
THEOREM ProgressInvariant == PartSpec => [](part = "progress" => Progress!ProgressInv)
  <1>1. PartInit => (part = "progress" => Progress!ProgressInv)
    BY InitProgress DEF PartInit
  <1>2. (part = "progress" => Progress!ProgressInv) /\ [PartNext]_<<part, vars>> => (part = "progress" => Progress!ProgressInv)'
    <2>1. [PartNext]_<<part, vars>> /\ (part = "progress")' => part = "progress" /\ [Progress!Next]_Progress!vars
      BY SameVars DEF PartNext
    <2>2. QED
      BY <2>1, ProgressStep
  <1>3. QED
    BY <1>1, <1>2, PTL DEF PartSpec

\* Progress is reported only of bytes that were written, and a path asked for during a
\* scan keeps its slot, for any cameras, segments, clocks and requests.
THEOREM ProgressStaysHonest == PartSpec => ProgressHonest
  <1>1. PartSpec => [](part = "progress" => Progress!ProgressInv)
    BY ProgressInvariant
  <1>2. /\ part = "progress" => Progress!ProgressInv
        /\ (part = "progress" => Progress!ProgressInv)'
        /\ [PartNext]_<<part, vars>>
        => [part = "progress" =>
              /\ Progress!ProgressIsReal
              /\ Progress!NominationsSurviveScan
              /\ Len(slots') <= Places]_vars
    <2>1. [PartNext]_<<part, vars>> /\ part = "progress" => part' = "progress" /\ [Progress!Next]_Progress!vars
      BY SameVars DEF PartNext
    <2>2. QED
      BY <2>1, ProgressReal
  <1>3. QED
    BY <1>1, <1>2, PTL DEF PartSpec, ProgressHonest

=============================================================================
