--------------------------- MODULE IngestLockProofs ---------------------------
(***************************************************************************)
(* What the lock of scripts/auto-ingest.js guarantees for any finite set   *)
(* of runs, however many are killed and however their pids are reused.     *)
(***************************************************************************)
EXTENDS IngestLock, FiniteSetTheorems, TLAPS

(* A run past its creation has its pid in the file it created. *)
PidWritten ==
  \A r \in Runs : pc[r] \in {"ingest", "check", "remove"} => r \in written

(* A run clears a lock at most once: a taker is past the call. *)
ClearsOnce ==
  \A r \in takers : pc[r] \notin {"new", "create", "read", "probe", "clear"}

(* The runs inside whose file is no longer the one on disk. *)
Robbed == Holders \ {lock}

(* Each of them is paid for by a takeover. *)
RobbedBounded == Cardinality(Robbed) <= Cardinality(takers)

(* The inductive invariant. *)
LockInv == /\ TypeOK
           /\ PidWritten
           /\ ClearsOnce
           /\ NoLeakedLock
           /\ OwnsUnlessTakeover
           /\ RobbedBounded

-----------------------------------------------------------------------------
(* Type correctness of IngestLock: auto-ingest.js lines 294-321 and 385. *)
THEOREM LockTypeCorrect == LockSpec => []TypeOK
<1>1. LockInit => TypeOK
  BY DEF LockInit, TypeOK, PCs
<1>2. TypeOK /\ [LockNext]_lockVars => TypeOK'
  <2> SUFFICES ASSUME TypeOK, [LockNext]_lockVars
               PROVE  TypeOK'
    OBVIOUS
  <2> USE DEF TypeOK, PCs, Goto
  <2>1. ASSUME NEW r \in Runs, Launch(r) \/ Decline(r)
        PROVE  TypeOK'
    BY <2>1 DEF Launch, Decline
  <2>2. ASSUME NEW r \in Runs, Acquire(r)
        PROVE  TypeOK'
    BY <2>2 DEF Acquire, Create, CreateRefused, ReadHolder, ProbeAlive,
                ProbeDead, Clear, RetryRefused, WritePid, LockContent
  <2>3. ASSUME NEW r \in Runs, Finish(r) \/ Release(r)
        PROVE  TypeOK'
    BY <2>3 DEF Finish, Release, CheckOwner, Remove
  <2>4. ASSUME NEW r \in Runs, Crash(r) \/ ReusePid(r) \/ FreePid(r)
        PROVE  TypeOK'
    BY <2>4 DEF Crash, ReusePid, FreePid
  <2>5. CASE UNCHANGED lockVars
    BY <2>5 DEF lockVars
  <2> QED
    BY <2>1, <2>2, <2>3, <2>4, <2>5 DEF LockNext, Step
<1> QED
  BY <1>1, <1>2, PTL DEF LockSpec

-----------------------------------------------------------------------------
(* Sets of runs are finite, so their cardinalities are numbers. *)
LEMMA SetsOfRuns ==
  ASSUME NEW S \in SUBSET Runs
  PROVE  IsFiniteSet(S) /\ Cardinality(S) \in Nat
BY RunsAssumption, FS_Subset, FS_CardinalityType

(* A subset has no more elements than its superset. *)
LEMMA SubsetOfRuns ==
  ASSUME NEW S \in SUBSET Runs, NEW T \in SUBSET S
  PROVE  Cardinality(T) <= Cardinality(S)
BY SetsOfRuns, FS_Subset

(* Every disjunct of the next-state relation, as an assumption a proof by *)
(* cases can cite; the invariant holds of a stutter.                      *)
LEMMA LockStepCases ==
  ASSUME [LockNext]_lockVars
  PROVE  \/ \E r \in Runs :
              \/ Launch(r) \/ Decline(r) \/ CreateRefused(r) \/ ReadHolder(r)
              \/ ProbeAlive(r) \/ ProbeDead(r) \/ RetryRefused(r)
              \/ Finish(r)
         \/ \E r \in Runs, from \in {"create", "retry"} : Create(r, from)
         \/ \E r \in Runs : WritePid(r)
         \/ \E r \in Runs : Clear(r)
         \/ \E r \in Runs : CheckOwner(r)
         \/ \E r \in Runs : Remove(r)
         \/ \E r \in Runs : Crash(r)
         \/ \E r \in Runs : ReusePid(r) \/ FreePid(r)
         \/ UNCHANGED lockVars
BY DEF LockNext, Step, Acquire, Release

-----------------------------------------------------------------------------
(* The part of the invariant that says where each run's pid is. *)
LEMMA PidWrittenStep ==
  ASSUME TypeOK, PidWritten, [LockNext]_lockVars
  PROVE  PidWritten'
<1> USE DEF TypeOK, PidWritten, Goto
<1>1. ASSUME NEW r \in Runs,
             Launch(r) \/ Decline(r) \/ Acquire(r)
      PROVE  PidWritten'
  BY <1>1 DEF Launch, Decline, Acquire, Create, CreateRefused, ReadHolder, ProbeAlive,
              ProbeDead, Clear, RetryRefused, WritePid
<1>2. ASSUME NEW r \in Runs,
             Finish(r) \/ Release(r) \/ Crash(r) \/ ReusePid(r) \/ FreePid(r)
      PROVE  PidWritten'
  BY <1>2 DEF Finish, Release, CheckOwner, Remove, Crash, ReusePid, FreePid
<1>3. CASE UNCHANGED lockVars
  BY <1>3 DEF lockVars
<1> QED
  BY <1>1, <1>2, <1>3 DEF LockNext, Step

(* A taker never comes back to clear a second time. *)
LEMMA ClearsOnceStep ==
  ASSUME TypeOK, ClearsOnce, [LockNext]_lockVars
  PROVE  ClearsOnce'
<1> USE DEF TypeOK, ClearsOnce, Goto
<1>1. ASSUME NEW r \in Runs,
             Launch(r) \/ Decline(r) \/ Acquire(r)
      PROVE  ClearsOnce'
  BY <1>1 DEF Launch, Decline, Acquire, Create, CreateRefused, ReadHolder, ProbeAlive,
              ProbeDead, Clear, RetryRefused, WritePid
<1>2. ASSUME NEW r \in Runs,
             Finish(r) \/ Release(r) \/ Crash(r) \/ ReusePid(r) \/ FreePid(r)
      PROVE  ClearsOnce'
  BY <1>2 DEF Finish, Release, CheckOwner, Remove, Crash, ReusePid, FreePid,
              Running, Ended
<1>3. CASE UNCHANGED lockVars
  BY <1>3 DEF lockVars
<1> QED
  BY <1>1, <1>2, <1>3 DEF LockNext, Step

(* The release runs on every exit that is not a kill. *)
LEMMA NoLeakStep ==
  ASSUME TypeOK, PidWritten, NoLeakedLock, [LockNext]_lockVars
  PROVE  NoLeakedLock'
<1> USE RunsAssumption DEF TypeOK, NoLeakedLock, Goto, Holding
<1>1. ASSUME NEW r \in Runs,
             Launch(r) \/ Decline(r) \/ Acquire(r)
      PROVE  NoLeakedLock'
  BY <1>1 DEF Launch, Decline, Acquire, Create, CreateRefused, ReadHolder, ProbeAlive,
              ProbeDead, Clear, RetryRefused, WritePid
<1>2. ASSUME NEW r \in Runs,
             Finish(r) \/ Remove(r) \/ Crash(r) \/ ReusePid(r) \/ FreePid(r)
      PROVE  NoLeakedLock'
  BY <1>2 DEF Finish, Remove, Crash, ReusePid, FreePid
<1>3. ASSUME NEW r \in Runs, CheckOwner(r)
      PROVE  NoLeakedLock'
  <2>1. lock = r => LockContent = r
    BY <1>3 DEF CheckOwner, LockContent, PidWritten
  <2> QED
    BY <1>3, <2>1 DEF CheckOwner
<1>4. CASE UNCHANGED lockVars
  BY <1>4 DEF lockVars
<1> QED
  BY <1>1, <1>2, <1>3, <1>4 DEF LockNext, Step, Release

(* While nobody has cleared a lock, only its creator removes it. *)
LEMMA OwnsStep ==
  ASSUME TypeOK, NoLeakedLock, OwnsUnlessTakeover, [LockNext]_lockVars
  PROVE  OwnsUnlessTakeover'
<1> USE RunsAssumption DEF TypeOK, OwnsUnlessTakeover, Goto, Holding, Holders
<1>1. ASSUME NEW r \in Runs,
             Launch(r) \/ Decline(r) \/ Acquire(r)
      PROVE  OwnsUnlessTakeover'
  BY <1>1 DEF Launch, Decline, Acquire, Create, CreateRefused, ReadHolder, ProbeAlive,
              ProbeDead, Clear, RetryRefused, WritePid
<1>2. ASSUME NEW r \in Runs,
             Finish(r) \/ Release(r) \/ Crash(r) \/ ReusePid(r) \/ FreePid(r)
      PROVE  OwnsUnlessTakeover'
  BY <1>2 DEF Finish, Release, CheckOwner, Remove, Crash, ReusePid, FreePid
<1>3. CASE UNCHANGED lockVars
  BY <1>3 DEF lockVars
<1> QED
  BY <1>1, <1>2, <1>3 DEF LockNext, Step

-----------------------------------------------------------------------------
(* The counting argument.  Creating the file adds a run that owns it; only *)
(* a takeover, or a robbed run's own release, leaves the owner of the file *)
(* without it, and the release takes one robbed run away as it adds one.   *)
LEMMA RobbedStep ==
  ASSUME TypeOK, ClearsOnce, RobbedBounded, [LockNext]_lockVars
  PROVE  RobbedBounded'
<1> USE RunsAssumption DEF TypeOK, Goto, Holding, Holders, Robbed
<1>0. /\ Robbed \in SUBSET Runs /\ takers \in SUBSET Runs
      /\ Cardinality(Robbed) \in Nat /\ Cardinality(takers) \in Nat
      /\ IsFiniteSet(Robbed) /\ IsFiniteSet(takers)
      /\ Cardinality(Robbed) <= Cardinality(takers)
  BY SetsOfRuns DEF RobbedBounded
<1>1. ASSUME Robbed' \subseteq Robbed, takers' = takers
      PROVE  RobbedBounded'
  <2>1. /\ Robbed' \in SUBSET Robbed /\ Robbed' \in SUBSET Runs
        /\ Cardinality(Robbed') \in Nat
    BY <1>0, <1>1, SetsOfRuns
  <2>2. Cardinality(Robbed') <= Cardinality(Robbed)
    BY <1>0, <2>1, SubsetOfRuns
  <2> QED
    BY <1>0, <1>1, <2>1, <2>2 DEF RobbedBounded
<1>2. ASSUME NEW r \in Runs,
             \/ Launch(r) \/ Decline(r) \/ CreateRefused(r) \/ ReadHolder(r)
             \/ ProbeAlive(r) \/ ProbeDead(r) \/ RetryRefused(r)
             \/ Finish(r) \/ WritePid(r) \/ CheckOwner(r)
             \/ Crash(r) \/ ReusePid(r) \/ FreePid(r)
      PROVE  RobbedBounded'
  <2>1. Robbed' \subseteq Robbed /\ takers' = takers
    BY <1>2 DEF Launch, Decline, CreateRefused, ReadHolder, ProbeAlive, ProbeDead,
                RetryRefused, Finish, WritePid, CheckOwner, Crash, ReusePid,
                FreePid
  <2> QED
    BY <2>1, <1>1
<1>3. ASSUME NEW r \in Runs, NEW from \in {"create", "retry"}, Create(r, from)
      PROVE  RobbedBounded'
  <2>1. Robbed' \subseteq Robbed /\ takers' = takers
    BY <1>3 DEF Create
  <2> QED
    BY <2>1, <1>1
<1>4. ASSUME NEW r \in Runs, Clear(r)
      PROVE  RobbedBounded'
  <2>1. /\ r \notin takers
        /\ takers' = takers \cup {r}
        /\ Robbed' \in SUBSET (Robbed \cup {lock})
        /\ Robbed' \in SUBSET Runs
    BY <1>4 DEF Clear, ClearsOnce
  <2>2. Cardinality(takers') = Cardinality(takers) + 1
    BY <1>0, <2>1, FS_AddElement
  <2>3. /\ IsFiniteSet(Robbed \cup {lock})
        /\ Cardinality(Robbed \cup {lock}) = Cardinality(Robbed) + 1
    BY <1>0, FS_AddElement
  <2>4. Cardinality(Robbed') <= Cardinality(Robbed \cup {lock})
    BY <2>1, <2>3, FS_Subset
  <2>5. Cardinality(Robbed') \in Nat
    BY <2>1, SetsOfRuns
  <2> QED
    BY <1>0, <2>2, <2>3, <2>4, <2>5 DEF RobbedBounded
<1>5. ASSUME NEW r \in Runs, Remove(r)
      PROVE  RobbedBounded'
  <2>1. takers' = takers /\ Robbed' = Holders \ {r} /\ r \in Holders
    BY <1>5 DEF Remove
  <2>2. CASE lock = r
    BY <2>1, <2>2, <1>1
  <2>3. CASE lock # r
    <3>1. r \in Robbed /\ Robbed' \in SUBSET ((Robbed \ {r}) \cup {lock})
      BY <2>1, <2>3
    <3>2. /\ IsFiniteSet(Robbed \ {r})
          /\ Cardinality(Robbed \ {r}) = Cardinality(Robbed) - 1
      BY <1>0, <3>1, FS_RemoveElement
    <3>3. lock \notin Robbed \ {r}
      OBVIOUS
    <3>4. /\ IsFiniteSet((Robbed \ {r}) \cup {lock})
          /\ Cardinality((Robbed \ {r}) \cup {lock}) = Cardinality(Robbed \ {r}) + 1
      BY <3>2, <3>3, FS_AddElement
    <3>5. Cardinality(Robbed') <= Cardinality((Robbed \ {r}) \cup {lock})
      BY <3>1, <3>4, FS_Subset
    <3>6. Cardinality(Robbed') \in Nat
      BY <2>1, SetsOfRuns
    <3> QED
      BY <1>0, <2>1, <3>2, <3>4, <3>5, <3>6 DEF RobbedBounded
  <2> QED
    BY <2>2, <2>3
<1>6. CASE UNCHANGED lockVars
  <2>1. Robbed' \subseteq Robbed /\ takers' = takers
    BY <1>6 DEF lockVars
  <2> QED
    BY <2>1, <1>1
<1> QED
  BY <1>2, <1>3, <1>4, <1>5, <1>6, LockStepCases

-----------------------------------------------------------------------------
(* The conjunction of the parts is an invariant of the lock. *)
THEOREM LockInvariant == LockSpec => []LockInv
<1>1. LockInit => LockInv
  <2> SUFFICES ASSUME LockInit
               PROVE  LockInv
    OBVIOUS
  <2>1. /\ TypeOK /\ PidWritten /\ ClearsOnce /\ NoLeakedLock
        /\ OwnsUnlessTakeover
    BY DEF LockInit, TypeOK, PCs, PidWritten, ClearsOnce, NoLeakedLock,
           OwnsUnlessTakeover, Holders, Holding
  <2>2. Robbed = {} /\ takers = {}
    BY DEF LockInit, Robbed, Holders, Holding
  <2>3. RobbedBounded
    BY <2>2, FS_EmptySet DEF RobbedBounded
  <2> QED
    BY <2>1, <2>3 DEF LockInv
<1>2. LockInv /\ TypeOK' /\ [LockNext]_lockVars => LockInv'
  BY PidWrittenStep, ClearsOnceStep, NoLeakStep, OwnsStep, RobbedStep
     DEF LockInv
<1> QED
  BY <1>1, <1>2, LockTypeCorrect, PTL DEF LockSpec

(* No run that ends on its own leaves its lock on disk. *)
THEOREM LockNeverLeaks == LockSpec => []NoLeakedLock
BY LockInvariant, PTL DEF LockInv

(* While nobody has judged a holder dead, at most one run is inside, and it *)
(* is the run whose file is on disk.                                        *)
THEOREM LockOwnedUnlessTakeover == LockSpec => []OwnsUnlessTakeover
BY LockInvariant, PTL DEF LockInv

(* n takeovers let at most n + 1 runs be inside together. *)
THEOREM LockExtraRunsBounded == LockSpec => []ExtraRunsBounded
<1>1. LockInv => ExtraRunsBounded
  <2> SUFFICES ASSUME LockInv
               PROVE  ExtraRunsBounded
    OBVIOUS
  <2>1. /\ Robbed \in SUBSET Runs /\ Holders \in SUBSET Runs
        /\ takers \in SUBSET Runs
        /\ Holders \in SUBSET (Robbed \cup {lock})
    BY DEF LockInv, TypeOK, Robbed, Holders
  <2>2. /\ IsFiniteSet(Robbed) /\ Cardinality(Robbed) \in Nat
        /\ Cardinality(Holders) \in Nat /\ Cardinality(takers) \in Nat
    BY <2>1, SetsOfRuns
  <2>3. /\ IsFiniteSet(Robbed \cup {lock})
        /\ Cardinality(Robbed \cup {lock}) = Cardinality(Robbed) + 1
    BY <2>2, FS_AddElement DEF Robbed
  <2>4. Cardinality(Holders) <= Cardinality(Robbed \cup {lock})
    BY <2>1, <2>3, FS_Subset
  <2> QED
    BY <2>2, <2>3, <2>4 DEF LockInv, RobbedBounded, ExtraRunsBounded
<1> QED
  BY <1>1, LockInvariant, PTL
=============================================================================
