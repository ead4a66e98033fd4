------------------------------ MODULE IngestLock ------------------------------
(***************************************************************************)
(* The lock file of the capture runs: scripts/auto-ingest.js.              *)
(*                                                                         *)
(* Every capture run is an operating-system process of its own (started by *)
(* the Stop hook, by the timed walker or by memory_capture).  The runs     *)
(* share one file, .auto-ingest.lock, which holds the pid of its creator.  *)
(* A run creates the file with O_EXCL; when that fails it reads the pid,   *)
(* asks whether that process is alive, and either leaves or clears the     *)
(* file and tries once more.  Any run can be killed between two system     *)
(* calls.  A pid is the identity of the run here, so a pid that the system *)
(* hands to an unrelated process later is in `foreign'.                    *)
(***************************************************************************)
EXTENDS Naturals, FiniteSets

CONSTANTS
  Runs,    \* the capture runs, each started at most once; a run is its pid
  NoRun    \* no run: an absent lock file, or a pid that did not parse

ASSUME RunsAssumption == /\ IsFiniteSet(Runs)
                         /\ NoRun \notin Runs

VARIABLES
  pc,       \* where each run is in auto-ingest.js
  lock,     \* the creator of the file now at the lock's path, or NoRun
  written,  \* the runs that have written their pid into the file they created
  holder,   \* the pid each run parsed from the lock file it found
  foreign,  \* dead runs whose pid now belongs to an unrelated live process
  takers    \* history: the runs that judged a holder dead and cleared the file

lockVars == <<pc, lock, written, holder, foreign, takers>>

PCs == {"new", "create", "read", "probe", "clear", "retry", "write",
        "ingest", "check", "remove", "done", "skipped", "dead"}

(* A run that has created a lock file and not yet finished with it. *)
Holding == {"write", "ingest", "check", "remove"}

(* A run whose process does not exist: not yet, or no longer. *)
Ended == {"done", "skipped", "dead"}

Running(r) == pc[r] \notin Ended \cup {"new"}

Goto(r, from, to) == /\ pc[r] = from
                     /\ pc' = [pc EXCEPT ![r] = to]

-----------------------------------------------------------------------------

LockInit == /\ pc = [r \in Runs |-> "new"]
            /\ lock = NoRun
            /\ written = {}
            /\ holder = [r \in Runs |-> NoRun]
            /\ foreign = {}
            /\ takers = {}

(* What a reader of the lock file parses: parseInt of an absent, unreadable *)
(* or still empty file is NaN.                                              *)
LockContent == IF lock \in written THEN lock ELSE NoRun

(* process.kill(pid, 0): the pid of a running run, or of whatever process *)
(* the system gave that pid to.  NaN is not alive.                        *)
ProcessAlive(p) == p # NoRun /\ (Running(p) \/ p \in foreign)

(* A gate ahead of the lock turns the run away: cold heartbeat, no          *)
(* transcript, a scheduled task, or the debounce.  It never held anything.  *)
Decline(r) == /\ Goto(r, "new", "skipped")
              /\ UNCHANGED <<lock, written, holder, foreign, takers>>

(* The run has passed every gate ahead of the lock. *)
Launch(r) == /\ Goto(r, "new", "create")
             /\ UNCHANGED <<lock, written, holder, foreign, takers>>

(* Mutant: existsSync, then a write that does not insist on creating. *)
CreateNotExclusive(r, from) ==
  /\ Goto(r, from, "write")
  /\ lock' = r
  /\ UNCHANGED <<written, holder, foreign, takers>>

(* tryLock() when no file is there: O_EXCL creates an empty file. *)
Create(r, from) == /\ Goto(r, from, "write")
                   /\ lock = NoRun
                   /\ lock' = r
                   /\ UNCHANGED <<written, holder, foreign, takers>>

(* tryLock() answers EEXIST the first time: look at who holds it. *)
CreateRefused(r) == /\ Goto(r, "create", "read")
                    /\ lock # NoRun
                    /\ UNCHANGED <<lock, written, holder, foreign, takers>>

ReadHolder(r) == /\ Goto(r, "read", "probe")
                 /\ holder' = [holder EXCEPT ![r] = LockContent]
                 /\ UNCHANGED <<lock, written, foreign, takers>>

(* Mutant: wait for the holder instead of leaving. *)
ProbeQueues(r) ==
  /\ ProcessAlive(holder[r])
  /\ Goto(r, "probe", "read")
  /\ UNCHANGED <<lock, written, holder, foreign, takers>>

(* The holder is alive: the second runner leaves, it does not queue. *)
ProbeAlive(r) == /\ ProcessAlive(holder[r])
                 /\ Goto(r, "probe", "skipped")
                 /\ UNCHANGED <<lock, written, holder, foreign, takers>>

(* Mutant: a file younger than the age limit is never taken over. *)
ProbeDeadByAge(r) ==
  /\ ~ProcessAlive(holder[r])
  /\ Goto(r, "probe", "skipped")
  /\ UNCHANGED <<lock, written, holder, foreign, takers>>

ProbeDead(r) == /\ ~ProcessAlive(holder[r])
                /\ Goto(r, "probe", "clear")
                /\ UNCHANGED <<lock, written, holder, foreign, takers>>

(* unlinkSync(lock), whatever file is at the path by now. *)
Clear(r) == /\ Goto(r, "clear", "retry")
            /\ lock' = NoRun
            /\ takers' = takers \cup {r}
            /\ UNCHANGED <<written, holder, foreign>>

(* The second tryLock() fails: another run was faster. *)
RetryRefused(r) == /\ Goto(r, "retry", "skipped")
                   /\ lock # NoRun
                   /\ UNCHANGED <<lock, written, holder, foreign, takers>>

(* The pid reaches the file the run created, even one already unlinked. *)
WritePid(r) == /\ Goto(r, "write", "ingest")
               /\ written' = written \cup {r}
               /\ UNCHANGED <<lock, holder, foreign, takers>>

(* Mutant: process.exit() inside the try, which skips the finally. *)
FinishWithoutRelease(r) ==
  /\ Goto(r, "ingest", "done")
  /\ UNCHANGED <<lock, written, holder, foreign, takers>>

(* The extractor and the index build, up to the finally: Capture.tla. *)
Finish(r) == /\ Goto(r, "ingest", "check")
             /\ UNCHANGED <<lock, written, holder, foreign, takers>>

(* Is the file at the path still ours? *)
CheckOwner(r) == /\ Goto(r, "check", IF LockContent = r THEN "remove" ELSE "done")
                 /\ UNCHANGED <<lock, written, holder, foreign, takers>>

(* unlinkSync(lock), a system call after the check. *)
Remove(r) == /\ Goto(r, "remove", "done")
             /\ lock' = NoRun
             /\ UNCHANGED <<written, holder, foreign, takers>>

(* Killed: the walker's SIGTERM after 10 minutes, the host quitting, a full *)
(* disk in the middle of tryLock().                                         *)
Crash(r) == /\ Running(r)
            /\ pc' = [pc EXCEPT ![r] = "dead"]
            /\ UNCHANGED <<lock, written, holder, foreign, takers>>

(* The operating system gives the pid of an ended run to a process that has *)
(* nothing to do with capture, and that process ends.                       *)
ReusePid(r) == /\ pc[r] \in Ended
               /\ r \notin foreign
               /\ foreign' = foreign \cup {r}
               /\ UNCHANGED <<pc, lock, written, holder, takers>>

FreePid(r) == /\ r \in foreign
              /\ foreign' = foreign \ {r}
              /\ UNCHANGED <<pc, lock, written, holder, takers>>

(* The system calls of one run, in program order. *)
Acquire(r) == \/ Create(r, "create")
              \/ CreateRefused(r)
              \/ ReadHolder(r)
              \/ ProbeAlive(r)
              \/ ProbeDead(r)
              \/ Clear(r)
              \/ Create(r, "retry")
              \/ RetryRefused(r)
              \/ WritePid(r)

Release(r) == CheckOwner(r) \/ Remove(r)

Step(r) == Acquire(r) \/ Finish(r) \/ Release(r)

LockNext == \E r \in Runs : \/ Launch(r)
                            \/ Decline(r)
                            \/ Step(r)
                            \/ Crash(r)
                            \/ ReusePid(r)
                            \/ FreePid(r)

LockSpec == LockInit /\ [][LockNext]_lockVars

(* A process that is not killed keeps executing; nothing obliges a run to  *)
(* be launched, killed, or its pid to be reused.                           *)
FairLockSpec == LockSpec /\ \A r \in Runs : WF_lockVars(Step(r))

-----------------------------------------------------------------------------
(* Types: auto-ingest.js keeps the pid it parsed, or nothing. *)
TypeOK == /\ pc \in [Runs -> PCs]
          /\ lock \in Runs \cup {NoRun}
          /\ written \subseteq Runs
          /\ holder \in [Runs -> Runs \cup {NoRun}]
          /\ foreign \subseteq Runs
          /\ takers \subseteq Runs

Holders == {r \in Runs : pc[r] \in Holding}

(* A lock file on disk belongs to a run that is still going or that was     *)
(* killed: no run that ended on its own leaves its lock behind, whichever   *)
(* of its exits it took (the leak on every quiet run recounted at lines     *)
(* 341-345).                                                                *)
NoLeakedLock == lock # NoRun => pc[lock] \in Holding \cup {"dead"}

(* Each takeover of a lock judged dead lets at most one extra run in beside *)
(* the holder; while nobody has taken a lock over, one run at most is       *)
(* between creating the lock and releasing it (the creation with `wx' at    *)
(* line 304, the liveness check, and the release of line 385).              *)
ExtraRunsBounded == Cardinality(Holders) <= 1 + Cardinality(takers)

(* While nobody has taken a lock over, the run inside is the one on disk,   *)
(* so the check-then-unlink of line 385 removes its own file and no other.  *)
OwnsUnlessTakeover == takers = {} => \A r \in Holders : lock = r

(* "Second runner exits rather than queues": every run that starts ends,    *)
(* even when the pid in the lock file now belongs to an unrelated process   *)
(* that never goes away.                                                    *)
EveryRunEnds == \A r \in Runs : Running(r) ~> ~Running(r)

NothingElseAlive(r) == \A s \in Runs \ {r} : ~Running(s) /\ s \notin foreign

(* A lock held by a dead process is not a lock (lines 288-293): a run that  *)
(* is alone gets in, whatever earlier runs left on disk when killed.        *)
TheDeadDoNotBlock ==
  \A r \in Runs :
    pc[r] = "create" /\ NothingElseAlive(r)
      ~> \/ pc[r] \in {"ingest", "dead"}
         \/ ~NothingElseAlive(r)
=============================================================================
