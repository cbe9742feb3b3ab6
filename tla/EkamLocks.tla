------------------------------ MODULE EkamLocks ------------------------------
(***************************************************************************)
(* The locks of src/ekam/ekam.cpp: what keeps two Ekam processes out of    *)
(* one directory, and tells the second how the build of the first ended.   *)
(*                                                                         *)
(* Two files in tmp/ are locked with flock(): .ekam-lock by the process    *)
(* that builds, for as long as it lives, and .ekam-lock-active by it while *)
(* actions run.  The second also holds the verdicts: each build writes     *)
(* "pass" or "fail" where the process's last write ended, and a process    *)
(* that waits reads one byte at the start.  The file outlives them all.    *)
(*                                                                         *)
(* File systems without locks, where the code warns and goes on, are left  *)
(* out.                                                                    *)
(***************************************************************************)
EXTENDS Naturals, Sequences

CONSTANTS
  Procs,      \* processes, each of which may run any number of times
  Nobody,       \* no process
  MaxBuilds   \* bound: builds of one continuous run

ASSUME LocksAssumption == Nobody \notin Procs /\ MaxBuilds \in Nat \ {0}

VARIABLES
  pc,          \* where each process is
  continuous,  \* the -c option
  failed,      \* EkamLocks::failed
  offset,      \* of its descriptor of the active lock file, in verdicts
  status,      \* how it last ended
  mainLock,    \* who holds .ekam-lock
  exclusive,   \* who holds .ekam-lock-active exclusively
  shared,      \* who shares it
  contents,    \* of .ekam-lock-active
  firstOf,     \* history: ... and the last one that was its process's first
  since        \* history: what has happened since a waiting process asked

locks == <<mainLock, exclusive, shared>>
history == <<firstOf, since>>
lockVars == <<pc, continuous, failed, offset, status, locks, contents, history>>

Verdicts == {"pass", "fail"}

LocksTypeOK ==
  /\ pc \in [Procs -> {"off", "opened", "waiting", "reading", "idle", "starting", "building"}]
  /\ continuous \in [Procs -> BOOLEAN]
  /\ failed \in [Procs -> BOOLEAN]
  /\ offset \in [Procs -> 0 .. MaxBuilds]
  /\ status \in [Procs -> {"none", "zero", "one", "threw", "killed"}]
  /\ mainLock \in Procs \cup {Nobody}
  /\ exclusive \in Procs \cup {Nobody}
  /\ shared \subseteq Procs
  /\ contents \in Seq(Verdicts) /\ Len(contents) <= MaxBuilds
  /\ firstOf \in Verdicts \cup {"none"}
  /\ since \in [Procs -> {"asked", "building"} \cup Verdicts]

LocksInit ==
  /\ pc = [p \in Procs |-> "off"]
  /\ continuous = [p \in Procs |-> FALSE]
  /\ failed = [p \in Procs |-> FALSE]
  /\ offset = [p \in Procs |-> 0]
  /\ status = [p \in Procs |-> "none"]
  /\ mainLock = Nobody
  /\ exclusive = Nobody
  /\ shared = {}
  /\ contents = <<>>
  /\ firstOf = "none"
  /\ since = [p \in Procs |-> "asked"]

-----------------------------------------------------------------------------

\* The end of a process: the kernel takes back its locks.
\* Mutant: the descriptors are open in its children too, which live on.
LeaveToChildren(p, how) ==
  /\ pc' = [pc EXCEPT ![p] = "off"]
  /\ status' = [status EXCEPT ![p] = how]
  /\ UNCHANGED locks

Leave(p, how) ==
  /\ pc' = [pc EXCEPT ![p] = "off"]
  /\ status' = [status EXCEPT ![p] = how]
  /\ mainLock' = IF mainLock = p THEN Nobody ELSE mainLock
  /\ exclusive' = IF exclusive = p THEN Nobody ELSE exclusive
  /\ shared' = shared \ {p}

ExitStatus(hasFailures) == IF hasFailures THEN "one" ELSE "zero"

\* main() opens both files, creating them empty if there are none.
Open(p) ==
  /\ pc[p] = "off"
  /\ pc' = [pc EXCEPT ![p] = "opened"]
  /\ \E c \in BOOLEAN : continuous' = [continuous EXCEPT ![p] = c]
  /\ failed' = [failed EXCEPT ![p] = FALSE]
  /\ offset' = [offset EXCEPT ![p] = 0]
  /\ status' = [status EXCEPT ![p] = "none"]
  /\ UNCHANGED <<locks, contents, history>>

\* tryTakeMainLock() succeeds: this process will build.
TakeMainLock(p) ==
  /\ pc[p] = "opened"
  /\ mainLock = Nobody
  /\ mainLock' = p
  /\ pc' = [pc EXCEPT ![p] = "idle"]
  /\ UNCHANGED <<continuous, failed, offset, status, exclusive, shared, contents, history>>

\* It fails in continuous mode: "Ekam is already running in this directory."
GiveUp(p) ==
  /\ pc[p] = "opened"
  /\ mainLock # Nobody
  /\ continuous[p]
  /\ Leave(p, "one")
  /\ UNCHANGED <<continuous, failed, offset, contents, history>>

\* It fails otherwise: "Waiting for build to complete...".
Wait(p) ==
  /\ pc[p] = "opened"
  /\ mainLock # Nobody
  /\ ~continuous[p]
  /\ pc' = [pc EXCEPT ![p] = "waiting"]
  /\ since' = [since EXCEPT ![p] =
                 IF exclusive # Nobody /\ offset[exclusive] = 0 THEN "building" ELSE "asked"]
  /\ UNCHANGED <<continuous, failed, offset, status, locks, contents, firstOf>>

\* flock(activeLock, LOCK_SH) returns.
\* Mutant: the waiting process only asks for a lock, and reads without one.
TakeSharedAnyway(p) ==
  /\ pc[p] = "waiting"
  /\ pc' = [pc EXCEPT ![p] = "reading"]
  /\ UNCHANGED <<continuous, failed, offset, status, locks, contents, history>>

TakeShared(p) ==
  /\ pc[p] = "waiting"
  /\ exclusive = Nobody
  /\ shared' = shared \cup {p}
  /\ pc' = [pc EXCEPT ![p] = "reading"]
  /\ UNCHANGED <<continuous, failed, offset, status, mainLock, exclusive, contents, history>>

\* The rest of waitForOther(), and the end of main().
ReadVerdict(p) ==
  /\ pc[p] = "reading"
  /\ failed' = [failed EXCEPT ![p] = contents # <<>> /\ contents[1] = "fail"]
  /\ Leave(p, IF contents = <<>> THEN "threw" ELSE ExitStatus(contents[1] = "fail"))
  /\ UNCHANGED <<continuous, offset, contents, history>>

\* startingAction(), for the first action to start: it asks for the lock ...
StartingAction(p) ==
  /\ pc[p] = "idle"
  /\ offset[p] < IF continuous[p] THEN MaxBuilds ELSE 1
  /\ pc' = [pc EXCEPT ![p] = "starting"]
  /\ UNCHANGED <<continuous, failed, offset, status, locks, contents, history>>

\* ... and flock(activeLock, LOCK_EX) returns.
\* Mutant: a shared lock is no obstacle.
TakeExclusiveAnyway(p) ==
  /\ pc[p] = "starting"
  /\ exclusive = Nobody
  /\ exclusive' = p
  /\ pc' = [pc EXCEPT ![p] = "building"]
  /\ UNCHANGED <<continuous, failed, offset, status, mainLock, shared, contents, history>>

TakeExclusive(p) ==
  /\ pc[p] = "starting"
  /\ exclusive = Nobody
  /\ shared = {}
  /\ exclusive' = p
  /\ pc' = [pc EXCEPT ![p] = "building"]
  /\ UNCHANGED <<continuous, failed, offset, status, mainLock, shared, contents, history>>

\* write() at the descriptor's offset.
\* Mutant: the file is opened for appending.
WriteAtEnd(p, v) == contents' = Append(contents, v)

Write(p, v) ==
  contents' = [i \in 1 .. (IF offset[p] < Len(contents) THEN Len(contents) ELSE offset[p] + 1) |->
                 IF i = offset[p] + 1 THEN v ELSE contents[i]]

\* idle(): the verdict is written and the active lock released.
Idle(p, v) ==
  /\ pc[p] = "building"
  /\ pc' = [pc EXCEPT ![p] = "idle"]
  /\ Write(p, v)
  /\ offset' = [offset EXCEPT ![p] = @ + 1]
  /\ failed' = [failed EXCEPT ![p] = v = "fail"]
  /\ exclusive' = Nobody
  /\ firstOf' = IF offset[p] = 0 THEN v ELSE firstOf
  /\ since' = [q \in Procs |-> IF offset[p] = 0 /\ since[q] # "asked" THEN v ELSE since[q]]
  /\ UNCHANGED <<continuous, status, mainLock, shared>>

\* idle() with nothing running, when a file is removed whose actions had ended.
IdleAlready(p, v) ==
  /\ pc[p] = "idle"
  /\ continuous[p]
  /\ offset[p] > 0
  /\ failed' = [failed EXCEPT ![p] = v = "fail"]
  /\ UNCHANGED <<pc, continuous, offset, status, locks, contents, history>>

\* The event loop of a single build ends after its build, or at once if there
\* are no sources.
EndProcess(p) ==
  /\ pc[p] = "idle"
  /\ ~continuous[p]
  /\ Leave(p, ExitStatus(failed[p]))
  /\ UNCHANGED <<continuous, failed, offset, contents, history>>

\* A process is interrupted or killed.
Crash(p) ==
  /\ pc[p] # "off"
  /\ Leave(p, "killed")
  /\ since' = [q \in Procs |-> IF p = mainLock /\ since[q] = "building" THEN "asked" ELSE since[q]]
  /\ UNCHANGED <<continuous, failed, offset, contents, firstOf>>

LocksNext ==
  \E p \in Procs :
    \/ Open(p) \/ TakeMainLock(p) \/ GiveUp(p) \/ Wait(p) \/ TakeShared(p) \/ ReadVerdict(p)
    \/ StartingAction(p) \/ TakeExclusive(p) \/ EndProcess(p) \/ Crash(p)
    \/ \E v \in Verdicts : Idle(p, v) \/ IdleAlready(p, v)

\* A process that can go on does, and every build ends.  flock() does not pass
\* over a process that waits for the lock each time it is released.
LocksFairness ==
  \A p \in Procs :
    /\ WF_lockVars(TakeMainLock(p) \/ GiveUp(p) \/ Wait(p))
    /\ WF_lockVars(ReadVerdict(p))
    /\ WF_lockVars(EndProcess(p))
    /\ WF_lockVars(\E v \in Verdicts : Idle(p, v))
    /\ SF_lockVars(TakeShared(p))
    /\ SF_lockVars(TakeExclusive(p))

LocksSpec == LocksInit /\ [][LocksNext]_lockVars
LocksFairSpec == LocksSpec /\ LocksFairness

-----------------------------------------------------------------------------
(***************************************************************************)
(* Properties.                                                             *)
(***************************************************************************)

\* Nothing is built while somebody reads how the last build ended, and only the
\* owner of the directory builds: idle() never writes under a reader's eyes.
VerdictIsStill ==
  /\ \A p \in Procs : pc[p] \in {"idle", "starting", "building"} => mainLock = p
  /\ \A p, q \in Procs : pc[p] = "building" => pc[q] # "reading"

\* The byte that waitForOther() reads was written by the first build of a
\* process, the last such build to end, however many builds there were since.
FirstByte == firstOf = IF contents = <<>> THEN "none" ELSE contents[1]

\* A process that asked while the first build of another was under way returns
\* the verdict of that build, or of the first build of a later process, unless
\* the one it asked was killed.
ToldOfBuild ==
  [][\A p \in Procs : ReadVerdict(p) /\ since[p] # "asked" =>
       since[p] \in Verdicts /\ status'[p] = ExitStatus(since[p] = "fail")]_lockVars

WaiterReturns == \A p \in Procs : pc[p] = "waiting" ~> pc[p] \in {"off", "opened"}
BuildBegins == \A p \in Procs : pc[p] = "starting" ~> pc[p] # "starting"

\* A process that waits for another's build returns at last, and a build that
\* waits for the readers of the last verdict begins, whoever crashes.
NobodyWaitsForEver == WaiterReturns /\ BuildBegins
=============================================================================
