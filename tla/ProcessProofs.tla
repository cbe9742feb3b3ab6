---------------------------- MODULE ProcessProofs ----------------------------
(***************************************************************************)
(* Proofs about processes: the locks between those that build (EkamLocks), *)
(* for any number of processes and builds; what becomes of the children of *)
(* one of them (ProcessExit), for any number of processes and              *)
(* Subprocesses, with and without children that nobody waits for; and the  *)
(* loop that each of them runs (EventLoop), for any number of promises,    *)
(* files and operations of the program.                                    *)
(***************************************************************************)
EXTENDS EkamLocks, ProcessExit, EventLoop, SequenceLemmas, TLAPS

----------------------------------------------------------------------------
(* EkamLocks.                                                              *)

\* Who holds which lock, by where it is; nobody shares the active lock while
\* somebody has it to himself.
LocksHeld ==
  /\ \A p \in Procs : pc[p] \in {"idle", "starting", "building"} <=> mainLock = p
  /\ \A p \in Procs : pc[p] = "building" <=> exclusive = p
  /\ \A p \in Procs : pc[p] = "reading" <=> p \in shared
  /\ exclusive # Nobody => shared = {}

\* A descriptor starts at the start; the one that writes is at most at the end of
\* the file, with room for one more verdict while a build is under way.
WriterPlace ==
  \A p \in Procs :
    /\ pc[p] = "opened" => offset[p] = 0
    /\ mainLock = p => offset[p] <= Len(contents)
    /\ pc[p] \in {"starting", "building"} => offset[p] < MaxBuilds

\* What a waiting process has seen since it asked: a first build that is still
\* under way, or the one that was the last to end.
SeenSince ==
  \A p \in Procs :
    /\ pc[p] = "waiting" /\ since[p] = "building" =>
         exclusive # Nobody /\ offset[exclusive] = 0
    /\ pc[p] = "reading" => since[p] # "building"
    /\ pc[p] \in {"waiting", "reading"} /\ since[p] \in Verdicts => since[p] = firstOf

LocksInv == LocksTypeOK /\ LocksHeld /\ FirstByte /\ WriterPlace /\ SeenSince

\* write() at an offset within the file, or at its end, replaces one verdict or
\* adds one, and is the first only at the start.
LEMMA WriteKeeps ==
  ASSUME LocksTypeOK, NEW p \in Procs, NEW v \in Verdicts, offset[p] <= Len(contents),
         offset[p] < MaxBuilds, Write(p, v)
  PROVE  /\ contents' \in Seq(Verdicts)
         /\ Len(contents') <= MaxBuilds
         /\ offset[p] + 1 <= Len(contents')
         /\ Len(contents) <= Len(contents')
         /\ contents' # <<>>
         /\ contents'[1] = IF offset[p] = 0 THEN v ELSE contents[1]
<1> DEFINE n == IF offset[p] < Len(contents) THEN Len(contents) ELSE offset[p] + 1
<1>1. offset[p] \in Nat /\ Len(contents) \in Nat /\ contents \in Seq(Verdicts)
  BY LocksAssumption DEF LocksTypeOK
<1>2. n \in Nat /\ n >= 1 /\ n >= Len(contents) /\ n >= offset[p] + 1 /\ n <= MaxBuilds
  BY <1>1, LocksAssumption DEF LocksTypeOK
<1>3. contents' = [i \in 1 .. n |-> IF i = offset[p] + 1 THEN v ELSE contents[i]]
  BY DEF Write
<1>4. \A i \in 1 .. n : i = offset[p] + 1 \/ i \in 1 .. Len(contents)
  BY <1>1
<1>5. \A i \in 1 .. Len(contents) : contents[i] \in Verdicts
  BY <1>1
<1> HIDE DEF n
<1>6. contents' \in [1 .. n -> Verdicts]
  BY <1>3, <1>4, <1>5
<1>7. contents' \in Seq(Verdicts) /\ Len(contents') = n
  BY <1>2, <1>6
<1>8. contents'[1] = IF offset[p] = 0 THEN v ELSE contents[1]
  BY <1>1, <1>2, <1>3
<1> QED
  BY <1>2, <1>7, <1>8

\* A process that ends, or is killed, gives back what it holds.
LEMMA LeaveKeeps ==
  ASSUME LocksTypeOK, LocksHeld, NEW p \in Procs, NEW how \in {"zero", "one", "threw", "killed"},
         Leave(p, how)
  PROVE  /\ LocksHeld'
         /\ pc' \in [Procs -> {"off", "opened", "waiting", "reading", "idle", "starting", "building"}]
         /\ status' \in [Procs -> {"none", "zero", "one", "threw", "killed"}]
         /\ mainLock' \in Procs \cup {Nobody}
         /\ exclusive' \in Procs \cup {Nobody}
         /\ shared' \subseteq Procs
         /\ \A q \in Procs : pc'[q] = IF q = p THEN "off" ELSE pc[q]
BY LocksAssumption DEF Leave, LocksTypeOK, LocksHeld

\* Every step of every process keeps the invariant.
LEMMA LocksNextKeeps ==
  ASSUME LocksInv, [LocksNext]_lockVars
  PROVE  LocksInv'
<1> USE LocksAssumption
<1>1. CASE UNCHANGED lockVars
  BY <1>1 DEF LocksInv, LocksTypeOK, LocksHeld, FirstByte, WriterPlace, SeenSince, lockVars, locks, history
<1> SUFFICES ASSUME NEW p \in Procs,
                    \/ Open(p) \/ TakeMainLock(p) \/ GiveUp(p) \/ Wait(p) \/ TakeShared(p)
                    \/ ReadVerdict(p) \/ StartingAction(p) \/ TakeExclusive(p) \/ EndProcess(p)
                    \/ Crash(p) \/ \E v \in Verdicts : Idle(p, v) \/ IdleAlready(p, v)
             PROVE  LocksInv'
  BY <1>1 DEF LocksNext
<1>2. CASE Open(p)
  <2>1. LocksTypeOK'
    BY <1>2 DEF LocksInv, Open, LocksTypeOK, locks, history
  <2>2. LocksHeld'
    BY <1>2 DEF LocksInv, Open, LocksTypeOK, LocksHeld, locks
  <2>3. FirstByte'
    BY <1>2 DEF LocksInv, Open, FirstByte, history
  <2>4. WriterPlace'
    BY <1>2 DEF LocksInv, Open, LocksTypeOK, LocksHeld, WriterPlace, locks
  <2>5. SeenSince'
    BY <1>2 DEF LocksInv, Open, LocksTypeOK, LocksHeld, SeenSince, locks, history
  <2> QED
    BY <2>1, <2>2, <2>3, <2>4, <2>5 DEF LocksInv
<1>3. CASE TakeMainLock(p)
  <2>1. LocksTypeOK'
    BY <1>3 DEF LocksInv, TakeMainLock, LocksTypeOK, history
  <2>2. LocksHeld'
    BY <1>3 DEF LocksInv, TakeMainLock, LocksTypeOK, LocksHeld
  <2>3. FirstByte'
    BY <1>3 DEF LocksInv, TakeMainLock, FirstByte, history
  <2>4. WriterPlace'
    BY <1>3 DEF LocksInv, TakeMainLock, LocksTypeOK, LocksHeld, WriterPlace
  <2>5. SeenSince'
    BY <1>3 DEF LocksInv, TakeMainLock, LocksTypeOK, SeenSince, history
  <2> QED
    BY <2>1, <2>2, <2>3, <2>4, <2>5 DEF LocksInv
<1>4. CASE Wait(p)
  <2>1. LocksTypeOK'
    BY <1>4 DEF LocksInv, Wait, LocksTypeOK, locks
  <2>2. LocksHeld'
    BY <1>4 DEF LocksInv, Wait, LocksTypeOK, LocksHeld, locks
  <2>3. FirstByte'
    BY <1>4 DEF LocksInv, Wait, FirstByte
  <2>4. WriterPlace'
    BY <1>4 DEF LocksInv, Wait, LocksTypeOK, WriterPlace, locks
  <2>5. SeenSince'
    <3>1. /\ since'[p] = "building" => exclusive # Nobody /\ offset[exclusive] = 0
          /\ since'[p] \notin Verdicts
      <4>1. since'[p] = IF exclusive # Nobody /\ offset[exclusive] = 0 THEN "building" ELSE "asked"
        BY <1>4 DEF LocksInv, Wait, LocksTypeOK
      <4> QED
        BY <4>1 DEF Verdicts
    <3>2. ASSUME NEW q \in Procs, q # p
          PROVE  since'[q] = since[q] /\ pc'[q] = pc[q]
      BY <1>4, <3>2 DEF LocksInv, Wait, LocksTypeOK
    <3>3. /\ pc'[p] = "waiting"
          /\ UNCHANGED <<exclusive, offset, firstOf>>
      BY <1>4 DEF LocksInv, Wait, LocksTypeOK, locks
    <3> QED
      BY <3>1, <3>2, <3>3 DEF LocksInv, SeenSince
  <2> QED
    BY <2>1, <2>2, <2>3, <2>4, <2>5 DEF LocksInv
<1>5. CASE TakeShared(p)
  <2>1. LocksTypeOK'
    BY <1>5 DEF LocksInv, TakeShared, LocksTypeOK, history
  <2>2. LocksHeld'
    BY <1>5 DEF LocksInv, TakeShared, LocksTypeOK, LocksHeld
  <2>3. FirstByte'
    BY <1>5 DEF LocksInv, TakeShared, FirstByte, history
  <2>4. WriterPlace'
    BY <1>5 DEF LocksInv, TakeShared, LocksTypeOK, WriterPlace
  <2>5. SeenSince'
    BY <1>5 DEF LocksInv, TakeShared, LocksTypeOK, SeenSince, history
  <2> QED
    BY <2>1, <2>2, <2>3, <2>4, <2>5 DEF LocksInv
<1>6. CASE StartingAction(p)
  <2>1. LocksTypeOK'
    BY <1>6 DEF LocksInv, StartingAction, LocksTypeOK, locks, history
  <2>2. LocksHeld'
    BY <1>6 DEF LocksInv, StartingAction, LocksTypeOK, LocksHeld, locks
  <2>3. FirstByte'
    BY <1>6 DEF LocksInv, StartingAction, FirstByte, history
  <2>4. WriterPlace'
    <3>1. offset[p] < MaxBuilds
      BY <1>6 DEF LocksInv, StartingAction, LocksTypeOK
    <3> QED
      BY <1>6, <3>1 DEF LocksInv, StartingAction, LocksTypeOK, WriterPlace, locks
  <2>5. SeenSince'
    BY <1>6 DEF LocksInv, StartingAction, LocksTypeOK, SeenSince, locks, history
  <2> QED
    BY <2>1, <2>2, <2>3, <2>4, <2>5 DEF LocksInv
<1>7. CASE TakeExclusive(p)
  <2>1. LocksTypeOK'
    BY <1>7 DEF LocksInv, TakeExclusive, LocksTypeOK, history
  <2>2. LocksHeld'
    BY <1>7 DEF LocksInv, TakeExclusive, LocksTypeOK, LocksHeld
  <2>3. FirstByte'
    BY <1>7 DEF LocksInv, TakeExclusive, FirstByte, history
  <2>4. WriterPlace'
    BY <1>7 DEF LocksInv, TakeExclusive, LocksTypeOK, WriterPlace
  <2>5. SeenSince'
    BY <1>7 DEF LocksInv, TakeExclusive, LocksTypeOK, SeenSince, history
  <2> QED
    BY <2>1, <2>2, <2>3, <2>4, <2>5 DEF LocksInv
<1>8. ASSUME NEW v \in Verdicts, Idle(p, v)
      PROVE  LocksInv'
  <2>1. mainLock = p /\ exclusive = p /\ offset[p] <= Len(contents) /\ offset[p] < MaxBuilds
    BY <1>8 DEF LocksInv, Idle, LocksHeld, WriterPlace
  <2>2. /\ contents' \in Seq(Verdicts)
        /\ Len(contents') <= MaxBuilds
        /\ offset[p] + 1 <= Len(contents')
        /\ contents' # <<>>
        /\ contents'[1] = IF offset[p] = 0 THEN v ELSE contents[1]
    BY <1>8, <2>1, WriteKeeps DEF LocksInv, Idle
  <2>3. offset[p] \in Nat /\ offset' = [offset EXCEPT ![p] = offset[p] + 1]
    BY <1>8 DEF LocksInv, Idle, LocksTypeOK
  <2>4. LocksTypeOK'
    BY <1>8, <2>1, <2>2, <2>3 DEF LocksInv, Idle, LocksTypeOK, Verdicts
  <2>5. LocksHeld'
    BY <1>8 DEF LocksInv, Idle, LocksTypeOK, LocksHeld
  <2>6. FirstByte'
    <3>1. CASE offset[p] = 0
      BY <1>8, <2>2, <3>1 DEF Idle, FirstByte
    <3>2. CASE offset[p] # 0
      <4>1. contents # <<>>
        BY <2>1, <2>3, <3>2
      <4> QED
        BY <1>8, <2>2, <3>2, <4>1 DEF LocksInv, Idle, FirstByte
    <3> QED
      BY <3>1, <3>2
  <2>7. WriterPlace'
    BY <1>8, <2>1, <2>2, <2>3 DEF LocksInv, Idle, LocksTypeOK, LocksHeld, WriterPlace
  <2>8. SeenSince'
    <3> SUFFICES ASSUME NEW q \in Procs, pc'[q] \in {"waiting", "reading"}
                 PROVE  since'[q] # "building" /\ (since'[q] \in Verdicts => since'[q] = firstOf')
      BY DEF SeenSince
    <3>1. pc'[q] = pc[q] /\ pc[q] # "reading"
      BY <1>8, <2>1 DEF LocksInv, Idle, LocksTypeOK, LocksHeld
    <3>2. CASE offset[p] = 0
      BY <1>8, <3>1, <3>2 DEF Idle, Verdicts
    <3>3. CASE offset[p] # 0
      <4>1. since'[q] = since[q] /\ firstOf' = firstOf
        BY <1>8, <3>3 DEF LocksInv, LocksTypeOK, Idle
      <4> QED
        BY <2>1, <3>1, <3>3, <4>1 DEF LocksInv, SeenSince
    <3> QED
      BY <3>2, <3>3
  <2> QED
    BY <2>4, <2>5, <2>6, <2>7, <2>8 DEF LocksInv
<1>9. ASSUME NEW v \in Verdicts, IdleAlready(p, v)
      PROVE  LocksInv'
  BY <1>9 DEF LocksInv, IdleAlready, LocksTypeOK, LocksHeld, FirstByte, WriterPlace, SeenSince, locks, history
<1>10. ASSUME NEW how \in {"zero", "one", "threw", "killed"}, Leave(p, how),
              failed' \in [Procs -> BOOLEAN],
              \/ UNCHANGED since /\ (pc[p] # "building")
              \/ since' = [q \in Procs |-> IF p = mainLock /\ since[q] = "building"
                                           THEN "asked" ELSE since[q]],
              UNCHANGED <<continuous, offset, contents, firstOf>>
       PROVE  LocksInv'
  <2>1. /\ LocksHeld'
        /\ pc' \in [Procs -> {"off", "opened", "waiting", "reading", "idle", "starting", "building"}]
        /\ status' \in [Procs -> {"none", "zero", "one", "threw", "killed"}]
        /\ mainLock' \in Procs \cup {Nobody}
        /\ exclusive' \in Procs \cup {Nobody}
        /\ shared' \subseteq Procs
        /\ \A q \in Procs : pc'[q] = IF q = p THEN "off" ELSE pc[q]
    BY <1>10, LeaveKeeps DEF LocksInv
  <2>2. LocksTypeOK'
    BY <1>10, <2>1 DEF LocksInv, LocksTypeOK
  <2>3. FirstByte'
    BY <1>10 DEF LocksInv, FirstByte
  <2>4. WriterPlace'
    BY <1>10, <2>1 DEF LocksInv, WriterPlace, Leave
  <2>5. SeenSince'
    <3> SUFFICES ASSUME NEW q \in Procs, pc'[q] \in {"waiting", "reading"}
                 PROVE  /\ pc'[q] = "waiting" /\ since'[q] = "building" =>
                             exclusive' # Nobody /\ offset'[exclusive'] = 0
                        /\ pc'[q] = "reading" => since'[q] # "building"
                        /\ since'[q] \in Verdicts => since'[q] = firstOf'
      BY DEF SeenSince
    <3>1. q # p /\ pc'[q] = pc[q]
      BY <2>1
    <3>2. CASE UNCHANGED since /\ pc[p] # "building"
      <4>1. exclusive' = exclusive
        BY <1>10, <3>2 DEF LocksInv, LocksHeld, Leave
      <4> QED
        BY <1>10, <3>1, <3>2, <4>1 DEF LocksInv, SeenSince
    <3>3. CASE since' = [r \in Procs |-> IF p = mainLock /\ since[r] = "building"
                                         THEN "asked" ELSE since[r]]
      <4>1. since'[q] = IF p = mainLock /\ since[q] = "building" THEN "asked" ELSE since[q]
        BY <3>3
      <4>2. CASE p = mainLock
        BY <1>10, <3>1, <4>1, <4>2 DEF LocksInv, SeenSince, Verdicts
      <4>3. CASE p # mainLock
        <5>1. exclusive' = exclusive
          BY <1>10, <4>3 DEF LocksInv, LocksHeld, Leave
        <5> QED
          BY <1>10, <3>1, <4>1, <4>3, <5>1 DEF LocksInv, SeenSince
      <4> QED
        BY <4>2, <4>3
    <3> QED
      BY <1>10, <3>2, <3>3
  <2> QED
    BY <2>1, <2>2, <2>3, <2>4, <2>5 DEF LocksInv
<1>11. CASE GiveUp(p)
  BY <1>10, <1>11 DEF GiveUp, LocksInv, LocksTypeOK, history
<1>12. CASE ReadVerdict(p)
  BY <1>10, <1>12 DEF ReadVerdict, ExitStatus, LocksInv, LocksTypeOK, history
<1>13. CASE EndProcess(p)
  BY <1>10, <1>13 DEF EndProcess, ExitStatus, LocksInv, LocksTypeOK, history
<1>14. CASE Crash(p)
  BY <1>10, <1>14 DEF Crash, LocksInv, LocksTypeOK
<1> QED
  BY <1>2, <1>3, <1>4, <1>5, <1>6, <1>7, <1>8, <1>9, <1>11, <1>12, <1>13, <1>14

\* The invariant of the locks and of the file they guard.
THEOREM LocksInvariant == LocksSpec => []LocksInv
<1>1. LocksInit => LocksInv
  BY LocksAssumption DEF LocksInit, LocksInv, LocksTypeOK, LocksHeld, FirstByte, WriterPlace, SeenSince, Verdicts
<1>2. LocksInv /\ [LocksNext]_lockVars => LocksInv'
  BY LocksNextKeeps
<1> QED
  BY <1>1, <1>2, PTL DEF LocksSpec

\* One process builds at a time, and none while another reads a verdict.
THEOREM VerdictIsNeverWrittenUnderAReader == LocksSpec => []VerdictIsStill
<1>1. LocksInv => VerdictIsStill
  BY LocksAssumption DEF LocksInv, LocksTypeOK, LocksHeld, VerdictIsStill
<1> QED
  BY <1>1, LocksInvariant, PTL

\* waitForOther() reads what the last first build of a process wrote.
THEOREM ReadsTheFirstByte == LocksSpec => []FirstByte
<1>1. LocksInv => FirstByte
  BY DEF LocksInv
<1> QED
  BY <1>1, LocksInvariant, PTL

\* Who asked during a first build is told how it, or a later one, ended.
THEOREM WaiterIsToldOfBuild == LocksSpec => ToldOfBuild
<1> DEFINE Told == \A p \in Procs : ReadVerdict(p) /\ since[p] # "asked" =>
                     since[p] \in Verdicts /\ status'[p] = ExitStatus(since[p] = "fail")
<1>1. LocksInv /\ [LocksNext]_lockVars => [Told]_lockVars
  <2> SUFFICES ASSUME LocksInv, NEW p \in Procs, ReadVerdict(p), since[p] # "asked"
               PROVE  since[p] \in Verdicts /\ status'[p] = ExitStatus(since[p] = "fail")
    OBVIOUS
  <2>1. since[p] \in Verdicts /\ since[p] = firstOf
    BY DEF ReadVerdict, LocksInv, SeenSince, LocksTypeOK
  <2>2. contents # <<>> /\ contents[1] = since[p]
    BY <2>1 DEF LocksInv, FirstByte, Verdicts
  <2>3. status'[p] = ExitStatus(contents[1] = "fail")
    BY <2>2 DEF ReadVerdict, Leave, LocksInv, LocksTypeOK
  <2> QED
    BY <2>1, <2>2, <2>3
<1> QED
  BY <1>1, LocksInvariant, PTL DEF LocksSpec, ToldOfBuild

----------------------------------------------------------------------------
(* ProcessExit.                                                            *)
(*                                                                         *)
(* HandlersAreOwners is not inductive by itself: that a process id which   *)
(* is given again takes nothing away from anybody rests on what a          *)
(* Subprocess remembers between the reaping of its process and the         *)
(* callback, and that the loop leaves nothing behind on every child having *)
(* a handler.                                                              *)

\* Between reaping and callback a Subprocess remembers a process that is gone;
\* before and after, it remembers none.
Remembered ==
  \A s \in Subs :
    /\ promise[s] = "queued" => pid[s] \in Pids /\ process[pid[s]] = "free"
    /\ promise[s] = "waiting" => pid[s] \in Pids
    /\ promise[s] \in {"none", "told"} => pid[s] = None

\* Every child has a handler, but those from elsewhere.
AllWaitedFor ==
  \A p \in Pids : process[p] # "free" /\ owner[p] # None => processExitHandlerMap[p] # None

\* The loop ends only when it has nothing to do.
Ended == ~looping => ~watching /\ ~reaping /\ \A s \in Subs : promise[s] # "queued"

ExitsInv == TypeOK /\ HandlersAreOwners /\ Remembered /\ AllWaitedFor /\ Ended

LEMMA InitInvariant == Init => ExitsInv
<1> SUFFICES ASSUME Init PROVE ExitsInv
  OBVIOUS
<1>1. TypeOK
  BY DEF Init, TypeOK
<1>2. Owners /\ Waiters
  BY ProcessAssumption DEF Init, Owners, Waiters
<1>3. Watched
  BY DEF Init, Watched
<1>4. Remembered /\ AllWaitedFor /\ Ended
  BY DEF Init, Remembered, AllWaitedFor, Ended
<1> QED
  BY <1>1, <1>2, <1>3, <1>4 DEF ExitsInv, HandlersAreOwners

USE DEF kernel, manager, HandlersAreOwners

\* Nobody waits for a process twice.
LEMMA OneWaiter ==
  ASSUME ExitsInv
  PROVE  \A s, t \in Subs :
           promise[s] = "waiting" /\ promise[t] = "waiting" /\ pid[s] = pid[t] => s = t
  BY DEF ExitsInv, Owners, Waiters, Watched

\* A process that is killed when s is destroyed is the one s waits for.
LEMMA KilledIsWaitedFor ==
  ASSUME ExitsInv, NEW s \in Subs, pid[s] # None, process[pid[s]] # "free"
  PROVE  promise[s] = "waiting" /\ pid[s] \in Pids
  BY DEF ExitsInv, TypeOK, Remembered

LEMMA ExitInvariant == ASSUME ExitsInv, NEW p \in Pids, Exit(p) PROVE ExitsInv'
  BY ProcessAssumption
     DEF Exit, ExitsInv, TypeOK, Owners, Waiters, Watched, Remembered, AllWaitedFor, Ended

LEMMA StrayInvariant == ASSUME ExitsInv, NEW p \in Pids, Stray(p) PROVE ExitsInv'
<1>1. TypeOK'
  BY DEF Stray, FreePids, ExitsInv, TypeOK
<1>2. processExitHandlerMap[p] = None
  BY DEF Stray, FreePids, ExitsInv, TypeOK, Owners, Waiters, Watched
<1>3. HandlersAreOwners'
  BY <1>2, ProcessAssumption DEF Stray, FreePids, ExitsInv, TypeOK, Owners, Waiters, Watched
<1>4. Remembered'
  BY DEF Stray, FreePids, Queued, ExitsInv, TypeOK, Remembered
<1>5. AllWaitedFor' /\ Ended'
  BY DEF Stray, ExitsInv, TypeOK, AllWaitedFor, Ended
<1> QED
  BY <1>1, <1>3, <1>4, <1>5 DEF ExitsInv

LEMMA StartInvariant ==
  ASSUME ExitsInv, NEW s \in Subs, NEW p \in Pids, Start(s, p) PROVE ExitsInv'
<1>1. TypeOK'
  BY DEF Start, FreePids, ExitsInv, TypeOK
<1>2. processExitHandlerMap[p] = None /\ pid[s] = None
  BY DEF Start, FreePids, ExitsInv, TypeOK, Owners, Waiters, Watched, Remembered
<1>3. \A q \in Pids : processExitHandlerMap[q] # s
  BY DEF Start, ExitsInv, Owners, Waiters, Watched
<1>4. \A t \in Subs : promise[t] = "waiting" => pid[t] # p
  BY <1>2, ProcessAssumption DEF ExitsInv, Owners, Waiters, Watched
<1>5. HandlersAreOwners'
  BY <1>2, <1>3, <1>4, ProcessAssumption
     DEF Start, FreePids, ExitsInv, TypeOK, Owners, Waiters, Watched, Remembered
<1>6. Remembered'
  BY DEF Start, FreePids, Queued, ExitsInv, TypeOK, Remembered
<1>7. AllWaitedFor' /\ Ended'
  BY ProcessAssumption DEF Start, InCallback, ExitsInv, TypeOK, AllWaitedFor, Ended
<1> QED
  BY <1>1, <1>5, <1>6, <1>7 DEF ExitsInv

LEMMA DestroyInvariant == ASSUME ExitsInv, NEW s \in Subs, Destroy(s) PROVE ExitsInv'
<1>1. CASE promise[s] = "waiting"
  <2>1. pid[s] \in Pids /\ pid[s] # None /\ processExitHandlerMap[pid[s]] = s
    BY <1>1, ProcessAssumption DEF ExitsInv, Owners, Waiters, Watched, Remembered
  <2>2. process[pid[s]] # "free" /\ owner[pid[s]] = s
    BY <2>1 DEF ExitsInv, Owners, Waiters, Watched
  <2>3. /\ process' = [process EXCEPT ![pid[s]] = "free"]
        /\ owner' = [owner EXCEPT ![pid[s]] = None]
        /\ sigchld' \in BOOLEAN
        /\ processExitHandlerMap' = [processExitHandlerMap EXCEPT ![pid[s]] = None]
        /\ watching' = (watching /\ \E q \in Pids \ {pid[s]} : processExitHandlerMap[q] # None)
        /\ promise' = [promise EXCEPT ![s] = "none"]
        /\ pid' = [pid EXCEPT ![s] = None]
        /\ UNCHANGED <<reaping, looping>>
        /\ looping
    BY <1>1, <2>1, <2>2 DEF Destroy, Kill, EraseHandler, InCallback, ExitsInv, TypeOK
  <2>4. TypeOK'
    BY <2>1, <2>3 DEF ExitsInv, TypeOK
  <2>5. HandlersAreOwners'
    <3>1. Owners'
      BY <2>1, <2>3, ProcessAssumption DEF ExitsInv, TypeOK, Owners
    <3>2. \A t \in Subs \ {s} : promise[t] = "waiting" => pid[t] # pid[s]
      BY <1>1, OneWaiter
    <3>3. Waiters'
      BY <2>1, <2>3, <3>2 DEF ExitsInv, TypeOK, Waiters, Remembered
    <3>4. Watched'
      BY <2>1, <2>3 DEF ExitsInv, TypeOK, Watched
    <3> QED
      BY <3>1, <3>3, <3>4
  <2>6. Remembered'
    BY <2>1, <2>3 DEF ExitsInv, TypeOK, Remembered
  <2>7. AllWaitedFor' /\ Ended'
    BY <2>1, <2>3 DEF ExitsInv, TypeOK, AllWaitedFor, Ended
  <2> QED
    BY <2>4, <2>5, <2>6, <2>7 DEF ExitsInv
<1>2. CASE promise[s] # "waiting"
  <2>1. /\ UNCHANGED <<kernel, manager, reaping, looping>>
        /\ promise' = [promise EXCEPT ![s] = "none"]
        /\ pid' = [pid EXCEPT ![s] = None]
    BY <1>2, KilledIsWaitedFor DEF Destroy, Kill
  <2>2. \A q \in Pids : processExitHandlerMap[q] # s
    BY <1>2 DEF ExitsInv, Owners, Waiters, Watched
  <2>3. TypeOK'
    BY <2>1 DEF ExitsInv, TypeOK
  <2>4. HandlersAreOwners'
    BY <1>2, <2>1, <2>2 DEF ExitsInv, TypeOK, Owners, Waiters, Watched
  <2>5. Remembered' /\ AllWaitedFor' /\ Ended'
    BY <2>1 DEF ExitsInv, TypeOK, Remembered, AllWaitedFor, Ended
  <2> QED
    BY <2>3, <2>4, <2>5 DEF ExitsInv
<1> QED
  BY <1>1, <1>2

LEMMA RunCallbackInvariant == ASSUME ExitsInv, NEW s \in Subs, RunCallback(s) PROVE ExitsInv'
<1>1. \A q \in Pids : processExitHandlerMap[q] # s
  BY DEF RunCallback, Queued, ExitsInv, Owners, Waiters, Watched
<1>2. TypeOK'
  BY DEF RunCallback, ExitsInv, TypeOK
<1>3. HandlersAreOwners'
  BY <1>1 DEF RunCallback, Queued, ExitsInv, TypeOK, Owners, Waiters, Watched
<1>4. Remembered' /\ AllWaitedFor' /\ Ended'
  BY DEF RunCallback, InCallback, ExitsInv, TypeOK, Remembered, AllWaitedFor, Ended
<1> QED
  BY <1>2, <1>3, <1>4 DEF ExitsInv

LEMMA ReapInvariant == ASSUME ExitsInv, NEW p \in Pids, Reap(p) PROVE ExitsInv'
<1>1. PICK s \in Subs : processExitHandlerMap[p] = s
  BY DEF Reap, ExitsInv, TypeOK
<1>2. pid[s] = p /\ promise[s] = "waiting"
  BY <1>1 DEF ExitsInv, Owners, Waiters, Watched
<1>3. /\ promise' = [promise EXCEPT ![s] = "queued"]
      /\ process' = [process EXCEPT ![p] = "free"]
      /\ owner' = [owner EXCEPT ![p] = None]
      /\ processExitHandlerMap' = [processExitHandlerMap EXCEPT ![p] = None]
      /\ watching' = (watching /\ \E q \in Pids \ {p} : processExitHandlerMap[q] # None)
      /\ UNCHANGED <<sigchld, reaping, pid, looping>>
      /\ reaping
  BY <1>1 DEF Reap, EraseHandler
<1>4. TypeOK'
  BY <1>3 DEF ExitsInv, TypeOK
<1>5. HandlersAreOwners'
  <2>1. Owners'
    BY <1>2, <1>3, ProcessAssumption DEF ExitsInv, TypeOK, Owners
  <2>2. \A t \in Subs \ {s} : promise[t] = "waiting" => pid[t] # p
    BY <1>2, OneWaiter
  <2>3. Waiters'
    BY <1>2, <1>3, <2>2 DEF ExitsInv, TypeOK, Waiters, Remembered
  <2>4. Watched'
    BY <1>3 DEF ExitsInv, TypeOK, Watched
  <2> QED
    BY <2>1, <2>3, <2>4
<1>6. Remembered'
  BY <1>2, <1>3 DEF ExitsInv, TypeOK, Remembered
<1>7. AllWaitedFor' /\ Ended'
  BY <1>3 DEF ExitsInv, TypeOK, AllWaitedFor, Ended
<1> QED
  BY <1>4, <1>5, <1>6, <1>7 DEF ExitsInv

LEMMA ReapStrayInvariant == ASSUME ExitsInv, NEW p \in Pids, ReapStray(p) PROVE ExitsInv'
<1>1. TypeOK' /\ Remembered'
  BY DEF ReapStray, ExitsInv, TypeOK, Remembered
<1>2. HandlersAreOwners'
  <2>1. Owners'
    BY ProcessAssumption DEF ReapStray, ExitsInv, TypeOK, Owners
  <2>2. Waiters' /\ Watched'
    BY DEF ReapStray, ExitsInv, Waiters, Watched
  <2> QED
    BY <2>1, <2>2
<1>3. AllWaitedFor' /\ Ended'
  BY DEF ReapStray, ExitsInv, TypeOK, AllWaitedFor, Ended
<1> QED
  BY <1>1, <1>2, <1>3 DEF ExitsInv

LEMMA LoopInvariant == ASSUME ExitsInv, HandleSignal \/ ReapNone \/ End PROVE ExitsInv'
<1> USE DEF HandleSignal, ReapNone, End, InCallback
<1>1. TypeOK' /\ Remembered'
  BY DEF ExitsInv, TypeOK, Remembered
<1>2. HandlersAreOwners'
  BY DEF ExitsInv, Owners, Waiters, Watched
<1>3. AllWaitedFor' /\ Ended'
  BY DEF ExitsInv, AllWaitedFor, Ended, Queued
<1> QED
  BY <1>1, <1>2, <1>3 DEF ExitsInv

LEMMA NextInvariant == ASSUME ExitsInv, [Next]_vars PROVE ExitsInv'
<1>1. CASE UNCHANGED vars
  BY <1>1 DEF vars, ExitsInv, TypeOK, Owners, Waiters, Watched, Remembered, AllWaitedFor, Ended
<1>2. CASE Next
  BY <1>2, ExitInvariant, StrayInvariant, StartInvariant, DestroyInvariant,
     RunCallbackInvariant, ReapInvariant, ReapStrayInvariant, LoopInvariant
     DEF Next
<1> QED
  BY <1>1, <1>2

\* The invariant holds in every state.
THEOREM ExitsInvariant == Spec => []ExitsInv
  BY InitInvariant, NextInvariant, PTL DEF Spec

\* Every handler in SignalHandler::processExitHandlerMap is that of the process
\* its Subprocess started, and the signalfd is watched exactly while there is one.
THEOREM HandlersOfTheirOwn == Spec => []HandlersAreOwners
<1>1. ExitsInv => HandlersAreOwners
  BY DEF ExitsInv
<1> QED
  BY <1>1, ExitsInvariant, PTL

\* ~Subprocess() never kills or reaps a process of another Subprocess, nor one
\* from elsewhere, whatever was told when.
THEOREM NoOtherIsKilled == Spec => KillsOnlyItsOwn
<1>1. ASSUME ExitsInv, NEW s \in Subs, NEW p \in Pids, Destroy(s), process'[p] # process[p]
      PROVE  owner[p] = s
  <2>1. pid[s] # None /\ process[pid[s]] # "free"
    BY <1>1 DEF Destroy, Kill
  <2>2. promise[s] = "waiting" /\ pid[s] \in Pids
    BY <1>1, <2>1, KilledIsWaitedFor
  <2>3. process' = [process EXCEPT ![pid[s]] = "free"]
    BY <1>1, <2>1 DEF Destroy, Kill
  <2>4. p = pid[s]
    BY <1>1, <2>2, <2>3 DEF ExitsInv, TypeOK
  <2> QED
    BY <1>1, <2>2, <2>4 DEF ExitsInv, Owners, Waiters, Watched
<1>2. ExitsInv /\ [Next]_vars =>
        [\A s \in Subs, p \in Pids :
           Destroy(s) /\ process'[p] # process[p] => owner[p] = s]_vars
  BY <1>1
<1> QED
  BY <1>2, ExitsInvariant, PTL DEF Spec, KillsOnlyItsOwn

\* After the loop main() finds no zombie that a Subprocess started, and nobody is
\* left waiting.
THEOREM NoZombies == Spec => []EndsClean
<1>1. ExitsInv => EndsClean
  BY ProcessAssumption
     DEF ExitsInv, TypeOK, Owners, Waiters, Watched, Remembered, AllWaitedFor, Ended, EndsClean
<1> QED
  BY <1>1, ExitsInvariant, PTL

----------------------------------------------------------------------------
(* EventLoop.  The invariant first: promises and the queue of the executor, *)
(* between two calls that change them, are a memory with MInv(m, R, X, K)  *)
(* where those in R are being fulfilled, those in X are about to tell their *)
(* listener so, and those in K are owned by the stack.                     *)

\* The promises that p has not been told of: they are not fulfilled, or their
\* listener is about to be called.
OpenParams(m, p, X) == {d \in Params(m, p) : ~m.promises[d].fulfilled \/ d \in X}

IsMemory(m) == m = [promises |-> m.promises, asyncCallbacks |-> m.asyncCallbacks]

MemTypes(m) ==
  /\ IsMemory(m)
  /\ Live(m) \subseteq Ids
  /\ m.promises \in [Live(m) -> State]
  /\ m.asyncCallbacks \in Seq(Ids)

\* Owners and listeners, while the promises in K are on the stack.
Owned(m, K) ==
  /\ K \subseteq Live(m)
  /\ \A p \in Live(m) :
       /\ \A d \in Params(m, p) :
            d \in Live(m) /\ m.promises[d].owner = p /\ m.promises[d].listener = p
       /\ m.promises[p].owner \in Ids =>
            m.promises[p].owner \in Live(m) /\ p \in Params(m, m.promises[p].owner)
       /\ m.promises[p].owner = Stack <=> p \in K
       /\ m.promises[p].owner = Stack => m.promises[p].fulfilled
       /\ m.promises[p].owner = User => m.promises[p].listener = Null

\* What a fulfiller knows of the promises that it waits for.
CountedOf(m, p, X) ==
  /\ m.promises[p].left = Cardinality(OpenParams(m, p, X))
  /\ Params(m, p) # {} =>
       /\ m.promises[p].dependencyFailed <=>
            \E d \in Params(m, p) \ OpenParams(m, p, X) : Broken(m.promises[d].value)
       /\ m.promises[p].pending <=> OpenParams(m, p, X) = {}
Counted(m, X) == \A p \in Live(m) : CountedOf(m, p, X)

\* A promise is fulfilled, or is being, as those in R; or is queued, or waits for a
\* file or for other promises.
StagedOf(m, p, R) ==
  /\ m.promises[p].fulfilled \/ p \in R =>
       /\ Params(m, p) = {} /\ ~m.promises[p].pending /\ m.promises[p].ptr = Null
  /\ m.promises[p].fulfilled => p \notin R
  /\ m.promises[p].pending => m.promises[p].ptr = Null
  /\ m.promises[p].ptr # Null => Params(m, p) = {}
  /\ \/ m.promises[p].fulfilled \/ p \in R
     \/ m.promises[p].pending \/ m.promises[p].ptr # Null \/ Params(m, p) # {}
Staged(m, R) == R \subseteq Live(m) /\ \A p \in Live(m) : StagedOf(m, p, R)

QueueAgrees(m) ==
  /\ IsInjective(m.asyncCallbacks)
  /\ Range(m.asyncCallbacks) = {p \in Live(m) : m.promises[p].pending}

\* No promise waits for itself, through whatever others.
Grounded(m) ==
  \A S \in SUBSET Live(m) : S # {} => \E p \in S : Params(m, p) \cap S = {}

MInv(m, R, X, K) ==
  /\ MemTypes(m)
  /\ Owned(m, K)
  /\ Counted(m, X)
  /\ Staged(m, R)
  /\ QueueAgrees(m)
  /\ Grounded(m)

EpollTypes(e) ==
  /\ e = [fulfiller |-> e.fulfiller, events |-> e.events, registeredEvents |-> e.registeredEvents,
          watchesNeedingUpdate |-> e.watchesNeedingUpdate, watchCount |-> e.watchCount]
  /\ WatchedFds(e) \subseteq Fds
  /\ e.fulfiller \in [WatchedFds(e) -> [Slots -> Ids \cup {Null}]]
  /\ e.events \in [WatchedFds(e) -> SUBSET Slots]
  /\ e.registeredEvents \in [WatchedFds(e) -> SUBSET Slots]
  /\ e.watchesNeedingUpdate \subseteq WatchedFds(e)

Registered(e) == {fd \in WatchedFds(e) : e.registeredEvents[fd] # {}}

EInv(e) ==
  /\ EpollTypes(e)
  /\ \A fd \in WatchedFds(e) :
       /\ e.events[fd] = Watching(e, fd)
       /\ fd \in e.watchesNeedingUpdate <=> e.events[fd] # e.registeredEvents[fd]
  /\ e.watchCount = Cardinality(Registered(e))

\* The slot of a promise.
At(m, x) == IF x \in Live(m) THEN m.promises[x].ptr ELSE Null

\* A Fulfiller knows the slot that it is in.
Linked(m, e) ==
  /\ \A fd \in WatchedFds(e), s \in Slots :
       e.fulfiller[fd][s] # Null => At(m, e.fulfiller[fd][s]) = <<fd, s>>
  /\ \A p \in Ids, fd \in Fds, s \in Slots :
       At(m, p) = <<fd, s>> => fd \in WatchedFds(e) /\ e.fulfiller[fd][s] = p

Running == IF frame.linked THEN {frame.fulfiller} ELSE {}

FrameIsRight ==
  /\ frame \in [fulfiller : Ids \cup {Null}, linked : BOOLEAN, params : Deps]
  /\ phase \in {"setup", "loop", "done", "crashed"}
  /\ ops \in 0 .. MaxOps
  /\ phase # "loop" => frame = NoFrame
  /\ phase = "done" => Updated /\ epoll.watchCount = 0

LoopInv ==
  /\ MInv(mem, Running, {}, Range(frame.params))
  /\ EInv(epoll)
  /\ Linked(mem, epoll)
  /\ FrameIsRight

\* r is m, but for the state of p.
Writes(m, r, p, s) ==
  r = [promises |-> [m.promises EXCEPT ![p] = s], asyncCallbacks |-> m.asyncCallbacks]

\* A write of one state.
LEMMA WritesOne ==
  ASSUME NEW m, MemTypes(m), NEW p \in Live(m), NEW s \in State, NEW r, Writes(m, r, p, s)
  PROVE  /\ MemTypes(r)
         /\ Live(r) = Live(m)
         /\ r.asyncCallbacks = m.asyncCallbacks
         /\ r.promises[p] = s
         /\ \A q \in Live(m) \ {p} : r.promises[q] = m.promises[q]
BY DEF Writes, MemTypes, Live, IsMemory

\* Two memories with the same forest.
SameForest(m, r) ==
  /\ Live(r) = Live(m)
  /\ \A x \in Live(m) :
       /\ r.promises[x].owner = m.promises[x].owner
       /\ r.promises[x].params = m.promises[x].params
       /\ r.promises[x].listener = m.promises[x].listener
       /\ m.promises[x].fulfilled => r.promises[x].fulfilled

\* The same forest has the same owners, and still no circle.
LEMMA ForestStays ==
  ASSUME NEW m, NEW r, SameForest(m, r)
  PROVE  /\ \A x \in Live(m) : Params(r, x) = Params(m, x)
         /\ \A K : Owned(m, K) => Owned(r, K)
         /\ Grounded(m) => Grounded(r)
<1>1. \A x \in Live(m) : Params(r, x) = Params(m, x)
  BY DEF SameForest, Params
<1>2. ASSUME NEW K, Owned(m, K) PROVE Owned(r, K)
  BY <1>1, <1>2 DEF SameForest, Owned
<1>3. Grounded(m) => Grounded(r)
  BY <1>1 DEF SameForest, Grounded
<1> QED
  BY <1>1, <1>2, <1>3

\* A promise waits for finitely many others.
LEMMA ParamsAreFinite ==
  ASSUME NEW m, MemTypes(m), NEW p \in Live(m), NEW X
  PROVE  /\ IsFiniteSet(Params(m, p))
         /\ IsFiniteSet(OpenParams(m, p, X))
         /\ Cardinality(OpenParams(m, p, X)) \in Nat
         /\ Params(m, p) \subseteq Ids
<1>1. m.promises[p].params \in Deps
  BY DEF MemTypes, State
<1>2. PICK n \in 0 .. MaxParams : m.promises[p].params \in [1 .. n -> Ids]
  BY <1>1 DEF Deps
<1>3. Params(m, p) \subseteq Ids
  BY <1>2 DEF Params, Range
<1>4. IsFiniteSet(Ids)
  <2>1. 1 \in Int /\ MaxPromises \in Int
    BY LoopAssumption
  <2> QED
    BY <2>1, FS_Interval DEF Ids
<1>5. IsFiniteSet(Params(m, p))
  BY <1>3, <1>4, FS_Subset
<1>6. OpenParams(m, p, X) \subseteq Params(m, p)
  BY DEF OpenParams
<1> QED
  BY <1>3, <1>5, <1>6, FS_Subset, FS_CardinalityType

\* What DependencyDone does.
LEMMA Counts ==
  ASSUME NEW m, MemTypes(m), NEW q \in Live(m), NEW broke \in BOOLEAN,
         NEW n \in Nat, m.promises[q].left = n + 1,
         NEW r, r = DependencyDone(m, q, broke)
  PROVE  /\ MemTypes(r)
         /\ SameForest(m, r)
         /\ r.asyncCallbacks = IF n = 0 THEN Append(m.asyncCallbacks, q) ELSE m.asyncCallbacks
         /\ \A x \in Live(m) \ {q} : r.promises[x] = m.promises[x]
         /\ r.promises[q].left = n
         /\ r.promises[q].dependencyFailed <=> (m.promises[q].dependencyFailed \/ broke)
         /\ r.promises[q].pending <=> (m.promises[q].pending \/ n = 0)
         /\ r.promises[q].value = m.promises[q].value
         /\ r.promises[q].fulfilled = m.promises[q].fulfilled
         /\ r.promises[q].ptr = m.promises[q].ptr
<1> DEFINE s0 == m.promises[q]
           m1 == [m EXCEPT !.promises[q].dependencyFailed = @ \/ broke]
           s1 == [s0 EXCEPT !.dependencyFailed = @ \/ broke]
           m2 == [m1 EXCEPT !.promises[q].left = @ - 1]
           s2 == [s1 EXCEPT !.left = @ - 1]
           s3 == [s2 EXCEPT !.pending = TRUE]
           m3 == ReadyLater(m2, q)
<1>1. s0 \in State /\ s0.dependencyFailed \in BOOLEAN
  BY DEF MemTypes, State
<1>2. s1 \in State /\ s1.left = n + 1
  BY <1>1 DEF State
<1>3. s2 \in State /\ s2.left = n
  <2> HIDE DEF s1
  <2> QED
    BY <1>2 DEF State
<1>4. s3 \in State /\ s3.left = n
  BY <1>3 DEF State
<1>5. Writes(m, m1, q, s1)
  BY DEF Writes, MemTypes, IsMemory
<1>6. /\ MemTypes(m1) /\ Live(m1) = Live(m) /\ m1.asyncCallbacks = m.asyncCallbacks
      /\ m1.promises[q] = s1 /\ \A x \in Live(m) \ {q} : m1.promises[x] = m.promises[x]
  <2> HIDE DEF m1, s1
  <2> QED
    BY <1>2, <1>5, WritesOne
<1>7. Writes(m1, m2, q, s2)
  <2> HIDE DEF m1, s1
  <2> QED
    BY <1>6 DEF Writes, MemTypes, IsMemory
<1>8. /\ MemTypes(m2) /\ Live(m2) = Live(m) /\ m2.asyncCallbacks = m.asyncCallbacks
      /\ m2.promises[q] = s2 /\ \A x \in Live(m) \ {q} : m2.promises[x] = m.promises[x]
  <2> HIDE DEF m1, m2, s1, s2
  <2> QED
    BY <1>3, <1>6, <1>7, WritesOne
<1>9. r = IF n = 0 THEN m3 ELSE m2
  <2>1. r = CountDown(m1, q)
    BY DEF DependencyDone
  <2>2. CountDown(m1, q) = IF m2.promises[q].left = 0 THEN m3 ELSE m2
    BY DEF CountDown
  <2> HIDE DEF m1, m2, m3, s1, s2
  <2> QED
    BY <2>1, <2>2, <1>3, <1>8
<1>10. /\ MemTypes(m3) /\ Live(m3) = Live(m) /\ m3.asyncCallbacks = Append(m.asyncCallbacks, q)
       /\ m3.promises[q] = s3 /\ \A x \in Live(m) \ {q} : m3.promises[x] = m.promises[x]
  <2> HIDE DEF m1, m2, s1, s2
  <2>1. m3.promises = [m2.promises EXCEPT ![q] = s3] /\ m3.asyncCallbacks = Append(m2.asyncCallbacks, q)
        /\ IsMemory(m3)
    BY <1>8 DEF ReadyLater, MemTypes, IsMemory
  <2>2. q \in Ids
    BY DEF MemTypes
  <2> HIDE DEF m3, s3
  <2>3. Live(m3) = Live(m2)
    BY <2>1, <1>8 DEF MemTypes, Live
  <2>4. m3.promises \in [Live(m3) -> State]
    BY <2>1, <2>3, <1>8, <1>4 DEF MemTypes
  <2>5. m3.asyncCallbacks \in Seq(Ids)
    BY <2>1, <2>2, <1>8 DEF MemTypes
  <2>6. MemTypes(m3)
    BY <2>1, <2>3, <2>4, <2>5, <1>8 DEF MemTypes
  <2>7. m3.promises[q] = s3 /\ \A x \in Live(m) \ {q} : m3.promises[x] = m.promises[x]
    BY <2>1, <1>8 DEF MemTypes
  <2> QED
    BY <2>1, <2>3, <2>6, <2>7, <1>8
<1>11. /\ s3.owner = s0.owner /\ s3.params = s0.params /\ s3.listener = s0.listener
       /\ s3.value = s0.value /\ s3.fulfilled = s0.fulfilled /\ s3.ptr = s0.ptr
       /\ s3.pending /\ (s3.dependencyFailed <=> (s0.dependencyFailed \/ broke))
  BY <1>1 DEF State
<1>12. /\ s2.owner = s0.owner /\ s2.params = s0.params /\ s2.listener = s0.listener
       /\ s2.value = s0.value /\ s2.fulfilled = s0.fulfilled /\ s2.ptr = s0.ptr
       /\ s2.pending = s0.pending /\ (s2.dependencyFailed <=> (s0.dependencyFailed \/ broke))
  BY <1>1 DEF State
<1> HIDE DEF m1, m2, m3, s1, s2, s3
<1>13. CASE n = 0
  <2>1. r = m3
    BY <1>9, <1>13
  <2>2. SameForest(m, r)
    BY <2>1, <1>10, <1>11 DEF SameForest
  <2> QED
    BY <2>1, <2>2, <1>10, <1>11, <1>4, <1>13
<1>14. CASE n # 0
  <2>1. r = m2
    BY <1>9, <1>14
  <2>2. SameForest(m, r)
    BY <2>1, <1>8, <1>12 DEF SameForest
  <2> QED
    BY <2>1, <2>2, <1>8, <1>12, <1>3, <1>14
<1> QED
  BY <1>13, <1>14

\* The fields of a promise.
LEMMA MemoryTypes ==
  ASSUME NEW m, MemTypes(m), NEW p \in Live(m)
  PROVE  /\ p \in Ids
         /\ m.promises[p] \in State
         /\ m.promises[p].owner \in Ids \cup {User, Stack}
         /\ m.promises[p].params \in Deps
         /\ m.promises[p].listener \in Ids \cup {Null}
         /\ m.promises[p].value \in Values
         /\ m.promises[p].fulfilled \in BOOLEAN
         /\ m.promises[p].left \in Nat
         /\ m.promises[p].dependencyFailed \in BOOLEAN
         /\ m.promises[p].pending \in BOOLEAN
         /\ m.promises[p].ptr \in {Null} \cup (Fds \X Slots)
BY DEF MemTypes, State

\* A callback that was not queued is added at the end.
LEMMA QueueGrows ==
  ASSUME NEW s \in Seq(Ids), IsInjective(s), NEW q \in Ids, q \notin Range(s)
  PROVE  IsInjective(Append(s, q)) /\ Range(Append(s, q)) = Range(s) \cup {q}
<1> DEFINE t == Append(s, q)
           n == Len(s)
<1>1. n \in Nat /\ DOMAIN s = 1 .. n /\ DOMAIN t = 1 .. n + 1 /\ t[n + 1] = q
      /\ \A i \in 1 .. n : t[i] = s[i]
  OBVIOUS
<1>2. \A i \in 1 .. n + 1 : i \in 1 .. n \/ i = n + 1
  BY <1>1
<1> HIDE DEF t, n
<1>3. Range(t) = Range(s) \cup {q}
  BY <1>1, <1>2 DEF Range
<1>4. IsInjective(t)
  BY <1>1, <1>2 DEF IsInjective, Range
<1> QED
  BY <1>3, <1>4 DEF t

\* The listener of a promise that was fulfilled is told.
LEMMA Told ==
  ASSUME NEW m, NEW R, NEW K, NEW p, NEW q, MInv(m, R, {p}, K),
         p \in Live(m), q \in Live(m), p \in Params(m, q), m.promises[p].fulfilled
  PROVE  LET r == DependencyDone(m, q, Broken(m.promises[p].value))
         IN /\ MInv(r, R, {}, K)
            /\ \A x \in Ids : At(r, x) = At(m, x)
            /\ Live(r) = Live(m)
<1> DEFINE r == DependencyDone(m, q, Broken(m.promises[p].value))
           open == OpenParams(m, q, {p})
           n == Cardinality(open \ {p})
<1>1. MemTypes(m) /\ Owned(m, K) /\ Counted(m, {p}) /\ Staged(m, R) /\ QueueAgrees(m) /\ Grounded(m)
  BY DEF MInv
<1>2. p \in open /\ IsFiniteSet(open) /\ open \in SUBSET Params(m, q)
  BY <1>1, ParamsAreFinite DEF OpenParams
<1>3. n \in Nat /\ Cardinality(open) = n + 1 /\ IsFiniteSet(open \ {p})
  <2> HIDE DEF open
  <2>1. IsFiniteSet(open \ {p}) /\ Cardinality(open \ {p}) = Cardinality(open) - 1
    BY <1>2, FS_RemoveElement
  <2>2. Cardinality(open) \in Nat /\ Cardinality(open \ {p}) \in Nat
    BY <1>2, <2>1, FS_CardinalityType
  <2> QED
    BY <2>1, <2>2
<1>4. m.promises[q].left = n + 1 /\ ~m.promises[q].pending
  BY <1>1, <1>2, <1>3 DEF Counted, CountedOf
<1>5. Broken(m.promises[p].value) \in BOOLEAN
  BY DEF Broken
<1> HIDE DEF n
<1>0. r = DependencyDone(m, q, Broken(m.promises[p].value))
  OBVIOUS
<1> HIDE DEF r
<1>6. /\ MemTypes(r)
      /\ SameForest(m, r)
      /\ r.asyncCallbacks = IF n = 0 THEN Append(m.asyncCallbacks, q) ELSE m.asyncCallbacks
      /\ \A x \in Live(m) \ {q} : r.promises[x] = m.promises[x]
      /\ r.promises[q].left = n
      /\ r.promises[q].dependencyFailed <=>
           (m.promises[q].dependencyFailed \/ Broken(m.promises[p].value))
      /\ r.promises[q].pending <=> (m.promises[q].pending \/ n = 0)
      /\ r.promises[q].value = m.promises[q].value
      /\ r.promises[q].fulfilled = m.promises[q].fulfilled
      /\ r.promises[q].ptr = m.promises[q].ptr
  BY <1>0, <1>1, <1>3, <1>4, <1>5, Counts
<1>7. /\ Live(r) = Live(m)
      /\ \A x \in Live(m) : /\ Params(r, x) = Params(m, x)
                            /\ r.promises[x].fulfilled = m.promises[x].fulfilled
                            /\ r.promises[x].value = m.promises[x].value
                            /\ r.promises[x].ptr = m.promises[x].ptr
                            /\ r.promises[x].owner = m.promises[x].owner
  <2>1. Live(r) = Live(m) /\ \A x \in Live(m) : Params(r, x) = Params(m, x)
    <3>1. SameForest(m, r)
      BY <1>6
    <3>2. \A x \in Live(m) : Params(r, x) = Params(m, x)
      BY <3>1, ForestStays
    <3> QED
      BY <3>1, <3>2 DEF SameForest
  <2>2. \A x \in Live(m) : r.promises[x].owner = m.promises[x].owner
    BY <1>6 DEF SameForest
  <2>3. \A x \in Live(m) : r.promises[x].fulfilled = m.promises[x].fulfilled
    BY <1>6
  <2>4. \A x \in Live(m) : r.promises[x].value = m.promises[x].value
    BY <1>6
  <2>5. \A x \in Live(m) : r.promises[x].ptr = m.promises[x].ptr
    BY <1>6
  <2> QED
    BY <2>1, <2>2, <2>3, <2>4, <2>5
<1>8. Owned(r, K) /\ Grounded(r)
  BY <1>1, <1>6, ForestStays
<1>9. \A x \in Live(m) : Params(m, x) \subseteq Live(m)
  BY <1>1 DEF Owned
<1>10. OpenParams(r, q, {}) = open \ {p}
  BY <1>7, <1>9 DEF OpenParams
<1>11. ASSUME NEW x \in Live(m) \ {q} PROVE OpenParams(r, x, {}) = OpenParams(m, x, {p})
  <2>1. p \notin Params(m, x)
    BY <1>1 DEF Owned
  <2> QED
    BY <2>1, <1>7, <1>9 DEF OpenParams
<1>12. Counted(r, {})
  <2>1. ASSUME NEW x \in Live(m) \ {q} PROVE CountedOf(r, x, {})
    <3>1. CountedOf(m, x, {p})
      BY <1>1 DEF Counted
    <3>2. r.promises[x] = m.promises[x] /\ Params(r, x) = Params(m, x) /\ OpenParams(r, x, {}) = OpenParams(m, x, {p})
      BY <1>6, <1>7, <1>11
    <3>3. \A d \in Params(m, x) : r.promises[d].value = m.promises[d].value
      BY <1>7, <1>9
    <3> QED
      BY <3>1, <3>2, <3>3 DEF CountedOf
  <2>2. CountedOf(r, q, {})
    <3>1. CountedOf(m, q, {p})
      BY <1>1 DEF Counted
    <3>2. r.promises[q].left = Cardinality(OpenParams(r, q, {}))
      BY <1>6, <1>10 DEF n
    <3>3. r.promises[q].pending <=> OpenParams(r, q, {}) = {}
      <4>1. n = 0 <=> open \ {p} = {}
        BY <1>3, FS_EmptySet DEF n
      <4> QED
        BY <4>1, <1>4, <1>6, <1>10
    <3>4. r.promises[q].dependencyFailed <=>
            \E d \in Params(r, q) \ OpenParams(r, q, {}) : Broken(r.promises[d].value)
      <4>1. m.promises[q].dependencyFailed <=>
              \E d \in Params(m, q) \ open : Broken(m.promises[d].value)
        BY <3>1 DEF CountedOf
      <4>2. Params(r, q) = Params(m, q) /\ \A d \in Params(m, q) : r.promises[d].value = m.promises[d].value
        BY <1>7, <1>9
      <4>3. Params(m, q) \ (open \ {p}) = (Params(m, q) \ open) \cup {p}
        BY <1>2
      <4> HIDE DEF open
      <4> QED
        BY <4>1, <4>2, <4>3, <1>6, <1>10
    <3> QED
      BY <3>2, <3>3, <3>4 DEF CountedOf
  <2> QED
    BY <2>1, <2>2, <1>7 DEF Counted
<1>13. Staged(r, R)
  <2>1. ASSUME NEW x \in Live(m) \ {q} PROVE StagedOf(r, x, R)
    <3>1. StagedOf(m, x, R)
      BY <1>1 DEF Staged
    <3>2. r.promises[x] = m.promises[x] /\ Params(r, x) = Params(m, x)
      BY <1>6, <1>7
    <3> QED
      BY <3>1, <3>2 DEF StagedOf
  <2>2. StagedOf(m, q, R) /\ Params(m, q) # {}
    BY <1>1 DEF Staged
  <2>3. StagedOf(r, q, R)
    BY <2>2, <1>6, <1>7 DEF StagedOf
  <2> QED
    BY <2>1, <2>3, <1>1, <1>7 DEF Staged
<1>14. QueueAgrees(r)
  <2>1. q \notin Range(m.asyncCallbacks) /\ q \in Ids /\ m.asyncCallbacks \in Seq(Ids)
    BY <1>1, <1>4, MemoryTypes DEF QueueAgrees, MemTypes
  <2>2. n = 0 => /\ IsInjective(r.asyncCallbacks)
                 /\ Range(r.asyncCallbacks) = Range(m.asyncCallbacks) \cup {q}
    BY <2>1, <1>1, <1>6, QueueGrows DEF QueueAgrees
  <2>3. \A x \in Live(m) : r.promises[x].pending <=> (m.promises[x].pending \/ (x = q /\ n = 0))
    BY <1>6
  <2> QED
    BY <2>2, <2>3, <1>1, <1>6, <1>7 DEF QueueAgrees
<1>15. \A x \in Ids : At(r, x) = At(m, x)
  BY <1>7 DEF At
<1> QED
  BY <1>6, <1>7, <1>8, <1>12, <1>13, <1>14, <1>15 DEF MInv, r

-----------------------------------------------------------------------------
(* Fulfilling, and slots                                                   *)

\* What is known of a write that leaves the forest alone.
LEMMA ForestWrite ==
  ASSUME NEW m, MemTypes(m), NEW K, Owned(m, K), Grounded(m),
         NEW p \in Live(m), NEW s \in State, NEW r, Writes(m, r, p, s),
         s.owner = m.promises[p].owner, s.params = m.promises[p].params,
         s.listener = m.promises[p].listener,
         m.promises[p].fulfilled => s.fulfilled
  PROVE  /\ MemTypes(r) /\ Owned(r, K) /\ Grounded(r)
         /\ Live(r) = Live(m)
         /\ r.asyncCallbacks = m.asyncCallbacks
         /\ r.promises[p] = s
         /\ \A q \in Live(m) \ {p} : r.promises[q] = m.promises[q]
         /\ \A x \in Live(m) : Params(r, x) = Params(m, x)
         /\ \A x \in Live(m) : Params(m, x) \subseteq Live(m)
<1>1. /\ MemTypes(r) /\ Live(r) = Live(m) /\ r.asyncCallbacks = m.asyncCallbacks
      /\ r.promises[p] = s /\ \A q \in Live(m) \ {p} : r.promises[q] = m.promises[q]
  BY WritesOne
<1>2. SameForest(m, r)
  BY <1>1 DEF SameForest
<1>3. Owned(r, K) /\ Grounded(r) /\ \A x \in Live(m) : Params(r, x) = Params(m, x)
  BY <1>2, ForestStays
<1>4. \A x \in Live(m) : Params(m, x) \subseteq Live(m)
  BY DEF Owned
<1> QED
  BY <1>1, <1>3, <1>4

\* fulfill() and propagateCurrentException().
LEMMA Fulfills ==
  ASSUME NEW m, NEW R, NEW K, MInv(m, R, {}, K), NEW p \in R, NEW v \in Values
  PROVE  LET r == Fulfill(m, p, v)
         IN /\ MInv(r, R \ {p}, {}, K)
            /\ \A x \in Ids : At(r, x) = At(m, x)
            /\ Live(r) = Live(m)
<1> DEFINE r == Fulfill(m, p, v)
           s == [m.promises[p] EXCEPT !.fulfilled = TRUE, !.value = v]
           set == [m EXCEPT !.promises[p] = [@ EXCEPT !.fulfilled = TRUE, !.value = v]]
           q == m.promises[p].listener
           X == IF q = Null THEN {} ELSE {p}
<1>1. MemTypes(m) /\ Owned(m, K) /\ Counted(m, {}) /\ Staged(m, R) /\ QueueAgrees(m) /\ Grounded(m)
  BY DEF MInv
<1>2. p \in Live(m) /\ StagedOf(m, p, R)
  BY <1>1 DEF Staged
<1>3. Params(m, p) = {} /\ ~m.promises[p].pending /\ m.promises[p].ptr = Null
      /\ ~m.promises[p].fulfilled
  BY <1>2 DEF StagedOf
<1>4. /\ s \in State /\ s.owner = m.promises[p].owner /\ s.params = m.promises[p].params
      /\ s.listener = m.promises[p].listener /\ s.fulfilled /\ s.value = v
      /\ s.pending = m.promises[p].pending /\ s.ptr = m.promises[p].ptr
      /\ s.left = m.promises[p].left
      /\ s.dependencyFailed = m.promises[p].dependencyFailed
  <2>1. m.promises[p] \in State
    BY <1>1, <1>2, MemoryTypes
  <2> QED
    BY <2>1 DEF State
<1>5. Writes(m, set, p, s)
  BY <1>1, <1>2 DEF Writes, MemTypes, IsMemory
<1>6. r = IF q = Null THEN set ELSE DependencyDone(set, q, Broken(v))
  BY DEF Fulfill
<1> HIDE DEF s, set, r
<1>7. /\ MemTypes(set) /\ Owned(set, K) /\ Grounded(set)
      /\ Live(set) = Live(m)
      /\ set.asyncCallbacks = m.asyncCallbacks
      /\ set.promises[p] = s
      /\ \A x \in Live(m) \ {p} : set.promises[x] = m.promises[x]
      /\ \A x \in Live(m) : Params(set, x) = Params(m, x)
      /\ \A x \in Live(m) : Params(m, x) \subseteq Live(m)
  BY <1>1, <1>2, <1>4, <1>5, ForestWrite
<1>8. q # Null => q \in Live(m) /\ p \in Params(m, q)
  BY <1>1, <1>2, <1>3, MemoryTypes DEF Owned
<1>9. ASSUME NEW x \in Live(m), p \in Params(m, x) PROVE q # Null /\ q = x
  <2>1. q = x /\ x \in Ids
    BY <1>1, <1>9, MemoryTypes DEF Owned
  <2> QED
    BY <2>1, LoopAssumption
<1>10. ASSUME NEW x \in Live(m) PROVE OpenParams(set, x, X) = OpenParams(m, x, {})
  <2>1. \A d \in Params(m, x) : d # p => set.promises[d] = m.promises[d]
    BY <1>7
  <2>2. p \in Params(m, x) => p \in X
    BY <1>9
  <2>3. p \in Params(m, x) => p \in OpenParams(m, x, {})
    BY <1>3 DEF OpenParams
  <2>4. \A d \in X : d = p
    OBVIOUS
  <2> HIDE DEF X
  <2> QED
    BY <2>1, <2>2, <2>3, <2>4, <1>7 DEF OpenParams
<1>11. Counted(set, X)
  <2>1. ASSUME NEW x \in Live(m) PROVE CountedOf(set, x, X)
    <3>1. CountedOf(m, x, {})
      BY <1>1 DEF Counted
    <3>2. /\ set.promises[x].left = m.promises[x].left
          /\ set.promises[x].pending = m.promises[x].pending
          /\ set.promises[x].dependencyFailed = m.promises[x].dependencyFailed
      BY <1>4, <1>7
    <3>3. OpenParams(set, x, X) = OpenParams(m, x, {}) /\ Params(set, x) = Params(m, x)
      BY <1>7, <1>10
    <3>4. \A d \in Params(m, x) \ OpenParams(m, x, {}) : set.promises[d].value = m.promises[d].value
      BY <1>3, <1>7 DEF OpenParams
    <3> HIDE DEF X
    <3> QED
      BY <3>1, <3>2, <3>3, <3>4 DEF CountedOf
  <2> HIDE DEF X
  <2> QED
    BY <2>1, <1>7 DEF Counted
<1>12. Staged(set, R \ {p})
  <2>1. ASSUME NEW x \in Live(m) \ {p} PROVE StagedOf(set, x, R \ {p})
    <3>1. StagedOf(m, x, R)
      BY <1>1 DEF Staged
    <3>2. set.promises[x] = m.promises[x] /\ Params(set, x) = Params(m, x)
      BY <1>7
    <3> QED
      BY <3>1, <3>2 DEF StagedOf
  <2>2. StagedOf(set, p, R \ {p})
    BY <1>2, <1>3, <1>4, <1>7 DEF StagedOf
  <2> QED
    BY <2>1, <2>2, <1>1, <1>7 DEF Staged
<1>13. \A x \in Live(m) : /\ set.promises[x].pending = m.promises[x].pending
                          /\ set.promises[x].ptr = m.promises[x].ptr
  BY <1>4, <1>7
<1>14. QueueAgrees(set)
  BY <1>1, <1>7, <1>13 DEF QueueAgrees
<1>15. MInv(set, R \ {p}, X, K)
  <2> HIDE DEF X
  <2> QED
    BY <1>7, <1>11, <1>12, <1>14 DEF MInv
<1>16. \A x \in Ids : At(set, x) = At(m, x)
  BY <1>7, <1>13 DEF At
<1> SUFFICES /\ MInv(r, R \ {p}, {}, K) /\ Live(r) = Live(m)
             /\ \A x \in Ids : At(r, x) = At(m, x)
  BY DEF r
<1>17. CASE q = Null
  BY <1>6, <1>7, <1>15, <1>16, <1>17
<1>18. CASE q # Null
  <2>1. MInv(set, R \ {p}, {p}, K)
    BY <1>15, <1>18
  <2>2. p \in Live(set) /\ q \in Live(set) /\ p \in Params(set, q)
    BY <1>2, <1>7, <1>8, <1>18
  <2>3. set.promises[p].fulfilled /\ set.promises[p].value = v
    BY <1>4, <1>7
  <2>4. r = DependencyDone(set, q, Broken(set.promises[p].value))
    BY <1>6, <1>18, <2>3
  <2> HIDE DEF q, X
  <2>5. /\ MInv(r, R \ {p}, {}, K) /\ Live(r) = Live(set)
        /\ \A x \in Ids : At(r, x) = At(set, x)
    BY <2>1, <2>2, <2>3, <2>4, Told
  <2> QED
    BY <2>5, <1>7, <1>16
<1> QED
  BY <1>17, <1>18

\* A Fulfiller leaves its slot: it is fulfilling.
LeaveSlot(m, p) == [m EXCEPT !.promises[p].ptr = Null]

\* ... and so no longer waits for its file.
LEMMA LeavesSlot ==
  ASSUME NEW m, NEW R, NEW K, MInv(m, R, {}, K), NEW p \in Live(m), m.promises[p].ptr # Null
  PROVE  LET r == LeaveSlot(m, p)
         IN /\ MInv(r, R \cup {p}, {}, K)
            /\ \A x \in Ids : At(r, x) = IF x = p THEN Null ELSE At(m, x)
            /\ Live(r) = Live(m)
<1> DEFINE r == LeaveSlot(m, p)
           s == [m.promises[p] EXCEPT !.ptr = Null]
<1>1. MemTypes(m) /\ Owned(m, K) /\ Counted(m, {}) /\ Staged(m, R) /\ QueueAgrees(m) /\ Grounded(m)
  BY DEF MInv
<1>2. StagedOf(m, p, R)
  BY <1>1 DEF Staged
<1>3. Params(m, p) = {} /\ ~m.promises[p].pending /\ p \notin R /\ ~m.promises[p].fulfilled
  BY <1>2 DEF StagedOf
<1>4. /\ s \in State /\ s.owner = m.promises[p].owner /\ s.params = m.promises[p].params
      /\ s.listener = m.promises[p].listener /\ s.fulfilled = m.promises[p].fulfilled
      /\ s.value = m.promises[p].value
      /\ s.pending = m.promises[p].pending /\ s.ptr = Null
      /\ s.left = m.promises[p].left
      /\ s.dependencyFailed = m.promises[p].dependencyFailed
  <2>1. m.promises[p] \in State
    BY <1>1, MemoryTypes
  <2> QED
    BY <2>1 DEF State
<1>5. Writes(m, r, p, s)
  BY <1>1 DEF Writes, MemTypes, IsMemory, LeaveSlot
<1> HIDE DEF s, r
<1>6. m.promises[p].fulfilled => s.fulfilled
  BY <1>4
<1>7. /\ MemTypes(r) /\ Owned(r, K) /\ Grounded(r)
      /\ Live(r) = Live(m)
      /\ r.asyncCallbacks = m.asyncCallbacks
      /\ r.promises[p] = s
      /\ \A x \in Live(m) \ {p} : r.promises[x] = m.promises[x]
      /\ \A x \in Live(m) : Params(r, x) = Params(m, x)
      /\ \A x \in Live(m) : Params(m, x) \subseteq Live(m)
  BY <1>1, <1>4, <1>5, <1>6, ForestWrite
<1>8. \A x \in Live(m) : /\ r.promises[x].left = m.promises[x].left
                         /\ r.promises[x].pending = m.promises[x].pending
                         /\ r.promises[x].dependencyFailed = m.promises[x].dependencyFailed
                         /\ r.promises[x].fulfilled = m.promises[x].fulfilled
                         /\ r.promises[x].value = m.promises[x].value
  BY <1>4, <1>7
<1>9. \A x \in Live(m) : OpenParams(r, x, {}) = OpenParams(m, x, {})
  BY <1>7, <1>8 DEF OpenParams
<1>10. Counted(r, {})
  <2>1. ASSUME NEW x \in Live(m) PROVE CountedOf(r, x, {})
    <3>1. CountedOf(m, x, {})
      BY <1>1 DEF Counted
    <3>2. \A d \in Params(m, x) : r.promises[d].value = m.promises[d].value
      BY <1>7, <1>8
    <3> QED
      BY <3>1, <3>2, <1>7, <1>8, <1>9 DEF CountedOf
  <2> QED
    BY <2>1, <1>7 DEF Counted
<1>11. Staged(r, R \cup {p})
  <2>1. ASSUME NEW x \in Live(m) \ {p} PROVE StagedOf(r, x, R \cup {p})
    <3>1. StagedOf(m, x, R)
      BY <1>1 DEF Staged
    <3>2. r.promises[x] = m.promises[x] /\ Params(r, x) = Params(m, x)
      BY <1>7
    <3> QED
      BY <3>1, <3>2 DEF StagedOf
  <2>2. StagedOf(r, p, R \cup {p})
    BY <1>2, <1>3, <1>4, <1>7 DEF StagedOf
  <2> QED
    BY <2>1, <2>2, <1>1, <1>7 DEF Staged
<1>12. QueueAgrees(r)
  BY <1>1, <1>7, <1>8 DEF QueueAgrees
<1>13. \A x \in Ids : At(r, x) = IF x = p THEN Null ELSE At(m, x)
  BY <1>4, <1>7 DEF At
<1> QED
  BY <1>7, <1>10, <1>11, <1>12, <1>13 DEF MInv, r

\* ready() and abandon() of a Fulfiller that is in a slot.
LEMMA Settles ==
  ASSUME NEW m, NEW R, NEW K, MInv(m, R, {}, K), NEW p \in Live(m), m.promises[p].ptr # Null,
         NEW v \in Values
  PROVE  LET r == Settle(m, p, v)
         IN /\ MInv(r, R, {}, K)
            /\ \A x \in Ids : At(r, x) = IF x = p THEN Null ELSE At(m, x)
            /\ Live(r) = Live(m)
<1> DEFINE n == LeaveSlot(m, p)
           r == Fulfill(n, p, v)
<1>1. Settle(m, p, v) = r
  BY DEF Settle, LeaveSlot
<1> HIDE DEF n
<1>2. /\ MInv(n, R \cup {p}, {}, K) /\ Live(n) = Live(m)
      /\ \A x \in Ids : At(n, x) = IF x = p THEN Null ELSE At(m, x)
  BY LeavesSlot DEF n
<1>3. /\ MInv(r, (R \cup {p}) \ {p}, {}, K) /\ Live(r) = Live(n)
      /\ \A x \in Ids : At(r, x) = At(n, x)
  <2> DEFINE T == R \cup {p}
  <2>1. p \in T
    OBVIOUS
  <2>2. MInv(n, T, {}, K)
    BY <1>2
  <2> HIDE DEF T
  <2>3. /\ MInv(r, T \ {p}, {}, K) /\ Live(r) = Live(n)
        /\ \A x \in Ids : At(r, x) = At(n, x)
    BY <2>1, <2>2, Fulfills
  <2> QED
    BY <2>3 DEF T
<1>4. p \notin R
  <2>1. StagedOf(m, p, R)
    BY DEF MInv, Staged
  <2> QED
    BY <2>1 DEF StagedOf
<1>5. (R \cup {p}) \ {p} = R
  BY <1>4
<1> QED
  BY <1>1, <1>2, <1>3, <1>5

-----------------------------------------------------------------------------
(* New promises                                                            *)

\* A state in which promises begin.
Fresh(s) ==
  /\ s \in State /\ s.owner = User /\ s.params = <<>> /\ s.listener = Null
  /\ ~s.fulfilled /\ s.left = 0 /\ ~s.pending

\* One more promise.
LEMMA AddsOne ==
  ASSUME NEW m, MemTypes(m), NEW p \in Ids, NEW s \in State
  PROVE  LET r == NewPromise(m, p, s)
         IN /\ MemTypes(r)
            /\ Live(r) = Live(m) \cup {p}
            /\ r.asyncCallbacks = m.asyncCallbacks
            /\ r.promises[p] = s
            /\ \A x \in Live(m) \ {p} : r.promises[x] = m.promises[x]
<1> DEFINE r == NewPromise(m, p, s)
           f == [x \in Live(m) \cup {p} |-> IF x = p THEN s ELSE m.promises[x]]
<1>1. r = [promises |-> f, asyncCallbacks |-> m.asyncCallbacks]
  <2>1. r = [m EXCEPT !.promises = f]
    BY DEF NewPromise, Live
  <2> HIDE DEF f
  <2>2. [m EXCEPT !.promises = f] = [promises |-> f, asyncCallbacks |-> m.asyncCallbacks]
    BY DEF MemTypes, IsMemory
  <2> QED
    BY <2>1, <2>2
<1>2. f \in [Live(m) \cup {p} -> State] /\ Live(m) \subseteq Ids /\ m.asyncCallbacks \in Seq(Ids)
  BY DEF MemTypes
<1>3. f[p] = s /\ \A x \in Live(m) \ {p} : f[x] = m.promises[x]
  OBVIOUS
<1>4. DOMAIN f = Live(m) \cup {p}
  OBVIOUS
<1> HIDE DEF f, r
<1>5. Live(r) = Live(m) \cup {p} /\ r.promises = f /\ r.asyncCallbacks = m.asyncCallbacks
  BY <1>1, <1>4 DEF Live
<1>6. IsMemory(r)
  BY <1>1 DEF IsMemory
<1>7. MemTypes(r)
  BY <1>2, <1>5, <1>6 DEF MemTypes
<1> QED
  BY <1>3, <1>5, <1>7 DEF r

\* A promise begins, in a slot or to be fulfilled.
LEMMA Begins ==
  ASSUME NEW m, NEW R, NEW K, MInv(m, R, {}, K), NEW p \in Ids, p \notin Live(m),
         NEW s, Fresh(s)
  PROVE  LET r == NewPromise(m, p, s)
         IN /\ MInv(r, IF s.ptr = Null THEN R \cup {p} ELSE R, {}, K)
            /\ \A x \in Ids : At(r, x) = IF x = p THEN s.ptr ELSE At(m, x)
            /\ Live(r) = Live(m) \cup {p}
<1> DEFINE r == NewPromise(m, p, s)
           T == IF s.ptr = Null THEN R \cup {p} ELSE R
<1>1. MemTypes(m) /\ Owned(m, K) /\ Counted(m, {}) /\ Staged(m, R) /\ QueueAgrees(m) /\ Grounded(m)
  BY DEF MInv
<1>2. s \in State /\ s.ptr = s.ptr
  BY DEF Fresh
<1>3. /\ MemTypes(r)
      /\ Live(r) = Live(m) \cup {p}
      /\ r.asyncCallbacks = m.asyncCallbacks
      /\ r.promises[p] = s
      /\ \A x \in Live(m) \ {p} : r.promises[x] = m.promises[x]
  BY <1>1, <1>2, AddsOne
<1>4. R \subseteq Live(m) /\ p \notin R
  BY <1>1 DEF Staged
<1> HIDE DEF r
<1>5. \A x \in Live(m) : r.promises[x] = m.promises[x]
  BY <1>3
<1>6. \A x \in Live(m) : Params(r, x) = Params(m, x) /\ Params(m, x) \subseteq Live(m)
  BY <1>1, <1>5 DEF Params, Owned
<1>7. Params(r, p) = {}
  <2>1. r.promises[p].params = <<>>
    BY <1>3 DEF Fresh
  <2>2. Range(<<>>) = {}
    BY DEF Range
  <2> QED
    BY <2>1, <2>2 DEF Params
<1>8. Owned(r, K)
  <2>1. K \subseteq Live(r)
    BY <1>1, <1>3 DEF Owned
  <2>2. p \notin K
    BY <1>1 DEF Owned
  <2>3. s.owner = User /\ s.listener = Null
    BY DEF Fresh
  <2>4. User \notin Ids /\ User # Stack
    BY LoopAssumption
  <2>5. \A x \in Live(m) : m.promises[x].owner \in Ids => p \notin Params(m, m.promises[x].owner)
    BY <1>1 DEF Owned
  <2>6. \A x \in Live(r) : x = p \/ x \in Live(m)
    BY <1>3
  <2> QED
    BY <1>1, <1>3, <1>5, <1>6, <1>7, <2>1, <2>2, <2>3, <2>4, <2>5, <2>6 DEF Owned
<1>9. \A x \in Live(m) : OpenParams(r, x, {}) = OpenParams(m, x, {})
  BY <1>5, <1>6 DEF OpenParams
<1>10. Counted(r, {})
  <2>1. ASSUME NEW x \in Live(m) PROVE CountedOf(r, x, {})
    <3>1. CountedOf(m, x, {})
      BY <1>1 DEF Counted
    <3>2. \A d \in Params(m, x) : r.promises[d] = m.promises[d]
      BY <1>5, <1>6
    <3> QED
      BY <3>1, <3>2, <1>5, <1>6, <1>9 DEF CountedOf
  <2>2. CountedOf(r, p, {})
    <3>1. OpenParams(r, p, {}) = {}
      BY <1>7 DEF OpenParams
    <3>2. r.promises[p].left = 0 /\ Cardinality({}) = 0
      BY <1>3, FS_EmptySet DEF Fresh
    <3> QED
      BY <3>1, <3>2, <1>7 DEF CountedOf
  <2> QED
    BY <2>1, <2>2, <1>3 DEF Counted
<1>11. Staged(r, T)
  <2>1. ASSUME NEW x \in Live(m) PROVE StagedOf(r, x, T)
    <3>1. StagedOf(m, x, R)
      BY <1>1 DEF Staged
    <3>2. x \in T <=> x \in R
      OBVIOUS
    <3>3. r.promises[x] = m.promises[x] /\ Params(r, x) = Params(m, x)
      BY <1>5, <1>6
    <3> QED
      BY <3>1, <3>2, <3>3 DEF StagedOf
  <2>2. StagedOf(r, p, T)
    <3>1. r.promises[p] = s /\ ~s.fulfilled /\ ~s.pending
      BY <1>3 DEF Fresh
    <3>2. p \in T <=> s.ptr = Null
      BY <1>4
    <3> QED
      BY <3>1, <3>2, <1>7 DEF StagedOf
  <2>3. T \subseteq Live(r)
    BY <1>3, <1>4
  <2> QED
    BY <2>1, <2>2, <2>3, <1>3 DEF Staged
<1>12. QueueAgrees(r)
  <2>1. ~r.promises[p].pending
    BY <1>3 DEF Fresh
  <2>2. {x \in Live(r) : r.promises[x].pending} = {x \in Live(m) : m.promises[x].pending}
    BY <2>1, <1>3, <1>5
  <2> QED
    BY <2>2, <1>1, <1>3 DEF QueueAgrees
<1>13. Grounded(r)
  <2>1. ASSUME NEW S \in SUBSET Live(r), S # {} PROVE \E x \in S : Params(r, x) \cap S = {}
    <3>1. CASE p \in S
      BY <3>1, <1>7
    <3>2. CASE p \notin S
      <4>1. S \in SUBSET Live(m)
        BY <3>2, <1>3
      <4> QED
        BY <4>1, <2>1, <1>1, <1>6 DEF Grounded
    <3> QED
      BY <3>1, <3>2
  <2> QED
    BY <2>1 DEF Grounded
<1>14. \A x \in Ids : At(r, x) = IF x = p THEN s.ptr ELSE At(m, x)
  BY <1>3, <1>5 DEF At
<1>15. MInv(r, T, {}, K)
  <2> HIDE DEF T
  <2> QED
    BY <1>3, <1>8, <1>10, <1>11, <1>12, <1>13 DEF MInv
<1> QED
  BY <1>3, <1>14, <1>15 DEF r

\* Two states that differ at most in what is named.
SameButOwner(s, t) ==
  /\ t.params = s.params /\ t.value = s.value /\ t.fulfilled = s.fulfilled /\ t.left = s.left
  /\ t.dependencyFailed = s.dependencyFailed /\ t.pending = s.pending /\ t.ptr = s.ptr
\* ... in a fulfiller that has counted.
SameButCount(s, t) ==
  /\ t.owner = s.owner /\ t.params = s.params /\ t.listener = s.listener /\ t.value = s.value
  /\ t.fulfilled = s.fulfilled /\ t.pending = s.pending /\ t.ptr = s.ptr

\* addDependency(), of a fulfiller that counts at least one.
LEMMA AddsDependency ==
  ASSUME NEW m, MemTypes(m), NEW q \in Live(m), NEW d \in Live(m), d # q,
         m.promises[q].left # 0
  PROVE  LET r == AddDependency(m, q, d)
         IN /\ MemTypes(r)
            /\ Live(r) = Live(m)
            /\ r.asyncCallbacks = m.asyncCallbacks
            /\ \A x \in Live(m) \ {q, d} : r.promises[x] = m.promises[x]
            /\ r.promises[d].owner = q /\ r.promises[d].listener = q
            /\ SameButOwner(m.promises[d], r.promises[d])
            /\ SameButCount(m.promises[q], r.promises[q])
            /\ r.promises[q].left = IF m.promises[d].fulfilled THEN m.promises[q].left
                                    ELSE m.promises[q].left + 1
            /\ r.promises[q].dependencyFailed <=>
                 (m.promises[q].dependencyFailed
                    \/ (m.promises[d].fulfilled /\ Broken(m.promises[d].value)))
<1> DEFINE r == AddDependency(m, q, d)
           l == m.promises[q].left
           s1 == [m.promises[q] EXCEPT !.left = @ + 1]
           m1 == [m EXCEPT !.promises[q].left = @ + 1]
           s2 == [m.promises[d] EXCEPT !.owner = q]
           m2 == [m1 EXCEPT !.promises[d].owner = q]
           s3 == [s2 EXCEPT !.listener = q]
           m3 == [m2 EXCEPT !.promises[d].listener = q]
<1>1. /\ m.promises[q] \in State /\ m.promises[d] \in State /\ q \in Ids /\ l \in Nat
      /\ m.promises[d].fulfilled \in BOOLEAN
  BY MemoryTypes
<1>2. s1 \in State /\ s1.left = l + 1 /\ SameButCount(m.promises[q], s1)
      /\ s1.dependencyFailed = m.promises[q].dependencyFailed
  BY <1>1 DEF State, SameButCount
<1>3. s2 \in State /\ s2.owner = q /\ SameButOwner(m.promises[d], s2)
  BY <1>1 DEF State, SameButOwner
<1>4. s3 \in State /\ s3.owner = q /\ s3.listener = q /\ SameButOwner(m.promises[d], s3)
  <2> HIDE DEF s2
  <2> QED
    BY <1>1, <1>3 DEF State, SameButOwner
<1>5. Writes(m, m1, q, s1)
  BY <1>1 DEF Writes, MemTypes, IsMemory
<1> HIDE DEF m1, s1
<1>6. /\ MemTypes(m1) /\ Live(m1) = Live(m) /\ m1.asyncCallbacks = m.asyncCallbacks
      /\ m1.promises[q] = s1 /\ \A x \in Live(m) \ {q} : m1.promises[x] = m.promises[x]
  BY <1>2, <1>5, WritesOne
<1>7. Writes(m1, m2, d, s2)
  BY <1>6 DEF Writes, MemTypes, IsMemory
<1> HIDE DEF m2, s2
<1>8. /\ MemTypes(m2) /\ Live(m2) = Live(m) /\ m2.asyncCallbacks = m.asyncCallbacks
      /\ m2.promises[d] = s2 /\ m2.promises[q] = s1
      /\ \A x \in Live(m) \ {q, d} : m2.promises[x] = m.promises[x]
  BY <1>3, <1>6, <1>7, WritesOne
<1>9. Writes(m2, m3, d, s3)
  BY <1>8 DEF Writes, MemTypes, IsMemory
<1> HIDE DEF m3, s3
<1>10. /\ MemTypes(m3) /\ Live(m3) = Live(m) /\ m3.asyncCallbacks = m.asyncCallbacks
       /\ m3.promises[d] = s3 /\ m3.promises[q] = s1
       /\ \A x \in Live(m) \ {q, d} : m3.promises[x] = m.promises[x]
  BY <1>4, <1>8, <1>9, WritesOne
<1>11. s2.fulfilled = m.promises[d].fulfilled /\ s2.value = m.promises[d].value
  BY <1>3 DEF SameButOwner
<1> DEFINE broken == Broken(m.promises[d].value)
<1>12. r = IF m.promises[d].fulfilled THEN DependencyDone(m3, q, broken) ELSE m3
  <2>1. r = SetListener(m2, d, q)
    BY DEF AddDependency, m1, m2
  <2>2. @ = IF m2.promises[d].fulfilled THEN DependencyDone(m3, q, Broken(m2.promises[d].value)) ELSE m3
    BY DEF SetListener, m3
  <2> QED
    BY <2>1, <2>2, <1>8, <1>11
<1>13. broken \in BOOLEAN
  BY DEF Broken
<1> HIDE DEF r, broken
<1>14. CASE m.promises[d].fulfilled
  <2>1. r = DependencyDone(m3, q, broken)
    BY <1>12, <1>14
  <2>2. q \in Live(m3) /\ m3.promises[q].left = l + 1 /\ l \in Nat /\ l # 0
    BY <1>1, <1>2, <1>10
  <2> HIDE DEF l
  <2>3. /\ MemTypes(r)
        /\ SameForest(m3, r)
        /\ r.asyncCallbacks = IF l = 0 THEN Append(m3.asyncCallbacks, q) ELSE m3.asyncCallbacks
        /\ \A x \in Live(m3) \ {q} : r.promises[x] = m3.promises[x]
        /\ r.promises[q].left = l
        /\ r.promises[q].dependencyFailed <=> (m3.promises[q].dependencyFailed \/ broken)
        /\ r.promises[q].pending <=> (m3.promises[q].pending \/ l = 0)
        /\ r.promises[q].value = m3.promises[q].value
        /\ r.promises[q].fulfilled = m3.promises[q].fulfilled
        /\ r.promises[q].ptr = m3.promises[q].ptr
    BY <2>1, <2>2, <1>10, <1>13, Counts
  <2>4. r.promises[d] = s3 /\ \A x \in Live(m) \ {q, d} : r.promises[x] = m.promises[x]
    BY <2>3, <1>10
  <2>5. r.promises[q].pending = m3.promises[q].pending
    <3>1. Live(r) = Live(m3)
      BY <2>3 DEF SameForest
    <3>2. r.promises[q].pending \in BOOLEAN /\ m3.promises[q].pending \in BOOLEAN
      BY <3>1, <2>2, <2>3, <1>10, MemoryTypes
    <3> QED
      BY <3>2, <2>2, <2>3
  <2>6. SameButCount(s1, r.promises[q])
    BY <2>2, <2>3, <2>5, <1>10 DEF SameForest, SameButCount
  <2>7. SameButCount(m.promises[q], r.promises[q])
    BY <2>6, <1>2 DEF SameButCount
  <2>8. r.promises[q].dependencyFailed <=> (m.promises[q].dependencyFailed \/ broken)
    BY <2>3, <1>2, <1>10
  <2>9. Live(r) = Live(m) /\ r.asyncCallbacks = m.asyncCallbacks
    BY <2>2, <2>3, <1>10 DEF SameForest
  <2> QED
    BY <2>2, <2>3, <2>4, <2>7, <2>8, <2>9, <1>4, <1>14 DEF r, broken, l
<1>15. CASE ~m.promises[d].fulfilled
  BY <1>2, <1>4, <1>10, <1>12, <1>15 DEF r
<1> QED
  BY <1>14, <1>15

\* What a promise waits for is a sequence.
LEMMA DepsAreSequences ==
  ASSUME NEW deps \in Deps
  PROVE  /\ deps \in Seq(Ids) /\ Len(deps) \in Nat /\ Len(deps) \in 0 .. MaxParams
         /\ DOMAIN deps = 1 .. Len(deps) /\ IsFiniteSet(Range(deps))
         /\ Range(deps) \subseteq Ids
         /\ Range(deps) = {deps[i] : i \in 1 .. Len(deps)}
<1>1. PICK n \in 0 .. MaxParams : deps \in [1 .. n -> Ids]
  BY DEF Deps
<1>2. n \in Nat
  BY LoopAssumption
<1>3. deps \in Seq(Ids) /\ Len(deps) = n /\ DOMAIN deps = 1 .. n
  BY <1>1, <1>2
<1>4. Range(deps) \subseteq Ids
  BY <1>1 DEF Range
<1>5. IsFiniteSet(Ids)
  <2>1. 1 \in Int /\ MaxPromises \in Int
    BY LoopAssumption
  <2> QED
    BY <2>1, FS_Interval DEF Ids
<1>6. IsFiniteSet(Range(deps))
  BY <1>4, <1>5, FS_Subset
<1>7. Range(deps) = {deps[i] : i \in 1 .. Len(deps)}
  BY <1>3 DEF Range
<1> QED
  BY <1>2, <1>3, <1>4, <1>6, <1>7

\* The first n dependencies, and those of them that are not fulfilled.
FirstDeps(deps, n) == {deps[i] : i \in 1 .. n}
OpenDeps(m, deps, n) == {d \in FirstDeps(deps, n) : ~m.promises[d].fulfilled}

\* when() has added n dependencies.
HasAdded(m, q, deps, n, a) ==
  /\ MemTypes(a) /\ Live(a) = Live(m) \cup {q} /\ a.asyncCallbacks = m.asyncCallbacks
  /\ \A x \in Live(m) \ FirstDeps(deps, n) : a.promises[x] = m.promises[x]
  /\ \A x \in FirstDeps(deps, n) :
       /\ a.promises[x].owner = q /\ a.promises[x].listener = q
       /\ SameButOwner(m.promises[x], a.promises[x])
  /\ SameButCount([PlainState EXCEPT !.params = deps], a.promises[q])
  /\ a.promises[q].left = Cardinality(OpenDeps(m, deps, n)) + 1
  /\ a.promises[q].dependencyFailed <=>
       \E d \in FirstDeps(deps, n) : m.promises[d].fulfilled /\ Broken(m.promises[d].value)

\* The next dependency is another one.
LEMMA FirstDepsGrow ==
  ASSUME NEW m, NEW deps \in Deps, IsInjective(deps), NEW n \in Nat, n < Len(deps)
  PROVE  LET d == deps[n + 1]
         IN /\ d \in Range(deps)
            /\ d \notin FirstDeps(deps, n)
            /\ FirstDeps(deps, n + 1) = FirstDeps(deps, n) \cup {d}
            /\ FirstDeps(deps, n) \subseteq Range(deps)
            /\ IsFiniteSet(OpenDeps(m, deps, n))
            /\ Cardinality(OpenDeps(m, deps, n)) \in Nat
            /\ Cardinality(OpenDeps(m, deps, n + 1)) =
                 IF m.promises[d].fulfilled THEN Cardinality(OpenDeps(m, deps, n))
                 ELSE Cardinality(OpenDeps(m, deps, n)) + 1
<1> DEFINE d == deps[n + 1]
<1>1. /\ deps \in Seq(Ids) /\ Len(deps) \in Nat /\ DOMAIN deps = 1 .. Len(deps)
      /\ IsFiniteSet(Range(deps)) /\ Range(deps) = {deps[i] : i \in 1 .. Len(deps)}
  BY DepsAreSequences
<1>2. n + 1 \in 1 .. Len(deps) /\ \A i \in 1 .. n : i \in 1 .. Len(deps) /\ i # n + 1
  BY <1>1
<1>3. \A i \in 1 .. n + 1 : i \in 1 .. n \/ i = n + 1
  OBVIOUS
<1>4. d \in Range(deps) /\ FirstDeps(deps, n) \subseteq Range(deps)
  BY <1>1, <1>2 DEF FirstDeps
<1>5. d \notin FirstDeps(deps, n)
  <2>1. \A i \in 1 .. n : deps[i] # deps[n + 1]
    BY <1>1, <1>2 DEF IsInjective
  <2> QED
    BY <2>1 DEF FirstDeps
<1>6. FirstDeps(deps, n + 1) = FirstDeps(deps, n) \cup {d}
  <2>1. \A i \in 1 .. n : i \in 1 .. n + 1
    OBVIOUS
  <2> QED
    BY <1>3, <2>1 DEF FirstDeps
<1> HIDE DEF d
<1>7. IsFiniteSet(OpenDeps(m, deps, n)) /\ d \notin OpenDeps(m, deps, n)
  <2>1. OpenDeps(m, deps, n) \subseteq Range(deps)
    BY <1>4 DEF OpenDeps
  <2> QED
    BY <2>1, <1>1, <1>5, FS_Subset DEF OpenDeps
<1>8. OpenDeps(m, deps, n + 1) = IF m.promises[d].fulfilled THEN OpenDeps(m, deps, n)
                                 ELSE OpenDeps(m, deps, n) \cup {d}
  BY <1>6 DEF OpenDeps
<1>9. Cardinality(OpenDeps(m, deps, n)) \in Nat
      /\ Cardinality(OpenDeps(m, deps, n) \cup {d}) = Cardinality(OpenDeps(m, deps, n)) + 1
  BY <1>7, FS_AddElement, FS_CardinalityType
<1> QED
  BY <1>4, <1>5, <1>6, <1>7, <1>8, <1>9 DEF d

\* ... and one more.
LEMMA HasAddedNext ==
  ASSUME NEW m, NEW q, q \notin Live(m), NEW deps \in Deps, Range(deps) \subseteq Live(m),
         IsInjective(deps), NEW n \in Nat, n < Len(deps), NEW a, HasAdded(m, q, deps, n, a)
  PROVE  HasAdded(m, q, deps, n + 1, AddDependency(a, q, deps[n + 1]))
<1> DEFINE d == deps[n + 1]
           F == FirstDeps(deps, n)
           G == FirstDeps(deps, n + 1)
           c == Cardinality(OpenDeps(m, deps, n))
           r == AddDependency(a, q, d)
<1>1. /\ d \in Range(deps) /\ d \notin F /\ G = F \cup {d} /\ F \subseteq Range(deps) /\ c \in Nat
      /\ Cardinality(OpenDeps(m, deps, n + 1)) = IF m.promises[d].fulfilled THEN c ELSE c + 1
  <2> HIDE DEF d
  <2> QED
    BY FirstDepsGrow DEF d
<1> HIDE DEF d, F, G, c, r
<1>2. /\ MemTypes(a) /\ Live(a) = Live(m) \cup {q} /\ a.asyncCallbacks = m.asyncCallbacks
      /\ \A x \in Live(m) \ F : a.promises[x] = m.promises[x]
      /\ \A x \in F :
           /\ a.promises[x].owner = q /\ a.promises[x].listener = q
           /\ SameButOwner(m.promises[x], a.promises[x])
      /\ SameButCount([PlainState EXCEPT !.params = deps], a.promises[q])
      /\ a.promises[q].left = c + 1
      /\ a.promises[q].dependencyFailed <=>
           \E x \in F : m.promises[x].fulfilled /\ Broken(m.promises[x].value)
  BY DEF HasAdded, F, c
<1>3. d \in Live(m) /\ d # q /\ d \in Live(a) /\ q \in Live(a) /\ a.promises[d] = m.promises[d]
      /\ a.promises[q].left # 0
  BY <1>1, <1>2
<1>4. /\ MemTypes(r)
      /\ Live(r) = Live(a)
      /\ r.asyncCallbacks = a.asyncCallbacks
      /\ \A x \in Live(a) \ {q, d} : r.promises[x] = a.promises[x]
      /\ r.promises[d].owner = q /\ r.promises[d].listener = q
      /\ SameButOwner(a.promises[d], r.promises[d])
      /\ SameButCount(a.promises[q], r.promises[q])
      /\ r.promises[q].left = IF a.promises[d].fulfilled THEN a.promises[q].left
                              ELSE a.promises[q].left + 1
      /\ r.promises[q].dependencyFailed <=>
           (a.promises[q].dependencyFailed
              \/ (a.promises[d].fulfilled /\ Broken(a.promises[d].value)))
  BY <1>2, <1>3, AddsDependency DEF r
<1>5. \A x \in Live(m) \ G : r.promises[x] = m.promises[x]
  BY <1>1, <1>2, <1>4
<1>6. ASSUME NEW x \in G
      PROVE  /\ r.promises[x].owner = q /\ r.promises[x].listener = q
             /\ SameButOwner(m.promises[x], r.promises[x])
  <2>1. CASE x = d
    BY <2>1, <1>3, <1>4
  <2>2. CASE x # d
    <3>1. x \in F /\ x \in Live(a) /\ x # q
      BY <2>2, <1>1, <1>2
    <3>2. r.promises[x] = a.promises[x]
      BY <3>1, <2>2, <1>4
    <3> QED
      BY <3>1, <3>2, <1>2
  <2> QED
    BY <2>1, <2>2
<1>7. SameButCount([PlainState EXCEPT !.params = deps], r.promises[q])
  BY <1>2, <1>4 DEF SameButCount
<1>8. r.promises[q].left = Cardinality(OpenDeps(m, deps, n + 1)) + 1
  BY <1>1, <1>2, <1>3, <1>4
<1>9. r.promises[q].dependencyFailed <=>
        \E x \in G : m.promises[x].fulfilled /\ Broken(m.promises[x].value)
  BY <1>1, <1>2, <1>3, <1>4
<1>10. MemTypes(r) /\ Live(r) = Live(m) \cup {q} /\ r.asyncCallbacks = m.asyncCallbacks
  BY <1>2, <1>4
<1>11. HasAdded(m, q, deps, n + 1, r)
  BY <1>5, <1>6, <1>7, <1>8, <1>9, <1>10 DEF HasAdded, G
<1> QED
  BY <1>11 DEF r, d

\* The fulfiller that when() makes.
BegunWhen(deps) == [PlainState EXCEPT !.left = 1, !.params = deps]

\* Before the first dependency is added.
LEMMA WhenBegins ==
  ASSUME NEW m, MemTypes(m), NEW q \in Ids, q \notin Live(m), NEW deps \in Deps
  PROVE  HasAdded(m, q, deps, 0, NewPromise(m, q, BegunWhen(deps)))
<1> DEFINE s == BegunWhen(deps)
           a == NewPromise(m, q, s)
<1>1. s \in State /\ SameButCount([PlainState EXCEPT !.params = deps], s) /\ s.left = 1
      /\ s.dependencyFailed = FALSE
  BY DEF BegunWhen, PlainState, SameButCount, State, Values
<1> HIDE DEF s
<1>2. /\ MemTypes(a)
      /\ Live(a) = Live(m) \cup {q}
      /\ a.asyncCallbacks = m.asyncCallbacks
      /\ a.promises[q] = s
      /\ \A x \in Live(m) \ {q} : a.promises[x] = m.promises[x]
  BY <1>1, AddsOne
<1>3. FirstDeps(deps, 0) = {} /\ OpenDeps(m, deps, 0) = {}
  BY DEF FirstDeps, OpenDeps
<1>4. Cardinality({}) = 0
  BY FS_EmptySet
<1> HIDE DEF a
<1>5. HasAdded(m, q, deps, 0, a)
  BY <1>1, <1>2, <1>3, <1>4 DEF HasAdded
<1> QED
  BY <1>5 DEF a, s

\* when() adds one dependency after the other.
LEMMA WhenAddsAll ==
  ASSUME NEW m, MemTypes(m), NEW q \in Ids, q \notin Live(m), NEW deps \in Deps,
         Range(deps) \subseteq Live(m), IsInjective(deps)
  PROVE  \E a : HasAdded(m, q, deps, Len(deps), a) /\ When(m, q, deps) = CountDown(a, q)
<1> DEFINE made == NewPromise(m, q, BegunWhen(deps))
           Is(f) == f = [i \in 0 .. Len(deps) |-> IF i = 0 THEN made
                                                   ELSE AddDependency(f[i - 1], q, deps[i])]
           Added == CHOOSE f : Is(f)
           Upto(f, n) == /\ DOMAIN f = 0 .. n
                         /\ f = [i \in 0 .. n |-> IF i = 0 THEN made
                                                  ELSE AddDependency(f[i - 1], q, deps[i])]
           S == {n \in Nat : \E f : Upto(f, n)}
<1>0. Len(deps) \in Nat
  BY DepsAreSequences
<1>1. 0 \in S
  <2>1. PICK f : f = [i \in 0 .. 0 |-> made]
    OBVIOUS
  <2>2. f = [i \in 0 .. 0 |-> IF i = 0 THEN made ELSE AddDependency(f[i - 1], q, deps[i])]
    <3>1. \A i \in 0 .. 0 : i = 0
      OBVIOUS
    <3> HIDE DEF made
    <3> QED
      BY <2>1, <3>1
  <2>3. DOMAIN f = 0 .. 0
    BY <2>1
  <2> HIDE DEF made
  <2> QED
    BY <2>2, <2>3
<1> HIDE DEF made
<1>2. ASSUME NEW n \in S PROVE n + 1 \in S
  <2>1. n \in Nat /\ n + 1 \in Nat
    OBVIOUS
  <2>2. PICK f : Upto(f, n)
    OBVIOUS
  <2>3. PICK g : g = [i \in 0 .. n + 1 |-> IF i = n + 1 THEN AddDependency(f[n], q, deps[n + 1])
                                           ELSE f[i]]
    OBVIOUS
  <2>4. /\ DOMAIN g = 0 .. n + 1
        /\ \A i \in 0 .. n : g[i] = f[i]
        /\ g[n + 1] = AddDependency(f[n], q, deps[n + 1])
    BY <2>1, <2>3
  <2>5. \A i \in 0 .. n : f[i] = IF i = 0 THEN made ELSE AddDependency(f[i - 1], q, deps[i])
    BY <2>2
  <2>6. ASSUME NEW i \in 0 .. n + 1
        PROVE  g[i] = IF i = 0 THEN made ELSE AddDependency(g[i - 1], q, deps[i])
    <3>1. CASE i = n + 1
      <4>1. i # 0 /\ i - 1 = n /\ n \in 0 .. n
        BY <2>1, <3>1
      <4>2. g[i - 1] = f[n]
        BY <2>4, <4>1
      <4> QED
        BY <2>4, <3>1, <4>1, <4>2
    <3>2. CASE i \in 0 .. n
      <4>1. i # 0 => i - 1 \in 0 .. n
        BY <2>1, <3>2
      <4>2. i # 0 => g[i - 1] = f[i - 1]
        BY <2>4, <4>1
      <4> QED
        BY <2>4, <2>5, <3>2, <4>2
    <3> QED
      BY <2>1, <3>1, <3>2
  <2>7. Upto(g, n + 1)
    BY <2>3, <2>4, <2>6
  <2> QED
    BY <2>1, <2>7
<1>3. S = Nat
  <2>1. S \in SUBSET Nat
    OBVIOUS
  <2>2. \A n \in S : n + 1 \in S
    BY <1>2
  <2> HIDE DEF S
  <2> QED
    BY <1>1, <2>1, <2>2, NaturalsFromZero
<1>4. \E f : Is(f)
  <2>1. Len(deps) \in S
    BY <1>0, <1>3
  <2>2. PICK f : Upto(f, Len(deps))
    BY <2>1
  <2> QED
    BY <2>2
<1>5. Is(Added)
  BY <1>4
<1>6. When(m, q, deps) = CountDown(Added[Len(deps)], q)
  BY DEF When, made, BegunWhen
<1> HIDE DEF Added
<1>7. \A i \in 0 .. Len(deps) : Added[i] = IF i = 0 THEN made ELSE AddDependency(Added[i - 1], q, deps[i])
  BY <1>5
<1> DEFINE T == {n \in Nat : n <= Len(deps) => HasAdded(m, q, deps, n, Added[n])}
<1>8. 0 \in T
  <2>1. Added[0] = made /\ HasAdded(m, q, deps, 0, made)
    BY <1>0, <1>7, WhenBegins DEF made
  <2> QED
    BY <2>1
<1>9. ASSUME NEW n \in T PROVE n + 1 \in T
  <2>1. n + 1 \in Nat /\ n \in Nat
    OBVIOUS
  <2>2. ASSUME n + 1 <= Len(deps) PROVE HasAdded(m, q, deps, n + 1, Added[n + 1])
    <3>1. n < Len(deps) /\ n + 1 \in 0 .. Len(deps) /\ n + 1 # 0 /\ (n + 1) - 1 = n
      BY <1>0, <2>1, <2>2
    <3>2. Added[n + 1] = AddDependency(Added[n], q, deps[n + 1])
      BY <1>7, <3>1
    <3>3. HasAdded(m, q, deps, n, Added[n])
      BY <3>1, <1>0
    <3> QED
      BY <2>1, <3>1, <3>2, <3>3, HasAddedNext
  <2> QED
    BY <2>1, <2>2
<1>10. T = Nat
  <2>1. T \in SUBSET Nat
    OBVIOUS
  <2>2. \A n \in T : n + 1 \in T
    BY <1>9
  <2> HIDE DEF T
  <2> QED
    BY <1>8, <2>1, <2>2, NaturalsFromZero
<1>11. HasAdded(m, q, deps, Len(deps), Added[Len(deps)])
  <2>1. Len(deps) \in T
    BY <1>0, <1>10
  <2> QED
    BY <1>0, <2>1
<1> QED
  BY <1>6, <1>11

\* A dependency less: the last one queues the callback.
LEMMA CountsDown ==
  ASSUME NEW a, MemTypes(a), NEW q \in Live(a), NEW c \in Nat, a.promises[q].left = c + 1
  PROVE  LET r == CountDown(a, q)
         IN /\ MemTypes(r)
            /\ Live(r) = Live(a)
            /\ r.asyncCallbacks = IF c = 0 THEN Append(a.asyncCallbacks, q) ELSE a.asyncCallbacks
            /\ \A x \in Live(a) \ {q} : r.promises[x] = a.promises[x]
            /\ r.promises[q].owner = a.promises[q].owner
            /\ r.promises[q].params = a.promises[q].params
            /\ r.promises[q].listener = a.promises[q].listener
            /\ r.promises[q].left = c
            /\ r.promises[q].dependencyFailed = a.promises[q].dependencyFailed
            /\ r.promises[q].pending <=> (a.promises[q].pending \/ c = 0)
            /\ r.promises[q].value = a.promises[q].value
            /\ r.promises[q].fulfilled = a.promises[q].fulfilled
            /\ r.promises[q].ptr = a.promises[q].ptr
<1> DEFINE b == [a EXCEPT !.promises[q].dependencyFailed = @ \/ FALSE]
           r == CountDown(a, q)
<1>1. a.promises[q] \in State /\ a.promises[q].dependencyFailed \in BOOLEAN
  BY MemoryTypes
<1>2. b = a
  <2>1. [a.promises[q] EXCEPT !.dependencyFailed = @ \/ FALSE] = a.promises[q]
    <3>1. (a.promises[q].dependencyFailed \/ FALSE) = a.promises[q].dependencyFailed
      BY <1>1
    <3> QED
      BY <3>1, <1>1 DEF State
  <2>2. Writes(a, b, q, [a.promises[q] EXCEPT !.dependencyFailed = @ \/ FALSE])
    BY DEF Writes, MemTypes, IsMemory
  <2>3. [a.promises EXCEPT ![q] = a.promises[q]] = a.promises
    BY DEF MemTypes, Live
  <2>4. a = [promises |-> a.promises, asyncCallbacks |-> a.asyncCallbacks]
    BY DEF MemTypes, IsMemory
  <2> HIDE DEF b
  <2> QED
    BY <2>1, <2>2, <2>3, <2>4 DEF Writes
<1>3. r = DependencyDone(a, q, FALSE)
  <2>1. DependencyDone(a, q, FALSE) = CountDown(b, q)
    BY DEF DependencyDone
  <2> HIDE DEF b
  <2> QED
    BY <2>1, <1>2
<1> HIDE DEF r
<1> DEFINE no == FALSE
<1>4. no \in BOOLEAN /\ r = DependencyDone(a, q, no)
  BY <1>3
<1> HIDE DEF no
<1>5. /\ MemTypes(r)
      /\ SameForest(a, r)
      /\ r.asyncCallbacks = IF c = 0 THEN Append(a.asyncCallbacks, q) ELSE a.asyncCallbacks
      /\ \A x \in Live(a) \ {q} : r.promises[x] = a.promises[x]
      /\ r.promises[q].left = c
      /\ r.promises[q].dependencyFailed <=> (a.promises[q].dependencyFailed \/ no)
      /\ r.promises[q].pending <=> (a.promises[q].pending \/ c = 0)
      /\ r.promises[q].value = a.promises[q].value
      /\ r.promises[q].fulfilled = a.promises[q].fulfilled
      /\ r.promises[q].ptr = a.promises[q].ptr
  BY <1>4, Counts
<1>6. Live(r) = Live(a)
  BY <1>5 DEF SameForest
<1>7. r.promises[q].dependencyFailed = a.promises[q].dependencyFailed
  <2>1. r.promises[q].dependencyFailed \in BOOLEAN
    BY <1>5, <1>6, MemoryTypes
  <2> QED
    BY <2>1, <1>1, <1>5 DEF no
<1> QED
  BY <1>5, <1>6, <1>7 DEF SameForest, r

\* executor.when(deps): a fulfiller that waits.
LEMMA Waits ==
  ASSUME NEW m, NEW R, NEW K, MInv(m, R, {}, K), NEW q \in Ids, q \notin Live(m),
         NEW deps \in Deps, IsInjective(deps), Range(deps) \subseteq Live(m),
         \A d \in Range(deps) : m.promises[d].owner = User
  PROVE  LET r == When(m, q, deps)
         IN /\ MInv(r, R, {}, K)
            /\ \A x \in Ids : At(r, x) = At(m, x)
            /\ Live(r) = Live(m) \cup {q}
<1> DEFINE r == When(m, q, deps)
           D == Range(deps)
           open == OpenDeps(m, deps, Len(deps))
           c == Cardinality(open)
<1>1. MemTypes(m) /\ Owned(m, K) /\ Counted(m, {}) /\ Staged(m, R) /\ QueueAgrees(m) /\ Grounded(m)
  BY DEF MInv
<1>2. PICK a : HasAdded(m, q, deps, Len(deps), a) /\ r = CountDown(a, q)
  BY <1>1, WhenAddsAll
<1>3. FirstDeps(deps, Len(deps)) = D /\ IsFiniteSet(D)
  BY DepsAreSequences DEF FirstDeps
<1>4. open = {d \in D : ~m.promises[d].fulfilled} /\ IsFiniteSet(open) /\ c \in Nat
  <2>1. open = {d \in D : ~m.promises[d].fulfilled}
    BY <1>3 DEF OpenDeps
  <2> QED
    BY <2>1, <1>3, FS_Subset, FS_CardinalityType
<1> HIDE DEF D, c, r
<1>5. /\ MemTypes(a) /\ Live(a) = Live(m) \cup {q} /\ a.asyncCallbacks = m.asyncCallbacks
      /\ \A x \in Live(m) \ D : a.promises[x] = m.promises[x]
      /\ \A x \in D :
           /\ a.promises[x].owner = q /\ a.promises[x].listener = q
           /\ SameButOwner(m.promises[x], a.promises[x])
      /\ SameButCount([PlainState EXCEPT !.params = deps], a.promises[q])
      /\ a.promises[q].left = c + 1
      /\ a.promises[q].dependencyFailed <=>
           \E d \in D : m.promises[d].fulfilled /\ Broken(m.promises[d].value)
  BY <1>2, <1>3 DEF HasAdded, c
<1>6. q \in Live(a) /\ D \subseteq Live(m)
  BY <1>5 DEF D
<1>7. /\ MemTypes(r)
      /\ Live(r) = Live(a)
      /\ r.asyncCallbacks = IF c = 0 THEN Append(a.asyncCallbacks, q) ELSE a.asyncCallbacks
      /\ \A x \in Live(a) \ {q} : r.promises[x] = a.promises[x]
      /\ r.promises[q].owner = a.promises[q].owner
      /\ r.promises[q].params = a.promises[q].params
      /\ r.promises[q].listener = a.promises[q].listener
      /\ r.promises[q].left = c
      /\ r.promises[q].dependencyFailed = a.promises[q].dependencyFailed
      /\ r.promises[q].pending <=> (a.promises[q].pending \/ c = 0)
      /\ r.promises[q].value = a.promises[q].value
      /\ r.promises[q].fulfilled = a.promises[q].fulfilled
      /\ r.promises[q].ptr = a.promises[q].ptr
  BY <1>2, <1>4, <1>5, <1>6, CountsDown
<1>8. /\ r.promises[q].owner = User /\ r.promises[q].params = deps
      /\ r.promises[q].listener = Null /\ ~r.promises[q].fulfilled
      /\ r.promises[q].ptr = Null /\ (r.promises[q].pending <=> c = 0)
  BY <1>5, <1>7 DEF SameButCount, PlainState
<1>9. Live(r) = Live(m) \cup {q} /\ \A x \in Live(m) \ D : r.promises[x] = m.promises[x]
  BY <1>5, <1>7
<1>10. \A x \in D : /\ r.promises[x].owner = q /\ r.promises[x].listener = q
                    /\ SameButOwner(m.promises[x], r.promises[x])
  BY <1>5, <1>6, <1>7
<1>11. \A x \in Live(m) : SameButOwner(m.promises[x], r.promises[x])
  BY <1>9, <1>10 DEF SameButOwner
<1>12. /\ \A x \in Live(m) : Params(r, x) = Params(m, x) /\ Params(m, x) \subseteq Live(m) \ D
       /\ Params(r, q) = D
  <2>1. User \notin Ids
    BY LoopAssumption
  <2>2. \A d \in D : m.promises[d].owner = User
    BY DEF D
  <2>3. \A x \in Live(m) : Params(r, x) = Params(m, x)
    BY <1>11 DEF Params, SameButOwner
  <2>4. ASSUME NEW x \in Live(m), NEW d \in Params(m, x) PROVE d \in Live(m) \ D
    <3>1. d \in Live(m) /\ m.promises[d].owner = x /\ x \in Ids
      BY <1>1 DEF Owned, MemTypes
    <3> QED
      BY <3>1, <2>1, <2>2
  <2>5. Params(r, q) = D
    BY <1>8 DEF Params, D
  <2> QED
    BY <2>3, <2>4, <2>5
<1>13. Owned(r, K)
  <2>1. User \notin Ids /\ User # Stack /\ q # Stack
    BY LoopAssumption
  <2>2. K \subseteq Live(m) /\ q \notin K
    BY <1>1 DEF Owned
  <2>3. \A d \in D : m.promises[d].owner = User /\ d \notin K
    <3>1. \A d \in D : m.promises[d].owner = User
      BY DEF D
    <3> QED
      BY <3>1, <2>1, <1>1, <1>6 DEF Owned
  <2>4. ASSUME NEW p \in Live(r)
        PROVE  /\ \A d \in Params(r, p) :
                    d \in Live(r) /\ r.promises[d].owner = p /\ r.promises[d].listener = p
               /\ r.promises[p].owner \in Ids =>
                    r.promises[p].owner \in Live(r) /\ p \in Params(r, r.promises[p].owner)
               /\ r.promises[p].owner = Stack <=> p \in K
               /\ r.promises[p].owner = Stack => r.promises[p].fulfilled
               /\ r.promises[p].owner = User => r.promises[p].listener = Null
    <3>1. CASE p = q
      BY <3>1, <2>1, <2>2, <1>6, <1>8, <1>9, <1>10, <1>12
    <3>2. CASE p \in D
      <4>1. p \in Live(m) /\ Params(r, p) = Params(m, p) /\ Params(m, p) \subseteq Live(m) \ D
        BY <3>2, <1>6, <1>12
      <4>2. \A d \in Params(r, p) :
              d \in Live(r) /\ r.promises[d].owner = p /\ r.promises[d].listener = p
        BY <4>1, <1>1, <1>9 DEF Owned
      <4>3. r.promises[p].owner = q
        BY <3>2, <1>10
      <4>4. q # User
        BY <2>1
      <4> QED
        BY <3>2, <4>1, <4>2, <4>3, <4>4, <2>1, <2>3, <1>9, <1>12
    <3>3. CASE p \in Live(m) \ D
      <4>1. r.promises[p] = m.promises[p] /\ Params(r, p) = Params(m, p)
            /\ Params(m, p) \subseteq Live(m) \ D
        BY <3>3, <1>9, <1>12
      <4>2. \A d \in Params(r, p) :
              d \in Live(r) /\ r.promises[d].owner = p /\ r.promises[d].listener = p
        BY <3>3, <4>1, <1>1, <1>9 DEF Owned
      <4>3. /\ m.promises[p].owner \in Ids =>
                 m.promises[p].owner \in Live(m) /\ p \in Params(m, m.promises[p].owner)
            /\ m.promises[p].owner = Stack <=> p \in K
            /\ m.promises[p].owner = Stack => m.promises[p].fulfilled
            /\ m.promises[p].owner = User => m.promises[p].listener = Null
        BY <3>3, <1>1 DEF Owned
      <4> QED
        BY <4>1, <4>2, <4>3, <1>9, <1>12
    <3> QED
      BY <3>1, <3>2, <3>3, <1>9
  <2>5. K \subseteq Live(r)
    BY <2>2, <1>9
  <2> QED
    BY <2>4, <2>5 DEF Owned
<1>14. \A x \in Live(m) : OpenParams(r, x, {}) = OpenParams(m, x, {})
  BY <1>9, <1>12 DEF OpenParams
<1>15. OpenParams(r, q, {}) = open
  BY <1>4, <1>6, <1>11, <1>12 DEF OpenParams, SameButOwner
<1>16. Counted(r, {})
  <2>1. ASSUME NEW x \in Live(m) PROVE CountedOf(r, x, {})
    <3>1. CountedOf(m, x, {})
      BY <1>1 DEF Counted
    <3>2. \A d \in Params(m, x) : r.promises[d].value = m.promises[d].value
      BY <1>9, <1>12
    <3>3. SameButOwner(m.promises[x], r.promises[x])
      BY <1>11
    <3> QED
      BY <3>1, <3>2, <3>3, <1>12, <1>14 DEF CountedOf, SameButOwner
  <2>2. CountedOf(r, q, {})
    <3>1. r.promises[q].left = Cardinality(OpenParams(r, q, {}))
      BY <1>7, <1>15 DEF c
    <3>2. c = 0 <=> open = {}
      BY <1>4, FS_EmptySet DEF c
    <3>3. r.promises[q].pending <=> OpenParams(r, q, {}) = {}
      BY <3>2, <1>8, <1>15
    <3>4. r.promises[q].dependencyFailed <=>
            \E d \in Params(r, q) \ OpenParams(r, q, {}) : Broken(r.promises[d].value)
      <4>1. \A d \in D : r.promises[d].value = m.promises[d].value
        BY <1>10 DEF SameButOwner
      <4>2. \A d \in D : d \in D \ open <=> m.promises[d].fulfilled
        BY <1>4
      <4> QED
        BY <4>1, <4>2, <1>5, <1>7, <1>12, <1>15
    <3> QED
      BY <3>1, <3>3, <3>4 DEF CountedOf
  <2> QED
    BY <2>1, <2>2, <1>9 DEF Counted
<1>17. Staged(r, R)
  <2>1. R \subseteq Live(m) /\ q \notin R
    BY <1>1 DEF Staged
  <2>2. ASSUME NEW x \in Live(m) PROVE StagedOf(r, x, R)
    <3>1. StagedOf(m, x, R)
      BY <1>1 DEF Staged
    <3>2. SameButOwner(m.promises[x], r.promises[x]) /\ Params(r, x) = Params(m, x)
      BY <1>11, <1>12
    <3> QED
      BY <3>1, <3>2 DEF StagedOf, SameButOwner
  <2>3. StagedOf(r, q, R)
    <3>1. c = 0 \/ D # {}
      BY <1>4, FS_EmptySet DEF c
    <3> QED
      BY <3>1, <2>1, <1>8, <1>12 DEF StagedOf
  <2> QED
    BY <2>1, <2>2, <2>3, <1>9 DEF Staged
<1>18. QueueAgrees(r)
  <2>1. m.asyncCallbacks \in Seq(Ids) /\ q \notin Range(m.asyncCallbacks)
    BY <1>1 DEF QueueAgrees, MemTypes
  <2>2. c = 0 => /\ IsInjective(r.asyncCallbacks)
                 /\ Range(r.asyncCallbacks) = Range(m.asyncCallbacks) \cup {q}
    BY <2>1, <1>1, <1>5, <1>7, QueueGrows DEF QueueAgrees
  <2>3. \A x \in Live(m) : r.promises[x].pending = m.promises[x].pending
    BY <1>11 DEF SameButOwner
  <2>4. {x \in Live(r) : r.promises[x].pending} =
          {x \in Live(m) : m.promises[x].pending} \cup (IF c = 0 THEN {q} ELSE {})
    BY <2>3, <1>8, <1>9
  <2> QED
    BY <2>2, <2>4, <1>1, <1>5, <1>7 DEF QueueAgrees
<1>19. Grounded(r)
  <2>1. ASSUME NEW S \in SUBSET Live(r), S # {} PROVE \E x \in S : Params(r, x) \cap S = {}
    <3>1. CASE S \ {q} = {}
      <4>1. S = {q}
        BY <3>1, <2>1
      <4>2. q \notin D
        BY <1>6
      <4> QED
        BY <4>1, <4>2, <1>12
    <3>2. CASE S \ {q} # {}
      <4>1. S \ {q} \in SUBSET Live(m)
        BY <1>9
      <4>2. PICK x \in S \ {q} : Params(m, x) \cap (S \ {q}) = {}
        BY <3>2, <4>1, <1>1 DEF Grounded
      <4> QED
        BY <4>1, <4>2, <1>12
    <3> QED
      BY <3>1, <3>2
  <2> QED
    BY <2>1 DEF Grounded
<1>20. \A x \in Ids : At(r, x) = At(m, x)
  BY <1>8, <1>9, <1>11 DEF At, SameButOwner
<1> QED
  BY <1>7, <1>9, <1>13, <1>16, <1>17, <1>18, <1>19, <1>20 DEF MInv, r

-----------------------------------------------------------------------------
(* Promises that go                                                        *)

\* The callbacks of those that go leave the queue.
LEMMA QueueShrinks ==
  ASSUME NEW s \in Seq(Ids), IsInjective(s), NEW gone
  PROVE  LET t == Sublist(s, {i \in DOMAIN s : s[i] \notin gone})
         IN t \in Seq(Ids) /\ IsInjective(t) /\ Range(t) = Range(s) \ gone
<1> DEFINE kept == {i \in DOMAIN s : s[i] \notin gone}
           t == Sublist(s, kept)
<1>1. Len(s) \in Nat /\ DOMAIN s = 1 .. Len(s) /\ kept \in SUBSET (1 .. Len(s)) /\ kept \in SUBSET (DOMAIN s)
  OBVIOUS
<1>2. \A i \in DOMAIN s : i \in kept <=> s[i] \notin gone
  OBVIOUS
<1> HIDE DEF kept
<1>3. t \in Seq(Ids) /\ DOMAIN t = 1 .. Cardinality(kept)
  BY <1>1, SublistIsTyped
<1>4. \A i \in kept : Place(kept, i) \in DOMAIN t /\ t[Place(kept, i)] = s[i]
  BY <1>1, <1>3, SublistAt
<1>5. \A n \in DOMAIN t : \E i \in kept : Place(kept, i) = n
  BY <1>1, <1>3, PlacesAreTaken
<1> HIDE DEF t
<1>6. Range(t) = Range(s) \ gone
  <2>1. ASSUME NEW x \in Range(t) PROVE x \in Range(s) \ gone
    <3>1. PICK n \in DOMAIN t : x = t[n]
      BY DEF Range
    <3>2. PICK i \in kept : Place(kept, i) = n
      BY <3>1, <1>5
    <3>3. x = s[i] /\ i \in DOMAIN s
      BY <3>1, <3>2, <1>1, <1>4
    <3> QED
      BY <3>2, <3>3, <1>2 DEF Range
  <2>2. ASSUME NEW x \in Range(s) \ gone PROVE x \in Range(t)
    <3>1. PICK i \in DOMAIN s : x = s[i]
      BY DEF Range
    <3>2. i \in kept
      BY <3>1, <1>2
    <3> QED
      BY <3>1, <3>2, <1>4 DEF Range
  <2> QED
    BY <2>1, <2>2
<1>7. IsInjective(t)
  <2>1. ASSUME NEW n1 \in DOMAIN t, NEW n2 \in DOMAIN t, t[n1] = t[n2] PROVE n1 = n2
    <3>1. PICK i1 \in kept : Place(kept, i1) = n1
      BY <1>5
    <3>2. PICK i2 \in kept : Place(kept, i2) = n2
      BY <1>5
    <3>3. s[i1] = s[i2] /\ i1 \in DOMAIN s /\ i2 \in DOMAIN s
      BY <2>1, <3>1, <3>2, <1>1, <1>4
    <3>4. i1 = i2
      BY <3>3 DEF IsInjective
    <3> QED
      BY <3>1, <3>2, <3>4
  <2> QED
    BY <2>1 DEF IsInjective
<1> QED
  BY <1>3, <1>6, <1>7 DEF t, kept

\* A set of promises that goes: with all that they own, and nobody waits for them.
Leaves(m, gone) ==
  /\ gone \subseteq Live(m)
  /\ \A x \in Live(m) : m.promises[x].owner \in gone => x \in gone
  /\ \A x \in gone : m.promises[x].owner \in gone \/ m.promises[x].owner \notin Ids

\* Promises go, and nothing else changes.
LEMMA DeletesShape ==
  ASSUME NEW m, MemTypes(m), NEW gone, gone \subseteq Live(m), IsInjective(m.asyncCallbacks)
  PROVE  LET r == Delete(m, gone)
         IN /\ MemTypes(r)
            /\ Live(r) = Live(m) \ gone
            /\ \A x \in Live(r) : r.promises[x] = m.promises[x]
            /\ IsInjective(r.asyncCallbacks)
            /\ Range(r.asyncCallbacks) = Range(m.asyncCallbacks) \ gone
<1> DEFINE r == Delete(m, gone)
           f == Restrict(m.promises, Live(m) \ gone)
           t == Sublist(m.asyncCallbacks,
                        {i \in DOMAIN m.asyncCallbacks : m.asyncCallbacks[i] \notin gone})
<1>1. r = [promises |-> f, asyncCallbacks |-> t]
  BY DEF Delete
<1>2. t \in Seq(Ids) /\ IsInjective(t) /\ Range(t) = Range(m.asyncCallbacks) \ gone
  <2>1. m.asyncCallbacks \in Seq(Ids)
    BY DEF MemTypes
  <2> QED
    BY <2>1, QueueShrinks
<1>3. /\ f \in [Live(m) \ gone -> State] /\ DOMAIN f = Live(m) \ gone
      /\ \A x \in Live(m) \ gone : f[x] = m.promises[x]
  BY DEF Restrict, MemTypes
<1> HIDE DEF f, t, r
<1>4. r.promises = f /\ r.asyncCallbacks = t /\ IsMemory(r)
  BY <1>1 DEF IsMemory
<1>5. Live(r) = Live(m) \ gone
  BY <1>3, <1>4 DEF Live
<1>6. MemTypes(r)
  BY <1>2, <1>3, <1>4, <1>5 DEF MemTypes
<1> QED
  BY <1>2, <1>3, <1>4, <1>5, <1>6 DEF r

\* ... and what is left is right.
LEMMA Deletes ==
  ASSUME NEW m, NEW R, NEW K, MInv(m, R, {}, K), NEW gone, Leaves(m, gone)
  PROVE  LET r == Delete(m, gone)
         IN /\ MInv(r, R \ gone, {}, K \ gone)
            /\ \A x \in Ids : At(r, x) = IF x \in gone THEN Null ELSE At(m, x)
            /\ Live(r) = Live(m) \ gone
            /\ \A x \in Live(r) : r.promises[x] = m.promises[x]
<1> DEFINE r == Delete(m, gone)
<1>1. MemTypes(m) /\ Owned(m, K) /\ Counted(m, {}) /\ Staged(m, R) /\ QueueAgrees(m) /\ Grounded(m)
  BY DEF MInv
<1>2. /\ MemTypes(r)
      /\ Live(r) = Live(m) \ gone
      /\ \A x \in Live(r) : r.promises[x] = m.promises[x]
      /\ IsInjective(r.asyncCallbacks)
      /\ Range(r.asyncCallbacks) = Range(m.asyncCallbacks) \ gone
  BY <1>1, DeletesShape DEF Leaves, QueueAgrees
<1> HIDE DEF r
<1>3. \A x \in Live(r) : Params(r, x) = Params(m, x) /\ Params(m, x) \subseteq Live(r)
  <2>1. ASSUME NEW x \in Live(r), NEW d \in Params(m, x) PROVE d \notin gone
    <3>1. d \in Live(m) /\ m.promises[d].owner = x /\ x \in Ids /\ x \notin gone
      BY <1>1, <1>2, MemoryTypes DEF Owned
    <3> QED
      BY <3>1 DEF Leaves
  <2>2. \A x \in Live(r) : Params(m, x) \subseteq Live(m)
    BY <1>1, <1>2 DEF Owned
  <2> QED
    BY <2>1, <2>2, <1>2 DEF Params
<1>4. Owned(r, K \ gone)
  <2>1. K \ gone \subseteq Live(r)
    BY <1>1, <1>2 DEF Owned
  <2>2. ASSUME NEW p \in Live(r)
        PROVE  /\ \A d \in Params(r, p) :
                    d \in Live(r) /\ r.promises[d].owner = p /\ r.promises[d].listener = p
               /\ r.promises[p].owner \in Ids =>
                    r.promises[p].owner \in Live(r) /\ p \in Params(r, r.promises[p].owner)
               /\ r.promises[p].owner = Stack <=> p \in K \ gone
               /\ r.promises[p].owner = Stack => r.promises[p].fulfilled
               /\ r.promises[p].owner = User => r.promises[p].listener = Null
    <3>1. p \in Live(m) /\ p \notin gone /\ r.promises[p] = m.promises[p]
      BY <1>2
    <3>2. m.promises[p].owner \notin gone
      BY <3>1 DEF Leaves
    <3>3. /\ \A d \in Params(m, p) :
               d \in Live(m) /\ m.promises[d].owner = p /\ m.promises[d].listener = p
          /\ m.promises[p].owner \in Ids =>
               m.promises[p].owner \in Live(m) /\ p \in Params(m, m.promises[p].owner)
          /\ m.promises[p].owner = Stack <=> p \in K
          /\ m.promises[p].owner = Stack => m.promises[p].fulfilled
          /\ m.promises[p].owner = User => m.promises[p].listener = Null
      BY <3>1, <1>1 DEF Owned
    <3>4. \A d \in Params(r, p) :
               d \in Live(r) /\ r.promises[d].owner = p /\ r.promises[d].listener = p
      BY <3>3, <1>2, <1>3
    <3>5. r.promises[p].owner \in Ids =>
                    r.promises[p].owner \in Live(r) /\ p \in Params(r, r.promises[p].owner)
      BY <3>1, <3>2, <3>3, <1>2, <1>3
    <3> QED
      BY <3>1, <3>3, <3>4, <3>5
  <2> QED
    BY <2>1, <2>2 DEF Owned
<1>5. \A x \in Live(r) : OpenParams(r, x, {}) = OpenParams(m, x, {})
  BY <1>2, <1>3 DEF OpenParams
<1>6. Counted(r, {})
  <2>1. ASSUME NEW x \in Live(r) PROVE CountedOf(r, x, {})
    <3>1. CountedOf(m, x, {})
      BY <1>1, <1>2 DEF Counted
    <3>2. \A d \in Params(m, x) : r.promises[d] = m.promises[d]
      BY <1>2, <1>3
    <3>3. r.promises[x] = m.promises[x]
      BY <1>2
    <3> QED
      BY <3>1, <3>2, <3>3, <1>3, <1>5 DEF CountedOf
  <2> QED
    BY <2>1 DEF Counted
<1>7. Staged(r, R \ gone)
  <2>1. ASSUME NEW x \in Live(r) PROVE StagedOf(r, x, R \ gone)
    <3>1. StagedOf(m, x, R)
      BY <1>1, <1>2 DEF Staged
    <3>2. r.promises[x] = m.promises[x] /\ Params(r, x) = Params(m, x) /\ x \notin gone
      BY <1>2, <1>3
    <3> QED
      BY <3>1, <3>2 DEF StagedOf
  <2> QED
    BY <2>1, <1>1, <1>2 DEF Staged
<1>8. QueueAgrees(r)
  BY <1>1, <1>2 DEF QueueAgrees
<1>9. Grounded(r)
  BY <1>1, <1>2, <1>3 DEF Grounded
<1>10. \A x \in Ids : At(r, x) = IF x \in gone THEN Null ELSE At(m, x)
  BY <1>2 DEF At, Leaves
<1> QED
  BY <1>2, <1>4, <1>6, <1>7, <1>8, <1>9, <1>10 DEF MInv, r

\* A tree is closed under ownership, and whoever is not a seed of it has its owner in it.
LEMMA TreesAreClosed ==
  ASSUME NEW m, NEW seeds, seeds \subseteq Live(m)
  PROVE  LET T == Tree(m, seeds)
         IN /\ seeds \subseteq T /\ T \subseteq Live(m)
            /\ \A x \in Live(m) : m.promises[x].owner \in T => x \in T
            /\ \A x \in T \ seeds : m.promises[x].owner \in T
<1> DEFINE Closed(S) == \A q \in Live(m) : m.promises[q].owner \in S => q \in S
           T == Tree(m, seeds)
<1>1. T = {q \in Live(m) : \A S \in SUBSET Live(m) : seeds \subseteq S /\ Closed(S) => q \in S}
  BY DEF Tree
<1> HIDE DEF T
<1>2. seeds \subseteq T /\ T \subseteq Live(m)
  BY <1>1
<1>3. \A x \in Live(m) : m.promises[x].owner \in T => x \in T
  BY <1>1
<1>4. ASSUME NEW x \in T \ seeds, m.promises[x].owner \notin T PROVE FALSE
  <2>1. T \ {x} \in SUBSET Live(m) /\ seeds \subseteq T \ {x}
    BY <1>2, <1>4
  <2>2. Closed(T \ {x})
    BY <1>2, <1>3, <1>4
  <2>3. x \in T \ {x}
    <3> DEFINE S == T \ {x}
    <3>1. S \in SUBSET Live(m) /\ seeds \subseteq S /\ Closed(S)
      BY <2>1, <2>2
    <3> HIDE DEF S, Closed
    <3>2. x \in S
      BY <3>1, <1>1, <1>4
    <3> QED
      BY <3>2 DEF S
  <2> QED
    BY <2>3
<1> QED
  BY <1>2, <1>3, <1>4 DEF T

\* A tree whose seeds nobody waits for can go.
LEMMA TreesLeave ==
  ASSUME NEW m, NEW seeds, seeds \subseteq Live(m),
         \A x \in seeds : m.promises[x].owner \notin Ids
  PROVE  Leaves(m, Tree(m, seeds))
BY TreesAreClosed DEF Leaves

-----------------------------------------------------------------------------
(* Callbacks                                                               *)

\* The first callback leaves the queue.
LEMMA QueuePops ==
  ASSUME NEW s \in Seq(Ids), IsInjective(s), s # <<>>
  PROVE  /\ Tail(s) \in Seq(Ids) /\ IsInjective(Tail(s))
         /\ Head(s) \in Range(s)
         /\ Range(Tail(s)) = Range(s) \ {Head(s)}
<1> DEFINE t == Tail(s)
           n == Len(s)
<1>1. /\ n \in Nat /\ n # 0 /\ DOMAIN s = 1 .. n /\ Head(s) = s[1] /\ t \in Seq(Ids)
      /\ DOMAIN t = 1 .. n - 1
      /\ \A i \in 1 .. n - 1 : t[i] = s[i + 1]
  OBVIOUS
<1>2. \A i \in 1 .. n - 1 : i + 1 \in 1 .. n /\ i + 1 # 1
  BY <1>1
<1>3. \A i \in 1 .. n : i = 1 \/ (i - 1 \in 1 .. n - 1 /\ (i - 1) + 1 = i)
  BY <1>1
<1>4. 1 \in 1 .. n
  BY <1>1
<1> HIDE DEF t, n
<1>5. \A i \in DOMAIN s, j \in DOMAIN s : s[i] = s[j] => i = j
  BY DEF IsInjective
<1>6. IsInjective(t)
  <2>1. ASSUME NEW i \in DOMAIN t, NEW j \in DOMAIN t, t[i] = t[j] PROVE i = j
    <3>1. i + 1 = j + 1 /\ i \in Nat /\ j \in Nat
      <4>1. i \in 1 .. n - 1 /\ j \in 1 .. n - 1
        BY <1>1
      <4>2. s[i + 1] = s[j + 1] /\ i + 1 \in DOMAIN s /\ j + 1 \in DOMAIN s
        BY <4>1, <2>1, <1>1, <1>2
      <4> QED
        BY <4>1, <4>2, <1>5
    <3> QED
      BY <3>1
  <2> QED
    BY <2>1 DEF IsInjective
<1>7. Head(s) \in Range(s)
  BY <1>1, <1>4 DEF Range
<1>8. ASSUME NEW x \in Range(t) PROVE x \in Range(s) /\ x # Head(s)
  <2>1. PICK i \in DOMAIN t : x = t[i]
    BY DEF Range
  <2>2. x = s[i + 1] /\ i + 1 \in DOMAIN s /\ i + 1 # 1 /\ 1 \in DOMAIN s
    BY <2>1, <1>1, <1>2, <1>4
  <2> QED
    BY <2>2, <1>1, <1>5 DEF Range
<1>9. ASSUME NEW x \in Range(s), x # Head(s) PROVE x \in Range(t)
  <2>1. PICK i \in DOMAIN s : x = s[i]
    BY DEF Range
  <2>2. i - 1 \in DOMAIN t /\ t[i - 1] = x
    BY <2>1, <1>9, <1>1, <1>3
  <2> QED
    BY <2>2 DEF Range
<1> QED
  BY <1>1, <1>6, <1>7, <1>8, <1>9 DEF t

\* Popped, of any memory.
PopFirst(m) == MoveToStack([m EXCEPT !.asyncCallbacks = Tail(@)], Head(m.asyncCallbacks))

\* The first callback of the queue is called: what it waited for moves to the stack.
LEMMA Pops ==
  ASSUME NEW m, MInv(m, {}, {}, {}), m.asyncCallbacks # <<>>
  PROVE  LET r == PopFirst(m)
             q == Head(m.asyncCallbacks)
         IN /\ q \in Live(m)
            /\ MInv(r, {q}, {}, Params(m, q))
            /\ \A x \in Ids : At(r, x) = At(m, x)
            /\ Live(r) = Live(m)
            /\ \A x \in Params(m, q) : r.promises[x].owner = Stack
<1> DEFINE r == PopFirst(m)
           q == Head(m.asyncCallbacks)
           D == Params(m, q)
           s == [m.promises[q] EXCEPT !.params = <<>>, !.pending = FALSE]
           f == [p \in Live(m) |-> IF p = q THEN s
                                   ELSE IF p \in D THEN [m.promises[p] EXCEPT !.owner = Stack]
                                   ELSE m.promises[p]]
           t == Tail(m.asyncCallbacks)
<1>1. MemTypes(m) /\ Owned(m, {}) /\ Counted(m, {}) /\ Staged(m, {}) /\ QueueAgrees(m) /\ Grounded(m)
  BY DEF MInv
<1>2. t \in Seq(Ids) /\ IsInjective(t) /\ q \in Range(m.asyncCallbacks)
      /\ Range(t) = Range(m.asyncCallbacks) \ {q}
  BY <1>1, QueuePops DEF QueueAgrees, MemTypes
<1>3. q \in Live(m) /\ m.promises[q].pending
  BY <1>1, <1>2 DEF QueueAgrees
<1>4. r = [promises |-> f, asyncCallbacks |-> t]
  <2> DEFINE m1 == [m EXCEPT !.asyncCallbacks = Tail(@)]
  <2>1. m1 = [promises |-> m.promises, asyncCallbacks |-> t]
    BY <1>1 DEF MemTypes, IsMemory
  <2>2. m1.promises = m.promises /\ Params(m1, q) = D
    BY <2>1 DEF Params
  <2>3. r = MoveToStack(m1, q)
    BY DEF PopFirst
  <2> HIDE DEF m1, s
  <2>4. [m1 EXCEPT !.promises = f] = [promises |-> f, asyncCallbacks |-> t]
    <3> HIDE DEF f, t
    <3>1. m1 = [promises |-> m1.promises, asyncCallbacks |-> m1.asyncCallbacks]
          /\ m1.asyncCallbacks = t
      BY <2>1
    <3> QED
      BY <3>1
  <2>5. MoveToStack(m1, q) = [m1 EXCEPT !.promises = f]
    <3> HIDE DEF D
    <3> QED
      BY <2>2 DEF MoveToStack, Live, s
  <2> QED
    BY <2>3, <2>4, <2>5
<1>5. /\ s \in State /\ s.owner = m.promises[q].owner /\ s.params = <<>> /\ ~s.pending
      /\ s.listener = m.promises[q].listener /\ s.fulfilled = m.promises[q].fulfilled
      /\ s.value = m.promises[q].value /\ s.ptr = m.promises[q].ptr
      /\ s.left = m.promises[q].left
      /\ s.dependencyFailed = m.promises[q].dependencyFailed
  <2>1. m.promises[q] \in State /\ <<>> \in Deps
    <3>1. 0 \in 0 .. MaxParams /\ <<>> \in [1 .. 0 -> Ids]
      BY LoopAssumption
    <3> QED
      BY <3>1, <1>1, <1>3, MemoryTypes DEF Deps
  <2> HIDE DEF q
  <2> QED
    BY <2>1 DEF State
<1>6. Params(m, q) \cap {q} = {}
  BY <1>1, <1>3 DEF Grounded
<1>7. \A d \in D : d \in Live(m) /\ m.promises[d].owner = q /\ m.promises[d].fulfilled
  <2>1. \A d \in D : d \in Live(m) /\ m.promises[d].owner = q
    BY <1>1, <1>3 DEF Owned
  <2>2. D # {} => OpenParams(m, q, {}) = {}
    BY <1>1, <1>3 DEF Counted, CountedOf
  <2> QED
    BY <2>1, <2>2 DEF OpenParams
<1> HIDE DEF s, r, t
<1>8. /\ f \in [Live(m) -> State]
      /\ f[q] = s
      /\ \A d \in D : /\ f[d].owner = Stack /\ f[d].listener = m.promises[d].listener
                      /\ SameButOwner(m.promises[d], f[d])
      /\ \A x \in Live(m) \ (D \cup {q}) : f[x] = m.promises[x]
  <2>1. \A x \in Live(m) : m.promises[x] \in State
    BY <1>1, MemoryTypes
  <2>2. ASSUME NEW x \in D
        PROVE  /\ f[x] \in State /\ f[x].owner = Stack
               /\ f[x].listener = m.promises[x].listener /\ SameButOwner(m.promises[x], f[x])
    <3>1. f[x] = [m.promises[x] EXCEPT !.owner = Stack]
      BY <1>6, <1>7
    <3>2. m.promises[x] \in State
      BY <2>1, <1>7
    <3> HIDE DEF f
    <3> QED
      BY <3>1, <3>2 DEF State, SameButOwner
  <2>3. f[q] = s /\ \A x \in Live(m) \ (D \cup {q}) : f[x] = m.promises[x]
    BY <1>3
  <2>4. \A x \in Live(m) : f[x] \in State
    <3>1. \A x \in Live(m) : x = q \/ x \in D \/ x \in Live(m) \ (D \cup {q})
      OBVIOUS
    <3> HIDE DEF f
    <3> QED
      BY <3>1, <2>1, <2>2, <2>3, <1>5
  <2> QED
    BY <2>2, <2>3, <2>4
<1>9. DOMAIN f = Live(m)
  OBVIOUS
<1> HIDE DEF f
<1>10. Live(r) = Live(m) /\ r.promises = f /\ r.asyncCallbacks = t /\ IsMemory(r)
  BY <1>4, <1>9 DEF Live, IsMemory
<1>11. MemTypes(r)
  BY <1>1, <1>2, <1>8, <1>10 DEF MemTypes
<1> HIDE DEF q, D
<1>12. \A x \in Live(m) \ (D \cup {q}) : r.promises[x] = m.promises[x]
  BY <1>8, <1>10
<1>13. \A d \in D : /\ r.promises[d].owner = Stack /\ r.promises[d].listener = m.promises[d].listener
                    /\ SameButOwner(m.promises[d], r.promises[d])
  BY <1>8, <1>10
<1>14. r.promises[q] = s
  BY <1>8, <1>10
<1>15. \A x \in Live(m) \ {q} : SameButOwner(m.promises[x], r.promises[x])
  BY <1>12, <1>13 DEF SameButOwner
<1>16. \A x \in Live(m) : /\ r.promises[x].value = m.promises[x].value
                          /\ r.promises[x].fulfilled = m.promises[x].fulfilled
                          /\ r.promises[x].left = m.promises[x].left
                          /\ r.promises[x].dependencyFailed = m.promises[x].dependencyFailed
                          /\ r.promises[x].ptr = m.promises[x].ptr
  <2>1. \A x \in Live(m) \ {q} : /\ r.promises[x].value = m.promises[x].value
                          /\ r.promises[x].fulfilled = m.promises[x].fulfilled
                          /\ r.promises[x].left = m.promises[x].left
                          /\ r.promises[x].dependencyFailed = m.promises[x].dependencyFailed
                          /\ r.promises[x].ptr = m.promises[x].ptr
    BY <1>15 DEF SameButOwner
  <2> QED
    BY <2>1, <1>5, <1>14
<1>17. Params(r, q) = {}
  BY <1>5, <1>14 DEF Params, Range
<1>18. ASSUME NEW x \in Live(m), x # q
       PROVE  /\ Params(r, x) = Params(m, x) /\ Params(m, x) \subseteq Live(m)
              /\ Params(m, x) \cap D = {}
  <2>1. r.promises[x].params = m.promises[x].params
    BY <1>15, <1>18 DEF SameButOwner
  <2>2. \A d \in Params(m, x) : d \in Live(m) /\ m.promises[d].owner = x
    BY <1>1 DEF Owned
  <2> QED
    BY <2>1, <2>2, <1>7, <1>18 DEF Params
<1>19. Owned(r, D)
  <2>1. Stack \notin Ids /\ User # Stack
    BY LoopAssumption
  <2>2. ASSUME NEW p \in Live(m)
        PROVE  /\ \A d \in Params(r, p) :
                    d \in Live(r) /\ r.promises[d].owner = p /\ r.promises[d].listener = p
               /\ r.promises[p].owner \in Ids =>
                    r.promises[p].owner \in Live(r) /\ p \in Params(r, r.promises[p].owner)
               /\ r.promises[p].owner = Stack <=> p \in D
               /\ r.promises[p].owner = Stack => r.promises[p].fulfilled
               /\ r.promises[p].owner = User => r.promises[p].listener = Null
    <3>1. /\ \A d \in Params(m, p) :
               d \in Live(m) /\ m.promises[d].owner = p /\ m.promises[d].listener = p
          /\ m.promises[p].owner \in Ids =>
               m.promises[p].owner \in Live(m) /\ p \in Params(m, m.promises[p].owner)
          /\ m.promises[p].owner # Stack
          /\ m.promises[p].owner = User => m.promises[p].listener = Null
      BY <1>1 DEF Owned
    <3>2. \A d \in Params(r, p) :
                    d \in Live(r) /\ r.promises[d].owner = p /\ r.promises[d].listener = p
      <4>1. CASE p = q
        BY <4>1, <1>17
      <4>2. ASSUME p # q, NEW d \in Params(r, p)
            PROVE  d \in Live(r) /\ r.promises[d].owner = p /\ r.promises[d].listener = p
        <5>1. d \in Params(m, p) /\ d \in Live(m) \ D
          BY <4>2, <1>18
        <5>2. m.promises[d].owner = p /\ m.promises[d].listener = p
          BY <5>1, <3>1
        <5>3. CASE d = q
          BY <5>2, <5>3, <1>5, <1>10, <1>14, <5>1
        <5>4. CASE d # q
          BY <5>1, <5>2, <5>4, <1>10, <1>12
        <5> QED
          BY <5>3, <5>4
      <4> QED
        BY <4>1, <4>2
    <3>3. CASE p \in D
      <4>1. r.promises[p].owner = Stack
        BY <3>3, <1>13
      <4> QED
        BY <3>2, <3>3, <4>1, <2>1, <1>7, <1>16
    <3>4. CASE p \notin D
      <4>1. /\ r.promises[p].owner = m.promises[p].owner
            /\ r.promises[p].listener = m.promises[p].listener
        BY <3>4, <1>5, <1>12, <1>14
      <4>2. m.promises[p].owner # q
        <5>1. m.promises[p].owner = q => p \in D
          BY <3>1, <1>1, <1>3 DEF D, MemTypes
        <5> QED
          BY <5>1, <3>4
      <4> QED
        BY <3>1, <3>2, <3>4, <4>1, <4>2, <1>10, <1>18
    <3> QED
      BY <3>3, <3>4
  <2>3. D \subseteq Live(r)
    BY <1>7, <1>10
  <2> QED
    BY <2>2, <2>3, <1>10 DEF Owned
<1>20. Counted(r, {})
  <2>1. ASSUME NEW x \in Live(m), x # q PROVE CountedOf(r, x, {})
    <3>1. CountedOf(m, x, {})
      BY <1>1 DEF Counted
    <3>2. OpenParams(r, x, {}) = OpenParams(m, x, {})
      BY <1>16, <1>18, <2>1 DEF OpenParams
    <3>3. SameButOwner(m.promises[x], r.promises[x])
      BY <1>15, <2>1
    <3>4. \A d \in Params(m, x) : r.promises[d].value = m.promises[d].value
      BY <1>16, <1>18, <2>1
    <3> QED
      BY <3>1, <3>2, <3>3, <3>4, <1>18, <2>1 DEF CountedOf, SameButOwner
  <2>2. CountedOf(r, q, {})
    <3>1. OpenParams(r, q, {}) = {} /\ OpenParams(m, q, {}) = {}
      BY <1>7, <1>17 DEF OpenParams, D
    <3>2. m.promises[q].left = Cardinality(OpenParams(m, q, {}))
      BY <1>1, <1>3 DEF Counted, CountedOf
    <3> QED
      BY <3>1, <3>2, <1>3, <1>16, <1>17 DEF CountedOf
  <2> QED
    BY <2>1, <2>2, <1>10 DEF Counted
<1>21. Staged(r, {q})
  <2>1. ASSUME NEW x \in Live(m), x # q PROVE StagedOf(r, x, {q})
    <3>1. StagedOf(m, x, {})
      BY <1>1 DEF Staged
    <3>2. SameButOwner(m.promises[x], r.promises[x]) /\ Params(r, x) = Params(m, x)
      BY <1>15, <1>18, <2>1
    <3> QED
      BY <3>1, <3>2, <2>1 DEF StagedOf, SameButOwner
  <2>2. StagedOf(r, q, {q})
    <3>1. StagedOf(m, q, {})
      BY <1>1, <1>3 DEF Staged
    <3> QED
      BY <3>1, <1>3, <1>5, <1>14, <1>17 DEF StagedOf
  <2> QED
    BY <2>1, <2>2, <1>3, <1>10 DEF Staged
<1>22. QueueAgrees(r)
  <2>1. \A x \in Live(m) : r.promises[x].pending <=> (m.promises[x].pending /\ x # q)
    <3>1. \A x \in Live(m) \ {q} : r.promises[x].pending = m.promises[x].pending
      BY <1>15 DEF SameButOwner
    <3>2. ~r.promises[q].pending
      BY <1>5, <1>14
    <3> QED
      BY <3>1, <3>2
  <2> QED
    BY <2>1, <1>1, <1>2, <1>10 DEF QueueAgrees
<1>23. Grounded(r)
  <2>1. \A x \in Live(m) : Params(r, x) \subseteq Params(m, x)
    BY <1>17, <1>18
  <2> QED
    BY <2>1, <1>1, <1>10 DEF Grounded
<1>24. \A x \in Ids : At(r, x) = At(m, x)
  BY <1>10, <1>16 DEF At
<1>25. MInv(r, {q}, {}, D)
  BY <1>11, <1>19, <1>20, <1>21, <1>22, <1>23 DEF MInv
<1> QED
  BY <1>3, <1>10, <1>13, <1>24, <1>25 DEF r, q, D

-----------------------------------------------------------------------------
(* Promises in the place of others                                         *)

\* One dependency is replaced.
LEMMA ReplacesOne ==
  ASSUME NEW deps \in Deps, NEW f \in Range(deps), NEW r \in Ids
  PROVE  /\ ReplaceAll(deps, f, r) \in Deps
         /\ Range(ReplaceAll(deps, f, r)) = (Range(deps) \ {f}) \cup {r}
<1> DEFINE t == ReplaceAll(deps, f, r)
<1>1. PICK n \in 0 .. MaxParams : deps \in [1 .. n -> Ids]
  BY DEF Deps
<1>2. n \in Nat /\ Len(deps) = n
  BY <1>1, LoopAssumption
<1>3. t = [i \in 1 .. n |-> IF deps[i] = f THEN r ELSE deps[i]]
  BY <1>2 DEF ReplaceAll
<1> HIDE DEF t
<1>4. t \in [1 .. n -> Ids] /\ DOMAIN t = 1 .. n /\ DOMAIN deps = 1 .. n
  BY <1>1, <1>3
<1>5. t \in Deps
  BY <1>4 DEF Deps
<1>6. PICK k \in 1 .. n : deps[k] = f
  BY <1>4 DEF Range
<1>7. Range(t) = (Range(deps) \ {f}) \cup {r}
  <2>1. ASSUME NEW x \in Range(t) PROVE x \in (Range(deps) \ {f}) \cup {r}
    <3>1. PICK i \in 1 .. n : x = t[i]
      BY <1>4 DEF Range
    <3> QED
      BY <3>1, <1>3, <1>4 DEF Range
  <2>2. r \in Range(t)
    <3>1. t[k] = r
      BY <1>3, <1>6
    <3> QED
      BY <3>1, <1>4, <1>6 DEF Range
  <2>3. ASSUME NEW x \in Range(deps) \ {f} PROVE x \in Range(t)
    <3>1. PICK i \in 1 .. n : x = deps[i]
      BY <1>4 DEF Range
    <3>2. t[i] = x
      BY <3>1, <1>3
    <3> QED
      BY <3>2, <1>4 DEF Range
  <2> QED
    BY <2>1, <2>2, <2>3
<1> QED
  BY <1>5, <1>7 DEF t

\* Nobody owns, or is owned by, what f is replaced with when nobody waits for f.
LEMMA HandsOverUnheard ==
  ASSUME NEW m, NEW f, NEW K, MInv(m, {f}, {}, K), NEW r \in Live(m),
         m.promises[r].owner = User, m.promises[f].listener = Null
  PROVE  /\ FulfillWith(m, f, r) = Delete(m, {f})
         /\ Leaves(m, {f})
<1>1. MemTypes(m) /\ Owned(m, K) /\ Staged(m, {f})
  BY DEF MInv
<1>2. f \in Live(m) /\ Params(m, f) = {} /\ ~m.promises[f].fulfilled
  BY <1>1 DEF Staged, StagedOf
<1>3. Null \notin Ids /\ User \notin Ids
  BY LoopAssumption
<1>4. m.promises[f].owner = User
  <2>1. m.promises[f].owner \in Ids \cup {User, Stack} /\ m.promises[f].owner # Stack
    BY <1>1, <1>2, MemoryTypes DEF Owned
  <2>2. m.promises[f].owner \in Ids => m.promises[f].listener = m.promises[f].owner
    BY <1>1, <1>2 DEF Owned
  <2> QED
    BY <2>1, <2>2, <1>3
<1> DEFINE g == [p \in Live(m) |->
                   IF p = r THEN [m.promises[p] EXCEPT !.owner = m.promises[f].owner]
                   ELSE IF p = m.promises[f].owner
                   THEN [m.promises[p] EXCEPT !.params = ReplaceAll(@, f, r)]
                   ELSE m.promises[p]]
<1>5. g = m.promises
  <2>1. m.promises \in [Live(m) -> State] /\ \A p \in Live(m) : p # User
    BY <1>1, <1>3 DEF MemTypes
  <2>2. [m.promises[r] EXCEPT !.owner = User] = m.promises[r]
    BY <2>1 DEF State
  <2>3. \A p \in Live(m) : g[p] = m.promises[p]
    BY <2>1, <2>2, <1>4 DEF Live
  <2>4. DOMAIN g = Live(m) /\ DOMAIN m.promises = Live(m)
    BY DEF Live
  <2>5. g = [p \in Live(m) |-> g[p]] /\ m.promises = [p \in Live(m) |-> m.promises[p]]
    BY <2>1, <2>4
  <2> QED
    BY <2>3, <2>5
<1>6. FulfillWith(m, f, r) = Delete([m EXCEPT !.promises = g], {f})
  BY DEF FulfillWith, Replaced
<1>7. [m EXCEPT !.promises = g] = m
  <2> HIDE DEF g
  <2> QED
    BY <1>1, <1>5 DEF MemTypes, IsMemory
<1>8. Leaves(m, {f})
  <2>1. ASSUME NEW x \in Live(m), m.promises[x].owner = f PROVE FALSE
    <3>1. x \in Params(m, f)
      BY <2>1, <1>1, <1>2 DEF Owned, MemTypes
    <3> QED
      BY <3>1, <1>2
  <2> QED
    BY <2>1, <1>2, <1>3, <1>4 DEF Leaves
<1> QED
  BY <1>6, <1>7, <1>8

\* Otherwise r takes the place of f, and o, who owns it, becomes its listener.
\* What is left to do is to tell o if r is fulfilled.
TakesPlace(m, f, r, o, t) ==
  /\ MemTypes(t)
  /\ Live(t) = Live(m) \ {f}
  /\ IsInjective(t.asyncCallbacks)
  /\ Range(t.asyncCallbacks) = Range(m.asyncCallbacks) \ {f}
  /\ t.promises[r].owner = o /\ t.promises[r].listener = o
  /\ SameButOwner(m.promises[r], t.promises[r])
  /\ t.promises[o].owner = m.promises[o].owner
  /\ t.promises[o].listener = m.promises[o].listener
  /\ t.promises[o].value = m.promises[o].value
  /\ t.promises[o].fulfilled = m.promises[o].fulfilled
  /\ t.promises[o].left = m.promises[o].left
  /\ t.promises[o].dependencyFailed = m.promises[o].dependencyFailed
  /\ t.promises[o].pending = m.promises[o].pending
  /\ t.promises[o].ptr = m.promises[o].ptr
  /\ Params(t, o) = (Params(m, o) \ {f}) \cup {r}
  /\ \A x \in Live(m) \ {f, r, o} : t.promises[x] = m.promises[x]

\* That is what fulfill(chainedPromise) does, before it tells.
LEMMA TakesOver ==
  ASSUME NEW m, MemTypes(m), IsInjective(m.asyncCallbacks),
         NEW f \in Live(m), NEW r \in Live(m), NEW o \in Live(m), f # r, r # o, f # o,
         m.promises[f].owner = o, m.promises[f].listener = o, f \in Params(m, o)
  PROVE  \E t : /\ TakesPlace(m, f, r, o, t)
                /\ FulfillWith(m, f, r) =
                     IF m.promises[r].fulfilled
                     THEN DependencyDone(t, o, Broken(m.promises[r].value)) ELSE t
<1> DEFINE sr == [m.promises[r] EXCEPT !.owner = o]
           so == [m.promises[o] EXCEPT !.params = ReplaceAll(@, f, r)]
           g == [p \in Live(m) |->
                   IF p = r THEN [m.promises[p] EXCEPT !.owner = m.promises[f].owner]
                   ELSE IF p = m.promises[f].owner THEN [m.promises[p] EXCEPT !.params = ReplaceAll(@, f, r)]
                   ELSE m.promises[p]]
           m2 == [m EXCEPT !.promises = g]
           n == Delete(m2, {f})
           st == [sr EXCEPT !.listener = o]
           t == [n EXCEPT !.promises[r].listener = o]
<1>1. /\ m.promises[r] \in State /\ m.promises[o] \in State /\ o \in Ids /\ r \in Ids
      /\ m.promises[o].params \in Deps
  BY MemoryTypes
<1>2. sr \in State /\ sr.owner = o /\ SameButOwner(m.promises[r], sr)
  BY <1>1 DEF State, SameButOwner
<1>3. st \in State /\ st.owner = o /\ st.listener = o /\ SameButOwner(m.promises[r], st)
  <2> HIDE DEF sr
  <2> QED
    BY <1>1, <1>2 DEF State, SameButOwner
<1>4. /\ ReplaceAll(m.promises[o].params, f, r) \in Deps
      /\ Range(ReplaceAll(m.promises[o].params, f, r)) = (Params(m, o) \ {f}) \cup {r}
  BY <1>1, ReplacesOne DEF Params
<1>5. /\ so \in State /\ so.params = ReplaceAll(m.promises[o].params, f, r)
      /\ so.owner = m.promises[o].owner
      /\ so.listener = m.promises[o].listener
      /\ so.value = m.promises[o].value
      /\ so.fulfilled = m.promises[o].fulfilled
      /\ so.left = m.promises[o].left
      /\ so.dependencyFailed = m.promises[o].dependencyFailed
      /\ so.pending = m.promises[o].pending
      /\ so.ptr = m.promises[o].ptr
  BY <1>1, <1>4 DEF State
<1> HIDE DEF so, sr, st
<1>6. /\ g \in [Live(m) -> State] /\ DOMAIN g = Live(m)
      /\ g[r] = sr /\ g[o] = so /\ \A x \in Live(m) \ {r, o} : g[x] = m.promises[x]
  <2>1. g[r] = sr /\ g[o] = so /\ \A x \in Live(m) \ {r, o} : g[x] = m.promises[x]
    BY DEF Live, so, sr
  <2>2. DOMAIN g = Live(m)
    BY DEF Live
  <2>3. \A x \in Live(m) : m.promises[x] \in State
    BY MemoryTypes
  <2>4. \A x \in Live(m) : g[x] \in State
    <3> HIDE DEF g
    <3> QED
      BY <2>1, <2>3, <1>2, <1>5
  <2>5. g = [x \in Live(m) |-> g[x]]
    BY <2>2
  <2> HIDE DEF g
  <2> QED
    BY <2>1, <2>2, <2>4, <2>5
<1>7. FulfillWith(m, f, r) = SetListener(n, r, o)
  <2>1. o # Null
    BY <1>1, LoopAssumption
  <2>2. Replaced(m, f, r) = n
    BY DEF Replaced
  <2> QED
    BY <2>1, <2>2 DEF FulfillWith
<1> HIDE DEF g
<1>8. m2.promises = g /\ m2.asyncCallbacks = m.asyncCallbacks /\ IsMemory(m2) /\ Live(m2) = Live(m)
  <2>1. m2 = [promises |-> g, asyncCallbacks |-> m.asyncCallbacks]
    BY DEF MemTypes, IsMemory
  <2> HIDE DEF m2
  <2> QED
    BY <2>1, <1>6 DEF IsMemory, Live
<1> HIDE DEF m2
<1>9. MemTypes(m2)
  BY <1>6, <1>8 DEF MemTypes
<1>10. /\ MemTypes(n)
       /\ Live(n) = Live(m) \ {f}
       /\ \A x \in Live(n) : n.promises[x] = g[x]
       /\ IsInjective(n.asyncCallbacks)
       /\ Range(n.asyncCallbacks) = Range(m.asyncCallbacks) \ {f}
  <2>1. {f} \subseteq Live(m2) /\ IsInjective(m2.asyncCallbacks)
    BY <1>8
  <2>2. /\ MemTypes(n)
        /\ Live(n) = Live(m2) \ {f}
        /\ \A x \in Live(n) : n.promises[x] = m2.promises[x]
        /\ IsInjective(n.asyncCallbacks)
        /\ Range(n.asyncCallbacks) = Range(m2.asyncCallbacks) \ {f}
    BY <2>1, <1>9, DeletesShape
  <2> HIDE DEF n
  <2> QED
    BY <2>2, <1>8
<1> HIDE DEF n
<1>11. r \in Live(n) /\ n.promises[r] = sr /\ o \in Live(n) /\ n.promises[o] = so
  BY <1>6, <1>10
<1>12. Writes(n, t, r, st)
  <2>1. IsMemory(n)
    BY <1>10 DEF MemTypes
  <2> QED
    BY <2>1, <1>11 DEF Writes, IsMemory, st
<1> HIDE DEF t
<1>13. /\ MemTypes(t) /\ Live(t) = Live(n) /\ t.asyncCallbacks = n.asyncCallbacks
       /\ t.promises[r] = st /\ \A x \in Live(n) \ {r} : t.promises[x] = n.promises[x]
  BY <1>3, <1>10, <1>11, <1>12, WritesOne
<1>14. t.promises[o] = so /\ \A x \in Live(m) \ {f, r, o} : t.promises[x] = m.promises[x]
  BY <1>6, <1>10, <1>11, <1>13
<1>15. Params(t, o) = (Params(m, o) \ {f}) \cup {r}
  BY <1>4, <1>5, <1>14 DEF Params
<1>16. TakesPlace(m, f, r, o, t)
  BY <1>3, <1>5, <1>10, <1>13, <1>14, <1>15 DEF TakesPlace
<1>17. SetListener(n, r, o) = IF m.promises[r].fulfilled
                     THEN DependencyDone(t, o, Broken(m.promises[r].value)) ELSE t
  <2>1. n.promises[r].fulfilled = m.promises[r].fulfilled /\ n.promises[r].value = m.promises[r].value
    BY <1>2, <1>11 DEF SameButOwner
  <2> QED
    BY <2>1 DEF SetListener, t
<1> QED
  BY <1>7, <1>16, <1>17

\* It leaves all right but for the listener, who was not told of r.
LEMMA PlaceTaken ==
  ASSUME NEW m, NEW f, NEW K, MInv(m, {f}, {}, K), NEW r \in Live(m), NEW o \in Live(m),
         m.promises[r].owner = User, f # r, r # o, f # o, f \in Params(m, o),
         m.promises[f].owner = o,
         NEW T, r \in T, o \notin T, T \subseteq Live(m),
         \A x \in Live(m) : m.promises[x].owner \in T => x \in T,
         NEW t, TakesPlace(m, f, r, o, t)
  PROVE  /\ MInv(t, {}, {r}, K)
         /\ \A x \in Ids : At(t, x) = At(m, x)
<1>1. MemTypes(m) /\ Owned(m, K) /\ Counted(m, {}) /\ Staged(m, {f}) /\ QueueAgrees(m) /\ Grounded(m)
  BY DEF MInv
<1>2. /\ f \in Live(m) /\ Params(m, f) = {} /\ ~m.promises[f].pending /\ m.promises[f].ptr = Null
      /\ ~m.promises[f].fulfilled
  BY <1>1 DEF Staged, StagedOf
<1>3. User \notin Ids /\ Stack \notin Ids /\ User # Stack /\ r \in Ids /\ o \in Ids /\ f \in Ids
  BY <1>1, <1>2, LoopAssumption, MemoryTypes
<1>4. /\ MemTypes(t)
      /\ Live(t) = Live(m) \ {f}
      /\ IsInjective(t.asyncCallbacks)
      /\ Range(t.asyncCallbacks) = Range(m.asyncCallbacks) \ {f}
      /\ t.promises[r].owner = o /\ t.promises[r].listener = o
      /\ SameButOwner(m.promises[r], t.promises[r])
      /\ Params(t, o) = (Params(m, o) \ {f}) \cup {r}
      /\ \A x \in Live(m) \ {f, r, o} : t.promises[x] = m.promises[x]
  BY DEF TakesPlace
<1>5. /\ t.promises[o].owner = m.promises[o].owner
      /\ t.promises[o].listener = m.promises[o].listener
  BY DEF TakesPlace
<1>6. \A x \in Live(t) : /\ t.promises[x].value = m.promises[x].value
                         /\ t.promises[x].fulfilled = m.promises[x].fulfilled
                         /\ t.promises[x].left = m.promises[x].left
                         /\ t.promises[x].dependencyFailed = m.promises[x].dependencyFailed
                         /\ t.promises[x].pending = m.promises[x].pending
                         /\ t.promises[x].ptr = m.promises[x].ptr
  <2>1. ASSUME NEW x \in Live(t)
        PROVE  /\ t.promises[x].value = m.promises[x].value
               /\ t.promises[x].fulfilled = m.promises[x].fulfilled
               /\ t.promises[x].left = m.promises[x].left
               /\ t.promises[x].dependencyFailed = m.promises[x].dependencyFailed
               /\ t.promises[x].pending = m.promises[x].pending
               /\ t.promises[x].ptr = m.promises[x].ptr
    <3>1. CASE x = r
      BY <3>1 DEF TakesPlace, SameButOwner
    <3>2. CASE x = o
      BY <3>2 DEF TakesPlace
    <3>3. CASE x # r /\ x # o
      BY <3>3, <1>4
    <3> QED
      BY <3>1, <3>2, <3>3
  <2> QED
    BY <2>1
<1>7. \A x \in Live(t) : t.promises[x].params = m.promises[x].params \/ x = o
  <2>1. t.promises[r].params = m.promises[r].params
    BY <1>4 DEF SameButOwner
  <2> QED
    BY <2>1, <1>4
<1>8. \A x \in Live(t) : x # o => Params(t, x) = Params(m, x)
  BY <1>7 DEF Params
<1>9. \A x \in Live(m) : Params(m, x) \subseteq Live(m) /\ r \notin Params(m, x)
                         /\ (x # o => f \notin Params(m, x))
  BY <1>1, <1>3 DEF Owned, MemTypes
<1>10. \A x \in Live(t) : x # r => t.promises[x].owner = m.promises[x].owner
                                   /\ t.promises[x].listener = m.promises[x].listener
  BY <1>4, <1>5
<1>11. Owned(t, K)
  <2>1. ASSUME NEW p \in Live(t)
        PROVE  /\ \A d \in Params(t, p) :
                    d \in Live(t) /\ t.promises[d].owner = p /\ t.promises[d].listener = p
               /\ t.promises[p].owner \in Ids =>
                    t.promises[p].owner \in Live(t) /\ p \in Params(t, t.promises[p].owner)
               /\ t.promises[p].owner = Stack <=> p \in K
               /\ t.promises[p].owner = Stack => t.promises[p].fulfilled
               /\ t.promises[p].owner = User => t.promises[p].listener = Null
    <3>1. p \in Live(m) /\ p # f
      BY <1>4
    <3>2. /\ \A d \in Params(m, p) :
               d \in Live(m) /\ m.promises[d].owner = p /\ m.promises[d].listener = p
          /\ m.promises[p].owner \in Ids =>
               m.promises[p].owner \in Live(m) /\ p \in Params(m, m.promises[p].owner)
          /\ m.promises[p].owner = Stack <=> p \in K
          /\ m.promises[p].owner = Stack => m.promises[p].fulfilled
          /\ m.promises[p].owner = User => m.promises[p].listener = Null
      BY <3>1, <1>1 DEF Owned
    <3>3. ASSUME NEW d \in Params(t, p)
          PROVE  d \in Live(t) /\ t.promises[d].owner = p /\ t.promises[d].listener = p
      <4>1. CASE d = r
        <5>1. p = o
          BY <4>1, <3>1, <3>3, <1>8, <1>9
        <5> QED
          BY <4>1, <5>1, <1>4
      <4>2. CASE d # r
        <5>1. d \in Params(m, p) /\ d # f
          BY <4>2, <3>1, <3>3, <1>4, <1>8, <1>9
        <5> QED
          BY <4>2, <5>1, <3>2, <1>4, <1>10
      <4> QED
        BY <4>1, <4>2
    <3>4. t.promises[p].owner \in Ids =>
                    t.promises[p].owner \in Live(t) /\ p \in Params(t, t.promises[p].owner)
      <4>1. CASE p = r
        BY <4>1, <1>4
      <4>2. ASSUME p # r, t.promises[p].owner \in Ids
            PROVE t.promises[p].owner \in Live(t) /\ p \in Params(t, t.promises[p].owner)
        <5>1. t.promises[p].owner = m.promises[p].owner
          BY <4>2, <1>10
        <5>2. m.promises[p].owner \in Live(m) /\ p \in Params(m, m.promises[p].owner)
          BY <4>2, <5>1, <3>2
        <5>3. m.promises[p].owner # f
          BY <5>2, <1>2
        <5> QED
          BY <5>1, <5>2, <5>3, <3>1, <1>4, <1>8
      <4> QED
        BY <4>1, <4>2
    <3>5. /\ t.promises[p].owner = Stack <=> p \in K
          /\ t.promises[p].owner = Stack => t.promises[p].fulfilled
          /\ t.promises[p].owner = User => t.promises[p].listener = Null
      <4>1. CASE p = r
        BY <4>1, <3>2, <1>3, <1>4
      <4>2. CASE p # r
        BY <4>2, <3>2, <1>6, <1>10
      <4> QED
        BY <4>1, <4>2
    <3> QED
      BY <3>3, <3>4, <3>5
  <2>2. K \subseteq Live(t)
    <3>1. f \notin K
      BY <1>1, <1>2 DEF Owned
    <3> QED
      BY <3>1, <1>1, <1>4 DEF Owned
  <2> QED
    BY <2>1, <2>2 DEF Owned
<1>12. \A x \in Live(t) : x # o => OpenParams(t, x, {r}) = OpenParams(m, x, {})
  BY <1>4, <1>6, <1>8, <1>9 DEF OpenParams
<1>13. OpenParams(t, o, {r}) = (OpenParams(m, o, {}) \ {f}) \cup {r}
  BY <1>4, <1>6, <1>9 DEF OpenParams
<1>14. Counted(t, {r})
  <2>1. ASSUME NEW x \in Live(t), x # o PROVE CountedOf(t, x, {r})
    <3>1. CountedOf(m, x, {})
      BY <1>1, <1>4 DEF Counted
    <3>2. \A d \in Params(m, x) : t.promises[d].value = m.promises[d].value
      BY <2>1, <1>4, <1>6, <1>9
    <3>3. /\ t.promises[x].left = m.promises[x].left
          /\ t.promises[x].dependencyFailed = m.promises[x].dependencyFailed
          /\ t.promises[x].pending = m.promises[x].pending
      BY <1>6
    <3> QED
      BY <3>1, <3>2, <3>3, <1>8, <1>12, <2>1 DEF CountedOf
  <2>2. CountedOf(t, o, {r})
    <3>1. CountedOf(m, o, {})
      BY <1>1 DEF Counted
    <3>2. f \in OpenParams(m, o, {}) /\ r \notin OpenParams(m, o, {}) /\ OpenParams(m, o, {}) \subseteq Params(m, o)
      BY <1>2, <1>9 DEF OpenParams
    <3>3. Cardinality(OpenParams(t, o, {r})) = Cardinality(OpenParams(m, o, {}))
      <4> DEFINE O == OpenParams(m, o, {})
      <4>1. IsFiniteSet(O) /\ Cardinality(O) \in Nat
        BY <1>1, ParamsAreFinite
      <4>2. f \in O /\ r \notin O \ {f}
        BY <3>2
      <4> HIDE DEF O
      <4>3. IsFiniteSet(O \ {f}) /\ Cardinality(O \ {f}) = Cardinality(O) - 1
        BY <4>1, <4>2, FS_RemoveElement
      <4>4. Cardinality((O \ {f}) \cup {r}) = Cardinality(O \ {f}) + 1
        BY <4>2, <4>3, FS_AddElement
      <4>5. Cardinality((O \ {f}) \cup {r}) = Cardinality(O)
        BY <4>1, <4>3, <4>4
      <4> QED
        BY <4>5, <1>13 DEF O
    <3>4. /\ t.promises[o].left = m.promises[o].left
          /\ t.promises[o].dependencyFailed = m.promises[o].dependencyFailed
          /\ t.promises[o].pending = m.promises[o].pending
      BY <1>4, <1>6
    <3>5. Params(t, o) \ OpenParams(t, o, {r}) = Params(m, o) \ OpenParams(m, o, {})
      BY <3>2, <1>4, <1>9, <1>13
    <3>6. \A d \in Params(m, o) \ OpenParams(m, o, {}) : t.promises[d].value = m.promises[d].value
      BY <3>2, <1>4, <1>6, <1>9
    <3>7. Params(t, o) # {} /\ OpenParams(t, o, {r}) # {} /\ Params(m, o) # {} /\ OpenParams(m, o, {}) # {}
      BY <3>2, <1>4, <1>13
    <3> QED
      BY <3>1, <3>3, <3>4, <3>5, <3>6, <3>7 DEF CountedOf
  <2> QED
    BY <2>1, <2>2 DEF Counted
<1>15. Staged(t, {})
  <2>1. ASSUME NEW x \in Live(t) PROVE StagedOf(t, x, {})
    <3>1. StagedOf(m, x, {f}) /\ x # f
      BY <1>1, <1>4 DEF Staged
    <3>2. /\ t.promises[x].fulfilled = m.promises[x].fulfilled
          /\ t.promises[x].pending = m.promises[x].pending
          /\ t.promises[x].ptr = m.promises[x].ptr
      BY <1>6
    <3>3. Params(t, x) = {} <=> Params(m, x) = {}
      BY <1>4, <1>8
    <3> QED
      BY <3>1, <3>2, <3>3 DEF StagedOf
  <2> QED
    BY <2>1 DEF Staged
<1>16. QueueAgrees(t)
  BY <1>1, <1>2, <1>4, <1>6 DEF QueueAgrees
<1>17. Grounded(t)
  <2>1. ASSUME NEW S \in SUBSET Live(t), S # {} PROVE \E x \in S : Params(t, x) \cap S = {}
    <3>1. CASE S \cap T # {}
      <4>1. S \cap T \in SUBSET Live(m)
        OBVIOUS
      <4>2. PICK x \in S \cap T : Params(m, x) \cap (S \cap T) = {}
        BY <3>1, <4>1, <1>1 DEF Grounded
      <4>3. Params(m, x) \subseteq T
        BY <4>2, <1>1 DEF Owned
      <4>4. x # o /\ x \in Live(t)
        BY <4>2
      <4> QED
        BY <4>2, <4>3, <4>4, <1>8
    <3>2. CASE S \cap T = {}
      <4>1. S \in SUBSET Live(m)
        BY <1>4
      <4>2. PICK x \in S : Params(m, x) \cap S = {}
        BY <2>1, <4>1, <1>1 DEF Grounded
      <4>3. Params(t, x) \subseteq Params(m, x) \cup {r}
        BY <4>2, <1>4, <1>8
      <4> QED
        BY <4>2, <4>3, <3>2
    <3> QED
      BY <3>1, <3>2
  <2> QED
    BY <2>1 DEF Grounded
<1>18. \A x \in Ids : At(t, x) = At(m, x)
  BY <1>2, <1>4, <1>6 DEF At
<1> QED
  BY <1>4, <1>11, <1>14, <1>15, <1>16, <1>17, <1>18 DEF MInv

\* If r is not fulfilled, nobody has to be told.
LEMMA NothingToTell ==
  ASSUME NEW m, NEW R, NEW K, NEW p, MInv(m, R, {p}, K), p \in Live(m), ~m.promises[p].fulfilled
  PROVE  MInv(m, R, {}, K)
<1>1. \A x \in Live(m) : OpenParams(m, x, {p}) = OpenParams(m, x, {})
  BY DEF OpenParams
<1>2. Counted(m, {})
  BY <1>1 DEF MInv, Counted, CountedOf
<1> QED
  BY <1>2 DEF MInv

\* fulfill(chainedPromise).
LEMMA HandsOver ==
  ASSUME NEW m, NEW f, NEW K, MInv(m, {f}, {}, K), NEW r \in Live(m),
         m.promises[r].owner = User, f \notin Tree(m, {r})
  PROVE  LET g == FulfillWith(m, f, r)
         IN /\ MInv(g, {}, {}, K)
            /\ \A x \in Ids : At(g, x) = At(m, x)
            /\ Live(g) = Live(m) \ {f}
<1> DEFINE g == FulfillWith(m, f, r)
           T == Tree(m, {r})
           o == m.promises[f].listener
<1>1. MemTypes(m) /\ Owned(m, K) /\ Staged(m, {f}) /\ QueueAgrees(m) /\ Grounded(m)
  BY DEF MInv
<1>2. f \in Live(m) /\ m.promises[f].ptr = Null /\ ~m.promises[f].fulfilled /\ Params(m, f) = {}
  BY <1>1 DEF Staged, StagedOf
<1>3. /\ r \in T /\ T \subseteq Live(m)
      /\ \A x \in Live(m) : m.promises[x].owner \in T => x \in T
  <2>1. {r} \subseteq Live(m)
    OBVIOUS
  <2>2. {r} \subseteq T /\ T \subseteq Live(m)
        /\ \A x \in Live(m) : m.promises[x].owner \in T => x \in T
    BY <2>1, TreesAreClosed
  <2> QED
    BY <2>2
<1>4. f \notin T
  OBVIOUS
<1> HIDE DEF g, T
<1>5. CASE o = Null
  <2>1. g = Delete(m, {f}) /\ Leaves(m, {f})
    BY <1>5, HandsOverUnheard DEF g
  <2> DEFINE gone == {f}
  <2> HIDE DEF gone
  <2>2. /\ MInv(g, gone \ gone, {}, K \ gone)
        /\ \A x \in Ids : At(g, x) = IF x \in gone THEN Null ELSE At(m, x)
        /\ Live(g) = Live(m) \ gone
    <3>1. Delete(m, gone) = g /\ Leaves(m, gone) /\ MInv(m, gone, {}, K)
      BY <2>1 DEF gone
    <3>2. LET d == Delete(m, gone)
          IN /\ MInv(d, gone \ gone, {}, K \ gone)
             /\ \A x \in Ids : At(d, x) = IF x \in gone THEN Null ELSE At(m, x)
             /\ Live(d) = Live(m) \ gone
      BY <3>1, Deletes
    <3> QED
      BY <3>1, <3>2
  <2>3. f \notin K
    BY <1>1, <1>2 DEF Owned
  <2>4. gone \ gone = {} /\ K \ gone = K
    BY <2>3 DEF gone
  <2>5. \A x \in Ids : At(g, x) = At(m, x)
    BY <2>2, <1>2 DEF At, gone
  <2> QED
    BY <2>2, <2>4, <2>5 DEF g, gone
<1>6. CASE o # Null
  <2>1. o \in Live(m) /\ f \in Params(m, o) /\ m.promises[f].owner = o
    <3>1. m.promises[f].owner \in Ids \cup {User, Stack} /\ m.promises[f].owner # Stack
          /\ m.promises[f].owner # User
      BY <1>1, <1>2, <1>6, MemoryTypes DEF Owned
    <3> QED
      BY <3>1, <1>1, <1>2 DEF Owned
  <2>2. f # r /\ o \notin T /\ r # o /\ f # o
    BY <2>1, <1>2, <1>3, <1>4
  <2>3. PICK t : /\ TakesPlace(m, f, r, o, t)
                 /\ g = IF m.promises[r].fulfilled
                        THEN DependencyDone(t, o, Broken(m.promises[r].value)) ELSE t
    BY <2>1, <2>2, <1>1, <1>2, TakesOver DEF g, QueueAgrees
  <2> HIDE DEF o
  <2>4. MInv(t, {}, {r}, K) /\ \A x \in Ids : At(t, x) = At(m, x)
    BY <2>1, <2>2, <2>3, <1>3, PlaceTaken
  <2>5. /\ Live(t) = Live(m) \ {f} /\ r \in Live(t) /\ o \in Live(t) /\ r \in Params(t, o)
        /\ t.promises[r].fulfilled = m.promises[r].fulfilled
        /\ t.promises[r].value = m.promises[r].value
    BY <2>1, <2>2, <2>3 DEF TakesPlace, SameButOwner
  <2>6. CASE m.promises[r].fulfilled
    <3>1. g = DependencyDone(t, o, Broken(t.promises[r].value)) /\ t.promises[r].fulfilled
      BY <2>3, <2>5, <2>6
    <3>2. /\ MInv(g, {}, {}, K)
          /\ \A x \in Ids : At(g, x) = At(t, x)
          /\ Live(g) = Live(t)
      BY <3>1, <2>4, <2>5, Told
    <3> QED
      BY <3>2, <2>4, <2>5 DEF g
  <2>7. CASE ~m.promises[r].fulfilled
    <3>1. g = t /\ ~t.promises[r].fulfilled
      BY <2>3, <2>5, <2>7
    <3>2. MInv(t, {}, {}, K)
      BY <3>1, <2>4, <2>5, NothingToTell
    <3> QED
      BY <3>1, <3>2, <2>4, <2>5 DEF g
  <2> QED
    BY <2>6, <2>7
<1> QED
  BY <1>5, <1>6

-----------------------------------------------------------------------------
(* Watches                                                                 *)

\* Slots agree with promises whose slots stay.
LEMMA StaysLinked ==
  ASSUME NEW m, NEW r, NEW e, EpollTypes(e), Linked(m, e), \A x \in Ids : At(r, x) = At(m, x)
  PROVE  Linked(r, e)
<1>1. \A fd \in WatchedFds(e), s \in Slots : e.fulfiller[fd][s] # Null => e.fulfiller[fd][s] \in Ids
  BY DEF EpollTypes
<1> QED
  BY <1>1 DEF Linked

\* Watches have other events, and the update set follows.
LEMMA SetsEvents ==
  ASSUME NEW e, EpollTypes(e), NEW ev \in [WatchedFds(e) -> SUBSET Slots],
         \A fd \in WatchedFds(e) : fd \in e.watchesNeedingUpdate <=> e.events[fd] # e.registeredEvents[fd]
  PROVE  LET v == SetEvents(e, ev)
         IN /\ EpollTypes(v) /\ WatchedFds(v) = WatchedFds(e)
            /\ v.fulfiller = e.fulfiller /\ v.events = ev
            /\ v.registeredEvents = e.registeredEvents /\ v.watchCount = e.watchCount
            /\ \A fd \in WatchedFds(v) : fd \in v.watchesNeedingUpdate <=> v.events[fd] # v.registeredEvents[fd]
<1> DEFINE v == SetEvents(e, ev)
           changed == {fd \in WatchedFds(e) : ev[fd] # e.events[fd]}
           unknown == {fd \in WatchedFds(e) : ev[fd] # e.registeredEvents[fd]}
           due == (e.watchesNeedingUpdate \ changed) \cup (changed \cap unknown)
<1>1. v = [fulfiller |-> e.fulfiller, events |-> ev, registeredEvents |-> e.registeredEvents,
           watchesNeedingUpdate |-> due, watchCount |-> e.watchCount]
  <2>1. v = [e EXCEPT !.events = ev, !.watchesNeedingUpdate = due]
    BY DEF SetEvents
  <2> HIDE DEF due, v
  <2> QED
    BY <2>1 DEF EpollTypes
<1>2. \A fd \in WatchedFds(e) : fd \in due <=> ev[fd] # e.registeredEvents[fd]
  OBVIOUS
<1>3. due \subseteq WatchedFds(e)
  BY DEF EpollTypes
<1> HIDE DEF due, v
<1>4. /\ v.fulfiller = e.fulfiller /\ v.events = ev /\ v.registeredEvents = e.registeredEvents
      /\ v.watchesNeedingUpdate = due /\ v.watchCount = e.watchCount
      /\ WatchedFds(v) = WatchedFds(e)
  BY <1>1 DEF WatchedFds
<1>5. v = [fulfiller |-> v.fulfiller, events |-> v.events, registeredEvents |-> v.registeredEvents,
           watchesNeedingUpdate |-> v.watchesNeedingUpdate, watchCount |-> v.watchCount]
  BY <1>1
<1>6. EpollTypes(v)
  BY <1>3, <1>4, <1>5 DEF EpollTypes
<1> QED
  BY <1>2, <1>4, <1>6 DEF v

\* The watches that other fulfillers are put into.
LEMMA SetsFulfillers ==
  ASSUME NEW e, EpollTypes(e), NEW f \in [WatchedFds(e) -> [Slots -> Ids \cup {Null}]]
  PROVE  LET v == [e EXCEPT !.fulfiller = f]
         IN /\ EpollTypes(v) /\ WatchedFds(v) = WatchedFds(e)
            /\ v.fulfiller = f /\ v.events = e.events
            /\ v.registeredEvents = e.registeredEvents /\ v.watchCount = e.watchCount
            /\ v.watchesNeedingUpdate = e.watchesNeedingUpdate
<1> DEFINE v == [e EXCEPT !.fulfiller = f]
<1>1. v = [fulfiller |-> f, events |-> e.events, registeredEvents |-> e.registeredEvents,
           watchesNeedingUpdate |-> e.watchesNeedingUpdate, watchCount |-> e.watchCount]
  BY DEF EpollTypes
<1> HIDE DEF v
<1>2. /\ v.fulfiller = f /\ v.events = e.events /\ v.registeredEvents = e.registeredEvents
      /\ v.watchesNeedingUpdate = e.watchesNeedingUpdate /\ v.watchCount = e.watchCount
      /\ WatchedFds(v) = WatchedFds(e)
  BY <1>1 DEF WatchedFds
<1>3. v = [fulfiller |-> v.fulfiller, events |-> v.events, registeredEvents |-> v.registeredEvents,
           watchesNeedingUpdate |-> v.watchesNeedingUpdate, watchCount |-> v.watchCount]
  BY <1>1, <1>2
<1>4. EpollTypes(v)
  BY <1>2, <1>3 DEF EpollTypes
<1> QED
  BY <1>2, <1>4 DEF v

\* Slots are left, and so are their events.
LEMMA Vacates ==
  ASSUME NEW e, EInv(e), NEW at
  PROVE  LET v == Vacate(e, at)
         IN /\ EInv(v) /\ WatchedFds(v) = WatchedFds(e)
            /\ \A fd \in WatchedFds(e), s \in Slots :
                 v.fulfiller[fd][s] = IF <<fd, s>> \in at THEN Null ELSE e.fulfiller[fd][s]
<1> DEFINE v == Vacate(e, at)
           f == [fd \in DOMAIN e.fulfiller |->
                   [s \in Slots |-> IF <<fd, s>> \in at THEN Null ELSE e.fulfiller[fd][s]]]
           e1 == [e EXCEPT !.fulfiller = f]
           ev == [fd \in WatchedFds(e) |-> {s \in e.events[fd] : <<fd, s>> \notin at}]
<1>1. EpollTypes(e) /\ e.watchCount = Cardinality(Registered(e))
      /\ \A fd \in WatchedFds(e) :
           /\ e.events[fd] = Watching(e, fd)
           /\ fd \in e.watchesNeedingUpdate <=> e.events[fd] # e.registeredEvents[fd]
  BY DEF EInv
<1>2. v = SetEvents(e1, ev)
  BY DEF Vacate
<1>3. f \in [WatchedFds(e) -> [Slots -> Ids \cup {Null}]]
      /\ \A fd \in WatchedFds(e), s \in Slots :
                 f[fd][s] = IF <<fd, s>> \in at THEN Null ELSE e.fulfiller[fd][s]
  BY <1>1 DEF EpollTypes
<1>4. ev \in [WatchedFds(e) -> SUBSET Slots]
      /\ \A fd \in WatchedFds(e) : ev[fd] = {s \in e.events[fd] : <<fd, s>> \notin at}
  BY <1>1 DEF EpollTypes
<1> HIDE DEF f, ev, v
<1>5. /\ EpollTypes(e1) /\ WatchedFds(e1) = WatchedFds(e)
      /\ e1.fulfiller = f /\ e1.events = e.events
      /\ e1.registeredEvents = e.registeredEvents /\ e1.watchCount = e.watchCount
      /\ e1.watchesNeedingUpdate = e.watchesNeedingUpdate
  BY <1>1, <1>3, SetsFulfillers
<1> HIDE DEF e1
<1>6. \A fd \in WatchedFds(e1) : fd \in e1.watchesNeedingUpdate <=> e1.events[fd] # e1.registeredEvents[fd]
  BY <1>1, <1>5
<1>7. /\ EpollTypes(v) /\ WatchedFds(v) = WatchedFds(e)
      /\ v.fulfiller = f /\ v.events = ev
      /\ v.registeredEvents = e.registeredEvents /\ v.watchCount = e.watchCount
      /\ \A fd \in WatchedFds(v) : fd \in v.watchesNeedingUpdate <=> v.events[fd] # v.registeredEvents[fd]
  BY <1>2, <1>4, <1>5, <1>6, SetsEvents
<1>8. Registered(v) = Registered(e)
  BY <1>7 DEF Registered
<1>9. ASSUME NEW fd \in WatchedFds(v) PROVE v.events[fd] = Watching(v, fd)
  <2>1. ev[fd] = {s \in Watching(e, fd) : <<fd, s>> \notin at}
    BY <1>1, <1>4, <1>7
  <2>2. \A s \in Slots : v.fulfiller[fd][s] = IF <<fd, s>> \in at THEN Null ELSE e.fulfiller[fd][s]
    BY <1>3, <1>7
  <2> QED
    BY <2>1, <2>2, <1>7 DEF Watching
<1>10. EInv(v)
  BY <1>1, <1>7, <1>8, <1>9 DEF EInv
<1> QED
  BY <1>3, <1>7, <1>10 DEF v

\* Who leaves the slot that he is in, and the slots that are left.
LEMMA VacatesLinked ==
  ASSUME NEW m, NEW r, NEW e, EInv(e), Linked(m, e), NEW at \in SUBSET (Fds \X Slots),
         \A x \in Ids : At(r, x) = IF At(m, x) \in at THEN Null ELSE At(m, x)
  PROVE  EInv(Vacate(e, at)) /\ Linked(r, Vacate(e, at))
<1> DEFINE v == Vacate(e, at)
<1>1. /\ EInv(v) /\ WatchedFds(v) = WatchedFds(e)
      /\ \A fd \in WatchedFds(e), s \in Slots :
           v.fulfiller[fd][s] = IF <<fd, s>> \in at THEN Null ELSE e.fulfiller[fd][s]
  BY Vacates
<1> HIDE DEF v
<1>2. \A fd \in WatchedFds(e), s \in Slots : /\ fd \in Fds /\ <<fd, s>> # Null
                                             /\ e.fulfiller[fd][s] \in Ids \cup {Null}
  BY LoopAssumption DEF EInv, EpollTypes
<1>3. ASSUME NEW fd \in WatchedFds(v), NEW s \in Slots, v.fulfiller[fd][s] # Null
      PROVE  At(r, v.fulfiller[fd][s]) = <<fd, s>>
  <2>1. PICK x : x = v.fulfiller[fd][s]
    OBVIOUS
  <2>2. fd \in WatchedFds(e) /\ x = e.fulfiller[fd][s] /\ <<fd, s>> \notin at /\ x # Null
    BY <2>1, <1>1, <1>3
  <2>3. x \in Ids /\ At(m, x) = <<fd, s>>
    BY <2>2, <1>2 DEF Linked
  <2> QED
    BY <2>1, <2>2, <2>3
<1>4. ASSUME NEW p \in Ids, NEW fd \in Fds, NEW s \in Slots, At(r, p) = <<fd, s>>
      PROVE  fd \in WatchedFds(v) /\ v.fulfiller[fd][s] = p
  <2>1. <<fd, s>> # Null
    BY LoopAssumption
  <2>2. At(m, p) = <<fd, s>> /\ <<fd, s>> \notin at
    BY <2>1, <1>4
  <2> QED
    BY <2>2, <1>1 DEF Linked
<1>5. Linked(r, v)
  BY <1>3, <1>4 DEF Linked
<1> QED
  BY <1>1, <1>5 DEF v

\* Finitely many watches are registered.
LEMMA RegisteredAreFinite ==
  ASSUME NEW e, EpollTypes(e)
  PROVE  IsFiniteSet(Registered(e)) /\ Cardinality(Registered(e)) \in Nat
<1>1. Registered(e) \subseteq Fds /\ IsFiniteSet(Fds)
  BY LoopAssumption DEF Registered, EpollTypes
<1> QED
  BY <1>1, FS_Subset, FS_CardinalityType

\* epoll_ctl() of a watch: it is counted when it is registered.
LEMMA Registers ==
  ASSUME NEW e, EpollTypes(e), e.watchCount = Cardinality(Registered(e)), NEW fd \in WatchedFds(e)
  PROVE  LET v == UpdateRegistration(e, fd)
         IN /\ EpollTypes(v) /\ WatchedFds(v) = WatchedFds(e)
            /\ v.fulfiller = e.fulfiller /\ v.events = e.events
            /\ v.watchesNeedingUpdate = e.watchesNeedingUpdate
            /\ v.registeredEvents[fd] = e.events[fd]
            /\ \A g \in WatchedFds(e) \ {fd} : v.registeredEvents[g] = e.registeredEvents[g]
            /\ v.watchCount = Cardinality(Registered(v))
<1> DEFINE v == UpdateRegistration(e, fd)
           reg == [e.registeredEvents EXCEPT ![fd] = e.events[fd]]
           count == IF e.registeredEvents[fd] = {} THEN e.watchCount + 1
                    ELSE IF e.events[fd] = {} THEN e.watchCount - 1 ELSE e.watchCount
<1>1. CASE e.events[fd] = e.registeredEvents[fd]
  <2>1. v = e
    BY <1>1 DEF UpdateRegistration
  <2> HIDE DEF v
  <2> QED
    BY <2>1, <1>1 DEF v
<1>2. CASE e.events[fd] # e.registeredEvents[fd]
  <2>1. v = [fulfiller |-> e.fulfiller, events |-> e.events, registeredEvents |-> reg,
             watchesNeedingUpdate |-> e.watchesNeedingUpdate, watchCount |-> count]
    <3>1. v = [e EXCEPT !.registeredEvents[fd] = e.events[fd],
                        !.watchCount = IF e.registeredEvents[fd] = {} THEN @ + 1
                                       ELSE IF e.events[fd] = {} THEN @ - 1 ELSE @]
      BY <1>2 DEF UpdateRegistration
    <3> HIDE DEF v
    <3> QED
      BY <3>1 DEF EpollTypes
  <2>2. /\ reg \in [WatchedFds(e) -> SUBSET Slots] /\ reg[fd] = e.events[fd]
        /\ \A g \in WatchedFds(e) \ {fd} : reg[g] = e.registeredEvents[g]
        /\ e.events[fd] \in SUBSET Slots
    BY DEF EpollTypes
  <2> HIDE DEF v, reg, count
  <2>3. /\ v.fulfiller = e.fulfiller /\ v.events = e.events /\ v.registeredEvents = reg
        /\ v.watchesNeedingUpdate = e.watchesNeedingUpdate /\ v.watchCount = count
        /\ WatchedFds(v) = WatchedFds(e)
    BY <2>1 DEF WatchedFds
  <2>4. v = [fulfiller |-> v.fulfiller, events |-> v.events, registeredEvents |-> v.registeredEvents,
             watchesNeedingUpdate |-> v.watchesNeedingUpdate, watchCount |-> v.watchCount]
    BY <2>1, <2>3
  <2>5. EpollTypes(v)
    BY <2>2, <2>3, <2>4 DEF EpollTypes
  <2> DEFINE F == Registered(e)
  <2>6. /\ IsFiniteSet(F) /\ Cardinality(F) \in Nat
        /\ fd \in F <=> e.registeredEvents[fd] # {}
    BY RegisteredAreFinite DEF Registered
  <2>7. Registered(v) = IF e.events[fd] = {} THEN F \ {fd} ELSE F \cup {fd}
    BY <2>2, <2>3 DEF Registered
  <2> HIDE DEF F
  <2>8. /\ Cardinality(F \cup {fd}) = IF fd \in F THEN Cardinality(F) ELSE Cardinality(F) + 1
        /\ Cardinality(F \ {fd}) = IF fd \in F THEN Cardinality(F) - 1 ELSE Cardinality(F)
    BY <2>6, FS_AddElement, FS_RemoveElement
  <2>9. e.watchCount = Cardinality(F)
    BY DEF F
  <2>10. count = Cardinality(Registered(v))
    BY <2>6, <2>7, <2>8, <2>9, <1>2 DEF count
  <2> QED
    BY <2>2, <2>3, <2>5, <2>10 DEF v
<1> QED
  BY <1>1, <1>2

\* One turn of the loop over the watches that need an update.
LEMMA Updates ==
  ASSUME NEW e, EInv(e), NEW fd \in WatchedFds(e)
  PROVE  LET v == [UpdateRegistration(e, fd) EXCEPT !.watchesNeedingUpdate = @ \ {fd}]
         IN EInv(v) /\ v.fulfiller = e.fulfiller /\ WatchedFds(v) = WatchedFds(e)
<1> DEFINE u == UpdateRegistration(e, fd)
           v == [u EXCEPT !.watchesNeedingUpdate = @ \ {fd}]
<1>1. EpollTypes(e) /\ e.watchCount = Cardinality(Registered(e))
      /\ \A g \in WatchedFds(e) :
           /\ e.events[g] = Watching(e, g)
           /\ g \in e.watchesNeedingUpdate <=> e.events[g] # e.registeredEvents[g]
  BY DEF EInv
<1>2. /\ EpollTypes(u) /\ WatchedFds(u) = WatchedFds(e)
      /\ u.fulfiller = e.fulfiller /\ u.events = e.events
      /\ u.watchesNeedingUpdate = e.watchesNeedingUpdate
      /\ u.registeredEvents[fd] = e.events[fd]
      /\ \A g \in WatchedFds(e) \ {fd} : u.registeredEvents[g] = e.registeredEvents[g]
      /\ u.watchCount = Cardinality(Registered(u))
  BY <1>1, Registers
<1> HIDE DEF u
<1>3. v = [fulfiller |-> u.fulfiller, events |-> u.events, registeredEvents |-> u.registeredEvents,
           watchesNeedingUpdate |-> u.watchesNeedingUpdate \ {fd}, watchCount |-> u.watchCount]
  <2>1. u = [fulfiller |-> u.fulfiller, events |-> u.events, registeredEvents |-> u.registeredEvents,
             watchesNeedingUpdate |-> u.watchesNeedingUpdate, watchCount |-> u.watchCount]
    BY <1>2 DEF EpollTypes
  <2> QED
    BY <2>1
<1> HIDE DEF v
<1>4. /\ v.fulfiller = u.fulfiller /\ v.events = u.events /\ v.registeredEvents = u.registeredEvents
      /\ v.watchesNeedingUpdate = u.watchesNeedingUpdate \ {fd} /\ v.watchCount = u.watchCount
      /\ WatchedFds(v) = WatchedFds(u)
  BY <1>3 DEF WatchedFds
<1>5. v = [fulfiller |-> v.fulfiller, events |-> v.events, registeredEvents |-> v.registeredEvents,
           watchesNeedingUpdate |-> v.watchesNeedingUpdate, watchCount |-> v.watchCount]
  BY <1>3, <1>4
<1>6. EpollTypes(v)
  BY <1>2, <1>4, <1>5 DEF EpollTypes
<1>7. v.watchCount = Cardinality(Registered(v))
  BY <1>2, <1>4 DEF Registered
<1>8. ASSUME NEW g \in WatchedFds(v)
      PROVE  /\ v.events[g] = Watching(v, g)
             /\ g \in v.watchesNeedingUpdate <=> v.events[g] # v.registeredEvents[g]
  BY <1>1, <1>2, <1>4 DEF Watching
<1>9. EInv(v)
  BY <1>6, <1>7, <1>8 DEF EInv
<1> QED
  BY <1>2, <1>4, <1>9 DEF v, u

\* onReadable() and onWritable(), of the watch.
LEMMA StartsWatching ==
  ASSUME NEW e, EInv(e), NEW fd \in WatchedFds(e), NEW s \in Slots, NEW p \in Ids
  PROVE  LET v == AddEvents([e EXCEPT !.fulfiller[fd][s] = p], fd, s)
         IN /\ EInv(v) /\ WatchedFds(v) = WatchedFds(e)
            /\ v.fulfiller[fd][s] = p
            /\ \A g \in WatchedFds(e), t \in Slots :
                 <<g, t>> # <<fd, s>> => v.fulfiller[g][t] = e.fulfiller[g][t]
<1> DEFINE f == [e.fulfiller EXCEPT ![fd][s] = p]
           e1 == [e EXCEPT !.fulfiller = f]
           ev == [e.events EXCEPT ![fd] = @ \cup {s}]
           v == SetEvents(e1, ev)
<1>1. EpollTypes(e) /\ e.watchCount = Cardinality(Registered(e))
      /\ \A g \in WatchedFds(e) :
           /\ e.events[g] = Watching(e, g)
           /\ g \in e.watchesNeedingUpdate <=> e.events[g] # e.registeredEvents[g]
  BY DEF EInv
<1>2. /\ f \in [WatchedFds(e) -> [Slots -> Ids \cup {Null}]] /\ f[fd][s] = p
      /\ \A g \in WatchedFds(e), t \in Slots : <<g, t>> # <<fd, s>> => f[g][t] = e.fulfiller[g][t]
  BY <1>1 DEF EpollTypes
<1>3. ev \in [WatchedFds(e) -> SUBSET Slots] /\ ev[fd] = e.events[fd] \cup {s}
      /\ \A g \in WatchedFds(e) \ {fd} : ev[g] = e.events[g]
  BY <1>1 DEF EpollTypes
<1>4. AddEvents([e EXCEPT !.fulfiller[fd][s] = p], fd, s) = v
  <2>1. [e EXCEPT !.fulfiller[fd][s] = p] = e1
    BY <1>1 DEF EpollTypes
  <2>2. AddEvents(e1, fd, s) = SetEvents(e1, [e1.events EXCEPT ![fd] = @ \cup {s}])
    BY DEF AddEvents
  <2>3. e1.events = e.events
    <3> HIDE DEF f
    <3> QED
      BY <1>1, <1>2, SetsFulfillers
  <2> HIDE DEF e1
  <2> QED
    BY <2>1, <2>2, <2>3
<1> HIDE DEF f, ev, v
<1>5. /\ EpollTypes(e1) /\ WatchedFds(e1) = WatchedFds(e)
      /\ e1.fulfiller = f /\ e1.events = e.events
      /\ e1.registeredEvents = e.registeredEvents /\ e1.watchCount = e.watchCount
      /\ e1.watchesNeedingUpdate = e.watchesNeedingUpdate
  BY <1>1, <1>2, SetsFulfillers
<1> HIDE DEF e1
<1>6. \A g \in WatchedFds(e1) : g \in e1.watchesNeedingUpdate <=> e1.events[g] # e1.registeredEvents[g]
  BY <1>1, <1>5
<1>7. /\ EpollTypes(v) /\ WatchedFds(v) = WatchedFds(e)
      /\ v.fulfiller = f /\ v.events = ev
      /\ v.registeredEvents = e.registeredEvents /\ v.watchCount = e.watchCount
      /\ \A g \in WatchedFds(v) : g \in v.watchesNeedingUpdate <=> v.events[g] # v.registeredEvents[g]
  BY <1>3, <1>5, <1>6, SetsEvents DEF v
<1>8. Registered(v) = Registered(e)
  BY <1>7 DEF Registered
<1>9. ASSUME NEW g \in WatchedFds(v) PROVE v.events[g] = Watching(v, g)
  <2>1. p # Null
    BY LoopAssumption
  <2>2. e.events[g] = {t \in Slots : e.fulfiller[g][t] # Null}
    BY <1>1, <1>7 DEF Watching
  <2>3. Watching(v, g) = {t \in Slots : f[g][t] # Null}
    BY <1>7 DEF Watching
  <2>4. CASE g = fd
    BY <2>1, <2>2, <2>3, <2>4, <1>2, <1>3, <1>7
  <2>5. CASE g # fd
    BY <2>2, <2>3, <2>5, <1>2, <1>3, <1>7
  <2> QED
    BY <2>4, <2>5
<1>10. EInv(v)
  BY <1>1, <1>7, <1>8, <1>9 DEF EInv
<1> QED
  BY <1>2, <1>4, <1>7, <1>10

\* ... and of the promise that is put into a slot of it.
LEMMA StartsLinked ==
  ASSUME NEW m, NEW r, NEW e, NEW v, EInv(e), EpollTypes(v), Linked(m, e),
         WatchedFds(v) = WatchedFds(e),
         NEW fd \in WatchedFds(e), NEW s \in Slots, e.fulfiller[fd][s] = Null,
         NEW p \in Ids, p \notin Live(m),
         v.fulfiller[fd][s] = p,
         \A g \in WatchedFds(e), t \in Slots : <<g, t>> # <<fd, s>> => v.fulfiller[g][t] = e.fulfiller[g][t],
         \A x \in Ids : At(r, x) = IF x = p THEN <<fd, s>> ELSE At(m, x)
  PROVE  Linked(r, v)
<1>1. \A g \in WatchedFds(e), t \in Slots : /\ g \in Fds /\ <<g, t>> # Null
                                            /\ e.fulfiller[g][t] \in Ids \cup {Null}
  BY LoopAssumption DEF EInv, EpollTypes
<1>2. At(m, p) = Null
  BY DEF At
<1>3. ASSUME NEW g \in WatchedFds(v), NEW t \in Slots, v.fulfiller[g][t] # Null
      PROVE  At(r, v.fulfiller[g][t]) = <<g, t>>
  <2>1. CASE <<g, t>> = <<fd, s>>
    BY <2>1
  <2>2. CASE <<g, t>> # <<fd, s>>
    <3>1. PICK x : x = v.fulfiller[g][t]
      OBVIOUS
    <3>2. x = e.fulfiller[g][t] /\ x # Null /\ x \in Ids
      BY <2>2, <3>1, <1>1, <1>3
    <3>3. At(m, x) = <<g, t>>
      BY <3>2 DEF Linked
    <3>4. x # p
      BY <3>3, <1>1, <1>2
    <3> QED
      BY <3>1, <3>2, <3>3, <3>4
  <2> QED
    BY <2>1, <2>2
<1>4. ASSUME NEW x \in Ids, NEW g \in Fds, NEW t \in Slots, At(r, x) = <<g, t>>
      PROVE  g \in WatchedFds(v) /\ v.fulfiller[g][t] = x
  <2>1. CASE x = p
    BY <2>1, <1>4
  <2>2. CASE x # p
    <3>1. At(m, x) = <<g, t>>
      BY <2>2, <1>4
    <3>2. g \in WatchedFds(e) /\ e.fulfiller[g][t] = x
      BY <3>1 DEF Linked
    <3>3. <<g, t>> # <<fd, s>>
      <4>1. x # Null
        BY LoopAssumption
      <4> QED
        BY <3>2, <4>1
    <3> QED
      BY <3>2, <3>3
  <2> QED
    BY <2>1, <2>2
<1> QED
  BY <1>3, <1>4 DEF Linked

\* A new watch has no events; nothing needs an update.
LEMMA WatchBegins ==
  ASSUME NEW m, NEW e, EInv(e), Linked(m, e), NEW fd \in Fds, fd \notin WatchedFds(e)
  PROVE  EInv(NewWatch(e, fd)) /\ Linked(m, NewWatch(e, fd))
<1> DEFINE W == WatchedFds(e) \cup {fd}
           f == [g \in W |-> IF g = fd THEN [s \in Slots |-> Null] ELSE e.fulfiller[g]]
           ev == [g \in W |-> IF g = fd THEN {} ELSE e.events[g]]
           reg == [g \in W |-> IF g = fd THEN {} ELSE e.registeredEvents[g]]
           v == NewWatch(e, fd)
<1>1. EpollTypes(e) /\ e.watchCount = Cardinality(Registered(e))
      /\ \A g \in WatchedFds(e) :
           /\ e.events[g] = Watching(e, g)
           /\ g \in e.watchesNeedingUpdate <=> e.events[g] # e.registeredEvents[g]
  BY DEF EInv
<1>2. v = [fulfiller |-> f, events |-> ev, registeredEvents |-> reg,
           watchesNeedingUpdate |-> e.watchesNeedingUpdate, watchCount |-> e.watchCount]
  <2>1. /\ DOMAIN e.fulfiller = WatchedFds(e) /\ DOMAIN e.events = WatchedFds(e)
        /\ DOMAIN e.registeredEvents = WatchedFds(e)
    BY <1>1 DEF EpollTypes
  <2>2. v = [e EXCEPT !.fulfiller = f, !.events = ev, !.registeredEvents = reg]
    BY <2>1 DEF NewWatch
  <2>3. e = [fulfiller |-> e.fulfiller, events |-> e.events, registeredEvents |-> e.registeredEvents,
             watchesNeedingUpdate |-> e.watchesNeedingUpdate, watchCount |-> e.watchCount]
    BY <1>1 DEF EpollTypes
  <2> HIDE DEF v, f, ev, reg
  <2> QED
    BY <2>2, <2>3
<1>3. /\ f \in [W -> [Slots -> Ids \cup {Null}]] /\ ev \in [W -> SUBSET Slots]
      /\ reg \in [W -> SUBSET Slots]
      /\ \A s \in Slots : f[fd][s] = Null
      /\ ev[fd] = {} /\ reg[fd] = {}
      /\ \A g \in WatchedFds(e) : /\ f[g] = e.fulfiller[g] /\ ev[g] = e.events[g]
                                  /\ reg[g] = e.registeredEvents[g]
  BY <1>1 DEF EpollTypes
<1> HIDE DEF f, ev, reg, v
<1>4. /\ v.fulfiller = f /\ v.events = ev /\ v.registeredEvents = reg
      /\ v.watchesNeedingUpdate = e.watchesNeedingUpdate /\ v.watchCount = e.watchCount
      /\ WatchedFds(v) = W
  BY <1>2, <1>3 DEF WatchedFds
<1>5. v = [fulfiller |-> v.fulfiller, events |-> v.events, registeredEvents |-> v.registeredEvents,
           watchesNeedingUpdate |-> v.watchesNeedingUpdate, watchCount |-> v.watchCount]
  BY <1>2, <1>4
<1>6. EpollTypes(v)
  BY <1>1, <1>3, <1>4, <1>5 DEF EpollTypes
<1>7. Registered(v) = Registered(e)
  BY <1>3, <1>4 DEF Registered
<1>8. ASSUME NEW g \in WatchedFds(v)
      PROVE  /\ v.events[g] = Watching(v, g)
             /\ g \in v.watchesNeedingUpdate <=> v.events[g] # v.registeredEvents[g]
  <2>1. CASE g = fd
    <3>1. fd \notin e.watchesNeedingUpdate
      BY <1>1 DEF EpollTypes
    <3> QED
      BY <2>1, <3>1, <1>3, <1>4 DEF Watching
  <2>2. CASE g # fd
    BY <2>2, <1>1, <1>3, <1>4 DEF Watching
  <2> QED
    BY <2>1, <2>2
<1>9. EInv(v)
  BY <1>1, <1>4, <1>6, <1>7, <1>8 DEF EInv
<1>10. Linked(m, v)
  BY <1>3, <1>4 DEF Linked
<1> QED
  BY <1>9, <1>10 DEF v

\* A watch that nobody waits for goes.
LEMMA WatchEnds ==
  ASSUME NEW m, NEW e, EInv(e), Linked(m, e), NEW fd \in WatchedFds(e), Watching(e, fd) = {}
  PROVE  EInv(DeleteWatch(e, fd)) /\ Linked(m, DeleteWatch(e, fd))
<1> DEFINE L == WatchedFds(e) \ {fd}
           u == IF fd \in e.watchesNeedingUpdate THEN UpdateRegistration(e, fd) ELSE e
           v == DeleteWatch(e, fd)
           f == Restrict(u.fulfiller, L)
           ev == Restrict(u.events, L)
           reg == Restrict(u.registeredEvents, L)
<1>1. EpollTypes(e) /\ e.watchCount = Cardinality(Registered(e))
      /\ \A g \in WatchedFds(e) :
           /\ e.events[g] = Watching(e, g)
           /\ g \in e.watchesNeedingUpdate <=> e.events[g] # e.registeredEvents[g]
  BY DEF EInv
<1>2. SetEvents(e, [e.events EXCEPT ![fd] = {}]) = e
  <2>1. [e.events EXCEPT ![fd] = {}] = e.events
    BY <1>1 DEF EpollTypes
  <2>2. SetEvents(e, e.events) = [e EXCEPT !.events = e.events,
                                           !.watchesNeedingUpdate = e.watchesNeedingUpdate]
    <3> DEFINE changed == {g \in WatchedFds(e) : e.events[g] # e.events[g]}
               unknown == {g \in WatchedFds(e) : e.events[g] # e.registeredEvents[g]}
    <3>1. (e.watchesNeedingUpdate \ changed) \cup (changed \cap unknown) = e.watchesNeedingUpdate
      OBVIOUS
    <3>2. SetEvents(e, e.events) =
            [e EXCEPT !.events = e.events,
                      !.watchesNeedingUpdate = (e.watchesNeedingUpdate \ changed) \cup (changed \cap unknown)]
      BY DEF SetEvents
    <3> HIDE DEF changed, unknown
    <3> QED
      BY <3>1, <3>2
  <2>3. e = [fulfiller |-> e.fulfiller, events |-> e.events, registeredEvents |-> e.registeredEvents,
             watchesNeedingUpdate |-> e.watchesNeedingUpdate, watchCount |-> e.watchCount]
    BY <1>1 DEF EpollTypes
  <2> QED
    BY <2>1, <2>2, <2>3
<1>3. v = [fulfiller |-> f, events |-> ev, registeredEvents |-> reg,
           watchesNeedingUpdate |-> u.watchesNeedingUpdate \ {fd}, watchCount |-> u.watchCount]
  BY <1>2 DEF DeleteWatch
<1>4. /\ EpollTypes(u) /\ WatchedFds(u) = WatchedFds(e)
      /\ u.fulfiller = e.fulfiller /\ u.events = e.events
      /\ u.watchesNeedingUpdate = e.watchesNeedingUpdate
      /\ u.registeredEvents[fd] = {}
      /\ \A g \in L : u.registeredEvents[g] = e.registeredEvents[g]
      /\ u.watchCount = Cardinality(Registered(u))
  <2>1. CASE fd \in e.watchesNeedingUpdate
    BY <2>1, <1>1, Registers
  <2>2. CASE fd \notin e.watchesNeedingUpdate
    BY <2>2, <1>1
  <2> QED
    BY <2>1, <2>2
<1> HIDE DEF u, v
<1>5. /\ f \in [L -> [Slots -> Ids \cup {Null}]] /\ ev \in [L -> SUBSET Slots]
      /\ reg \in [L -> SUBSET Slots] /\ DOMAIN ev = L
      /\ \A g \in L : /\ f[g] = e.fulfiller[g] /\ ev[g] = e.events[g]
                      /\ reg[g] = e.registeredEvents[g]
  BY <1>4 DEF Restrict, EpollTypes
<1> HIDE DEF f, ev, reg
<1>6. /\ v.fulfiller = f /\ v.events = ev /\ v.registeredEvents = reg
      /\ v.watchesNeedingUpdate = e.watchesNeedingUpdate \ {fd} /\ v.watchCount = u.watchCount
      /\ WatchedFds(v) = L
  BY <1>3, <1>4, <1>5 DEF WatchedFds
<1>7. v = [fulfiller |-> v.fulfiller, events |-> v.events, registeredEvents |-> v.registeredEvents,
           watchesNeedingUpdate |-> v.watchesNeedingUpdate, watchCount |-> v.watchCount]
  BY <1>3, <1>4, <1>6
<1>8. EpollTypes(v)
  BY <1>1, <1>5, <1>6, <1>7 DEF EpollTypes
<1>9. Registered(v) = Registered(u)
  BY <1>4, <1>5, <1>6 DEF Registered
<1>10. ASSUME NEW g \in WatchedFds(v)
       PROVE  /\ v.events[g] = Watching(v, g)
              /\ g \in v.watchesNeedingUpdate <=> v.events[g] # v.registeredEvents[g]
  BY <1>1, <1>5, <1>6 DEF Watching
<1>11. EInv(v)
  BY <1>4, <1>6, <1>8, <1>9, <1>10 DEF EInv
<1>12. Linked(m, v)
  <2>1. ASSUME NEW p \in Ids, NEW g \in Fds, NEW s \in Slots, At(m, p) = <<g, s>>
        PROVE  g \in L /\ f[g][s] = p
    <3>1. g \in WatchedFds(e) /\ e.fulfiller[g][s] = p /\ p # Null
      BY <2>1, LoopAssumption DEF Linked
    <3>2. g # fd
      BY <3>1 DEF Watching
    <3> QED
      BY <3>1, <3>2, <1>5
  <2>2. \A g \in L, s \in Slots : f[g][s] # Null => At(m, f[g][s]) = <<g, s>>
    BY <1>5 DEF Linked
  <2> QED
    BY <2>1, <2>2, <1>6 DEF Linked
<1> QED
  BY <1>11, <1>12 DEF v

-----------------------------------------------------------------------------
(* Slots and trees, in both                                                *)

\* The fulfiller of a slot is settled.
LEMMA SettlesAt ==
  ASSUME NEW m, NEW R, NEW K, MInv(m, R, {}, K), NEW p \in Ids, NEW a, a # Null, At(m, p) = a,
         \A x \in Ids : At(m, x) = a => x = p,
         NEW v \in Values
  PROVE  LET r == Settle(m, p, v)
         IN /\ MInv(r, R, {}, K)
            /\ Live(r) = Live(m)
            /\ \A x \in Ids : At(r, x) = IF At(m, x) = a THEN Null ELSE At(m, x)
<1> DEFINE r == Settle(m, p, v)
<1>1. p \in Live(m) /\ m.promises[p].ptr # Null
  BY DEF At
<1>2. /\ MInv(r, R, {}, K)
      /\ \A x \in Ids : At(r, x) = IF x = p THEN Null ELSE At(m, x)
      /\ Live(r) = Live(m)
  BY <1>1, Settles
<1> HIDE DEF r
<1>3. \A x \in Ids : x = p <=> At(m, x) = a
  OBVIOUS
<1> QED
  BY <1>2, <1>3 DEF r

\* The fulfillers of some slots of a watch, one after the other.
LEMMA SettlesSlots ==
  ASSUME NEW m, NEW R, NEW K, MInv(m, R, {}, K), EInv(epoll), Linked(m, epoll),
         NEW fd \in WatchedFds(epoll), NEW slots \in SUBSET Watching(epoll, fd), NEW v \in Values
  PROVE  LET r == SettleSlots(m, fd, slots, v)
         IN /\ MInv(r, R, {}, K)
            /\ Live(r) = Live(m)
            /\ \A x \in Ids : At(r, x) = IF At(m, x) \in {fd} \X slots THEN Null ELSE At(m, x)
<1> DEFINE P(s) == epoll.fulfiller[fd][s]
           a == IF "EPOLLIN" \in slots THEN Settle(m, P("EPOLLIN"), v) ELSE m
           r == IF "EPOLLOUT" \in slots THEN Settle(a, P("EPOLLOUT"), v) ELSE a
           in == <<fd, "EPOLLIN">>
           out == <<fd, "EPOLLOUT">>
<1>1. SettleSlots(m, fd, slots, v) = r
  BY DEF SettleSlots
<1>2. ASSUME NEW s \in slots
      PROVE  /\ P(s) \in Ids /\ At(m, P(s)) = <<fd, s>> /\ <<fd, s>> # Null
             /\ \A x \in Ids : At(m, x) = <<fd, s>> => x = P(s)
  <2>1. s \in Slots /\ P(s) # Null /\ fd \in Fds /\ P(s) \in Ids \cup {Null}
    BY DEF Watching, EInv, EpollTypes
  <2> QED
    BY <2>1, LoopAssumption DEF Linked
<1>3. /\ in # out
      /\ \A x : x \in {fd} \X slots <=>
                 (("EPOLLIN" \in slots /\ x = in) \/ ("EPOLLOUT" \in slots /\ x = out))
  <2>1. slots \subseteq {"EPOLLIN", "EPOLLOUT"}
    BY DEF Watching, Slots
  <2>2. \A x : x \in {fd} \X slots <=> \E s \in slots : x = <<fd, s>>
    OBVIOUS
  <2>3. in # out
    OBVIOUS
  <2> QED
    BY <2>1, <2>2, <2>3
<1> HIDE DEF P
<1>4. /\ MInv(a, R, {}, K)
      /\ Live(a) = Live(m)
      /\ \A x \in Ids : At(a, x) = IF "EPOLLIN" \in slots /\ At(m, x) = in THEN Null ELSE At(m, x)
  <2>1. CASE "EPOLLIN" \in slots
    <3>1. /\ P("EPOLLIN") \in Ids /\ At(m, P("EPOLLIN")) = in /\ in # Null
          /\ \A x \in Ids : At(m, x) = in => x = P("EPOLLIN")
      BY <2>1, <1>2
    <3> HIDE DEF in
    <3>2. LET n == Settle(m, P("EPOLLIN"), v)
          IN /\ MInv(n, R, {}, K)
             /\ Live(n) = Live(m)
             /\ \A x \in Ids : At(n, x) = IF At(m, x) = in THEN Null ELSE At(m, x)
      BY <3>1, SettlesAt
    <3>3. a = Settle(m, P("EPOLLIN"), v)
      BY <2>1
    <3> HIDE DEF a
    <3> QED
      BY <2>1, <3>2, <3>3
  <2>2. CASE "EPOLLIN" \notin slots
    BY <2>2
  <2> QED
    BY <2>1, <2>2
<1> HIDE DEF a
<1>5. /\ MInv(r, R, {}, K)
      /\ Live(r) = Live(m)
      /\ \A x \in Ids : At(r, x) = IF "EPOLLOUT" \in slots /\ At(a, x) = out THEN Null ELSE At(a, x)
  <2>1. CASE "EPOLLOUT" \in slots
    <3>1. /\ P("EPOLLOUT") \in Ids /\ At(m, P("EPOLLOUT")) = out /\ out # Null
          /\ \A x \in Ids : At(m, x) = out => x = P("EPOLLOUT")
      BY <2>1, <1>2
    <3> HIDE DEF in, out
    <3>2. At(a, P("EPOLLOUT")) = out /\ \A x \in Ids : At(a, x) = out => x = P("EPOLLOUT")
      BY <3>1, <1>3, <1>4
    <3>3. LET n == Settle(a, P("EPOLLOUT"), v)
          IN /\ MInv(n, R, {}, K)
             /\ Live(n) = Live(a)
             /\ \A x \in Ids : At(n, x) = IF At(a, x) = out THEN Null ELSE At(a, x)
      BY <3>1, <3>2, <1>4, SettlesAt
    <3>4. r = Settle(a, P("EPOLLOUT"), v)
      BY <2>1
    <3> HIDE DEF r
    <3> QED
      BY <2>1, <3>3, <3>4, <1>4
  <2>2. CASE "EPOLLOUT" \notin slots
    BY <2>2, <1>4
  <2> QED
    BY <2>1, <2>2
<1> HIDE DEF r
<1>6. ASSUME NEW x \in Ids PROVE At(r, x) = IF At(m, x) \in {fd} \X slots THEN Null ELSE At(m, x)
  <2>1. At(m, x) \in {fd} \X slots <=> (("EPOLLIN" \in slots /\ At(m, x) = in)
                                         \/ ("EPOLLOUT" \in slots /\ At(m, x) = out))
    BY <1>3
  <2>2. out # Null \/ "EPOLLOUT" \notin slots
    BY <1>2
  <2> HIDE DEF in, out
  <2> QED
    BY <2>1, <2>2, <1>3, <1>4, <1>5
<1> QED
  BY <1>1, <1>5, <1>6 DEF r

\* Trees of promises that nobody waits for are destroyed.
LEMMA Destroys ==
  ASSUME NEW m, NEW R, NEW K, MInv(m, R, {}, K), EInv(epoll), Linked(m, epoll),
         NEW seeds, seeds \subseteq Live(m), \A x \in seeds : m.promises[x].owner \notin Ids,
         DestroyTree(m, seeds)
  PROVE  /\ MInv(mem', R \ Tree(m, seeds), {}, K \ Tree(m, seeds))
         /\ EInv(epoll') /\ Linked(mem', epoll')
<1> DEFINE gone == Tree(m, seeds)
           at == {m.promises[p].ptr : p \in gone} \ {Null}
<1>1. mem' = Delete(m, gone) /\ epoll' = Vacate(epoll, at)
  BY DEF DestroyTree
<1>2. Leaves(m, gone)
  BY TreesLeave
<1> HIDE DEF gone
<1>3. /\ MInv(mem', R \ gone, {}, K \ gone)
      /\ \A x \in Ids : At(mem', x) = IF x \in gone THEN Null ELSE At(m, x)
  BY <1>1, <1>2, Deletes
<1>4. gone \subseteq Live(m) /\ MemTypes(m)
  BY <1>2 DEF Leaves, MInv
<1>5. at \in SUBSET (Fds \X Slots)
  BY <1>4, MemoryTypes
<1>6. ASSUME NEW x \in Ids PROVE At(mem', x) = IF At(m, x) \in at THEN Null ELSE At(m, x)
  <2>1. CASE x \in gone
    <3>1. At(m, x) = Null \/ At(m, x) \in at
      BY <2>1, <1>4 DEF At
    <3> QED
      BY <3>1, <2>1, <1>3
  <2>2. CASE x \notin gone
    <3>1. ASSUME At(m, x) \in at PROVE FALSE
      <4>1. PICK p \in gone : At(m, x) = m.promises[p].ptr
        BY <3>1
      <4>2. PICK fd \in Fds, s \in Slots : At(m, x) = <<fd, s>>
        BY <3>1, <1>5
      <4>3. p \in Ids /\ At(m, p) = <<fd, s>>
        BY <4>1, <4>2, <1>4, MemoryTypes DEF At
      <4>4. x = p
        BY <4>2, <4>3 DEF Linked
      <4> QED
        BY <4>4, <2>2
    <3> QED
      BY <3>1, <2>2, <1>3
  <2> QED
    BY <2>1, <2>2
<1>7. EInv(epoll') /\ Linked(mem', epoll')
  <2> HIDE DEF at
  <2>1. EInv(Vacate(epoll, at)) /\ Linked(mem', Vacate(epoll, at))
    BY <1>5, <1>6, VacatesLinked
  <2> QED
    BY <2>1, <1>1
<1> QED
  BY <1>3, <1>7 DEF gone

\* A promise that waits for a file begins, and one that is fulfilled at once.
LEMMA BeginsWaiting ==
  ASSUME NEW m, NEW R, NEW K, MInv(m, R, {}, K), NEW p \in Ids, p \notin Live(m),
         NEW s, Fresh(s), s.ptr # Null
  PROVE  LET r == NewPromise(m, p, s)
         IN /\ MInv(r, R, {}, K)
            /\ \A x \in Ids : At(r, x) = IF x = p THEN s.ptr ELSE At(m, x)
            /\ Live(r) = Live(m) \cup {p}
<1> DEFINE T == IF s.ptr = Null THEN R \cup {p} ELSE R
           r == NewPromise(m, p, s)
<1>1. T = R
  OBVIOUS
<1>2. /\ MInv(r, T, {}, K)
      /\ \A x \in Ids : At(r, x) = IF x = p THEN s.ptr ELSE At(m, x)
      /\ Live(r) = Live(m) \cup {p}
  BY Begins
<1> HIDE DEF T
<1> QED
  BY <1>1, <1>2

\* ... and one that is to be fulfilled.
LEMMA BeginsRunning ==
  ASSUME NEW m, NEW R, NEW K, MInv(m, R, {}, K), NEW p \in Ids, p \notin Live(m),
         NEW s, Fresh(s), s.ptr = Null
  PROVE  LET r == NewPromise(m, p, s)
         IN /\ MInv(r, R \cup {p}, {}, K)
            /\ \A x \in Ids : At(r, x) = IF x = p THEN Null ELSE At(m, x)
            /\ Live(r) = Live(m) \cup {p}
<1> DEFINE T == IF s.ptr = Null THEN R \cup {p} ELSE R
           r == NewPromise(m, p, s)
<1>1. T = R \cup {p}
  OBVIOUS
<1>2. /\ MInv(r, T, {}, K)
      /\ \A x \in Ids : At(r, x) = IF x = p THEN s.ptr ELSE At(m, x)
      /\ Live(r) = Live(m) \cup {p}
  BY Begins
<1> HIDE DEF T
<1> QED
  BY <1>1, <1>2

-----------------------------------------------------------------------------
(* The steps of the loop and of the program                                *)

\* What is shown of a step.
LEMMA LoopInvNext ==
  ASSUME NEW R, NEW K, MInv(mem', R, {}, K), EInv(epoll'), Linked(mem', epoll'),
         FrameIsRight',
         R = IF frame'.linked THEN {frame'.fulfiller} ELSE {},
         K = Range(frame'.params)
  PROVE  LoopInv'
<1>1. R = Running'
  BY DEF Running
<1>2. MInv(mem, Running, {}, Range(frame.params))'
  BY <1>1
<1> QED
  BY <1>2 DEF LoopInv

\* The callback that runs, or none.
LEMMA FrameTypes ==
  ASSUME FrameIsRight
  PROVE  /\ frame = [fulfiller |-> frame.fulfiller, linked |-> frame.linked, params |-> frame.params]
         /\ frame.fulfiller \in Ids \cup {Null} /\ frame.linked \in BOOLEAN /\ frame.params \in Deps
         /\ NoFrame \in [fulfiller : Ids \cup {Null}, linked : BOOLEAN, params : Deps]
         /\ NoFrame.linked = FALSE /\ Range(NoFrame.params) = {} /\ NoFrame.fulfiller = Null
         /\ ops \in Nat /\ ops + 1 \in Nat
<1>1. <<>> \in Deps
  <2>1. 0 \in 0 .. MaxParams /\ <<>> \in [1 .. 0 -> Ids]
    BY LoopAssumption
  <2> QED
    BY <2>1 DEF Deps
<1>2. Range(<<>>) = {}
  BY DEF Range
<1>3. ops \in Nat /\ ops + 1 \in Nat
  BY LoopAssumption DEF FrameIsRight
<1>4. NoFrame = [fulfiller |-> Null, linked |-> FALSE, params |-> <<>>]
  BY DEF NoFrame
<1> QED
  BY <1>1, <1>2, <1>3, <1>4 DEF FrameIsRight

\* Before an operation of the program, and after.
LEMMA ActsKeepFrame ==
  ASSUME FrameIsRight, Acts,
         frame' \in [fulfiller : Ids \cup {Null}, linked : BOOLEAN, params : Deps],
         frame = NoFrame => frame' = NoFrame
  PROVE  FrameIsRight'
<1>1. phase' = phase /\ ops' = ops + 1 /\ ops < MaxOps /\ (phase = "setup" \/ frame # NoFrame)
  BY DEF Acts
<1>2. ops' \in 0 .. MaxOps
  BY <1>1, LoopAssumption DEF FrameIsRight
<1>3. phase # "done"
  BY <1>1 DEF FrameIsRight
<1> QED
  BY <1>1, <1>2, <1>3 DEF FrameIsRight

\* The parts of the invariant.
LEMMA LoopInvFacts ==
  ASSUME LoopInv
  PROVE  /\ MInv(mem, Running, {}, Range(frame.params))
         /\ MemTypes(mem) /\ Owned(mem, Range(frame.params)) /\ Staged(mem, Running)
         /\ EInv(epoll) /\ EpollTypes(epoll) /\ Linked(mem, epoll) /\ FrameIsRight
         /\ Running = IF frame.linked THEN {frame.fulfiller} ELSE {}
BY DEF LoopInv, MInv, EInv, Running

\* Nothing is there yet.
LEMMA LoopInvAtFirst == LoopInit => LoopInv
<1> SUFFICES ASSUME LoopInit PROVE LoopInv
  OBVIOUS
<1>1. /\ mem = [promises |-> <<>>, asyncCallbacks |-> <<>>]
      /\ epoll = [fulfiller |-> <<>>, events |-> <<>>, registeredEvents |-> <<>>,
                  watchesNeedingUpdate |-> {}, watchCount |-> 0]
      /\ frame = NoFrame /\ phase = "setup" /\ ops = 0
  BY DEF LoopInit
<1>2. /\ mem.promises = <<>> /\ mem.asyncCallbacks = <<>> /\ IsMemory(mem) /\ Live(mem) = {}
  BY <1>1 DEF IsMemory, Live
<1>3. <<>> \in [{} -> State] /\ <<>> \in Seq(Ids) /\ Range(<<>>) = {} /\ IsInjective(<<>>)
  BY DEF Range, IsInjective
<1>4. MInv(mem, {}, {}, {})
  <2>1. MemTypes(mem)
    BY <1>2, <1>3 DEF MemTypes
  <2>2. Owned(mem, {}) /\ Counted(mem, {}) /\ Staged(mem, {}) /\ Grounded(mem)
    BY <1>2 DEF Owned, Counted, Staged, Grounded
  <2>3. QueueAgrees(mem)
    BY <1>2, <1>3 DEF QueueAgrees
  <2> QED
    BY <2>1, <2>2, <2>3 DEF MInv
<1>5. /\ epoll.fulfiller = <<>> /\ epoll.events = <<>> /\ epoll.registeredEvents = <<>>
      /\ epoll.watchesNeedingUpdate = {} /\ epoll.watchCount = 0
      /\ WatchedFds(epoll) = {}
  BY <1>1 DEF WatchedFds
<1>6. EInv(epoll) /\ Linked(mem, epoll)
  <2>1. epoll = [fulfiller |-> epoll.fulfiller, events |-> epoll.events,
                 registeredEvents |-> epoll.registeredEvents,
                 watchesNeedingUpdate |-> epoll.watchesNeedingUpdate, watchCount |-> epoll.watchCount]
    BY <1>1, <1>5
  <2>2. /\ <<>> \in [{} -> [Slots -> Ids \cup {Null}]] /\ <<>> \in [{} -> SUBSET Slots]
    OBVIOUS
  <2>3. EpollTypes(epoll)
    BY <1>5, <2>1, <2>2 DEF EpollTypes
  <2>4. Registered(epoll) = {} /\ Cardinality({}) = 0
    BY <1>5, FS_EmptySet DEF Registered
  <2>5. \A p \in Ids, fd \in Fds, s \in Slots : At(mem, p) # <<fd, s>>
    BY <1>2, LoopAssumption DEF At
  <2> QED
    BY <1>5, <2>3, <2>4, <2>5 DEF EInv, Linked
<1>7. FrameIsRight
  <2>1. <<>> \in Deps
    <3>1. 0 \in 0 .. MaxParams /\ <<>> \in [1 .. 0 -> Ids]
      BY LoopAssumption
    <3> QED
      BY <3>1 DEF Deps
  <2>2. 0 \in 0 .. MaxOps
    BY LoopAssumption
  <2> QED
    BY <1>1, <2>1, <2>2 DEF FrameIsRight, NoFrame
<1>8. Running = {} /\ Range(frame.params) = {}
  BY <1>1, <1>3 DEF Running, NoFrame
<1> QED
  BY <1>4, <1>6, <1>7, <1>8 DEF LoopInv

\* A new IoWatcher.
LEMMA WatchFdKeeps ==
  ASSUME LoopInv, NEW fd \in Fds, WatchFd(fd)
  PROVE  LoopInv'
<1>1. Acts /\ fd \notin WatchedFds(epoll) /\ epoll' = NewWatch(epoll, fd) /\ mem' = mem /\ frame' = frame
  BY DEF WatchFd
<1>2. EInv(epoll') /\ Linked(mem', epoll')
  BY <1>1, LoopInvFacts, WatchBegins
<1>3. FrameIsRight'
  BY <1>1, LoopInvFacts, FrameTypes, ActsKeepFrame DEF FrameIsRight
<1> QED
  BY <1>1, <1>2, <1>3, LoopInvFacts, LoopInvNext

\* An IoWatcher goes: those who wait are told of an exception.
LEMMA DeleteWatcherKeeps ==
  ASSUME LoopInv, NEW fd \in Fds, DeleteWatcher(fd)
  PROVE  LoopInv'
<1> DEFINE slots == Watching(epoll, fd)
           at == {fd} \X slots
           v == Vacate(epoll, at)
<1>1. /\ Acts /\ fd \in WatchedFds(epoll) /\ frame' = frame
      /\ mem' = SettleSlots(mem, fd, slots, "thrown") /\ epoll' = DeleteWatch(v, fd)
  BY DEF DeleteWatcher
<1>2. /\ MInv(mem, Running, {}, Range(frame.params)) /\ EInv(epoll) /\ Linked(mem, epoll)
      /\ FrameIsRight
      /\ Running = IF frame.linked THEN {frame.fulfiller} ELSE {}
  BY LoopInvFacts
<1>3. "thrown" \in Values /\ slots \in SUBSET Watching(epoll, fd)
  BY DEF Values
<1>4. /\ MInv(mem', Running, {}, Range(frame.params))
      /\ \A x \in Ids : At(mem', x) = IF At(mem, x) \in at THEN Null ELSE At(mem, x)
  BY <1>1, <1>2, <1>3, SettlesSlots
<1>5. at \in SUBSET (Fds \X Slots)
  BY DEF Watching
<1>6. EInv(v) /\ Linked(mem', v)
  BY <1>2, <1>4, <1>5, VacatesLinked
<1>7. fd \in WatchedFds(v) /\ Watching(v, fd) = {}
  <2>1. /\ WatchedFds(v) = WatchedFds(epoll)
        /\ \A g \in WatchedFds(epoll), s \in Slots :
             v.fulfiller[g][s] = IF <<g, s>> \in at THEN Null ELSE epoll.fulfiller[g][s]
    BY <1>2, Vacates
  <2> HIDE DEF v
  <2>2. \A s \in Slots : s \in slots <=> epoll.fulfiller[fd][s] # Null
    BY DEF Watching
  <2>3. \A s \in Slots : <<fd, s>> \in at <=> s \in slots
    OBVIOUS
  <2> HIDE DEF slots, at
  <2>4. \A s \in Slots : v.fulfiller[fd][s] = Null
    BY <2>1, <2>2, <2>3, <1>1
  <2> QED
    BY <2>1, <2>4, <1>1 DEF Watching
<1>8. EInv(epoll') /\ Linked(mem', epoll')
  <2> HIDE DEF v
  <2> QED
    BY <1>1, <1>6, <1>7, WatchEnds
<1>9. FrameIsRight'
  BY <1>1, <1>2, FrameTypes, ActsKeepFrame DEF FrameIsRight
<1> QED
  BY <1>1, <1>2, <1>4, <1>8, <1>9, LoopInvNext

\* Somebody waits for a file.
LEMMA WaitForKeeps ==
  ASSUME LoopInv, Acts, NEW fd \in WatchedFds(epoll), NEW s \in Slots, epoll.fulfiller[fd][s] = Null,
         NEW p \in Ids, p \notin Live(mem), WaitFor(fd, s, p), frame' = frame
  PROVE  LoopInv'
<1> DEFINE st == [PlainState EXCEPT !.ptr = <<fd, s>>]
<1>1. mem' = NewPromise(mem, p, st)
      /\ epoll' = AddEvents([epoll EXCEPT !.fulfiller[fd][s] = p], fd, s)
  BY DEF WaitFor
<1>2. /\ MInv(mem, Running, {}, Range(frame.params)) /\ EInv(epoll) /\ Linked(mem, epoll)
      /\ FrameIsRight /\ EpollTypes(epoll)
      /\ Running = IF frame.linked THEN {frame.fulfiller} ELSE {}
  BY LoopInvFacts
<1>3. fd \in Fds /\ <<fd, s>> # Null
  BY <1>2, LoopAssumption DEF EpollTypes
<1>4. Fresh(st) /\ st.ptr = <<fd, s>>
  <2>1. <<>> \in Deps
    BY <1>2, FrameTypes DEF NoFrame
  <2> QED
    BY <2>1, <1>3 DEF Fresh, PlainState, State, Values
<1> HIDE DEF st
<1>5. /\ MInv(mem', Running, {}, Range(frame.params))
      /\ \A x \in Ids : At(mem', x) = IF x = p THEN <<fd, s>> ELSE At(mem, x)
  <2> DEFINE K == Range(frame.params)
  <2>1. MInv(mem, Running, {}, K)
    BY <1>2
  <2>2. st.ptr # Null
    BY <1>3, <1>4
  <2> HIDE DEF K
  <2>3. LET r == NewPromise(mem, p, st)
        IN /\ MInv(r, Running, {}, K)
           /\ \A x \in Ids : At(r, x) = IF x = p THEN st.ptr ELSE At(mem, x)
    BY <1>4, <2>1, <2>2, BeginsWaiting
  <2> QED
    BY <1>1, <1>4, <2>3 DEF K
<1>6. /\ EInv(epoll') /\ WatchedFds(epoll') = WatchedFds(epoll)
      /\ epoll'.fulfiller[fd][s] = p
      /\ \A g \in WatchedFds(epoll), t \in Slots :
           <<g, t>> # <<fd, s>> => epoll'.fulfiller[g][t] = epoll.fulfiller[g][t]
  BY <1>1, <1>2, StartsWatching
<1>7. EpollTypes(epoll')
  BY <1>6 DEF EInv
<1>8. Linked(mem', epoll')
  BY <1>2, <1>5, <1>6, <1>7, StartsLinked
<1>9. FrameIsRight'
  BY <1>2, FrameTypes, ActsKeepFrame DEF FrameIsRight
<1> QED
  BY <1>2, <1>5, <1>6, <1>8, <1>9, LoopInvNext

\* ... to read,
LEMMA OnReadableKeeps ==
  ASSUME LoopInv, NEW fd \in Fds, NEW p \in Ids, OnReadable(fd, p)
  PROVE  LoopInv'
<1>1. /\ Acts /\ p \notin Live(mem) /\ fd \in WatchedFds(epoll)
      /\ "EPOLLIN" \notin Watching(epoll, fd)
      /\ WaitFor(fd, "EPOLLIN", p) /\ frame' = frame
  BY DEF OnReadable, Makes
<1>2. "EPOLLIN" \in Slots /\ epoll.fulfiller[fd]["EPOLLIN"] = Null
  BY <1>1 DEF Watching, Slots
<1> QED
  BY <1>1, <1>2, WaitForKeeps

\* ... or to write.
LEMMA OnWritableKeeps ==
  ASSUME LoopInv, NEW fd \in Fds, NEW p \in Ids, OnWritable(fd, p)
  PROVE  LoopInv'
<1>1. /\ Acts /\ p \notin Live(mem) /\ fd \in WatchedFds(epoll)
      /\ Watching(epoll, fd) = {}
      /\ WaitFor(fd, "EPOLLOUT", p) /\ frame' = frame
  BY DEF OnWritable, Makes
<1>2. "EPOLLOUT" \in Slots /\ epoll.fulfiller[fd]["EPOLLOUT"] = Null
  BY <1>1 DEF Watching, Slots
<1> QED
  BY <1>1, <1>2, WaitForKeeps

\* A promise that is fulfilled from the start.
LEMMA NewSettledPromiseKeeps ==
  ASSUME LoopInv, NEW p \in Ids, NEW v \in {"value", "thrown"}, NewSettledPromise(p, v)
  PROVE  LoopInv'
<1> DEFINE made == NewPromise(mem, p, PlainState)
<1>1. /\ Acts /\ p \notin Live(mem) /\ mem' = Fulfill(made, p, v)
      /\ epoll' = epoll /\ frame' = frame
  BY DEF NewSettledPromise, Makes
<1>2. /\ MInv(mem, Running, {}, Range(frame.params)) /\ EInv(epoll) /\ Linked(mem, epoll)
      /\ FrameIsRight /\ EpollTypes(epoll) /\ Staged(mem, Running)
      /\ Running = IF frame.linked THEN {frame.fulfiller} ELSE {}
  BY LoopInvFacts
<1>3. Fresh(PlainState) /\ PlainState.ptr = Null
  <2>1. <<>> \in Deps
    BY <1>2, FrameTypes DEF NoFrame
  <2> QED
    BY <2>1 DEF Fresh, PlainState, State, Values
<1>4. /\ MInv(made, Running \cup {p}, {}, Range(frame.params))
      /\ \A x \in Ids : At(made, x) = IF x = p THEN Null ELSE At(mem, x)
  BY <1>1, <1>2, <1>3, BeginsRunning
<1> HIDE DEF made
<1>5. v \in Values /\ p \notin Running
  BY <1>1, <1>2 DEF Values, Staged
<1>6. /\ MInv(mem', (Running \cup {p}) \ {p}, {}, Range(frame.params))
      /\ \A x \in Ids : At(mem', x) = At(made, x)
  BY <1>1, <1>4, <1>5, Fulfills
<1>7. (Running \cup {p}) \ {p} = Running
  BY <1>5
<1>8. MInv(mem', Running, {}, Range(frame.params))
  BY <1>6, <1>7
<1>9. \A x \in Ids : At(mem', x) = At(mem, x)
  BY <1>1, <1>4, <1>6 DEF At
<1>10. Linked(mem', epoll')
  BY <1>1, <1>2, <1>9, StaysLinked
<1>11. FrameIsRight'
  BY <1>1, <1>2, FrameTypes, ActsKeepFrame DEF FrameIsRight
<1> QED
  BY <1>1, <1>2, <1>8, <1>10, <1>11, LoopInvNext

\* executor.when().
LEMMA CallWhenKeeps ==
  ASSUME LoopInv, NEW q \in Ids, NEW deps \in Deps, CallWhen(q, deps)
  PROVE  LoopInv'
<1>1. /\ Acts /\ q \notin Live(mem) /\ mem' = When(mem, q, deps)
      /\ IsInjective(deps) /\ Range(deps) \subseteq Live(mem)
      /\ \A d \in Range(deps) : mem.promises[d].owner = User
      /\ epoll' = epoll /\ frame' = frame
  BY DEF CallWhen, Makes, Held
<1>2. /\ MInv(mem, Running, {}, Range(frame.params)) /\ EInv(epoll) /\ Linked(mem, epoll)
      /\ FrameIsRight /\ EpollTypes(epoll)
      /\ Running = IF frame.linked THEN {frame.fulfiller} ELSE {}
  BY LoopInvFacts
<1>3. /\ MInv(mem', Running, {}, Range(frame.params))
      /\ \A x \in Ids : At(mem', x) = At(mem, x)
  BY <1>1, <1>2, Waits
<1>4. Linked(mem', epoll')
  BY <1>1, <1>2, <1>3, StaysLinked
<1>5. FrameIsRight'
  BY <1>1, <1>2, FrameTypes, ActsKeepFrame DEF FrameIsRight
<1> QED
  BY <1>1, <1>2, <1>3, <1>4, <1>5, LoopInvNext

\* What the stack owns is in no tree that a variable of the program owns.
LEMMA StackIsNotInTree ==
  ASSUME NEW m, NEW K, MemTypes(m), Owned(m, K), NEW p \in Live(m), m.promises[p].owner = User
  PROVE  K \ Tree(m, {p}) = K
<1>1. {p} \subseteq Live(m)
  OBVIOUS
<1>2. \A x \in Tree(m, {p}) \ {p} : x \in Live(m) /\ m.promises[x].owner \in Live(m)
  BY <1>1, TreesAreClosed
<1>3. \A x \in K : x \in Live(m) /\ m.promises[x].owner = Stack
  BY DEF Owned
<1>4. Stack \notin Live(m) /\ User # Stack
  BY LoopAssumption DEF MemTypes
<1> QED
  BY <1>2, <1>3, <1>4

\* A variable of the program is dropped.
LEMMA DropKeeps ==
  ASSUME LoopInv, NEW p \in Ids, Drop(p)
  PROVE  LoopInv'
<1> DEFINE gone == Tree(mem, {p})
<1>1. /\ Acts /\ p \in Live(mem) /\ mem.promises[p].owner = User
      /\ DestroyTree(mem, {p})
      /\ frame' = [frame EXCEPT !.linked = @ /\ frame.fulfiller \notin gone]
  BY DEF Drop, Held
<1>2. /\ MInv(mem, Running, {}, Range(frame.params)) /\ EInv(epoll) /\ Linked(mem, epoll)
      /\ FrameIsRight /\ MemTypes(mem) /\ Owned(mem, Range(frame.params))
      /\ Running = IF frame.linked THEN {frame.fulfiller} ELSE {}
  BY LoopInvFacts
<1>3. User \notin Ids
  BY LoopAssumption
<1> HIDE DEF gone
<1>4. Range(frame.params) \ gone = Range(frame.params)
  BY <1>1, <1>2, StackIsNotInTree DEF gone
<1>5. /\ MInv(mem', Running \ gone, {}, Range(frame.params) \ gone)
      /\ EInv(epoll') /\ Linked(mem', epoll')
  <2> DEFINE seeds == {p}
  <2>1. seeds \subseteq Live(mem) /\ \A x \in seeds : mem.promises[x].owner \notin Ids
    BY <1>1, <1>3
  <2>2. DestroyTree(mem, seeds) /\ gone = Tree(mem, seeds)
    BY <1>1 DEF gone
  <2> HIDE DEF seeds
  <2> QED
    BY <1>2, <2>1, <2>2, Destroys
<1>6. /\ frame' = [fulfiller |-> frame.fulfiller,
                   linked |-> frame.linked /\ frame.fulfiller \notin gone, params |-> frame.params]
  BY <1>1, <1>2, FrameTypes
<1>7. FrameIsRight'
  <2>1. frame' \in [fulfiller : Ids \cup {Null}, linked : BOOLEAN, params : Deps]
    BY <1>2, <1>6, FrameTypes
  <2>2. ASSUME frame = NoFrame PROVE frame' = NoFrame
    <3>1. frame.fulfiller = Null /\ frame.linked = FALSE /\ frame.params = <<>>
      BY <2>2 DEF NoFrame
    <3>2. (frame.linked /\ frame.fulfiller \notin gone) = FALSE
      BY <3>1
    <3> QED
      BY <1>6, <3>1, <3>2 DEF NoFrame
  <2> QED
    BY <1>1, <1>2, <2>1, <2>2, ActsKeepFrame
<1>8. Running \ gone = IF frame'.linked THEN {frame'.fulfiller} ELSE {}
  BY <1>2, <1>6
<1>9. Range(frame.params) = Range(frame'.params)
  BY <1>6
<1> QED
  BY <1>4, <1>5, <1>7, <1>8, <1>9, LoopInvNext

\* loop() is called.
LEMMA EnterKeeps ==
  ASSUME LoopInv, Enter
  PROVE  LoopInv'
<1>1. phase' = "loop" /\ mem' = mem /\ epoll' = epoll /\ frame' = frame /\ ops' = ops /\ phase = "setup"
  BY DEF Enter
<1>2. FrameIsRight'
  BY <1>1, LoopInvFacts DEF FrameIsRight
<1> QED
  BY <1>1, <1>2, LoopInvFacts, LoopInvNext

\* Between two callbacks, nothing is running.
LEMMA WhenLooping ==
  ASSUME LoopInv, Looping
  PROVE  /\ MInv(mem, {}, {}, {}) /\ EInv(epoll) /\ Linked(mem, epoll) /\ FrameIsRight
         /\ EpollTypes(epoll) /\ phase = "loop" /\ frame = NoFrame
<1>1. frame = NoFrame /\ phase = "loop"
  BY DEF Looping
<1>2. MInv(mem, Running, {}, Range(frame.params))
  BY LoopInvFacts
<1>3. Running = {} /\ Range(frame.params) = {}
  BY <1>1, LoopInvFacts, FrameTypes
<1>4. MInv(mem, {}, {}, {})
  BY <1>2, <1>3
<1> QED
  BY <1>1, <1>4, LoopInvFacts

\* The first callback is called: what it waited for is on the stack.
LEMMA CallFirstKeeps ==
  ASSUME LoopInv, CallFirst
  PROVE  LoopInv'
<1>1. /\ Looping /\ mem.asyncCallbacks # <<>> /\ mem' = Popped
      /\ frame' = [fulfiller |-> First, linked |-> TRUE, params |-> mem.promises[First].params]
      /\ epoll' = epoll /\ phase' = phase /\ ops' = ops
  BY DEF CallFirst
<1>2. /\ MInv(mem, {}, {}, {}) /\ EInv(epoll) /\ Linked(mem, epoll) /\ FrameIsRight
      /\ EpollTypes(epoll) /\ phase = "loop"
  BY <1>1, WhenLooping
<1>3. Popped = PopFirst(mem) /\ First = Head(mem.asyncCallbacks)
  BY DEF Popped, PopFirst, First
<1>4. /\ First \in Live(mem)
      /\ MInv(mem', {First}, {}, Params(mem, First))
      /\ \A x \in Ids : At(mem', x) = At(mem, x)
  BY <1>1, <1>2, <1>3, Pops
<1>5. MemTypes(mem)
  BY <1>2 DEF MInv
<1>6. First \in Ids /\ mem.promises[First].params \in Deps
  BY <1>4, <1>5, MemoryTypes
<1>7. FrameIsRight'
  BY <1>1, <1>2, <1>6 DEF FrameIsRight
<1>8. {First} = IF frame'.linked THEN {frame'.fulfiller} ELSE {}
  BY <1>1
<1>9. Params(mem, First) = Range(frame'.params)
  BY <1>1 DEF Params
<1>10. Linked(mem', epoll')
  BY <1>1, <1>2, <1>4, StaysLinked
<1> QED
  BY <1>1, <1>2, <1>4, <1>7, <1>8, <1>9, <1>10, LoopInvNext

\* The exception that is passed on.
LEMMA ForcedErrorIsValue ==
  ASSUME NEW m, MemTypes(m), NEW deps \in Deps, Range(deps) \subseteq Live(m)
  PROVE  ForcedError(m, deps) \in Values
<1>1. CASE deps # <<>> /\ Broken(m.promises[Head(deps)].value)
  BY <1>1 DEF ForcedError, Broken, Values
<1>2. CASE ~(deps # <<>> /\ Broken(m.promises[Head(deps)].value))
  BY <1>2 DEF ForcedError, Values
<1> QED
  BY <1>1, <1>2

\* An exception is passed on without a callback.
LEMMA ForceErrorKeeps ==
  ASSUME LoopInv, ForceError
  PROVE  LoopInv'
<1> DEFINE deps == mem.promises[First].params
           v == ForcedError(mem, deps)
           m == Fulfill(Popped, First, v)
           T == Tree(m, Range(deps))
<1>1. /\ Looping /\ mem.asyncCallbacks # <<>>
      /\ DestroyTree(m, Range(deps))
      /\ frame' = frame /\ phase' = phase /\ ops' = ops
  BY DEF ForceError
<1>2. /\ MInv(mem, {}, {}, {}) /\ EInv(epoll) /\ Linked(mem, epoll) /\ FrameIsRight
      /\ EpollTypes(epoll) /\ phase = "loop" /\ frame = NoFrame
  BY <1>1, WhenLooping
<1>3. Popped = PopFirst(mem) /\ First = Head(mem.asyncCallbacks)
  BY DEF Popped, PopFirst, First
<1>4. /\ First \in Live(mem)
      /\ MInv(Popped, {First}, {}, Params(mem, First))
      /\ \A x \in Ids : At(Popped, x) = At(mem, x)
      /\ Live(Popped) = Live(mem)
  BY <1>1, <1>2, <1>3, Pops
<1>5. MemTypes(mem) /\ Owned(mem, {})
  BY <1>2 DEF MInv
<1>6. deps \in Deps
  BY <1>4, <1>5, MemoryTypes
<1>7. Range(deps) = Params(mem, First) /\ Range(deps) \subseteq Live(mem)
  BY <1>4, <1>5 DEF Params, Owned
<1>8. v \in Values
  BY <1>5, <1>6, <1>7, ForcedErrorIsValue
<1> HIDE DEF v, deps
<1>9. /\ MInv(m, {First} \ {First}, {}, Range(deps))
      /\ \A x \in Ids : At(m, x) = At(Popped, x)
  <2>1. First \in {First}
    OBVIOUS
  <2> QED
    BY <1>4, <1>7, <1>8, <2>1, Fulfills
<1> HIDE DEF m
<1>10. MInv(m, {}, {}, Range(deps))
  <2>1. {First} \ {First} = {}
    OBVIOUS
  <2> QED
    BY <1>9, <2>1
<1>11. Linked(m, epoll)
  BY <1>2, <1>4, <1>9, StaysLinked
<1>12. /\ Range(deps) \subseteq Live(m)
       /\ \A x \in Range(deps) : m.promises[x].owner \notin Ids
  <2>1. Owned(m, Range(deps)) /\ Stack \notin Ids
    BY <1>10, LoopAssumption DEF MInv
  <2> QED
    BY <2>1 DEF Owned
<1>13. /\ MInv(mem', {} \ T, {}, Range(deps) \ T)
       /\ EInv(epoll') /\ Linked(mem', epoll')
  BY <1>1, <1>2, <1>10, <1>11, <1>12, Destroys
<1>14. {} \ T = {} /\ Range(deps) \ T = {}
  BY <1>12, TreesAreClosed
<1>15. /\ {} = (IF frame'.linked THEN {frame'.fulfiller} ELSE {})
       /\ {} = Range(frame'.params)
       /\ FrameIsRight'
  BY <1>1, <1>2, FrameTypes DEF FrameIsRight
<1> HIDE DEF T
<1>16. MInv(mem', {}, {}, {})
  BY <1>13, <1>14
<1> QED
  BY <1>13, <1>15, <1>16, LoopInvNext

\* What is left when a callback has returned.
LEMMA FinishKeeps ==
  ASSUME FrameIsRight, frame # NoFrame, EInv(epoll),
         NEW m, NEW rest, MInv(m, {}, {}, Range(frame.params)), Linked(m, epoll),
         rest \subseteq Live(m), \A x \in rest : m.promises[x].owner = User,
         Finish(m, rest), phase' \in {"loop", "crashed"}
  PROVE  LoopInv'
<1> DEFINE K == Range(frame.params)
           seeds == K \cup rest
           T == Tree(m, seeds)
<1>1. DestroyTree(m, seeds) /\ frame' = NoFrame /\ ops' = ops
  BY DEF Finish
<1>2. Owned(m, K) /\ Stack \notin Ids /\ User \notin Ids
  BY LoopAssumption DEF MInv
<1>3. seeds \subseteq Live(m) /\ \A x \in seeds : m.promises[x].owner \notin Ids
  BY <1>2 DEF Owned
<1>4. K \subseteq seeds
  OBVIOUS
<1> HIDE DEF seeds, K
<1>5. MInv(m, {}, {}, K)
  BY DEF K
<1>6. /\ MInv(mem', {} \ T, {}, K \ T)
      /\ EInv(epoll') /\ Linked(mem', epoll')
  BY <1>1, <1>3, <1>5, Destroys
<1>7. {} \ T = {} /\ K \ T = {}
  BY <1>3, <1>4, TreesAreClosed
<1> HIDE DEF T
<1>8. MInv(mem', {}, {}, {})
  BY <1>6, <1>7
<1>9. /\ {} = (IF frame'.linked THEN {frame'.fulfiller} ELSE {})
      /\ {} = Range(frame'.params)
  BY <1>1, FrameTypes
<1>10. FrameIsRight'
  BY <1>1, FrameTypes DEF FrameIsRight
<1> QED
  BY <1>6, <1>8, <1>9, <1>10, LoopInvNext

\* While a callback runs.
LEMMA WhenRunning ==
  ASSUME LoopInv, frame # NoFrame
  PROVE  /\ MInv(mem, Running, {}, Range(frame.params)) /\ EInv(epoll) /\ Linked(mem, epoll)
         /\ FrameIsRight /\ EpollTypes(epoll) /\ phase = "loop"
         /\ frame.linked => Running = {frame.fulfiller}
         /\ ~frame.linked => Running = {}
BY LoopInvFacts DEF FrameIsRight

\* The fulfiller of the callback that runs is fulfilled.
LEMMA FinishesFulfilled ==
  ASSUME LoopInv, frame # NoFrame, frame.linked, NEW v \in Values,
         Finish(Fulfill(mem, frame.fulfiller, v), {}), phase' \in {"loop", "crashed"}
  PROVE  LoopInv'
<1> DEFINE f == frame.fulfiller
           m == Fulfill(mem, f, v)
<1>1. /\ MInv(mem, {f}, {}, Range(frame.params)) /\ EInv(epoll) /\ Linked(mem, epoll)
      /\ FrameIsRight /\ EpollTypes(epoll)
  BY WhenRunning
<1>2. f \in {f} /\ {f} \ {f} = {}
  OBVIOUS
<1>3. Finish(m, {})
  OBVIOUS
<1> HIDE DEF f
<1>4. /\ MInv(m, {f} \ {f}, {}, Range(frame.params))
      /\ \A x \in Ids : At(m, x) = At(mem, x)
  BY <1>1, <1>2, Fulfills
<1> HIDE DEF m
<1>5. MInv(m, {}, {}, Range(frame.params))
  BY <1>2, <1>4
<1>6. Linked(m, epoll)
  BY <1>1, <1>4, StaysLinked
<1> DEFINE rest == {}
<1>7. rest \subseteq Live(m) /\ (\A x \in rest : m.promises[x].owner = User) /\ Finish(m, rest)
  BY <1>3
<1> HIDE DEF rest
<1> QED
  BY <1>1, <1>5, <1>6, <1>7, FinishKeeps

\* ... or was dropped, and there is nothing to fulfill.
LEMMA FinishesUnlinked ==
  ASSUME LoopInv, frame # NoFrame, ~frame.linked,
         NEW rest, rest \subseteq Live(mem), \A x \in rest : mem.promises[x].owner = User,
         Finish(mem, rest), phase' \in {"loop", "crashed"}
  PROVE  LoopInv'
<1>1. /\ MInv(mem, Running, {}, Range(frame.params)) /\ EInv(epoll) /\ Linked(mem, epoll)
      /\ FrameIsRight /\ Running = {}
  BY WhenRunning
<1>2. MInv(mem, {}, {}, Range(frame.params))
  BY <1>1
<1> QED
  BY <1>1, <1>2, FinishKeeps

\* A callback returns a value,
LEMMA ReturnValueKeeps ==
  ASSUME LoopInv, ReturnValue
  PROVE  LoopInv'
<1>1. /\ frame # NoFrame /\ phase' = phase /\ phase = "loop"
      /\ Finish(IF frame.linked THEN Fulfill(mem, frame.fulfiller, "value") ELSE mem, {})
  BY WhenRunning DEF ReturnValue
<1>2. CASE frame.linked
  <2>1. "value" \in Values /\ Finish(Fulfill(mem, frame.fulfiller, "value"), {})
    BY <1>1, <1>2 DEF Values
  <2> QED
    BY <1>1, <1>2, <2>1, FinishesFulfilled
<1>3. CASE ~frame.linked
  <2> DEFINE rest == {}
  <2>1. rest \subseteq Live(mem) /\ (\A x \in rest : mem.promises[x].owner = User) /\ Finish(mem, rest)
    BY <1>1, <1>3
  <2> HIDE DEF rest
  <2> QED
    BY <1>1, <1>3, <2>1, FinishesUnlinked
<1> QED
  BY <1>2, <1>3

\* ... throws,
LEMMA ThrowKeeps ==
  ASSUME LoopInv, Throw
  PROVE  LoopInv'
<1>1. /\ frame # NoFrame /\ frame.linked /\ phase' = phase /\ phase = "loop"
      /\ Finish(Fulfill(mem, frame.fulfiller, "thrown"), {}) /\ "thrown" \in Values
  BY WhenRunning DEF Throw, Values
<1> QED
  BY <1>1, FinishesFulfilled

\* ... throws although its promise was dropped,
LEMMA ThrowUnlinkedKeeps ==
  ASSUME LoopInv, ThrowUnlinked
  PROVE  LoopInv'
<1> DEFINE rest == {}
<1>1. /\ frame # NoFrame /\ ~frame.linked /\ phase' \in {"loop", "crashed"} /\ Finish(mem, rest)
      /\ rest \subseteq Live(mem) /\ \A x \in rest : mem.promises[x].owner = User
  BY DEF ThrowUnlinked
<1> HIDE DEF rest
<1> QED
  BY <1>1, FinishesUnlinked

\* ... or returns another promise.
LEMMA ReturnPromiseKeeps ==
  ASSUME LoopInv, NEW r \in Ids, ReturnPromise(r)
  PROVE  LoopInv'
<1> DEFINE f == frame.fulfiller
<1>1. /\ frame # NoFrame /\ phase' = phase /\ phase = "loop"
      /\ r \in Live(mem) /\ mem.promises[r].owner = User
  BY WhenRunning DEF ReturnPromise, Held
<1>2. CASE frame.linked
  <2> DEFINE m == FulfillWith(mem, f, r)
             rest == {}
  <2>1. f \notin Tree(mem, {r}) /\ Finish(m, rest)
    BY <1>2 DEF ReturnPromise
  <2>2. /\ MInv(mem, {f}, {}, Range(frame.params)) /\ EInv(epoll) /\ Linked(mem, epoll)
        /\ FrameIsRight /\ EpollTypes(epoll)
    BY <1>1, <1>2, WhenRunning
  <2> HIDE DEF f
  <2>3. /\ MInv(m, {}, {}, Range(frame.params))
        /\ \A x \in Ids : At(m, x) = At(mem, x)
    <3> DEFINE K == Range(frame.params)
    <3>1. MInv(mem, {f}, {}, K)
      BY <2>2
    <3>2. r \in Live(mem) /\ mem.promises[r].owner = User /\ f \notin Tree(mem, {r})
      BY <1>1, <2>1
    <3> HIDE DEF K, m
    <3>3. LET g == FulfillWith(mem, f, r)
          IN /\ MInv(g, {}, {}, K)
             /\ \A x \in Ids : At(g, x) = At(mem, x)
      BY <3>1, <3>2, HandsOver
    <3> QED
      BY <3>3 DEF K, m
  <2> HIDE DEF m
  <2>4. Linked(m, epoll)
    BY <2>2, <2>3, StaysLinked
  <2>5. rest \subseteq Live(m) /\ (\A x \in rest : m.promises[x].owner = User)
    OBVIOUS
  <2> HIDE DEF rest
  <2> QED
    BY <1>1, <2>1, <2>2, <2>3, <2>4, <2>5, FinishKeeps
<1>3. CASE ~frame.linked
  <2> DEFINE rest == {r}
  <2>1. /\ rest \subseteq Live(mem) /\ (\A x \in rest : mem.promises[x].owner = User)
        /\ Finish(mem, rest)
    BY <1>1, <1>3 DEF ReturnPromise
  <2> HIDE DEF rest
  <2> QED
    BY <1>1, <1>3, <2>1, FinishesUnlinked
<1> QED
  BY <1>2, <1>3

\* The next watch is updated.
LEMMA UpdateNextKeeps ==
  ASSUME LoopInv, NEW fd \in Fds, UpdateNext(fd)
  PROVE  LoopInv'
<1>1. /\ Looping /\ fd \in epoll.watchesNeedingUpdate
      /\ epoll' = [UpdateRegistration(epoll, fd) EXCEPT !.watchesNeedingUpdate = @ \ {fd}]
      /\ mem' = mem /\ frame' = frame /\ phase' = phase /\ ops' = ops
  BY DEF UpdateNext
<1>2. /\ MInv(mem, {}, {}, {}) /\ EInv(epoll) /\ Linked(mem, epoll) /\ FrameIsRight
      /\ EpollTypes(epoll) /\ phase = "loop" /\ frame = NoFrame
  BY <1>1, WhenLooping
<1>3. fd \in WatchedFds(epoll)
  BY <1>1, <1>2 DEF EpollTypes
<1>4. EInv(epoll') /\ epoll'.fulfiller = epoll.fulfiller /\ WatchedFds(epoll') = WatchedFds(epoll)
  BY <1>1, <1>2, <1>3, Updates
<1>5. Linked(mem', epoll')
  <2> DEFINE v == epoll'
  <2>1. v.fulfiller = epoll.fulfiller /\ WatchedFds(v) = WatchedFds(epoll)
    BY <1>4
  <2> HIDE DEF v
  <2>2. Linked(mem, v)
    BY <1>2, <2>1 DEF Linked
  <2> QED
    BY <1>1, <2>2 DEF v
<1>6. FrameIsRight'
  BY <1>1, <1>2 DEF FrameIsRight
<1>7. {} = (IF frame'.linked THEN {frame'.fulfiller} ELSE {}) /\ {} = Range(frame'.params)
  BY <1>1, <1>2, FrameTypes
<1> QED
  BY <1>1, <1>2, <1>4, <1>5, <1>6, <1>7, LoopInvNext

\* An event wakes those who wait for it.
LEMMA HandleEventKeeps ==
  ASSUME LoopInv, NEW fd \in Fds, NEW events, HandleEvent(fd, events)
  PROVE  LoopInv'
<1> DEFINE woken == {s \in Watching(epoll, fd) : s \in events \/ "EPOLLHUP" \in events}
           at == {fd} \X woken
<1>1. /\ Looping /\ fd \in WatchedFds(epoll)
      /\ mem' = SettleSlots(mem, fd, woken, "value") /\ epoll' = Vacate(epoll, at)
      /\ frame' = frame /\ phase' = phase /\ ops' = ops
  BY DEF HandleEvent
<1>2. /\ MInv(mem, {}, {}, {}) /\ EInv(epoll) /\ Linked(mem, epoll) /\ FrameIsRight
      /\ EpollTypes(epoll) /\ phase = "loop" /\ frame = NoFrame
  BY <1>1, WhenLooping
<1>3. "value" \in Values /\ woken \in SUBSET Watching(epoll, fd) /\ woken \subseteq Slots
  BY DEF Values, Watching
<1> HIDE DEF woken
<1>4. /\ MInv(mem', {}, {}, {})
      /\ \A x \in Ids : At(mem', x) = IF At(mem, x) \in at THEN Null ELSE At(mem, x)
  <2> DEFINE R == {}
             K == {}
  <2>1. MInv(mem, R, {}, K)
    BY <1>2
  <2> HIDE DEF R, K
  <2>2. /\ MInv(mem', R, {}, K)
        /\ \A x \in Ids : At(mem', x) = IF At(mem, x) \in at THEN Null ELSE At(mem, x)
    BY <1>1, <1>2, <1>3, <2>1, SettlesSlots
  <2> QED
    BY <2>2 DEF R, K
<1>5. at \in SUBSET (Fds \X Slots)
  BY <1>3
<1>6. EInv(epoll') /\ Linked(mem', epoll')
  BY <1>1, <1>2, <1>4, <1>5, VacatesLinked
<1>7. FrameIsRight'
  BY <1>1, <1>2 DEF FrameIsRight
<1>8. {} = (IF frame'.linked THEN {frame'.fulfiller} ELSE {}) /\ {} = Range(frame'.params)
  BY <1>1, <1>2, FrameTypes
<1> QED
  BY <1>4, <1>6, <1>7, <1>8, LoopInvNext

\* The loop is done.
LEMMA NoMoreEventsKeeps ==
  ASSUME LoopInv, NoMoreEvents
  PROVE  LoopInv'
<1>1. /\ Looping /\ Updated /\ epoll.watchCount = 0 /\ phase' = "done"
      /\ mem' = mem /\ epoll' = epoll /\ frame' = frame /\ ops' = ops
  BY DEF NoMoreEvents
<1>2. /\ MInv(mem, {}, {}, {}) /\ EInv(epoll) /\ Linked(mem, epoll) /\ FrameIsRight
      /\ frame = NoFrame
  BY <1>1, WhenLooping
<1>3. FrameIsRight'
  BY <1>1, <1>2 DEF FrameIsRight, Updated
<1>4. {} = (IF frame'.linked THEN {frame'.fulfiller} ELSE {}) /\ {} = Range(frame'.params)
  BY <1>1, <1>2, FrameTypes
<1> QED
  BY <1>1, <1>2, <1>3, <1>4, LoopInvNext

\* Nothing happens.
LEMMA StutteringKeeps ==
  ASSUME LoopInv, UNCHANGED loopVars
  PROVE  LoopInv'
<1>1. mem' = mem /\ epoll' = epoll /\ frame' = frame /\ phase' = phase /\ ops' = ops
  BY DEF loopVars
<1>2. FrameIsRight'
  BY <1>1, LoopInvFacts DEF FrameIsRight, Updated
<1> QED
  BY <1>1, <1>2, LoopInvFacts, LoopInvNext

\* The invariant is inductive.
LEMMA LoopInvKept == LoopInv /\ [LoopNext]_loopVars => LoopInv'
<1> SUFFICES ASSUME LoopInv, [LoopNext]_loopVars PROVE LoopInv'
  OBVIOUS
<1>1. CASE UNCHANGED loopVars
  BY <1>1, StutteringKeeps
<1>2. CASE Program
  BY <1>2, WatchFdKeeps, DeleteWatcherKeeps, OnReadableKeeps, OnWritableKeeps,
     NewSettledPromiseKeeps, CallWhenKeeps, DropKeeps DEF Program
<1>3. CASE Enter
  BY <1>3, EnterKeeps
<1>4. CASE Return
  BY <1>4, ReturnValueKeeps, ThrowKeeps, ThrowUnlinkedKeeps, ReturnPromiseKeeps DEF Return
<1>5. CASE Loop
  BY <1>5, CallFirstKeeps, ForceErrorKeeps, UpdateNextKeeps, HandleEventKeeps,
     NoMoreEventsKeeps DEF Loop
<1> QED
  BY <1>1, <1>2, <1>3, <1>4, <1>5 DEF LoopNext, Onward

\* The promises, the watches, and the callback that runs fit together, whatever
\* the program does: its queue, its counts, its registrations, and no circle of
\* promises (base/Promise.h, os/EpollEventManager.cpp).
THEOREM EventLoopInvariant == LoopSpec => []LoopInv
BY LoopInvAtFirst, LoopInvKept, PTL DEF LoopSpec

\* The invariant has the counts right,
LEMMA LoopInvCounts == LoopInv => CountsAreRight
<1> SUFFICES ASSUME LoopInv PROVE CountsAreRight
  OBVIOUS
<1> DEFINE K == Range(frame.params)
<1>1. /\ MemTypes(mem) /\ Owned(mem, K) /\ Counted(mem, {}) /\ Staged(mem, Running) /\ QueueAgrees(mem)
      /\ EInv(epoll) /\ EpollTypes(epoll) /\ FrameIsRight
  BY LoopInvFacts DEF MInv
<1>2. LoopTypeOK
  <2>1. epoll.watchCount \in Nat
    BY <1>1, RegisteredAreFinite DEF EInv
  <2> QED
    BY <1>1, <2>1 DEF LoopTypeOK, MemTypes, EpollTypes, FrameIsRight
<1>3. OwnersAgree
  BY <1>1 DEF OwnersAgree, Owned
<1>4. ASSUME NEW p \in Live(mem)
      PROVE  LET deps == Params(mem, p)
                 open == {d \in deps : ~mem.promises[d].fulfilled}
             IN /\ mem.promises[p].left = Cardinality(open)
                /\ deps # {} => mem.promises[p].dependencyFailed =
                                  (\E d \in deps \ open : Broken(mem.promises[d].value))
                /\ mem.promises[p].pending => open = {} /\ ~mem.promises[p].fulfilled
                /\ deps # {} /\ open = {} => mem.promises[p].pending
  <2> DEFINE deps == Params(mem, p)
             open == {d \in deps : ~mem.promises[d].fulfilled}
  <2>1. open = OpenParams(mem, p, {})
    BY DEF OpenParams
  <2>2. /\ mem.promises[p].left = Cardinality(open)
        /\ deps # {} =>
             /\ mem.promises[p].dependencyFailed <=> \E d \in deps \ open : Broken(mem.promises[d].value)
             /\ mem.promises[p].pending <=> open = {}
    BY <1>1, <2>1 DEF Counted, CountedOf
  <2>3. /\ mem.promises[p].fulfilled => deps = {} /\ ~mem.promises[p].pending
        /\ mem.promises[p].fulfilled \in BOOLEAN /\ mem.promises[p].dependencyFailed \in BOOLEAN
    BY <1>1, MemoryTypes DEF Staged, StagedOf
  <2>4. deps = {} => open = {}
    OBVIOUS
  <2> HIDE DEF deps, open
  <2>5. deps # {} => mem.promises[p].dependencyFailed = (\E d \in deps \ open : Broken(mem.promises[d].value))
    BY <2>2, <2>3
  <2>6. mem.promises[p].pending => open = {} /\ ~mem.promises[p].fulfilled
    BY <2>2, <2>3, <2>4
  <2>7. deps # {} /\ open = {} => mem.promises[p].pending
    BY <2>2
  <2> QED
    BY <2>2, <2>5, <2>6, <2>7 DEF deps, open
<1> QED
  BY <1>1, <1>2, <1>3, <1>4 DEF CountsAreRight, QueueAgrees

\* A fulfiller counts what is still open and is queued, once, when all is done
\* (base/Promise.h 643-687, 841-872).
THEOREM CountsStayRight == LoopSpec => []CountsAreRight
BY EventLoopInvariant, LoopInvCounts, PTL

\* ... the watches,
LEMMA LoopInvWatches == LoopInv => WatchesAreRight
<1> SUFFICES ASSUME LoopInv PROVE WatchesAreRight
  OBVIOUS
<1>1. MemTypes(mem) /\ EInv(epoll) /\ EpollTypes(epoll) /\ Linked(mem, epoll)
  BY LoopInvFacts DEF MInv
<1>2. ASSUME NEW fd \in WatchedFds(epoll), NEW s \in Watching(epoll, fd)
      PROVE  /\ epoll.fulfiller[fd][s] \in Live(mem)
             /\ mem.promises[epoll.fulfiller[fd][s]].ptr = <<fd, s>>
  <2>1. s \in Slots /\ epoll.fulfiller[fd][s] # Null /\ fd \in Fds
    BY <1>1, <1>2 DEF Watching, EpollTypes
  <2>2. At(mem, epoll.fulfiller[fd][s]) = <<fd, s>>
    BY <1>1, <2>1 DEF Linked
  <2>3. <<fd, s>> # Null
    BY <2>1, LoopAssumption
  <2> QED
    BY <2>2, <2>3 DEF At
<1>3. ASSUME NEW p \in Live(mem), mem.promises[p].ptr # Null
      PROVE  LET at == mem.promises[p].ptr
             IN at[1] \in WatchedFds(epoll) /\ epoll.fulfiller[at[1]][at[2]] = p
  <2>1. mem.promises[p].ptr \in Fds \X Slots /\ p \in Ids
    BY <1>1, <1>3, MemoryTypes
  <2>2. PICK fd \in Fds, s \in Slots : mem.promises[p].ptr = <<fd, s>>
    BY <2>1
  <2>3. At(mem, p) = <<fd, s>>
    BY <2>2 DEF At
  <2>4. fd \in WatchedFds(epoll) /\ epoll.fulfiller[fd][s] = p
    BY <1>1, <2>1, <2>3 DEF Linked
  <2> QED
    BY <2>2, <2>4
<1> QED
  BY <1>1, <1>2, <1>3 DEF WatchesAreRight, EInv, Registered

\* A watch has the events somebody waits for, epoll is told of them, and the loop
\* counts the watches that it knows (os/EpollEventManager.cpp 129-188, 452-479).
THEOREM WatchesStayRight == LoopSpec => []WatchesAreRight
BY EventLoopInvariant, LoopInvWatches, PTL

\* ... and nobody who waits when nothing is registered.
LEMMA LoopInvForgets == LoopInv => NothingIsForgotten
<1> SUFFICES ASSUME LoopInv, phase = "done" PROVE \A p \in Live(mem) : mem.promises[p].fulfilled
  BY DEF NothingIsForgotten
<1>1. /\ MemTypes(mem) /\ Counted(mem, {}) /\ Staged(mem, Running) /\ QueueAgrees(mem)
      /\ Grounded(mem) /\ EInv(epoll) /\ EpollTypes(epoll) /\ FrameIsRight /\ Linked(mem, epoll)
  BY LoopInvFacts DEF MInv
<1>2. Updated /\ epoll.watchCount = 0 /\ Running = {}
  BY <1>1, LoopInvFacts, FrameTypes DEF FrameIsRight
<1>3. \A fd \in WatchedFds(epoll) : Watching(epoll, fd) = {}
  <2>1. Registered(epoll) = {}
    <3>1. IsFiniteSet(Registered(epoll)) /\ Cardinality(Registered(epoll)) = 0
      BY <1>1, <1>2, RegisteredAreFinite DEF EInv
    <3> QED
      BY <3>1, FS_EmptySet
  <2>2. epoll.watchesNeedingUpdate = {}
    BY <1>2 DEF Updated
  <2> QED
    BY <1>1, <2>1, <2>2 DEF EInv, Registered
<1>4. ASSUME NEW p \in Live(mem) PROVE mem.promises[p].ptr = Null
  <2> SUFFICES ASSUME mem.promises[p].ptr # Null PROVE FALSE
    OBVIOUS
  <2>1. mem.promises[p].ptr \in Fds \X Slots /\ p \in Ids
    BY <1>1, MemoryTypes
  <2>2. PICK fd \in Fds, s \in Slots : mem.promises[p].ptr = <<fd, s>>
    BY <2>1
  <2>3. At(mem, p) = <<fd, s>>
    BY <2>2 DEF At
  <2>4. fd \in WatchedFds(epoll) /\ epoll.fulfiller[fd][s] = p
    BY <1>1, <2>1, <2>3 DEF Linked
  <2>5. p # Null
    BY <2>1, LoopAssumption
  <2> QED
    BY <1>3, <2>4, <2>5 DEF Watching
<1>5. \A p \in Live(mem) : ~mem.promises[p].pending
  <2>1. mem.asyncCallbacks = <<>> /\ Range(<<>>) = {}
    BY <1>2 DEF Updated, Range
  <2>2. {p \in Live(mem) : mem.promises[p].pending} = {}
    BY <1>1, <2>1 DEF QueueAgrees
  <2> QED
    BY <2>2
<1> DEFINE S == {p \in Live(mem) : ~mem.promises[p].fulfilled}
<1>6. S # {} => \E p \in S : Params(mem, p) \cap S = {}
  BY <1>1 DEF Grounded
<1>7. ASSUME NEW p \in S, Params(mem, p) \cap S = {} PROVE FALSE
  <2>1. Params(mem, p) # {}
    BY <1>1, <1>2, <1>4, <1>5 DEF Staged, StagedOf
  <2>2. Params(mem, p) \subseteq Live(mem)
    BY LoopInvFacts DEF Owned
  <2>3. OpenParams(mem, p, {}) = {}
    BY <1>7, <2>2 DEF OpenParams
  <2>4. mem.promises[p].pending
    BY <1>1, <2>1, <2>3 DEF Counted, CountedOf
  <2> QED
    BY <1>5, <2>4
<1> QED
  BY <1>6, <1>7

\* When the loop has ended, every promise is fulfilled: nothing is registered, so
\* nobody waits for a file; nothing is queued; and since no promise waits for
\* itself there would be one that waits only for fulfilled ones, which is queued
\* (os/EpollEventManager.cpp 197-200).
THEOREM NothingStaysForgotten == LoopSpec => []NothingIsForgotten
BY EventLoopInvariant, LoopInvForgets, PTL
=============================================================================
