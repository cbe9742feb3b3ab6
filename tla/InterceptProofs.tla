-------------------------- MODULE InterceptProofs --------------------------
(***************************************************************************)
(* Proofs about Intercept, for any threads, processes, calls and files:    *)
(* however the first calls of several threads interleave, the streams are  *)
(* opened once; and of the threads of a process at most one has a request  *)
(* under way on the call stream, and one waits for the answer to its own.  *)
(***************************************************************************)
EXTENDS Intercept, SequenceLemmas, TLAPS

\* The labels at which the call stream is locked, and the return stream.
Asking == {"ask", "handOver", "unlock"}
Reading == {"unlock", "read"}

OnceTypes ==
  /\ pc \in [Threads -> Labels]
  /\ control \in [Procs -> 0 .. 2]
  /\ opened \in [Procs -> Nat]
  /\ callLock \in [Procs -> Threads \cup {None}]
  /\ returnLock \in [Procs -> Threads \cup {None}]

\* init_once_control says whether the streams are open, and one thread at most is
\* opening them; who got to remap_file() has found it done.
SetUp ==
  /\ \A p \in Procs : opened[p] = IF control[p] = 2 THEN 1 ELSE 0
  /\ \A t \in Threads : pc[t] = "init" => control[ProcOf[t]] = 1
  /\ \A t, u \in Threads : pc[t] = "init" /\ pc[u] = "init" /\ ProcOf[t] = ProcOf[u] => t = u
  /\ \A t \in Threads : pc[t] \in Remapping => control[ProcOf[t]] = 2

LocksHeld ==
  \A t \in Threads : /\ pc[t] \in Asking <=> callLock[ProcOf[t]] = t
                     /\ pc[t] \in Reading <=> returnLock[ProcOf[t]] = t

IInv == OnceTypes /\ SetUp /\ LocksHeld

\* A thread goes from one label to another, and the once is as it was.
LEMMA MoveKeepsSetUp ==
  ASSUME IInv, NEW t \in Threads, NEW l \in Labels, GoTo(t, l), l # "init",
         l \in Remapping => control[ProcOf[t]] = 2, UNCHANGED <<control, opened>>
  PROVE  /\ pc' \in [Threads -> Labels]
         /\ control' \in [Procs -> 0 .. 2]
         /\ opened' \in [Procs -> Nat]
         /\ SetUp'
BY DEF IInv, OnceTypes, SetUp, GoTo

\* ... and it takes no lock and gives none back.
LEMMA MoveKeepsLocks ==
  ASSUME IInv, NEW t \in Threads, NEW l \in Labels, GoTo(t, l),
         pc[t] \in Asking <=> l \in Asking, pc[t] \in Reading <=> l \in Reading,
         UNCHANGED <<callLock, returnLock>>
  PROVE  /\ LocksHeld'
         /\ callLock' \in [Procs -> Threads \cup {None}]
         /\ returnLock' \in [Procs -> Threads \cup {None}]
BY DEF IInv, OnceTypes, LocksHeld, GoTo

LEMMA MoveKeeps ==
  ASSUME IInv, NEW t \in Threads, NEW l \in Labels, GoTo(t, l), l # "init",
         l \in Remapping => control[ProcOf[t]] = 2,
         pc[t] \in Asking <=> l \in Asking, pc[t] \in Reading <=> l \in Reading,
         UNCHANGED <<control, opened, callLock, returnLock>>
  PROVE  IInv'
BY MoveKeepsSetUp, MoveKeepsLocks DEF IInv, OnceTypes

\* Nothing that the invariant speaks of changes.
LEMMA NothingMoves ==
  ASSUME IInv, UNCHANGED <<pc, control, opened, callLock, returnLock>>
  PROVE  IInv'
BY DEF IInv, OnceTypes, SetUp, LocksHeld

\* A thread that finds the once not begun begins it.
LEMMA BeginningKeeps ==
  ASSUME IInv, NEW t \in Threads, pc[t] \in {"once", "mutex"}, control[ProcOf[t]] = 0,
         GoTo(t, "init"), control' = [control EXCEPT ![ProcOf[t]] = 1],
         UNCHANGED <<opened, callLock, returnLock>>
  PROVE  IInv'
<1>1. ProcOf[t] \in Procs /\ "init" \in Labels
  BY DEF Procs, Labels
<1>2. LocksHeld' /\ callLock' \in [Procs -> Threads \cup {None}]
                 /\ returnLock' \in [Procs -> Threads \cup {None}]
  BY <1>1, MoveKeepsLocks DEF Asking, Reading
<1>3. pc' \in [Threads -> Labels] /\ control' \in [Procs -> 0 .. 2] /\ opened' \in [Procs -> Nat]
  BY <1>1 DEF IInv, OnceTypes, GoTo
<1>4. SetUp'
  BY <1>1 DEF IInv, OnceTypes, SetUp, GoTo, Remapping, Procs
<1> QED
  BY <1>2, <1>3, <1>4 DEF IInv, OnceTypes

\* The label a thread goes to when remap_file() returns, or begins.
LEMMA EntryIsALabel ==
  ASSUME NEW p \in Procs
  PROVE  Entry(p) \in {"remap", "pointer"} /\ (Entry(p) = "remap" => control[p] = 2)
BY DEF Entry

LEMMA ReturnGoes ==
  ASSUME NEW t \in Threads, NEW r, Return(t, r)
  PROVE  \E l \in {"return", "remap", "pointer"} :
           GoTo(t, l) /\ (l = "remap" => control[ProcOf[t]] = 2)
<1>1. ProcOf[t] \in Procs
  BY DEF Procs
<1>2. GoTo(t, IF r.dir = "errno" \/ Len(got[t]) + 1 = Len(call[t].paths)
              THEN "return" ELSE Entry(ProcOf[t]))
  BY DEF Return
<1> QED
  BY <1>1, <1>2, EntryIsALabel

LEMMA BeginKeeps ==
  ASSUME IInv, NEW t \in Threads, NEW c \in CallsOf[t], Begin(t, c)
  PROVE  IInv'
<1>1. UNCHANGED <<control, opened, callLock, returnLock>> /\ pc[t] = "idle"
  BY DEF Begin, initVars, streamVars, At
<1>2. PICK l \in {"return", "remap", "pointer"} :
        GoTo(t, l) /\ (l = "remap" => control[ProcOf[t]] = 2)
  <2>1. CASE MakeDirectory(t, c) \/ FindDirectory(t, c)
    BY <2>1 DEF MakeDirectory, FindDirectory
  <2>2. CASE RemapFirst(t, c)
    <3>1. ProcOf[t] \in Procs
      BY DEF Procs
    <3> QED
      BY <2>2, <3>1, EntryIsALabel DEF RemapFirst
  <2> QED
    BY <2>1, <2>2 DEF Begin
<1> QED
  BY <1>1, <1>2, MoveKeeps DEF Labels, Asking, Reading, Remapping

LEMMA TestPointerKeeps ==
  ASSUME IInv, NEW t \in Threads, TestPointer(t)
  PROVE  IInv'
<1>1. UNCHANGED <<control, opened, callLock, returnLock>> /\ pc[t] = "pointer"
  BY DEF TestPointer, initVars, streamVars, At
<1>2. PICK l \in {"storeReal", "storeFake"} : GoTo(t, l)
  BY DEF TestPointer
<1> QED
  BY <1>1, <1>2, MoveKeeps DEF Labels, Asking, Reading, Remapping

LEMMA StorePointerKeeps ==
  ASSUME IInv, NEW t \in Threads, NEW which \in {"real", "fake"}, StorePointer(t, which)
  PROVE  IInv'
<1>1. UNCHANGED <<control, opened, callLock, returnLock>> /\ pc[t] \in {"storeReal", "storeFake"}
  BY DEF StorePointer, streamVars, At
<1>2. PICK l \in {"storeFake", "once"} : GoTo(t, l)
  BY DEF StorePointer
<1> QED
  BY <1>1, <1>2, MoveKeeps DEF Labels, Asking, Reading, Remapping

LEMMA CallOnceKeeps ==
  ASSUME IInv, NEW t \in Threads, CallOnce(t)
  PROVE  IInv'
<1>1. UNCHANGED <<opened, callLock, returnLock>> /\ pc[t] = "once"
  BY DEF CallOnce, streamVars, At
<1>2. CASE control[ProcOf[t]] = 2 /\ GoTo(t, "remap") /\ UNCHANGED control
  BY <1>1, <1>2, MoveKeeps DEF Labels, Asking, Reading
<1>3. CASE /\ control[ProcOf[t]] = 0 /\ GoTo(t, "init")
           /\ control' = [control EXCEPT ![ProcOf[t]] = 1]
  BY <1>1, <1>3, BeginningKeeps
<1>4. CASE GoTo(t, "mutex") /\ UNCHANGED control
  BY <1>1, <1>4, MoveKeeps DEF Labels, Asking, Reading, Remapping
<1> QED
  BY <1>2, <1>3, <1>4 DEF CallOnce

LEMMA FakeOnceKeeps ==
  ASSUME IInv, NEW t \in Threads, FakeOnce(t)
  PROVE  IInv'
<1>1. UNCHANGED <<opened, callLock, returnLock>> /\ pc[t] = "mutex"
  BY DEF FakeOnce, streamVars, At
<1>2. CASE /\ control[ProcOf[t]] = 0 /\ GoTo(t, "init")
           /\ control' = [control EXCEPT ![ProcOf[t]] = 1]
  BY <1>1, <1>2, BeginningKeeps
<1>3. CASE control[ProcOf[t]] = 2 /\ GoTo(t, "remap") /\ UNCHANGED control
  BY <1>1, <1>3, MoveKeeps DEF Labels, Asking, Reading
<1>4. CASE UNCHANGED <<pc, control>>
  BY <1>1, <1>4, NothingMoves
<1> QED
  BY <1>2, <1>3, <1>4 DEF FakeOnce

\* The thread that began the once ends it.
LEMMA InitStreamsKeeps ==
  ASSUME IInv, NEW t \in Threads, InitStreams(t)
  PROVE  IInv'
<1>1. /\ UNCHANGED <<callLock, returnLock>> /\ pc[t] = "init" /\ GoTo(t, "remap")
      /\ opened' = [opened EXCEPT ![ProcOf[t]] = @ + 1]
      /\ control' = [control EXCEPT ![ProcOf[t]] = 2]
  BY DEF InitStreams, streamVars, At
<1>2. ProcOf[t] \in Procs /\ "remap" \in Labels
  BY DEF Procs, Labels
<1>3. LocksHeld' /\ callLock' \in [Procs -> Threads \cup {None}]
                 /\ returnLock' \in [Procs -> Threads \cup {None}]
  BY <1>1, <1>2, MoveKeepsLocks DEF Asking, Reading
<1>4. pc' \in [Threads -> Labels] /\ control' \in [Procs -> 0 .. 2] /\ opened' \in [Procs -> Nat]
  BY <1>1, <1>2 DEF IInv, OnceTypes, GoTo
<1>5. SetUp'
  BY <1>1, <1>2 DEF IInv, OnceTypes, SetUp, GoTo, Remapping, Procs
<1> QED
  BY <1>3, <1>4, <1>5 DEF IInv, OnceTypes

LEMMA LookInCacheKeeps ==
  ASSUME IInv, NEW t \in Threads, LookInCache(t)
  PROVE  IInv'
<1>1. UNCHANGED <<control, opened, callLock, returnLock>> /\ pc[t] = "remap"
  BY DEF LookInCache, initVars, streamVars, At
<1>2. control[ProcOf[t]] = 2
  BY <1>1 DEF IInv, SetUp, Remapping
<1>3. \/ \E r : Return(t, r)
      \/ GoTo(t, "lock")
  BY DEF LookInCache
<1>4. PICK l \in {"return", "remap", "pointer", "lock"} : GoTo(t, l)
  BY <1>3, ReturnGoes
<1> QED
  BY <1>1, <1>2, <1>4, MoveKeeps DEF Labels, Asking, Reading, Remapping

\* A thread in remap_file() goes on, and the locks follow it.
LEMMA LockingKeeps ==
  ASSUME IInv, NEW t \in Threads, NEW l \in Labels, GoTo(t, l), l # "init",
         pc[t] \in Remapping, UNCHANGED <<control, opened>>,
         callLock' \in [Procs -> Threads \cup {None}],
         returnLock' \in [Procs -> Threads \cup {None}], LocksHeld'
  PROVE  IInv'
BY MoveKeepsSetUp DEF IInv, OnceTypes, SetUp

LEMMA LockCallKeeps ==
  ASSUME IInv, NEW t \in Threads, LockCall(t)
  PROVE  IInv'
<1>1. /\ UNCHANGED <<control, opened, returnLock>> /\ pc[t] = "lock" /\ GoTo(t, "ask")
      /\ callLock[ProcOf[t]] = None /\ callLock' = [callLock EXCEPT ![ProcOf[t]] = t]
  BY DEF LockCall, initVars, At
<1>2. ProcOf[t] \in Procs /\ "ask" \in Labels
  BY DEF Procs, Labels
<1>3. callLock' \in [Procs -> Threads \cup {None}] /\ returnLock' \in [Procs -> Threads \cup {None}]
  BY <1>1, <1>2 DEF IInv, OnceTypes
<1>4. LocksHeld'
  BY <1>1, <1>2, InterceptAssumption
     DEF IInv, OnceTypes, LocksHeld, GoTo, Procs, Asking, Reading
<1> QED
  BY <1>1, <1>2, <1>3, <1>4, LockingKeeps DEF Remapping

\* The call stream is unlocked by the thread that holds it.
LEMMA ReleaseKeepsLocks ==
  ASSUME IInv, NEW t \in Threads, NEW l \in Labels, GoTo(t, l), pc[t] \in Asking, l \notin Asking,
         pc[t] \in Reading <=> l \in Reading, ReleaseCall(ProcOf[t]), UNCHANGED returnLock
  PROVE  /\ LocksHeld'
         /\ callLock' \in [Procs -> Threads \cup {None}]
         /\ returnLock' \in [Procs -> Threads \cup {None}]
<1>1. ProcOf[t] \in Procs
  BY DEF Procs
<1>2. callLock' = [callLock EXCEPT ![ProcOf[t]] = None]
  BY DEF ReleaseCall
<1>3. callLock[ProcOf[t]] = t
  BY DEF IInv, LocksHeld
<1> QED
  BY <1>1, <1>2, <1>3, InterceptAssumption DEF IInv, OnceTypes, LocksHeld, GoTo, Procs

LEMMA AnswerHereKeeps ==
  ASSUME IInv, NEW t \in Threads, AnswerHere(t) \/ NoteInput(t)
  PROVE  IInv'
<1>1. UNCHANGED <<control, opened, returnLock>> /\ pc[t] = "ask" /\ ReleaseCall(ProcOf[t])
  BY DEF AnswerHere, NoteInput, initVars, At
<1>2. PICK l \in {"return", "remap", "pointer"} : GoTo(t, l)
  BY ReturnGoes DEF AnswerHere, NoteInput
<1>3. l \in Labels /\ l # "init"
  BY DEF Labels
<1>4. /\ LocksHeld'
      /\ callLock' \in [Procs -> Threads \cup {None}]
      /\ returnLock' \in [Procs -> Threads \cup {None}]
  BY <1>1, <1>2, <1>3, ReleaseKeepsLocks DEF Asking, Reading
<1> QED
  BY <1>1, <1>2, <1>3, <1>4, LockingKeeps DEF Remapping

LEMMA AskKeeps ==
  ASSUME IInv, NEW t \in Threads, Ask(t)
  PROVE  IInv'
<1>1. UNCHANGED <<control, opened, callLock, returnLock>> /\ pc[t] = "ask" /\ GoTo(t, "handOver")
  BY DEF Ask, initVars, streamVars, At
<1>2. control[ProcOf[t]] = 2
  BY <1>1 DEF IInv, SetUp, Remapping
<1> QED
  BY <1>1, <1>2, MoveKeeps DEF Labels, Asking, Reading

LEMMA LockReturnKeeps ==
  ASSUME IInv, NEW t \in Threads, LockReturn(t)
  PROVE  IInv'
<1>1. /\ UNCHANGED <<control, opened, callLock>> /\ pc[t] = "handOver" /\ GoTo(t, "unlock")
      /\ returnLock[ProcOf[t]] = None /\ returnLock' = [returnLock EXCEPT ![ProcOf[t]] = t]
  BY DEF LockReturn, initVars, At
<1>2. ProcOf[t] \in Procs /\ "unlock" \in Labels
  BY DEF Procs, Labels
<1>3. callLock' \in [Procs -> Threads \cup {None}] /\ returnLock' \in [Procs -> Threads \cup {None}]
  BY <1>1, <1>2 DEF IInv, OnceTypes
<1>4. LocksHeld'
  BY <1>1, <1>2, InterceptAssumption
     DEF IInv, OnceTypes, LocksHeld, GoTo, Procs, Asking, Reading
<1> QED
  BY <1>1, <1>2, <1>3, <1>4, LockingKeeps DEF Remapping

LEMMA UnlockCallKeeps ==
  ASSUME IInv, NEW t \in Threads, UnlockCall(t)
  PROVE  IInv'
<1>1. /\ UNCHANGED <<control, opened, returnLock>> /\ pc[t] = "unlock" /\ GoTo(t, "read")
      /\ ReleaseCall(ProcOf[t])
  BY DEF UnlockCall, initVars, At
<1>2. "read" \in Labels
  BY DEF Labels
<1>3. /\ LocksHeld'
      /\ callLock' \in [Procs -> Threads \cup {None}]
      /\ returnLock' \in [Procs -> Threads \cup {None}]
  BY <1>1, <1>2, ReleaseKeepsLocks DEF Asking, Reading
<1> QED
  BY <1>1, <1>2, <1>3, LockingKeeps DEF Remapping

LEMMA ReadAnswerKeeps ==
  ASSUME IInv, NEW t \in Threads, ReadAnswer(t)
  PROVE  IInv'
<1>1. /\ UNCHANGED <<control, opened, callLock>> /\ pc[t] = "read"
      /\ returnLock' = [returnLock EXCEPT ![ProcOf[t]] = None]
  BY DEF ReadAnswer, initVars, At
<1>2. PICK l \in {"return", "remap", "pointer", "store"} : GoTo(t, l)
  BY ReturnGoes DEF ReadAnswer
<1>3. ProcOf[t] \in Procs /\ l \in Labels /\ l # "init"
  BY DEF Procs, Labels
<1>4. callLock' \in [Procs -> Threads \cup {None}] /\ returnLock' \in [Procs -> Threads \cup {None}]
  BY <1>1, <1>3 DEF IInv, OnceTypes
<1>5. returnLock[ProcOf[t]] = t
  BY <1>1 DEF IInv, LocksHeld, Reading
<1>6. LocksHeld'
  BY <1>1, <1>2, <1>3, <1>5, InterceptAssumption
     DEF IInv, OnceTypes, LocksHeld, GoTo, Procs, Asking, Reading
<1> QED
  BY <1>1, <1>2, <1>3, <1>4, <1>6, LockingKeeps DEF Remapping

LEMMA CacheResultKeeps ==
  ASSUME IInv, NEW t \in Threads, CacheResult(t)
  PROVE  IInv'
<1>1. UNCHANGED <<control, opened, callLock, returnLock>> /\ pc[t] = "store"
  BY DEF CacheResult, initVars, streamVars, At
<1>2. ProcOf[t] \in Procs /\ control[ProcOf[t]] = 2
  BY <1>1 DEF IInv, SetUp, Remapping, Procs
<1>3. PICK l \in {"return", "remap", "pointer"} : GoTo(t, l)
  BY <1>2, EntryIsALabel DEF CacheResult
<1> QED
  BY <1>1, <1>2, <1>3, MoveKeeps DEF Labels, Asking, Reading

LEMMA FinishKeeps ==
  ASSUME IInv, NEW t \in Threads, Finish(t)
  PROVE  IInv'
<1>1. UNCHANGED <<control, opened, callLock, returnLock>> /\ pc[t] = "return" /\ GoTo(t, "idle")
  BY DEF Finish, initVars, streamVars, At
<1> QED
  BY <1>1, MoveKeeps DEF Labels, Asking, Reading, Remapping

-----------------------------------------------------------------------------

LEMMA NextKeeps ==
  ASSUME IInv, [Next]_vars
  PROVE  IInv'
<1>1. CASE UNCHANGED vars \/ Consume
  BY <1>1, NothingMoves DEF vars, Consume, initVars, streamVars
<1>2. ASSUME NEW t \in Threads, ThreadStep(t)
      PROVE  IInv'
  BY <1>2, TestPointerKeeps, StorePointerKeeps, CallOnceKeeps, FakeOnceKeeps, InitStreamsKeeps,
     LookInCacheKeeps, LockCallKeeps, AnswerHereKeeps, AskKeeps, LockReturnKeeps,
     UnlockCallKeeps, ReadAnswerKeeps, CacheResultKeeps, FinishKeeps
     DEF ThreadStep
<1>3. ASSUME NEW t \in Threads, NEW c \in CallsOf[t], Begin(t, c)
      PROVE  IInv'
  BY <1>3, BeginKeeps
<1> QED
  BY <1>1, <1>2, <1>3 DEF Next

\* The once and the two locks, whatever the threads of a process do
\* (ekam/rules/intercept.c 102-141, 503-608).
THEOREM Invariant == Spec => []IInv
<1>1. Init => IInv
  <2> SUFFICES ASSUME Init  PROVE IInv
    OBVIOUS
  <2>1. /\ pc = [t \in Threads |-> "idle"]
        /\ control = [p \in Procs |-> 0] /\ opened = [p \in Procs |-> 0]
        /\ callLock = [p \in Procs |-> None] /\ returnLock = [p \in Procs |-> None]
    BY DEF Init
  <2>2. \A t \in Threads : ProcOf[t] \in Procs /\ t # None
    BY InterceptAssumption DEF Procs
  <2>3. OnceTypes
    BY <2>1 DEF OnceTypes, Labels
  <2>4. SetUp
    BY <2>1, <2>2 DEF SetUp, Remapping
  <2>5. LocksHeld
    BY <2>1, <2>2 DEF LocksHeld, Asking, Reading
  <2> QED
    BY <2>3, <2>4, <2>5 DEF IInv
<1>2. IInv /\ [Next]_vars => IInv'
  BY NextKeeps
<1> QED
  BY <1>1, <1>2, PTL DEF Spec

\* init_streams_once() runs once in a process, and before any thread goes on, also
\* when dynamic_pthread_once changes under the threads that call through it.
THEOREM StreamsAreOpenedOnce == Spec => []StreamsOpenedOnce
<1>1. IInv => StreamsOpenedOnce
  <2> SUFFICES ASSUME IInv, NEW t \in Threads
               PROVE  /\ opened[ProcOf[t]] <= 1
                      /\ pc[t] \in Remapping => opened[ProcOf[t]] = 1
    BY DEF StreamsOpenedOnce
  <2>1. ProcOf[t] \in Procs
    BY DEF Procs
  <2> QED
    BY <2>1 DEF IInv, SetUp
<1> QED
  BY <1>1, Invariant, PTL

\* No two threads of a process are between flockfile(ekam_call_stream) and its
\* unlocking, nor between flockfile(ekam_return_stream) and the answer.
OneAtATime ==
  \A t, u \in Threads : t # u /\ ProcOf[t] = ProcOf[u] =>
    /\ ~(pc[t] \in Asking /\ pc[u] \in Asking)
    /\ ~(pc[t] \in Reading /\ pc[u] \in Reading)

\* One request, and one answer, is under way at a time in a process: a thread that
\* has locked the return stream is the only one to take what comes next out of it.
THEOREM StreamsAreExclusive == Spec => []OneAtATime
<1>1. IInv => OneAtATime
  BY DEF IInv, LocksHeld, OneAtATime
<1> QED
  BY <1>1, Invariant, PTL

-----------------------------------------------------------------------------
(***************************************************************************)
(* The answers.  The threads of one process may ask Ekam at the same time, *)
(* and what comes back does not say whose question it answers.             *)
(***************************************************************************)
SingleProcess == \A t, u \in Threads : ProcOf[t] = ProcOf[u]

\* Paths for which remap_file() asks and waits for an answer.
Asks(path) == path.kind \notin {"long", "abs", "deps"} /\ Unasked(path) = None

\* Ekam has answered this line, and cannot change its mind.
Settled(line) ==
  line \in DOMAIN known \/ (line.cmd = "findInput" /\ Written(line) \in DOMAIN known)

\* r was the answer to this line, and still is; only a file that was not there may
\* have been created since.
Given(line, r) ==
  /\ line.cmd # "newProvider"
  /\ IF r = NotFound
     THEN Answer(line) = NotFound \/ (line.cmd = "findInput" /\ Written(line) \in DOMAIN known)
     ELSE r = Answer(line) /\ Settled(line)

\* r is what remap_file() returns for the path.
Fits(path, r) ==
  IF path.kind = "long" THEN r = Errno("ENAMETOOLONG")
  ELSE IF Unasked(path) # None THEN r = Unasked(path)
  ELSE IF path.kind \in {"abs", "deps"} THEN r = Same(path)
  ELSE Given(Line(path), r)

\* A thread is at label l of call c, and has remapped the first paths of it.
ThreadIsRight(t, l, c, g) ==
  /\ l = "idle" => c = None /\ g = <<>>
  /\ l # "idle" => c \in CallsOf[t] /\ Len(g) <= Len(c.paths)
  /\ l \notin {"idle", "store", "return"} => Len(g) < Len(c.paths)
  /\ l \in {"lock", "ask"} => c.paths[Len(g) + 1].kind # "long"
  /\ l \in {"handOver", "unlock", "read"} => Asks(c.paths[Len(g) + 1])
  /\ l = "store" => /\ g # <<>> /\ g[Len(g)] # NotFound
                    /\ Asks(c.paths[Len(g)]) /\ Fits(c.paths[Len(g)], g[Len(g)])
  /\ \A i \in DOMAIN g : \/ Fits(c.paths[i], g[i])
                         \/ c.fn = "mkdir" /\ g[i].dir = "tmp"
                         \/ c.fn = "access" /\ InTree(c) /\ i = 1

AnswerTypes ==
  /\ oncePtr \in [Procs -> {None, "real", "fake"}]
  /\ onceMutex \in [Procs -> Threads \cup {None}]
  /\ gone \in [Procs -> {"", "assert", "pthread_once is broken", "killed"}]
  /\ call \in [Threads -> Calls \cup {None}]
  /\ got \in [Threads -> Seq(Results)]
  /\ requests \in Seq({Line(q) : q \in Paths})
  /\ answers \in Seq(Results)
  /\ readAhead \in [Procs -> Seq(Results)]
  /\ cache \in [Procs -> [usage : Usages, path : {Relative(q) : q \in Paths}, result : Results]
                           \cup {None}]

\* A file that is created is put under tmp/.
CreatedUnderTmp ==
  /\ \A l \in DOMAIN known : known[l] \in Results
  /\ \A l \in DOMAIN known : l.cmd = "newOutput" => known[l].dir = "tmp"

CacheIsRight ==
  \A p \in Procs : cache[p] # None =>
    Fits(cache[p].path, cache[p].result) /\ cache[p].result # NotFound

\* The lines that are to be answered, in this order: that of the thread that has
\* the return stream, and that of the one that waits for it.
OfReader(p) == IF returnLock[p] # None THEN <<Line(Path(returnLock[p]))>> ELSE <<>>
OfWriter(p) == IF callLock[p] # None /\ pc[callLock[p]] = "handOver"
               THEN <<Line(Path(callLock[p]))>> ELSE <<>>
Asked(p) == OfReader(p) \o OfWriter(p)

\* Of the lines, the first n are answered, and the others stand in the queue q in
\* this order, among lines that nobody waits for.
InOrder(lines, n, q) ==
  /\ n \in 0 .. Len(lines)
  /\ \E f \in [1 .. Len(lines) - n -> DOMAIN q] :
       /\ \A i, j \in DOMAIN f : i < j => f[i] < f[j]
       /\ \A i \in DOMAIN q : q[i].cmd # "noteInput" => \E k \in DOMAIN f : f[k] = i
       /\ \A k \in DOMAIN f : q[f[k]] = lines[n + k] /\ q[f[k]].cmd # "noteInput"

Returned(p) == readAhead[p] \o answers

NobodyIsOvertaken ==
  \A p \in Procs : gone[p] = "" =>
    /\ InOrder(Asked(p), Len(Returned(p)), requests)
    /\ \A k \in DOMAIN Returned(p) : Given(Asked(p)[k], Returned(p)[k])

Threaded == \A t \in Threads : ThreadIsRight(t, pc[t], call[t], got[t])

AInv == AnswerTypes /\ CreatedUnderTmp /\ CacheIsRight /\ NobodyIsOvertaken /\ Threaded
\* A line that is written to the pipe stands behind those that are there.
LEMMA AskedInOrder ==
  ASSUME NEW S, NEW lines \in Seq(S), NEW n, NEW q \in Seq(S), NEW line \in S,
         line.cmd # "noteInput", InOrder(lines, n, q)
  PROVE  InOrder(Append(lines, line), n, Append(q, line))
<1>1. PICK f \in [1 .. Len(lines) - n -> DOMAIN q] :
        /\ \A i, j \in DOMAIN f : i < j => f[i] < f[j]
        /\ \A i \in DOMAIN q : q[i].cmd # "noteInput" => \E k \in DOMAIN f : f[k] = i
        /\ \A k \in DOMAIN f : q[f[k]] = lines[n + k] /\ q[f[k]].cmd # "noteInput"
  BY DEF InOrder
<1> DEFINE m == Len(lines) - n
           g == [k \in 1 .. m + 1 |-> IF k = m + 1 THEN Len(q) + 1 ELSE f[k]]
           newLines == Append(lines, line)
           newQ == Append(q, line)
<1>2. n \in 0 .. Len(lines) /\ m \in Nat
  BY DEF InOrder
<1>3. /\ Len(newLines) = Len(lines) + 1 /\ Len(newQ) = Len(q) + 1
      /\ DOMAIN newQ = 1 .. Len(q) + 1 /\ DOMAIN q = 1 .. Len(q)
      /\ newLines[Len(lines) + 1] = line /\ newQ[Len(q) + 1] = line
      /\ \A i \in 1 .. Len(lines) : newLines[i] = lines[i]
      /\ \A i \in 1 .. Len(q) : newQ[i] = q[i]
  OBVIOUS
<1>4. /\ DOMAIN g = 1 .. m + 1 /\ DOMAIN f = 1 .. m /\ g[m + 1] = Len(q) + 1
      /\ \A k \in 1 .. m : g[k] = f[k] /\ f[k] \in 1 .. Len(q)
  <2>1. \A k \in 1 .. m : k \in 1 .. m + 1 /\ k # m + 1
    BY <1>2
  <2>2. m + 1 \in 1 .. m + 1
    BY <1>2
  <2>3. DOMAIN f = 1 .. m /\ \A k \in 1 .. m : f[k] \in 1 .. Len(q)
    BY <1>3
  <2> QED
    BY <2>1, <2>2, <2>3
<1>5. \A k \in 1 .. m + 1 : k = m + 1 \/ k \in 1 .. m
  BY <1>2
<1>6. g \in [1 .. m + 1 -> 1 .. Len(q) + 1]
  BY <1>2, <1>3
<1> HIDE DEF g, newLines, newQ
<1>7. m + 1 \in DOMAIN g /\ 1 .. m \subseteq DOMAIN g /\ Len(q) \in Nat
  BY <1>2, <1>4
<1>8. \A i, j \in DOMAIN g : i < j => g[i] < g[j]
  <2> SUFFICES ASSUME NEW i \in 1 .. m + 1, NEW j \in 1 .. m + 1, i < j  PROVE g[i] < g[j]
    BY <1>4
  <2>1. i \in 1 .. m
    BY <1>2
  <2>2. CASE j = m + 1
    BY <2>1, <2>2, <1>4, <1>7
  <2>3. CASE j \in 1 .. m
    BY <2>1, <2>3, <1>1, <1>4
  <2> QED
    BY <2>2, <2>3, <1>5
<1>9. \A i \in DOMAIN newQ : newQ[i].cmd # "noteInput" => \E k \in DOMAIN g : g[k] = i
  <2> SUFFICES ASSUME NEW i \in 1 .. Len(q) + 1, newQ[i].cmd # "noteInput"
               PROVE  \E k \in DOMAIN g : g[k] = i
    BY <1>3
  <2>1. CASE i = Len(q) + 1
    BY <2>1, <1>4, <1>7
  <2>2. CASE i \in 1 .. Len(q)
    BY <2>2, <1>1, <1>3, <1>4, <1>7
  <2> QED
    BY <2>1, <2>2, <1>7
<1>10. \A k \in DOMAIN g : newQ[g[k]] = newLines[n + k] /\ newQ[g[k]].cmd # "noteInput"
  <2> SUFFICES ASSUME NEW k \in 1 .. m + 1
               PROVE  newQ[g[k]] = newLines[n + k] /\ newQ[g[k]].cmd # "noteInput"
    BY <1>4
  <2>1. CASE k = m + 1
    <3>1. n + k = Len(lines) + 1
      BY <2>1, <1>2
    <3> QED
      BY <2>1, <3>1, <1>3, <1>4
  <2>2. CASE k \in 1 .. m
    <3>1. n + k \in 1 .. Len(lines)
      BY <2>2, <1>2
    <3> QED
      BY <2>2, <3>1, <1>1, <1>3, <1>4
  <2> QED
    BY <2>1, <2>2, <1>5
<1>11. n \in 0 .. Len(newLines) /\ Len(newLines) - n = m + 1 /\ DOMAIN newQ = 1 .. Len(q) + 1
  BY <1>2, <1>3
<1>12. InOrder(newLines, n, newQ)
  BY <1>6, <1>8, <1>9, <1>10, <1>11 DEF InOrder
<1> QED
  BY <1>12 DEF newQ, newLines

\* One that nobody waits for changes nothing, when it comes and when it is read.
LEMMA NotedInOrder ==
  ASSUME NEW S, NEW lines \in Seq(S), NEW n, NEW q \in Seq(S), NEW line \in S,
         line.cmd = "noteInput", InOrder(lines, n, q)
  PROVE  InOrder(lines, n, Append(q, line))
<1>1. PICK f \in [1 .. Len(lines) - n -> DOMAIN q] :
        /\ \A i, j \in DOMAIN f : i < j => f[i] < f[j]
        /\ \A i \in DOMAIN q : q[i].cmd # "noteInput" => \E k \in DOMAIN f : f[k] = i
        /\ \A k \in DOMAIN f : q[f[k]] = lines[n + k] /\ q[f[k]].cmd # "noteInput"
  BY DEF InOrder
<1> DEFINE newQ == Append(q, line)
<1>2. /\ DOMAIN newQ = 1 .. Len(q) + 1 /\ DOMAIN q = 1 .. Len(q) /\ Len(q) \in Nat
      /\ newQ[Len(q) + 1] = line
      /\ \A i \in 1 .. Len(q) : newQ[i] = q[i]
  OBVIOUS
<1> HIDE DEF newQ
<1>3. f \in [1 .. Len(lines) - n -> DOMAIN newQ]
  BY <1>2
<1>4. \A i \in DOMAIN newQ : newQ[i].cmd # "noteInput" => \E k \in DOMAIN f : f[k] = i
  BY <1>1, <1>2
<1>5. \A k \in DOMAIN f : newQ[f[k]] = lines[n + k] /\ newQ[f[k]].cmd # "noteInput"
  <2> SUFFICES ASSUME NEW k \in DOMAIN f
               PROVE  newQ[f[k]] = lines[n + k] /\ newQ[f[k]].cmd # "noteInput"
    OBVIOUS
  <2>1. f[k] \in 1 .. Len(q)
    BY <1>2
  <2> QED
    BY <2>1, <1>1, <1>2
<1> QED
  BY <1>1, <1>3, <1>4, <1>5 DEF InOrder, newQ

LEMMA NoteReadInOrder ==
  ASSUME NEW S, NEW lines \in Seq(S), NEW n, NEW q \in Seq(S), q # <<>>,
         Head(q).cmd = "noteInput", InOrder(lines, n, q)
  PROVE  InOrder(lines, n, Tail(q))
<1>1. PICK f \in [1 .. Len(lines) - n -> DOMAIN q] :
        /\ \A i, j \in DOMAIN f : i < j => f[i] < f[j]
        /\ \A i \in DOMAIN q : q[i].cmd # "noteInput" => \E k \in DOMAIN f : f[k] = i
        /\ \A k \in DOMAIN f : q[f[k]] = lines[n + k] /\ q[f[k]].cmd # "noteInput"
  BY DEF InOrder
<1> DEFINE newQ == Tail(q)
           g == [k \in 1 .. Len(lines) - n |-> f[k] - 1]
<1>2. /\ DOMAIN newQ = 1 .. Len(q) - 1 /\ DOMAIN q = 1 .. Len(q) /\ Len(q) \in Nat \ {0}
      /\ Head(q) = q[1]
      /\ \A i \in 1 .. Len(q) - 1 : newQ[i] = q[i + 1]
  OBVIOUS
<1> HIDE DEF newQ
<1>3. \A k \in DOMAIN f : f[k] \in 2 .. Len(q)
  BY <1>1, <1>2
<1>4. g \in [1 .. Len(lines) - n -> DOMAIN newQ] /\ \A i, j \in DOMAIN g : i < j => g[i] < g[j]
  BY <1>1, <1>2, <1>3
<1>5. \A i \in DOMAIN newQ : newQ[i].cmd # "noteInput" => \E k \in DOMAIN g : g[k] = i
  <2> SUFFICES ASSUME NEW i \in DOMAIN newQ, newQ[i].cmd # "noteInput"
               PROVE  \E k \in DOMAIN g : g[k] = i
    OBVIOUS
  <2>1. i + 1 \in DOMAIN q /\ q[i + 1].cmd # "noteInput" /\ i \in Nat
    BY <1>2
  <2>2. PICK k \in DOMAIN f : f[k] = i + 1
    BY <2>1, <1>1
  <2>3. k \in DOMAIN g /\ g[k] = i
    BY <2>1, <2>2
  <2> QED
    BY <2>3
<1>6. \A k \in DOMAIN g : newQ[g[k]] = lines[n + k] /\ newQ[g[k]].cmd # "noteInput"
  <2> SUFFICES ASSUME NEW k \in DOMAIN g
               PROVE  newQ[g[k]] = lines[n + k] /\ newQ[g[k]].cmd # "noteInput"
    OBVIOUS
  <2>1. k \in DOMAIN f /\ g[k] = f[k] - 1 /\ g[k] \in 1 .. Len(q) - 1 /\ g[k] + 1 = f[k]
    BY <1>2, <1>3
  <2>2. newQ[g[k]] = q[g[k] + 1]
    BY <2>1, <1>2
  <2> HIDE DEF g
  <2> QED
    BY <2>1, <2>2, <1>1
<1> HIDE DEF g
<1> QED
  BY <1>4, <1>5, <1>6 DEF InOrder, newQ

\* The first line that is read and answered is the first that is not answered yet.
LEMMA AnsweredInOrder ==
  ASSUME NEW S, NEW lines \in Seq(S), NEW n, NEW q \in Seq(S), q # <<>>,
         Head(q).cmd # "noteInput", InOrder(lines, n, q)
  PROVE  n + 1 \in DOMAIN lines /\ lines[n + 1] = Head(q) /\ InOrder(lines, n + 1, Tail(q))
<1>1. PICK f \in [1 .. Len(lines) - n -> DOMAIN q] :
        /\ \A i, j \in DOMAIN f : i < j => f[i] < f[j]
        /\ \A i \in DOMAIN q : q[i].cmd # "noteInput" => \E k \in DOMAIN f : f[k] = i
        /\ \A k \in DOMAIN f : q[f[k]] = lines[n + k] /\ q[f[k]].cmd # "noteInput"
  BY DEF InOrder
<1> DEFINE newQ == Tail(q)
           g == [k \in 1 .. Len(lines) - (n + 1) |-> f[k + 1] - 1]
<1>2. /\ DOMAIN newQ = 1 .. Len(q) - 1 /\ DOMAIN q = 1 .. Len(q) /\ Len(q) \in Nat \ {0}
      /\ Head(q) = q[1]
      /\ \A i \in 1 .. Len(q) - 1 : newQ[i] = q[i + 1]
      /\ n \in 0 .. Len(lines) /\ Len(lines) \in Nat /\ DOMAIN lines = 1 .. Len(lines)
  BY DEF InOrder
<1> HIDE DEF newQ
<1>a. 1 \in DOMAIN q /\ q[1].cmd # "noteInput"
  BY <1>2
<1>b. DOMAIN f = 1 .. Len(lines) - n /\ \A k \in DOMAIN f : f[k] \in 1 .. Len(q)
  BY <1>2
<1>3. PICK one \in DOMAIN f : f[one] = 1
  BY <1>1, <1>a
<1>4. one = 1
  <2>1. 1 \in DOMAIN f /\ (one # 1 => 1 < one)
    BY <1>b, <1>2
  <2>2. f[1] \in 1 .. Len(q)
    BY <2>1, <1>b
  <2> QED
    BY <2>1, <2>2, <1>1, <1>2, <1>3
<1>5. n + 1 \in DOMAIN lines /\ lines[n + 1] = Head(q)
  BY <1>1, <1>2, <1>3, <1>4, <1>b
<1>6. \A k \in 2 .. Len(lines) - n : f[k] \in 2 .. Len(q)
  <2> SUFFICES ASSUME NEW k \in 2 .. Len(lines) - n  PROVE f[k] \in 2 .. Len(q)
    OBVIOUS
  <2>1. k \in DOMAIN f /\ 1 < k
    BY <1>b, <1>2
  <2>2. f[1] < f[k] /\ f[k] \in 1 .. Len(q)
    BY <2>1, <1>1, <1>3, <1>4, <1>b
  <2> QED
    BY <2>2, <1>3, <1>4, <1>2
<1>7. g \in [1 .. Len(lines) - (n + 1) -> DOMAIN newQ]
  <2> SUFFICES ASSUME NEW k \in 1 .. Len(lines) - (n + 1)  PROVE f[k + 1] - 1 \in DOMAIN newQ
    OBVIOUS
  <2>1. k + 1 \in 2 .. Len(lines) - n
    BY <1>2
  <2>2. f[k + 1] \in 2 .. Len(q)
    BY <1>6, <2>1
  <2> QED
    BY <1>2, <2>2
<1>8. \A i, j \in DOMAIN g : i < j => g[i] < g[j]
  <2> SUFFICES ASSUME NEW i \in DOMAIN g, NEW j \in DOMAIN g, i < j  PROVE g[i] < g[j]
    OBVIOUS
  <2>1. i + 1 \in DOMAIN f /\ j + 1 \in DOMAIN f /\ i + 1 < j + 1
    BY <1>2, <1>b
  <2>2. f[i + 1] < f[j + 1]
    BY <2>1, <1>1
  <2>3. f[i + 1] \in Nat /\ f[j + 1] \in Nat
    BY <2>1, <1>b, <1>2
  <2> QED
    BY <2>2, <2>3
<1>9. \A i \in DOMAIN newQ : newQ[i].cmd # "noteInput" => \E k \in DOMAIN g : g[k] = i
  <2> SUFFICES ASSUME NEW i \in DOMAIN newQ, newQ[i].cmd # "noteInput"
               PROVE  \E k \in DOMAIN g : g[k] = i
    OBVIOUS
  <2>1. i + 1 \in DOMAIN q /\ q[i + 1].cmd # "noteInput" /\ i \in Nat /\ i > 0
    BY <1>2
  <2>2. PICK k \in DOMAIN f : f[k] = i + 1
    BY <2>1, <1>1
  <2>3. k # 1
    BY <2>1, <2>2, <1>3, <1>4
  <2>4. k - 1 \in DOMAIN g /\ g[k - 1] = i
    BY <2>1, <2>2, <2>3, <1>b, <1>2
  <2> QED
    BY <2>4
<1>10. \A k \in DOMAIN g : newQ[g[k]] = lines[n + 1 + k] /\ newQ[g[k]].cmd # "noteInput"
  <2> SUFFICES ASSUME NEW k \in DOMAIN g
               PROVE  newQ[g[k]] = lines[n + 1 + k] /\ newQ[g[k]].cmd # "noteInput"
    OBVIOUS
  <2>1. k + 1 \in DOMAIN f /\ g[k] \in 1 .. Len(q) - 1 /\ g[k] + 1 = f[k + 1]
        /\ n + (k + 1) = n + 1 + k
    BY <1>2, <1>b, <1>6
  <2>2. newQ[g[k]] = q[g[k] + 1]
    BY <2>1, <1>2
  <2> HIDE DEF g
  <2> QED
    BY <2>1, <2>2, <1>1
<1> HIDE DEF g
<1>11. n + 1 \in 0 .. Len(lines)
  BY <1>2, <1>5
<1> QED
  BY <1>5, <1>7, <1>8, <1>9, <1>10, <1>11 DEF InOrder, newQ

\* Whoever takes the first answer leaves the others to those that wait.
LEMMA TakenInOrder ==
  ASSUME NEW S, NEW lines \in Seq(S), NEW n, NEW q \in Seq(S), n # 0, InOrder(lines, n, q)
  PROVE  InOrder(Tail(lines), n - 1, q)
<1>1. PICK f \in [1 .. Len(lines) - n -> DOMAIN q] :
        /\ \A i, j \in DOMAIN f : i < j => f[i] < f[j]
        /\ \A i \in DOMAIN q : q[i].cmd # "noteInput" => \E k \in DOMAIN f : f[k] = i
        /\ \A k \in DOMAIN f : q[f[k]] = lines[n + k] /\ q[f[k]].cmd # "noteInput"
  BY DEF InOrder
<1> DEFINE rest == Tail(lines)
<1>2. n \in 1 .. Len(lines) /\ Len(lines) \in Nat
  BY DEF InOrder
<1>3. Len(rest) = Len(lines) - 1 /\ \A i \in 1 .. Len(lines) - 1 : rest[i] = lines[i + 1]
  BY <1>2
<1> HIDE DEF rest
<1>4. Len(rest) - (n - 1) = Len(lines) - n /\ n - 1 \in 0 .. Len(rest)
  BY <1>2, <1>3
<1>5. \A k \in DOMAIN f : rest[n - 1 + k] = lines[n + k]
  <2> SUFFICES ASSUME NEW k \in 1 .. Len(lines) - n  PROVE rest[n - 1 + k] = lines[n + k]
    BY <1>1
  <2>1. n - 1 + k \in 1 .. Len(lines) - 1 /\ (n - 1 + k) + 1 = n + k
    BY <1>2
  <2> QED
    BY <2>1, <1>3
<1>6. f \in [1 .. Len(rest) - (n - 1) -> DOMAIN q]
  BY <1>4
<1>7. \A k \in DOMAIN f : q[f[k]] = rest[n - 1 + k] /\ q[f[k]].cmd # "noteInput"
  BY <1>1, <1>5
<1>8. InOrder(rest, n - 1, q)
  BY <1>1, <1>4, <1>6, <1>7 DEF InOrder
<1> QED
  BY <1>8 DEF rest

\* The paths that remap_file() is called with.
LEMMA PathsAreTyped ==
  /\ Paths \subseteq PathType
  /\ \A t \in Threads : \A c \in CallsOf[t] :
       c \in Calls /\ c.paths \in Seq(Paths) /\ c.paths # <<>>
<1>1. \A t \in Threads : \A c \in CallsOf[t] : c \in Calls
  BY InterceptAssumption DEF Calls
<1>2. \A d \in Calls : d.paths \in Seq(PathType) /\ d.paths # <<>>
  BY CallsAssumption DEF Calls
<1>3. \A d \in Calls : \A i \in DOMAIN d.paths : d.paths[i] \in Paths
  BY DEF Paths
<1>4. \A d \in Calls : d.paths \in Seq(Paths)
  <2> SUFFICES ASSUME NEW d \in Calls  PROVE d.paths \in Seq(Paths)
    OBVIOUS
  <2>1. d.paths \in Seq(PathType)
    BY <1>2
  <2>2. \A i \in 1 .. Len(d.paths) : d.paths[i] \in Paths
    BY <1>3, <2>1
  <2> QED
    BY <2>1, <2>2
<1>5. Paths \subseteq PathType
  <2> SUFFICES ASSUME NEW q \in Paths  PROVE q \in PathType
    OBVIOUS
  <2>1. PICK d \in Calls : \E i \in DOMAIN d.paths : q = d.paths[i]
    BY DEF Paths
  <2>2. d.paths \in Seq(PathType)
    BY <1>2
  <2> QED
    BY <2>1, <2>2
<1> QED
  BY <1>1, <1>2, <1>4, <1>5

\* consume() answers a line, and remembers what it has to.
Learns(line) == known' = known \/ known' = Remember(line)

LEMMA KnownGrows ==
  ASSUME NEW line, Learns(line)
  PROVE  /\ DOMAIN known \subseteq DOMAIN known'
         /\ \A l \in DOMAIN known : known'[l] = known[l]
         /\ \A l \in DOMAIN known' : l \in DOMAIN known \/ (l = line /\ known'[l] = Answer(line))
<1>1. CASE known' = known
  BY <1>1
<1>2. CASE known' = [l \in DOMAIN known \cup {line} |-> IF l = line THEN Answer(line) ELSE known[l]]
  <2>1. line \in DOMAIN known => Answer(line) = known[line]
    BY DEF Answer
  <2> QED
    BY <1>2, <2>1
<1> QED
  BY <1>1, <1>2 DEF Learns, Remember

\* A line is a record of this kind.
IsLine(line) == line = [cmd |-> line.cmd, name |-> line.name]

LEMMA AnswerLasts ==
  ASSUME NEW line, NEW l, Learns(l), Settled(line)
  PROVE  Settled(line)' /\ Answer(line)' = Answer(line)
<1>1. /\ DOMAIN known \subseteq DOMAIN known'
      /\ \A k \in DOMAIN known : known'[k] = known[k]
      /\ \A k \in DOMAIN known' : k \in DOMAIN known \/ (k = l /\ known'[k] = Answer(l))
  BY KnownGrows
<1>2. Settled(line)'
  BY <1>1 DEF Settled
<1>3. CASE line \in DOMAIN known
  BY <1>1, <1>2, <1>3 DEF Answer
<1>4. CASE line \notin DOMAIN known /\ line \in DOMAIN known'
  BY <1>1, <1>2, <1>4 DEF Answer
<1>5. CASE line \notin DOMAIN known /\ line \notin DOMAIN known'
  <2>1. line.cmd = "findInput" /\ Written(line) \in DOMAIN known /\ Written(line) \in DOMAIN known'
    BY <1>1, <1>5 DEF Settled
  <2>2. known'[Written(line)] = known[Written(line)]
    BY <1>1, <2>1
  <2> QED
    BY <1>2, <1>5, <2>1, <2>2 DEF Answer
<1> QED
  BY <1>2, <1>3, <1>4, <1>5

LEMMA GivenLasts ==
  ASSUME NEW line, NEW r, NEW l, IsLine(l), Learns(l), Given(line, r)
  PROVE  Given(line, r)'
<1>1. /\ DOMAIN known \subseteq DOMAIN known'
      /\ \A k \in DOMAIN known : known'[k] = known[k]
      /\ \A k \in DOMAIN known' : k \in DOMAIN known \/ (k = l /\ known'[k] = Answer(l))
  BY KnownGrows
<1>2. CASE r # NotFound
  BY <1>2, AnswerLasts DEF Given
<1>3. CASE line.cmd = "findInput" /\ Written(line) \in DOMAIN known'
  BY <1>1, <1>2, <1>3 DEF Given
<1>4. CASE Settled(line) /\ r = NotFound
  BY <1>1, <1>4, AnswerLasts DEF Given
<1>5. CASE ~Settled(line) /\ r = NotFound /\ ~(line.cmd = "findInput" /\ Written(line) \in DOMAIN known')
  <2>1. Answer(line) = NotFound /\ line \notin DOMAIN known
    BY <1>5, <1>1 DEF Given, Settled
  <2>2. CASE line \in DOMAIN known'
    <3>1. known'[line] = NotFound
      BY <1>1, <2>1, <2>2
    <3>2. Answer(line)' = NotFound
      BY <2>2, <3>1 DEF Answer
    <3> QED
      BY <3>2, <1>5 DEF Given
  <2>3. CASE line \notin DOMAIN known'
    <3>1. Answer(line)' = NotFound
      BY <1>5, <2>1, <2>3 DEF Answer, Settled
    <3> QED
      BY <3>1, <1>5 DEF Given
  <2> QED
    BY <2>2, <2>3
<1> QED
  BY <1>2, <1>3, <1>4, <1>5

LEMMA FitsLasts ==
  ASSUME NEW path, NEW r, NEW l, IsLine(l), Learns(l), Fits(path, r)
  PROVE  Fits(path, r)'
<1>1. Given(Line(path), r) => Given(Line(path), r)'
  BY GivenLasts
<1> QED
  BY <1>1 DEF Fits, Unasked, Same, Errno, Found

\* What remap_file() returns is a result.
LEMMA ResultsAreTyped ==
  ASSUME NEW path \in Paths
  PROVE  /\ Errno("ENAMETOOLONG") \in Results
         /\ Unasked(path) # None => Unasked(path) \in Results
         /\ Same(path) \in Results
         /\ NotFound \in Results
         /\ path.kind # "tag" => \A dir \in {"src", "tmp"} : Found(dir, CanonicalizePath(path.parts)) \in Results
<1> DEFINE Names == {p.parts : p \in Paths} \cup {AskedName(p) : p \in Paths}
                   \cup {<<>>, <<".">>} \cup {<<e>> : e \in {"ENOENT", "EACCES", "ENAMETOOLONG"}}
<1>1. \A dir \in {"src", "tmp", "same", "errno"} : \A name \in Names : Found(dir, name) \in Results
  BY DEF Found, Results
<1>2. /\ path.parts \in Names /\ AskedName(path) \in Names /\ <<>> \in Names /\ <<".">> \in Names
      /\ <<"ENOENT">> \in Names /\ <<"EACCES">> \in Names /\ <<"ENAMETOOLONG">> \in Names
  OBVIOUS
<1> HIDE DEF Names
<1>3. path.kind # "tag" => AskedName(path) = CanonicalizePath(path.parts)
  BY DEF AskedName
<1>4. Unasked(path) \in {Found("same", <<".">>), Found("src", <<>>), Same(path), Errno("EACCES"), None}
  BY DEF Unasked
<1> QED
  BY <1>1, <1>2, <1>3, <1>4 DEF Same, Errno, NotFound

\* A path below the current directory stands for the same file as the path that is
\* left of it.
LEMMA FitsRelative ==
  ASSUME NEW path \in PathType, NEW r, Fits(path, r)
  PROVE  Fits(Relative(path), r)
<1>1. CASE path.kind # "cwd"
  BY <1>1 DEF Relative
<1>2. CASE path.kind = "cwd"
  <2> DEFINE rel == File("rel", path.parts, path.usage)
  <2>1. rel.kind = "rel" /\ rel.parts = path.parts /\ rel.usage = path.usage
    BY DEF File
  <2> HIDE DEF rel
  <2>2. AskedName(rel) = AskedName(path)
    BY <1>2, <2>1 DEF AskedName
  <2>3. Unasked(rel) = Unasked(path)
    BY <1>2, <2>1, <2>2 DEF Unasked
  <2>4. Line(rel) = Line(path)
    BY <1>2, <2>1, <2>2 DEF Line
  <2>5. Fits(rel, r)
    BY <1>2, <2>1, <2>3, <2>4 DEF Fits
  <2> QED
    BY <1>2, <2>5 DEF Relative, rel
<1> QED
  BY <1>1, <1>2

\* What a line of the pipe is.
LEMMA LinesAreTyped ==
  ASSUME NEW path \in Paths
  PROVE  /\ IsLine(Line(path))
         /\ Line(path).cmd \in {"findProvider", "newProvider", "noteInput", "findInput", "newOutput"}
         /\ Line(path).name = AskedName(path)
         /\ Line(path).cmd = "noteInput" <=> path.kind \in {"abs", "deps"}
BY DEF Line, IsLine

LEMMA AnswerIsTyped ==
  ASSUME AnswerTypes, CreatedUnderTmp, NEW path \in Paths
  PROVE  /\ Answer(Line(path)) \in Results
         /\ Line(path).cmd = "newOutput" => Answer(Line(path)).dir = "tmp"
<1>1. \A dir \in {"src", "tmp"} : Found(dir, Line(path).name) \in Results
  BY LinesAreTyped DEF Found, Results
<1>2. NotFound \in Results
  BY ResultsAreTyped
<1> QED
  BY <1>1, <1>2 DEF Answer, CreatedUnderTmp, Found

-----------------------------------------------------------------------------
\* Threads.
LEMMA RightLasts ==
  ASSUME NEW t, NEW l, NEW c, NEW g, NEW line, IsLine(line), Learns(line),
         ThreadIsRight(t, l, c, g)
  PROVE  ThreadIsRight(t, l, c, g)'
<1>1. \A path, r : Fits(path, r) => Fits(path, r)'
  BY FitsLasts
<1> QED
  BY <1>1 DEF ThreadIsRight

LEMMA ThreadsLearn ==
  ASSUME Threaded, NEW line, IsLine(line), Learns(line), UNCHANGED <<pc, call, got>>
  PROVE  Threaded'
<1> SUFFICES ASSUME NEW t \in Threads  PROVE ThreadIsRight(t, pc[t], call[t], got[t])'
  BY DEF Threaded
<1>1. PICK l, c, g : l = pc[t] /\ c = call[t] /\ g = got[t]
  OBVIOUS
<1>2. ThreadIsRight(t, l, c, g)'
  BY <1>1, RightLasts DEF Threaded
<1>3. l = pc'[t] /\ c = call'[t] /\ g = got'[t]
  BY <1>1
<1> QED
  BY <1>2, <1>3

LEMMA ThreadMoves ==
  ASSUME AInv, IInv, NEW t \in Threads, NEW l \in Labels, NEW c \in Calls \cup {None},
         NEW g \in Seq(Results), GoTo(t, l), call' = [call EXCEPT ![t] = c],
         got' = [got EXCEPT ![t] = g], known' = known, ThreadIsRight(t, l, c, g)
  PROVE  /\ call' \in [Threads -> Calls \cup {None}]
         /\ got' \in [Threads -> Seq(Results)]
         /\ Threaded'
<1>1. call' \in [Threads -> Calls \cup {None}] /\ got' \in [Threads -> Seq(Results)]
  BY DEF AInv, AnswerTypes
<1>2. /\ pc'[t] = l /\ call'[t] = c /\ got'[t] = g
      /\ \A u \in Threads \ {t} : pc'[u] = pc[u] /\ call'[u] = call[u] /\ got'[u] = got[u]
  BY DEF AInv, AnswerTypes, IInv, OnceTypes, GoTo
<1> DEFINE line == [cmd |-> "", name |-> ""]
<1>3. IsLine(line) /\ Learns(line)
  BY DEF IsLine, Learns
<1> HIDE DEF line
<1>4. ASSUME NEW u \in Threads  PROVE ThreadIsRight(u, pc[u], call[u], got[u])'
  <2>1. PICK m, d, h : m = pc'[u] /\ d = call'[u] /\ h = got'[u]
    OBVIOUS
  <2>2. ThreadIsRight(u, m, d, h)
    BY <1>2, <2>1 DEF AInv, Threaded
  <2>3. ThreadIsRight(u, m, d, h)'
    BY <1>3, <2>2, RightLasts
  <2> QED
    BY <2>1, <2>3
<1> QED
  BY <1>1, <1>4 DEF Threaded

-----------------------------------------------------------------------------
\* Who waits.
Waiting == {"handOver", "unlock", "read"}
Lines == {Line(q) : q \in Paths}

LEMMA ThreadsPath ==
  ASSUME AInv, NEW t \in Threads, pc[t] \notin {"idle", "store", "return"}
  PROVE  /\ call[t] \in CallsOf[t] /\ call[t] \in Calls
         /\ got[t] \in Seq(Results) /\ Len(got[t]) < Len(call[t].paths)
         /\ Path(t) \in Paths /\ Path(t) \in PathType /\ Path(t) = call[t].paths[Len(got[t]) + 1]
<1>1. ThreadIsRight(t, pc[t], call[t], got[t])
  BY DEF AInv, Threaded
<1>2. call[t] \in CallsOf[t] /\ Len(got[t]) < Len(call[t].paths)
  BY <1>1 DEF ThreadIsRight
<1>3. got[t] \in Seq(Results)
  BY DEF AInv, AnswerTypes
<1>4. call[t] \in Calls /\ call[t].paths \in Seq(Paths) /\ Paths \subseteq PathType
  BY <1>2, PathsAreTyped
<1>5. Len(got[t]) + 1 \in 1 .. Len(call[t].paths)
  BY <1>2, <1>3, <1>4
<1> QED
  BY <1>2, <1>3, <1>4, <1>5 DEF Path

LEMMA AskedIsTyped ==
  ASSUME AInv, IInv, SingleProcess, NEW p \in Procs
  PROVE  /\ Asked(p) \in Seq(Lines)
         /\ requests \in Seq(Lines)
<1>1. PICK v \in Threads : ProcOf[v] = p
  BY DEF Procs
<1>2. /\ callLock[p] \in Threads \cup {None} /\ returnLock[p] \in Threads \cup {None}
  BY DEF IInv, OnceTypes
<1>3. ASSUME returnLock[p] # None  PROVE Line(Path(returnLock[p])) \in Lines
  <2>1. PICK u \in Threads : u = returnLock[p]
    BY <1>2, <1>3
  <2>2. ProcOf[u] = p
    BY <1>1 DEF SingleProcess
  <2>3. pc[u] \in Reading
    BY <2>1, <2>2 DEF IInv, LocksHeld
  <2> QED
    BY <2>1, <2>3, ThreadsPath DEF Lines, Reading
<1>4. ASSUME callLock[p] # None, pc[callLock[p]] = "handOver"  PROVE Line(Path(callLock[p])) \in Lines
  BY <1>2, <1>4, ThreadsPath DEF Lines
<1>5. requests \in Seq(Lines)
  BY DEF AInv, AnswerTypes, Lines
<1>6. <<>> \in Seq(Lines)
  OBVIOUS
<1> QED
  BY <1>3, <1>4, <1>5, <1>6 DEF Asked, OfReader, OfWriter

LEMMA AskedKept ==
  ASSUME AInv, IInv, SingleProcess, NEW t \in Threads, NEW l \in Labels, GoTo(t, l),
         pc[t] \notin Waiting, l \notin Waiting,
         \A u \in Threads \ {t} : call'[u] = call[u] /\ got'[u] = got[u],
         UNCHANGED returnLock,
         \A p \in Procs : callLock'[p] = callLock[p] \/ {callLock[p], callLock'[p]} \subseteq {t, None},
         NEW p \in Procs
  PROVE  Asked(p)' = Asked(p)
<1>1. /\ callLock[p] \in Threads \cup {None} /\ returnLock[p] \in Threads \cup {None}
      /\ None \notin Threads
  BY InterceptAssumption DEF IInv, OnceTypes
<1>2. pc'[t] = l /\ \A u \in Threads \ {t} : pc'[u] = pc[u]
  BY DEF IInv, OnceTypes, GoTo
<1>3. returnLock[p] # None => returnLock[p] \in Threads \ {t}
  <2> SUFFICES ASSUME returnLock[p] = t  PROVE FALSE
    BY <1>1
  <2>1. PICK u \in Threads : ProcOf[u] = p
    BY DEF Procs
  <2>2. p = ProcOf[t]
    BY <2>1 DEF SingleProcess
  <2> QED
    BY <2>2 DEF IInv, LocksHeld, Reading, Waiting
<1>4. \A u \in Threads \ {t} : Path(u)' = Path(u)
  BY DEF Path
<1>5. CASE callLock'[p] = callLock[p] /\ callLock[p] # t
  BY <1>1, <1>2, <1>3, <1>4, <1>5 DEF Asked, OfReader, OfWriter
<1>6. CASE {callLock[p], callLock'[p]} \subseteq {t, None}
  <2>1. ~(callLock[p] # None /\ pc[callLock[p]] = "handOver")
    BY <1>6 DEF Waiting
  <2>2. ~(callLock'[p] # None /\ pc'[callLock'[p]] = "handOver")
    BY <1>2, <1>6 DEF Waiting
  <2>3. returnLock'[p] = returnLock[p]
    OBVIOUS
  <2> QED
    BY <1>3, <1>4, <2>1, <2>2, <2>3 DEF Asked, OfReader, OfWriter
<1> QED
  BY <1>5, <1>6

\* A request that nobody waits for, or none.
LEMMA NobodyIsDisturbed ==
  ASSUME AInv, IInv, SingleProcess, \A p \in Procs : Asked(p)' = Asked(p) /\ (gone'[p] = "" => gone[p] = ""),
         UNCHANGED <<readAhead, answers, known>>,
         \/ UNCHANGED requests
         \/ \E path \in Paths : path.kind \in {"abs", "deps"} /\ requests' = Append(requests, Line(path))
  PROVE  NobodyIsOvertaken'
<1> SUFFICES ASSUME NEW p \in Procs, gone'[p] = ""
             PROVE  /\ InOrder(Asked(p)', Len(Returned(p)'), requests')
                    /\ \A k \in DOMAIN Returned(p)' : Given(Asked(p)[k], Returned(p)[k])'
  BY DEF NobodyIsOvertaken, InOrder
<1>1. /\ InOrder(Asked(p), Len(Returned(p)), requests)
      /\ \A k \in DOMAIN Returned(p) : Given(Asked(p)[k], Returned(p)[k])
  BY DEF AInv, NobodyIsOvertaken
<1>2. Returned(p)' = Returned(p) /\ Asked(p)' = Asked(p)
  BY DEF Returned
<1>3. \A k \in DOMAIN Returned(p)' : Given(Asked(p)[k], Returned(p)[k])'
  <2> DEFINE none == [cmd |-> "", name |-> ""]
  <2>1. IsLine(none) /\ Learns(none)
    BY DEF IsLine, Learns
  <2> HIDE DEF none
  <2> SUFFICES ASSUME NEW k \in DOMAIN Returned(p)'  PROVE Given(Asked(p)[k], Returned(p)[k])'
    OBVIOUS
  <2>2. PICK line, r : line = Asked(p)[k] /\ r = Returned(p)[k]
    OBVIOUS
  <2>3. Given(line, r)'
    BY <1>1, <1>2, <2>1, <2>2, GivenLasts
  <2>4. line = Asked(p)'[k] /\ r = Returned(p)'[k]
    BY <1>2, <2>2
  <2> QED
    BY <2>3, <2>4
<1>4. CASE UNCHANGED requests
  BY <1>1, <1>2, <1>3, <1>4
<1>5. ASSUME NEW path \in Paths, path.kind \in {"abs", "deps"}, requests' = Append(requests, Line(path))
      PROVE  InOrder(Asked(p), Len(Returned(p)), Append(requests, Line(path)))
  <2>1. Line(path).cmd = "noteInput"
    BY <1>5, LinesAreTyped
  <2> QED
    BY <1>1, <2>1, NotedInOrder, AskedIsTyped DEF Lines
<1> QED
  BY <1>2, <1>3, <1>4, <1>5

-----------------------------------------------------------------------------
\* Steps of a thread that neither asks nor reads.
Quietly(t) ==
  \E l \in Labels \ Waiting, c \in Calls \cup {None}, g \in Seq(Results) :
    /\ pc[t] \notin Waiting /\ GoTo(t, l)
    /\ call' = [call EXCEPT ![t] = c] /\ got' = [got EXCEPT ![t] = g]
    /\ ThreadIsRight(t, l, c, g)

LEMMA AppendIsTyped ==
  ASSUME NEW S, NEW s \in Seq(S), NEW x \in S
  PROVE  Append(s, x) \in Seq(S)
OBVIOUS

LEMMA ConcatIsTyped ==
  ASSUME NEW S, NEW s \in Seq(S), NEW r \in Seq(S)
  PROVE  s \o r \in Seq(S)
OBVIOUS

LEMMA QuietKeeps ==
  ASSUME AInv, IInv, SingleProcess, NEW t \in Threads, Quietly(t),
         UNCHANGED <<returnLock, readAhead, answers, known>>,
         \A p \in Procs : callLock'[p] = callLock[p] \/ {callLock[p], callLock'[p]} \subseteq {t, None},
         \A p \in Procs : gone'[p] = "" => gone[p] = "",
         \/ UNCHANGED requests
         \/ \E path \in Paths : path.kind \in {"abs", "deps"} /\ requests' = Append(requests, Line(path)),
         oncePtr' \in [Procs -> {None, "real", "fake"}],
         onceMutex' \in [Procs -> Threads \cup {None}],
         gone' \in [Procs -> {"", "assert", "pthread_once is broken", "killed"}],
         cache' = cache \/ \E path \in Paths, r \in Results :
           /\ cache' = [cache EXCEPT ![ProcOf[t]] = Stored(path, r)]
           /\ Fits(path, r) /\ r # NotFound
  PROVE  AInv'
<1>1. PICK l \in Labels \ Waiting, c \in Calls \cup {None}, g \in Seq(Results) :
        /\ pc[t] \notin Waiting /\ GoTo(t, l)
        /\ call' = [call EXCEPT ![t] = c] /\ got' = [got EXCEPT ![t] = g]
        /\ ThreadIsRight(t, l, c, g)
  BY DEF Quietly
<1>2. /\ call' \in [Threads -> Calls \cup {None}]
      /\ got' \in [Threads -> Seq(Results)]
      /\ Threaded'
  BY <1>1, ThreadMoves
<1>3. \A u \in Threads \ {t} : call'[u] = call[u] /\ got'[u] = got[u]
  BY <1>1 DEF AInv, AnswerTypes
<1>4. \A p \in Procs : Asked(p)' = Asked(p)
  BY <1>1, <1>3, AskedKept
<1>5. NobodyIsOvertaken'
  BY <1>4, NobodyIsDisturbed
<1>6. requests' \in Seq(Lines)
  <2>1. ProcOf[t] \in Procs
    BY DEF Procs
  <2>2. requests \in Seq(Lines)
    BY <2>1, AskedIsTyped
  <2>3. \A path \in Paths : Append(requests, Line(path)) \in Seq(Lines)
    <3>1. \A path \in Paths : Line(path) \in Lines
      BY DEF Lines
    <3> QED
      BY <2>2, <3>1, AppendIsTyped
  <2> QED
    BY <2>2, <2>3
<1>7. CreatedUnderTmp'
  BY DEF AInv, CreatedUnderTmp
<1> DEFINE Entries == [usage : Usages, path : {Relative(q) : q \in Paths}, result : Results] \cup {None}
<1>8. CacheIsRight' /\ cache' \in [Procs -> Entries]
  <2>0. cache \in [Procs -> Entries] /\ ProcOf[t] \in Procs
    BY DEF AInv, AnswerTypes, Procs
  <2> DEFINE none == [cmd |-> "", name |-> ""]
  <2>1. IsLine(none) /\ Learns(none)
    BY DEF IsLine, Learns
  <2> HIDE DEF none
  <2>2. CASE cache' = cache
    <3>1. \A q, r : Fits(q, r) => Fits(q, r)'
      BY <2>1, FitsLasts
    <3> QED
      BY <2>0, <2>2, <3>1 DEF AInv, CacheIsRight
  <2>3. ASSUME NEW path \in Paths, NEW r \in Results,
               cache' = [cache EXCEPT ![ProcOf[t]] = Stored(path, r)], Fits(path, r), r # NotFound
        PROVE  CacheIsRight' /\ cache' \in [Procs -> Entries]
    <3>1. path \in PathType
      BY PathsAreTyped
    <3>2. Stored(path, r) \in Entries
      BY <3>1 DEF Stored, PathType
    <3>3. Fits(Relative(path), r)
      BY <2>3, <3>1, FitsRelative
    <3>4. ASSUME NEW p \in Procs, cache'[p] # None
          PROVE  Fits(cache[p].path, cache[p].result)' /\ cache'[p].result # NotFound
      <4>1. PICK q, s : q = cache'[p].path /\ s = cache'[p].result
        OBVIOUS
      <4>2. Fits(q, s) /\ s # NotFound
        <5>1. CASE p = ProcOf[t]
          BY <2>0, <2>3, <3>3, <4>1, <5>1 DEF Stored
        <5>2. CASE p # ProcOf[t]
          BY <2>0, <2>3, <3>4, <4>1, <5>2 DEF AInv, CacheIsRight
        <5> QED
          BY <5>1, <5>2
      <4>3. Fits(q, s)'
        BY <2>1, <4>2, FitsLasts
      <4> QED
        BY <4>1, <4>2, <4>3
    <3> HIDE DEF Entries
    <3> QED
      BY <2>0, <2>3, <3>2, <3>4 DEF CacheIsRight
  <2> QED
    BY <2>2, <2>3
<1> QED
  BY <1>2, <1>5, <1>6, <1>7, <1>8 DEF AInv, AnswerTypes, Threaded, Lines

\* remap_file() is done with a path.
LEMMA ReturnIsRight ==
  ASSUME AInv, NEW t \in Threads, pc[t] \notin {"idle", "store", "return"}, NEW r \in Results,
         Fits(Path(t), r), Return(t, r)
  PROVE  \E l \in {"return", "remap", "pointer"}, g \in Seq(Results) :
           GoTo(t, l) /\ got' = [got EXCEPT ![t] = g] /\ ThreadIsRight(t, l, call[t], g)
<1>1. /\ call[t] \in CallsOf[t] /\ got[t] \in Seq(Results) /\ Len(got[t]) < Len(call[t].paths)
      /\ Path(t) = call[t].paths[Len(got[t]) + 1]
  BY ThreadsPath
<1>2. ThreadIsRight(t, pc[t], call[t], got[t])
  BY DEF AInv, Threaded
<1>3. call[t].paths \in Seq(Paths)
  BY <1>1, PathsAreTyped
<1> DEFINE g == Append(got[t], r)
           l == IF r.dir = "errno" \/ Len(got[t]) + 1 = Len(call[t].paths)
                THEN "return" ELSE Entry(ProcOf[t])
<1>4. /\ g \in Seq(Results) /\ Len(g) = Len(got[t]) + 1 /\ g[Len(got[t]) + 1] = r
      /\ \A i \in 1 .. Len(got[t]) : g[i] = got[t][i]
      /\ DOMAIN g = 1 .. Len(got[t]) + 1 /\ DOMAIN got[t] = 1 .. Len(got[t])
  BY <1>1
<1>5. GoTo(t, l) /\ got' = [got EXCEPT ![t] = g]
  BY DEF Return, AInv, AnswerTypes
<1>6. l \in {"return", "remap", "pointer"}
  BY EntryIsALabel, ProcOf[t] \in Procs DEF Procs
<1>7. l # "return" => Len(g) < Len(call[t].paths)
  BY <1>1, <1>3, <1>4
<1>8. Len(g) <= Len(call[t].paths)
  BY <1>1, <1>3, <1>4
<1> HIDE DEF l, g
<1>9. \A i \in DOMAIN g : \/ Fits(call[t].paths[i], g[i])
                          \/ call[t].fn = "mkdir" /\ g[i].dir = "tmp"
                          \/ call[t].fn = "access" /\ InTree(call[t]) /\ i = 1
  <2> SUFFICES ASSUME NEW i \in 1 .. Len(got[t]) + 1
               PROVE  \/ Fits(call[t].paths[i], g[i])
                      \/ call[t].fn = "mkdir" /\ g[i].dir = "tmp"
                      \/ call[t].fn = "access" /\ InTree(call[t]) /\ i = 1
    BY <1>4
  <2>1. CASE i = Len(got[t]) + 1
    BY <1>1, <1>4, <2>1
  <2>2. CASE i \in 1 .. Len(got[t])
    BY <1>2, <1>4, <2>2 DEF ThreadIsRight
  <2> QED
    BY <1>1, <2>1, <2>2
<1>10. ThreadIsRight(t, l, call[t], g)
  BY <1>1, <1>6, <1>7, <1>8, <1>9 DEF ThreadIsRight
<1> QED
  BY <1>4, <1>5, <1>6, <1>10

-----------------------------------------------------------------------------
\* A thread goes on with its call, at the same path.
LEMMA StayIsQuiet ==
  ASSUME AInv, NEW t \in Threads, pc[t] \notin {"idle", "store", "return"} \cup Waiting,
         NEW l \in Labels \ ({"idle", "store"} \cup Waiting),
         l = "lock" \/ l = "ask" => Path(t).kind # "long",
         GoTo(t, l), UNCHANGED <<call, got>>
  PROVE  Quietly(t)
<1>1. /\ call[t] \in Calls /\ got[t] \in Seq(Results) /\ Len(got[t]) < Len(call[t].paths)
      /\ Path(t) = call[t].paths[Len(got[t]) + 1]
  BY ThreadsPath
<1>2. ThreadIsRight(t, l, call[t], got[t])
  BY <1>1 DEF AInv, Threaded, ThreadIsRight, Waiting
<1>3. call' = [call EXCEPT ![t] = call[t]] /\ got' = [got EXCEPT ![t] = got[t]]
  BY DEF AInv, AnswerTypes
<1> QED
  BY <1>1, <1>2, <1>3 DEF Quietly, Waiting

LEMMA ReturnIsQuiet ==
  ASSUME AInv, NEW t \in Threads, pc[t] \notin {"idle", "store", "return"} \cup Waiting,
         NEW r \in Results, Fits(Path(t), r), Return(t, r), UNCHANGED call
  PROVE  Quietly(t)
<1>1. PICK l \in {"return", "remap", "pointer"}, g \in Seq(Results) :
        GoTo(t, l) /\ got' = [got EXCEPT ![t] = g] /\ ThreadIsRight(t, l, call[t], g)
  BY ReturnIsRight
<1>2. call[t] \in Calls /\ call' = [call EXCEPT ![t] = call[t]]
  BY ThreadsPath DEF AInv, AnswerTypes
<1> QED
  BY <1>1, <1>2 DEF Quietly, Waiting, Labels

LEMMA BeginAnswers ==
  ASSUME AInv, IInv, SingleProcess, NEW t \in Threads, NEW c \in CallsOf[t], Begin(t, c)
  PROVE  AInv'
<1>1. /\ UNCHANGED <<returnLock, callLock, readAhead, requests, answers, known, oncePtr, onceMutex, cache, gone>>
      /\ pc[t] = "idle" /\ call' = [call EXCEPT ![t] = c]
  BY DEF Begin, initVars, streamVars, pipeVars, At
<1>2. c \in Calls /\ c.paths \in Seq(Paths) /\ c.paths # <<>> /\ Paths \subseteq PathType
  BY PathsAreTyped
<1>3. got[t] = <<>> /\ <<>> \in Seq(Results) /\ got = [got EXCEPT ![t] = got[t]]
  <2>1. ThreadIsRight(t, "idle", call[t], got[t]) /\ got \in [Threads -> Seq(Results)]
    BY <1>1 DEF AInv, Threaded, AnswerTypes
  <2>2. got[t] = <<>>
    BY <2>1 DEF ThreadIsRight
  <2> QED
    BY <2>1, <2>2
<1>4. Len(c.paths) \in Nat \ {0} /\ Head(c.paths) = c.paths[1] /\ c.paths[1] \in Paths
  BY <1>2
<1>5. ASSUME NEW dir \in {"src", "tmp"}, InTree(c),
             (c.fn = "mkdir" /\ dir = "tmp") \/ c.fn = "access",
             got' = [got EXCEPT ![t] = <<Found(dir, DirName(Head(c.paths)))>>], GoTo(t, "return")
      PROVE  Quietly(t)
  <2> DEFINE r == Found(dir, DirName(Head(c.paths)))
             g == <<r>>
  <2>1. r \in Results
    BY <1>4, <1>5, ResultsAreTyped DEF DirName, InTree
  <2>2. r.dir = dir
    BY DEF Found
  <2>3. got' = [got EXCEPT ![t] = g]
    BY <1>5
  <2> HIDE DEF r
  <2>4. g \in Seq(Results) /\ Len(g) = 1 /\ DOMAIN g = 1 .. 1 /\ g[1] = r
    BY <2>1
  <2> HIDE DEF g
  <2>5. ThreadIsRight(t, "return", c, g)
    BY <1>4, <1>5, <2>2, <2>4 DEF ThreadIsRight
  <2>6. "return" \in Labels \ Waiting /\ pc[t] \notin Waiting
    BY <1>1 DEF Labels, Waiting
  <2> QED
    BY <1>1, <1>2, <1>5, <2>3, <2>4, <2>5, <2>6 DEF Quietly
<1>6. ASSUME MakeDirectory(t, c)  PROVE Quietly(t)
  <2>1. /\ c.fn = "mkdir" /\ InTree(c) /\ GoTo(t, "return")
        /\ got' = [got EXCEPT ![t] = <<Found("tmp", DirName(Head(c.paths)))>>]
    BY <1>6 DEF MakeDirectory
  <2> QED
    BY <1>5, <2>1, "tmp" \in {"src", "tmp"}
<1>7. ASSUME FindDirectory(t, c)  PROVE Quietly(t)
  <2>1. /\ c.fn = "access" /\ InTree(c) /\ GoTo(t, "return")
        /\ \E dir \in {"src", "tmp"} : got' = [got EXCEPT ![t] = <<Found(dir, DirName(Head(c.paths)))>>]
    BY <1>7 DEF FindDirectory
  <2>2. PICK dir \in {"src", "tmp"} : got' = [got EXCEPT ![t] = <<Found(dir, DirName(Head(c.paths)))>>]
    BY <2>1
  <2> QED
    BY <1>5, <2>1, <2>2
<1>8. ASSUME RemapFirst(t, c)  PROVE Quietly(t)
  <2>1. Entry(ProcOf[t]) \in {"remap", "pointer"}
    BY EntryIsALabel, ProcOf[t] \in Procs DEF Procs
  <2>2. GoTo(t, Entry(ProcOf[t])) /\ got' = [got EXCEPT ![t] = <<>>]
    BY <1>3, <1>8 DEF RemapFirst
  <2>3. ThreadIsRight(t, Entry(ProcOf[t]), c, <<>>)
    BY <1>4, <2>1 DEF ThreadIsRight
  <2> QED
    <3>1. Entry(ProcOf[t]) \in Labels \ Waiting /\ pc[t] \notin Waiting
      BY <1>1, <2>1 DEF Labels, Waiting
    <3> QED
      BY <1>1, <1>2, <1>3, <2>2, <2>3, <3>1 DEF Quietly
<1>9. Quietly(t)
  BY <1>6, <1>7, <1>8 DEF Begin
<1> QED
  BY <1>1, <1>9, QuietKeeps DEF AInv, AnswerTypes

\* init_pthreads() and the once.
LEMMA OnceAnswers ==
  ASSUME AInv, IInv, SingleProcess, NEW t \in Threads,
         \/ TestPointer(t) \/ StorePointer(t, "real") \/ StorePointer(t, "fake")
         \/ CallOnce(t) \/ FakeOnce(t) \/ InitStreams(t)
  PROVE  AInv'
<1>0. ProcOf[t] \in Procs /\ oncePtr \in [Procs -> {None, "real", "fake"}]
      /\ onceMutex \in [Procs -> Threads \cup {None}]
  BY DEF Procs, AInv, AnswerTypes
<1>1. UNCHANGED <<call, got, returnLock, callLock, readAhead, requests, answers, known, cache>>
  BY DEF TestPointer, StorePointer, CallOnce, FakeOnce, InitStreams, streamVars, pipeVars, initVars
<1>2. pc[t] \in {"pointer", "storeReal", "storeFake", "once", "mutex", "init"}
  BY DEF TestPointer, StorePointer, CallOnce, FakeOnce, InitStreams, At
<1>3. oncePtr' \in [Procs -> {None, "real", "fake"}]
  BY <1>0 DEF TestPointer, StorePointer, CallOnce, FakeOnce, InitStreams, initVars
<1>4. onceMutex' \in [Procs -> Threads \cup {None}]
  BY <1>0 DEF TestPointer, StorePointer, CallOnce, FakeOnce, InitStreams, initVars
<1>5. /\ \A p \in Procs : gone'[p] = "" => gone[p] = ""
      /\ gone' \in [Procs -> {"", "assert", "pthread_once is broken", "killed"}]
  <2>1. UNCHANGED gone \/ \E why \in {"assert", "pthread_once is broken"} :
          gone[ProcOf[t]] = "" /\ gone' = [gone EXCEPT ![ProcOf[t]] = why]
    BY DEF TestPointer, StorePointer, CallOnce, FakeOnce, InitStreams, At
  <2>2. gone \in [Procs -> {"", "assert", "pthread_once is broken", "killed"}]
    BY DEF AInv, AnswerTypes
  <2> QED
    BY <2>1, <2>2
<1>6. ThreadIsRight(t, pc[t], call[t], got[t])
  BY DEF AInv, Threaded
<1>7. Quietly(t)
  <2>1. PICK l \in {"storeReal", "storeFake", "once", "mutex", "init", "remap", pc[t]} : GoTo(t, l)
    <3>1. pc' = pc => GoTo(t, pc[t])
      BY DEF GoTo, IInv, OnceTypes
    <3> QED
      BY <3>1 DEF TestPointer, StorePointer, CallOnce, FakeOnce, InitStreams
  <2> QED
    BY <1>1, <1>2, <2>1, StayIsQuiet DEF Labels, Waiting
<1> QED
  BY <1>1, <1>3, <1>4, <1>5, <1>7, QuietKeeps

LEMMA LookInCacheAnswers ==
  ASSUME AInv, IInv, SingleProcess, NEW t \in Threads, LookInCache(t)
  PROVE  AInv'
<1>1. /\ UNCHANGED <<call, returnLock, callLock, readAhead, requests, answers, known, oncePtr, onceMutex, cache, gone>>
      /\ pc[t] = "remap"
  BY DEF LookInCache, initVars, streamVars, pipeVars, At
<1>2. Path(t) \in Paths /\ ProcOf[t] \in Procs
  BY <1>1, ThreadsPath DEF Procs
<1>3. CASE Path(t).kind = "long" /\ Return(t, Errno("ENAMETOOLONG"))
  <2>1. Fits(Path(t), Errno("ENAMETOOLONG"))
    BY <1>3 DEF Fits
  <2> QED
    BY <1>1, <1>2, <1>3, <2>1, ReturnIsQuiet, ResultsAreTyped, QuietKeeps
       DEF Waiting, AInv, AnswerTypes
<1>4. CASE CacheHit(ProcOf[t], Path(t)) /\ Return(t, cache[ProcOf[t]].result)
  <2>1. Fits(Path(t), cache[ProcOf[t]].result) /\ cache[ProcOf[t]].result \in Results
    BY <1>2, <1>4 DEF CacheHit, AInv, CacheIsRight, AnswerTypes
  <2> QED
    BY <1>1, <1>2, <1>4, <2>1, ReturnIsQuiet, QuietKeeps DEF Waiting, AInv, AnswerTypes
<1>5. CASE Path(t).kind # "long" /\ GoTo(t, "lock") /\ UNCHANGED got
  <2>1. Quietly(t)
    BY <1>1, <1>5, StayIsQuiet DEF Waiting, Labels
  <2> QED
    BY <1>1, <2>1, QuietKeeps DEF AInv, AnswerTypes
<1> QED
  BY <1>3, <1>4, <1>5 DEF LookInCache

LEMMA LockCallAnswers ==
  ASSUME AInv, IInv, SingleProcess, NEW t \in Threads, LockCall(t)
  PROVE  AInv'
<1>1. /\ UNCHANGED <<call, got, returnLock, readAhead, requests, answers, known, oncePtr, onceMutex, cache, gone>>
      /\ pc[t] = "lock" /\ GoTo(t, "ask")
      /\ callLock[ProcOf[t]] = None /\ callLock' = [callLock EXCEPT ![ProcOf[t]] = t]
  BY DEF LockCall, initVars, pipeVars, At
<1>2. ThreadIsRight(t, pc[t], call[t], got[t])
  BY DEF AInv, Threaded
<1>3. Path(t).kind # "long"
  BY <1>1, <1>2 DEF ThreadIsRight, Path
<1>4. Quietly(t)
  BY <1>1, <1>3, StayIsQuiet DEF Waiting, Labels
<1>5. \A p \in Procs : callLock'[p] = callLock[p] \/ {callLock[p], callLock'[p]} \subseteq {t, None}
  BY <1>1 DEF IInv, OnceTypes
<1> QED
  BY <1>1, <1>4, <1>5, QuietKeeps DEF AInv, AnswerTypes

LEMMA AnswerHereAnswers ==
  ASSUME AInv, IInv, SingleProcess, NEW t \in Threads, AnswerHere(t)
  PROVE  AInv'
<1>1. /\ UNCHANGED <<call, returnLock, readAhead, requests, answers, known, oncePtr, onceMutex, cache, gone>>
      /\ pc[t] = "ask" /\ Unasked(Path(t)) # None /\ Return(t, Unasked(Path(t)))
      /\ callLock' = [callLock EXCEPT ![ProcOf[t]] = None]
  BY DEF AnswerHere, initVars, pipeVars, At, ReleaseCall
<1>2. callLock[ProcOf[t]] = t
  BY <1>1 DEF IInv, LocksHeld, Asking
<1>3. ThreadIsRight(t, pc[t], call[t], got[t]) /\ Path(t) \in Paths
  BY <1>1, ThreadsPath DEF AInv, Threaded
<1>4. Fits(Path(t), Unasked(Path(t))) /\ Unasked(Path(t)) \in Results
  BY <1>1, <1>3, ResultsAreTyped DEF ThreadIsRight, Path, Fits
<1>5. Quietly(t)
  BY <1>1, <1>4, ReturnIsQuiet DEF Waiting
<1>6. \A p \in Procs : callLock'[p] = callLock[p] \/ {callLock[p], callLock'[p]} \subseteq {t, None}
  BY <1>1, <1>2 DEF IInv, OnceTypes
<1> QED
  BY <1>1, <1>5, <1>6, QuietKeeps DEF AInv, AnswerTypes

LEMMA NoteInputAnswers ==
  ASSUME AInv, IInv, SingleProcess, NEW t \in Threads, NoteInput(t)
  PROVE  AInv'
<1>1. /\ UNCHANGED <<call, returnLock, readAhead, answers, known, oncePtr, onceMutex, gone>>
      /\ pc[t] = "ask" /\ Unasked(Path(t)) = None /\ Path(t).kind \in {"abs", "deps"}
      /\ Return(t, Same(Path(t))) /\ requests' = Append(requests, Line(Path(t)))
      /\ cache' = [cache EXCEPT ![ProcOf[t]] = Stored(Path(t), Same(Path(t)))]
      /\ callLock' = [callLock EXCEPT ![ProcOf[t]] = None]
  BY DEF NoteInput, initVars, pipeVars, At, ReleaseCall
<1>2. callLock[ProcOf[t]] = t
  BY <1>1 DEF IInv, LocksHeld, Asking
<1>3. Path(t) \in Paths
  BY <1>1, ThreadsPath
<1>4. /\ Fits(Path(t), Same(Path(t))) /\ Same(Path(t)) \in Results
      /\ Same(Path(t)) # NotFound
  <2>1. Same(Path(t)).dir = "same" /\ NotFound.dir = "errno"
    BY DEF Same, NotFound, Errno, Found
  <2> QED
    BY <1>1, <1>3, <2>1, ResultsAreTyped DEF Fits
<1>5. Quietly(t)
  BY <1>1, <1>4, ReturnIsQuiet DEF Waiting
<1>6. \A p \in Procs : callLock'[p] = callLock[p] \/ {callLock[p], callLock'[p]} \subseteq {t, None}
  BY <1>1, <1>2 DEF IInv, OnceTypes
<1>7. /\ oncePtr' \in [Procs -> {None, "real", "fake"}] /\ onceMutex' \in [Procs -> Threads \cup {None}]
      /\ gone' \in [Procs -> {"", "assert", "pthread_once is broken", "killed"}]
  BY <1>1 DEF AInv, AnswerTypes
<1> QED
  BY <1>1, <1>3, <1>4, <1>5, <1>6, <1>7, QuietKeeps

\* cache_result(), late.
LEMMA CacheResultAnswers ==
  ASSUME AInv, IInv, SingleProcess, NEW t \in Threads, CacheResult(t)
  PROVE  AInv'
<1> DEFINE n == Len(got[t])
           path == call[t].paths[n]
           r == got[t][n]
           l == IF n = Len(call[t].paths) THEN "return" ELSE Entry(ProcOf[t])
<1>1. /\ UNCHANGED <<call, got, returnLock, callLock, readAhead, requests, answers, known, oncePtr, onceMutex, gone>>
      /\ pc[t] = "store" /\ cache' = [cache EXCEPT ![ProcOf[t]] = Stored(path, r)]
      /\ GoTo(t, l)
  BY DEF CacheResult, initVars, streamVars, pipeVars, At
<1>2. ThreadIsRight(t, "store", call[t], got[t]) /\ got[t] \in Seq(Results)
  BY <1>1 DEF AInv, Threaded, AnswerTypes
<1>3. /\ call[t] \in CallsOf[t] /\ Len(got[t]) <= Len(call[t].paths) /\ got[t] # <<>>
      /\ Fits(path, r) /\ r # NotFound
  BY <1>2 DEF ThreadIsRight
<1>4. call[t] \in Calls /\ call[t].paths \in Seq(Paths)
  BY <1>3, PathsAreTyped
<1>5. n \in 1 .. Len(call[t].paths) /\ n \in 1 .. Len(got[t]) /\ path \in Paths /\ r \in Results
  BY <1>2, <1>3, <1>4
<1>6. l \in {"return", "remap", "pointer"} /\ (l # "return" => n < Len(call[t].paths))
  <2>1. Entry(ProcOf[t]) \in {"remap", "pointer"}
    BY EntryIsALabel, ProcOf[t] \in Procs DEF Procs
  <2> QED
    BY <1>4, <1>5, <2>1
<1> HIDE DEF l, path, r
<1>7. ThreadIsRight(t, l, call[t], got[t])
  BY <1>2, <1>3, <1>6 DEF ThreadIsRight
<1>8. Quietly(t)
  <2>1. call' = [call EXCEPT ![t] = call[t]] /\ got' = [got EXCEPT ![t] = got[t]]
    BY <1>1 DEF AInv, AnswerTypes
  <2> QED
    BY <1>1, <1>2, <1>4, <1>6, <1>7, <2>1 DEF Quietly, Labels, Waiting
<1>9. /\ oncePtr' \in [Procs -> {None, "real", "fake"}] /\ onceMutex' \in [Procs -> Threads \cup {None}]
      /\ gone' \in [Procs -> {"", "assert", "pthread_once is broken", "killed"}]
  BY <1>1 DEF AInv, AnswerTypes
<1> QED
  BY <1>1, <1>3, <1>5, <1>8, <1>9, QuietKeeps

LEMMA FinishAnswers ==
  ASSUME AInv, IInv, SingleProcess, NEW t \in Threads, Finish(t)
  PROVE  AInv'
<1>1. /\ UNCHANGED <<returnLock, callLock, readAhead, requests, answers, known, oncePtr, onceMutex, cache, gone>>
      /\ pc[t] = "return" /\ GoTo(t, "idle")
      /\ call' = [call EXCEPT ![t] = None] /\ got' = [got EXCEPT ![t] = <<>>]
  BY DEF Finish, initVars, streamVars, pipeVars, At
<1>2. <<>> \in Seq(Results) /\ DOMAIN <<>> = {}
  OBVIOUS
<1>3. ThreadIsRight(t, "idle", None, <<>>)
  BY <1>2 DEF ThreadIsRight
<1>4. Quietly(t)
  BY <1>1, <1>2, <1>3 DEF Quietly, Labels, Waiting
<1> QED
  BY <1>1, <1>4, QuietKeeps DEF AInv, AnswerTypes

-----------------------------------------------------------------------------
LEMMA CacheLearns ==
  ASSUME CacheIsRight, NEW line, IsLine(line), Learns(line), UNCHANGED cache
  PROVE  CacheIsRight'
<1>1. \A q, r : Fits(q, r) => Fits(q, r)'
  BY FitsLasts
<1> QED
  BY <1>1 DEF CacheIsRight

LEMMA KnownKeeps ==
  ASSUME AInv, UNCHANGED <<known, cache, oncePtr, onceMutex, gone>>,
         call' \in [Threads -> Calls \cup {None}], got' \in [Threads -> Seq(Results)], Threaded',
         requests' \in Seq(Lines), answers' \in Seq(Results), readAhead' \in [Procs -> Seq(Results)],
         NobodyIsOvertaken'
  PROVE  AInv'
<1> DEFINE none == [cmd |-> "", name |-> ""]
<1>1. IsLine(none) /\ Learns(none)
  BY DEF IsLine, Learns
<1> HIDE DEF none
<1>2. CacheIsRight'
  BY <1>1, CacheLearns DEF AInv
<1>3. CreatedUnderTmp'
  BY DEF AInv, CreatedUnderTmp
<1> QED
  BY <1>2, <1>3 DEF AInv, AnswerTypes, Threaded, Lines

\* A thread goes on, with the same path.
LEMMA StayIsRight ==
  ASSUME AInv, IInv, SingleProcess, NEW t \in Threads, pc[t] \in {"ask", "handOver", "unlock"},
         NEW l \in Waiting, GoTo(t, l), Asks(Path(t)), UNCHANGED <<call, got, known>>
  PROVE  /\ call' \in [Threads -> Calls \cup {None}]
         /\ got' \in [Threads -> Seq(Results)]
         /\ Threaded'
<1>1. /\ call[t] \in Calls /\ got[t] \in Seq(Results) /\ Len(got[t]) < Len(call[t].paths)
      /\ Path(t) = call[t].paths[Len(got[t]) + 1] /\ call[t] \in CallsOf[t]
  BY ThreadsPath
<1>2. ThreadIsRight(t, l, call[t], got[t])
  BY <1>1 DEF AInv, Threaded, ThreadIsRight, Waiting
<1>3. call' = [call EXCEPT ![t] = call[t]] /\ got' = [got EXCEPT ![t] = got[t]]
  BY DEF AInv, AnswerTypes
<1>4. l \in Labels /\ call[t] \in Calls \cup {None}
  BY <1>1 DEF Waiting, Labels
<1> QED
  BY <1>1, <1>2, <1>3, <1>4, ThreadMoves

LEMMA TheProcess ==
  ASSUME AInv, IInv, SingleProcess, NEW t \in Threads, NEW p \in Procs
  PROVE  /\ p = ProcOf[t] /\ t # None
         /\ callLock[p] \in Threads \cup {None} /\ returnLock[p] \in Threads \cup {None}
         /\ pc[t] \in Asking <=> callLock[p] = t
         /\ pc[t] \in Reading <=> returnLock[p] = t
         /\ DOMAIN pc = Threads
<1>1. PICK u \in Threads : ProcOf[u] = p
  BY DEF Procs
<1>2. p = ProcOf[t]
  BY <1>1 DEF SingleProcess
<1> QED
  BY <1>2, InterceptAssumption DEF IInv, OnceTypes, LocksHeld

LEMMA AskAnswers ==
  ASSUME AInv, IInv, SingleProcess, NEW t \in Threads, Ask(t)
  PROVE  AInv'
<1>1. /\ UNCHANGED <<call, got, returnLock, callLock, readAhead, answers, known, oncePtr, onceMutex, cache, gone>>
      /\ pc[t] = "ask" /\ Unasked(Path(t)) = None /\ Path(t).kind \notin {"abs", "deps"}
      /\ GoTo(t, "handOver") /\ requests' = Append(requests, Line(Path(t)))
  BY DEF Ask, initVars, streamVars, At
<1>2. ThreadIsRight(t, "ask", call[t], got[t]) /\ Path(t) \in Paths
  BY <1>1, ThreadsPath DEF AInv, Threaded
<1>3. Asks(Path(t))
  BY <1>1, <1>2 DEF ThreadIsRight, Path, Asks
<1>4. /\ call' \in [Threads -> Calls \cup {None}]
      /\ got' \in [Threads -> Seq(Results)]
      /\ Threaded'
  BY <1>1, <1>3, StayIsRight DEF Waiting
<1>5. Line(Path(t)) \in Lines /\ Line(Path(t)).cmd # "noteInput"
  BY <1>1, <1>2, LinesAreTyped DEF Lines
<1>6. ProcOf[t] \in Procs
  BY DEF Procs
<1>7. requests \in Seq(Lines) /\ requests' \in Seq(Lines)
  BY <1>1, <1>5, <1>6, AskedIsTyped, AppendIsTyped
<1>8. ASSUME NEW p \in Procs, gone'[p] = ""
      PROVE  /\ InOrder(Asked(p)', Len(Returned(p)'), requests')
             /\ \A k \in DOMAIN Returned(p)' : Given(Asked(p)[k], Returned(p)[k])'
  <2>1. /\ InOrder(Asked(p), Len(Returned(p)), requests)
        /\ \A k \in DOMAIN Returned(p) : Given(Asked(p)[k], Returned(p)[k])
    BY <1>1, <1>8 DEF AInv, NobodyIsOvertaken
  <2>2. OfWriter(p) = <<>> /\ callLock[p] = t
    BY <1>1, TheProcess DEF OfWriter, Asking
  <2>3. \A u \in Threads : Path(u)' = Path(u)
    BY <1>1 DEF Path
  <2>4. OfWriter(p)' = <<Line(Path(t))>>
    <3>1. pc'[t] = "handOver" /\ callLock'[p] = t /\ t # None
      BY <1>1, <2>2, TheProcess DEF GoTo
    <3> QED
      BY <2>3, <3>1 DEF OfWriter
  <2>5. OfReader(p)' = OfReader(p)
    BY <1>1, <2>3, TheProcess DEF OfReader
  <2>6. Asked(p) \in Seq(Lines)
    BY AskedIsTyped
  <2>7. Asked(p)' = Append(Asked(p), Line(Path(t)))
    <3>1. OfReader(p) \in Seq(Lines) /\ Asked(p) = OfReader(p)
      BY <2>2, <2>6 DEF Asked, OfReader
    <3> QED
      BY <1>5, <2>4, <2>5, <3>1 DEF Asked
  <2>8. Returned(p)' = Returned(p)
    BY <1>1 DEF Returned
  <2>9. InOrder(Append(Asked(p), Line(Path(t))), Len(Returned(p)), Append(requests, Line(Path(t))))
    BY <1>5, <1>7, <2>1, <2>6, AskedInOrder
  <2>10. Returned(p) \in Seq(Results)
    <3>1. readAhead[p] \in Seq(Results) /\ answers \in Seq(Results)
      BY DEF AInv, AnswerTypes
    <3> QED
      BY <3>1, ConcatIsTyped DEF Returned
  <2>11. ASSUME NEW k \in DOMAIN Returned(p)  PROVE Given(Asked(p)[k], Returned(p)[k])'
    <3>1. PICK line, r : line = Asked(p)[k] /\ r = Returned(p)[k]
      OBVIOUS
    <3>2. k \in 1 .. Len(Asked(p))
      BY <2>1, <2>6, <2>10 DEF InOrder
    <3>3. line = Asked(p)'[k] /\ r = Returned(p)'[k]
      BY <2>6, <2>7, <2>8, <3>1, <3>2
    <3> DEFINE none == [cmd |-> "", name |-> ""]
    <3>4. IsLine(none) /\ Learns(none)
      BY <1>1 DEF IsLine, Learns
    <3> HIDE DEF none
    <3>5. Given(line, r)'
      BY <2>1, <3>1, <3>4, GivenLasts
    <3> QED
      BY <3>3, <3>5
  <2> QED
    BY <1>1, <2>7, <2>8, <2>9, <2>11
<1>9. NobodyIsOvertaken'
  BY <1>8 DEF NobodyIsOvertaken, InOrder
<1> QED
  BY <1>1, <1>4, <1>7, <1>9, KnownKeeps DEF AInv, AnswerTypes

\* The lock of the return stream is taken before that of the call stream is given back.
LEMMA HandOverAnswers ==
  ASSUME AInv, IInv, SingleProcess, NEW t \in Threads, LockReturn(t) \/ UnlockCall(t)
  PROVE  AInv'
<1>1. /\ UNCHANGED <<call, got, readAhead, requests, answers, known, oncePtr, onceMutex, cache, gone>>
      /\ \/ /\ pc[t] = "handOver" /\ GoTo(t, "unlock") /\ UNCHANGED callLock
            /\ returnLock[ProcOf[t]] = None /\ returnLock' = [returnLock EXCEPT ![ProcOf[t]] = t]
         \/ /\ pc[t] = "unlock" /\ GoTo(t, "read") /\ UNCHANGED returnLock
            /\ callLock' = [callLock EXCEPT ![ProcOf[t]] = None]
  BY DEF LockReturn, UnlockCall, initVars, pipeVars, At, ReleaseCall
<1>2. ThreadIsRight(t, pc[t], call[t], got[t])
  BY DEF AInv, Threaded
<1>3. Asks(Path(t))
  BY <1>1, <1>2 DEF ThreadIsRight, Path
<1>4. /\ call' \in [Threads -> Calls \cup {None}]
      /\ got' \in [Threads -> Seq(Results)]
      /\ Threaded'
  BY <1>1, <1>3, StayIsRight DEF Waiting
<1>5. \A u \in Threads : Path(u)' = Path(u)
  BY <1>1 DEF Path
<1>6. ASSUME NEW p \in Procs  PROVE Asked(p)' = Asked(p)
  <2>1. /\ p = ProcOf[t] /\ t # None
        /\ pc[t] \in Asking <=> callLock[p] = t
        /\ pc[t] \in Reading <=> returnLock[p] = t
        /\ callLock[p] \in Threads \cup {None}
    BY TheProcess
  <2>2. CASE pc[t] = "handOver"
    <3>1. /\ callLock[p] = t /\ callLock'[p] = t /\ returnLock[p] = None /\ returnLock'[p] = t
          /\ pc'[t] = "unlock"
      <4>1. returnLock \in [Procs -> Threads \cup {None}] /\ pc \in [Threads -> Labels]
        BY DEF IInv, OnceTypes
      <4>2. /\ returnLock' = [returnLock EXCEPT ![p] = t] /\ pc' = [pc EXCEPT ![t] = "unlock"]
            /\ returnLock[p] = None /\ UNCHANGED callLock
        BY <1>1, <2>1, <2>2 DEF GoTo
      <4> QED
        BY <2>1, <2>2, <4>1, <4>2 DEF Asking
    <3>2. OfReader(p) = <<>> /\ OfWriter(p) = <<Line(Path(t))>>
      BY <2>1, <2>2, <3>1 DEF OfReader, OfWriter
    <3>3. OfReader(p)' = <<Line(Path(t))>> /\ OfWriter(p)' = <<>>
      BY <1>5, <2>1, <2>2, <3>1 DEF OfReader, OfWriter
    <3> QED
      BY <3>2, <3>3 DEF Asked
  <2>3. CASE pc[t] = "unlock"
    <3>1. callLock[p] = t /\ callLock'[p] = None /\ returnLock[p] = t /\ returnLock'[p] = t
      <4>1. callLock \in [Procs -> Threads \cup {None}]
        BY DEF IInv, OnceTypes
      <4>2. callLock' = [callLock EXCEPT ![p] = None] /\ UNCHANGED returnLock
        BY <1>1, <2>1, <2>3
      <4> QED
        BY <2>1, <2>3, <4>1, <4>2 DEF Asking, Reading
    <3>2. OfReader(p) = <<Line(Path(t))>> /\ OfWriter(p) = <<>>
      BY <2>1, <2>3, <3>1 DEF OfReader, OfWriter
    <3>3. OfReader(p)' = <<Line(Path(t))>> /\ OfWriter(p)' = <<>>
      BY <1>5, <2>1, <2>3, <3>1 DEF OfReader, OfWriter
    <3> QED
      BY <3>2, <3>3 DEF Asked
  <2> QED
    BY <1>1, <2>2, <2>3
<1>7. NobodyIsOvertaken'
  BY <1>1, <1>6, NobodyIsDisturbed
<1>8. requests' \in Seq(Lines)
  BY <1>1 DEF AInv, AnswerTypes, Lines
<1> QED
  BY <1>1, <1>4, <1>7, <1>8, KnownKeeps DEF AInv, AnswerTypes

\* Whoever has the return stream takes the answer to its own line.
LEMMA AnswerIsTaken ==
  ASSUME AInv, IInv, SingleProcess, NEW t \in Threads, ReadAnswer(t), NEW p \in Procs
  PROVE  /\ call' \in [Threads -> Calls \cup {None}] /\ got' \in [Threads -> Seq(Results)]
         /\ Threaded'
         /\ answers' \in Seq(Results) /\ readAhead' \in [Procs -> Seq(Results)]
         /\ InOrder(Asked(p)', Len(Returned(p)'), requests')
         /\ \A k \in DOMAIN Returned(p)' : Given(Asked(p)[k], Returned(p)[k])'
<1>0. p = ProcOf[t]
  BY TheProcess
<1> DEFINE refill == readAhead[p] = <<>>
           lines == IF refill THEN answers ELSE readAhead[p]
           r == Head(lines)
<1>1. /\ UNCHANGED <<call, callLock, requests, known, oncePtr, onceMutex, cache, gone>>
      /\ pc[t] = "read" /\ gone[p] = "" /\ lines # <<>>
      /\ readAhead' = [readAhead EXCEPT ![p] = Tail(lines)]
      /\ answers' = IF refill THEN <<>> ELSE answers
      /\ returnLock' = [returnLock EXCEPT ![p] = None]
      /\ IF r = NotFound
         THEN Return(t, NotFound)
         ELSE got' = [got EXCEPT ![t] = Append(@, r)] /\ GoTo(t, "store")
  BY <1>0 DEF ReadAnswer, initVars, At
<1>2. /\ readAhead \in [Procs -> Seq(Results)] /\ answers \in Seq(Results) 
      /\ got \in [Threads -> Seq(Results)]
      /\ returnLock \in [Procs -> Threads \cup {None}]
  BY DEF AInv, AnswerTypes, IInv, OnceTypes
<1>3. /\ readAhead'[p] = Tail(lines)
      /\ returnLock'[p] = None
  BY <1>1, <1>2
<1>4. lines \in Seq(Results) /\ r \in Results /\ Tail(lines) \in Seq(Results)
  <2>1. lines \in Seq(Results) /\ lines # <<>>
    BY <1>1, <1>2
  <2> HIDE DEF lines
  <2> QED
    BY <2>1
<1>5. Returned(p) = lines \o answers'
  <2>1. CASE refill
    <3>1. answers' = <<>> /\ lines = answers /\ readAhead[p] = <<>> /\ answers \in Seq(Results)
      BY <1>1, <1>2, <2>1
    <3> HIDE DEF lines, refill
    <3> QED
      BY <3>1 DEF Returned
  <2>2. CASE ~refill
    BY <1>1, <2>2 DEF Returned
  <2> QED
    BY <2>1, <2>2
<1>6. Returned(p)' = Tail(lines) \o answers'
  BY <1>3 DEF Returned
<1>7. answers' \in Seq(Results) /\ readAhead' \in [Procs -> Seq(Results)]
  <2>1. <<>> \in Seq(Results)
    OBVIOUS
  <2> HIDE DEF lines
  <2> QED
    BY <1>1, <1>2, <1>4, <2>1
<1> HIDE DEF lines, refill, r
<1>8. /\ Returned(p) \in Seq(Results) /\ Len(Returned(p)) # 0 /\ Returned(p)[1] = r
      /\ Returned(p)' \in Seq(Results)
      /\ Len(Returned(p)') = Len(Returned(p)) - 1
      /\ \A k \in 1 .. Len(Returned(p)) - 1 : Returned(p)'[k] = Returned(p)[k + 1]
  <2> DEFINE more == answers'
  <2>1. more \in Seq(Results) /\ Returned(p) = lines \o more /\ Returned(p)' = Tail(lines) \o more
    BY <1>5, <1>6, <1>7
  <2> HIDE DEF more
  <2>2. Len(lines) \in Nat \ {0} /\ r = lines[1]
    <3>1. lines # <<>> /\ r = Head(lines)
      BY <1>1 DEF r
    <3> QED
      BY <1>4, <3>1
  <2> QED
    BY <1>4, <2>1, <2>2
<1>9. p = ProcOf[t] /\ t # None /\ returnLock[p] = t /\ callLock[p] # t
  BY <1>1, <1>2, TheProcess DEF Reading, Asking
<1>10. OfReader(p) = <<Line(Path(t))>> /\ OfReader(p)' = <<>>
  BY <1>3, <1>9 DEF OfReader
<1>11. /\ InOrder(Asked(p), Len(Returned(p)), requests)
       /\ \A k \in DOMAIN Returned(p) : Given(Asked(p)[k], Returned(p)[k])
  BY <1>1, <1>2 DEF AInv, NobodyIsOvertaken
<1>12. Asked(p) \in Seq(Lines) /\ requests \in Seq(Lines)
  BY <1>2, AskedIsTyped
<1>13. Path(t) \in Paths /\ call[t] \in CallsOf[t] /\ call[t] \in Calls
       /\ got[t] \in Seq(Results) /\ Len(got[t]) < Len(call[t].paths)
       /\ Path(t) = call[t].paths[Len(got[t]) + 1]
  BY <1>1, ThreadsPath
<1>14. ThreadIsRight(t, "read", call[t], got[t])
  BY <1>1 DEF AInv, Threaded
<1>15. Asks(Path(t))
  BY <1>13, <1>14 DEF ThreadIsRight
<1>16. Asked(p) = <<Line(Path(t))>> \o OfWriter(p) /\ OfWriter(p) \in Seq(Lines)
  <2>1. Asked(p) = <<Line(Path(t))>> \o OfWriter(p)
    BY <1>10 DEF Asked
  <2>2. callLock[p] # None /\ pc[callLock[p]] = "handOver" => Path(callLock[p]) \in Paths
    BY <1>2, TheProcess, ThreadsPath
  <2>3. OfWriter(p) \in Seq(Lines)
    <3>1. <<>> \in Seq(Lines) /\ \A x \in Lines : <<x>> \in Seq(Lines)
      OBVIOUS
    <3>2. \A q \in Paths : Line(q) \in Lines
      BY DEF Lines
    <3> QED
      BY <2>2, <3>1, <3>2 DEF OfWriter
  <2> QED
    BY <2>1, <2>3
<1>17. /\ Asked(p)[1] = Line(Path(t)) /\ Tail(Asked(p)) = OfWriter(p)
       /\ Len(OfWriter(p)) = Len(Asked(p)) - 1
       /\ \A k \in 1 .. Len(Asked(p)) - 1 : OfWriter(p)[k] = Asked(p)[k + 1]
  BY <1>12, <1>16
<1>18. Given(Line(Path(t)), r)
  <2>1. 1 \in DOMAIN Returned(p)
    BY <1>8
  <2> QED
    BY <1>8, <1>11, <1>17, <2>1
<1>19. Fits(Path(t), r)
  BY <1>15, <1>18 DEF Fits, Asks
<1>20. PICK l \in {"return", "remap", "pointer", "store"}, g \in Seq(Results) :
         GoTo(t, l) /\ got' = [got EXCEPT ![t] = g] /\ ThreadIsRight(t, l, call[t], g)
  <2>1. CASE r = NotFound
    <3>1. \E l \in {"return", "remap", "pointer"}, g \in Seq(Results) :
            GoTo(t, l) /\ got' = [got EXCEPT ![t] = g] /\ ThreadIsRight(t, l, call[t], g)
      BY <1>1, <1>4, <1>19, <2>1, ReturnIsRight
    <3> QED
      BY <3>1
  <2>2. CASE r # NotFound
    <3> DEFINE g == Append(got[t], r)
    <3>1. /\ g \in Seq(Results) /\ Len(g) = Len(got[t]) + 1 /\ g[Len(got[t]) + 1] = r
          /\ \A i \in 1 .. Len(got[t]) : g[i] = got[t][i]
          /\ DOMAIN g = 1 .. Len(got[t]) + 1 /\ DOMAIN got[t] = 1 .. Len(got[t])
          /\ Len(got[t]) \in Nat
      BY <1>4, <1>13
    <3>2. GoTo(t, "store") /\ got' = [got EXCEPT ![t] = g]
      BY <1>1, <1>2, <2>2
    <3> HIDE DEF g
    <3>3. \A i \in DOMAIN g : \/ Fits(call[t].paths[i], g[i])
                              \/ call[t].fn = "mkdir" /\ g[i].dir = "tmp"
                              \/ call[t].fn = "access" /\ InTree(call[t]) /\ i = 1
      <4> SUFFICES ASSUME NEW i \in 1 .. Len(got[t]) + 1
                   PROVE  \/ Fits(call[t].paths[i], g[i])
                          \/ call[t].fn = "mkdir" /\ g[i].dir = "tmp"
                          \/ call[t].fn = "access" /\ InTree(call[t]) /\ i = 1
        BY <3>1
      <4>1. CASE i = Len(got[t]) + 1
        BY <1>13, <1>19, <3>1, <4>1
      <4>2. CASE i \in 1 .. Len(got[t])
        BY <1>14, <3>1, <4>2 DEF ThreadIsRight
      <4> QED
        BY <3>1, <4>1, <4>2
    <3>4. Len(g) <= Len(call[t].paths)
      <4>1. call[t].paths \in Seq(Paths)
        BY <1>13, PathsAreTyped
      <4> QED
        BY <1>13, <3>1, <4>1
    <3>5. g # <<>> /\ g[Len(g)] = r /\ call[t].paths[Len(g)] = Path(t)
      BY <1>13, <3>1
    <3>6. ThreadIsRight(t, "store", call[t], g)
      BY <1>13, <1>15, <1>19, <2>2, <3>3, <3>4, <3>5 DEF ThreadIsRight
    <3> QED
      BY <3>1, <3>2, <3>6
  <2> QED
    BY <2>1, <2>2
<1>21. /\ call' \in [Threads -> Calls \cup {None}]
       /\ got' \in [Threads -> Seq(Results)]
       /\ Threaded'
  <2>1. call' = [call EXCEPT ![t] = call[t]] /\ l \in Labels /\ call[t] \in Calls \cup {None}
    BY <1>1, <1>13 DEF AInv, AnswerTypes, Labels
  <2> QED
    BY <1>1, <1>20, <2>1, ThreadMoves
<1>22. OfWriter(p)' = OfWriter(p)
  <2>1. pc \in [Threads -> Labels] /\ callLock[p] \in Threads \cup {None}
    BY <1>2 DEF IInv, OnceTypes
  <2>2. \A u \in Threads \ {t} : pc'[u] = pc[u] /\ Path(u)' = Path(u)
    BY <1>1, <1>2, <1>20, <2>1 DEF GoTo, Path
  <2> QED
    BY <1>1, <1>9, <2>1, <2>2 DEF OfWriter
<1>23. Asked(p)' = Tail(Asked(p))
  BY <1>10, <1>16, <1>17, <1>22 DEF Asked
<1>24. InOrder(Asked(p)', Len(Returned(p)'), requests')
  <2>1. Len(Returned(p)) # 0 /\ Len(Returned(p)') = Len(Returned(p)) - 1 /\ requests' = requests
    BY <1>1, <1>8
  <2>2. InOrder(Tail(Asked(p)), Len(Returned(p)) - 1, requests)
    BY <1>11, <1>12, <2>1, TakenInOrder
  <2> QED
    BY <1>23, <2>1, <2>2
<1>25. ASSUME NEW k \in DOMAIN Returned(p)'  PROVE Given(Asked(p)[k], Returned(p)[k])'
  <2>1. PICK line, s : line = Asked(p)'[k] /\ s = Returned(p)'[k]
    OBVIOUS
  <2>2. k \in 1 .. Len(Returned(p)) - 1 /\ k + 1 \in DOMAIN Returned(p)
    BY <1>8
  <2>3. k \in 1 .. Len(Asked(p)) - 1
    BY <1>8, <1>11, <1>12, <2>2 DEF InOrder
  <2>4. line = Asked(p)[k + 1] /\ s = Returned(p)[k + 1]
    BY <1>8, <1>17, <1>23, <2>1, <2>2, <2>3
  <2>5. Given(line, s)
    BY <1>11, <2>2, <2>4
  <2> DEFINE none == [cmd |-> "", name |-> ""]
  <2>6. IsLine(none) /\ Learns(none)
    BY <1>1 DEF IsLine, Learns
  <2> HIDE DEF none
  <2>7. Given(line, s)'
    BY <2>5, <2>6, GivenLasts
  <2> QED
    BY <2>1, <2>7
<1> QED
  BY <1>7, <1>21, <1>24, <1>25

LEMMA ReadAnswerAnswers ==
  ASSUME AInv, IInv, SingleProcess, NEW t \in Threads, ReadAnswer(t)
  PROVE  AInv'
<1>1. UNCHANGED <<call, callLock, requests, known, oncePtr, onceMutex, cache, gone>>
  BY DEF ReadAnswer, initVars
<1>2. ProcOf[t] \in Procs
  BY DEF Procs
<1>3. /\ call' \in [Threads -> Calls \cup {None}] /\ got' \in [Threads -> Seq(Results)]
      /\ Threaded'
      /\ answers' \in Seq(Results) /\ readAhead' \in [Procs -> Seq(Results)]
  BY <1>2, AnswerIsTaken
<1>4. NobodyIsOvertaken'
  BY AnswerIsTaken DEF NobodyIsOvertaken, InOrder
<1>5. requests' \in Seq(Lines)
  BY <1>1, <1>2, AskedIsTyped
<1> QED
  BY <1>1, <1>3, <1>4, <1>5, KnownKeeps

LEMMA AppendToConcat ==
  ASSUME NEW S, NEW s \in Seq(S), NEW r \in Seq(S), NEW x \in S
  PROVE  s \o Append(r, x) = Append(s \o r, x)
OBVIOUS

\* Ekam reads a line that it answers.
LEMMA AnsweredIsGiven ==
  ASSUME AInv, NEW line \in Lines, NEW r, r = Answer(line), known' = Remember(line),
         line.cmd \notin {"newProvider", "noteInput"}
  PROVE  Given(line, r)'
<1>1. Learns(line)
  BY DEF Learns
<1>2. r = Answer(line)
  OBVIOUS
<1>3. CASE Settled(line)
  <2>1. Settled(line)' /\ Answer(line)' = r
    BY <1>1, <1>2, <1>3, AnswerLasts
  <2> QED
    BY <2>1 DEF Given
<1>4. CASE known' = known
  <2>1. Answer(line)' = Answer(line)
    BY <1>4 DEF Answer
  <2>2. r = NotFound \/ Settled(line)
    <3>1. ASSUME r # NotFound, ~Settled(line)  PROVE FALSE
      <4>1. line.cmd = "findInput" /\ Answer(line).dir = "tmp"
        <5>1. line \notin DOMAIN known
          BY <3>1 DEF Settled
        <5>2. known' # known \/ (line.cmd = "findInput" /\ Answer(line).dir = "tmp")
          BY <1>2, <3>1, <5>1 DEF Remember
        <5> QED
          BY <1>4, <5>2
      <4>2. Answer(line) \in {Found("src", line.name), NotFound}
        BY <3>1, <4>1 DEF Answer, Settled
      <4> QED
        BY <4>1, <4>2 DEF Found, NotFound, Errno
    <3> QED
      BY <3>1
  <2> QED
    BY <1>2, <1>3, <2>1, <2>2 DEF Given
<1>5. CASE known' = [l \in DOMAIN known \cup {line} |-> IF l = line THEN Answer(line) ELSE known[l]]
  <2>1. Answer(line)' = r /\ Settled(line)'
    BY <1>2, <1>5 DEF Answer, Settled
  <2> QED
    BY <2>1 DEF Given
<1> QED
  BY <1>4, <1>5 DEF Remember

LEMMA ConsumeAnswers ==
  ASSUME AInv, IInv, SingleProcess, Consume
  PROVE  AInv'
<1>1. requests # <<>> /\ requests \in Seq(Lines)
  BY DEF Consume, AInv, AnswerTypes, Lines
<1>2. PICK line \in Lines : line = Head(requests)
  BY <1>1
<1>a. Tail(requests) \in Seq(Lines)
  BY <1>1
<1>b. /\ requests' = Tail(requests)
      /\ UNCHANGED <<pc, call, got, oncePtr, onceMutex, callLock, returnLock, readAhead, cache>>
      /\ \/ /\ gone' = [p \in Procs |-> IF gone[p] = "" THEN "killed" ELSE gone[p]]
            /\ UNCHANGED <<answers, known>>
         \/ line.cmd = "noteInput" /\ UNCHANGED <<answers, known, gone>>
         \/ /\ line.cmd \notin {"newProvider", "noteInput"}
            /\ answers' = Append(answers, Answer(line)) /\ known' = Remember(line)
            /\ UNCHANGED gone
  BY <1>2 DEF Consume, initVars, streamVars
<1>3. PICK path \in Paths : line = Line(path)
  BY <1>2 DEF Lines
<1>4. IsLine(line)
  BY <1>3, LinesAreTyped
<1>5. Learns(line)
  BY <1>b DEF Learns
<1>6. Threaded' /\ CacheIsRight'
  BY <1>b, <1>1, <1>4, <1>5, ThreadsLearn, CacheLearns DEF AInv, Threaded
<1>7. Answer(line) \in Results /\ (line.cmd = "newOutput" => Answer(line).dir = "tmp")
  BY <1>3, AnswerIsTyped DEF AInv
<1>8. CreatedUnderTmp'
  <2>1. \A l \in DOMAIN known' : \/ l \in DOMAIN known /\ known'[l] = known[l]
                                 \/ l = line /\ known'[l] = Answer(line)
    BY <1>5, KnownGrows
  <2> QED
    BY <1>7, <2>1 DEF AInv, CreatedUnderTmp
<1>9. AnswerTypes'
  <2>1. requests' \in Seq(Lines)
    BY <1>1, <1>2, <1>a, <1>b
  <2>2. answers' \in Seq(Results)
    <3>1. answers \in Seq(Results)
      BY DEF AInv, AnswerTypes
    <3>2. Append(answers, Answer(line)) \in Seq(Results)
      BY <1>7, <3>1, AppendIsTyped
    <3> QED
      BY <1>b, <3>1, <3>2
  <2>3. gone' \in [Procs -> {"", "assert", "pthread_once is broken", "killed"}]
    BY <1>b DEF AInv, AnswerTypes
  <2> QED
    BY <1>b, <1>1, <2>1, <2>2, <2>3 DEF AInv, AnswerTypes, Lines
<1>10. ASSUME NEW p \in Procs, gone'[p] = ""
       PROVE  /\ InOrder(Asked(p)', Len(Returned(p)'), requests')
              /\ \A k \in DOMAIN Returned(p)' : Given(Asked(p)[k], Returned(p)[k])'
  <2>1. /\ \/ line.cmd = "noteInput" /\ UNCHANGED answers
           \/ /\ line.cmd \notin {"newProvider", "noteInput"}
              /\ answers' = Append(answers, Answer(line)) /\ known' = Remember(line)
        /\ UNCHANGED gone
    <3>1. ~(gone' = [q \in Procs |-> IF gone[q] = "" THEN "killed" ELSE gone[q]])
      BY <1>10
    <3> QED
      BY <1>b, <1>1, <3>1
  <2>2. /\ InOrder(Asked(p), Len(Returned(p)), requests)
        /\ \A k \in DOMAIN Returned(p) : Given(Asked(p)[k], Returned(p)[k])
    BY <1>10, <2>1 DEF AInv, NobodyIsOvertaken
  <2>3. Asked(p)' = Asked(p)
    BY <1>b DEF Asked, OfReader, OfWriter, Path
  <2>4. Asked(p) \in Seq(Lines)
    BY AskedIsTyped
  <2>5. ASSUME NEW k \in DOMAIN Returned(p)
        PROVE  \A x, r : x = Asked(p)[k] /\ r = Returned(p)[k] => Given(x, r)'
    <3> SUFFICES ASSUME NEW x, NEW r, x = Asked(p)[k], r = Returned(p)[k]  PROVE Given(x, r)'
      OBVIOUS
    <3>1. PICK l : l = line
      OBVIOUS
    <3> QED
      BY <1>4, <1>5, <2>2, <3>1, GivenLasts
  <2>6. CASE line.cmd = "noteInput" /\ UNCHANGED answers
    <3>1. Returned(p)' = Returned(p)
      BY <1>b, <1>1, <2>6 DEF Returned
    <3>2. InOrder(Asked(p), Len(Returned(p)), Tail(requests))
      BY <1>1, <1>2, <1>a, <1>b, <2>2, <2>4, <2>6, NoteReadInOrder
    <3>3. ASSUME NEW k \in DOMAIN Returned(p)'  PROVE Given(Asked(p)[k], Returned(p)[k])'
      <4>1. PICK x, r : x = Asked(p)'[k] /\ r = Returned(p)'[k]
        OBVIOUS
      <4>2. Given(x, r)'
        BY <2>3, <2>5, <3>1, <4>1
      <4> QED
        BY <4>1, <4>2
    <3> QED
      BY <1>b, <1>1, <2>3, <3>1, <3>2, <3>3
  <2>7. CASE /\ line.cmd \notin {"newProvider", "noteInput"}
             /\ answers' = Append(answers, Answer(line)) /\ known' = Remember(line)
    <3> DEFINE n == Len(Returned(p))
    <3>1. /\ n + 1 \in DOMAIN Asked(p) /\ Asked(p)[n + 1] = line
          /\ InOrder(Asked(p), n + 1, Tail(requests))
      BY <1>1, <1>2, <1>a, <1>b, <2>2, <2>4, <2>7, AnsweredInOrder
    <3>2. /\ Returned(p)' = Append(Returned(p), Answer(line)) /\ n \in Nat
          /\ DOMAIN Returned(p) = 1 .. n
          /\ Len(Returned(p)') = n + 1 /\ DOMAIN Returned(p)' = 1 .. n + 1
          /\ Returned(p)'[n + 1] = Answer(line)
          /\ \A k \in 1 .. n : Returned(p)'[k] = Returned(p)[k]
      <4>1. readAhead[p] \in Seq(Results) /\ answers \in Seq(Results)
        BY DEF AInv, AnswerTypes
      <4>2. Returned(p)' = Append(Returned(p), Answer(line))
        <5>1. readAhead[p] \o Append(answers, Answer(line)) = Append(Returned(p), Answer(line))
          <6>1. readAhead[p] \o Append(answers, Answer(line)) = Append(readAhead[p] \o answers, Answer(line))
            <7>1. PICK x \in Results : x = Answer(line)
              BY <1>7
            <7>2. readAhead[p] \o Append(answers, x) = Append(readAhead[p] \o answers, x)
              <8>1. PICK s, r : s = readAhead[p] /\ r = answers
                OBVIOUS
              <8>2. s \in Seq(Results) /\ r \in Seq(Results) /\ x \in Results
                BY <4>1, <7>1, <8>1
              <8>3. s \o Append(r, x) = Append(s \o r, x)
                BY <8>2, AppendToConcat
              <8> QED
                BY <8>1, <8>3
            <7> QED
              BY <7>1, <7>2
          <6> QED
            BY <6>1 DEF Returned
        <5> QED
          BY <1>b, <2>7, <5>1 DEF Returned
      <4>3. Returned(p) \in Seq(Results)
        BY <4>1, ConcatIsTyped DEF Returned
      <4> QED
        BY <1>7, <4>2, <4>3
    <3> HIDE DEF n
    <3>3. ASSUME NEW k \in DOMAIN Returned(p)'  PROVE Given(Asked(p)[k], Returned(p)[k])'
      <4>1. PICK x, r : x = Asked(p)'[k] /\ r = Returned(p)'[k]
        OBVIOUS
      <4>2. CASE k \in 1 .. n
        <5>1. Given(x, r)'
          BY <2>3, <2>5, <3>2, <4>1, <4>2
        <5> QED
          BY <4>1, <5>1
      <4>3. CASE k = n + 1
        <5>1. x = line /\ r = Answer(line)
          BY <2>3, <3>1, <3>2, <4>1, <4>3
        <5>2. Remember(x) = Remember(line) /\ x.cmd \notin {"newProvider", "noteInput"} /\ x \in Lines
              /\ r = Answer(x)
          BY <1>2, <2>7, <5>1
        <5>3. Given(x, r)'
          BY <2>7, <5>2, AnsweredIsGiven
        <5> QED
          BY <4>1, <5>3
      <4> QED
        BY <3>2, <4>2, <4>3
    <3> QED
      BY <1>b, <1>1, <2>3, <3>1, <3>2, <3>3
  <2> QED
    BY <2>1, <2>6, <2>7
<1>11. NobodyIsOvertaken'
  BY <1>10 DEF NobodyIsOvertaken, InOrder
<1> QED
  BY <1>6, <1>8, <1>9, <1>11 DEF AInv, Threaded

-----------------------------------------------------------------------------
LEMMA NextAnswers ==
  ASSUME AInv, IInv, SingleProcess, [Next]_vars
  PROVE  AInv'
<1>1. CASE UNCHANGED vars
  <2>1. UNCHANGED <<pc, call, got, callLock, returnLock, known, cache, oncePtr, onceMutex, gone,
                    readAhead, requests, answers>>
    BY <1>1 DEF vars, initVars, streamVars, pipeVars
  <2>2. \A p \in Procs : Asked(p)' = Asked(p)
    BY <2>1 DEF Asked, OfReader, OfWriter, Path
  <2>3. NobodyIsOvertaken'
    BY <2>1, <2>2, NobodyIsDisturbed
  <2> DEFINE none == [cmd |-> "", name |-> ""]
  <2>4. IsLine(none) /\ Learns(none)
    BY <2>1 DEF IsLine, Learns
  <2> HIDE DEF none
  <2>5. Threaded'
    BY <2>1, <2>4, ThreadsLearn DEF AInv, Threaded
  <2>6. /\ call' \in [Threads -> Calls \cup {None}] /\ got' \in [Threads -> Seq(Results)]
        /\ requests' \in Seq(Lines) /\ answers' \in Seq(Results) /\ readAhead' \in [Procs -> Seq(Results)]
    BY <2>1 DEF AInv, AnswerTypes, Lines
  <2> QED
    BY <2>1, <2>3, <2>5, <2>6, KnownKeeps
<1>2. ASSUME NEW t \in Threads, ThreadStep(t)
      PROVE  AInv'
  BY <1>2, OnceAnswers, LookInCacheAnswers, LockCallAnswers, AnswerHereAnswers, NoteInputAnswers,
     AskAnswers, HandOverAnswers, ReadAnswerAnswers, CacheResultAnswers, FinishAnswers
     DEF ThreadStep
<1>3. ASSUME NEW t \in Threads, NEW c \in CallsOf[t], Begin(t, c)
      PROVE  AInv'
  BY <1>3, BeginAnswers
<1> QED
  BY <1>1, <1>2, <1>3, ConsumeAnswers DEF Next

LEMMA InitAnswers ==
  ASSUME Init
  PROVE  AInv
<1>1. /\ pc = [t \in Threads |-> "idle"] /\ call = [t \in Threads |-> None]
      /\ got = [t \in Threads |-> <<>>]
      /\ oncePtr = [p \in Procs |-> None] /\ onceMutex = [p \in Procs |-> None]
      /\ callLock = [p \in Procs |-> None] /\ returnLock = [p \in Procs |-> None]
      /\ readAhead = [p \in Procs |-> <<>>] /\ cache = [p \in Procs |-> None]
      /\ requests = <<>> /\ answers = <<>> /\ known = [l \in {} |-> None]
      /\ gone = [p \in Procs |-> ""]
  BY DEF Init
<1>2. \A S : <<>> \in Seq(S)
  OBVIOUS
<1>3. AnswerTypes
  BY <1>1, <1>2 DEF AnswerTypes
<1>4. CreatedUnderTmp /\ CacheIsRight
  BY <1>1 DEF CreatedUnderTmp, CacheIsRight
<1>5. Threaded
  <2>1. DOMAIN <<>> = {}
    OBVIOUS
  <2> QED
    BY <1>1, <2>1 DEF Threaded, ThreadIsRight
<1>6. NobodyIsOvertaken
  <2> SUFFICES ASSUME NEW p \in Procs
               PROVE  /\ InOrder(Asked(p), Len(Returned(p)), requests)
                      /\ \A k \in DOMAIN Returned(p) : Given(Asked(p)[k], Returned(p)[k])
    BY DEF NobodyIsOvertaken
  <2>1. Asked(p) = <<>> /\ Returned(p) = <<>>
    <3>1. OfReader(p) = <<>> /\ OfWriter(p) = <<>> /\ readAhead[p] = <<>> /\ answers = <<>>
      BY <1>1 DEF OfReader, OfWriter
    <3>2. <<>> \o <<>> = <<>>
      OBVIOUS
    <3> QED
      BY <3>1, <3>2 DEF Asked, Returned
  <2>2. InOrder(<<>>, 0, <<>>)
    <3> DEFINE none == [k \in {} |-> 0]
    <3>1. DOMAIN <<>> = {} /\ Len(<<>>) = 0 /\ 1 .. 0 - 0 = {} /\ DOMAIN none = {}
      OBVIOUS
    <3>2. none \in [{} -> {}]
      OBVIOUS
    <3> HIDE DEF none
    <3>3. none \in [1 .. Len(<<>>) - 0 -> DOMAIN <<>>] /\ 0 \in 0 .. Len(<<>>)
      BY <3>1, <3>2
    <3> QED
      BY <3>1, <3>3 DEF InOrder
  <2>3. Len(<<>>) = 0 /\ DOMAIN <<>> = {}
    OBVIOUS
  <2> QED
    BY <1>1, <2>1, <2>2, <2>3
<1> QED
  BY <1>3, <1>4, <1>5, <1>6 DEF AInv, Threaded

\* Every answer that a thread, the cache or the pipe holds is the one that Ekam
\* gives to the question it belongs to.
THEOREM AnswersInvariant ==
  ASSUME SingleProcess
  PROVE  Spec => []AInv
<1>1. Init => AInv
  BY InitAnswers
<1>2. AInv /\ IInv /\ [Next]_vars => AInv'
  BY NextAnswers
<1> QED
  BY <1>1, <1>2, Invariant, PTL DEF Spec

\* The last answer, which remap_file() returns without asking again, is the one that
\* Ekam would give.
THEOREM CacheStaysCurrent ==
  ASSUME SingleProcess
  PROVE  Spec => []CacheIsCurrent
<1>1. AInv => CacheIsCurrent
  <2> SUFFICES ASSUME AInv, NEW p \in Procs, cache[p] # None
               PROVE  cache[p].result = Reference(cache[p].path)
    BY DEF CacheIsCurrent
  <2>1. Fits(cache[p].path, cache[p].result) /\ cache[p].result # NotFound
    BY DEF AInv, CacheIsRight
  <2> QED
    BY <2>1 DEF Fits, Given, Reference
<1> QED
  BY <1>1, AnswersInvariant, PTL

\* Whoever asks at the same time, a thread gets the answer to its own question, or
\* learns that a file is not there, which another thread has created since.
LEMMA FitsIsTheAnswer ==
  ASSUME NEW path \in PathType, NEW r, Fits(path, r)
  PROVE  \/ r = Reference(path)
         \/ r = NotFound /\ Line(File(path.kind, path.parts, "WRITE")) \in DOMAIN known
<1>1. CASE r = Reference(path)
  BY <1>1
<1>2. CASE r # Reference(path)
  <2>1. /\ r = NotFound /\ path.kind \notin {"abs", "deps"}
        /\ Line(path).cmd = "findInput" /\ Written(Line(path)) \in DOMAIN known
    BY <1>2 DEF Fits, Given, Reference
  <2>2. path.kind # "tag" /\ path.usage = "READ"
    BY <2>1 DEF Line
  <2> DEFINE out == File(path.kind, path.parts, "WRITE")
  <2>3. out.kind = path.kind /\ out.parts = path.parts /\ out.usage = "WRITE"
    BY DEF File
  <2> HIDE DEF out
  <2>4. Line(out) = Written(Line(path))
    BY <2>1, <2>2, <2>3 DEF Line, Written, AskedName
  <2> QED
    BY <2>1, <2>4 DEF out
<1> QED
  BY <1>1, <1>2

\* A file that is opened to be written, or that is asked about in order to write it,
\* is not one of the sources.
LEMMA WrittenIsNoSource ==
  ASSUME AInv, NEW path \in PathType, path.usage = "WRITE", NEW r, Fits(path, r)
  PROVE  r.dir # "src"
<1>1. CASE path.kind = "long"
  BY <1>1 DEF Fits, Errno, Found
<1>2. CASE Unasked(path) # None
  <2>1. Unasked(path) \in {Found("same", <<".">>), Same(path), Errno("EACCES"), None}
    BY DEF Unasked
  <2> QED
    BY <1>1, <1>2, <2>1 DEF Fits, Same, Errno, Found
<1>3. CASE path.kind \in {"abs", "deps"}
  BY <1>1, <1>2, <1>3 DEF Fits, Same, Found
<1>4. CASE path.kind \notin {"long", "abs", "deps"} /\ Unasked(path) = None
  <2>1. Given(Line(path), r)
    BY <1>4 DEF Fits
  <2>2. Line(path).cmd = "newOutput"
    BY <1>4, <2>1 DEF Given, Line
  <2>3. CASE r = NotFound
    BY <2>3 DEF NotFound, Errno, Found
  <2>4. CASE r # NotFound
    <3>1. r = Answer(Line(path)) /\ Line(path) \in DOMAIN known
      BY <2>1, <2>2, <2>4 DEF Given, Settled
    <3>2. r = known[Line(path)]
      BY <3>1 DEF Answer
    <3> QED
      BY <2>2, <3>1, <3>2 DEF AInv, CreatedUnderTmp
  <2> QED
    BY <2>3, <2>4
<1> QED
  BY <1>1, <1>2, <1>3, <1>4

LEMMA GotIsRight ==
  ASSUME AInv, NEW t \in Threads, NEW i \in DOMAIN got[t]
  PROVE  /\ call[t] \in CallsOf[t] /\ i \in 1 .. Len(call[t].paths)
         /\ call[t].paths[i] \in PathType
         /\ got[t][i] \in Results
         /\ \/ Fits(call[t].paths[i], got[t][i])
            \/ call[t].fn = "mkdir" /\ got[t][i].dir = "tmp"
            \/ call[t].fn = "access" /\ InTree(call[t]) /\ i = 1
<1>1. ThreadIsRight(t, pc[t], call[t], got[t]) /\ got[t] \in Seq(Results)
  BY DEF AInv, Threaded, AnswerTypes
<1>2. got[t] # <<>> /\ i \in 1 .. Len(got[t]) /\ got[t][i] \in Results
  BY <1>1
<1>3. call[t] \in CallsOf[t] /\ Len(got[t]) <= Len(call[t].paths)
  BY <1>1, <1>2 DEF ThreadIsRight
<1>4. call[t].paths \in Seq(Paths) /\ Paths \subseteq PathType
  BY <1>3, PathsAreTyped
<1>5. i \in 1 .. Len(call[t].paths)
  BY <1>1, <1>2, <1>3, <1>4
<1>6. call[t].paths[i] \in PathType
  BY <1>4, <1>5
<1> QED
  BY <1>1, <1>2, <1>3, <1>5, <1>6 DEF ThreadIsRight

(***************************************************************************)
(* The names that canonicalizePath() makes.  After n parts the stack holds *)
(* ".." as often as the path has climbed above where it starts, and behind *)
(* them the names that none of the n parts has undone, each with the place *)
(* that it was taken from.                                                 *)
(***************************************************************************)
\* How a part moves.
Rise(part) == IF part = ".." THEN 1 ELSE IF IsName(part) THEN -1 ELSE 0

LEMMA ClimbTypes ==
  ASSUME NEW parts, NEW from \in Nat, NEW to \in Nat
  PROVE  Climb(parts, from, to) \in Int
<1>1. IsFiniteSet(from .. to)
  BY FS_Interval
<1>2. PICK U, N : U = {i \in from .. to : parts[i] = ".."} /\ N = {i \in from .. to : IsName(parts[i])}
  OBVIOUS
<1>3. U \in SUBSET (from .. to) /\ N \in SUBSET (from .. to)
  BY <1>2
<1>4. Cardinality(U) \in Nat /\ Cardinality(N) \in Nat
  BY <1>1, <1>3, FS_Subset, FS_CardinalityType
<1> QED BY <1>2, <1>4 DEF Climb

LEMMA ClimbNone ==
  ASSUME NEW parts, NEW n \in Nat
  PROVE  Climb(parts, n + 1, n) = 0
<1>1. PICK U, N : U = {i \in n + 1 .. n : parts[i] = ".."} /\ N = {i \in n + 1 .. n : IsName(parts[i])}
  OBVIOUS
<1>2. U = {} /\ N = {}
  BY <1>1
<1>3. Cardinality(U) = 0 /\ Cardinality(N) = 0
  BY <1>2, FS_EmptySet
<1>4. Climb(parts, n + 1, n) = Cardinality(U) - Cardinality(N)
  BY <1>1 DEF Climb
<1> QED BY <1>3, <1>4

LEMMA ClimbStep ==
  ASSUME NEW parts, NEW from \in Nat, NEW n \in Nat, from <= n + 1
  PROVE  Climb(parts, from, n + 1) = Climb(parts, from, n) + Rise(parts[n + 1])
<1>1. IsFiniteSet(from .. n) /\ n + 1 \notin from .. n /\ from .. n + 1 = (from .. n) \cup {n + 1}
  BY FS_Interval
<1>2. PICK U, N : U = {i \in from .. n : parts[i] = ".."} /\ N = {i \in from .. n : IsName(parts[i])}
  OBVIOUS
<1>3. U \in SUBSET (from .. n) /\ N \in SUBSET (from .. n) /\ n + 1 \notin U /\ n + 1 \notin N
  BY <1>1, <1>2
<1>4. IsFiniteSet(U) /\ IsFiniteSet(N)
  BY <1>1, <1>3, FS_Subset
<1>5. /\ Cardinality(U) \in Nat /\ Cardinality(N) \in Nat
      /\ Cardinality(U \cup {n + 1}) = Cardinality(U) + 1
      /\ Cardinality(N \cup {n + 1}) = Cardinality(N) + 1
  BY <1>3, <1>4, FS_AddElement, FS_CardinalityType
<1>6. PICK V, M : /\ V = {i \in from .. n + 1 : parts[i] = ".."}
                   /\ M = {i \in from .. n + 1 : IsName(parts[i])}
  OBVIOUS
<1>7. /\ V = IF parts[n + 1] = ".." THEN U \cup {n + 1} ELSE U
      /\ M = IF IsName(parts[n + 1]) THEN N \cup {n + 1} ELSE N
  BY <1>1, <1>2, <1>6
<1>8. /\ Climb(parts, from, n) = Cardinality(U) - Cardinality(N)
      /\ Climb(parts, from, n + 1) = Cardinality(V) - Cardinality(M)
  BY <1>2, <1>6 DEF Climb
<1>9. parts[n + 1] = ".." => ~IsName(parts[n + 1])
  BY DEF IsName
<1> QED BY <1>5, <1>7, <1>8, <1>9 DEF Rise

\* A name among the first n parts that none of the others has undone.
Lasts(parts, n, i) == IsName(parts[i]) /\ \A m \in i + 1 .. n : Climb(parts, i + 1, m) <= 0

\* The stack after n parts: ".." as often as the path has climbed above where it
\* starts, and behind them the names, which were at these places.
StackIs(parts, n, kept, locked, at) ==
  /\ kept \in Seq(STRING) /\ locked \in 0 .. Len(kept)
  /\ at \in [1 .. Len(kept) - locked -> 1 .. n]
  /\ \A i \in 1 .. locked : kept[i] = ".."
  /\ \A j \in DOMAIN at :
       /\ kept[locked + j] = parts[at[j]]
       /\ Climb(parts, at[j] + 1, n) = j - (Len(kept) - locked)
  /\ \A i, j \in DOMAIN at : i < j => at[i] < at[j]
  /\ \A i \in 1 .. n : Lasts(parts, n, i) <=> i \in {at[j] : j \in DOMAIN at}
  /\ Climb(parts, 1, n) = locked - (Len(kept) - locked)
  /\ \A m \in 0 .. n : Climb(parts, 1, m) <= locked
  /\ \E m \in 0 .. n : Climb(parts, 1, m) = locked

LEMMA StackBegins ==
  ASSUME NEW parts
  PROVE  \E at : StackIs(parts, 0, <<>>, 0, at)
<1>1. PICK at : at = [j \in 1 .. 0 |-> j]
  OBVIOUS
<1>2. /\ <<>> \in Seq(STRING) /\ Len(<<>>) = 0 /\ 1 .. 0 = {} /\ 0 .. 0 = {0} /\ 0 - 0 = 0
      /\ DOMAIN at = {} /\ at \in [1 .. 0 -> 1 .. 0]
  BY <1>1
<1>3. Climb(parts, 1, 0) = 0
  <2>1. Climb(parts, 0 + 1, 0) = 0
    BY ClimbNone
  <2> QED BY <2>1
<1>4. StackIs(parts, 0, <<>>, 0, at)
  BY <1>2, <1>3 DEF StackIs
<1> QED BY <1>4

\* What one more part does to the names that last.
LEMMA LastsNext ==
  ASSUME NEW parts, NEW n \in Nat
  PROVE  /\ \A i \in 1 .. n :
              Lasts(parts, n + 1, i) <=>
                Lasts(parts, n, i) /\ Climb(parts, i + 1, n) + Rise(parts[n + 1]) <= 0
         /\ Lasts(parts, n + 1, n + 1) <=> IsName(parts[n + 1])
<1>1. ASSUME NEW i \in 1 .. n
      PROVE  Lasts(parts, n + 1, i) <=>
               Lasts(parts, n, i) /\ Climb(parts, i + 1, n) + Rise(parts[n + 1]) <= 0
  <2>1. i + 1 .. n + 1 = (i + 1 .. n) \cup {n + 1}
    OBVIOUS
  <2>2. Climb(parts, i + 1, n + 1) = Climb(parts, i + 1, n) + Rise(parts[n + 1])
    <3>1. i + 1 \in Nat /\ i + 1 <= n + 1
      OBVIOUS
    <3> QED BY <3>1, ClimbStep
  <2> QED BY <2>1, <2>2 DEF Lasts
<1>2. n + 1 + 1 .. n + 1 = {}
  OBVIOUS
<1> QED BY <1>1, <1>2 DEF Lasts

LEMMA HighestNext ==
  ASSUME NEW parts, NEW n \in Nat, NEW h \in Int,
         \A m \in 0 .. n : Climb(parts, 1, m) <= h
  PROVE  /\ Climb(parts, 1, n + 1) = Climb(parts, 1, n) + Rise(parts[n + 1])
         /\ \A g \in Int : h <= g /\ Climb(parts, 1, n + 1) <= g => \A m \in 0 .. n + 1 : Climb(parts, 1, m) <= g
<1>1. Climb(parts, 1, n + 1) = Climb(parts, 1, n) + Rise(parts[n + 1])
  BY ClimbStep
<1>2. 0 .. n + 1 = (0 .. n) \cup {n + 1}
  OBVIOUS
<1>3. \A m \in 0 .. n : Climb(parts, 1, m) \in Int
  BY ClimbTypes
<1> QED BY <1>1, <1>2, <1>3

\* A part that is empty, or ".".
LEMMA StackKeeps ==
  ASSUME NEW parts, NEW n \in Nat, NEW kept, NEW locked, NEW at,
         StackIs(parts, n, kept, locked, at), Rise(parts[n + 1]) = 0
  PROVE  StackIs(parts, n + 1, kept, locked, at)
<1>1. ~IsName(parts[n + 1])
  <2>1. parts[n + 1] # ".." /\ IsName(parts[n + 1]) => Rise(parts[n + 1]) = -1
    BY DEF Rise
  <2>2. parts[n + 1] = ".." => Rise(parts[n + 1]) = 1
    BY DEF Rise
  <2> QED BY <2>1, <2>2
<1>2. /\ kept \in Seq(STRING) /\ locked \in 0 .. Len(kept) /\ Len(kept) \in Nat
      /\ at \in [1 .. Len(kept) - locked -> 1 .. n] /\ DOMAIN at = 1 .. Len(kept) - locked
  BY DEF StackIs
<1>3. at \in [1 .. Len(kept) - locked -> 1 .. n + 1]
  BY <1>2
<1>4. \A j \in DOMAIN at : Climb(parts, at[j] + 1, n + 1) = j - (Len(kept) - locked)
  <2>1. ASSUME NEW j \in DOMAIN at PROVE Climb(parts, at[j] + 1, n + 1) = j - (Len(kept) - locked)
    <3>1. at[j] + 1 \in Nat /\ at[j] + 1 <= n + 1
      BY <1>2
    <3>2. Climb(parts, at[j] + 1, n + 1) = Climb(parts, at[j] + 1, n) + Rise(parts[n + 1])
      BY <3>1, ClimbStep
    <3>3. Climb(parts, at[j] + 1, n) = j - (Len(kept) - locked)
      BY DEF StackIs
    <3> QED BY <1>2, <3>2, <3>3
  <2> QED BY <2>1
<1>5. \A i \in 1 .. n + 1 : Lasts(parts, n + 1, i) <=> i \in {at[j] : j \in DOMAIN at}
  <2>1. ASSUME NEW i \in 1 .. n PROVE Lasts(parts, n + 1, i) <=> Lasts(parts, n, i)
    <3>1. Climb(parts, i + 1, n) \in Int
      BY ClimbTypes
    <3>2. Lasts(parts, n, i) => Climb(parts, i + 1, n) <= 0
      <4>1. CASE i = n
        <5>1. Climb(parts, n + 1, n) = 0
          BY ClimbNone
        <5> QED BY <4>1, <5>1
      <4>2. CASE i # n
        <5>1. n \in i + 1 .. n
          BY <4>2
        <5> QED BY <5>1 DEF Lasts
      <4> QED BY <4>1, <4>2
    <3> QED BY <3>1, <3>2, LastsNext
  <2>2. n + 1 \notin {at[j] : j \in DOMAIN at}
    BY <1>2
  <2>3. ~Lasts(parts, n + 1, n + 1)
    BY <1>1, LastsNext
  <2>4. \A i \in 1 .. n + 1 : i \in 1 .. n \/ i = n + 1
    OBVIOUS
  <2> QED BY <2>1, <2>2, <2>3, <2>4 DEF StackIs
<1>6. /\ Climb(parts, 1, n + 1) = locked - (Len(kept) - locked)
      /\ \A m \in 0 .. n + 1 : Climb(parts, 1, m) <= locked
      /\ \E m \in 0 .. n + 1 : Climb(parts, 1, m) = locked
  <2>1. /\ Climb(parts, 1, n) = locked - (Len(kept) - locked)
        /\ \A m \in 0 .. n : Climb(parts, 1, m) <= locked
        /\ \E m \in 0 .. n : Climb(parts, 1, m) = locked
    BY DEF StackIs
  <2>2. locked \in Int /\ Len(kept) - locked \in Nat
    BY <1>2
  <2>3. Climb(parts, 1, n + 1) = Climb(parts, 1, n) + Rise(parts[n + 1])
    BY <2>1, <2>2, HighestNext
  <2>4. Climb(parts, 1, n + 1) = locked - (Len(kept) - locked)
    BY <2>1, <2>2, <2>3
  <2>5. Climb(parts, 1, n + 1) <= locked
    BY <2>2, <2>4
  <2>6. \A m \in 0 .. n + 1 : Climb(parts, 1, m) <= locked
    BY <2>1, <2>2, <2>5, HighestNext
  <2>7. \A m \in 0 .. n : m \in 0 .. n + 1
    OBVIOUS
  <2> QED BY <2>1, <2>4, <2>6, <2>7
<1> QED BY <1>2, <1>3, <1>4, <1>5, <1>6 DEF StackIs

\* A name.
LEMMA StackGrows ==
  ASSUME NEW parts \in Seq(STRING), NEW n \in Nat, n < Len(parts), NEW kept, NEW locked, NEW at,
         StackIs(parts, n, kept, locked, at), IsName(parts[n + 1])
  PROVE  \E x : StackIs(parts, n + 1, Append(kept, parts[n + 1]), locked, x)
<1>1. PICK k \in Nat, l \in Nat : l = locked /\ k = Len(kept) - l
  <2>1. kept \in Seq(STRING) /\ locked \in 0 .. Len(kept)
    BY DEF StackIs
  <2>2. locked \in Nat /\ Len(kept) - locked \in Nat
    BY <2>1
  <2> QED BY <2>2
<1>2. PICK new : new = Append(kept, parts[n + 1])
  OBVIOUS
<1>3. PICK x : x = [j \in 1 .. k + 1 |-> IF j <= k THEN at[j] ELSE n + 1]
  OBVIOUS
<1>4. /\ kept \in Seq(STRING) /\ Len(kept) = l + k /\ at \in [1 .. k -> 1 .. n] /\ DOMAIN at = 1 .. k
      /\ \A i \in 1 .. l : kept[i] = ".."
      /\ \A j \in 1 .. k : kept[l + j] = parts[at[j]] /\ Climb(parts, at[j] + 1, n) = j - k
      /\ \A i, j \in 1 .. k : i < j => at[i] < at[j]
      /\ \A i \in 1 .. n : Lasts(parts, n, i) <=> i \in {at[j] : j \in 1 .. k}
      /\ Climb(parts, 1, n) = l - k
      /\ \A m \in 0 .. n : Climb(parts, 1, m) <= l
      /\ \E m \in 0 .. n : Climb(parts, 1, m) = l
  BY <1>1 DEF StackIs
<1>5. /\ new \in Seq(STRING) /\ Len(new) = l + (k + 1) /\ new[l + (k + 1)] = parts[n + 1]
      /\ \A i \in 1 .. l + k : new[i] = kept[i]
  BY <1>2, <1>4
<1>6. /\ x \in [1 .. k + 1 -> 1 .. n + 1] /\ DOMAIN x = 1 .. k + 1 /\ x[k + 1] = n + 1
      /\ \A j \in 1 .. k : x[j] = at[j]
  <2>1. \A j \in 1 .. k + 1 : x[j] = IF j <= k THEN at[j] ELSE n + 1
    BY <1>3
  <2>2. \A j \in 1 .. k : j <= k /\ at[j] \in 1 .. n + 1 /\ j \in 1 .. k + 1
    BY <1>4
  <2>3. \A j \in 1 .. k + 1 : (j <= k => j \in 1 .. k) /\ n + 1 \in 1 .. n + 1
    OBVIOUS
  <2>4. \A j \in 1 .. k + 1 : x[j] \in 1 .. n + 1
    BY <2>1, <2>2, <2>3
  <2>5. x[k + 1] = n + 1
    BY <2>1
  <2> QED BY <1>3, <2>1, <2>2, <2>4, <2>5
<1>7. parts[n + 1] # ".." /\ Rise(parts[n + 1]) = -1
  BY DEF Rise, IsName
<1>8. \A j \in 1 .. k + 1 : j \in 1 .. k \/ j = k + 1
  OBVIOUS
<1>9. ASSUME NEW j \in 1 .. k + 1
      PROVE  new[l + j] = parts[x[j]] /\ Climb(parts, x[j] + 1, n + 1) = j - (k + 1)
  <2>1. CASE j \in 1 .. k
    <3>0. at[j] \in 1 .. n
      BY <1>4, <2>1
    <3>1. at[j] + 1 \in Nat /\ at[j] + 1 <= n + 1 /\ l + j \in 1 .. l + k
      BY <2>1, <3>0
    <3>2. Climb(parts, at[j] + 1, n + 1) = Climb(parts, at[j] + 1, n) + Rise(parts[n + 1])
      BY <3>1, ClimbStep
    <3>3. new[l + j] = parts[x[j]]
      BY <1>4, <1>5, <1>6, <2>1, <3>1
    <3>4. x[j] = at[j] /\ Climb(parts, at[j] + 1, n) = j - k
      BY <1>4, <1>6, <2>1
    <3>5. Climb(parts, at[j] + 1, n + 1) = (j - k) + (-1)
      BY <1>7, <3>2, <3>4
    <3> QED BY <2>1, <3>3, <3>4, <3>5
  <2>2. CASE j = k + 1
    <3>1. PICK m \in Nat : m = n + 1
      OBVIOUS
    <3>3. Climb(parts, m + 1, m) = 0
      BY ClimbNone
    <3>4. Climb(parts, (n + 1) + 1, n + 1) = 0
      BY <3>1, <3>3
    <3> QED BY <1>5, <1>6, <2>2, <3>4
  <2> QED BY <1>8, <2>1, <2>2
<1>10. \A i, j \in 1 .. k + 1 : i < j => x[i] < x[j]
  <2>1. ASSUME NEW i \in 1 .. k + 1, NEW j \in 1 .. k + 1, i < j PROVE x[i] < x[j]
    <3>1. i \in 1 .. k /\ x[i] = at[i] /\ at[i] \in 1 .. n
      BY <1>4, <1>6, <2>1
    <3>2. CASE j \in 1 .. k
      BY <1>4, <1>6, <2>1, <3>1, <3>2
    <3>3. CASE j = k + 1
      BY <1>6, <3>1, <3>3
    <3> QED BY <1>8, <3>2, <3>3
  <2> QED BY <2>1
<1>11. \A i \in 1 .. n + 1 : Lasts(parts, n + 1, i) <=> i \in {x[j] : j \in 1 .. k + 1}
  <2>1. ASSUME NEW i \in 1 .. n PROVE Lasts(parts, n + 1, i) <=> Lasts(parts, n, i)
    <3>1. ASSUME Lasts(parts, n, i) PROVE Climb(parts, i + 1, n) + Rise(parts[n + 1]) <= 0
      <4>1. PICK j \in 1 .. k : at[j] = i
        BY <1>4, <3>1
      <4> QED BY <1>4, <1>7, <4>1
    <3> QED BY <3>1, LastsNext
  <2>2. ASSUME NEW i \in 1 .. n PROVE i \in {x[j] : j \in 1 .. k + 1} <=> i \in {at[j] : j \in 1 .. k}
    <3>1. x[k + 1] # i
      BY <1>6
    <3> QED BY <1>6, <1>8, <3>1
  <2>3. Lasts(parts, n + 1, n + 1) /\ n + 1 \in {x[j] : j \in 1 .. k + 1}
    <3>1. Lasts(parts, n + 1, n + 1)
      BY LastsNext
    <3>2. k + 1 \in 1 .. k + 1
      OBVIOUS
    <3> QED BY <1>6, <3>1, <3>2
  <2>4. \A i \in 1 .. n + 1 : i \in 1 .. n \/ i = n + 1
    OBVIOUS
  <2> QED BY <1>4, <2>1, <2>2, <2>3, <2>4
<1>12. /\ Climb(parts, 1, n + 1) = l - (k + 1)
       /\ \A m \in 0 .. n + 1 : Climb(parts, 1, m) <= l
       /\ \E m \in 0 .. n + 1 : Climb(parts, 1, m) = l
  <2>1. Climb(parts, 1, n + 1) = Climb(parts, 1, n) + Rise(parts[n + 1])
    BY <1>4, HighestNext
  <2>2. Climb(parts, 1, n + 1) = l - (k + 1) /\ l - (k + 1) <= l /\ l \in Int
    BY <1>4, <1>7, <2>1
  <2>3. \A m \in 0 .. n + 1 : Climb(parts, 1, m) <= l
    BY <1>4, <2>2, HighestNext
  <2>4. \A m \in 0 .. n : m \in 0 .. n + 1
    OBVIOUS
  <2> QED BY <1>4, <2>2, <2>3, <2>4
<1>13. \A i \in 1 .. l : new[i] = ".."
  BY <1>4, <1>5
<1>14. Len(new) - l = k + 1 /\ l \in 0 .. Len(new)
  BY <1>5
<1>15. StackIs(parts, n + 1, new, l, x)
  BY <1>5, <1>6, <1>9, <1>10, <1>11, <1>12, <1>13, <1>14 DEF StackIs
<1> QED BY <1>1, <1>2, <1>15

\* ".." behind a name.
LEMMA StackShrinks ==
  ASSUME NEW parts \in Seq(STRING), NEW n \in Nat, n < Len(parts), NEW kept, NEW locked, NEW at,
         StackIs(parts, n, kept, locked, at), parts[n + 1] = "..", Len(kept) > locked
  PROVE  \E x : StackIs(parts, n + 1, Front(kept), locked, x)
<1>1. PICK k \in Nat, l \in Nat : l = locked /\ k + 1 = Len(kept) - l
  <2>1. kept \in Seq(STRING) /\ locked \in 0 .. Len(kept)
    BY DEF StackIs
  <2>2. locked \in Nat /\ (Len(kept) - locked) - 1 \in Nat
    BY <2>1
  <2>3. ((Len(kept) - locked) - 1) + 1 = Len(kept) - locked
    BY <2>1
  <2> QED BY <2>2, <2>3
<1>2. PICK new : new = Front(kept)
  OBVIOUS
<1>3. PICK x : x = [j \in 1 .. k |-> at[j]]
  OBVIOUS
<1>4. /\ kept \in Seq(STRING) /\ Len(kept) = l + (k + 1) /\ at \in [1 .. k + 1 -> 1 .. n] /\ DOMAIN at = 1 .. k + 1
      /\ \A i \in 1 .. l : kept[i] = ".."
      /\ \A j \in 1 .. k + 1 : kept[l + j] = parts[at[j]] /\ Climb(parts, at[j] + 1, n) = j - (k + 1)
      /\ \A i, j \in 1 .. k + 1 : i < j => at[i] < at[j]
      /\ \A i \in 1 .. n : Lasts(parts, n, i) <=> i \in {at[j] : j \in 1 .. k + 1}
      /\ Climb(parts, 1, n) = l - (k + 1)
      /\ \A m \in 0 .. n : Climb(parts, 1, m) <= l
      /\ \E m \in 0 .. n : Climb(parts, 1, m) = l
  <2>1. kept \in Seq(STRING) /\ Len(kept) - l = k + 1
    BY <1>1 DEF StackIs
  <2>2. Len(kept) = l + (k + 1)
    BY <1>1, <2>1
  <2>3. /\ at \in [1 .. k + 1 -> 1 .. n]
        /\ \A i \in 1 .. l : kept[i] = ".."
        /\ Climb(parts, 1, n) = l - (k + 1)
        /\ \A m \in 0 .. n : Climb(parts, 1, m) <= l
        /\ \E m \in 0 .. n : Climb(parts, 1, m) = l
    BY <1>1, <2>1 DEF StackIs
  <2>4. DOMAIN at = 1 .. k + 1
    BY <2>3
  <2>5. /\ \A j \in 1 .. k + 1 : kept[l + j] = parts[at[j]] /\ Climb(parts, at[j] + 1, n) = j - (k + 1)
        /\ \A i, j \in 1 .. k + 1 : i < j => at[i] < at[j]
        /\ \A i \in 1 .. n : Lasts(parts, n, i) <=> i \in {at[j] : j \in 1 .. k + 1}
    BY <1>1, <2>1, <2>4 DEF StackIs
  <2> QED BY <2>1, <2>2, <2>3, <2>4, <2>5
<1>5. /\ new \in Seq(STRING) /\ Len(new) = l + k
      /\ \A i \in 1 .. l + k : new[i] = kept[i]
  BY <1>2, <1>4 DEF Front
<1>6. /\ x \in [1 .. k -> 1 .. n + 1] /\ DOMAIN x = 1 .. k
      /\ \A j \in 1 .. k : x[j] = at[j] /\ at[j] \in 1 .. n
  <2>1. \A j \in 1 .. k : j \in 1 .. k + 1
    OBVIOUS
  <2>2. \A j \in 1 .. k : at[j] \in 1 .. n
    BY <1>4, <2>1
  <2>3. 1 .. n \subseteq 1 .. n + 1
    OBVIOUS
  <2> QED BY <1>3, <2>2, <2>3
<1>7. ~IsName(parts[n + 1]) /\ Rise(parts[n + 1]) = 1
  BY DEF Rise, IsName
<1>8. \A j \in 1 .. k + 1 : j \in 1 .. k \/ j = k + 1
  OBVIOUS
<1>9. ASSUME NEW j \in 1 .. k
      PROVE  new[l + j] = parts[x[j]] /\ Climb(parts, x[j] + 1, n + 1) = j - k
  <2>1. at[j] \in 1 .. n /\ x[j] = at[j] /\ j \in 1 .. k + 1
    BY <1>6
  <2>2. at[j] + 1 \in Nat /\ at[j] + 1 <= n + 1 /\ l + j \in 1 .. l + k
    BY <2>1
  <2>3. Climb(parts, at[j] + 1, n + 1) = Climb(parts, at[j] + 1, n) + Rise(parts[n + 1])
    BY <2>2, ClimbStep
  <2>4. kept[l + j] = parts[at[j]] /\ Climb(parts, at[j] + 1, n) = j - (k + 1)
    BY <1>4, <2>1
  <2>5. Climb(parts, at[j] + 1, n + 1) = (j - (k + 1)) + 1
    BY <1>7, <2>3, <2>4
  <2>6. (j - (k + 1)) + 1 = j - k
    OBVIOUS
  <2> QED BY <1>5, <2>1, <2>2, <2>4, <2>5, <2>6
<1>10. \A i, j \in 1 .. k : i < j => x[i] < x[j]
  BY <1>4, <1>6
<1>11. \A i \in 1 .. n + 1 : Lasts(parts, n + 1, i) <=> i \in {x[j] : j \in 1 .. k}
  <2>1. ASSUME NEW i \in 1 .. n, Lasts(parts, n + 1, i) PROVE i \in {x[j] : j \in 1 .. k}
    <3>1. Lasts(parts, n, i) /\ Climb(parts, i + 1, n) + 1 <= 0
      BY <1>7, <2>1, LastsNext
    <3>2. PICK j \in 1 .. k + 1 : at[j] = i
      BY <1>4, <3>1
    <3>3. j # k + 1
      <4>1. Climb(parts, i + 1, n) = j - (k + 1)
        BY <1>4, <3>2
      <4> QED BY <3>1, <4>1
    <3> QED BY <1>6, <1>8, <3>2, <3>3
  <2>2. ASSUME NEW j \in 1 .. k PROVE Lasts(parts, n + 1, x[j])
    <3>1. x[j] = at[j] /\ at[j] \in 1 .. n /\ j \in 1 .. k + 1
      BY <1>6
    <3>2. PICK i \in 1 .. n : i = at[j]
      BY <3>1
    <3>3. Lasts(parts, n, i) /\ Climb(parts, i + 1, n) = j - (k + 1)
      BY <1>4, <3>1, <3>2
    <3>4. (j - (k + 1)) + 1 <= 0
      OBVIOUS
    <3>5. Lasts(parts, n + 1, i)
      BY <1>7, <3>3, <3>4, LastsNext
    <3> QED BY <3>1, <3>2, <3>5
  <2>3. ~Lasts(parts, n + 1, n + 1)
    BY <1>7, LastsNext
  <2>4. n + 1 \notin {x[j] : j \in 1 .. k}
    BY <1>6
  <2>5. \A i \in 1 .. n + 1 : i \in 1 .. n \/ i = n + 1
    OBVIOUS
  <2> QED BY <2>1, <2>2, <2>3, <2>4, <2>5
<1>12. /\ Climb(parts, 1, n + 1) = l - k
       /\ \A m \in 0 .. n + 1 : Climb(parts, 1, m) <= l
       /\ \E m \in 0 .. n + 1 : Climb(parts, 1, m) = l
  <2>0. l \in Int
    OBVIOUS
  <2>1. Climb(parts, 1, n + 1) = Climb(parts, 1, n) + Rise(parts[n + 1])
    BY <1>4, <2>0, HighestNext
  <2>2. Climb(parts, 1, n + 1) = l - k /\ l - k <= l /\ l \in Int
    BY <1>4, <1>7, <2>1
  <2>3. \A m \in 0 .. n + 1 : Climb(parts, 1, m) <= l
    BY <1>4, <2>2, HighestNext
  <2>4. \A m \in 0 .. n : m \in 0 .. n + 1
    OBVIOUS
  <2> QED BY <1>4, <2>2, <2>3, <2>4
<1>13. \A i \in 1 .. l : new[i] = ".."
  BY <1>4, <1>5
<1>14. Len(new) - l = k /\ l \in 0 .. Len(new)
  BY <1>5
<1>15. StackIs(parts, n + 1, new, l, x)
  BY <1>5, <1>6, <1>9, <1>10, <1>11, <1>12, <1>13, <1>14 DEF StackIs
<1> QED BY <1>1, <1>2, <1>15

\* ".." with no name before it.
LEMMA StackClimbs ==
  ASSUME NEW parts \in Seq(STRING), NEW n \in Nat, n < Len(parts), NEW kept, NEW locked, NEW at,
         StackIs(parts, n, kept, locked, at), parts[n + 1] = "..", Len(kept) <= locked
  PROVE  \E x : StackIs(parts, n + 1, Append(kept, ".."), locked + 1, x)
<1>1. /\ kept \in Seq(STRING) /\ locked \in Nat /\ Len(kept) = locked /\ Len(kept) - locked = 0
      /\ 1 .. Len(kept) - locked = {}
  <2>1. kept \in Seq(STRING) /\ locked \in 0 .. Len(kept) /\ Len(kept) \in Nat
    BY DEF StackIs
  <2>2. locked \in Nat /\ Len(kept) = locked
    BY <2>1
  <2> QED BY <2>1, <2>2
<1>2. PICK new : new = Append(kept, "..")
  OBVIOUS
<1>3. /\ at \in [1 .. 0 -> 1 .. n] /\ DOMAIN at = {}
      /\ \A i \in 1 .. locked : kept[i] = ".."
      /\ \A i \in 1 .. n : ~Lasts(parts, n, i)
      /\ Climb(parts, 1, n) = locked
      /\ \A m \in 0 .. n : Climb(parts, 1, m) <= locked
  BY <1>1 DEF StackIs
<1>4. /\ new \in Seq(STRING) /\ Len(new) = locked + 1 /\ Len(new) - (locked + 1) = 0
      /\ locked + 1 \in 0 .. Len(new) /\ \A i \in 1 .. locked + 1 : new[i] = ".."
  <2>1. ".." \in STRING
    OBVIOUS
  <2> QED BY <1>1, <1>2, <1>3, <2>1
<1>5. at \in [1 .. 0 -> 1 .. n + 1]
  BY <1>3
<1>6. ~IsName(parts[n + 1]) /\ Rise(parts[n + 1]) = 1
  BY DEF Rise, IsName
<1>7. \A i \in 1 .. n + 1 : ~Lasts(parts, n + 1, i)
  <2>1. \A i \in 1 .. n + 1 : i \in 1 .. n \/ i = n + 1
    OBVIOUS
  <2> QED BY <1>3, <1>6, <2>1, LastsNext
<1>8. /\ Climb(parts, 1, n + 1) = locked + 1
      /\ \A m \in 0 .. n + 1 : Climb(parts, 1, m) <= locked + 1
  <2>1. Climb(parts, 1, n + 1) = Climb(parts, 1, n) + Rise(parts[n + 1]) /\ locked \in Int
    BY <1>1, <1>3, HighestNext
  <2>2. Climb(parts, 1, n + 1) = locked + 1 /\ locked <= locked + 1 /\ locked + 1 \in Int /\ locked + 1 <= locked + 1
    BY <1>1, <1>3, <1>6, <2>1
  <2>3. \A g \in Int : locked <= g /\ Climb(parts, 1, n + 1) <= g => \A m \in 0 .. n + 1 : Climb(parts, 1, m) <= g
    BY <1>3, <2>1, HighestNext
  <2> QED BY <2>2, <2>3
<1>9. StackIs(parts, n + 1, new, locked + 1, at)
  <2>1. (locked + 1) - 0 = locked + 1 /\ n + 1 \in 0 .. n + 1 /\ 1 .. Len(new) - (locked + 1) = 1 .. 0
    BY <1>1, <1>4
  <2> QED BY <1>3, <1>4, <1>5, <1>7, <1>8, <2>1 DEF StackIs
<1> QED BY <1>2, <1>9

\* A stack that the names lasting to the end are on is the normal form of the path.
LEMMA StackIsNormal ==
  ASSUME NEW parts \in Seq(STRING), NEW kept, NEW locked, NEW at,
         StackIs(parts, Len(parts), kept, locked, at)
  PROVE  IsNormal(kept, parts)
<1>1. PICK n \in Nat : n = Len(parts) /\ DOMAIN parts = 1 .. n
  OBVIOUS
<1>2. /\ kept \in Seq(STRING) /\ locked \in 0 .. Len(kept) /\ Len(kept) \in Nat
      /\ at \in [1 .. Len(kept) - locked -> DOMAIN parts] /\ DOMAIN at = 1 .. Len(kept) - locked
  BY <1>1 DEF StackIs
<1>3. \A i \in 1 .. n : Lasts(parts, n, i) <=> Survives(parts, i)
  BY <1>1 DEF Lasts, Survives
<1>4. {at[j] : j \in DOMAIN at} = {i \in DOMAIN parts : Survives(parts, i)}
  <2>1. \A j \in DOMAIN at : at[j] \in DOMAIN parts
    BY <1>2
  <2>2. \A i \in 1 .. n : Lasts(parts, n, i) <=> i \in {at[j] : j \in DOMAIN at}
    BY <1>1 DEF StackIs
  <2> QED BY <1>1, <1>3, <2>1, <2>2
<1>5. kept = [i \in 1 .. Len(kept) |-> IF i <= locked THEN ".." ELSE parts[at[i - locked]]]
  <2>1. ASSUME NEW i \in 1 .. Len(kept)
        PROVE  kept[i] = IF i <= locked THEN ".." ELSE parts[at[i - locked]]
    <3>1. CASE i <= locked
      <4>1. i \in 1 .. locked
        BY <1>2, <3>1
      <4> QED BY <3>1, <4>1 DEF StackIs
    <3>2. CASE ~(i <= locked)
      <4>1. i - locked \in 1 .. Len(kept) - locked /\ locked + (i - locked) = i
        BY <1>2, <3>2
      <4>2. kept[locked + (i - locked)] = parts[at[i - locked]]
        BY <1>2, <4>1 DEF StackIs
      <4> QED BY <3>2, <4>1, <4>2
    <3> QED BY <3>1, <3>2
  <2>2. kept = [i \in 1 .. Len(kept) |-> kept[i]]
    BY <1>2
  <2> QED BY <2>1, <2>2
<1>6. /\ \A m \in 0 .. Len(parts) : Climb(parts, 1, m) <= locked
      /\ \E m \in 0 .. Len(parts) : Climb(parts, 1, m) = locked
      /\ \A i, j \in DOMAIN at : i < j => at[i] < at[j]
  BY DEF StackIs
<1> QED BY <1>2, <1>4, <1>5, <1>6 DEF IsNormal

\* A part between two slashes.
IsEmpty(part) == part = ""

\* One turn of the loop of canonicalizePath().
NextStack(parts, n, stack) ==
  IF parts[n] = "" /\ n < Len(parts) THEN stack ELSE KeepPart(stack, parts[n])

\* The loop, from the empty stack.
AreStacks(f, parts) ==
  /\ f[0] = [kept |-> <<>>, locked |-> 0]
  /\ \A n \in 1 .. Len(parts) : f[n] = NextStack(parts, n, f[n - 1])

LEMMA CanonicalSteps ==
  ASSUME NEW parts \in Seq(STRING)
  PROVE  \E f : /\ AreStacks(f, parts)
                /\ CanonicalizePath(parts) =
                     IF f[Len(parts)].kept = <<>> THEN <<".">> ELSE f[Len(parts)].kept
<1> DEFINE Is(f, n) == f = [i \in 0 .. n |-> IF i = 0 THEN [kept |-> <<>>, locked |-> 0]
                                             ELSE NextStack(parts, i, f[i - 1])]
           S == {n \in Nat : \E f : Is(f, n)}
<1>1. 0 \in S
  <2>1. PICK f : f = [i \in 0 .. 0 |-> [kept |-> <<>>, locked |-> 0]]
    OBVIOUS
  <2>2. Is(f, 0)
    <3>1. \A i \in 0 .. 0 : i = 0
      OBVIOUS
    <3> QED BY <2>1, <3>1
  <2> QED BY <2>2
<1>2. ASSUME NEW n \in S PROVE n + 1 \in S
  <2>1. n \in Nat /\ n + 1 \in Nat
    OBVIOUS
  <2>2. PICK f : Is(f, n)
    OBVIOUS
  <2>3. PICK g : g = [i \in 0 .. n + 1 |-> IF i = n + 1 THEN NextStack(parts, n + 1, f[n]) ELSE f[i]]
    OBVIOUS
  <2>4. /\ DOMAIN g = 0 .. n + 1
        /\ \A i \in 0 .. n : g[i] = f[i]
        /\ g[n + 1] = NextStack(parts, n + 1, f[n])
    BY <2>1, <2>3
  <2>5. \A i \in 0 .. n : f[i] = IF i = 0 THEN [kept |-> <<>>, locked |-> 0]
                                 ELSE NextStack(parts, i, f[i - 1])
    BY <2>2
  <2>6. ASSUME NEW i \in 0 .. n + 1
        PROVE  g[i] = IF i = 0 THEN [kept |-> <<>>, locked |-> 0]
                      ELSE NextStack(parts, i, g[i - 1])
    <3>1. CASE i = n + 1
      <4>1. i # 0 /\ i - 1 = n /\ n \in 0 .. n
        BY <2>1, <3>1
      <4>2. g[i - 1] = f[n]
        BY <2>4, <4>1
      <4> QED BY <2>4, <3>1, <4>1, <4>2
    <3>2. CASE i \in 0 .. n
      <4>1. i # 0 => i - 1 \in 0 .. n
        BY <2>1, <3>2
      <4>2. i # 0 => g[i - 1] = f[i - 1]
        BY <2>4, <4>1
      <4> QED BY <2>4, <2>5, <3>2, <4>2
    <3> QED BY <2>1, <3>1, <3>2
  <2>7. Is(g, n + 1)
    BY <2>3, <2>4, <2>6
  <2> QED BY <2>1, <2>7
<1>3. S = Nat
  <2>1. S \in SUBSET Nat
    OBVIOUS
  <2>2. \A n \in S : n + 1 \in S
    BY <1>2
  <2> HIDE DEF S
  <2> QED BY <1>1, <2>1, <2>2, NaturalsFromZero
<1>4. \E f : Is(f, Len(parts))
  <2>1. Len(parts) \in S
    BY <1>3
  <2> QED BY <2>1
<1> DEFINE a == CHOOSE f : Is(f, Len(parts))
<1>5. Is(a, Len(parts))
  BY <1>4
<1>6. CanonicalizePath(parts) = IF a[Len(parts)].kept = <<>> THEN <<".">> ELSE a[Len(parts)].kept
  BY DEF CanonicalizePath, NextStack
<1>7. AreStacks(a, parts)
  <2>1. Len(parts) \in Nat /\ 0 \in 0 .. Len(parts) /\ \A n \in 1 .. Len(parts) : n \in 0 .. Len(parts) /\ n # 0
    OBVIOUS
  <2>2. \A n \in 0 .. Len(parts) : a[n] = IF n = 0 THEN [kept |-> <<>>, locked |-> 0]
                                          ELSE NextStack(parts, n, a[n - 1])
    BY <1>5
  <2> HIDE DEF a
  <2> QED BY <2>1, <2>2 DEF AreStacks
<1> HIDE DEF a
<1> QED BY <1>6, <1>7

\* The stack after n parts, of which the last may be an empty one behind the last slash.
IsStack(s) == s = [kept |-> s.kept, locked |-> s.locked]
StackAfter(parts, n, s) == IsStack(s) /\ \E at : StackIs(parts, n, s.kept, s.locked, at)

LEMMA StackAfterNext ==
  ASSUME NEW parts \in Seq(STRING), NEW n \in Nat, n < Len(parts), NEW s, StackAfter(parts, n, s),
         ~IsEmpty(parts[n + 1])
  PROVE  StackAfter(parts, n + 1, KeepPart(s, parts[n + 1]))
<1>1. PICK at : IsStack(s) /\ StackIs(parts, n, s.kept, s.locked, at)
  BY DEF StackAfter
<1>2. PICK k, l, r : k = s.kept /\ l = s.locked /\ r = KeepPart(s, parts[n + 1]) /\ s = [kept |-> k, locked |-> l]
  BY <1>1 DEF IsStack
<1>3. StackIs(parts, n, k, l, at)
  BY <1>1, <1>2
<1>4. k \in Seq(STRING) /\ l \in Nat /\ Len(k) \in Nat
  <2>1. k \in Seq(STRING) /\ l \in 0 .. Len(k)
    BY <1>3 DEF StackIs
  <2> QED BY <2>1
<1>5. CASE parts[n + 1] = "."
  <2>1. r = [kept |-> k, locked |-> l]
    BY <1>2, <1>5 DEF KeepPart
  <2>2. Rise(parts[n + 1]) = 0
    BY <1>5 DEF Rise, IsName, IsEmpty
  <2>3. StackIs(parts, n + 1, k, l, at)
    BY <1>3, <2>2, StackKeeps
  <2> QED BY <1>2, <2>1, <2>3 DEF StackAfter, IsStack
<1>6. CASE parts[n + 1] = ".." /\ Len(k) > l
  <2>1. r = [kept |-> Front(k), locked |-> l]
    <3>1. r = [s EXCEPT !.kept = Front(@)]
      BY <1>2, <1>4, <1>6 DEF KeepPart
    <3> QED BY <1>2, <3>1
  <2>2. PICK x : StackIs(parts, n + 1, Front(k), l, x)
    BY <1>3, <1>6, StackShrinks
  <2>4. IsStack(r) /\ r.kept = Front(k) /\ r.locked = l
    BY <2>1 DEF IsStack
  <2>5. StackIs(parts, n + 1, r.kept, r.locked, x)
    BY <2>2, <2>4
  <2> QED BY <1>2, <2>4, <2>5 DEF StackAfter
<1>7. CASE parts[n + 1] = ".." /\ Len(k) <= l
  <2>1. r = [kept |-> Append(k, ".."), locked |-> l + 1]
    BY <1>2, <1>4, <1>7 DEF KeepPart
  <2>2. PICK x : StackIs(parts, n + 1, Append(k, ".."), l + 1, x)
    BY <1>3, <1>7, StackClimbs
  <2>4. IsStack(r) /\ r.kept = Append(k, "..") /\ r.locked = l + 1
    BY <2>1 DEF IsStack
  <2>5. StackIs(parts, n + 1, r.kept, r.locked, x)
    BY <2>2, <2>4
  <2> QED BY <1>2, <2>4, <2>5 DEF StackAfter
<1>8. CASE parts[n + 1] # "." /\ parts[n + 1] # ".."
  <2>1. r = [kept |-> Append(k, parts[n + 1]), locked |-> l]
    <3>1. r = [s EXCEPT !.kept = Append(@, parts[n + 1])]
      BY <1>2, <1>8 DEF KeepPart
    <3> QED BY <1>2, <3>1
  <2>2. IsName(parts[n + 1])
    BY <1>8 DEF IsName, IsEmpty
  <2>3. PICK x : StackIs(parts, n + 1, Append(k, parts[n + 1]), l, x)
    BY <1>3, <2>2, StackGrows
  <2>4. IsStack(r) /\ r.kept = Append(k, parts[n + 1]) /\ r.locked = l
    BY <2>1 DEF IsStack
  <2>5. StackIs(parts, n + 1, r.kept, r.locked, x)
    BY <2>3, <2>4
  <2> QED BY <1>2, <2>4, <2>5 DEF StackAfter
<1>9. Len(k) > l \/ Len(k) <= l
  BY <1>4
<1> QED BY <1>5, <1>6, <1>7, <1>8, <1>9

\* An empty part, which is skipped.
LEMMA StackAfterSlash ==
  ASSUME NEW parts \in Seq(STRING), NEW n \in Nat, NEW s, StackAfter(parts, n, s), IsEmpty(parts[n + 1])
  PROVE  StackAfter(parts, n + 1, s)
<1>1. PICK at : IsStack(s) /\ StackIs(parts, n, s.kept, s.locked, at)
  BY DEF StackAfter
<1>2. PICK k, l : k = s.kept /\ l = s.locked
  OBVIOUS
<1>3. Rise(parts[n + 1]) = 0
  BY DEF Rise, IsName, IsEmpty
<1>4. StackIs(parts, n + 1, k, l, at)
  BY <1>1, <1>2, <1>3, StackKeeps
<1> QED BY <1>1, <1>2, <1>4 DEF StackAfter

LEMMA AppendThenFront ==
  ASSUME NEW S, NEW k \in Seq(S), NEW e \in S
  PROVE  Append(k, e) # <<>> /\ Front(Append(k, e)) = k
<1>1. PICK x : x = Append(k, e)
  OBVIOUS
<1>2. x \in Seq(S) /\ Len(x) = Len(k) + 1 /\ Len(k) \in Nat /\ \A i \in 1 .. Len(k) : x[i] = k[i]
  BY <1>1
<1>3. Front(x) = SubSeq(x, 1, Len(k))
  BY <1>2 DEF Front
<1>4. Front(x) = k
  BY <1>2, <1>3
<1>5. x # <<>>
  BY <1>2
<1> QED BY <1>1, <1>4, <1>5

\* What canonicalizePath() makes of any path, but for one that comes back to where it starts.
CanonicalForm(parts) ==
  CanonicalizePath(parts) # <<".">> =>
    LET name == CanonicalizePath(parts) IN
    IsNormal(IF Last(parts) = "" THEN Front(name) ELSE name, parts)

LEMMA PathsAreCanonical ==
  ASSUME NEW parts \in Seq(STRING) \ {<<>>}
  PROVE  CanonicalForm(parts)
<1>1. PICK f : /\ AreStacks(f, parts)
               /\ CanonicalizePath(parts) = IF f[Len(parts)].kept = <<>> THEN <<".">> ELSE f[Len(parts)].kept
  BY CanonicalSteps
<1>2. PICK h \in Nat : h + 1 = Len(parts)
  <2>1. Len(parts) - 1 \in Nat /\ (Len(parts) - 1) + 1 = Len(parts)
    OBVIOUS
  <2> QED BY <2>1
<1>3. f[0] = [kept |-> <<>>, locked |-> 0]
  BY <1>1 DEF AreStacks
<1>4. \A n \in Nat : n < h => /\ IsEmpty(parts[n + 1]) => f[n + 1] = f[n]
                              /\ ~IsEmpty(parts[n + 1]) => f[n + 1] = KeepPart(f[n], parts[n + 1])
  <2>1. ASSUME NEW n \in Nat, n < h PROVE f[n + 1] = NextStack(parts, n + 1, f[n]) /\ n + 1 < Len(parts)
    <3>1. n + 1 \in 1 .. Len(parts) /\ (n + 1) - 1 = n /\ n + 1 < Len(parts)
      BY <1>2, <2>1
    <3> QED BY <1>1, <3>1 DEF AreStacks
  <2> QED BY <2>1 DEF NextStack, IsEmpty
<1>5. f[h + 1] = KeepPart(f[h], parts[h + 1])
  <2>1. f[h + 1] = NextStack(parts, h + 1, f[h])
    <3>1. h + 1 \in 1 .. Len(parts) /\ (h + 1) - 1 = h
      BY <1>2
    <3> QED BY <1>1, <3>1 DEF AreStacks
  <2>2. ~(h + 1 < Len(parts))
    BY <1>2
  <2> QED BY <2>1, <2>2 DEF NextStack, IsEmpty
<1> DEFINE S == {n \in Nat : n <= h => StackAfter(parts, n, f[n])}
<1>6. 0 \in S
  <2>1. PICK at : StackIs(parts, 0, <<>>, 0, at)
    BY StackBegins
  <2> QED BY <1>3, <2>1 DEF StackAfter, IsStack
<1>7. ASSUME NEW n \in S PROVE n + 1 \in S
  <2>1. n \in Nat /\ n + 1 \in Nat
    OBVIOUS
  <2>2. ASSUME n + 1 <= h PROVE StackAfter(parts, n + 1, f[n + 1])
    <3>1. n <= h /\ n < h /\ n < Len(parts)
      BY <1>2, <2>1, <2>2
    <3>2. StackAfter(parts, n, f[n])
      BY <3>1
    <3>3. PICK s : s = f[n]
      OBVIOUS
    <3>4. CASE IsEmpty(parts[n + 1])
      BY <1>4, <2>1, <3>1, <3>2, <3>4, StackAfterSlash
    <3>5. CASE ~IsEmpty(parts[n + 1])
      <4>1. StackAfter(parts, n + 1, KeepPart(s, parts[n + 1]))
        BY <2>1, <3>1, <3>2, <3>3, <3>5, StackAfterNext
      <4> QED BY <1>4, <2>1, <3>1, <3>3, <3>5, <4>1
    <3> QED BY <3>4, <3>5
  <2> QED BY <2>1, <2>2
<1>8. S = Nat
  <2>1. S \in SUBSET Nat
    OBVIOUS
  <2>2. \A n \in S : n + 1 \in S
    BY <1>7
  <2> HIDE DEF S
  <2> QED BY <1>6, <2>1, <2>2, NaturalsFromZero
<1>9. StackAfter(parts, h, f[h])
  <2>1. h \in S /\ h <= h
    BY <1>8
  <2> QED BY <2>1
<1>10. Last(parts) = parts[h + 1]
  BY <1>2 DEF Last
<1>11. PICK s : s = f[h]
  OBVIOUS
<1>12. CanonicalizePath(parts) = IF f[h + 1].kept = <<>> THEN <<".">> ELSE f[h + 1].kept
  BY <1>1, <1>2
<1>13. CASE ~IsEmpty(parts[h + 1])
  <2>1. PICK r : r = KeepPart(s, parts[h + 1])
    OBVIOUS
  <2>2. StackAfter(parts, h + 1, r)
    <3>1. h < Len(parts)
      BY <1>2
    <3> QED BY <1>9, <1>11, <1>13, <2>1, <3>1, StackAfterNext
  <2>3. PICK k, l, at : k = r.kept /\ StackIs(parts, h + 1, k, l, at)
    BY <2>2 DEF StackAfter
  <2>4. IsNormal(k, parts)
    BY <1>2, <2>3, StackIsNormal
  <2>5. f[h + 1].kept = k
    BY <1>5, <1>11, <2>1, <2>3
  <2> QED BY <1>10, <1>12, <1>13, <2>4, <2>5 DEF CanonicalForm, IsEmpty
<1>14. CASE IsEmpty(parts[h + 1])
  <2>1. PICK k, l, at : k = s.kept /\ IsStack(s) /\ l = s.locked /\ StackIs(parts, h + 1, k, l, at)
    <3>1. StackAfter(parts, h + 1, s)
      BY <1>9, <1>11, <1>14, StackAfterSlash
    <3> QED BY <3>1 DEF StackAfter
  <2>2. IsNormal(k, parts)
    BY <1>2, <2>1, StackIsNormal
  <2>3. s = [kept |-> k, locked |-> l] /\ k \in Seq(STRING)
    BY <2>1 DEF IsStack, StackIs
  <2>4. f[h + 1].kept = Append(k, "")
    <3>1. f[h + 1] = [s EXCEPT !.kept = Append(@, "")]
      BY <1>5, <1>11, <1>14 DEF KeepPart, IsEmpty
    <3> QED BY <2>3, <3>1
  <2>5. Append(k, "") # <<>> /\ Front(Append(k, "")) = k
    <3>1. PICK e : e = parts[h + 1] /\ e \in STRING
      BY <1>2
    <3>2. Append(k, e) # <<>> /\ Front(Append(k, e)) = k
      BY <2>3, <3>1, AppendThenFront
    <3> QED BY <1>14, <3>1, <3>2 DEF IsEmpty
  <2> QED BY <1>10, <1>12, <1>14, <2>2, <2>4, <2>5 DEF CanonicalForm, IsEmpty
<1> QED BY <1>13, <1>14

\* A thread that waits for an answer has asked for a path that does not come back to
\* where it starts.
LEMMA NamesAreNormal ==
  ASSUME AInv  PROVE OneNamePerFile
<1> SUFFICES ASSUME NEW t \in Threads, pc[t] \in Waiting, Path(t).kind \in {"rel", "cwd"}
             PROVE  LET name == Line(Path(t)).name IN
                    IsNormal(IF Last(Path(t).parts) = "" THEN Front(name) ELSE name, Path(t).parts)
  BY DEF OneNamePerFile, Waiting
<1>1. Path(t) \in PathType /\ Asks(Path(t))
  <2>1. pc[t] \notin {"idle", "store", "return"}
    BY DEF Waiting
  <2>2. ThreadIsRight(t, pc[t], call[t], got[t])
    BY DEF AInv, Threaded
  <2>3. Asks(call[t].paths[Len(got[t]) + 1])
    BY <2>2 DEF ThreadIsRight, Waiting
  <2> QED BY <2>1, <2>3, ThreadsPath
<1>2. PICK path : path = Path(t)
  OBVIOUS
<1>3. path.parts \in Seq(STRING) \ {<<>>} /\ path.kind \in {"rel", "cwd"} /\ Unasked(path) = None
  BY <1>1, <1>2 DEF PathType, Asks
<1>4. AskedName(path) = CanonicalizePath(path.parts) /\ Line(path).name = AskedName(path)
  BY <1>3 DEF AskedName, Line
<1>5. AskedName(path) # <<".">>
  <2> SUFFICES ASSUME AskedName(path) = <<".">>  PROVE FALSE
    OBVIOUS
  <2>1. Unasked(path) = Found("same", <<".">>)
    BY <1>3 DEF Unasked
  <2>2. Found("same", <<".">>) # None
    BY NoneAssumption
  <2> QED BY <1>3, <2>1, <2>2
<1>6. CanonicalForm(path.parts)
  BY <1>3, PathsAreCanonical
<1> QED BY <1>2, <1>4, <1>5, <1>6 DEF CanonicalForm

\* Each call gets the answer to its own question, the name it asked for is the one of
\* its file, and none that writes is let through to a source.
THEOREM AnswersStayRight ==
  ASSUME SingleProcess
  PROVE  Spec => []AnswersAreRight
<1>1. AInv /\ IInv => TypeOK
  <2> SUFFICES ASSUME AInv, IInv  PROVE TypeOK
    OBVIOUS
  <2>1. \A t \in Threads : call[t] \in CallsOf[t] \cup {None}
    <3> SUFFICES ASSUME NEW t \in Threads  PROVE call[t] \in CallsOf[t] \cup {None}
      OBVIOUS
    <3>1. ThreadIsRight(t, pc[t], call[t], got[t])
      BY DEF AInv, Threaded
    <3> QED
      BY <3>1 DEF ThreadIsRight
  <2>2. \A t \in Threads : \A i \in DOMAIN got[t] : got[t][i] \in Results
    BY GotIsRight
  <2>3. \A p \in Procs : cache[p] = None \/ cache[p].path \in {Relative(q) : q \in Paths}
    BY DEF AInv, AnswerTypes
  <2>4. Range(answers) \subseteq Results
    <3>1. answers \in Seq(Results)
      BY DEF AInv, AnswerTypes
    <3>2. \A x \in DOMAIN answers : answers[x] \in Results
      BY <3>1
    <3> QED
      BY <3>2 DEF Range
  <2> QED
    BY <2>1, <2>2, <2>3, <2>4 DEF TypeOK, AInv, AnswerTypes, IInv, OnceTypes
<1>2. AInv => EachGetsItsAnswer
  <2> SUFFICES ASSUME AInv, NEW t \in Threads, NEW i \in DOMAIN got[t],
                      call[t].fn \notin {"mkdir", "access"}
               PROVE  LET path == call[t].paths[i] IN
                      \/ got[t][i] = Reference(path)
                      \/ got[t][i] = NotFound /\ Line(File(path.kind, path.parts, "WRITE")) \in DOMAIN known
    BY DEF EachGetsItsAnswer
  <2>1. call[t].paths[i] \in PathType /\ Fits(call[t].paths[i], got[t][i])
    BY GotIsRight
  <2> QED
    BY <2>1, FitsIsTheAnswer
<1>3. AInv => NoSourceIsWritten
  <2> SUFFICES ASSUME AInv, NEW t \in Threads, NEW i \in DOMAIN got[t],
                      Modifies(call[t], i), RealCall(call[t], got[t][i]) # "none",
                      got[t][i].dir = "src"
               PROVE  FALSE
    BY DEF NoSourceIsWritten
  <2> DEFINE c == call[t]
             r == got[t][i]
  <2>1. /\ c \in CallsOf[t] /\ i \in 1 .. Len(c.paths) /\ c.paths[i] \in PathType
        /\ \/ Fits(c.paths[i], r)
           \/ c.fn = "mkdir" /\ r.dir = "tmp"
           \/ c.fn = "access" /\ InTree(c) /\ i = 1
    BY GotIsRight
  <2>2. r.dir = "src" /\ Modifies(c, i) /\ RealCall(c, r) # "none"
    OBVIOUS
  <2> HIDE DEF c, r
  <2>3. c.paths[i].usage = "WRITE"
    <3>1. ~(c.fn = "access" /\ c.mode = "W_OK")
      <4> SUFFICES ASSUME c.fn = "access", c.mode = "W_OK"  PROVE FALSE
        OBVIOUS
      <4>1. RealCall(c, r) = "none"
        BY <2>2 DEF RealCall
      <4> QED
        BY <2>2, <4>1
    <3> QED
      BY <2>2, <3>1 DEF Modifies
  <2>4. ~(c.fn = "access" /\ InTree(c) /\ i = 1)
    <3> SUFFICES ASSUME c.fn = "access", InTree(c), i = 1  PROVE FALSE
      OBVIOUS
    <3>1. Head(c.paths).usage = "READ" /\ c.paths \in Seq(PathType) \ {<<>>}
      BY <2>1, CallsAssumption DEF InTree
    <3>2. Head(c.paths) = c.paths[1]
      BY <3>1
    <3> QED
      BY <2>3, <3>1, <3>2
  <2>5. Fits(c.paths[i], r)
    BY <2>1, <2>2, <2>4
  <2> QED
    BY <2>1, <2>2, <2>3, <2>5, WrittenIsNoSource
<1> QED
  <2>1. AInv /\ IInv => AnswersAreRight
    BY <1>1, <1>2, <1>3, NamesAreNormal DEF AnswersAreRight
  <2> QED
    BY <2>1, AnswersInvariant, Invariant, PTL
\* However a path below the current directory is written, the name that Ekam is asked
\* for has as many ".." as the path climbs, and the names that none of its ".." undoes.
THEOREM NamesAreCanonical ==
  ASSUME NEW parts \in Seq(STRING) \ {<<>>}, CanonicalizePath(parts) # <<".">>
  PROVE  IsNormal(IF Last(parts) = "" THEN Front(CanonicalizePath(parts)) ELSE CanonicalizePath(parts), parts)
BY PathsAreCanonical DEF CanonicalForm
=============================================================================
