----------------------------- MODULE Intercept -----------------------------
(***************************************************************************)
(* The system call interceptor, ekam/rules/intercept.c: a library loaded   *)
(* into the processes of a rule, whose versions of open(), stat(), ...     *)
(* first ask Ekam, over a pair of pipes, which file a name stands for.     *)
(* The threads of a process share two streams, a cache of one answer, and  *)
(* the code that sets all that up when the first of them comes by.  A      *)
(* parent and its children share the pipes, but nothing else.              *)
(*                                                                         *)
(* At the other end is CommandReader::consume() of a plugin action.        *)
(***************************************************************************)
EXTENDS Integers, Sequences, SequencesExt

CONSTANTS
    Threads,    \* threads that make calls
    ProcOf,     \* the process of each thread
    CallsOf,    \* the calls each thread may make, see Calls
    Sources,    \* names (sequences of parts) that Ekam finds a file for
    SrcDirs,    \* names of the directories of the source tree
    None        \* no thread, no pointer, no answer

ASSUME InterceptAssumption ==
    /\ DOMAIN ProcOf = Threads
    /\ DOMAIN CallsOf = Threads
    /\ None \notin Threads

Procs == {ProcOf[t] : t \in Threads}

(***************************************************************************)
(* A path is what the code tells apart of it: the kind, which is the       *)
(* branch of remap_file() it takes, the parts between its slashes, and     *)
(* what it is used for.  "cwd" is an absolute path below the current       *)
(* directory, "tmp" one below /tmp or /proc, "bypass" one of               *)
(* EKAM_REMAP_BYPASS_DIRS, "tag" one below /ekam-provider.                 *)
(***************************************************************************)
Usages == {"READ", "WRITE"}
Kinds == {"rel", "cwd", "deps", "abs", "tmp", "bypass", "long", "tag"}
PathType == [kind : Kinds, parts : Seq(STRING) \ {<<>>}, usage : Usages]
File(kind, parts, usage) == [kind |-> kind, parts |-> parts, usage |-> usage]

(***************************************************************************)
(* A call of a replaced function, with the paths it has remapped.  Most    *)
(* remap the one they get; rename() remaps two; openat() reads the link of *)
(* the directory's descriptor and opens what it finds there.               *)
(***************************************************************************)
Wrapped(fn, kind, parts, usage) == [fn |-> fn, paths |-> <<File(kind, parts, usage)>>]
Open(kind, parts, flags) ==
    Wrapped("open", kind, parts, IF flags = "O_RDONLY" THEN "READ" ELSE "WRITE")
OpenAt(kind, parts, flags) ==
    [fn |-> "openat",
     paths |-> <<File("tmp", <<"proc", "self", "fd">>, "READ")>> \o Open(kind, parts, flags).paths]
\* execvp() of a name without a slash is looked up in PATH, and not remapped.
Exec(kind, parts) ==
    Wrapped("execvp", IF kind = "rel" /\ Len(parts) = 1 THEN "bypass" ELSE kind, parts, "READ")
Rename(from, to) ==
    [fn |-> "rename",
     paths |-> <<File(from.kind, from.parts, "WRITE"), File(to.kind, to.parts, "WRITE")>>]

\* Every call remaps a path at least; access() of a relative path remaps it to read.
ASSUME CallsAssumption ==
    \A t \in Threads : \A c \in CallsOf[t] :
        /\ c.paths \in Seq(PathType) \ {<<>>}
        /\ c.fn = "access" /\ Head(c.paths).kind = "rel" => Head(c.paths).usage = "READ"

Calls == UNION {CallsOf[t] : t \in Threads}
Paths == UNION {{c.paths[i] : i \in DOMAIN c.paths} : c \in Calls}

VARIABLES
    pc,         \* pc[t]: where the thread is
    call,       \* call[t]: the call it makes
    got,        \* got[t]: what remap_file() has returned for its paths so far
    oncePtr,    \* dynamic_pthread_once of each process
    control,    \* init_once_control: 0, 1 in progress, 2 done
    onceMutex,  \* holder of fake_once_mutex
    opened,     \* how often init_streams_once() has opened the streams
    callLock,   \* holder of the lock of ekam_call_stream
    returnLock, \* holder of the lock of ekam_return_stream
    readAhead,  \* lines that ekam_return_stream has read and not yet handed out
    cache,      \* last_usage, last_path, last_result of each process
    requests,   \* the pipe to Ekam
    answers,    \* the pipe from Ekam
    known,      \* CommandReader::cache: the answer to each line already answered
    tmpDirs,    \* directories made under tmp/
    gone        \* gone[p]: why the process has ended, or ""

initVars == <<oncePtr, control, onceMutex, opened>>
streamVars == <<callLock, returnLock, readAhead>>
pipeVars == <<requests, answers, known>>
vars == <<pc, call, got, initVars, streamVars, cache, pipeVars, tmpDirs, gone>>

(***************************************************************************)
(* canonicalizePath() walks over the parts with a stack of those to keep.  *)
(* `locked` of them are ".." that it could not resolve.  Duplicate slashes *)
(* are skipped before a part, so that an empty part is one at the end, and *)
(* it is copied like any other.                                            *)
(***************************************************************************)
KeepPart(stack, part) ==
    CASE part = "." -> stack
      [] part = ".." /\ Len(stack.kept) > stack.locked -> [stack EXCEPT !.kept = Front(@)]
      [] part = ".." /\ Len(stack.kept) <= stack.locked ->
            [kept |-> Append(stack.kept, part), locked |-> stack.locked + 1]
      [] OTHER -> [stack EXCEPT !.kept = Append(@, part)]

CanonicalizePath(parts) ==
    LET after[n \in 0..Len(parts)] ==
            IF n = 0 THEN [kept |-> <<>>, locked |-> 0]
            ELSE IF parts[n] = "" /\ n < Len(parts) THEN after[n - 1]
            ELSE KeepPart(after[n - 1], parts[n])
        kept == after[Len(parts)].kept
    IN  IF kept = <<>> THEN <<".">> ELSE kept

\* The part of a path that the pointer `pathname` is left with: a path below the
\* current directory is made relative (but not one below deps).
Relative(path) == IF path.kind = "cwd" THEN File("rel", path.parts, path.usage) ELSE path

\* The name in the line that remap_file() writes.
AskedName(path) ==
    IF path.kind # "tag" THEN CanonicalizePath(path.parts)
    ELSE IF path.usage = "READ" /\ Len(path.parts) > 1
    THEN <<Head(path.parts)>> \o CanonicalizePath(Tail(path.parts))
    ELSE path.parts

Line(path) ==
    [cmd |-> IF path.kind = "tag" THEN IF path.usage = "READ" THEN "findProvider" ELSE "newProvider"
             ELSE IF path.kind \in {"abs", "deps"} THEN "noteInput"
             ELSE IF path.usage = "READ" THEN "findInput" ELSE "newOutput",
     name |-> AskedName(path)]

\* Results of remap_file(): a file of a directory, the path as it is, or an errno.
Found(dir, name) == [dir |-> dir, name |-> name]
Same(path) == Found("same", path.parts)
Errno(e) == Found("errno", <<e>>)
NotFound == Errno("ENOENT")

\* To ask is none of the answers.
ASSUME NoneAssumption == None # Found("same", <<".">>)

\* What remap_file() returns without asking, or None when it has to ask.
Unasked(path) ==
    CASE path.kind = "tag" /\ path.usage = "READ" /\ Len(path.parts) = 1 -> Found("same", <<".">>)
      [] path.kind = "tag" /\ path.usage = "READ" /\ AskedName(path) = <<"canonical", ".">> ->
            Found("src", <<>>)
      [] path.kind \in {"tmp", "bypass"} -> Same(path)
      [] path.kind \in {"abs", "deps"} /\ path.usage = "WRITE" -> Errno("EACCES")
      [] path.kind \in {"rel", "cwd"} /\ AskedName(path) = <<".">> -> Found("same", <<".">>)
      [] OTHER -> None

(***************************************************************************)
(* Ekam's answers.  A line that was answered with a file gets the same     *)
(* answer again (findInCache), and a file the action has created is found  *)
(* where it was put.                                                       *)
(***************************************************************************)
Written(line) == [cmd |-> "newOutput", name |-> line.name]

Answer(line) ==
    IF line \in DOMAIN known THEN known[line]
    ELSE IF line.cmd = "newOutput" THEN Found("tmp", line.name)
    ELSE IF line.cmd = "findInput" /\ Written(line) \in DOMAIN known THEN known[Written(line)]
    ELSE IF line.name \in Sources THEN Found("src", line.name)
    ELSE NotFound

\* consume() remembers what it looked up or created, not a hit through newOutput.
\* Mutant: only what was created is remembered.
RememberOutputs(line) ==
    IF line.cmd = "newOutput"
    THEN [l \in DOMAIN known \cup {line} |-> IF l = line THEN Answer(line) ELSE known[l]]
    ELSE known

Remember(line) ==
    IF \/ Answer(line) = NotFound
       \/ line.cmd = "findInput" /\ Answer(line).dir = "tmp"
    THEN known
    ELSE [l \in DOMAIN known \cup {line} |-> IF l = line THEN Answer(line) ELSE known[l]]

Init ==
    /\ pc = [t \in Threads |-> "idle"]
    /\ call = [t \in Threads |-> None]
    /\ got = [t \in Threads |-> <<>>]
    /\ oncePtr = [p \in Procs |-> None]
    /\ control = [p \in Procs |-> 0]
    /\ onceMutex = [p \in Procs |-> None]
    /\ opened = [p \in Procs |-> 0]
    /\ callLock = [p \in Procs |-> None]
    /\ returnLock = [p \in Procs |-> None]
    /\ readAhead = [p \in Procs |-> <<>>]
    /\ cache = [p \in Procs |-> None]
    /\ requests = <<>>
    /\ answers = <<>>
    /\ known = [l \in {} |-> None]
    /\ tmpDirs = {}
    /\ gone = [p \in Procs |-> ""]

-----------------------------------------------------------------------------
At(t, label) == pc[t] = label /\ gone[ProcOf[t]] = ""
GoTo(t, label) == pc' = [pc EXCEPT ![t] = label]
Path(t) == call[t].paths[Len(got[t]) + 1]

\* remap_file() begins with init_streams(), which changes nothing once the streams
\* are there.
Entry(p) == IF control[p] = 2 THEN "remap" ELSE "pointer"

DirName(path) == CanonicalizePath(path.parts)
InTree(c) == Head(c.paths).kind = "rel"

\* mkdir() of a relative path never asks: it makes the directory, and those above it,
\* under tmp/.
MakeDirectory(t, c) ==
    LET dir == DirName(Head(c.paths)) IN
    /\ c.fn = "mkdir" /\ InTree(c)
    /\ tmpDirs' = tmpDirs \cup {SubSeq(dir, 1, n) : n \in 1..Len(dir)}
    /\ got' = [got EXCEPT ![t] = <<Found("tmp", dir)>>]
    /\ GoTo(t, "return")

\* access() of a relative path says yes to a directory of either tree.
FindDirectory(t, c) ==
    LET dir == DirName(Head(c.paths)) IN
    /\ c.fn = "access" /\ InTree(c)
    /\ dir \in SrcDirs \cup tmpDirs
    /\ got' = [got EXCEPT ![t] = <<Found(IF dir \in SrcDirs THEN "src" ELSE "tmp", dir)>>]
    /\ GoTo(t, "return")
    /\ UNCHANGED tmpDirs

RemapFirst(t, c) ==
    /\ c.fn = "mkdir" => ~InTree(c)
    /\ c.fn = "access" /\ InTree(c) => DirName(Head(c.paths)) \notin SrcDirs \cup tmpDirs
    /\ GoTo(t, Entry(ProcOf[t]))
    /\ UNCHANGED <<got, tmpDirs>>

Begin(t, c) ==
    /\ At(t, "idle")
    /\ call' = [call EXCEPT ![t] = c]
    /\ MakeDirectory(t, c) \/ FindDirectory(t, c) \/ RemapFirst(t, c)
    /\ UNCHANGED <<initVars, streamVars, cache, pipeVars, gone>>

\* The real function that is called in the end, with what remap_file() returned.
\* In the tree a link looks like the file it leads to, and a source file is not said
\* to be writable.
RealCall(c, result) ==
    CASE result.dir = "errno" -> "none"
      [] c.fn = "lstat" /\ result.dir \in {"src", "tmp"} -> "stat"
      [] c.fn = "readlink" /\ result.dir \in {"src", "tmp"} -> "none"
      [] c.fn = "access" /\ c.mode = "W_OK" /\ result.dir = "src" -> "none"
      [] OTHER -> c.fn
Access(kind, parts, mode) ==
    [fn |-> "access", mode |-> mode,
     paths |-> <<File(kind, parts, IF mode = "W_OK" /\ kind # "rel" THEN "WRITE" ELSE "READ")>>]

-----------------------------------------------------------------------------
(***************************************************************************)
(* init_pthreads() and the once.  Nothing guards dynamic_pthread_once: a   *)
(* thread stores the library's function in it, then the fake one, and      *)
(* calls what it reads.                                                    *)
(***************************************************************************)
TestPointer(t) ==
    /\ At(t, "pointer")
    /\ GoTo(t, IF oncePtr[ProcOf[t]] = None THEN "storeReal" ELSE "storeFake")
    /\ UNCHANGED <<call, got, initVars, streamVars, cache, pipeVars, tmpDirs, gone>>

StorePointer(t, which) ==
    /\ At(t, IF which = "real" THEN "storeReal" ELSE "storeFake")
    /\ oncePtr' = [oncePtr EXCEPT ![ProcOf[t]] = which]
    /\ GoTo(t, IF which = "real" THEN "storeFake" ELSE "once")
    /\ UNCHANGED <<call, got, control, onceMutex, opened, streamVars, cache, pipeVars, tmpDirs, gone>>

\* The call through the pointer: the library's pthread_once() waits while another
\* thread is initializing, the fake one looks again with its mutex held.
CallOnce(t) ==
    LET p == ProcOf[t] IN
    /\ At(t, "once")
    /\ \/ /\ control[p] = 2
          /\ GoTo(t, "remap")
          /\ UNCHANGED control
       \/ /\ control[p] = 0 /\ oncePtr[p] = "real"
          /\ control' = [control EXCEPT ![p] = 1]
          /\ GoTo(t, "init")
       \/ /\ control[p] # 2 /\ oncePtr[p] = "fake"
          /\ GoTo(t, "mutex")
          /\ UNCHANGED control
    /\ UNCHANGED <<call, got, oncePtr, onceMutex, opened, streamVars, cache, pipeVars, tmpDirs, gone>>

\* fake_pthread_once() past its mutex: the exchange succeeds, or asserts that the
\* other thread is done.
\* Mutant: whoever finds it begun takes it for done.
FakeOnceTrusting(t) ==
    LET p == ProcOf[t] IN
    /\ At(t, "mutex")
    /\ onceMutex[p] = None
    /\ IF control[p] = 0
       THEN /\ onceMutex' = [onceMutex EXCEPT ![p] = t]
            /\ control' = [control EXCEPT ![p] = 1]
            /\ GoTo(t, "init")
       ELSE GoTo(t, "remap") /\ UNCHANGED <<onceMutex, control>>
    /\ UNCHANGED <<call, got, oncePtr, opened, streamVars, cache, pipeVars, tmpDirs, gone>>

FakeOnce(t) ==
    LET p == ProcOf[t] IN
    /\ At(t, "mutex")
    /\ onceMutex[p] = None
    /\ CASE control[p] = 0 ->
              /\ onceMutex' = [onceMutex EXCEPT ![p] = t]
              /\ control' = [control EXCEPT ![p] = 1]
              /\ GoTo(t, "init")
              /\ UNCHANGED gone
         [] control[p] = 2 ->
              /\ GoTo(t, "remap")
              /\ UNCHANGED <<onceMutex, control, gone>>
         [] OTHER ->
              /\ gone' = [gone EXCEPT ![p] = "assert"]
              /\ UNCHANGED <<onceMutex, control, pc>>
    /\ UNCHANGED <<call, got, oncePtr, opened, streamVars, cache, pipeVars, tmpDirs>>

\* init_streams_once(), which aborts if it runs a second time.
InitStreams(t) ==
    LET p == ProcOf[t] IN
    /\ At(t, "init")
    /\ IF opened[p] > 0
       THEN gone' = [gone EXCEPT ![p] = "pthread_once is broken"]
       ELSE UNCHANGED gone
    /\ opened' = [opened EXCEPT ![p] = @ + 1]
    /\ control' = [control EXCEPT ![p] = 2]
    /\ onceMutex' = [onceMutex EXCEPT ![p] = IF @ = t THEN None ELSE @]
    /\ GoTo(t, "remap")
    /\ UNCHANGED <<call, got, oncePtr, streamVars, cache, pipeVars, tmpDirs>>

-----------------------------------------------------------------------------
(***************************************************************************)
(* remap_file().                                                           *)
(***************************************************************************)

\* One path is done: a failure ends the call, and so does the last path.
Return(t, result) ==
    /\ got' = [got EXCEPT ![t] = Append(@, result)]
    /\ GoTo(t, IF result.dir = "errno" \/ Len(got[t]) + 1 = Len(call[t].paths)
               THEN "return" ELSE Entry(ProcOf[t]))

CacheHit(p, path) ==
    cache[p] # None /\ cache[p].usage = path.usage /\ cache[p].path = path

Stored(path, result) == [usage |-> path.usage, path |-> Relative(path), result |-> result]

\* The length, and get_cached_result() with the path as it was passed.
LookInCache(t) ==
    LET p == ProcOf[t] IN
    /\ At(t, "remap")
    /\ IF Path(t).kind = "long" THEN Return(t, Errno("ENAMETOOLONG"))
       ELSE IF CacheHit(p, Path(t)) THEN Return(t, cache[p].result)
       ELSE GoTo(t, "lock") /\ UNCHANGED got
    /\ UNCHANGED <<call, initVars, streamVars, cache, pipeVars, tmpDirs, gone>>

LockCall(t) ==
    /\ At(t, "lock")
    /\ callLock[ProcOf[t]] = None
    /\ callLock' = [callLock EXCEPT ![ProcOf[t]] = t]
    /\ GoTo(t, "ask")
    /\ UNCHANGED <<call, got, initVars, returnLock, readAhead, cache, pipeVars, tmpDirs, gone>>

ReleaseCall(p) == callLock' = [callLock EXCEPT ![p] = None]

\* Everything that is settled with only the call stream locked: paths that are left
\* alone or refused, and absolute ones, of which Ekam is told and does not answer.
\* Mutant: the early return forgets the lock.
AnswerLocked(t) ==
    /\ At(t, "ask")
    /\ Unasked(Path(t)) # None
    /\ Return(t, Unasked(Path(t)))
    /\ UNCHANGED <<call, initVars, streamVars, cache, pipeVars, tmpDirs, gone>>

AnswerHere(t) ==
    /\ At(t, "ask")
    /\ Unasked(Path(t)) # None
    /\ ReleaseCall(ProcOf[t])
    /\ Return(t, Unasked(Path(t)))
    /\ UNCHANGED <<call, initVars, returnLock, readAhead, cache, pipeVars, tmpDirs, gone>>

NoteInput(t) ==
    /\ At(t, "ask")
    /\ Unasked(Path(t)) = None
    /\ Path(t).kind \in {"abs", "deps"}
    /\ requests' = Append(requests, Line(Path(t)))
    /\ cache' = [cache EXCEPT ![ProcOf[t]] = Stored(Path(t), Same(Path(t)))]
    /\ ReleaseCall(ProcOf[t])
    /\ Return(t, Same(Path(t)))
    /\ UNCHANGED <<call, initVars, returnLock, readAhead, answers, known, tmpDirs, gone>>

\* Mutant: the call stream is unlocked as soon as the request is written.
AskAndUnlock(t) ==
    /\ At(t, "ask")
    /\ Unasked(Path(t)) = None
    /\ Path(t).kind \notin {"abs", "deps"}
    /\ requests' = Append(requests, Line(Path(t)))
    /\ ReleaseCall(ProcOf[t])
    /\ GoTo(t, "handOver")
    /\ UNCHANGED <<call, got, initVars, returnLock, readAhead, cache, answers, known, tmpDirs, gone>>

Ask(t) ==
    /\ At(t, "ask")
    /\ Unasked(Path(t)) = None
    /\ Path(t).kind \notin {"abs", "deps"}
    /\ requests' = Append(requests, Line(Path(t)))
    /\ GoTo(t, "handOver")
    /\ UNCHANGED <<call, got, initVars, streamVars, cache, answers, known, tmpDirs, gone>>

\* The return stream is locked before the call stream is unlocked.
LockReturn(t) ==
    /\ At(t, "handOver")
    /\ returnLock[ProcOf[t]] = None
    /\ returnLock' = [returnLock EXCEPT ![ProcOf[t]] = t]
    /\ GoTo(t, "unlock")
    /\ UNCHANGED <<call, got, initVars, callLock, readAhead, cache, pipeVars, tmpDirs, gone>>

UnlockCall(t) ==
    /\ At(t, "unlock")
    /\ ReleaseCall(ProcOf[t])
    /\ GoTo(t, "read")
    /\ UNCHANGED <<call, got, initVars, returnLock, readAhead, cache, pipeVars, tmpDirs, gone>>

\* fgets(): from what the stream has, or else from all that the pipe has.
ReadAnswer(t) ==
    LET p == ProcOf[t]
        refill == readAhead[p] = <<>>
        lines == IF refill THEN answers ELSE readAhead[p]
    IN
    /\ At(t, "read")
    /\ lines # <<>>
    /\ readAhead' = [readAhead EXCEPT ![p] = Tail(lines)]
    /\ answers' = IF refill THEN <<>> ELSE answers
    /\ returnLock' = [returnLock EXCEPT ![p] = None]
    /\ IF Head(lines) = NotFound
       THEN Return(t, NotFound)
       ELSE /\ got' = [got EXCEPT ![t] = Append(@, Head(lines))]
            /\ GoTo(t, "store")
    /\ UNCHANGED <<call, initVars, callLock, cache, requests, known, tmpDirs, gone>>

\* cache_result(), with neither stream locked any more.
CacheResult(t) ==
    LET n == Len(got[t]) IN
    /\ At(t, "store")
    /\ cache' = [cache EXCEPT ![ProcOf[t]] = Stored(call[t].paths[n], got[t][n])]
    /\ GoTo(t, IF n = Len(call[t].paths) THEN "return" ELSE Entry(ProcOf[t]))
    /\ UNCHANGED <<call, got, initVars, streamVars, pipeVars, tmpDirs, gone>>

\* The real function is called with what remap_file() returned, or errno is set.
Finish(t) ==
    /\ At(t, "return")
    /\ GoTo(t, "idle")
    /\ call' = [call EXCEPT ![t] = None]
    /\ got' = [got EXCEPT ![t] = <<>>]
    /\ UNCHANGED <<initVars, streamVars, cache, pipeVars, tmpDirs, gone>>

\* Ekam reads a line.  newProvider is not implemented: the action fails, and its
\* processes are killed.
Consume ==
    /\ requests # <<>>
    /\ requests' = Tail(requests)
    /\ LET line == Head(requests) IN
       CASE line.cmd = "newProvider" ->
              /\ gone' = [p \in Procs |-> IF gone[p] = "" THEN "killed" ELSE gone[p]]
              /\ UNCHANGED <<answers, known>>
         [] line.cmd = "noteInput" -> UNCHANGED <<answers, known, gone>>
         [] OTHER ->
              /\ answers' = Append(answers, Answer(line))
              /\ known' = Remember(line)
              /\ UNCHANGED gone
    /\ UNCHANGED <<pc, call, got, initVars, streamVars, cache, tmpDirs>>

ThreadStep(t) ==
    \/ TestPointer(t) \/ StorePointer(t, "real") \/ StorePointer(t, "fake")
    \/ CallOnce(t) \/ FakeOnce(t) \/ InitStreams(t)
    \/ LookInCache(t) \/ LockCall(t) \/ AnswerHere(t) \/ NoteInput(t) \/ Ask(t)
    \/ LockReturn(t) \/ UnlockCall(t) \/ ReadAnswer(t) \/ CacheResult(t)
    \/ Finish(t)

Next ==
    \/ \E t \in Threads : ThreadStep(t) \/ \E c \in CallsOf[t] : Begin(t, c)
    \/ Consume

\* Threads go on with what they do, and so does Ekam's event loop.  A lock that is
\* free again and again is taken in the end.
Spec ==
    /\ Init
    /\ [][Next]_vars
    /\ WF_vars(Consume)
    /\ \A t \in Threads : SF_vars(ThreadStep(t))

-----------------------------------------------------------------------------
(***************************************************************************)
(* Properties.                                                             *)
(***************************************************************************)
Labels == {"idle", "pointer", "storeReal", "storeFake", "once", "mutex", "init", "remap",
           "lock", "ask", "handOver", "unlock", "read", "store", "return"}
Results == [dir : {"src", "tmp", "same", "errno"},
            name : {p.parts : p \in Paths} \cup {AskedName(p) : p \in Paths}
                   \cup {<<>>, <<".">>} \cup {<<e>> : e \in {"ENOENT", "EACCES", "ENAMETOOLONG"}}]

\* Types of the variables of intercept.c and of the pipes.
TypeOK ==
    /\ pc \in [Threads -> Labels]
    /\ \A t \in Threads : call[t] \in CallsOf[t] \cup {None}
    /\ \A t \in Threads : \A i \in DOMAIN got[t] : got[t][i] \in Results
    /\ oncePtr \in [Procs -> {None, "real", "fake"}]
    /\ control \in [Procs -> 0..2]
    /\ onceMutex \in [Procs -> Threads \cup {None}]
    /\ callLock \in [Procs -> Threads \cup {None}]
    /\ returnLock \in [Procs -> Threads \cup {None}]
    /\ \A p \in Procs : cache[p] = None \/ cache[p].path \in {Relative(q) : q \in Paths}
    /\ Range(answers) \subseteq Results

\* init_streams(): however the threads that come first interleave, the streams are
\* opened once, and nobody goes on before they are.  A process may be ended by the
\* assertion in fake_pthread_once(), but not get past it with half a set-up.
Remapping == {"remap", "lock", "ask", "handOver", "unlock", "read", "store"}
StreamsOpenedOnce ==
    \A t \in Threads :
        /\ opened[ProcOf[t]] <= 1
        /\ pc[t] \in Remapping => opened[ProcOf[t]] = 1

\* What remap_file() should return for a path: the reference, without locks, pipes
\* and caches.
Reference(path) ==
    IF path.kind = "long" THEN Errno("ENAMETOOLONG")
    ELSE IF Unasked(path) # None THEN Unasked(path)
    ELSE IF path.kind \in {"abs", "deps"} THEN Same(path)
    ELSE Answer(Line(path))

\* A name that was not found may have been created since.
EachGetsItsAnswer ==
    \A t \in Threads : \A i \in DOMAIN got[t] :
        LET path == call[t].paths[i] IN
        call[t].fn \notin {"mkdir", "access"} =>
            \/ got[t][i] = Reference(path)
            \/ got[t][i] = NotFound /\ Line(File(path.kind, path.parts, "WRITE")) \in DOMAIN known

\* The cached answer is the one Ekam would give now, also when it was stored late, by
\* a thread that other threads have overtaken.
CacheIsCurrent ==
    \A p \in Procs : cache[p] # None => cache[p].result = Reference(cache[p].path)

Modifies(c, i) ==
    \/ c.paths[i].usage = "WRITE"
    \/ c.fn = "access" /\ c.mode = "W_OK" /\ DirName(c.paths[i]) \notin SrcDirs

NoSourceIsWritten ==
    \A t \in Threads : \A i \in DOMAIN got[t] :
        Modifies(call[t], i) /\ RealCall(call[t], got[t][i]) # "none" => got[t][i].dir # "src"

(***************************************************************************)
(* The reference for canonicalizePath(): which parts of a path are left,   *)
(* read off the path as a whole.  A name is undone if some later stretch   *)
(* that starts right after it has more ".." than names; and there are as   *)
(* many ".." as the path climbs above where it starts.                     *)
(***************************************************************************)
IsName(part) == part \notin {"", ".", ".."}
Climb(parts, from, to) ==
    Cardinality({i \in from..to : parts[i] = ".."})
    - Cardinality({i \in from..to : IsName(parts[i])})

Survives(parts, i) ==
    IsName(parts[i]) /\ \A n \in i + 1..Len(parts) : Climb(parts, i + 1, n) <= 0

IsNormal(name, parts) ==
    \E ups \in 0..Len(name) : \E at \in [1..Len(name) - ups -> DOMAIN parts] :
        /\ \A n \in 0..Len(parts) : Climb(parts, 1, n) <= ups
        /\ \E n \in 0..Len(parts) : Climb(parts, 1, n) = ups
        /\ \A i, j \in DOMAIN at : i < j => at[i] < at[j]
        /\ {at[j] : j \in DOMAIN at} = {i \in DOMAIN parts : Survives(parts, i)}
        /\ name = [i \in 1..Len(name) |-> IF i <= ups THEN ".." ELSE parts[at[i - ups]]]

\* A path that ends in a slash keeps an empty part at its end, which the comment in
\* the code would have removed.
OneNamePerFile ==
    \A t \in Threads :
        LET name == Line(Path(t)).name IN
        pc[t] \in {"handOver", "unlock", "read"} /\ Path(t).kind \in {"rel", "cwd"} =>
            IsNormal(IF Last(Path(t).parts) = "" THEN Front(name) ELSE name, Path(t).parts)

\* Every call gets the answer to its own question, whichever threads ask at the same
\* time and whatever they cached: the hand-over from one stream's lock to the other's
\* keeps the answers in the order of the requests.  A file has one name, whatever path
\* below the current directory leads to it; and no call that modifies a file, or asks
\* whether it could, is let through to a file of the source tree, by any sequence of
\* reads and writes of the same name.
AnswersAreRight == TypeOK /\ EachGetsItsAnswer /\ OneNamePerFile /\ NoSourceIsWritten

\* Every call returns, unless the process has ended: no thread waits for ever for a
\* lock, for the initialization, or for an answer that another one has taken.
CallsReturn ==
    \A t \in Threads : pc[t] # "idle" ~> (pc[t] = "idle" \/ gone[ProcOf[t]] # "")
=============================================================================
