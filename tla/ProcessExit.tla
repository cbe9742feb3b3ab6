----------------------------- MODULE ProcessExit -----------------------------
(***************************************************************************)
(* How Ekam learns that a process it started has ended: the SignalHandler  *)
(* of src/os/EpollEventManager.cpp, and src/os/Subprocess.cpp, which       *)
(* starts processes and kills them when what they are for is canceled.     *)
(*                                                                         *)
(* The event loop is one thread.  It runs queued callbacks first, and only *)
(* then waits for events.  SIGCHLD does not queue, so one signal makes it  *)
(* call waitpid() until there is nothing left; in the meantime more        *)
(* processes may end.  A Subprocess is told by a callback, which is queued *)
(* when its process is reaped; until the callback runs, the Subprocess     *)
(* takes its process to be there, and kills it if it is destroyed.  The    *)
(* order of the queue is abstracted.                                       *)
(***************************************************************************)
CONSTANTS
  Pids,        \* process ids
  Subs,        \* Subprocess objects, with what waits for them
  None,        \* no process (pid == -1), no handler, no owner
  Strays       \* may there be children that nobody waits for?

ASSUME ProcessAssumption == None \notin Pids \cup Subs /\ Strays \in BOOLEAN

VARIABLES
  process,                \* the kernel's: "free", "running" or "zombie"
  owner,                  \* the Subprocess that started it
  sigchld,                \* is SIGCHLD pending on the signalfd?
  processExitHandlerMap,  \* the Subprocess waiting for each process id
  watching,               \* does the signalfd's Watch have EPOLLIN?
  reaping,                \* is handleProcessExit() in its loop?
  pid,                    \* Subprocess::pid
  promise,                \* of the exit: "none", "waiting", "queued" or "told"
  looping                 \* is loop() running?

kernel == <<process, owner, sigchld>>
manager == <<processExitHandlerMap, watching>>
vars == <<kernel, manager, reaping, pid, promise, looping>>

TypeOK ==
  /\ process \in [Pids -> {"free", "running", "zombie"}]
  /\ owner \in [Pids -> Subs \cup {None}]
  /\ sigchld \in BOOLEAN
  /\ processExitHandlerMap \in [Pids -> Subs \cup {None}]
  /\ watching \in BOOLEAN
  /\ reaping \in BOOLEAN
  /\ pid \in [Subs -> Pids \cup {None}]
  /\ promise \in [Subs -> {"none", "waiting", "queued", "told"}]
  /\ looping \in BOOLEAN

Init ==
  /\ process = [p \in Pids |-> "free"]
  /\ owner = [p \in Pids |-> None]
  /\ sigchld = FALSE
  /\ processExitHandlerMap = [p \in Pids |-> None]
  /\ watching = FALSE
  /\ reaping = FALSE
  /\ pid = [s \in Subs |-> None]
  /\ promise = [s \in Subs |-> "none"]
  /\ looping = TRUE

-----------------------------------------------------------------------------
(***************************************************************************)
(* The kernel, and children that come from elsewhere (they are orphans of  *)
(* a process that has ended, when Ekam is the init of a container).        *)
(***************************************************************************)

Queued == {s \in Subs : promise[s] = "queued"}

\* The ids fork() may give.  Bound: an id is not given again before the callback
\* that tells of its last process has run (all the others would be given first).
FreePids == {p \in Pids : process[p] = "free" /\ \A s \in Queued : pid[s] # p}

Exit(p) ==
  /\ process[p] = "running"
  /\ process' = [process EXCEPT ![p] = "zombie"]
  /\ sigchld' = TRUE
  /\ UNCHANGED <<owner, manager, reaping, pid, promise, looping>>

Stray(p) ==
  /\ Strays
  /\ looping
  /\ p \in FreePids
  /\ process' = [process EXCEPT ![p] = "running"]
  /\ owner' = [owner EXCEPT ![p] = None]
  /\ UNCHANGED <<sigchld, manager, reaping, pid, promise, looping>>

-----------------------------------------------------------------------------
(***************************************************************************)
(* Subprocess, called from some callback of the event loop.                *)
(***************************************************************************)

InCallback == looping /\ ~reaping

\* start(): fork, and onProcessExit().
Start(s, p) ==
  /\ InCallback
  /\ promise[s] = "none"
  /\ p \in FreePids
  /\ process' = [process EXCEPT ![p] = "running"]
  /\ owner' = [owner EXCEPT ![p] = s]
  /\ pid' = [pid EXCEPT ![s] = p]
  /\ processExitHandlerMap' = [processExitHandlerMap EXCEPT ![p] = s]
  /\ watching' = TRUE
  /\ promise' = [promise EXCEPT ![s] = "waiting"]
  /\ UNCHANGED <<sigchld, reaping, looping>>

\* The handler of pid p is gone; the signals are watched as long as there is one.
EraseHandler(p) ==
  /\ processExitHandlerMap' = [processExitHandlerMap EXCEPT ![p] = None]
  /\ watching' = (watching /\ \E q \in Pids \ {p} : processExitHandlerMap[q] # None)

\* ~Subprocess(): the process group is killed, and its leader waited for.
\* Mutant: it is not waited for.
KillOnly(s) ==
  IF pid[s] # None /\ process[pid[s]] # "free"
  THEN /\ process' = [process EXCEPT ![pid[s]] = "zombie"]
       /\ sigchld' = (sigchld \/ process[pid[s]] = "running")
       /\ UNCHANGED owner
  ELSE UNCHANGED kernel

Kill(s) ==
  IF pid[s] # None /\ process[pid[s]] # "free"
  THEN /\ process' = [process EXCEPT ![pid[s]] = "free"]
       /\ owner' = [owner EXCEPT ![pid[s]] = None]
       /\ sigchld' = (sigchld \/ process[pid[s]] = "running")
  ELSE UNCHANGED kernel

\* Everything that waits for s is destroyed, the promise and the Subprocess.
Destroy(s) ==
  /\ InCallback
  /\ promise[s] # "none"
  /\ promise' = [promise EXCEPT ![s] = "none"]
  /\ pid' = [pid EXCEPT ![s] = None]
  /\ IF promise[s] = "waiting" THEN EraseHandler(pid[s])
     ELSE UNCHANGED <<processExitHandlerMap, watching>>
  /\ Kill(s)
  /\ UNCHANGED <<reaping, looping>>

-----------------------------------------------------------------------------
(***************************************************************************)
(* The event loop.                                                         *)
(***************************************************************************)

\* A queued callback: the Subprocess forgets its process.
\* Mutant: it does not.
RunCallbackOnly(s) ==
  /\ InCallback
  /\ s \in Queued
  /\ promise' = [promise EXCEPT ![s] = "told"]
  /\ UNCHANGED <<kernel, manager, reaping, pid, looping>>

RunCallback(s) ==
  /\ InCallback
  /\ s \in Queued
  /\ promise' = [promise EXCEPT ![s] = "told"]
  /\ pid' = [pid EXCEPT ![s] = None]
  /\ UNCHANGED <<kernel, manager, reaping, looping>>

\* epoll_wait() returns the signalfd, and the signal is read.
HandleSignal ==
  /\ InCallback
  /\ Queued = {}
  /\ watching
  /\ sigchld
  /\ sigchld' = FALSE
  /\ reaping' = TRUE
  /\ UNCHANGED <<process, owner, manager, pid, promise, looping>>

\* waitpid() returns a process that somebody waits for ...
Reap(p) ==
  /\ reaping
  /\ process[p] = "zombie"
  /\ processExitHandlerMap[p] # None
  /\ process' = [process EXCEPT ![p] = "free"]
  /\ owner' = [owner EXCEPT ![p] = None]
  /\ EraseHandler(p)
  /\ promise' = [promise EXCEPT ![processExitHandlerMap[p]] = "queued"]
  /\ UNCHANGED <<sigchld, reaping, pid, looping>>

\* ... or one that nobody does: the handler returns ...
ReapStray(p) ==
  /\ reaping
  /\ process[p] = "zombie"
  /\ processExitHandlerMap[p] = None
  /\ process' = [process EXCEPT ![p] = "free"]
  /\ owner' = [owner EXCEPT ![p] = None]
  /\ reaping' = FALSE
  /\ UNCHANGED <<sigchld, manager, pid, promise, looping>>

\* ... or nothing more.  Mutant: one signal, one process.
ReapOnce ==
  /\ reaping
  /\ Queued # {} \/ \A p \in Pids : process[p] # "zombie"
  /\ reaping' = FALSE
  /\ UNCHANGED <<kernel, manager, pid, promise, looping>>

ReapNone ==
  /\ reaping
  /\ \A p \in Pids : process[p] # "zombie"
  /\ reaping' = FALSE
  /\ UNCHANGED <<kernel, manager, pid, promise, looping>>

\* Nothing is queued and nothing is watched: the loop ends.
End ==
  /\ InCallback
  /\ Queued = {}
  /\ ~watching
  /\ looping' = FALSE
  /\ UNCHANGED <<kernel, manager, reaping, pid, promise>>

Next ==
  \/ \E p \in Pids : Exit(p) \/ Stray(p) \/ Reap(p) \/ ReapStray(p)
  \/ \E s \in Subs, p \in Pids : Start(s, p)
  \/ \E s \in Subs : Destroy(s) \/ RunCallback(s)
  \/ HandleSignal \/ ReapNone \/ End

Spec == Init /\ [][Next]_vars

\* The loop goes on.
Fairness ==
  /\ \A s \in Subs : WF_vars(RunCallback(s))
  /\ WF_vars(HandleSignal)
  /\ WF_vars(ReapNone \/ \E p \in Pids : Reap(p) \/ ReapStray(p))

FairSpec == Spec /\ Fairness

-----------------------------------------------------------------------------
(***************************************************************************)
(* Properties.                                                             *)
(***************************************************************************)

Owners ==
  \A p \in Pids, s \in Subs :
    processExitHandlerMap[p] = s =>
      owner[p] = s /\ pid[s] = p /\ process[p] # "free" /\ promise[s] = "waiting"

Waiters == \A s \in Subs : promise[s] = "waiting" => processExitHandlerMap[pid[s]] = s

Watched == watching <=> \E p \in Pids : processExitHandlerMap[p] # None

\* A process somebody waits for is there, is the one that was started, and has
\* not been reaped behind the back of its handler; the signals are watched for
\* as long as there is one, so that the loop neither ends early nor hangs.
HandlersAreOwners == Owners /\ Waiters /\ Watched

\* A Subprocess that is destroyed kills no process but its own, though it may
\* have been told of nothing yet, or too late.
KillsOnlyItsOwn ==
  [][\A s \in Subs, p \in Pids :
       Destroy(s) /\ process'[p] # process[p] => owner[p] = s]_vars

\* "No zombie processes detected.  Hooray.": when the loop has ended no process
\* is left, alive or dead, but strays, and nothing waits to be told.
EndsClean ==
  ~looping => /\ \A p \in Pids : process[p] # "free" => owner[p] = None
              /\ \A s \in Subs : promise[s] \in {"none", "told"}

\* "Fulfills the promise when the process exits.": whoever waits for a process
\* that is no longer running is told, unless it is canceled.
ExitIsTold ==
  \A s \in Subs : promise[s] = "waiting" /\ process[pid[s]] # "running" ~> promise[s] # "waiting"

\* That is so as long as all children are of Subprocesses, however many of them
\* end with one SIGCHLD.
NoStrays == \A p \in Pids : process[p] # "free" => owner[p] # None
ExitOfOwnIsTold == []NoStrays => ExitIsTold
=============================================================================
