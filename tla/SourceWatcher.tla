---------------------------- MODULE SourceWatcher ----------------------------
(***************************************************************************)
(* Continuous mode: the Watchers of src/ekam/ekam.cpp, which keep the      *)
(* driver's source files those on disk.                                    *)
(*                                                                         *)
(* A DirectoryWatcher owns the Watchers of what is in the directory.  The  *)
(* callbacks run one after the other, but the files change meanwhile, so   *)
(* each system call of a callback is a step of its own: stack is the stack *)
(* of the C++ functions that are running.  readdir() is taken as one call. *)
(***************************************************************************)
EXTENDS Inotify

VARIABLES
  stack,
  source       \* the content of each path when the driver was last told of it, or None

watcherVars == <<files, inotify, unread, batch, watcher, callbacks, terminated, stack, source>>

Functions == {"wait", "deleted", "resetWatch", "modified", "new file", "new directory"}
Frames ==
  [do : Functions, at : Paths]
    \cup [do : {"children"}, at : Paths, left : SUBSET Paths, kept : SUBSET Paths]
Types == {"none", "file", "directory"}

WatcherTypes ==
  /\ type \in [Paths -> Types]
  /\ stamp \in [Paths -> 1 .. MaxChanges + 1]
  /\ changes \in 1 .. MaxChanges + 1
  /\ wds \in Seq(Paths \X (1 .. MaxChanges + 1))
  /\ watched \subseteq DOMAIN wds
  /\ watchByName \in [Paths -> DOMAIN wds \cup {None}]
  /\ unread \in Seq(Events) /\ batch \in Seq(Events)
  /\ watcher \in [Paths -> Watchers \cup {None}]
  /\ \A p \in Paths : watcher[p] # None => watcher[p].wd \in DOMAIN wds
  /\ callbacks \in Seq(Paths)
  /\ terminated \in BOOLEAN
  /\ stack \in Seq(Frames)
  /\ source \in [Paths -> (0 .. MaxChanges + 1) \cup {None}]

\* main() makes rootWatcher, and calls its modified().
WatcherInit ==
  /\ type \in [Paths -> Types]
  /\ type[Root] = "directory"
  /\ \A p \in Paths \ {Root} : /\ type[p] \in Kinds[p] \cup {"none"}
                               /\ type[p] # "none" => IsDirectory(Parent[p])
  /\ stamp = [p \in Paths |-> 1]
  /\ changes = 1
  /\ wds = <<<<Root, 1>>>>
  /\ watched = {1}
  /\ unread = <<>> /\ batch = <<>>
  /\ watchByName = [p \in Paths |-> IF p = Root THEN 1 ELSE None]
  /\ watcher = [p \in Paths |-> IF p = Root THEN Watcher(TRUE, 1, None) ELSE None]
  /\ callbacks = <<>>
  /\ terminated = FALSE
  /\ stack = <<[do |-> "modified", at |-> Root]>>
  /\ source = [p \in Paths |-> None]

-----------------------------------------------------------------------------

Top == Head(stack)
Doing(what, p) == stack # <<>> /\ Top.do = what /\ Top.at = p
Goto(what) == stack' = <<[Top EXCEPT !.do = what]>> \o Tail(stack)
Return == stack' = Tail(stack)
UnchangedFiles == UNCHANGED <<files, unread, batch>>
\* isDeleted()
IsDeleted(p) == watcher[p].promise = "none"

\* An exception leaves the callback.  What the functions on the stack own, the
\* new lists of children, is destroyed.  The initial scan is not in a callback.
\* If the callback's own promise has been released, the exception is passed to
\* freed memory: the program may crash, or not.
Destroyed == UNION {UNION {Descendants(q) : q \in stack[i].kept} :
                      i \in {j \in DOMAIN stack : stack[j].do = "children"}}
Throw ==
  LET p == Last(stack).at
      running == watcher[p].promise = "running"
  IN
  /\ Keep([Without(Destroyed) EXCEPT ![p].promise = IF running THEN "failed" ELSE @],
          watchByName, watched,
          IF Last(stack).do # "wait" THEN {TRUE} ELSE IF running THEN {FALSE} ELSE BOOLEAN)
  /\ stack' = <<>>
  /\ UNCHANGED <<wds, source>>
  /\ UnchangedFiles

-----------------------------------------------------------------------------
(***************************************************************************)
(* Watcher, FileWatcher and DirectoryWatcher.                              *)
(***************************************************************************)

\* The callback of waitForEvent() is called ...
RunCallback(p) ==
  /\ stack = <<>> /\ batch = <<>>
  /\ callbacks # <<>> /\ p = Head(callbacks)
  /\ callbacks' = Tail(callbacks)
  /\ watcher' = [watcher EXCEPT ![p].promise = "running"]
  /\ stack' = <<[do |-> watcher[p].change, at |-> p], [do |-> "wait", at |-> p]>>
  /\ UNCHANGED <<inotify, terminated, source>>
  /\ UnchangedFiles

\* ... and at its end waits again, whatever has become of the promise.
WaitForEvent(p) ==
  /\ Doing("wait", p)
  /\ watcher' = [watcher EXCEPT ![p] = OnChange(@)]
  /\ callbacks' = IF watcher'[p].promise = "queued" THEN Append(callbacks, p) ELSE callbacks
  /\ Return
  /\ UNCHANGED <<inotify, terminated, source>>
  /\ UnchangedFiles

\* driver->addSourceFile()
Content(p) == IF IsFile(p) THEN stamp[p] ELSE 0

\* FileWatcher::modified()
ModifiedFile(p) ==
  /\ Doing("modified", p)
  /\ ~watcher[p].isDirectory
  /\ source' = [source EXCEPT ![p] = Content(p)]
  /\ Return
  /\ UNCHANGED <<inotify, watcher, callbacks, terminated>>
  /\ UnchangedFiles

\* DirectoryWatcher::modified(), which lists the directory ...
ModifiedDirectory(p) ==
  /\ Doing("modified", p)
  /\ watcher[p].isDirectory
  /\ IsDirectory(p)
  /\ stack' = <<[do |-> "children", at |-> p,
                 left |-> {q \in Children(p) : type[q] # "none"}, kept |-> {}]>> \o Tail(stack)
  /\ UNCHANGED <<inotify, watcher, callbacks, terminated, source>>
  /\ UnchangedFiles

\* reallyDeleted(): the driver forgets p and all that is under it.
ReallyDeleted(p) ==
  /\ source' = [q \in Paths |-> IF q \in Descendants(p) /\ watcher[q] # None THEN None ELSE source[q]]
  /\ Keep([Without(Descendants(p) \ {p}) EXCEPT ![p].promise = "none"],
          watchByName, watched, {FALSE})
  /\ UNCHANGED wds

\* ... and if it cannot, the directory has been deleted.
ListFails(p) ==
  /\ Doing("modified", p)
  /\ watcher[p].isDirectory
  /\ ~IsDirectory(p)
  /\ ReallyDeleted(p)
  /\ Return
  /\ UnchangedFiles

\* A child that was watched before as what it is now goes to the new children;
\* others get a new watcher.
\* Mutant: so does a child that was something else.
RetainedOfAnyKind(p) == watcher[p] # None /\ ~IsDeleted(p)
Retained(p) == watcher[p] # None /\ ~IsDeleted(p) /\ watcher[p].isDirectory = IsDirectory(p)

Child(p, q) ==
  /\ Doing("children", p)
  /\ q \in Top.left
  /\ IF StatThrows(q) THEN Throw
     ELSE LET frame == [Top EXCEPT !.left = @ \ {q}, !.kept = @ \cup {q}] IN
          /\ stack' = (IF Retained(q) THEN <<>>
                       ELSE <<[do |-> IF IsDirectory(q) THEN "new directory" ELSE "new file", at |-> q]>>)
                        \o <<frame>> \o Tail(stack)
          /\ UNCHANGED <<inotify, watcher, callbacks, terminated, source>>
          /\ UnchangedFiles

\* The watcher is made, takes the place of an old one, and created() called.
NewChild(p) ==
  /\ stack # <<>> /\ Top.at = p /\ Top.do \in {"new file", "new directory"}
  /\ IF CanWatch(p)
     THEN /\ WatchFile(p, Top.do = "new directory", Descendants(p))
          /\ source' = IF Top.do = "new directory" THEN [source EXCEPT ![p] = Content(p)] ELSE source
          /\ Goto("modified")
          /\ UnchangedFiles
     ELSE Throw

\* The children that are left over are told.
SwapChildren(p) ==
  /\ Doing("children", p)
  /\ Top.left = {}
  /\ LET gone == UNION {Descendants(q) : q \in Children(p) \ Top.kept} IN
       /\ source' = [q \in Paths |-> IF q \in gone /\ watcher[q] # None THEN None ELSE source[q]]
       /\ Keep(Without(gone), watchByName, watched, {FALSE})
  /\ Return
  /\ UNCHANGED wds
  /\ UnchangedFiles

\* deleted(): is there something new in its place?
Deleted(p) ==
  /\ Doing("deleted", p)
  /\ IF StatThrows(p) THEN Throw
     ELSE IF type[p] = (IF watcher[p].isDirectory THEN "directory" ELSE "file")
     THEN /\ Goto("resetWatch")
          /\ watcher' = [watcher EXCEPT ![p].promise = "none"]
          /\ UNCHANGED <<inotify, callbacks, terminated, source>>
          /\ UnchangedFiles
     ELSE /\ ReallyDeleted(p)
          /\ Return
          /\ UnchangedFiles

ResetWatch(p) ==
  /\ Doing("resetWatch", p)
  /\ IF CanWatch(p)
     THEN /\ WatchFile(p, watcher[p].isDirectory, {})
          /\ Goto("modified")
          /\ UNCHANGED source
          /\ UnchangedFiles
     ELSE Throw

-----------------------------------------------------------------------------

FileStep == FileChange /\ UNCHANGED <<stack, source>>
EventStep == stack = <<>> /\ (Read \/ HandleEvent) /\ UNCHANGED <<stack, source>>
CallbackStep ==
  \E p \in Paths :
    \/ RunCallback(p) \/ WaitForEvent(p)
    \/ Deleted(p) \/ ResetWatch(p)
    \/ ModifiedFile(p) \/ ModifiedDirectory(p) \/ ListFails(p)
    \/ (\E q \in Paths : Child(p, q)) \/ NewChild(p) \/ SwapChildren(p)
Ekam == ~terminated /\ (EventStep \/ CallbackStep)

WatcherNext == FileStep \/ Ekam

\* The event loop goes on while there is something to do; files change or not.
WatcherSpec == WatcherInit /\ [][WatcherNext]_watcherVars /\ WF_watcherVars(Ekam)

-----------------------------------------------------------------------------
(***************************************************************************)
(* Properties.                                                             *)
(***************************************************************************)

\* A callback is queued once for each watcher whose promise is fulfilled, and for none
\* that has been destroyed or whose promise was released, whatever was created, renamed
\* or removed while the callbacks of earlier changes ran or waited.
CallbacksAreOwed ==
  /\ {callbacks[i] : i \in DOMAIN callbacks} = {p \in Paths : IsQueued(watcher, p)}
  /\ \A i, j \in DOMAIN callbacks : callbacks[i] = callbacks[j] => i = j

\* Each descriptor in the maps is the one of its path, and some watcher uses it; each
\* watcher has the descriptor of the directory that it watches or is in.
DescriptorsAreUsed ==
  /\ \A p \in Paths : watchByName[p] # None =>
       /\ wds[watchByName[p]][1] = p
       /\ \E q \in Paths : watcher[q] # None /\ watcher[q].wd = watchByName[p]
  /\ \A p \in Paths : watcher[p] # None =>
       \/ watcher[p].name = None /\ wds[watcher[p].wd][1] = p
       \/ p # Root /\ watcher[p].name = p /\ wds[watcher[p].wd][1] = Parent[p]

\* Whoever is told is there, and each is told once; no descriptor is left behind.
WatchersAreTold == WatcherTypes /\ CallbacksAreOwed /\ DescriptorsAreUsed

\* Everything that happened has been dealt with.
AtRest == ~terminated /\ stack = <<>> /\ callbacks = <<>> /\ batch = <<>> /\ unread = <<>>

\* The driver knows each file as it is, and none that is not there.  What was in a
\* directory that is gone is left out: a directory that goes away between readdir() and
\* stat() is replaced by the watcher of a file, and the driver is not told of what was
\* in it.
EverythingIsKnown ==
  \A p \in Paths \ {Root} :
    IsDirectory(Parent[p]) => source[p] = IF type[p] = "none" THEN None ELSE Content(p)

\* Whatever there is has a watcher that waits, by a descriptor that the kernel
\* still has and that is the directory's of this name now.
EverythingIsWatched ==
  \A p \in Paths :
    type[p] # "none" =>
      /\ watcher[p] # None /\ watcher[p].promise = "waiting"
      /\ watcher[p].wd \in Watching(WatchedPath(p))

\* However the changes and their events overtook each other: at rest, the driver's
\* sources are the files that are there, and will hear of the next change.
SourcesAreFiles == AtRest => EverythingIsKnown /\ EverythingIsWatched

\* When files stop changing Ekam comes to rest: no watcher is told again and again.
ComesToRest == <>[](AtRest \/ terminated)
=============================================================================
