------------------------------- MODULE Inotify -------------------------------
(***************************************************************************)
(* How Ekam hears of changes to files: the InotifyHandler of               *)
(* src/os/EpollEventManager.cpp, with the part of the file system and of   *)
(* the kernel it talks to.                                                 *)
(*                                                                         *)
(* The kernel watches directories, by watch descriptors; the               *)
(* WatchedDirectory of a descriptor passes each event on to the            *)
(* FileWatcherImpls of the name it is about, and to those of the directory *)
(* itself.  A FileWatcherImpl fulfills its promise, whose callback is      *)
(* queued, or keeps the change until it is asked for the next promise.     *)
(* There is at most one FileWatcherImpl for a path.  Hard links, and moves *)
(* into a directory that exists, are left out.                             *)
(***************************************************************************)
EXTENDS Sublists, SequencesExt

CONSTANTS
  Paths,       \* of files and directories under the source directory
  Root,        \* the source directory
  Parent,      \* of each path but Root
  None,
  Kinds,       \* bound: what may be at each path, files, directories or both
  Operations,  \* bound: what may happen to them: a subset of FileOperations
  MaxChanges   \* bound: changes to files

FileOperations == {"create", "write", "unlink", "rename", "mkdir", "mkdir again", "rmdir"}
Promises == {"none", "waiting", "queued", "running", "failed"}
Watchers ==
  [isDirectory : BOOLEAN, wd : Nat, name : Paths \cup {None}, promise : Promises,
   change : {None, "modified", "deleted"}, modified : BOOLEAN, deleted : BOOLEAN]
Events ==
  [wd : Nat, name : Paths \cup {None},
   what : {"create", "modify", "delete", "delete self", "move self"}]

ASSUME InotifyAssumption ==
  /\ Root \in Paths
  /\ IsFiniteSet(Paths)
  /\ Parent \in [Paths \ {Root} -> Paths]
  \* No path is above itself: of some paths, one has its parent elsewhere, or none.
  /\ \A S \in SUBSET Paths : S # {} => \E p \in S : p = Root \/ Parent[p] \notin S
  /\ None \notin Paths \cup Nat
  /\ None \notin Watchers
  /\ Kinds \in [Paths -> SUBSET {"file", "directory"}]
  /\ Operations \subseteq FileOperations
  /\ MaxChanges \in Nat

VARIABLES
  type,        \* of what is at each path: "none", "file" or "directory"
  stamp,       \* the change that made a directory, or the content of a file
  changes,     \* the last change; 1 stands for all there were before Ekam started
  wds,         \* kernel: the directory, a path and stamp, of each watch descriptor
  watched,     \* kernel: the descriptors that are still there
  unread,      \* kernel: events that have not been read
  batch,       \* events that have been read together, and not handled yet
  watchByName, \* watchByNameMap and watchMap: each path's descriptor, or None
  watcher,     \* the FileWatcherImpl of each path, with the promise it is asked for
  callbacks,   \* asyncCallbacks: paths whose promise is fulfilled
  terminated   \* std::terminate() has been called

files == <<type, stamp, changes>>
inotify == <<wds, watched, watchByName>>

Children(p) == {q \in Paths \ {Root} : Parent[q] = p}

\* All that is under each path, itself included: what is in any set that has it,
\* and whose directories have their children there too.
Closed(S) == \A p \in S : Children(p) \subseteq S
DescendantsOf ==
  [p \in Paths |-> {q \in Paths : \A S \in SUBSET Paths : p \in S /\ Closed(S) => q \in S}]
Descendants(p) == DescendantsOf[p]

IsDirectory(p) == type[p] = "directory"
IsFile(p) == type[p] = "file"
\* stat() gives ENOTDIR, which is thrown.
StatThrows(p) == p # Root /\ type[Parent[p]] = "file"

-----------------------------------------------------------------------------
(***************************************************************************)
(* The file system and the kernel.                                         *)
(***************************************************************************)

Watching(p) == {w \in watched : IsDirectory(p) /\ wds[w] = <<p, stamp[p]>>}

\* The events of a change: those of p in its directory, and of p itself.
In(p, what) == [w \in Watching(Parent[p]) |-> [wd |-> w, name |-> p, what |-> what]]
On(p, what) == [w \in Watching(p) |-> [wd |-> w, name |-> None, what |-> what]]
Listed(f) == IF DOMAIN f = {} THEN <<>> ELSE <<f[CHOOSE w \in DOMAIN f : TRUE]>>

Change(p, to) ==
  /\ changes <= MaxChanges
  /\ changes' = changes + 1
  /\ type' = [q \in Paths |-> IF q = p THEN to ELSE IF q \in Descendants(p) THEN "none" ELSE type[q]]
  /\ stamp' = [stamp EXCEPT ![p] = changes + 1]
  /\ UNCHANGED <<wds, batch, watchByName, watcher, callbacks, terminated>>

MayMake(p, what) == type[p] = "none" /\ IsDirectory(Parent[p]) /\ what \in Kinds[p]

Create(p) ==
  /\ "create" \in Operations
  /\ MayMake(p, "file")
  /\ unread' = unread \o Listed(In(p, "create"))
  /\ Change(p, "file")
  /\ UNCHANGED watched

Write(p) ==
  /\ "write" \in Operations
  /\ IsFile(p)
  /\ unread' = unread \o Listed(In(p, "modify"))
  /\ Change(p, "file")
  /\ UNCHANGED watched

\* mkdir(); again, if Ekam has known a directory of that name.
MakeDirectory(p) ==
  /\ "mkdir" \in Operations
  /\ MayMake(p, "directory")
  /\ "mkdir again" \in Operations \/ \A w \in DOMAIN wds : wds[w][1] # p
  /\ unread' = unread \o Listed(In(p, "create"))
  /\ Change(p, "directory")
  /\ UNCHANGED watched

Unlink(p) ==
  /\ "unlink" \in Operations
  /\ IsFile(p)
  /\ unread' = unread \o Listed(In(p, "delete"))
  /\ Change(p, "none")
  /\ UNCHANGED watched

\* rmdir(), which takes the watch with it.
RemoveDirectory(p) ==
  /\ "rmdir" \in Operations
  /\ IsDirectory(p) /\ \A q \in Children(p) : type[q] = "none"
  /\ \/ unread' = unread \o Listed(On(p, "delete self")) \o Listed(In(p, "delete"))
     \/ unread' = unread \o Listed(In(p, "delete")) \o Listed(On(p, "delete self"))
  /\ watched' = watched \ Watching(p)
  /\ Change(p, "none")

\* rename() to somewhere else, with all there is in it.
MoveAway(p) ==
  /\ "rename" \in Operations
  /\ type[p] # "none"
  /\ unread' = unread \o Listed(In(p, "delete")) \o Listed(On(p, "move self"))
  /\ Change(p, "none")
  /\ UNCHANGED watched

FileChange ==
  \E p \in Paths \ {Root} :
    \/ Create(p) \/ Write(p) \/ MakeDirectory(p)
    \/ Unlink(p) \/ RemoveDirectory(p) \/ MoveAway(p)

-----------------------------------------------------------------------------
(***************************************************************************)
(* FileWatcherImpl.  Its promise is "waiting", "queued" (fulfilled with a  *)
(* change, and the callback is in the queue), "running" (the callback is   *)
(* on the stack), "failed" (an exception has left it) or "none" (the       *)
(* promise has been released).                                             *)
(***************************************************************************)

\* flagAsModified(), flagAsDeleted()
Flag(w, change) ==
  IF w.promise = "waiting" THEN [w EXCEPT !.promise = "queued", !.change = change]
  ELSE IF change = "deleted" THEN [w EXCEPT !.deleted = TRUE] ELSE [w EXCEPT !.modified = TRUE]

\* onChange() with maybeFulfill(): a change may be there already.  Mutant: it is told,
\* but its flag stays set.
OnChangeKeepingFlags(w) ==
  [w EXCEPT !.promise = IF w.deleted \/ w.modified THEN "queued" ELSE "waiting",
            !.change = IF w.deleted THEN "deleted" ELSE IF w.modified THEN "modified" ELSE None]

OnChange(w) ==
  [w EXCEPT !.promise = IF w.deleted \/ w.modified THEN "queued" ELSE "waiting",
            !.change = IF w.deleted THEN "deleted" ELSE IF w.modified THEN "modified" ELSE None,
            !.deleted = FALSE, !.modified = FALSE]

\* The constructor: a directory is watched itself, anything else by its name in
\* its directory, which must be there unless it is watched already.
WatchedPath(p) == IF IsDirectory(p) THEN p ELSE Parent[p]
WdFor(p) ==
  IF watchByName[WatchedPath(p)] # None THEN watchByName[WatchedPath(p)] ELSE Len(wds) + 1
CanWatch(p) ==
  ~StatThrows(p) /\ (IsDirectory(WatchedPath(p)) \/ watchByName[WatchedPath(p)] # None)

Watcher(isDirectory, wd, name) ==
  [isDirectory |-> isDirectory, wd |-> wd, name |-> name,
   promise |-> "waiting", change |-> None, modified |-> FALSE, deleted |-> FALSE]

NewWatcher(p, isDirectory) ==
  Watcher(isDirectory, WdFor(p), IF IsDirectory(p) THEN None ELSE p)

IsQueued(w, p) == w[p] # None /\ w[p].promise = "queued"

\* The callbacks that stay in the queue.  Mutant: that of a watcher which is gone
\* stays as well.
EveryCallback(w) == DOMAIN callbacks
StillOwed(w) == {i \in DOMAIN callbacks : IsQueued(w, callbacks[i])}

\* The watchers are w from now on.  A WatchedDirectory that none of them uses is
\* destroyed and removes its descriptor, an error if the kernel has done so: the
\* exception is thrown in a destructor.  may is what terminated may be otherwise.
\* Callbacks queued for watchers that are gone leave the queue.
Keep(w, names, descriptors, may) ==
  LET used == {w[p].wd : p \in {q \in Paths : w[q] # None}}
      unused == {names[p] : p \in Paths} \ ({None} \cup used)
  IN  /\ watcher' = w
      /\ watchByName' = [p \in Paths |-> IF names[p] \in unused THEN None ELSE names[p]]
      /\ watched' = descriptors \ unused
      /\ terminated' \in IF unused \subseteq descriptors THEN may ELSE {TRUE}
      /\ callbacks' = Sublist(callbacks, StillOwed(w))

Without(gone) == [p \in Paths |-> IF p \in gone THEN None ELSE watcher[p]]

\* watchFile(), with the watchers in gone destroyed.
WatchFile(p, isDirectory, gone) ==
  /\ CanWatch(p)
  /\ wds' = IF WdFor(p) > Len(wds)
            THEN Append(wds, <<WatchedPath(p), stamp[WatchedPath(p)]>>) ELSE wds
  /\ Keep([Without(gone) EXCEPT ![p] = NewWatcher(p, isDirectory)],
          [watchByName EXCEPT ![WatchedPath(p)] = WdFor(p)],
          IF WdFor(p) > Len(wds) THEN watched \cup {WdFor(p)} ELSE watched,
          {FALSE})

-----------------------------------------------------------------------------
(***************************************************************************)
(* InotifyHandler.                                                         *)
(***************************************************************************)

Read ==
  /\ batch = <<>> /\ callbacks = <<>> /\ unread # <<>>
  /\ batch' = unread
  /\ unread' = <<>>
  /\ UNCHANGED <<files, inotify, watcher, callbacks, terminated>>

\* WatchedDirectory::handle(), or nothing if the descriptor is not known.  Of the
\* watchers of the name at most one is there, and at most one of the directory,
\* which hears of what comes and goes in it.
Flagged(e) == {p \in Paths : watcher[p] # None /\ watcher[p].wd = e.wd /\ watcher[p].name = e.name}
FlaggedDirectory(e) ==
  {p \in Paths : /\ e.name # None /\ e.what \in {"create", "delete"}
                 /\ watcher[p] # None /\ watcher[p].wd = e.wd /\ watcher[p].name = None}

HandleEvent ==
  /\ batch # <<>>
  /\ batch' = Tail(batch)
  /\ LET e == Head(batch)
         known == \E p \in Paths : watchByName[p] = e.wd
         change == IF e.what \in {"delete", "delete self", "move self"} THEN "deleted" ELSE "modified"
         named == IF known THEN Flagged(e) ELSE {}
         directory == IF known THEN FlaggedDirectory(e) ELSE {}
         ready(s) == {p \in s : watcher[p].promise = "waiting"}
     IN  /\ watcher' = [p \in Paths |->
                          IF p \in named THEN Flag(watcher[p], change)
                          ELSE IF p \in directory THEN Flag(watcher[p], "modified")
                          ELSE watcher[p]]
         /\ callbacks' = callbacks \o SetToSeq(ready(named)) \o SetToSeq(ready(directory))
         /\ watchByName' = [p \in Paths |->
                              IF e.what \in {"delete self", "move self"} /\ watchByName[p] = e.wd
                              THEN None ELSE watchByName[p]]
  /\ UNCHANGED <<files, wds, watched, unread, terminated>>
=============================================================================
