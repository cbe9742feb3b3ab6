------------------------------ MODULE LangServe ------------------------------
(***************************************************************************)
(* ekam-langserve (ekam/ekam-langserve.c++): reads what Ekam's network     *)
(* dashboard says of its tasks, takes the lines of their logs that name a  *)
(* file for diagnostics, and publishes, file by file, to an editor what    *)
(* has changed.  Several tasks may report one diagnostic; the editor says  *)
(* when a file was edited; Ekam goes away and comes back.                  *)
(***************************************************************************)
EXTENDS Integers, SequencesExt, Sublists

CONSTANTS
    Tasks,      \* ids that Ekam gives its tasks
    Pieces,     \* pieces of text that a log is made of
    NameOf,     \* the file that a line beginning with a piece names
    NotePieces, \* pieces whose severity is "note:"
    RealPath,   \* the file a name stands for, or None
    None,
    MaxMessages,    \* bound: messages that Ekam sends
    MaxChanges,     \* bound: edits
    MaxConnections  \* bound: connections

ASSUME LangServeAssumption ==
    /\ IsFiniteSet(Tasks)
    /\ NameOf \in [Pieces -> DOMAIN RealPath]
    /\ NotePieces \subseteq Pieces
    /\ {MaxMessages, MaxChanges, MaxConnections} \subseteq Nat

Paths == {RealPath[n] : n \in DOMAIN RealPath} \ {None}

(***************************************************************************)
(* A line is the sequence of its pieces.  What it names, and whether it is *)
(* a note, is read at its beginning; the rest is the message.              *)
(***************************************************************************)
IsNote(line) == line[1] \in NotePieces
Path(line) == RealPath[NameOf[line[1]]]

VARIABLES
    sent,       \* sent[t]: what Ekam has last said of the task
    emitted,    \* emitted[t]: complete lines of its last run, for the properties
    spoiled,    \* spoiled[t]: that run began with text that is lost or mixed up
    diagnostics,    \* Task::diagnostics of each task
    leftoverLog,    \* Task::leftoverLog
    addNotesToBack, \* Task::addNotesToBack
    files,      \* names in SourceFileSet::files
    entries,    \* the DiagnosticEntry of each diagnostic of all the files
    revived,    \* paths with a stale diagnostic that came back unnoticed
    dirty,      \* DirtySet::dirty
    isShutdown, \* DirtySet::isShutdown
    loop,       \* updateLoop(): "waiting", "ready", "sending", "ended"
    published,  \* what the editor shows of each path
    connection, \* "down", "header", "up", "closing"
    died,       \* the server has ended with an exception
    messages, changes, connections  \* counters for the bounds

taskVars == <<diagnostics, leftoverLog, addNotesToBack>>
fileVars == <<files, entries, revived>>
loopVars == <<dirty, isShutdown, loop>>
ekamVars == <<sent, emitted, spoiled, messages>>
otherVars == <<published, connection, died, changes, connections>>
vars == <<taskVars, fileVars, loopVars, ekamVars, otherVars>>

Running == died = FALSE

----------------------------------------------------------------------------
(* DirtySet and SourceFile.  A handler computes a world [entries, dirty,   *)
(* revived], and takes it over.                                            *)

World == [entries |-> entries, dirty |-> dirty, revived |-> revived]

MarkDirty(w, path) == [w EXCEPT !.dirty = @ \cup {path}]

\* Mutant: DirtySet::add() does not wake the loop.
WakeNobody == loop' = loop

\* DirtySet::add() fulfills the promise that the loop waits for.
Wake == loop' = IF loop = "waiting" /\ dirty' # {} THEN "ready" ELSE loop

TakeOver(w) == entries' = w.entries /\ dirty' = w.dirty /\ revived' = w.revived /\ Wake

\* SourceFile::add()
Add(w, d) ==
    IF d \notin DOMAIN w.entries
    THEN MarkDirty([w EXCEPT !.entries = [e \in DOMAIN @ \cup {d} |->
                        IF e = d THEN [refcount |-> 1, stale |-> FALSE, notes |-> <<>>] ELSE @[e]]],
                   Path(d))
    ELSE LET known == w.entries[d]
         IN [w EXCEPT !.entries = [@ EXCEPT ![d] = [refcount |-> known.refcount + 1,
                                                    stale |-> FALSE, notes |-> known.notes]],
                      !.revived = IF known.stale THEN @ \cup {Path(d)} ELSE @]

\* The pointers of some tasks at diagnostics, and how many there are at d.
Pointers(ts) == UNION {{t} \X (DOMAIN diagnostics[t]) : t \in ts}
At(x) == diagnostics[x[1]][x[2]]
Count(ts, d) == Cardinality({x \in Pointers(ts) : At(x) = d})

\* Mutant: one task that takes a diagnostic back takes it from all.
ReleaseAnyhow(w, ts) ==
    LET gone == {At(x) : x \in Pointers(ts)}
    IN [w EXCEPT !.entries = [d \in DOMAIN @ \ gone |-> @[d]],
                 !.dirty = @ \cup {Path(d) : d \in gone}]

\* SourceFile::remove(), of each diagnostic that the tasks point at, as often as they do.
Release(w, ts) ==
    LET left(d) == w.entries[d].refcount - Count(ts, d)
        gone == {d \in DOMAIN w.entries : left(d) = 0}
    IN [w EXCEPT !.entries = [d \in DOMAIN @ \ gone |-> [@[d] EXCEPT !.refcount = left(d)]],
                 !.dirty = @ \cup {Path(d) : d \in gone}]

\* SourceFile::markStale()
MarkStale(w, path) ==
    LET fresh == {d \in DOMAIN w.entries : Path(d) = path /\ ~w.entries[d].stale}
        marked == [w EXCEPT !.entries =
                      [d \in DOMAIN @ |-> IF d \in fresh THEN [@[d] EXCEPT !.stale = TRUE] ELSE @[d]]]
    IN IF fresh # {} THEN MarkDirty(marked, path) ELSE marked

\* Mutant: what is stale is exported too.
ExportAll(path) ==
    {[diagnostic |-> d, notes |-> entries[d].notes] : d \in {x \in DOMAIN entries : Path(x) = path}}

\* SourceFile::exportDiagnostics()
Export(path) ==
    {[diagnostic |-> d, notes |-> entries[d].notes] :
        d \in {x \in DOMAIN entries : Path(x) = path /\ ~entries[x].stale}}

----------------------------------------------------------------------------
(* SourceFileSet::get(): a name that is new is looked up in the file       *)
(* system.  insert() throws if the file is there under another name.       *)

Collides(name) ==
    /\ name \notin files
    /\ RealPath[name] # None
    /\ \E n \in files : RealPath[n] = RealPath[name]

----------------------------------------------------------------------------
(* Messages of Ekam: Task::update().                                       *)

\* The states that invalidate the log.
Clears == {"PENDING", "RUNNING", "DELETED"}

Received(from, to) ==
    /\ Running /\ connection = "up"
    /\ messages < MaxMessages
    /\ messages' = messages + 1
    /\ sent[from[1]] \in from[2]
    /\ sent' = [sent EXCEPT ![from[1]] = to]
    /\ UNCHANGED <<isShutdown, published, connection, changes, connections>>

\* A message with a state and no log.
Update(t, state) ==
    /\ IF state \in Clears
       THEN /\ diagnostics' = [diagnostics EXCEPT ![t] = <<>>]
            /\ addNotesToBack' = [addNotesToBack EXCEPT ![t] = FALSE]
            /\ TakeOver(Release(World, {t}))
       ELSE UNCHANGED <<diagnostics, addNotesToBack, entries, dirty, revived, loop>>
    /\ UNCHANGED <<files, died>>

\* A task is new, or was there when the server connected: "attaching".
Begin(t, as) ==
    /\ Received(<<t, {"none"}>>, as)
    /\ Update(t, "PENDING")
    /\ emitted' = [emitted EXCEPT ![t] = <<>>]
    /\ spoiled' = [spoiled EXCEPT ![t] = FALSE]
    /\ UNCHANGED leftoverLog

Start(t) ==
    /\ Received(<<t, {"pending", "done"}>>, "running")
    /\ Update(t, "RUNNING")
    /\ emitted' = [emitted EXCEPT ![t] = <<>>]
    /\ spoiled' = [spoiled EXCEPT ![t] = leftoverLog[t] # <<>>]
    /\ UNCHANGED leftoverLog

\* MuxDashboard::TaskImpl::attach() sends the state after the log.
Attached(t, state) ==
    /\ Received(<<t, {"attaching"}>>, IF state = "RUNNING" THEN "running" ELSE "done")
    /\ Update(t, state)
    /\ spoiled' = [spoiled EXCEPT ![t] = state = "RUNNING" /\ emitted[t] # <<>>]
    /\ UNCHANGED <<emitted, leftoverLog>>

End(t) ==
    /\ Received(<<t, {"running"}>>, "done")
    /\ Update(t, "DONE")
    /\ UNCHANGED <<emitted, spoiled, leftoverLog>>

Delete(t) ==
    /\ Received(<<t, {"pending", "done"}>>, "none")
    /\ Update(t, "DELETED")
    /\ leftoverLog' = [leftoverLog EXCEPT ![t] = <<>>]
    /\ emitted' = [emitted EXCEPT ![t] = <<>>]
    /\ spoiled' = [spoiled EXCEPT ![t] = FALSE]

\* A chunk that does not end a line waits for the next.
LogPart(t, piece) ==
    /\ Received(<<t, {"running", "attaching"}>>, sent[t])
    /\ leftoverLog[t] = <<>>
    /\ leftoverLog' = [leftoverLog EXCEPT ![t] = <<piece>>]
    /\ UNCHANGED <<emitted, spoiled, diagnostics, addNotesToBack, fileVars, dirty, loop, died>>

AddNote(w, t, line) ==
    LET d == Last(diagnostics[t])
    IN MarkDirty([w EXCEPT !.entries[d].notes = Append(@, line)], Path(d))

\* Lines that do not begin with a file, and notes that belong to nothing or
\* to a diagnostic that has its notes.
Skipped(t, line) == Path(line) = None \/ (IsNote(line) /\ ~addNotesToBack[t])

\* A chunk that ends a line.  (One that ends several is several of these.)
LogLine(t, piece) ==
    LET line == Append(leftoverLog[t], piece)
        name == NameOf[line[1]]
    IN
    /\ Received(<<t, {"running", "attaching"}>>, sent[t])
    /\ leftoverLog' = [leftoverLog EXCEPT ![t] = <<>>]
    /\ emitted' = [emitted EXCEPT ![t] = Append(@, line)]
    /\ UNCHANGED spoiled
    /\ died' = Collides(name)
    /\ IF Collides(name)
       THEN UNCHANGED <<diagnostics, addNotesToBack, fileVars, dirty, loop>>
       ELSE /\ files' = files \cup {name}
            /\ IF Skipped(t, line)
               THEN UNCHANGED <<diagnostics, addNotesToBack, entries, revived, dirty, loop>>
               ELSE IF IsNote(line)
               THEN /\ TakeOver(AddNote(World, t, line))
                    /\ UNCHANGED <<diagnostics, addNotesToBack>>
               ELSE /\ diagnostics' = [diagnostics EXCEPT ![t] = Append(@, line)]
                    /\ TakeOver(Add(World, line))
                    /\ addNotesToBack' =
                          [addNotesToBack EXCEPT ![t] = entries'[line].notes = <<>>]

----------------------------------------------------------------------------
(* The editor, and the loop that publishes.                                *)

\* LanguageServerImpl::didChange(): ignored while there is no Scope.
DidChange(path) ==
    /\ Running
    /\ changes < MaxChanges
    /\ changes' = changes + 1
    /\ IF connection \in {"up", "closing"} /\ \E n \in files : RealPath[n] = path
       THEN TakeOver(MarkStale(World, path))
       ELSE UNCHANGED <<entries, dirty, revived, loop>>
    /\ UNCHANGED <<taskVars, files, isShutdown, ekamVars, published, connection, died, connections>>

\* After evalLast(): every dirty file, in any order.
Publish ==
    /\ Running
    /\ loop = "ready"
    /\ loop' = "sending"
    /\ published' = [p \in Paths |-> IF p \in dirty THEN Export(p) ELSE published[p]]
    /\ dirty' = {}
    /\ revived' = revived \ dirty
    /\ UNCHANGED <<taskVars, files, entries, isShutdown, ekamVars, connection, died,
                   changes, connections>>

\* Mutant: a shutdown is looked at first.
WhenNonEmptyHasty ==
    IF isShutdown THEN "ended" ELSE IF dirty # {} THEN "ready" ELSE "waiting"

\* DirtySet::whenNonEmpty()
WhenNonEmpty ==
    IF dirty # {} THEN "ready" ELSE IF isShutdown THEN "ended" ELSE "waiting"

\* The editor has taken it all; or the promise was fulfilled by shutdown().
Again ==
    /\ Running
    /\ loop = "sending"
    /\ loop' = WhenNonEmpty
    /\ UNCHANGED <<taskVars, fileVars, dirty, isShutdown, ekamVars, otherVars>>

----------------------------------------------------------------------------
(* The connection: the loop of LanguageServerMain::run().                  *)

Connect ==
    /\ Running
    /\ connection = "down"
    /\ connections < MaxConnections
    /\ connections' = connections + 1
    /\ connection' = "header"
    /\ UNCHANGED <<taskVars, fileVars, loopVars, ekamVars, published, died, changes>>

\* The header comes, and everything is made anew; or the connection is lost
\* before, which is not caught.
ReadHeader ==
    /\ Running
    /\ connection = "header"
    /\ \/ /\ connection' = "up"
          /\ loop' = "waiting"
          /\ UNCHANGED died
       \/ died' = TRUE /\ UNCHANGED <<connection, loop>>
    /\ UNCHANGED <<taskVars, fileVars, dirty, isShutdown, ekamVars, published,
                   changes, connections>>

\* tasks.clear() and shutdown(), which wakes a loop that waits.
Disconnect ==
    /\ Running
    /\ connection = "up"
    /\ connection' = "closing"
    /\ diagnostics' = [t \in Tasks |-> <<>>]
    /\ addNotesToBack' = [t \in Tasks |-> FALSE]
    /\ leftoverLog' = [t \in Tasks |-> <<>>]
    /\ sent' = [t \in Tasks |-> "none"]
    /\ emitted' = [t \in Tasks |-> <<>>]
    /\ spoiled' = [t \in Tasks |-> FALSE]
    /\ LET w == Release(World, Tasks)
       IN entries' = w.entries /\ dirty' = w.dirty /\ revived' = w.revived
    /\ isShutdown' = TRUE
    /\ loop' = IF loop = "waiting" THEN "ready" ELSE loop
    /\ UNCHANGED <<files, messages, published, died, changes, connections>>

\* updateLoopTask.wait() returns, and what the connection had is destroyed.
Closed ==
    /\ Running
    /\ connection = "closing"
    /\ loop = "ended"
    /\ connection' = "down"
    /\ files' = {}
    /\ isShutdown' = FALSE
    /\ UNCHANGED <<taskVars, entries, revived, dirty, loop, ekamVars, published, died,
                   changes, connections>>

----------------------------------------------------------------------------
Init ==
    /\ sent = [t \in Tasks |-> "none"]
    /\ emitted = [t \in Tasks |-> <<>>]
    /\ spoiled = [t \in Tasks |-> FALSE]
    /\ diagnostics = [t \in Tasks |-> <<>>]
    /\ leftoverLog = [t \in Tasks |-> <<>>]
    /\ addNotesToBack = [t \in Tasks |-> FALSE]
    /\ files = {}
    /\ entries = <<>>
    /\ revived = {}
    /\ dirty = {}
    /\ isShutdown = FALSE
    /\ loop = "ended"
    /\ published = [p \in Paths |-> {}]
    /\ connection = "down"
    /\ died = FALSE
    /\ messages = 0 /\ changes = 0 /\ connections = 0

Receive ==
    \/ \E t \in Tasks : Start(t) \/ End(t) \/ Delete(t)
    \/ \E t \in Tasks, as \in {"pending", "attaching"} : Begin(t, as)
    \/ \E t \in Tasks, state \in {"RUNNING", "DONE"} : Attached(t, state)
    \/ \E t \in Tasks, p \in Pieces : LogPart(t, p) \/ LogLine(t, p)

Next ==
    \/ Receive
    \/ \E path \in Paths : DidChange(path)
    \/ Publish
    \/ Again
    \/ Connect
    \/ ReadHeader
    \/ Disconnect
    \/ Closed

\* The event loop runs what is ready, and the editor answers.
Fairness == WF_vars(Publish) /\ WF_vars(Again) /\ WF_vars(Closed)

Spec == Init /\ [][Next]_vars /\ Fairness

----------------------------------------------------------------------------
(* Properties.                                                             *)

Diagnostics == {<<p>> : p \in Pieces} \cup {<<p, q>> : p, q \in Pieces}

(* Every variable has its type.                                            *)
TypeOK ==
    /\ sent \in [Tasks -> {"none", "pending", "attaching", "running", "done"}]
    /\ \A t \in Tasks : diagnostics[t] \in Seq(Diagnostics)
    /\ addNotesToBack \in [Tasks -> BOOLEAN]
    /\ files \subseteq DOMAIN RealPath
    /\ DOMAIN entries \subseteq Diagnostics
    /\ dirty \subseteq Paths
    /\ isShutdown \in BOOLEAN
    /\ loop \in {"waiting", "ready", "sending", "ended"}
    /\ DOMAIN published = Paths
    /\ connection \in {"down", "header", "up", "closing"}
    /\ died \in BOOLEAN

RefcountsAreRight ==
    \A d \in Diagnostics :
        Count(Tasks, d) = IF d \in DOMAIN entries THEN entries[d].refcount ELSE 0

ShownIsReported ==
    Running /\ loop = "waiting" =>
        \A p \in Paths \ revived : published[p] = Export(p)

NothingStaleIsShown ==
    Running /\ loop = "waiting" =>
        \A p \in Paths : \A x \in published[p] :
            x.diagnostic \in DOMAIN entries /\ ~entries[x.diagnostic].stale

(***************************************************************************)
(* When the loop waits, the editor shows of every file what there is to    *)
(* show: no change happened unnoticed while it was sending, and no wake-up *)
(* was lost.  The exception is a file with a stale diagnostic that a task  *)
(* has reported again, which add() makes fresh without marking it dirty.   *)
(* What an edit has made stale (didChange(), markStale()) is not shown.    *)
(***************************************************************************)
EditorIsCurrent == ShownIsReported /\ NothingStaleIsShown

ReportsAreOfTheLastRun ==
    Running =>
        \A t \in Tasks : ~spoiled[t] =>
            diagnostics[t] =
                Sublist(emitted[t], {i \in DOMAIN emitted[t] :
                    ~IsNote(emitted[t][i]) /\ Path(emitted[t][i]) # None})

(***************************************************************************)
(* The diagnostics of a task are those its last run has logged: a new run  *)
(* starts with none (update()).  Two kinds of run are excepted: one that   *)
(* began with a part of a line left over from the run before, which is not *)
(* cleared, and one under way when the server connected, whose log comes   *)
(* before the state that clears it.  And a diagnostic is kept exactly as   *)
(* long as tasks point at it, however many report it and in whichever      *)
(* order they go: no pointer to one that was destroyed is left, and none   *)
(* that nobody reports any more is kept.                                   *)
(***************************************************************************)
DiagnosticsAreRight == TypeOK /\ RefcountsAreRight /\ ReportsAreOfTheLastRun

(***************************************************************************)
(* When Ekam is gone the editor shows nothing of it: the loop publishes    *)
(* what tasks.clear() has made dirty before it ends.                       *)
(***************************************************************************)
NothingIsLeftBehind ==
    connection = "down" => entries = <<>> /\ \A p \in Paths : published[p] = {}

(***************************************************************************)
(* What has changed is published some time, and a lost connection is       *)
(* wound up, so that the server can connect again.                         *)
(***************************************************************************)
ChangesArePublished ==
    /\ \A p \in Paths : p \in dirty ~> p \notin dirty \/ died
    /\ connection = "closing" ~> connection = "down"

=============================================================================
