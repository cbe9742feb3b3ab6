----------------------------- MODULE PluginAction -----------------------------
(***************************************************************************)
(* An action that runs a rule: the PluginDerivedAction and CommandReader   *)
(* of src/ekam/ExecPluginActionFactory.cpp, on the EventGroup of its       *)
(* ActionDriver, which hears when nothing is waited for any more.          *)
(*                                                                         *)
(* The action waits for three things: the exit of the rule's process,      *)
(* commands on its standard output, and text on its standard error.  A     *)
(* chain of promises is one callback here, at its last link: the event     *)
(* loop waits for an event only when no callback is queued, so nothing     *)
(* else that concerns the action comes between the links.                  *)
(***************************************************************************)
EXTENDS Integers, Sequences

CONSTANTS
  Files,       \* that the rule may provide, by the names it has for them: paths,
  Input,       \* but for the file that triggered it, its canonical name
  None,
  MaxCommands, \* bound: commands of the rule in all runs
  MaxRuns      \* bound: runs of the action

ASSUME PluginAssumption ==
  /\ Input \in Files
  /\ None \notin Files
  /\ MaxCommands \in Nat
  /\ MaxRuns \in Nat

\* The lines that are answered with a path.
Questions == [do : {"findInput", "findProvider", "newOutput"}, file : Files \ {Input}]
\* Commands that are invalid end as a provide of a file that is not known does; verb,
\* silent, trigger and noteInput say what only eof() uses, or nothing; findModifiers
\* is several findProvider, install a provide.
Commands ==
  Questions \cup [do : {"provide"}, file : Files] \cup [do : {"passed"}, file : {None}]

VARIABLES
  \* The process of the rule, and what else has its streams.
  rule,        \* "none", "running", or "exited"
  code,        \* exit code of the last run: 0 or 1, which stands for all others
  open,        \* streams that some process has the rule's end of
  pipe,        \* commands that have been written, and not read
  text,        \* is there something to read on the standard error?
  asked,       \* files the rule has asked to provide in this run
  said,        \* number of commands in all runs
  \* The three chains of promises: "none", "waiting", "queued", and how they end.
  exit,        \* "told"
  reader,      \* "ended", or "broken" by an exception
  log,         \* "ended"
  \* CommandReader.
  lines,       \* lineReader.leftover: commands that have been read, and not obeyed
  cache,       \* questions whose answer is known
  known,       \* knownFiles
  provisions,  \* provisions: files that are in knownFiles
  dangling,    \* provisions: files whose File object has been deleted; kept after the run
  \* ActionDriver and EventGroup.
  state,
  isRunning,
  provided,    \* files the reader has passed to provide() with the rule's tags
  learned,     \* has the reader passed on an ActionFactory?
  queue,       \* callbacks that are queued, and concern the action
  eventCount,
  runs         \* number of times the action has started

process == <<rule, code, open, pipe, text, asked, said>>
chains == <<exit, reader, log>>
commands == <<lines, cache, known, provisions, dangling>>
results == <<provided, learned>>
group == <<queue, eventCount>>
vars == <<process, chains, commands, state, isRunning, results, group, runs>>

Streams == {"stdin", "stdout", "stderr"}
InGroup == {"start", "exit", "line", "log", "joined"}
Callbacks == InGroup \cup {"noMoreEvents", "done"}
Verdicts == {"DONE", "PASSED", "FAILED"}

TypeOK ==
  /\ rule \in {"none", "running", "exited"}
  /\ code \in {0, 1}
  /\ open \subseteq Streams
  /\ pipe \in Seq(Commands)
  /\ text \in BOOLEAN
  /\ asked \subseteq Files
  /\ said \in 0 .. MaxCommands
  /\ exit \in {"none", "waiting", "queued", "told"}
  /\ reader \in {"none", "waiting", "queued", "ended", "broken"}
  /\ log \in {"none", "waiting", "queued", "ended"}
  /\ lines \in Seq(Commands)
  /\ cache \subseteq Questions
  /\ known \subseteq Files
  /\ provisions \subseteq Files
  /\ dangling \subseteq Files
  /\ state \in {"PENDING", "RUNNING"} \cup Verdicts
  /\ isRunning \in BOOLEAN
  /\ provided \subseteq Files
  /\ learned \in BOOLEAN
  /\ queue \in Seq(Callbacks)
  /\ eventCount \in Nat
  /\ runs \in 0 .. MaxRuns

Init ==
  /\ rule = "none" /\ code = 0 /\ open = {} /\ pipe = <<>> /\ text = FALSE
  /\ asked = {} /\ said = 0
  /\ exit = "none" /\ reader = "none" /\ log = "none"
  /\ lines = <<>> /\ cache = {} /\ known = {} /\ provisions = {} /\ dangling = {}
  /\ state = "PENDING" /\ isRunning = FALSE
  /\ provided = {} /\ learned = FALSE
  /\ queue = <<>> /\ eventCount = 0
  /\ runs = 0

-----------------------------------------------------------------------------
(***************************************************************************)
(* The rule.                                                               *)
(***************************************************************************)

\* A command, by the rule's process or one it has left behind.
Say(c) ==
  /\ "stdout" \in open
  /\ said < MaxCommands
  /\ said' = said + 1
  /\ pipe' = Append(pipe, c)
  /\ asked' = IF c.do = "provide" THEN asked \cup {c.file} ELSE asked
  /\ UNCHANGED <<rule, code, open, text>>

Complain ==
  /\ "stderr" \in open
  /\ ~text
  /\ text' = TRUE
  /\ UNCHANGED <<rule, code, open, pipe, asked, said>>

Close(s) ==
  /\ s \in open
  /\ open' = open \ {s}
  /\ UNCHANGED <<rule, code, pipe, text, asked, said>>

\* Its streams may stay open, in processes it has left behind.
Exit(c) ==
  /\ rule = "running"
  /\ rule' = "exited"
  /\ code' = c
  /\ UNCHANGED <<open, pipe, text, asked, said>>

RuleStep ==
  /\ (\E c \in Commands : Say(c)) \/ Complain \/ (\E s \in Streams : Close(s))
       \/ (\E c \in {0, 1} : Exit(c))
  /\ UNCHANGED <<chains, commands, state, isRunning, results, group, runs>>

-----------------------------------------------------------------------------
(***************************************************************************)
(* EventGroup.                                                             *)
(***************************************************************************)

Queued(c) == \E i \in DOMAIN queue : queue[i] = c

\* ~AsyncCallbackHandler()
Without(c, q) ==
  IF \E i \in DOMAIN q : q[i] = c THEN SelectSeq(q, LAMBDA d : d # c) ELSE q

\* ~PendingEvent(): n events are left.  If that is none, callNoMoreEventsLater()
\* queues noMoreEvents, or queues it again, behind all there is.
\* Mutant: nobody is told.
CountedSilently(n, q) == eventCount' = n /\ queue' = q
Counted(n, q) ==
  /\ eventCount' = n
  /\ queue' = IF n = 0 THEN Append(Without("noMoreEvents", q), "noMoreEvents") ELSE q

\* What the action waits for is canceled, with the callbacks of asyncCallbackOp
\* and of runningAction.  noMoreEvents is not among them.
AllCanceled ==
  /\ eventCount' = 0
  /\ queue' = IF eventCount > 0 \/ Queued("noMoreEvents") THEN <<"noMoreEvents">> ELSE <<>>

-----------------------------------------------------------------------------
(***************************************************************************)
(* ActionDriver.                                                           *)
(***************************************************************************)

\* start()
Start ==
  /\ state = "PENDING"
  /\ runs < MaxRuns
  /\ runs' = runs + 1
  /\ state' = "RUNNING"
  /\ isRunning' = TRUE
  /\ queue' = Append(queue, "start")
  /\ eventCount' = eventCount + 1
  /\ UNCHANGED <<process, chains, commands, results>>

\* runningAction.release(): ~Subprocess() kills the rule and all it has left behind
\* in its process group, if its exit has not been told.
\* Mutant: the streams are closed, and the rule goes on.
ReleaseRunning ==
  /\ exit' = "none" /\ reader' = "none" /\ log' = "none"
  /\ open' = {} /\ pipe' = <<>> /\ text' = FALSE
  /\ lines' = <<>> /\ cache' = {} /\ known' = {} /\ provisions' = {}
  /\ AllCanceled
  /\ UNCHANGED <<code, asked, said, dangling>>
ReleaseLeavingRule == ReleaseRunning /\ UNCHANGED rule
Release == ReleaseRunning /\ rule' = "none"

\* returned(), called by the callback of queueDoneCallback().
Returned ==
  /\ queue # <<>> /\ Head(queue) = "done"
  /\ Release
  /\ isRunning' = FALSE
  /\ provided' = IF state = "FAILED" THEN {} ELSE provided
  /\ learned' = (learned /\ state # "FAILED")
  /\ UNCHANGED <<state, runs>>

\* reset(), at any time, by a callback that does not concern the action.
Reset ==
  /\ state # "PENDING"
  /\ state' = "PENDING"
  /\ IF isRunning THEN Release ELSE UNCHANGED <<process, chains, commands, group>>
  /\ isRunning' = FALSE
  /\ provided' = {}
  /\ learned' = FALSE
  /\ UNCHANGED runs

\* noMoreEvents() of EventGroup's exception handler, when nothing has come since.
\* Mutant: whatever has.
NothingSinceAlways == TRUE
NothingSince == eventCount = 0

NoMoreEvents ==
  /\ queue # <<>> /\ Head(queue) = "noMoreEvents"
  /\ IF NothingSince /\ isRunning /\ state = "RUNNING"
     THEN state' = "DONE" /\ queue' = Append(Tail(queue), "done")
     ELSE state' = state /\ queue' = Tail(queue)
  /\ UNCHANGED <<process, chains, commands, isRunning, results, eventCount, runs>>

-----------------------------------------------------------------------------
(***************************************************************************)
(* The callbacks of the action.                                            *)
(***************************************************************************)

\* When all three chains are over, a callback joins them.
Joined(e, r, l) ==
  IF e = "told" /\ r \in {"ended", "broken"} /\ l = "ended" THEN <<"joined">> ELSE <<>>

\* The callback at the head of the queue ends.  It has queued verdict, the callback
\* of passed() or failed(), and then more of the group; waits is the number of
\* events it waits for now.
\* Mutant: what is next comes before the verdict.
CallbackEndsFirst(verdict, more, waits) ==
  Counted(eventCount - 1 + Len(more) + waits, Tail(queue) \o more \o verdict)
CallbackEnds(verdict, more, waits) ==
  Counted(eventCount - 1 + Len(more) + waits, Tail(queue) \o verdict \o more)

\* PluginDerivedAction::start().  If fork() fails, the exception goes to a promise that
\* has been released: the program may crash, or go on.
StartCallback ==
  /\ queue # <<>> /\ Head(queue) = "start"
  /\ \/ /\ rule' = "running" /\ open' = Streams
        /\ exit' = "waiting" /\ reader' = "waiting" /\ log' = "waiting"
        /\ known' = {Input}
        /\ CallbackEnds(<<>>, <<>>, 3)
     \/ /\ CallbackEnds(<<>>, <<>>, 0)
        /\ UNCHANGED <<rule, open, known, chains>>
  /\ code' = 0 /\ asked' = {} /\ dangling' = {}
  /\ UNCHANGED <<pipe, text, said, lines, cache, provisions, state, isRunning, results, runs>>

\* An event that a chain waits for; the PendingEvent of the wait goes and that of
\* the callback comes.
Event ==
  /\ queue = <<>>
  /\ \/ /\ exit = "waiting" /\ rule = "exited"
        /\ exit' = "queued" /\ queue' = <<"exit">>
        /\ UNCHANGED <<reader, log>>
     \/ /\ reader = "waiting" /\ (pipe # <<>> \/ "stdout" \notin open)
        /\ reader' = "queued" /\ queue' = <<"line">>
        /\ UNCHANGED <<exit, log>>
     \/ /\ log = "waiting" /\ (text \/ "stderr" \notin open)
        /\ log' = "queued" /\ queue' = <<"log">>
        /\ UNCHANGED <<exit, reader>>
  /\ UNCHANGED <<process, commands, state, isRunning, results, eventCount, runs>>

Failing == code # 0

ExitCallback ==
  /\ queue # <<>> /\ Head(queue) = "exit"
  /\ exit' = "told"
  /\ state' = IF Failing /\ state = "RUNNING" THEN "FAILED" ELSE state
  /\ CallbackEnds(IF state' # state THEN <<"done">> ELSE <<>>, Joined(exit', reader, log), 0)
  /\ UNCHANGED <<process, reader, log, commands, isRunning, results, runs>>

\* Logger
LogCallback ==
  /\ queue # <<>> /\ Head(queue) = "log"
  /\ text' = FALSE
  /\ log' = IF text THEN "waiting" ELSE "ended"
  /\ CallbackEnds(<<>>, Joined(exit, reader, log'), IF text THEN 1 ELSE 0)
  /\ UNCHANGED <<rule, code, open, pipe, asked, said, exit, reader, commands, state, isRunning,
                 results, runs>>

\* knownFiles.add(): a File object that was there for this file is deleted.
Know(f) ==
  /\ known' = known \cup {f}
  /\ dangling' = IF f \in known /\ f \in provisions THEN dangling \cup {f} ELSE dangling
  /\ provisions' = provisions \ (known \cap {f})
AddNothing == UNCHANGED <<known, provisions, dangling>>

\* writeAll() fails if nobody can read the answer.
Answered == "stdin" \in open

\* findInCache(), and findInput of what the action has made itself.
InCache(c) ==
  c \in cache \/ (c.do = "findInput" /\ [do |-> "newOutput", file |-> c.file] \in cache)

\* consume(): its effect on the reader.
Consume(c) ==
  \/ /\ c.do = "passed" \/ InCache(c)
     /\ AddNothing /\ UNCHANGED cache
  \/ /\ c \in Questions /\ ~InCache(c)
     /\ \/ /\ c.do # "newOutput"   \* there is no such file
           /\ AddNothing /\ UNCHANGED cache
        \/ /\ cache' = cache \cup {c}
           /\ IF c.do = "newOutput" \/ Answered THEN Know(c.file) ELSE AddNothing
  \/ /\ c.do = "provide"
     /\ provisions' = IF c.file \in known THEN provisions \cup {c.file} ELSE provisions
     /\ UNCHANGED <<cache, known, dangling>>

\* ... and on the state: passed() and failed().  failed() would throw if the action had
\* passed; see HeardWhileRunning.
Verdict(c) ==
  IF c.do = "passed" THEN "PASSED"
  ELSE IF c.do = "provide" /\ c.file \notin known THEN "FAILED"
  ELSE "RUNNING"

\* eof().  What provide() reads of a File that was deleted may still be its name.
\* Mutant: the tags of the last file are forgotten.
EofForgettingOne ==
  \E s \in SUBSET dangling, f \in Files : provided' = provided \cup (provisions \ {f}) \cup s
Eof == \E s \in SUBSET dangling : provided' = provided \cup provisions \cup s

\* readAll(): the next line, if there is none the end of the output.
LineCallback ==
  /\ queue # <<>> /\ Head(queue) = "line"
  /\ \/ /\ lines # <<>> \/ pipe # <<>>
        /\ \E n \in IF lines # <<>> THEN {0} ELSE 1 .. Len(pipe) :
             LET all == lines \o SubSeq(pipe, 1, n)
                 c == Head(all)
                 throws == c \in Questions /\ ~Answered
             IN  /\ pipe' = SubSeq(pipe, n + 1, Len(pipe))
                 /\ lines' = Tail(all)
                 /\ Consume(c)
                 /\ state' = IF state = "RUNNING" THEN Verdict(c) ELSE state
                 /\ reader' = IF throws THEN "broken"
                              ELSE IF lines' # <<>> THEN "queued" ELSE "waiting"
                 /\ CallbackEnds(IF state' # state THEN <<"done">> ELSE <<>>,
                                 IF reader' = "queued" THEN <<"line">> ELSE Joined(exit, reader', log),
                                 IF reader' = "waiting" THEN 1 ELSE 0)
        /\ UNCHANGED results
     \/ /\ lines = <<>> /\ pipe = <<>>
        /\ Eof
        /\ learned' = TRUE
        /\ reader' = "ended"
        /\ CallbackEnds(<<>>, Joined(exit, reader', log), 0)
        /\ UNCHANGED <<pipe, commands, state>>
  /\ UNCHANGED <<rule, code, open, text, asked, said, exit, log, isRunning, runs>>

\* All is over: the subprocess, the reader and the logger are destroyed, unless
\* they were when the last exception was handled.
JoinedCallback ==
  /\ queue # <<>> /\ Head(queue) = "joined"
  /\ rule' = "none" /\ open' = {} /\ pipe' = <<>> /\ text' = FALSE
  /\ lines' = <<>> /\ cache' = {} /\ known' = {} /\ provisions' = {}
  /\ CallbackEnds(<<>>, <<>>, 0)
  /\ UNCHANGED <<code, asked, said, dangling, chains, state, isRunning, results, runs>>

-----------------------------------------------------------------------------

Ekam ==
  \/ StartCallback \/ Event \/ ExitCallback \/ LogCallback \/ LineCallback \/ JoinedCallback
  \/ NoMoreEvents \/ Returned

Next == RuleStep \/ Start \/ Reset \/ Ekam

\* The event loop goes on; the rule, and what it has left behind, come to an end.
Spec ==
  /\ Init /\ [][Next]_vars
  /\ WF_vars(Ekam)
  /\ WF_vars((\E c \in {0, 1} : Exit(c)) /\ RuleStep)
  /\ \A s \in Streams : WF_vars(Close(s) /\ RuleStep)

-----------------------------------------------------------------------------
(***************************************************************************)
(* Properties.                                                             *)
(***************************************************************************)

\* No event is told to an action that is not running, or that has its verdict:
\* ensureRunning() and failed() do not throw, and nothing that a rule says after it
\* has failed or passed changes the verdict.
HeardWhileRunning ==
  queue # <<>> /\ Head(queue) \in InGroup => isRunning /\ state = "RUNNING"

\* The end is told when nothing is waited for, and no callback of the action is left.
\* It is not told to a run by the events of the run before it, though noMoreEvents
\* is not canceled with that.
EndIsNotEarly ==
  isRunning /\ state = "DONE" =>
    /\ exit \in {"none", "told"} /\ reader \in {"none", "ended", "broken"} /\ log \in {"none", "ended"}
    /\ \A c \in InGroup : ~Queued(c)
    /\ rule = "none"

\* An action that is done, and whose reader has come to the end of the output, has
\* ended well, and has provided all that the rule asked for, and nothing else.  Files
\* that became known again after they were provided are left out: what the reader
\* has of them is gone.
DoneAsAsked ==
  state = "DONE" /\ learned =>
    /\ code = 0
    /\ provided \subseteq asked
    /\ asked \ dangling \subseteq provided

\* While an action runs its verdict is on its way exactly once; when it does not,
\* nothing of it is left: no process, no event, and no callback but the last
\* noMoreEvents, which will find that it does not run.
NothingOutlives ==
  /\ Queued("done") <=> isRunning /\ state \in Verdicts
  /\ ~isRunning => rule = "none" /\ eventCount = 0 /\ \A c \in InGroup : ~Queued(c)

\* A rule that comes to its end is an action that comes to its end, whatever
\* exceptions were thrown on the way.
Returns == isRunning ~> ~isRunning
=============================================================================
