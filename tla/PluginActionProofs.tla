-------------------------- MODULE PluginActionProofs --------------------------
(***************************************************************************)
(* Theorems of PluginAction.  What its callbacks may meet is Phase: the    *)
(* count of events is exact while a run goes on, and the queue never holds *)
(* more than two of its callbacks.  What becomes of the files that the     *)
(* rule asks to provide is Account.                                        *)
(***************************************************************************)
EXTENDS PluginAction, TLAPS, SequenceTheorems

Waits(chain) == IF chain = "waiting" THEN 1 ELSE 0
AllOver == exit = "told" /\ reader \in {"ended", "broken"} /\ log = "ended"
NoChains == exit = "none" /\ reader = "none" /\ log = "none"

\* The action does not run; of its last run the group may have something to say.
Idle ==
  /\ ~isRunning /\ state \in {"PENDING"} \cup Verdicts
  /\ queue \in {<<>>, <<"noMoreEvents">>}
  /\ eventCount = 0 /\ rule = "none" /\ NoChains

\* start() has been called, and its callback has not.
Starting ==
  /\ isRunning /\ state = "RUNNING"
  /\ queue \in {<<"start">>, <<"noMoreEvents", "start">>}
  /\ eventCount = 1 /\ rule = "none" /\ NoChains

\* The count is what is waited for and what is queued.
Going ==
  /\ isRunning /\ state = "RUNNING"
  /\ exit \in {"waiting", "queued", "told"}
  /\ reader \in {"waiting", "queued", "ended", "broken"}
  /\ log \in {"waiting", "queued", "ended"}
  /\ rule \in {"running", "exited"}
  /\ exit # "waiting" => rule = "exited"
  /\ \/ queue = <<>> /\ exit # "queued" /\ reader # "queued" /\ log # "queued" /\ ~AllOver
     \/ queue = <<"exit">> /\ exit = "queued" /\ reader # "queued" /\ log # "queued"
     \/ queue = <<"line">> /\ exit # "queued" /\ reader = "queued" /\ log # "queued"
     \/ queue = <<"log">> /\ exit # "queued" /\ reader # "queued" /\ log = "queued"
     \/ queue = <<"joined">> /\ AllOver
  /\ eventCount = Waits(exit) + Waits(reader) + Waits(log) + Len(queue)

\* The rule has failed or passed.
Deciding ==
  /\ isRunning /\ state \in {"PASSED", "FAILED"}
  /\ queue \in {<<"done">>, <<"done", "line">>, <<"done", "joined">>}
  /\ eventCount \in Nat
  /\ rule \in {"running", "exited"}
  /\ exit \in {"waiting", "queued", "told"}
  /\ reader \in {"waiting", "queued", "ended", "broken"}
  /\ log \in {"waiting", "queued", "ended"}

\* Nothing is waited for; the end is not told, or told.
Over ==
  /\ isRunning
  /\ \/ state = "RUNNING" /\ queue = <<"noMoreEvents">>
     \/ state = "DONE" /\ queue = <<"done">>
  /\ eventCount = 0 /\ rule = "none"
  /\ AllOver \/ NoChains

Phase == Idle \/ Starting \/ Going \/ Deciding \/ Over

DataOK ==
  /\ code \in {0, 1} /\ open \subseteq Streams /\ pipe \in Seq(Commands) /\ text \in BOOLEAN
  /\ asked \subseteq Files /\ said \in 0 .. MaxCommands
  /\ lines \in Seq(Commands) /\ cache \subseteq Questions
  /\ known \subseteq Files /\ provisions \subseteq Files /\ dangling \subseteq Files
  /\ provided \subseteq Files /\ learned \in BOOLEAN
  /\ runs \in 0 .. MaxRuns /\ isRunning \in BOOLEAN

IInv == DataOK /\ Phase

-----------------------------------------------------------------------------
(***************************************************************************)
(* Short queues.                                                           *)
(***************************************************************************)

\* Taking the only or the first callback.
LEMMA Taken ==
  ASSUME NEW a, NEW b
  PROVE  /\ Head(<<a>>) = a /\ Tail(<<a>>) = <<>> /\ Len(<<a>>) = 1
         /\ Head(<<a, b>>) = a /\ Tail(<<a, b>>) = <<b>> /\ Len(<<a, b>>) = 2
         /\ <<a>> # <<>> /\ <<a, b>> # <<>> /\ Len(<<>>) = 0
  OBVIOUS

LEMMA AppendedToOne ==
  ASSUME NEW a \in Callbacks, NEW b \in Callbacks
  PROVE  Append(<<a>>, b) = <<a, b>>
<1>1. <<a>> \in Seq(Callbacks) /\ <<a, b>> \in Seq(Callbacks)
  OBVIOUS
<1>2. /\ Append(<<a>>, b) \in Seq(Callbacks) /\ Len(Append(<<a>>, b)) = 2
      /\ Append(<<a>>, b)[1] = a /\ Append(<<a>>, b)[2] = b
  BY <1>1, AppendProperties
<1>3. Len(<<a, b>>) = 2 /\ <<a, b>>[1] = a /\ <<a, b>>[2] = b
  OBVIOUS
<1>4. \A i \in 1 .. 2 : Append(<<a>>, b)[i] = <<a, b>>[i]
  BY <1>2, <1>3
<1> QED BY <1>1, <1>2, <1>3, <1>4, SeqEqual

LEMMA AppendedToNone ==
  ASSUME NEW a \in Callbacks
  PROVE  Append(<<>>, a) = <<a>>
<1>1. <<>> \in Seq(Callbacks) /\ <<a>> \in Seq(Callbacks)
  OBVIOUS
<1>2. /\ Append(<<>>, a) \in Seq(Callbacks) /\ Len(Append(<<>>, a)) = 1
      /\ Append(<<>>, a)[1] = a
  BY <1>1, AppendProperties
<1>3. Len(<<a>>) = 1 /\ <<a>>[1] = a
  OBVIOUS
<1> QED BY <1>1, <1>2, <1>3, SeqEqual

LEMMA Joining ==
  ASSUME NEW a \in Callbacks, NEW b \in Callbacks
  PROVE  /\ <<a>> \o <<b>> = <<a, b>>
         /\ <<a>> \o <<>> = <<a>> /\ <<>> \o <<b>> = <<b>> /\ <<>> \o <<>> = <<>>
<1>1. <<>> \in Seq(Callbacks) /\ <<a>> \in Seq(Callbacks) /\ <<b>> \in Seq(Callbacks)
  OBVIOUS
<1>2. <<a>> \o <<b>> = <<a, b>>
  BY <1>1, AppendedToOne, AppendIsConcat
<1> QED BY <1>1, <1>2, ConcatEmptySeq

\* A callback that was alone in the queue ends.
LEMMA CallbackAlone ==
  ASSUME NEW a \in Callbacks, queue = <<a>>, eventCount \in Nat,
         NEW v \in {<<>>, <<"done">>}, NEW m \in {<<>>, <<"line">>, <<"joined">>}, NEW w \in Nat,
         CallbackEnds(v, m, w)
  PROVE  /\ eventCount' = eventCount - 1 + Len(m) + w
         /\ eventCount' # 0 => queue' = v \o m
         /\ eventCount' = 0 /\ v = <<>> /\ m = <<>> => queue' = <<"noMoreEvents">>
<1>1. Tail(queue) = <<>>
  BY Taken
<1>2. v \in Seq(Callbacks) /\ m \in Seq(Callbacks)
  <2>1. "done" \in Callbacks /\ "line" \in Callbacks /\ "joined" \in Callbacks
    BY DEF Callbacks, InGroup
  <2>2. <<>> \in Seq(Callbacks) /\ <<"done">> \in Seq(Callbacks)
    BY <2>1
  <2>3. <<"line">> \in Seq(Callbacks) /\ <<"joined">> \in Seq(Callbacks)
    BY <2>1
  <2> QED BY <2>2, <2>3
<1>3. (Tail(queue) \o v) \o m = v \o m
  BY <1>1, <1>2, ConcatEmptySeq
<1>4. Without("noMoreEvents", <<>>) = <<>>
  BY DEF Without
<1>5. "noMoreEvents" \in Callbacks
  BY DEF Callbacks
<1>6. <<>> \o <<>> = <<>>
  BY <1>5, Joining
<1> QED BY <1>3, <1>4, <1>5, <1>6, AppendedToNone DEF CallbackEnds, Counted

-----------------------------------------------------------------------------
(***************************************************************************)
(* Phase is kept.                                                          *)
(***************************************************************************)

\* The rule can only come to its end.
LEMMA PhaseOfRuleStep ==
  ASSUME Phase, RuleStep
  PROVE  Phase'
<1>1. /\ UNCHANGED <<queue, eventCount, exit, reader, log, state, isRunning>>
      /\ rule' = rule \/ (rule = "running" /\ rule' = "exited")
  BY DEF RuleStep, Say, Complain, Close, Exit, chains, group
<1>2. CASE Going
  BY <1>1, <1>2 DEF Phase, Going, Waits, AllOver
<1>3. CASE ~Going
  BY <1>1, <1>3 DEF Phase, Idle, Starting, Deciding, Over, NoChains, AllOver
<1> QED BY <1>2, <1>3

\* Only an idle action is started; it may find an old noMoreEvents.
LEMMA PhaseOfStart ==
  ASSUME Phase, Start
  PROVE  Starting'
<1>1. Idle
  BY DEF Phase, Starting, Going, Deciding, Over, Start, Verdicts
<1>2. queue' \in {<<"start">>, <<"noMoreEvents", "start">>}
  <2>1. "start" \in Callbacks /\ "noMoreEvents" \in Callbacks
    BY DEF Callbacks, InGroup
  <2> QED BY <1>1, <2>1, AppendedToNone, AppendedToOne DEF Start, Idle
<1> QED BY <1>1, <1>2 DEF Start, Starting, Idle, NoChains, process, chains

\* What was waited for is canceled.
LEMMA PhaseOfRelease ==
  ASSUME Release, ~isRunning', state' \in {"PENDING"} \cup Verdicts
  PROVE  Idle'
BY DEF Release, ReleaseRunning, AllCanceled, Idle, NoChains

LEMMA PhaseOfReset ==
  ASSUME Phase, Reset
  PROVE  Idle'
<1>1. CASE isRunning
  BY <1>1, PhaseOfRelease DEF Reset
<1>2. CASE ~isRunning
  <2>1. Idle
    BY <1>2 DEF Phase, Starting, Going, Deciding, Over
  <2> QED BY <1>2, <2>1 DEF Reset, Idle, NoChains, process, chains, group
<1> QED BY <1>1, <1>2

LEMMA PhaseOfReturned ==
  ASSUME Phase, Returned
  PROVE  Idle'
<1>1. state \in Verdicts
  BY Taken DEF Phase, Idle, Starting, Going, Deciding, Over, Returned, Verdicts
<1> QED BY <1>1, PhaseOfRelease DEF Returned

\* An old noMoreEvents finds that the action does not run, or that it waits for start.
LEMMA PhaseOfNoMoreEvents ==
  ASSUME Phase, NoMoreEvents
  PROVE  Phase'
<1> USE DEF NoMoreEvents, process, chains
<1>1. CASE Idle
  BY <1>1, Taken DEF Phase, Idle, NoChains
<1>2. CASE Starting
  <2>1. queue = <<"noMoreEvents", "start">>
    <3>1. Head(<<"start">>) # "noMoreEvents"
      OBVIOUS
    <3> QED BY <1>2, <3>1 DEF Starting
  <2>2. Tail(queue) = <<"start">> /\ eventCount # 0
    BY <1>2, <2>1 DEF Starting
  <2>3. queue' = <<"start">> /\ state' = state
    BY <2>2 DEF NothingSince
  <2> QED BY <1>2, <2>3 DEF Phase, Starting, NoChains
<1>3. ~Going
  BY Taken DEF Going
<1>4. ~Deciding
  BY Taken DEF Deciding
<1>5. CASE Over
  <2>1. state = "RUNNING" /\ queue = <<"noMoreEvents">>
    BY <1>5, Taken DEF Over
  <2>2. "done" \in Callbacks
    BY DEF Callbacks
  <2>3. Append(Tail(queue), "done") = <<"done">>
    BY <2>1, <2>2, Taken, AppendedToNone
  <2>4. state' = "DONE" /\ queue' = <<"done">>
    BY <1>5, <2>1, <2>3 DEF Over, NothingSince
  <2> QED BY <1>5, <2>4 DEF Phase, Over, NoChains, AllOver
<1> QED BY <1>1, <1>2, <1>3, <1>4, <1>5 DEF Phase

\* fork() has succeeded, or failed.
LEMMA PhaseOfStartCallback ==
  ASSUME Phase, StartCallback
  PROVE  Phase'
<1>1. Starting /\ queue = <<"start">>
  BY Taken DEF Phase, Idle, Starting, Going, Deciding, Over, StartCallback
<1>2. "start" \in Callbacks /\ eventCount = 1 /\ Len(<<>>) = 0
  BY <1>1 DEF Callbacks, InGroup, Starting
<1>3. CASE rule' = "running" /\ exit' = "waiting" /\ reader' = "waiting" /\ log' = "waiting"
             /\ CallbackEnds(<<>>, <<>>, 3)
  <2>1. eventCount' = 3 /\ queue' = <<>> \o <<>>
    BY <1>1, <1>2, <1>3, CallbackAlone
  <2>2. queue' = <<>>
    BY <1>2, <2>1, Joining
  <2> QED BY <1>1, <1>2, <1>3, <2>1, <2>2 DEF Phase, Going, Starting, StartCallback, Waits, AllOver
<1>4. CASE CallbackEnds(<<>>, <<>>, 0) /\ UNCHANGED <<rule, chains>>
  <2>1. eventCount' = 0 /\ queue' = <<"noMoreEvents">>
    BY <1>1, <1>2, <1>4, CallbackAlone
  <2> QED BY <1>1, <1>4, <2>1 DEF Phase, Over, Starting, StartCallback, NoChains, chains
<1> QED BY <1>3, <1>4 DEF StartCallback

\* The count stays: what was waited for is queued.
LEMMA PhaseOfEvent ==
  ASSUME Phase, Event
  PROVE  Going'
<1>1. Going /\ queue = <<>>
  BY Taken DEF Phase, Idle, Starting, Deciding, Over, Event, NoChains
<1>2. Len(<<"exit">>) = 1 /\ Len(<<"line">>) = 1 /\ Len(<<"log">>) = 1 /\ Len(<<>>) = 0
  OBVIOUS
<1>3. exit # "queued" /\ reader # "queued" /\ log # "queued"
  BY <1>1, Taken DEF Going
<1>4. eventCount = Waits(exit) + Waits(reader) + Waits(log)
  BY <1>1, <1>2 DEF Going, Waits
<1>5. UNCHANGED <<eventCount, rule, state, isRunning>>
  BY DEF Event, process
<1> SUFFICES
      /\ exit' \in {"waiting", "queued", "told"}
      /\ reader' \in {"waiting", "queued", "ended", "broken"}
      /\ log' \in {"waiting", "queued", "ended"}
      /\ exit' # "waiting" => rule = "exited"
      /\ \/ queue' = <<"exit">> /\ exit' = "queued" /\ reader' # "queued" /\ log' # "queued"
         \/ queue' = <<"line">> /\ exit' # "queued" /\ reader' = "queued" /\ log' # "queued"
         \/ queue' = <<"log">> /\ exit' # "queued" /\ reader' # "queued" /\ log' = "queued"
      /\ Waits(exit) + Waits(reader) + Waits(log) = Waits(exit') + Waits(reader') + Waits(log') + 1
  BY <1>1, <1>2, <1>4, <1>5 DEF Going
<1>6. CASE exit = "waiting" /\ rule = "exited" /\ exit' = "queued" /\ queue' = <<"exit">>
             /\ UNCHANGED <<reader, log>>
  BY <1>1, <1>3, <1>6 DEF Going, Waits
<1>7. CASE reader = "waiting" /\ reader' = "queued" /\ queue' = <<"line">>
             /\ UNCHANGED <<exit, log>>
  BY <1>1, <1>3, <1>7 DEF Going, Waits
<1>8. CASE log = "waiting" /\ log' = "queued" /\ queue' = <<"log">>
             /\ UNCHANGED <<exit, reader>>
  BY <1>1, <1>3, <1>8 DEF Going, Waits
<1> QED BY <1>6, <1>7, <1>8 DEF Event

\* A callback that leaves the action waiting, or queues what is next.
LEMMA PhaseOfCallback ==
  ASSUME Going, NEW a \in Callbacks, queue = <<a>>,
         NEW v \in {<<>>, <<"done">>}, NEW m \in {<<>>, <<"line">>, <<"joined">>}, NEW w \in Nat,
         CallbackEnds(v, m, w),
         UNCHANGED <<isRunning, rule>>,
         state' \in {"RUNNING", "PASSED", "FAILED"},
         v = IF state' = "RUNNING" THEN <<>> ELSE <<"done">>,
         exit' \in {"waiting", "told"}, exit' # "waiting" => rule = "exited",
         reader' \in {"waiting", "queued", "ended", "broken"},
         log' \in {"waiting", "ended"},
         m = IF reader' = "queued" THEN <<"line">> ELSE Joined(exit', reader', log'),
         Waits(exit) + Waits(reader) + Waits(log) + w = Waits(exit') + Waits(reader') + Waits(log')
  PROVE  Phase'
<1>1. /\ Waits(exit) \in Nat /\ Waits(reader) \in Nat /\ Waits(log) \in Nat
      /\ Waits(exit') \in Nat /\ Waits(reader') \in Nat /\ Waits(log') \in Nat
  BY DEF Waits
<1>2. Len(<<>>) = 0 /\ Len(<<"line">>) = 1 /\ Len(<<"joined">>) = 1 /\ Len(queue) = 1
  BY Taken
<1>3. Len(m) \in Nat
  BY <1>2
<1>4. eventCount = Waits(exit) + Waits(reader) + Waits(log) + 1 /\ eventCount \in Nat
  <2>1. eventCount = Waits(exit) + Waits(reader) + Waits(log) + Len(queue)
    BY Taken DEF Going
  <2>2. QED
    BY <2>1, <1>1, <1>2
<1>5. /\ eventCount' = eventCount - 1 + Len(m) + w
      /\ eventCount' # 0 => queue' = v \o m
  BY <1>4, CallbackAlone
<1>6. eventCount' = Waits(exit') + Waits(reader') + Waits(log') + Len(m)
  <2>1. \A i, j, k, l, x, y, z \in Nat :
          i + j + k + w = x + y + z => (i + j + k + 1) - 1 + l + w = x + y + z + l
    OBVIOUS
  <2>2. eventCount' = (Waits(exit) + Waits(reader) + Waits(log) + 1) - 1 + Len(m) + w
    BY <1>4, <1>5
  <2> QED BY <1>1, <1>3, <2>1, <2>2
<1>7. Len(m) # 0 \/ Waits(exit') # 0 \/ Waits(reader') # 0 \/ Waits(log') # 0
  <2>1. CASE m = <<>>
    <3>1. exit' = "waiting" \/ reader' = "waiting" \/ log' = "waiting"
      BY <2>1 DEF Joined
    <3> QED BY <3>1 DEF Waits
  <2>2. CASE m # <<>>
    BY <1>2, <2>2
  <2> QED BY <2>1, <2>2
<1>8. eventCount' # 0 /\ eventCount' \in Nat
  <2>1. \A x, y, z, l \in Nat : l # 0 \/ x # 0 \/ y # 0 \/ z # 0 =>
          x + y + z + l # 0 /\ x + y + z + l \in Nat
    OBVIOUS
  <2>2. /\ Waits(exit') + Waits(reader') + Waits(log') + Len(m) # 0
        /\ Waits(exit') + Waits(reader') + Waits(log') + Len(m) \in Nat
    BY <1>1, <1>3, <1>7, <2>1
  <2> QED BY <1>6, <2>2
<1>9. queue' = v \o m
  BY <1>5, <1>8
<1>10. "done" \in Callbacks /\ "line" \in Callbacks /\ "joined" \in Callbacks
  BY DEF Callbacks, InGroup
<1>11. CASE state' = "RUNNING"
  <2>1. queue' = m
    BY <1>9, <1>10, <1>11, Joining
  <2>2. /\ isRunning' /\ rule' \in {"running", "exited"} /\ rule' = rule
    BY DEF Going
  <2>3. \/ queue' = <<>> /\ reader' # "queued"
           /\ ~(exit' = "told" /\ reader' \in {"ended", "broken"} /\ log' = "ended")
        \/ queue' = <<"line">> /\ reader' = "queued"
        \/ queue' = <<"joined">>
           /\ exit' = "told" /\ reader' \in {"ended", "broken"} /\ log' = "ended"
    BY <2>1 DEF Joined
  <2> QED BY <1>6, <1>11, <2>1, <2>2, <2>3 DEF Phase, Going, AllOver
<1>12. CASE state' # "RUNNING"
  <2>1. queue' \in {<<"done">>, <<"done", "line">>, <<"done", "joined">>}
    BY <1>9, <1>10, <1>12, Joining
  <2>2. isRunning' /\ rule' \in {"running", "exited"}
    BY DEF Going
  <2> QED BY <1>8, <1>12, <2>1, <2>2 DEF Phase, Deciding
<1> QED BY <1>11, <1>12

\* A callback in the group is heard by an action that has just started, or goes on.
LEMMA HeadWhileGoing ==
  ASSUME Phase, queue # <<>>, Head(queue) \in {"exit", "line", "log", "joined"}
  PROVE  /\ Going /\ Head(queue) \in Callbacks /\ queue = <<Head(queue)>>
         /\ Head(queue) = "exit" => exit = "queued" /\ reader # "queued" /\ log # "queued"
         /\ Head(queue) = "line" => exit # "queued" /\ reader = "queued" /\ log # "queued"
         /\ Head(queue) = "log" => exit # "queued" /\ reader # "queued" /\ log = "queued"
         /\ Head(queue) = "joined" => AllOver
<1>1. Going
  BY Taken DEF Phase, Idle, Starting, Deciding, Over
<1> QED BY <1>1, Taken DEF Going, Callbacks, InGroup

\* Nothing is queued but the callback that joins the three chains.
LEMMA JoinedIsShort ==
  ASSUME NEW e, NEW r, NEW l
  PROVE  Joined(e, r, l) \in {<<>>, <<"line">>, <<"joined">>}
BY DEF Joined

LEMMA PhaseOfExitCallback ==
  ASSUME Phase, ExitCallback
  PROVE  Phase'
<1>1. /\ Going /\ "exit" \in Callbacks /\ queue = <<"exit">>
      /\ exit = "queued" /\ reader # "queued" /\ log # "queued"
  BY HeadWhileGoing DEF ExitCallback
<1>2. /\ state = "RUNNING" /\ rule = "exited"
      /\ reader \in {"waiting", "queued", "ended", "broken"} /\ log \in {"waiting", "queued", "ended"}
  BY <1>1 DEF Going
<1>3. /\ exit' = "told" /\ reader' = reader /\ log' = log /\ UNCHANGED <<isRunning, rule>>
      /\ state' \in {"RUNNING", "FAILED"}
  BY <1>2 DEF ExitCallback, process
<1> DEFINE v == IF state' = "RUNNING" THEN <<>> ELSE <<"done">>
           m == Joined("told", reader, log)
<1>4. CallbackEnds(v, m, 0)
  BY <1>2, <1>3 DEF ExitCallback
<1>5. v \in {<<>>, <<"done">>} /\ m \in {<<>>, <<"line">>, <<"joined">>} /\ 0 \in Nat
  BY JoinedIsShort
<1>6. Waits(exit) + Waits(reader) + Waits(log) + 0 = Waits(exit') + Waits(reader') + Waits(log')
  BY <1>1, <1>3 DEF Waits
<1>7. m = IF reader' = "queued" THEN <<"line">> ELSE Joined(exit', reader', log')
  BY <1>1, <1>3
<1>8. v = IF state' = "RUNNING" THEN <<>> ELSE <<"done">>
  OBVIOUS
<1> HIDE DEF v, m
<1> QED BY <1>1, <1>2, <1>3, <1>4, <1>5, <1>6, <1>7, <1>8, PhaseOfCallback

LEMMA PhaseOfLogCallback ==
  ASSUME Phase, LogCallback
  PROVE  Phase'
<1>1. /\ Going /\ "log" \in Callbacks /\ queue = <<"log">>
      /\ exit # "queued" /\ reader # "queued" /\ log = "queued"
  BY HeadWhileGoing DEF LogCallback
<1>2. /\ state = "RUNNING"
      /\ exit # "waiting" => rule = "exited"
      /\ exit \in {"waiting", "queued", "told"}
      /\ reader \in {"waiting", "queued", "ended", "broken"}
  BY <1>1 DEF Going
<1>3. /\ exit' = exit /\ reader' = reader /\ UNCHANGED <<isRunning, rule, state>>
      /\ log' = IF text THEN "waiting" ELSE "ended"
  BY DEF LogCallback
<1> DEFINE m == Joined(exit, reader, log')
           w == IF text THEN 1 ELSE 0
<1>4. CallbackEnds(<<>>, m, w)
  BY DEF LogCallback
<1>5. <<>> \in {<<>>, <<"done">>} /\ m \in {<<>>, <<"line">>, <<"joined">>} /\ w \in Nat
  BY JoinedIsShort
<1>6. Waits(exit) + Waits(reader) + Waits(log) + w = Waits(exit') + Waits(reader') + Waits(log')
  BY <1>1, <1>3 DEF Waits
<1>7. m = IF reader' = "queued" THEN <<"line">> ELSE Joined(exit', reader', log')
  BY <1>1, <1>3
<1> HIDE DEF m, w
<1> QED BY <1>1, <1>2, <1>3, <1>4, <1>5, <1>6, <1>7, PhaseOfCallback

\* A line, or the end of the output.
LEMMA PhaseOfLineCallback ==
  ASSUME Phase, LineCallback
  PROVE  Phase'
<1>1. /\ Going /\ "line" \in Callbacks /\ queue = <<"line">>
      /\ exit # "queued" /\ reader = "queued" /\ log # "queued"
  BY HeadWhileGoing DEF LineCallback
<1>2. /\ state = "RUNNING"
      /\ exit # "waiting" => rule = "exited"
      /\ exit \in {"waiting", "queued", "told"} /\ log \in {"waiting", "queued", "ended"}
  BY <1>1 DEF Going
<1>3. exit' = exit /\ log' = log /\ UNCHANGED <<isRunning, rule>>
  BY DEF LineCallback
<1> DEFINE more == IF reader' = "queued" THEN <<"line">> ELSE Joined(exit, reader', log)
           waits == IF reader' = "waiting" THEN 1 ELSE 0
           v == IF state' = "RUNNING" THEN <<>> ELSE <<"done">>
<1>4. /\ state' \in {"RUNNING", "PASSED", "FAILED"}
      /\ reader' \in {"waiting", "queued", "ended", "broken"}
      /\ CallbackEnds(v, more, waits)
  <2>1. ASSUME NEW n \in Nat, NEW all, NEW c, NEW throws,
               state' = IF state = "RUNNING" THEN Verdict(c) ELSE state,
               reader' = IF throws THEN "broken"
                         ELSE IF lines' # <<>> THEN "queued" ELSE "waiting",
               CallbackEnds(IF state' # state THEN <<"done">> ELSE <<>>,
                            IF reader' = "queued" THEN <<"line">> ELSE Joined(exit, reader', log),
                            IF reader' = "waiting" THEN 1 ELSE 0)
        PROVE  /\ state' \in {"RUNNING", "PASSED", "FAILED"}
               /\ reader' \in {"waiting", "queued", "ended", "broken"}
               /\ CallbackEnds(v, more, waits)
    <3>1. state' \in {"RUNNING", "PASSED", "FAILED"}
      BY <1>2, <2>1 DEF Verdict
    <3>2. reader' \in {"waiting", "queued", "ended", "broken"}
      BY <2>1
    <3>3. v = IF state' # state THEN <<"done">> ELSE <<>>
      BY <1>2
    <3> QED BY <2>1, <3>1, <3>2, <3>3
  <2>2. CASE reader' = "ended" /\ state' = state
             /\ CallbackEnds(<<>>, Joined(exit, reader', log), 0)
    BY <1>2, <2>2
  <2> HIDE DEF v, more, waits
  <2> QED BY <2>1, <2>2, <1>2 DEF LineCallback
<1>5. v \in {<<>>, <<"done">>} /\ more \in {<<>>, <<"line">>, <<"joined">>} /\ waits \in Nat
  BY JoinedIsShort
<1>6. Waits(exit) + Waits(reader) + Waits(log) + waits = Waits(exit') + Waits(reader') + Waits(log')
  BY <1>1, <1>3 DEF Waits
<1>7. more = IF reader' = "queued" THEN <<"line">> ELSE Joined(exit', reader', log')
  BY <1>3
<1>8. v = IF state' = "RUNNING" THEN <<>> ELSE <<"done">>
  OBVIOUS
<1> HIDE DEF v, more, waits
<1> QED BY <1>1, <1>2, <1>3, <1>4, <1>5, <1>6, <1>7, <1>8, PhaseOfCallback

LEMMA PhaseOfJoinedCallback ==
  ASSUME Phase, JoinedCallback
  PROVE  Over'
<1>1. Going /\ "joined" \in Callbacks /\ queue = <<"joined">> /\ AllOver
  BY HeadWhileGoing DEF JoinedCallback
<1>2. eventCount = 1 /\ Len(<<>>) = 0
  BY <1>1, Taken DEF Going, AllOver, Waits
<1>3. eventCount' = 0 /\ queue' = <<"noMoreEvents">>
  BY <1>1, <1>2, CallbackAlone DEF JoinedCallback
<1> QED BY <1>1, <1>3 DEF JoinedCallback, Going, Over, AllOver, NoChains, chains

LEMMA PhaseKept ==
  ASSUME Phase, [Next]_vars
  PROVE  Phase'
<1>1. CASE UNCHANGED vars
  BY <1>1 DEF Phase, Idle, Starting, Going, Deciding, Over, NoChains, AllOver, vars, process, chains,
              group
<1>2. CASE Next
  BY <1>2, PhaseOfRuleStep, PhaseOfStart, PhaseOfReset, PhaseOfReturned, PhaseOfNoMoreEvents,
     PhaseOfStartCallback, PhaseOfEvent, PhaseOfExitCallback, PhaseOfLogCallback,
     PhaseOfLineCallback, PhaseOfJoinedCallback DEF Next, Ekam, Phase
<1> QED BY <1>1, <1>2

-----------------------------------------------------------------------------
(***************************************************************************)
(* DataOK is kept.                                                         *)
(***************************************************************************)

LEMMA CommandFiles ==
  ASSUME NEW c \in Commands, c.do = "provide" \/ c \in Questions
  PROVE  c.file \in Files
BY DEF Commands, Questions

LEMMA DataOfRuleStep ==
  ASSUME DataOK, RuleStep
  PROVE  DataOK'
<1>1. /\ UNCHANGED <<lines, cache, known, provisions, dangling, provided, learned, runs, isRunning>>
      /\ code' \in {0, 1} /\ open' \subseteq Streams /\ text' \in BOOLEAN
  BY DEF DataOK, RuleStep, Say, Complain, Close, Exit, commands, results
<1>2. pipe' \in Seq(Commands) /\ asked' \subseteq Files /\ said' \in 0 .. MaxCommands
  <2>1. ASSUME NEW c \in Commands, Say(c)
        PROVE  pipe' \in Seq(Commands) /\ asked' \subseteq Files /\ said' \in 0 .. MaxCommands
    <3>1. pipe' \in Seq(Commands)
      BY <2>1, AppendProperties DEF DataOK, Say
    <3>2. asked' \subseteq Files
      BY <2>1, CommandFiles DEF DataOK, Say
    <3>3. said' \in 0 .. MaxCommands
      BY <2>1, PluginAssumption DEF DataOK, Say
    <3> QED BY <3>1, <3>2, <3>3
  <2>2. CASE UNCHANGED <<pipe, asked, said>>
    BY <2>2 DEF DataOK
  <2> QED BY <2>1, <2>2 DEF RuleStep, Complain, Close, Exit
<1> QED BY <1>1, <1>2 DEF DataOK

LEMMA DataOfRelease ==
  ASSUME DataOK, Release, provided' \subseteq Files, learned' \in BOOLEAN, runs' = runs,
         isRunning' \in BOOLEAN
  PROVE  DataOK'
<1>1. <<>> \in Seq(Commands)
  OBVIOUS
<1> QED BY <1>1 DEF DataOK, Release, ReleaseRunning

LEMMA DataOfReset ==
  ASSUME DataOK, Reset
  PROVE  DataOK'
<1>1. CASE isRunning
  BY <1>1, DataOfRelease DEF Reset
<1>2. CASE ~isRunning
  BY <1>2 DEF DataOK, Reset, process, commands
<1> QED BY <1>1, <1>2

LEMMA DataOfReturned ==
  ASSUME DataOK, Returned
  PROVE  DataOK'
<1>1. provided' \subseteq Files /\ learned' \in BOOLEAN /\ runs' = runs
      /\ isRunning' \in BOOLEAN
  BY DEF DataOK, Returned
<1> QED BY <1>1, DataOfRelease DEF Returned

\* What the reader keeps of a command are files that commands name.
LEMMA DataOfConsume ==
  ASSUME DataOK, NEW c \in Commands, Consume(c)
  PROVE  cache' \subseteq Questions /\ known' \subseteq Files /\ provisions' \subseteq Files
         /\ dangling' \subseteq Files
<1>1. CASE AddNothing /\ (UNCHANGED cache \/ (c \in Questions /\ cache' = cache \cup {c}))
  BY <1>1 DEF DataOK, AddNothing
<1>2. CASE c \in Questions /\ cache' = cache \cup {c} /\ Know(c.file)
  <2>1. c.file \in Files
    BY <1>2, CommandFiles
  <2> QED BY <1>2, <2>1 DEF DataOK, Know
<1>3. CASE c.do = "provide" /\ UNCHANGED <<cache, known, dangling>>
             /\ provisions' = IF c.file \in known THEN provisions \cup {c.file} ELSE provisions
  BY <1>3 DEF DataOK
<1> QED BY <1>1, <1>2, <1>3 DEF Consume

LEMMA DataOfLineCallback ==
  ASSUME DataOK, LineCallback
  PROVE  DataOK'
<1>1. UNCHANGED <<code, open, text, asked, said, runs, isRunning>>
  BY DEF LineCallback
<1>2. ASSUME lines # <<>> \/ pipe # <<>>,
             NEW n \in IF lines # <<>> THEN {0} ELSE 1 .. Len(pipe),
             pipe' = SubSeq(pipe, n + 1, Len(pipe)),
             lines' = Tail(lines \o SubSeq(pipe, 1, n)),
             Consume(Head(lines \o SubSeq(pipe, 1, n)))
      PROVE  /\ pipe' \in Seq(Commands) /\ lines' \in Seq(Commands)
             /\ cache' \subseteq Questions /\ known' \subseteq Files /\ provisions' \subseteq Files
             /\ dangling' \subseteq Files
  <2> DEFINE read == SubSeq(pipe, 1, n)
             all == lines \o read
  <2>1. pipe \in Seq(Commands) /\ lines \in Seq(Commands) /\ Len(pipe) \in Nat /\ n \in 0 .. Len(pipe)
    BY <1>2 DEF DataOK
  <2>2. pipe' \in Seq(Commands)
    BY <1>2, <2>1, SubSeqProperties
  <2>3. read \in Seq(Commands) /\ Len(read) = n
    BY <2>1, SubSeqProperties
  <2> HIDE DEF read
  <2>4. all \in Seq(Commands) /\ Len(all) = Len(lines) + n
    BY <2>1, <2>3, ConcatProperties
  <2>5. Len(lines) \in Nat /\ (lines # <<>> => Len(lines) > 0) /\ (lines = <<>> => n > 0)
    BY <1>2, <2>1, EmptySeq, LenProperties
  <2>6. all # <<>>
    BY <2>1, <2>4, <2>5
  <2> HIDE DEF all
  <2>7. Head(all) \in Commands /\ Tail(all) \in Seq(Commands)
    BY <2>4, <2>6, HeadTailProperties
  <2>8. lines' = Tail(all) /\ Consume(Head(all))
    BY <1>2 DEF all, read
  <2> QED BY <2>2, <2>7, <2>8, DataOfConsume
<1>3. CASE Eof /\ learned' = TRUE /\ UNCHANGED <<pipe, commands>>
  BY <1>1, <1>3 DEF DataOK, Eof, commands
<1>4. CASE (lines # <<>> \/ pipe # <<>>) /\ UNCHANGED results
  <2>1. \E n \in IF lines # <<>> THEN {0} ELSE 1 .. Len(pipe) :
          /\ pipe' = SubSeq(pipe, n + 1, Len(pipe))
          /\ lines' = Tail(lines \o SubSeq(pipe, 1, n))
          /\ Consume(Head(lines \o SubSeq(pipe, 1, n)))
    BY <1>4 DEF LineCallback
  <2>2. /\ pipe' \in Seq(Commands) /\ lines' \in Seq(Commands)
        /\ cache' \subseteq Questions /\ known' \subseteq Files /\ provisions' \subseteq Files
        /\ dangling' \subseteq Files
    BY <1>2, <1>4, <2>1
  <2> QED BY <1>1, <1>4, <2>2 DEF DataOK, results
<1> QED BY <1>3, <1>4 DEF LineCallback

LEMMA DataKept ==
  ASSUME DataOK, [Next]_vars
  PROVE  DataOK'
<1> USE DEF process, commands, results
<1>1. CASE UNCHANGED vars
  BY <1>1 DEF DataOK, vars
<1>2. CASE Start
  BY <1>2, PluginAssumption DEF DataOK, Start
<1>3. CASE StartCallback
  <2>1. open' \subseteq Streams /\ known' \subseteq Files
    BY <1>3, PluginAssumption DEF DataOK, StartCallback
  <2> QED BY <1>3, <2>1 DEF DataOK, StartCallback
<1>4. CASE Event \/ ExitCallback \/ NoMoreEvents
  BY <1>4 DEF DataOK, Event, ExitCallback, NoMoreEvents
<1>5. CASE LogCallback
  BY <1>5 DEF DataOK, LogCallback
<1>6. CASE JoinedCallback
  <2>1. <<>> \in Seq(Commands)
    OBVIOUS
  <2> QED BY <1>6, <2>1 DEF DataOK, JoinedCallback
<1> QED BY <1>1, <1>2, <1>3, <1>4, <1>5, <1>6, DataOfRuleStep, DataOfReset, DataOfReturned,
        DataOfLineCallback DEF Next, Ekam

-----------------------------------------------------------------------------
(***************************************************************************)
(* Theorems.                                                               *)
(***************************************************************************)

\* The shapes of the queue hold in every reachable state, however many runs and
\* commands there are.
THEOREM Invariant == Spec => []IInv
<1>1. Init => IInv
  <2> SUFFICES ASSUME Init PROVE DataOK /\ Idle
    BY DEF IInv, Phase
  <2>1. <<>> \in Seq(Commands)
    OBVIOUS
  <2>2. 0 \in 0 .. MaxCommands /\ 0 \in 0 .. MaxRuns
    BY PluginAssumption
  <2>3. DataOK
    BY <2>1, <2>2 DEF Init, DataOK
  <2>4. Idle
    BY DEF Init, Idle, NoChains
  <2> QED BY <2>3, <2>4
<1>2. IInv /\ [Next]_vars => IInv'
  BY PhaseKept, DataKept DEF IInv
<1> QED BY <1>1, <1>2, PTL DEF Spec

\* The callbacks that a queue of Phase holds.
LEMMA QueueOfPhase ==
  ASSUME Phase
  PROVE  queue \in Seq(Callbacks)
<1>1. /\ "start" \in Callbacks /\ "exit" \in Callbacks /\ "line" \in Callbacks
      /\ "log" \in Callbacks /\ "joined" \in Callbacks /\ "noMoreEvents" \in Callbacks
      /\ "done" \in Callbacks
  BY DEF Callbacks, InGroup
<1>2. ASSUME NEW a \in Callbacks, NEW b \in Callbacks
      PROVE  <<>> \in Seq(Callbacks) /\ <<a>> \in Seq(Callbacks) /\ <<a, b>> \in Seq(Callbacks)
  OBVIOUS
<1> QED BY <1>1, <1>2 DEF Phase, Idle, Starting, Going, Deciding, Over

\* Every variable of an action, its event group and its reader keeps its type.
THEOREM TypeCorrect == Spec => []TypeOK
<1>1. IInv => TypeOK
  <2> SUFFICES ASSUME DataOK, Phase PROVE TypeOK
    BY DEF IInv
  <2>1. /\ rule \in {"none", "running", "exited"}
        /\ exit \in {"none", "waiting", "queued", "told"}
        /\ reader \in {"none", "waiting", "queued", "ended", "broken"}
        /\ log \in {"none", "waiting", "queued", "ended"}
        /\ state \in {"PENDING", "RUNNING"} \cup Verdicts
    BY DEF Phase, Idle, Starting, Going, Deciding, Over, AllOver, NoChains, Verdicts
  <2>2. eventCount \in Nat
    BY Taken DEF Phase, Idle, Starting, Going, Deciding, Over, Waits
  <2> QED BY <2>1, <2>2, QueueOfPhase DEF DataOK, TypeOK
<1> QED BY <1>1, Invariant, PTL

\* No event is told to an action that does not run or has its verdict: failed() and
\* ensureRunning() do not throw.
THEOREM NotHeardTooLate == Spec => []HeardWhileRunning
<1>1. IInv => HeardWhileRunning
  BY Taken DEF IInv, Phase, Idle, Starting, Going, Deciding, Over, HeardWhileRunning, InGroup
<1> QED BY <1>1, Invariant, PTL

\* Short queues hold what they are written with.
LEMMA QueuedInShort ==
  ASSUME NEW a, NEW b, NEW c
  PROVE  /\ queue = <<>> => ~Queued(c)
         /\ queue = <<a>> => (Queued(c) <=> c = a)
         /\ queue = <<a, b>> => (Queued(c) <=> c = a \/ c = b)
<1>1. DOMAIN <<a>> = {1} /\ DOMAIN <<a, b>> = {1, 2} /\ DOMAIN <<>> = {}
  OBVIOUS
<1> QED BY <1>1 DEF Queued

\* NoMoreEvents makes an action done only when nothing of its run is left: no process,
\* no chain that waits, and no callback.
THEOREM EndOnTime == Spec => []EndIsNotEarly
<1>1. IInv => EndIsNotEarly
  <2> SUFFICES ASSUME Phase, isRunning, state = "DONE"
               PROVE  /\ exit \in {"none", "told"} /\ reader \in {"none", "ended", "broken"}
                      /\ log \in {"none", "ended"} /\ rule = "none"
                      /\ \A c \in InGroup : ~Queued(c)
    BY DEF IInv, EndIsNotEarly
  <2>1. Over /\ queue = <<"done">>
    BY DEF Phase, Idle, Starting, Going, Deciding, Over
  <2>2. \A c \in InGroup : ~Queued(c)
    BY <2>1, QueuedInShort DEF InGroup
  <2> QED BY <2>1, <2>2 DEF Over, AllOver, NoChains
<1> QED BY <1>1, Invariant, PTL

\* A verdict is on its way for as long as the action has one and runs; what returned()
\* and reset() leave is neither process nor event.
THEOREM NothingIsLeft == Spec => []NothingOutlives
<1>1. ASSUME Phase PROVE Queued("done") <=> isRunning /\ state \in Verdicts
  <2>1. CASE Idle
    <3>1. ~Queued("done")
      BY <2>1, QueuedInShort DEF Idle
    <3> QED BY <2>1, <3>1 DEF Idle
  <2>2. CASE Starting
    <3>1. ~Queued("done")
      BY <2>2, QueuedInShort DEF Starting
    <3> QED BY <2>2, <3>1 DEF Starting, Verdicts
  <2>3. CASE Going
    <3>1. ~Queued("done")
      BY <2>3, QueuedInShort DEF Going
    <3> QED BY <2>3, <3>1 DEF Going, Verdicts
  <2>4. CASE Deciding
    <3>1. Queued("done")
      BY <2>4, QueuedInShort DEF Deciding
    <3> QED BY <2>4, <3>1 DEF Deciding, Verdicts
  <2>5. CASE Over /\ state = "RUNNING"
    <3>1. ~Queued("done")
      BY <2>5, QueuedInShort DEF Over
    <3> QED BY <2>5, <3>1 DEF Verdicts
  <2>6. CASE Over /\ state = "DONE"
    <3>1. Queued("done")
      BY <2>6, QueuedInShort DEF Over
    <3> QED BY <2>6, <3>1 DEF Verdicts, Over
  <2> QED BY <1>1, <2>1, <2>2, <2>3, <2>4, <2>5, <2>6 DEF Phase, Over
<1>2. ASSUME Phase, ~isRunning
      PROVE  rule = "none" /\ eventCount = 0 /\ \A c \in InGroup : ~Queued(c)
  <2>1. Idle
    BY <1>2 DEF Phase, Starting, Going, Deciding, Over
  <2> QED BY <2>1, QueuedInShort DEF Idle, InGroup
<1>3. IInv => NothingOutlives
  BY <1>1, <1>2 DEF IInv, NothingOutlives
<1> QED BY <1>3, Invariant, PTL

-----------------------------------------------------------------------------
(***************************************************************************)
(* What the rule asks for is provided: a second invariant, of the files.   *)
(***************************************************************************)

Pending(f, q) == \E i \in 1 .. Len(q) : q[i].do = "provide" /\ q[i].file = f
ToCome(f) == Pending(f, lines) \/ Pending(f, pipe)

\* Without a process there are no streams, and no reader.
Bare == rule = "none" => open = {} /\ pipe = <<>> /\ lines = <<>> /\ provisions = {}

\* Nothing is kept, or to come, that the rule has not asked for.
Wanted ==
  /\ provisions \cup dangling \subseteq asked
  /\ \A f \in Files : ToCome(f) => f \in asked

\* Until the reader has come to the end, all the rule has asked for is kept or to come.
Unforgotten ==
  isRunning /\ state = "RUNNING" /\ reader \in {"waiting", "queued"} =>
    /\ \A f \in asked : f \in provisions \cup dangling \/ ToCome(f)
    /\ reader = "queued" /\ lines = <<>> /\ pipe = <<>> => "stdout" \notin open

\* Once it has, all of it is provided, and the rule can ask for nothing more.
Provided ==
  /\ ~learned => provided = {}
  /\ state = "PENDING" => ~learned
  /\ learned /\ isRunning => reader = "ended"
  /\ learned => "stdout" \notin open /\ provided \subseteq asked /\ asked \ dangling \subseteq provided

\* An exit that was told and has not failed the action was good.
GoodExit ==
  /\ isRunning /\ state = "RUNNING" /\ exit = "told" => code = 0
  /\ state = "DONE" /\ learned => code = 0

Account == Bare /\ Wanted /\ Unforgotten /\ Provided /\ GoodExit

\* Commands that are written, read and obeyed.
LEMMA PendingInNone ==
  ASSUME NEW f
  PROVE  ~Pending(f, <<>>)
BY DEF Pending

LEMMA PendingAppended ==
  ASSUME NEW f, NEW q \in Seq(Commands), NEW c \in Commands
  PROVE  Pending(f, Append(q, c)) <=> Pending(f, q) \/ (c.do = "provide" /\ c.file = f)
<1> DEFINE r == Append(q, c)
<1>1. /\ Len(r) = Len(q) + 1 /\ \A i \in 1 .. Len(q) : r[i] = q[i]
      /\ r[Len(q) + 1] = c /\ Len(q) \in Nat
  BY AppendProperties
<1> HIDE DEF r
<1>2. 1 .. Len(r) = 1 .. Len(q) \cup {Len(q) + 1}
  BY <1>1
<1>3. Pending(f, r) <=> Pending(f, q) \/ (c.do = "provide" /\ c.file = f)
  BY <1>1, <1>2 DEF Pending
<1> QED BY <1>3 DEF r

LEMMA PendingJoined ==
  ASSUME NEW f, NEW p \in Seq(Commands), NEW q \in Seq(Commands)
  PROVE  Pending(f, p \o q) <=> Pending(f, p) \/ Pending(f, q)
<1> DEFINE r == p \o q
<1>1. /\ Len(r) = Len(p) + Len(q) /\ Len(p) \in Nat /\ Len(q) \in Nat
      /\ \A i \in 1 .. Len(r) : r[i] = IF i <= Len(p) THEN p[i] ELSE q[i - Len(p)]
  BY ConcatProperties
<1> HIDE DEF r
<1>2. ASSUME Pending(f, r) PROVE Pending(f, p) \/ Pending(f, q)
  <2>1. PICK i \in 1 .. Len(r) : r[i].do = "provide" /\ r[i].file = f
    BY <1>2 DEF Pending
  <2>2. CASE i <= Len(p)
    BY <1>1, <2>1, <2>2 DEF Pending
  <2>3. CASE i > Len(p)
    <3>1. i - Len(p) \in 1 .. Len(q) /\ r[i] = q[i - Len(p)]
      BY <1>1, <2>1, <2>3
    <3> QED BY <2>1, <3>1 DEF Pending
  <2> QED BY <1>1, <2>1, <2>2, <2>3
<1>3. ASSUME Pending(f, p) PROVE Pending(f, r)
  <2>1. PICK i \in 1 .. Len(p) : p[i].do = "provide" /\ p[i].file = f
    BY <1>3 DEF Pending
  <2>2. i \in 1 .. Len(r) /\ r[i] = p[i]
    BY <1>1, <2>1
  <2> QED BY <2>1, <2>2 DEF Pending
<1>4. ASSUME Pending(f, q) PROVE Pending(f, r)
  <2>1. PICK i \in 1 .. Len(q) : q[i].do = "provide" /\ q[i].file = f
    BY <1>4 DEF Pending
  <2>2. i + Len(p) \in 1 .. Len(r) /\ ~(i + Len(p) <= Len(p)) /\ (i + Len(p)) - Len(p) = i
    BY <1>1, <2>1
  <2>3. r[i + Len(p)] = q[i]
    BY <1>1, <2>2
  <2> QED BY <2>1, <2>2, <2>3 DEF Pending
<1> QED BY <1>2, <1>3, <1>4 DEF r

LEMMA PendingHead ==
  ASSUME NEW f, NEW q \in Seq(Commands), q # <<>>
  PROVE  Pending(f, q) <=> (Head(q).do = "provide" /\ Head(q).file = f) \/ Pending(f, Tail(q))
<1>1. /\ Head(q) = q[1] /\ Len(q) \in Nat /\ Len(q) > 0 /\ Len(Tail(q)) = Len(q) - 1
      /\ \A i \in 1 .. Len(Tail(q)) : Tail(q)[i] = q[i + 1]
  BY HeadTailProperties, EmptySeq, LenProperties
<1>2. ASSUME Pending(f, q)
      PROVE  (Head(q).do = "provide" /\ Head(q).file = f) \/ Pending(f, Tail(q))
  <2>1. PICK i \in 1 .. Len(q) : q[i].do = "provide" /\ q[i].file = f
    BY <1>2 DEF Pending
  <2>2. CASE i = 1
    BY <1>1, <2>1, <2>2
  <2>3. CASE i # 1
    <3>1. i - 1 \in 1 .. Len(Tail(q)) /\ (i - 1) + 1 = i
      BY <1>1, <2>1, <2>3
    <3>2. Tail(q)[i - 1] = q[i]
      BY <1>1, <3>1
    <3> QED BY <2>1, <3>1, <3>2 DEF Pending
  <2> QED BY <2>2, <2>3
<1>3. ASSUME Head(q).do = "provide" /\ Head(q).file = f PROVE Pending(f, q)
  <2>1. 1 \in 1 .. Len(q)
    BY <1>1
  <2> QED BY <1>1, <1>3, <2>1 DEF Pending
<1>4. ASSUME Pending(f, Tail(q)) PROVE Pending(f, q)
  <2>1. PICK i \in 1 .. Len(Tail(q)) : Tail(q)[i].do = "provide" /\ Tail(q)[i].file = f
    BY <1>4 DEF Pending
  <2>2. i + 1 \in 1 .. Len(q) /\ Tail(q)[i] = q[i + 1]
    BY <1>1, <2>1
  <2> QED BY <2>1, <2>2 DEF Pending
<1> QED BY <1>2, <1>3, <1>4

LEMMA PendingCut ==
  ASSUME NEW f, NEW q \in Seq(Commands), NEW n \in 0 .. Len(q)
  PROVE  Pending(f, q) <=> Pending(f, SubSeq(q, 1, n)) \/ Pending(f, SubSeq(q, n + 1, Len(q)))
<1> DEFINE a == SubSeq(q, 1, n)
           b == SubSeq(q, n + 1, Len(q))
<1>1. Len(q) \in Nat /\ n \in Nat /\ n <= Len(q)
  BY LenProperties
<1>2. a \in Seq(Commands) /\ Len(a) = n /\ \A i \in 1 .. n : a[i] = q[i]
  BY <1>1, SubSeqProperties
<1>3. b \in Seq(Commands) /\ Len(b) = Len(q) - n /\ \A i \in 1 .. Len(q) - n : b[i] = q[n + i]
  BY <1>1, SubSeqProperties
<1> HIDE DEF a, b
<1>4. ASSUME Pending(f, q) PROVE Pending(f, a) \/ Pending(f, b)
  <2>1. PICK i \in 1 .. Len(q) : q[i].do = "provide" /\ q[i].file = f
    BY <1>4 DEF Pending
  <2>2. CASE i <= n
    BY <1>1, <1>2, <2>1, <2>2 DEF Pending
  <2>3. CASE i > n
    <3>1. i - n \in 1 .. Len(b) /\ n + (i - n) = i /\ i - n \in 1 .. Len(q) - n
      BY <1>1, <1>3, <2>1, <2>3
    <3>2. b[i - n] = q[i]
      BY <1>3, <3>1
    <3> QED BY <2>1, <3>1, <3>2 DEF Pending
  <2> QED BY <1>1, <2>1, <2>2, <2>3
<1>5. ASSUME Pending(f, a) PROVE Pending(f, q)
  <2>1. PICK i \in 1 .. n : a[i].do = "provide" /\ a[i].file = f
    BY <1>2, <1>5 DEF Pending
  <2>2. i \in 1 .. Len(q) /\ a[i] = q[i]
    BY <1>1, <1>2, <2>1
  <2> QED BY <2>1, <2>2 DEF Pending
<1>6. ASSUME Pending(f, b) PROVE Pending(f, q)
  <2>1. PICK i \in 1 .. Len(q) - n : b[i].do = "provide" /\ b[i].file = f
    BY <1>3, <1>6 DEF Pending
  <2>2. n + i \in 1 .. Len(q) /\ b[i] = q[n + i]
    BY <1>1, <1>3, <2>1
  <2> QED BY <2>1, <2>2 DEF Pending
<1> QED BY <1>4, <1>5, <1>6 DEF a, b

LEMMA AccountOfSay ==
  ASSUME DataOK, Phase, Account, NEW c \in Commands, Say(c),
         UNCHANGED <<chains, commands, state, isRunning, results, group, runs>>
  PROVE  Account'
<1>1. \A f \in Files : ToCome(f)' <=> ToCome(f) \/ (c.do = "provide" /\ c.file = f)
  BY PendingAppended DEF DataOK, Say, ToCome, commands
<1>2. /\ asked' = asked \cup {f \in {c.file} : c.do = "provide"}
      /\ c.do = "provide" => c.file \in Files
  BY CommandFiles DEF Say
<1>3. Bare'
  BY DEF Account, Bare, Say, commands
<1>4. Wanted'
  BY <1>1, <1>2 DEF Account, Wanted, commands
<1>5. Unforgotten'
  <2>1. pipe' # <<>>
    BY AppendProperties DEF Say, DataOK
  <2>2. asked' \subseteq Files
    BY <1>2 DEF DataOK
  <2> QED BY <1>1, <1>2, <2>1, <2>2 DEF Account, Unforgotten, commands, chains
<1>6. Provided'
  BY DEF Account, Provided, Say, chains, commands, results
<1>7. GoodExit'
  BY DEF Account, GoodExit, Say, chains, results
<1> QED BY <1>3, <1>4, <1>5, <1>6, <1>7 DEF Account

LEMMA AccountOfRuleStep ==
  ASSUME DataOK, Phase, Account, RuleStep
  PROVE  Account'
<1>1. CASE \E c \in Commands : Say(c)
  BY <1>1, AccountOfSay DEF RuleStep
<1>2. CASE Complain \/ (\E s \in Streams : Close(s)) \/ (\E c \in {0, 1} : Exit(c))
  <2>1. /\ UNCHANGED <<pipe, asked, lines, provisions, dangling, provided, learned, exit, reader,
                      state, isRunning>>
        /\ open' \subseteq open
        /\ rule' = "none" => rule = "none"
        /\ code' = code \/ rule = "running"
    BY <1>2 DEF RuleStep, Complain, Close, Exit, chains, commands, results
  <2>2. Bare' /\ Wanted' /\ Unforgotten' /\ Provided'
    BY <2>1 DEF Account, Bare, Wanted, Unforgotten, Provided, ToCome
  <2>3. GoodExit'
    <3>1. ASSUME rule = "running", isRunning, state = "RUNNING", exit = "told" PROVE FALSE
      BY <3>1 DEF Phase, Idle, Starting, Going, Deciding, Over, NoChains
    <3>2. ASSUME rule = "running", state = "DONE" PROVE FALSE
      BY <3>2 DEF Phase, Idle, Starting, Going, Deciding, Over
    <3> QED BY <2>1, <3>1, <3>2 DEF Account, GoodExit
  <2> QED BY <2>2, <2>3 DEF Account
<1> QED BY <1>1, <1>2 DEF RuleStep

LEMMA AccountOfRelease ==
  ASSUME Account, Release, ~isRunning'
  PROVE  Bare' /\ Wanted' /\ Unforgotten'
BY PendingInNone DEF Account, Wanted, Bare, Unforgotten, ToCome, Release, ReleaseRunning

LEMMA AccountOfReset ==
  ASSUME Account, Reset
  PROVE  Account'
<1>1. Provided' /\ GoodExit'
  BY DEF Reset, Provided, GoodExit
<1>2. CASE isRunning
  BY <1>1, <1>2, AccountOfRelease DEF Account, Reset
<1>3. CASE ~isRunning
  <2>1. Bare' /\ Wanted' /\ Unforgotten'
    BY <1>3 DEF Account, Bare, Wanted, Unforgotten, ToCome, Reset, process, commands
  <2> QED BY <1>1, <2>1 DEF Account
<1> QED BY <1>2, <1>3

LEMMA AccountOfReturned ==
  ASSUME Account, Returned
  PROVE  Account'
<1>1. Bare' /\ Wanted' /\ Unforgotten'
  BY AccountOfRelease DEF Returned
<1>2. Provided' /\ GoodExit'
  BY DEF Account, Returned, Release, ReleaseRunning, Provided, GoodExit
<1> QED BY <1>1, <1>2 DEF Account

LEMMA AccountOfStart ==
  ASSUME Phase, Account, Start
  PROVE  Account'
<1>1. reader = "none" /\ exit = "none"
  BY DEF Start, Phase, Idle, Starting, Going, Deciding, Over, NoChains, Verdicts
<1>2. /\ ~learned /\ state' = "RUNNING"
      /\ UNCHANGED <<process, chains, commands, results>>
  BY DEF Account, Provided, Start
<1> QED BY <1>1, <1>2 DEF Account, Bare, Wanted, Unforgotten, Provided, GoodExit, ToCome, process,
        chains, commands, results

LEMMA AccountOfStartCallback ==
  ASSUME Phase, Account, StartCallback
  PROVE  Account'
<1>1. Starting
  BY Taken DEF Phase, Idle, Starting, Going, Deciding, Over, StartCallback
<1>2. /\ rule = "none" /\ ~learned /\ open = {} /\ pipe = <<>> /\ lines = <<>>
      /\ provisions = {} /\ exit = "none" /\ reader = "none" /\ state = "RUNNING"
  BY <1>1 DEF Account, Bare, Provided, Starting, NoChains
<1>3. /\ UNCHANGED <<pipe, lines, provisions, state, isRunning, provided, learned>>
      /\ code' = 0 /\ asked' = {} /\ dangling' = {}
      /\ rule' = "none" => open' = open
      /\ reader' # "queued"
  BY <1>2 DEF StartCallback, results, chains
<1> QED BY <1>2, <1>3, PendingInNone DEF Account, Bare, Wanted, Unforgotten, Provided, GoodExit, ToCome

LEMMA AccountOfOthers ==
  ASSUME Phase, Account, Event \/ ExitCallback \/ LogCallback \/ NoMoreEvents
  PROVE  Account'
<1>1. UNCHANGED <<rule, code, open, pipe, asked, lines, provisions, dangling, provided, learned,
                  isRunning>>
  BY DEF Event, ExitCallback, LogCallback, NoMoreEvents, process, commands, results
<1>2. CASE Event
  <2>1. /\ state' = state
        /\ exit' = "told" => exit = "told"
        /\ reader' = reader
           \/ (reader = "waiting" /\ reader' = "queued" /\ (pipe # <<>> \/ "stdout" \notin open))
    BY <1>2 DEF Event
  <2>2. reader = "waiting" /\ isRunning => ~learned
    BY DEF Account, Provided
  <2> QED BY <1>1, <2>1, <2>2 DEF Account, Bare, Wanted, Unforgotten, Provided, GoodExit, ToCome
<1>3. CASE ExitCallback
  <2>1. state = "RUNNING"
    BY <1>3, HeadWhileGoing DEF ExitCallback, Going
  <2>2. reader' = reader /\ state' \in {"RUNNING", "FAILED"} /\ (state' = "RUNNING" => code = 0)
    BY <1>3, <2>1 DEF ExitCallback, Failing
  <2> QED BY <1>1, <2>1, <2>2 DEF Account, Bare, Wanted, Unforgotten, Provided, GoodExit, ToCome
<1>4. CASE LogCallback
  <2>1. UNCHANGED <<reader, exit, state>>
    BY <1>4 DEF LogCallback
  <2> QED BY <1>1, <2>1 DEF Account, Bare, Wanted, Unforgotten, Provided, GoodExit, ToCome
<1>5. CASE NoMoreEvents
  <2>1. UNCHANGED <<reader, exit>> /\ (state' = state \/ (state = "RUNNING" /\ state' = "DONE"))
    BY <1>5 DEF NoMoreEvents, chains
  <2>2. ASSUME state = "RUNNING", state' = "DONE", learned PROVE code = 0
    <3>1. isRunning /\ eventCount = 0
      BY <1>5, <2>2 DEF NoMoreEvents, NothingSince
    <3>2. reader = "ended"
      BY <2>2, <3>1 DEF Account, Provided
    <3>3. Over
      BY <1>5, <2>2, <3>1, Taken DEF NoMoreEvents, Phase, Idle, Starting, Going, Deciding
    <3>4. exit = "told"
      BY <3>2, <3>3 DEF Over, AllOver, NoChains
    <3> QED BY <2>2, <3>1, <3>4 DEF Account, GoodExit
  <2> QED BY <1>1, <2>1, <2>2 DEF Account, Bare, Wanted, Unforgotten, Provided, GoodExit, ToCome
<1> QED BY <1>2, <1>3, <1>4, <1>5

\* A line of what has been read: a provide is kept, and a known file that is kept
\* stays in one place or the other.
LEMMA AccountOfLine ==
  ASSUME DataOK, Account, isRunning, state = "RUNNING", reader = "queued",
         NEW c \in Commands, Consume(c),
         \A f : ToCome(f) <=> (c.do = "provide" /\ c.file = f) \/ ToCome(f)',
         state' = Verdict(c),
         reader' = "queued" => lines' # <<>>,
         UNCHANGED <<rule, code, open, asked, exit, provided, learned, isRunning>>,
         reader' \in {"waiting", "queued", "broken"}, rule # "none"
  PROVE  Account'
<1>1. ~learned
  BY DEF Account, Provided
<1>2. /\ provisions \cup dangling \subseteq provisions' \cup dangling'
      /\ provisions' \cup dangling' \subseteq
           provisions \cup dangling \cup {f \in {c.file} : c.do = "provide"}
  BY DEF Consume, AddNothing, Know
<1>3. c.do = "provide" => c.file \in asked
  BY CommandFiles DEF Account, Wanted
<1>4. Wanted'
  BY <1>2, <1>3 DEF Account, Wanted
<1>5. c.do = "provide" /\ state' = "RUNNING" => c.file \in provisions'
  <2> SUFFICES ASSUME c.do = "provide", state' = "RUNNING" PROVE c.file \in provisions'
    OBVIOUS
  <2>1. c.file \in known
    BY DEF Verdict
  <2>2. c \notin Questions
    BY DEF Questions
  <2>3. c \notin cache
    BY <2>2 DEF DataOK
  <2> QED BY <2>1, <2>2, <2>3 DEF Consume, InCache
<1>6. Unforgotten'
  BY <1>2, <1>5 DEF Account, Unforgotten
<1>7. Bare' /\ Provided'
  BY <1>1 DEF Account, Bare, Provided, Verdict
<1>8. GoodExit'
  BY <1>1 DEF Account, GoodExit
<1> QED BY <1>4, <1>6, <1>7, <1>8 DEF Account

\* eof(): nothing is to come, and the files that are kept are provided.
LEMMA AccountOfEof ==
  ASSUME Account, isRunning, state = "RUNNING", reader = "queued", lines = <<>>, pipe = <<>>,
         Eof, learned' = TRUE, reader' = "ended",
         UNCHANGED <<rule, code, open, asked, exit, isRunning, state, pipe, lines, provisions, dangling>>
  PROVE  Account'
<1>1. "stdout" \notin open /\ \A f \in asked : f \in provisions \cup dangling
  BY PendingInNone DEF Account, Unforgotten, ToCome
<1>2. provided = {}
  BY DEF Account, Provided
<1>3. provided' \subseteq asked /\ asked \ dangling \subseteq provided'
  BY <1>1, <1>2 DEF Account, Wanted, Eof
<1>4. Provided' /\ Unforgotten'
  BY <1>1, <1>3 DEF Provided, Unforgotten
<1> QED BY <1>4 DEF Account, Bare, Wanted, GoodExit, ToCome

LEMMA AccountOfLineCallback ==
  ASSUME DataOK, Phase, Account, LineCallback
  PROVE  Account'
<1>1. isRunning /\ state = "RUNNING" /\ reader = "queued" /\ rule # "none"
  BY HeadWhileGoing DEF LineCallback, Going
<1>2. UNCHANGED <<rule, code, open, asked, exit, isRunning>>
  BY DEF LineCallback
<1>3. CASE lines = <<>> /\ pipe = <<>> /\ Eof /\ learned' = TRUE /\ reader' = "ended"
             /\ UNCHANGED <<pipe, commands, state>>
  BY <1>1, <1>2, <1>3, AccountOfEof DEF commands
<1>4. ASSUME lines # <<>> \/ pipe # <<>>,
             NEW n \in IF lines # <<>> THEN {0} ELSE 1 .. Len(pipe), NEW throws,
             pipe' = SubSeq(pipe, n + 1, Len(pipe)),
             lines' = Tail(lines \o SubSeq(pipe, 1, n)),
             Consume(Head(lines \o SubSeq(pipe, 1, n))),
             state' = IF state = "RUNNING" THEN Verdict(Head(lines \o SubSeq(pipe, 1, n))) ELSE state,
             reader' = IF throws THEN "broken" ELSE IF lines' # <<>> THEN "queued" ELSE "waiting",
             UNCHANGED results
      PROVE  Account'
  <2> DEFINE read == SubSeq(pipe, 1, n)
             all == lines \o read
             c == Head(all)
  <2>1. pipe \in Seq(Commands) /\ lines \in Seq(Commands) /\ Len(pipe) \in Nat /\ n \in 0 .. Len(pipe)
    BY <1>4 DEF DataOK
  <2>2. read \in Seq(Commands) /\ Len(read) = n
    BY <2>1, SubSeqProperties
  <2> HIDE DEF read
  <2>3. all \in Seq(Commands) /\ Len(all) = Len(lines) + n
    BY <2>1, <2>2, ConcatProperties
  <2>4. Len(lines) \in Nat /\ (lines # <<>> => Len(lines) > 0) /\ (lines = <<>> => n > 0)
    BY <1>4, <2>1, EmptySeq, LenProperties
  <2>5. all # <<>>
    BY <2>1, <2>3, <2>4
  <2>6. \A f : ToCome(f) <=> Pending(f, lines) \/ Pending(f, read) \/ Pending(f, pipe')
    BY <1>4, <2>1, PendingCut DEF ToCome, read
  <2>7. \A f : Pending(f, all) <=> Pending(f, lines) \/ Pending(f, read)
    BY <2>1, <2>2, PendingJoined
  <2> HIDE DEF all
  <2>8. c \in Commands
    BY <2>3, <2>5, HeadTailProperties
  <2>9. \A f : Pending(f, all) <=> (c.do = "provide" /\ c.file = f) \/ Pending(f, Tail(all))
    BY <2>3, <2>5, PendingHead
  <2>10. lines' = Tail(all) /\ Consume(c) /\ state' = Verdict(c)
    BY <1>1, <1>4 DEF all, read
  <2> HIDE DEF c
  <2>11. \A f : ToCome(f) <=> (c.do = "provide" /\ c.file = f) \/ ToCome(f)'
    BY <2>6, <2>7, <2>9, <2>10 DEF ToCome
  <2>12. /\ reader' = "queued" => lines' # <<>>
         /\ reader' \in {"waiting", "queued", "broken"} /\ UNCHANGED <<provided, learned>>
    BY <1>4 DEF results
  <2> QED BY <1>1, <1>2, <2>8, <2>10, <2>11, <2>12, AccountOfLine
<1>5. CASE (lines # <<>> \/ pipe # <<>>) /\ UNCHANGED results
  <2>1. \E n \in IF lines # <<>> THEN {0} ELSE 1 .. Len(pipe) : \E throws \in BOOLEAN :
          /\ pipe' = SubSeq(pipe, n + 1, Len(pipe))
          /\ lines' = Tail(lines \o SubSeq(pipe, 1, n))
          /\ Consume(Head(lines \o SubSeq(pipe, 1, n)))
          /\ state' = IF state = "RUNNING" THEN Verdict(Head(lines \o SubSeq(pipe, 1, n))) ELSE state
          /\ reader' = IF throws THEN "broken" ELSE IF lines' # <<>> THEN "queued" ELSE "waiting"
    BY <1>5 DEF LineCallback
  <2> QED BY <1>4, <1>5, <2>1
<1> QED BY <1>3, <1>5 DEF LineCallback

LEMMA AccountOfJoinedCallback ==
  ASSUME Phase, Account, JoinedCallback
  PROVE  Account'
<1>1. AllOver
  BY HeadWhileGoing DEF JoinedCallback
<1> QED BY <1>1, PendingInNone DEF Account, Bare, Wanted, Unforgotten, Provided, GoodExit, ToCome,
        JoinedCallback, chains, results, AllOver

\* An action that is done, and whose reader came to the end of the output, has ended
\* well and has provided what its rule asked for, and nothing else.
THEOREM ProvidedWhatWasAsked == Spec => []DoneAsAsked
<1>1. Init => Account
  BY PendingInNone DEF Init, Account, Bare, Wanted, Unforgotten, Provided, GoodExit, ToCome
<1>2. IInv /\ Account /\ [Next]_vars => Account'
  <2> SUFFICES ASSUME DataOK, Phase, Account, [Next]_vars PROVE Account'
    BY DEF IInv
  <2>1. CASE UNCHANGED vars
    BY <2>1 DEF Account, Bare, Wanted, Unforgotten, Provided, GoodExit, ToCome, vars, process, chains,
                commands, results
  <2>2. CASE Next
    BY <2>2, AccountOfRuleStep, AccountOfReset, AccountOfReturned, AccountOfStart,
       AccountOfStartCallback, AccountOfOthers, AccountOfLineCallback, AccountOfJoinedCallback
       DEF Next, Ekam
  <2> QED BY <2>1, <2>2
<1>3. Account => DoneAsAsked
  BY DEF Account, GoodExit, Provided, DoneAsAsked
<1> QED BY <1>1, <1>2, <1>3, Invariant, PTL DEF Spec
=============================================================================
