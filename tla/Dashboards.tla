----------------------------- MODULE Dashboards -----------------------------
(***************************************************************************)
(* What is seen of a build: the driver tells a MuxDashboard of its tasks   *)
(* (ekam/MuxDashboard.cpp); it passes that on to Ekam's own console, and   *)
(* to a ProtoDashboard for each client that has connected                  *)
(* (ekam/ProtoDashboard.cpp), which writes messages to a socket; a client  *)
(* (ekam/ekam-client.cpp) reads them and makes a console of them.  Clients *)
(* come at any moment of a build, stop reading, and go.                    *)
(*                                                                         *)
(* The sockets that accept() returns block.  While Ekam writes to one it   *)
(* does nothing else, so what it still has to write stands in `todo`, and  *)
(* what its loops over tasks have still to do in `attaching` and `dumping`.*)
(***************************************************************************)
EXTENDS ConsoleDashboard, TLC

CONSTANTS
    Clients,        \* programs that may connect
    None,           \* no client
    OutputLimit,    \* OUTPUT_BUFER_LIMIT, in lines
    PipeCapacity,   \* messages the kernel holds of a connection
    RowChoices,     \* heights a terminal may have
    MaxOps,         \* bound: calls of the driver
    MaxJoins,       \* bound: connections made
    MaxDebug        \* bound: debug messages

ASSUME DashboardsAssumption ==
    /\ None \notin Clients \cup Tasks
    /\ RowChoices \subseteq Nat
    /\ {OutputLimit, PipeCapacity} \subseteq Nat \ {0}
    /\ {MaxOps, MaxJoins, MaxDebug} \subseteq Nat

VARIABLES
    action,     \* action[t]: the state of the driver's action behind a task
    full,       \* full[t]: all that the last run of it has logged
    mux,        \* mux[t]: state and outputText of MuxDashboard::TaskImpl
    base,       \* Ekam's own console
    phase,      \* phase[c]: "away", "backlog" of the server socket, "open"
    stream,     \* stream[c]: WriteBuffer::stream is not NULL
    registered, \* registered[c]: disconnectFulfiller is not NULL
    fired,      \* fired[c]: and its callback is queued
    joining,    \* the client whose ConnectedProtoDashboard is being constructed
    attaching,  \* and the tasks that have yet to be attached to it
    dumping,    \* the failures that dumpErrors() has yet to report
    todo,       \* todo[c]: messages that a handler on the stack has yet to write
    acceptOp,   \* doAccept(): "waiting", or "broken" by an error
    pipe,       \* pipe[c]: messages in the socket
    gone,       \* gone[c]: the client has closed its end
    view,       \* view[c]: the client's console
    rows,       \* of the terminals
    ops, joins, debugs  \* counters for the bounds

driverVars == <<action, full, mux, base, dumping, ops>>
joinVars == <<joining, attaching>>
connVars == <<phase, stream, registered, fired, joinVars, acceptOp>>
clientVars == <<gone, view, joins>>
vars == <<driverVars, connVars, clientVars, todo, pipe, rows, debugs>>

\* A line is told apart from those of other runs by the step that logs it.
Line == ToString(ops)
Cut == "...(log truncated)..."
Lines == {ToString(n) : n \in 0 .. MaxOps} \cup {Cut}

----------------------------------------------------------------------------
(* Messages.  A task's id on a connection is never used again; here it is  *)
(* the task's name, which is used again only after its DELETED message.    *)
Message(t, st, log) == [id |-> t, state |-> st, log |-> log]
Header == Message(None, "UNCHANGED", <<>>)

\* What a client makes of a message, the loop of ekam-client, on a terminal of a
\* height, and what it makes of several.
Shown(c, m, height) ==
    IF m.id = None THEN c
    ELSE IF m.state = "DELETED" THEN EndConsoleTask(c, m.id, height)
    ELSE IF c.st[m.id] = "none" THEN BeginConsoleTask(c, m.id)
    ELSE LET logged == AddOutput(c, m.id, m.log)
         IN IF m.state = "UNCHANGED" THEN logged
            ELSE SetState(logged, m.id, m.state, height)

ShownAll(c, messages, height) ==
    LET after[n \in 0 .. Len(messages)] ==
            IF n = 0 THEN c ELSE Shown(after[n - 1], messages[n], height)
    IN  after[Len(messages)]

Open == {c \in Clients : phase[c] = "open"}

\* The mux passes a message to the connections, in any order.
Broadcast(m) == todo' = [c \in Clients |-> IF c \in Open THEN Append(todo[c], m) ELSE todo[c]]

\* The event loop runs one handler at a time.
Written == \A c \in Clients : todo[c] = <<>>
Idle == Written /\ joining = None /\ dumping = {}

----------------------------------------------------------------------------
(* The driver.  Each step is a handler of it, see Driver; here only what   *)
(* the dashboard sees of it.                                               *)

MuxSetState(m, st) ==
    [st |-> st, out |-> IF st \in {"PENDING", "RUNNING"} THEN <<>> ELSE m.out]

MuxAddOutput(m, line) ==
    IF Len(m.out) >= OutputLimit THEN m
    ELSE [st |-> m.st,
          out |-> IF Len(m.out) + 1 < OutputLimit THEN Append(m.out, line)
                  ELSE Append(Append(m.out, line), Cut)]

HandlerStep ==
    /\ Idle
    /\ ops < MaxOps
    /\ ops' = ops + 1
    /\ UNCHANGED <<connVars, clientVars, pipe, rows, debugs>>

TaskStep == HandlerStep /\ UNCHANGED dumping

SetTaskState(t, st) ==
    /\ mux' = [mux EXCEPT ![t] = MuxSetState(@, st)]
    /\ base' = SetState(base, t, st, rows)
    /\ Broadcast(Message(t, st, <<>>))

Begin(t) ==
    /\ TaskStep
    /\ action[t] = "none"
    /\ action' = [action EXCEPT ![t] = "pending"]
    /\ full' = [full EXCEPT ![t] = <<>>]
    /\ mux' = [mux EXCEPT ![t] = [st |-> "PENDING", out |-> <<>>]]
    /\ base' = BeginConsoleTask(base, t)
    /\ Broadcast(Message(t, "PENDING", <<>>))

Start(t) ==
    /\ TaskStep
    /\ action[t] = "pending"
    /\ action' = [action EXCEPT ![t] = "running"]
    /\ full' = [full EXCEPT ![t] = <<>>]
    /\ SetTaskState(t, "RUNNING")

Log(t) ==
    /\ TaskStep
    /\ action[t] = "running"
    /\ full' = [full EXCEPT ![t] = Append(@, Line)]
    /\ mux' = [mux EXCEPT ![t] = MuxAddOutput(@, Line)]
    /\ base' = AddOutput(base, t, <<Line>>)
    /\ Broadcast(Message(t, "UNCHANGED", <<Line>>))
    /\ UNCHANGED action

Returned(t, outcome) ==
    /\ TaskStep
    /\ action[t] = "running"
    /\ action' = [action EXCEPT ![t] = outcome]
    /\ SetTaskState(t, IF outcome = "failed" THEN "BLOCKED" ELSE "DONE")
    /\ UNCHANGED full

\* An action that has completed is reset without a word to the dashboard.
Reset(t) ==
    /\ TaskStep
    /\ action[t] \notin {"none", "pending"}
    /\ action' = [action EXCEPT ![t] = "pending"]
    /\ IF action[t] = "running" THEN SetTaskState(t, "BLOCKED")
                                ELSE UNCHANGED <<mux, base, todo>>
    /\ UNCHANGED full

Failed == {t \in Tasks : action[t] = "failed"}

\* At the end of a build: the failures, one after the other.
DumpErrors ==
    /\ HandlerStep
    /\ \A t \in Tasks : action[t] \notin {"pending", "running"}
    /\ Failed # {}
    /\ dumping' = Failed
    /\ UNCHANGED <<action, full, mux, base, todo>>

ReportFailure(t) ==
    /\ Written
    /\ t \in dumping
    /\ dumping' = dumping \ {t}
    /\ SetTaskState(t, "FAILED")
    /\ UNCHANGED <<action, full, ops, connVars, clientVars, pipe, rows, debugs>>

\* An action is deleted after it was reset.
End(t) ==
    /\ TaskStep
    /\ action[t] = "pending"
    /\ action' = [action EXCEPT ![t] = "none"]
    /\ full' = [full EXCEPT ![t] = <<>>]
    /\ mux' = [mux EXCEPT ![t] = [st |-> "none", out |-> <<>>]]
    /\ base' = EndConsoleTask(base, t, rows)
    /\ Broadcast(Message(t, "DELETED", <<>>))

Debug ==
    /\ debugs < MaxDebug
    /\ debugs' = debugs + 1
    /\ base' = [base EXCEPT !.debugged = TRUE]
    /\ UNCHANGED <<action, full, mux, dumping, ops, connVars, clientVars, todo, pipe, rows>>

----------------------------------------------------------------------------
(* Connections.                                                            *)

\* Mutant: what the task has printed so far is not passed on.
AttachWithoutOutput(t) ==
    <<Message(t, "PENDING", <<>>)>>
    \o (IF mux[t].st # "PENDING" THEN <<Message(t, mux[t].st, <<>>)>> ELSE <<>>)

\* MuxDashboard::TaskImpl::attach()
Attach(t) ==
    <<Message(t, "PENDING", <<>>)>>
    \o (IF mux[t].out # <<>> THEN <<Message(t, "UNCHANGED", mux[t].out)>> ELSE <<>>)
    \o (IF mux[t].st # "PENDING" THEN <<Message(t, mux[t].st, <<>>)>> ELSE <<>>)

\* ServerSocket::accept() and the constructors it leads to: the header is
\* written first.
Accept(c) ==
    /\ Idle
    /\ acceptOp = "waiting"
    /\ phase[c] = "backlog"
    /\ phase' = [phase EXCEPT ![c] = "open"]
    /\ stream' = [stream EXCEPT ![c] = TRUE]
    /\ joining' = c
    /\ attaching' = {t \in Tasks : mux[t].st # "none"}
    /\ todo' = [todo EXCEPT ![c] = <<Header>>]
    /\ UNCHANGED <<driverVars, clientVars, registered, fired, acceptOp, pipe, rows, debugs>>

\* MuxDashboard::Connector: the tasks are attached in any order.
AttachNext(t) ==
    /\ Written
    /\ t \in attaching
    /\ attaching' = attaching \ {t}
    /\ todo' = [todo EXCEPT ![joining] = Attach(t)]
    /\ UNCHANGED <<driverVars, clientVars, phase, stream, registered, fired, joining,
                   acceptOp, pipe, rows, debugs>>

\* Any other error of accept() breaks acceptOp, and nobody looks at it.
AcceptFails ==
    /\ Idle
    /\ acceptOp = "waiting"
    /\ \E c \in Clients : phase[c] = "backlog"
    /\ acceptOp' = "broken"
    /\ UNCHANGED <<driverVars, clientVars, phase, stream, registered, fired, joinVars,
                   todo, pipe, rows, debugs>>

\* The constructor ends: onDisconnect().
Join ==
    /\ Written
    /\ joining # None
    /\ attaching = {}
    /\ registered' = [registered EXCEPT ![joining] = TRUE]
    /\ joining' = None
    /\ UNCHANGED <<driverVars, clientVars, phase, stream, fired, attaching, acceptOp,
                   todo, pipe, rows, debugs>>

WriteNext(c) ==
    /\ todo[c] # <<>>
    /\ todo' = [todo EXCEPT ![c] = Tail(@)]
    /\ UNCHANGED <<driverVars, clientVars, phase, registered, joinVars, acceptOp, rows, debugs>>

\* WriteBuffer::write() with no stream.
Drop(c) == WriteNext(c) /\ ~stream[c] /\ UNCHANGED <<stream, fired, pipe>>

\* WriteBuffer::ready(): write() waits until the kernel has room.
Write(c) ==
    /\ WriteNext(c)
    /\ stream[c]
    /\ gone[c] \/ Len(pipe[c]) < PipeCapacity
    /\ pipe' = IF gone[c] THEN pipe ELSE [pipe EXCEPT ![c] = Append(@, Head(todo[c]))]
    /\ UNCHANGED <<stream, fired>>

\* EPIPE or ECONNRESET; SIGPIPE is ignored.
WriteFails(c) ==
    /\ WriteNext(c)
    /\ stream[c]
    /\ gone[c]
    /\ stream' = [stream EXCEPT ![c] = FALSE]
    /\ fired' = [fired EXCEPT ![c] = registered[c]]
    /\ UNCHANGED pipe

\* Mutant: the connector is cleared, and the client not erased.
DisconnectedOnly(c) ==
    /\ Idle
    /\ fired[c]
    /\ registered[c]
    /\ registered' = [registered EXCEPT ![c] = FALSE]
    /\ UNCHANGED <<driverVars, clientVars, phase, stream, fired, joinVars, acceptOp,
                   todo, pipe, rows, debugs>>

\* The callback: the connector detaches every task, whose DELETED messages
\* find no stream, and the ConnectedProtoDashboard is erased.
Disconnected(c) ==
    /\ Idle
    /\ fired[c]
    /\ phase' = [phase EXCEPT ![c] = "away"]
    /\ registered' = [registered EXCEPT ![c] = FALSE]
    /\ fired' = [fired EXCEPT ![c] = FALSE]
    /\ UNCHANGED <<driverVars, clientVars, stream, joinVars, acceptOp, todo, pipe, rows, debugs>>

----------------------------------------------------------------------------
(* Clients.                                                                *)

Connect(c) ==
    /\ phase[c] = "away"
    /\ joins < MaxJoins
    /\ joins' = joins + 1
    /\ phase' = [phase EXCEPT ![c] = "backlog"]
    /\ gone' = [gone EXCEPT ![c] = FALSE]
    /\ UNCHANGED <<driverVars, stream, registered, fired, joinVars, acceptOp, view,
                   todo, pipe, rows, debugs>>

Read(c) ==
    /\ ~gone[c]
    /\ pipe[c] # <<>>
    /\ pipe' = [pipe EXCEPT ![c] = Tail(@)]
    /\ view' = [view EXCEPT ![c] = Shown(@, Head(pipe[c]), rows)]
    /\ UNCHANGED <<driverVars, connVars, gone, joins, todo, rows, debugs>>

Leave(c) ==
    /\ phase[c] \in {"backlog", "open"}
    /\ ~gone[c]
    /\ gone' = [gone EXCEPT ![c] = TRUE]
    /\ pipe' = [pipe EXCEPT ![c] = <<>>]
    /\ view' = [view EXCEPT ![c] = NewConsole]
    /\ UNCHANGED <<driverVars, connVars, joins, todo, rows, debugs>>

----------------------------------------------------------------------------
Init ==
    /\ action = [t \in Tasks |-> "none"]
    /\ full = [t \in Tasks |-> <<>>]
    /\ mux = [t \in Tasks |-> [st |-> "none", out |-> <<>>]]
    /\ base = NewConsole
    /\ phase = [c \in Clients |-> "away"]
    /\ stream = [c \in Clients |-> FALSE]
    /\ registered = stream
    /\ fired = stream
    /\ joining = None
    /\ attaching = {}
    /\ dumping = {}
    /\ todo = [c \in Clients |-> <<>>]
    /\ acceptOp = "waiting"
    /\ pipe = [c \in Clients |-> <<>>]
    /\ gone = stream
    /\ view = [c \in Clients |-> NewConsole]
    /\ rows \in RowChoices
    /\ ops = 0 /\ joins = 0 /\ debugs = 0

DriverStep ==
    \/ \E t \in Tasks : Begin(t) \/ Start(t) \/ Log(t) \/ Reset(t) \/ End(t)
    \/ \E t \in Tasks, outcome \in {"ok", "failed"} : Returned(t, outcome)
    \/ DumpErrors
    \/ Debug

WriteStep(c) == Drop(c) \/ Write(c) \/ WriteFails(c)

\* A handler's next turn of a loop over tasks.
LoopStep == \E t \in Tasks : AttachNext(t) \/ ReportFailure(t)

Next ==
    \/ DriverStep
    \/ LoopStep
    \/ Join
    \/ AcceptFails
    \/ \E c \in Clients : WriteStep(c) \/ Accept(c) \/ Disconnected(c)
    \/ \E c \in Clients : Connect(c) \/ Read(c) \/ Leave(c)

\* Ekam runs what it can run, and clients read what they are sent.
Fairness ==
    /\ WF_vars(LoopStep)
    /\ WF_vars(Join)
    /\ \A c \in Clients : WF_vars(WriteStep(c)) /\ WF_vars(Accept(c)) /\ WF_vars(Disconnected(c)) /\ WF_vars(Read(c))

Spec == Init /\ [][Next]_vars /\ Fairness

----------------------------------------------------------------------------
(* Properties.                                                             *)

Messages ==
    [id : Tasks \cup {None}, state : TaskStates \cup {"UNCHANGED", "DELETED"}, log : Seq(Lines)]

(* Every variable has its type, the output the mux keeps its limit, the    *)
(* kernel its capacity; what is to be written is for open connections.     *)
TypeOK ==
    /\ action \in [Tasks -> {"none", "pending", "running", "ok", "failed"}]
    /\ full \in [Tasks -> Seq(Lines)]
    /\ mux \in [Tasks -> [st : TaskStates \cup {"none"}, out : Seq(Lines)]]
    /\ \A t \in Tasks : Len(mux[t].out) <= OutputLimit + 1
    /\ phase \in [Clients -> {"away", "backlog", "open"}]
    /\ \A f \in {stream, registered, fired, gone} : f \in [Clients -> BOOLEAN]
    /\ joining \in Clients \cup {None} /\ attaching \subseteq Tasks /\ dumping \subseteq Tasks
    /\ todo \in [Clients -> Seq(Messages)]
    /\ \A c \in Clients : todo[c] # <<>> => c \in Open
    /\ pipe \in [Clients -> Seq(Messages)]
    /\ \A c \in Clients : Len(pipe[c]) <= PipeCapacity
    /\ base \in Console(Lines) /\ view \in [Clients -> Console(Lines)]
    /\ acceptOp \in {"waiting", "broken"} /\ rows \in RowChoices /\ ops \in 0 .. MaxOps

\* What c will show when it has read all that is on its way to it.
Eventually(c) == ShownAll(view[c], pipe[c] \o todo[c], rows)

\* text is all of whole, or says where something is missing.
AllOrMarked(text, whole) ==
    \/ text = whole
    \/ \E i \in DOMAIN text :
          LET before == i - 1
              after == Len(text) - i
          IN /\ text[i] = Cut
             /\ before + after <= Len(whole)
             /\ \A j \in 1 .. before : text[j] = whole[j]
             /\ \A j \in 1 .. after : text[i + j] = whole[Len(whole) - after + j]

Connected == {c \in Open : stream[c] /\ ~gone[c]}

\* The tasks that it has been told of, or will be by what is on its way.
Told(c) == IF c = joining THEN Tasks \ attaching ELSE Tasks

(***************************************************************************)
(* However late it has come (Connector's constructor), a client shows the  *)
(* tasks that there are, in the state that they are in, with all that the  *)
(* last run of each has logged and nothing of the runs before it; what the *)
(* mux has cut off is marked as missing.                                   *)
(***************************************************************************)
ClientsAgree ==
    \A c \in Connected :
        LET then == Eventually(c)
        IN \A t \in Tasks :
               IF t \in Told(c)
               THEN /\ then.st[t] = mux[t].st
                    /\ AllOrMarked(then.shown[t] \o then.out[t], full[t])
               ELSE then.st[t] = "none"

\* What the last run of a task has logged was printed, or will be at its end.
LogsAreWhole ==
    \A t \in Tasks : /\ base.shown[t] \o base.out[t] = full[t]
                     /\ base.st[t] \in Final => base.out[t] = <<>>

\* A console lists the tasks that run and are not silent, each once.
RunningAreListed ==
    \A c \in {base} \cup {view[x] : x \in Clients} :
        /\ {c.running[i] : i \in DOMAIN c.running} = {t \in Tasks \ Silent : c.st[t] = "RUNNING"}
        /\ \A i, j \in DOMAIN c.running : c.running[i] = c.running[j] => i = j

\* With four rows or less "...(more)..." is not counted, and it stays.
ScreenIsKept ==
    \A c \in {base} \cup {view[x] : x \in Clients} : ~c.eaten /\ (rows > 4 => ~c.left)

(***************************************************************************)
(* Whatever the tasks and the clients do, Ekam's own console has printed   *)
(* exactly what the last run of a task has logged when it shows the task   *)
(* as done or failed, neither less, nor twice, nor that of another run;    *)
(* no task that was blocked, ended or deleted stays in the runningTasks of *)
(* any console, which holds plain pointers; and moving up over the list    *)
(* (clearRunning()) never reaches a line of the log, nor leaves one of an  *)
(* old list on a terminal with room for one.                               *)
(***************************************************************************)
ConsolesAreRight == TypeOK /\ LogsAreWhole /\ RunningAreListed /\ ScreenIsKept

DeadAreNoticed ==
    [][\A c \in Clients : stream[c] /\ ~stream'[c] /\ joining # c => fired'[c]]_vars

DeadAreDetached == \A c \in Clients : fired[c] ~> phase[c] # "open"

WaitingAreAccepted ==
    \A c \in Clients : phase[c] = "backlog" ~> phase[c] = "open" \/ acceptOp = "broken"

(***************************************************************************)
(* A connection that breaks goes, with all it holds: it is only kept if it *)
(* died while its dashboard was being constructed, before onDisconnect()   *)
(* was called; any other has a callback queued that detaches it.  And a    *)
(* client that waits is accepted as long as accept() works: the death of   *)
(* one before it, at any moment, leaves doAccept() listening.              *)
(***************************************************************************)
ClientsComeAndGo == DeadAreNoticed /\ DeadAreDetached /\ WaitingAreAccepted

=============================================================================
