----------------------------- MODULE EventLoop ------------------------------
(***************************************************************************)
(* The event loop (os/EpollEventManager.cpp): callbacks that promises      *)
(* queued, first, then one event of an epoll set, whose IoWatchers fulfill *)
(* promises.  A program builds its first promises, enters the loop, and    *)
(* from then on acts only in callbacks, each of which may start watching,  *)
(* make and drop promises, the one it belongs to among them, and ends by   *)
(* returning a value or another promise, or by throwing.                   *)
(***************************************************************************)
EXTENDS Promise

CONSTANTS
    Fds,            \* file descriptors
    MaxPromises,    \* promises that exist at a time
    MaxParams,      \* ... and that one of them may wait for
    MaxOps          \* bound on what the program does before it is done

Ids == 1 .. MaxPromises
Slots == {"EPOLLIN", "EPOLLOUT"}

ASSUME LoopAssumption ==
    /\ {MaxPromises, MaxParams, MaxOps} \subseteq Nat
    /\ IsFiniteSet(Fds)
    /\ {Null, User, Stack} \cap Ids = {} /\ User # Stack
    /\ Null \notin Fds \X Slots

VARIABLES
    mem,        \* promises, asyncCallbacks
    epoll,      \* of each watch: fulfiller, events, registeredEvents;
                \* watchesNeedingUpdate, watchCount
    frame,      \* the callback on the stack
    phase,      \* "setup", "loop", "done", or "crashed"
    ops

loopVars == <<mem, epoll, frame, phase, ops>>

NoFrame == [fulfiller |-> Null, linked |-> FALSE, params |-> <<>>]

WatchedFds(e) == DOMAIN e.events
Watching(e, fd) == {s \in Slots : e.fulfiller[fd][s] # Null}

-----------------------------------------------------------------------------
(* Epoller::Watch.  Registration is lazy: a set of watches to update.      *)

\* Of the watches that get other events, those are due for an update of whose
\* events the kernel does not know.
SetEvents(e, events) ==
    LET changed == {fd \in WatchedFds(e) : events[fd] # e.events[fd]}
        unknown == {fd \in WatchedFds(e) : events[fd] # e.registeredEvents[fd]}
    IN [e EXCEPT !.events = events,
                 !.watchesNeedingUpdate = (@ \ changed) \cup (changed \cap unknown)]

AddEvents(e, fd, s) == SetEvents(e, [e.events EXCEPT ![fd] = @ \cup {s}])

\* Mutant: a watch is counted again when its events change.
UpdateRegistrationCounting(e, fd) ==
    IF e.events[fd] = e.registeredEvents[fd] THEN e
    ELSE [e EXCEPT !.registeredEvents[fd] = e.events[fd],
                   !.watchCount = IF e.events[fd] = {} THEN @ - 1 ELSE @ + 1]

\* epoll_ctl(), with EPOLL_CTL_ADD, MOD or DEL.
UpdateRegistration(e, fd) ==
    IF e.events[fd] = e.registeredEvents[fd] THEN e
    ELSE [e EXCEPT !.registeredEvents[fd] = e.events[fd],
                   !.watchCount = IF e.registeredEvents[fd] = {} THEN @ + 1
                                  ELSE IF e.events[fd] = {} THEN @ - 1 ELSE @]

NewWatch(e, fd) ==
    LET With(f, x) == [g \in DOMAIN f \cup {fd} |-> IF g = fd THEN x ELSE f[g]]
    IN [e EXCEPT !.fulfiller = With(@, [s \in Slots |-> Null]),
                 !.events = With(@, {}), !.registeredEvents = With(@, {})]

DeleteWatch(e, fd) ==
    LET removed == SetEvents(e, [e.events EXCEPT ![fd] = {}])
        updated == IF fd \in removed.watchesNeedingUpdate
                   THEN UpdateRegistration(removed, fd) ELSE removed
        left == WatchedFds(e) \ {fd}
    IN [fulfiller |-> Restrict(updated.fulfiller, left), events |-> Restrict(updated.events, left),
        registeredEvents |-> Restrict(updated.registeredEvents, left),
        watchesNeedingUpdate |-> updated.watchesNeedingUpdate \ {fd},
        watchCount |-> updated.watchCount]

-----------------------------------------------------------------------------
(* IoWatcherImpl and its Fulfillers, each in the slot its ptr points to.   *)

\* Mutant: ~Fulfiller() leaves its events on.
VacateKeepingEvents(e, at) ==
    [e EXCEPT !.fulfiller = [fd \in DOMAIN @ |->
                                [s \in Slots |-> IF <<fd, s>> \in at THEN Null ELSE @[fd][s]]]]

\* Fulfillers leave their slots.
Vacate(e, at) ==
    SetEvents([e EXCEPT !.fulfiller = [fd \in DOMAIN @ |->
                                [s \in Slots |-> IF <<fd, s>> \in at THEN Null ELSE @[fd][s]]]],
              [fd \in WatchedFds(e) |-> {s \in e.events[fd] : <<fd, s>> \notin at}])

\* ready() and abandon() of the Fulfiller of p: it leaves its slot, and fulfills.
Settle(m, p, v) == Fulfill([m EXCEPT !.promises[p].ptr = Null], p, v)

\* Those of some slots of a watch: the reader first.
SettleSlots(m, fd, slots, v) ==
    LET settle(acc, s) == IF s \in slots THEN Settle(acc, epoll.fulfiller[fd][s], v) ELSE acc
    IN settle(settle(m, "EPOLLIN"), "EPOLLOUT")

\* Promises go with all that they own; a Fulfiller that waits leaves its slot.
DestroyTree(m, seeds) ==
    LET gone == Tree(m, seeds)
    IN /\ mem' = Delete(m, gone)
       /\ epoll' = Vacate(epoll, {m.promises[p].ptr : p \in gone} \ {Null})

-----------------------------------------------------------------------------
(* What the program does, before the loop and in callbacks.                *)

Held == {p \in Live(mem) : mem.promises[p].owner = User}

Acts ==
    /\ phase = "setup" \/ frame # NoFrame
    /\ ops < MaxOps
    /\ ops' = ops + 1
    /\ UNCHANGED phase

Makes(p) == p \notin Live(mem) /\ \A q \in Ids : q < p => q \in Live(mem)

WatchFd(fd) ==
    /\ Acts
    /\ fd \notin WatchedFds(epoll)
    /\ epoll' = NewWatch(epoll, fd)
    /\ UNCHANGED <<mem, frame>>

\* ~IoWatcherImpl(): "IoWatcher deleted while waiting for I/O."
DeleteWatcher(fd) ==
    /\ Acts
    /\ fd \in WatchedFds(epoll)
    /\ mem' = SettleSlots(mem, fd, Watching(epoll, fd), "thrown")
    /\ epoll' = DeleteWatch(Vacate(epoll, {fd} \X Watching(epoll, fd)), fd)
    /\ UNCHANGED frame

WaitFor(fd, s, p) ==
    /\ mem' = NewPromise(mem, p, [PlainState EXCEPT !.ptr = <<fd, s>>])
    /\ epoll' = AddEvents([epoll EXCEPT !.fulfiller[fd][s] = p], fd, s)

OnReadable(fd, p) ==
    /\ Acts
    /\ Makes(p)
    /\ fd \in WatchedFds(epoll)
    /\ "EPOLLIN" \notin Watching(epoll, fd)         \* else "Already waiting for readability"
    /\ WaitFor(fd, "EPOLLIN", p)
    /\ UNCHANGED frame

\* onWritable() asks whether somebody waits to read (the README says more);
\* that nobody waits to write already is up to the caller.
OnWritable(fd, p) ==
    /\ Acts
    /\ Makes(p)
    /\ fd \in WatchedFds(epoll)
    /\ Watching(epoll, fd) = {}
    /\ WaitFor(fd, "EPOLLOUT", p)
    /\ UNCHANGED frame

\* newFulfilledPromise() and newPromiseFromCurrentException().
NewSettledPromise(p, v) ==
    /\ Acts
    /\ Makes(p)
    /\ mem' = Fulfill(NewPromise(mem, p, PlainState), p, v)
    /\ UNCHANGED <<epoll, frame>>

CallWhen(q, deps) ==
    /\ Acts
    /\ Makes(q)
    /\ Range(deps) \subseteq Held
    /\ IsInjective(deps)
    /\ mem' = When(mem, q, deps)
    /\ UNCHANGED <<epoll, frame>>

\* A promise that goes while its callback runs cuts the WeakLink.
Drop(p) ==
    /\ Acts
    /\ p \in Held
    /\ DestroyTree(mem, {p})
    /\ frame' = [frame EXCEPT !.linked = @ /\ frame.fulfiller \notin Tree(mem, {p})]

-----------------------------------------------------------------------------
(* The loop.                                                               *)

Enter ==
    /\ phase = "setup"
    /\ phase' = "loop"
    /\ UNCHANGED <<mem, epoll, frame, ops>>

Looping == phase = "loop" /\ frame = NoFrame

First == Head(mem.asyncCallbacks)
Popped == MoveToStack([mem EXCEPT !.asyncCallbacks = Tail(@)], First)

\* handleEvent() calls the first callback of the queue: ready(), or error()
\* with a handler that the program gave.
CallFirst ==
    /\ Looping
    /\ mem.asyncCallbacks # <<>>
    /\ mem' = Popped
    /\ frame' = [fulfiller |-> First, linked |-> TRUE, params |-> mem.promises[First].params]
    /\ UNCHANGED <<epoll, phase, ops>>

\* error() without a handler: the exception of a dependency is passed on.
ForceError ==
    /\ Looping
    /\ mem.asyncCallbacks # <<>>
    /\ mem.promises[First].dependencyFailed
    /\ LET deps == mem.promises[First].params
       IN DestroyTree(Fulfill(Popped, First, ForcedError(mem, deps)), Range(deps))
    /\ UNCHANGED <<frame, phase, ops>>

\* A callback returns: what it was called with goes, and what it did not pass on.
Finish(m, rest) ==
    /\ DestroyTree(m, Range(frame.params) \cup rest)
    /\ frame' = NoFrame
    /\ UNCHANGED ops

ReturnValue ==
    /\ frame # NoFrame
    /\ Finish(IF frame.linked THEN Fulfill(mem, frame.fulfiller, "value") ELSE mem, {})
    /\ UNCHANGED phase

\* The callback returns another promise, which does not wait for its own.
ReturnPromise(r) ==
    /\ frame # NoFrame
    /\ r \in Held
    /\ IF frame.linked
       THEN /\ frame.fulfiller \notin Tree(mem, {r})
            /\ Finish(FulfillWith(mem, frame.fulfiller, r), {})
       ELSE Finish(mem, {r})
    /\ UNCHANGED phase

Throw ==
    /\ frame # NoFrame
    /\ frame.linked
    /\ Finish(Fulfill(mem, frame.fulfiller, "thrown"), {})
    /\ UNCHANGED phase

\* The exception of a callback that dropped its own promise is stored in a
\* Callback that was deleted: it is lost, or the program ends.
ThrowUnlinked ==
    /\ frame # NoFrame
    /\ ~frame.linked
    /\ Finish(mem, {})
    /\ phase' \in {"loop", "crashed"}

\* With no callback queued: the registrations are updated first.
UpdateNext(fd) ==
    /\ Looping
    /\ mem.asyncCallbacks = <<>>
    /\ fd \in epoll.watchesNeedingUpdate
    /\ epoll' = [UpdateRegistration(epoll, fd) EXCEPT !.watchesNeedingUpdate = @ \ {fd}]
    /\ UNCHANGED <<mem, frame, phase, ops>>

Updated == mem.asyncCallbacks = <<>> /\ epoll.watchesNeedingUpdate = {}

\* handle(): an error or a hangup wakes both.
HandleEvent(fd, events) ==
    /\ Looping /\ Updated
    /\ fd \in WatchedFds(epoll)
    /\ epoll.registeredEvents[fd] # {}
    /\ events \subseteq epoll.registeredEvents[fd] \cup {"EPOLLHUP"}
    /\ LET woken == {s \in Watching(epoll, fd) : s \in events \/ "EPOLLHUP" \in events}
       IN /\ mem' = SettleSlots(mem, fd, woken, "value")
          /\ epoll' = Vacate(epoll, {fd} \X woken)
    /\ UNCHANGED <<frame, phase, ops>>

\* loop() returns when nothing is watched.
NoMoreEvents ==
    /\ Looping /\ Updated
    /\ epoll.watchCount = 0
    /\ phase' = "done"
    /\ UNCHANGED <<mem, epoll, frame, ops>>

-----------------------------------------------------------------------------
LoopInit ==
    /\ mem = [promises |-> <<>>, asyncCallbacks |-> <<>>]
    /\ epoll = [fulfiller |-> <<>>, events |-> <<>>, registeredEvents |-> <<>>,
                watchesNeedingUpdate |-> {}, watchCount |-> 0]
    /\ frame = NoFrame
    /\ phase = "setup"
    /\ ops = 0

EventSets == (SUBSET (Slots \cup {"EPOLLHUP"})) \ {{}}
Deps == UNION {[1 .. n -> Ids] : n \in 0 .. MaxParams}

Program ==
    \/ \E fd \in Fds : WatchFd(fd)
    \/ \E fd \in Fds : DeleteWatcher(fd)
    \/ \E fd \in Fds, p \in Ids : OnReadable(fd, p)
    \/ \E fd \in Fds, p \in Ids : OnWritable(fd, p)
    \/ \E p \in Ids, v \in {"value", "thrown"} : NewSettledPromise(p, v)
    \/ \E q \in Ids, deps \in Deps : CallWhen(q, deps)
    \/ \E p \in Ids : Drop(p)

Return == ReturnValue \/ Throw \/ ThrowUnlinked \/ \E r \in Ids : ReturnPromise(r)

Loop ==
    \/ CallFirst
    \/ ForceError
    \/ \E fd \in Fds : UpdateNext(fd)
    \/ \E fd \in Fds, events \in EventSets : HandleEvent(fd, events)
    \/ NoMoreEvents

\* What the program does not decide.
Onward == Enter \/ Return \/ Loop

LoopNext == Program \/ Onward

Stopped == phase \in {"done", "crashed"}

\* A step of Onward can change something.  An event of a file that nobody
\* waits for changes nothing.
CanGoOn ==
    \/ phase = "setup"
    \/ frame # NoFrame
    \/ phase = "loop" /\ \/ mem.asyncCallbacks # <<>>
                         \/ epoll.watchesNeedingUpdate # {}
                         \/ epoll.watchCount = 0
                         \/ \E fd \in WatchedFds(epoll) : epoll.registeredEvents[fd] # {}
                                                         /\ Watching(epoll, fd) # {}

\* Callbacks return, and of the files that are waited for one becomes ready:
\* WF_loopVars(Onward), with CanGoOn for ENABLED <<Onward>>_loopVars.
LoopFairness == []<>~CanGoOn \/ []<><<Onward>>_loopVars

LoopSpec == LoopInit /\ [][LoopNext]_loopVars
LoopFairSpec == LoopSpec /\ LoopFairness

-----------------------------------------------------------------------------
(* Properties.                                                             *)

State ==
    [owner : Ids \cup {User, Stack}, params : Deps, listener : Ids \cup {Null},
     value : Values, fulfilled : BOOLEAN, left : Nat, dependencyFailed : BOOLEAN,
     pending : BOOLEAN, ptr : {Null} \cup (Fds \X Slots)]

LoopTypeOK ==
    /\ Live(mem) \subseteq Ids
    /\ mem.promises \in [Live(mem) -> State]
    /\ mem.asyncCallbacks \in Seq(Ids)
    /\ WatchedFds(epoll) \subseteq Fds
    /\ epoll.fulfiller \in [WatchedFds(epoll) -> [Slots -> Ids \cup {Null}]]
    /\ epoll.events \in [WatchedFds(epoll) -> SUBSET Slots]
    /\ epoll.registeredEvents \in [WatchedFds(epoll) -> SUBSET Slots]
    /\ epoll.watchesNeedingUpdate \subseteq WatchedFds(epoll)
    /\ epoll.watchCount \in Nat
    /\ phase \in {"setup", "loop", "done", "crashed"}
    /\ ops \in 0 .. MaxOps

\* Owner and params agree, and one who waits was told of by each that it waits for.
OwnersAgree ==
    \A p \in Live(mem) :
        /\ \A d \in Params(mem, p) :
               /\ d \in Live(mem)
               /\ mem.promises[d].owner = p
               /\ mem.promises[d].listener = p
        /\ mem.promises[p].owner \in Ids =>
               /\ mem.promises[p].owner \in Live(mem)
               /\ p \in Params(mem, mem.promises[p].owner)
        /\ mem.promises[p].owner = Stack <=> p \in Range(frame.params)
        /\ mem.promises[p].owner = User => mem.promises[p].listener = Null

\* A fulfiller counts the dependencies that are still open, knows whether one
\* failed, and is queued, once, exactly when all are done and it was not called:
\* whichever way a dependency came to be done, before the fulfiller was made or
\* after, by itself or by a promise that took its place, and whatever of the
\* forest was dropped in between (base/Promise.h 643-687, 841-872).
CountsAreRight ==
    /\ LoopTypeOK
    /\ OwnersAgree
    /\ \A p \in Live(mem) :
           LET deps == Params(mem, p)
               Open == {d \in deps : ~mem.promises[d].fulfilled}
           IN /\ mem.promises[p].left = Cardinality(Open)
              /\ deps # {} => mem.promises[p].dependencyFailed =
                                  (\E d \in deps \ Open : Broken(mem.promises[d].value))
              /\ mem.promises[p].pending => Open = {} /\ ~mem.promises[p].fulfilled
              /\ deps # {} /\ Open = {} => mem.promises[p].pending
    /\ IsInjective(mem.asyncCallbacks)
    /\ Range(mem.asyncCallbacks) = {p \in Live(mem) : mem.promises[p].pending}

\* A watch has the events that somebody waits for, is due for an update exactly
\* when epoll knows others, and the loop counts those that epoll knows; whoever
\* came or went, in whatever order (os/EpollEventManager.cpp 129-188, 452-479).
WatchesAreRight ==
    /\ \A fd \in WatchedFds(epoll) :
           /\ epoll.events[fd] = Watching(epoll, fd)
           /\ fd \in epoll.watchesNeedingUpdate <=> epoll.events[fd] # epoll.registeredEvents[fd]
           /\ \A s \in Watching(epoll, fd) :
                  /\ epoll.fulfiller[fd][s] \in Live(mem)
                  /\ mem.promises[epoll.fulfiller[fd][s]].ptr = <<fd, s>>
    /\ \A p \in Live(mem) : LET at == mem.promises[p].ptr IN
           at # Null => at[1] \in WatchedFds(epoll) /\ epoll.fulfiller[at[1]][at[2]] = p
    /\ epoll.watchCount = Cardinality({fd \in WatchedFds(epoll) : epoll.registeredEvents[fd] # {}})

\* When the loop returns, "No more events", nobody waits for anything: every
\* promise that is left was fulfilled (os/EpollEventManager.cpp 197-200).
NothingIsForgotten ==
    phase = "done" => \A p \in Live(mem) : mem.promises[p].fulfilled

\* Whatever the program does, with files that are ready again and again each
\* promise comes to be fulfilled or dropped, so that the loop ends.
LoopReturns == <>Stopped

\* error() is called when a dependency failed: what it passes on is that failure,
\* never "Promise implementation failure:  Exception handler called with no
\* exceptions." (base/Promise.h 774).
ErrorsArePassedOn == \A p \in Live(mem) : mem.promises[p].value # "failure"
=============================================================================
