------------------------------ MODULE Promise -------------------------------
(***************************************************************************)
(* Promises (base/Promise.h): the states that fulfillers fulfill, the      *)
(* DependentPromiseFulfillers that executor.when(...)(callback) makes of   *)
(* them, and the queue of the executor that calls those.                   *)
(*                                                                         *)
(* Ownership makes a forest: a promise is held by a variable of the        *)
(* program, by the params of the fulfiller that waits for it, or, while    *)
(* its callback runs, by the stack.  A memory m is a record with fields    *)
(* promises, a function on the promises that exist, and asyncCallbacks;    *)
(* the operators return what a call makes of it.                           *)
(***************************************************************************)
EXTENDS Integers, SequencesExt, Sublists

CONSTANTS
    Null,       \* a null pointer
    User,       \* a variable of the program
    Stack       \* localParams of ready() or error()

\* What a MaybeException holds.  "failure" is the logic_error of
\* ForceErrorFunctor, "thrown" any other exception.
Values == {"unset", "value", "thrown", "failure"}
Broken(v) == v \in {"thrown", "failure"}

\* A PromiseState, with its fulfiller: left is dependenciesLeft, pending is
\* pendingReadyLater, and ptr the slot that an IoWatcher's Fulfiller is in.
PlainState ==
    [owner |-> User, params |-> <<>>, listener |-> Null, value |-> "unset",
     fulfilled |-> FALSE, left |-> 0, dependencyFailed |-> FALSE,
     pending |-> FALSE, ptr |-> Null]

Live(m) == DOMAIN m.promises

\* The promises that p waits for.
Params(m, p) == Range(m.promises[p].params)

NewPromise(m, p, state) ==
    [m EXCEPT !.promises = [q \in DOMAIN @ \cup {p} |-> IF q = p THEN state ELSE @[q]]]

\* Some promises and all that they own.
Tree(m, seeds) ==
    LET Closed(S) == \A q \in Live(m) : m.promises[q].owner \in S => q \in S
    IN {q \in Live(m) : \A S \in SUBSET Live(m) : seeds \subseteq S /\ Closed(S) => q \in S}

\* Mutant: the queued callback of a promise that goes stays.
DeleteLeavingCallbacks(m, gone) == [m EXCEPT !.promises = Restrict(@, DOMAIN @ \ gone)]

\* A PendingRunnable that was not called takes itself out of the queue.
Delete(m, gone) ==
    [promises |-> Restrict(m.promises, Live(m) \ gone),
     asyncCallbacks |-> Sublist(m.asyncCallbacks,
                                {i \in DOMAIN m.asyncCallbacks : m.asyncCallbacks[i] \notin gone})]

ReadyLater(m, q) ==
    [promises |-> [m.promises EXCEPT ![q].pending = TRUE],
     asyncCallbacks |-> Append(m.asyncCallbacks, q)]

CountDown(m, q) ==
    LET counted == [m EXCEPT !.promises[q].left = @ - 1]
    IN IF counted.promises[q].left = 0 THEN ReadyLater(counted, q) ELSE counted

DependencyDone(m, q, failed) ==
    CountDown([m EXCEPT !.promises[q].dependencyFailed = @ \/ failed], q)

SetListener(m, p, q) ==
    LET set == [m EXCEPT !.promises[p].listener = q]
    IN IF m.promises[p].fulfilled
       THEN DependencyDone(set, q, Broken(m.promises[p].value)) ELSE set

\* preFulfill() and postFulfill(), of fulfill(value) and of
\* propagateCurrentException().
Fulfill(m, p, v) ==
    LET set == [m EXCEPT !.promises[p] = [@ EXCEPT !.fulfilled = TRUE, !.value = v]]
        q == m.promises[p].listener
    IN IF q = Null THEN set ELSE DependencyDone(set, q, Broken(v))

\* The dependency moves into params, is counted, and tells at once if it was
\* fulfilled before.
AddDependency(m, q, d) ==
    LET counted == [m EXCEPT !.promises[q].left = @ + 1]
    IN SetListener([counted EXCEPT !.promises[d].owner = q], d, q)

\* dependenciesLeft begins at one, so that nothing is ready before all are added.
When(m, q, deps) ==
    LET made == NewPromise(m, q, [PlainState EXCEPT !.left = 1, !.params = deps])
        added[n \in 0 .. Len(deps)] ==
            IF n = 0 THEN made ELSE AddDependency(added[n - 1], q, deps[n])
    IN CountDown(added[Len(deps)], q)

\* ready() and error() move params to the stack before they call.
MoveToStack(m, q) ==
    [m EXCEPT !.promises = [p \in DOMAIN @ |->
        IF p = q THEN [@[p] EXCEPT !.params = <<>>, !.pending = FALSE]
        ELSE IF p \in Params(m, q) THEN [@[p] EXCEPT !.owner = Stack] ELSE @[p]]]

\* ForceErrorFunctor takes the first dependency as an rvalue; the others it
\* hands on as lvalues, for which the overload that looks into a
\* MaybeException is not viable, and skips them.
ForcedError(m, deps) ==
    IF deps # <<>> /\ Broken(m.promises[Head(deps)].value)
    THEN m.promises[Head(deps)].value ELSE "failure"

\* The promise r takes the place of q in what owns q; q is deleted.
Replaced(m, q, r) ==
    LET o == m.promises[q].owner
        moved == [p \in Live(m) |->
            IF p = r THEN [m.promises[p] EXCEPT !.owner = o]
            ELSE IF p = o THEN [m.promises[p] EXCEPT !.params = ReplaceAll(@, q, r)]
            ELSE m.promises[p]]
    IN Delete([m EXCEPT !.promises = moved], {q})

\* Mutant: the listener is not told to wait for the new promise.
FulfillWithSilently(m, q, r) == Replaced(m, q, r)

\* fulfill(chainedPromise): whoever waited for q waits for r.
FulfillWith(m, q, r) ==
    IF m.promises[q].listener = Null THEN Replaced(m, q, r)
    ELSE SetListener(Replaced(m, q, r), r, m.promises[q].listener)
=============================================================================
