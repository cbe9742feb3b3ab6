------------------------------- MODULE Driver -------------------------------
(***************************************************************************)
(* The build graph of src/ekam/Driver.cpp: Driver, its tables, and the     *)
(* ActionDriver that runs one action.                                      *)
(*                                                                         *)
(* The driver is single-threaded.  A handler (a source file event, or the  *)
(* done callback of an action) runs to its end before another one starts.  *)
(* It is split here at each call of Driver::registerProvider and before    *)
(* the rescan and startSomeActions(): the variable call is what the        *)
(* handler still has to do, and nothing else moves until it has done it.   *)
(*                                                                         *)
(* A provision is named by its creator and its file, a factory by its name *)
(* (the built-in ones) or by the action that provided it (a learn action   *)
(* provides one, at the end of its output).  Action ids come from a pool   *)
(* and are used again once freed, as the addresses of ActionDrivers are.   *)
(* The order of the queue and of the rows in a table is abstracted: a      *)
(* pending action, or a row, is picked arbitrarily.                        *)
(***************************************************************************)
EXTENDS Naturals, Sequences, FiniteSets

CONSTANTS
  Acts,             \* the pool of ActionDriver addresses
  Files,            \* files, named by canonical name
  SourceFiles,      \* the files the source watcher may report
  Tags,             \* tags a file can carry
  DefaultTag,       \* Tag::DEFAULT_TAG, carried by every file
  Builtin,          \* the ActionFactories main() registers
  BuiltinTriggers,  \* [Builtin -> SUBSET Tags]: their trigger tags
  Learned,          \* the kind of every action made by a learned rule
  Root,             \* the creator of a source file's provision (nullptr)
  None,             \* "no provider" in the dependency table (NULL)
  Rank,             \* Rank[src][f]: how much an action on src prefers f
  Fleeting,         \* files an action may delete before it completes
  MaxConcurrent,    \* maxConcurrentActions, the -j option
  Looks,            \* Looks[k, f]: tags an action of kind k on f may look up
  Makes,            \* Makes[k, f]: files it may provide, with their tags
  Learns            \* Learns[k, f]: trigger sets of the rules it may provide

Creators   == Acts \cup {Root}
Kinds      == Builtin \cup {Learned}
Factories  == Builtin \cup Acts
Provisions == [by : Creators, file : Files]

ASSUME DriverAssumption ==
  /\ Root \notin Acts
  /\ Builtin \cap Acts = {}
  /\ None \notin Provisions
  /\ SourceFiles \subseteq Files
  /\ Fleeting \subseteq Files
  /\ DefaultTag \in Tags
  /\ BuiltinTriggers \in [Builtin -> SUBSET Tags]
  /\ Rank \in [Files -> [Files -> Nat]]
  /\ MaxConcurrent \in Nat \ {0}
  /\ Looks \in [Kinds \X Files -> SUBSET Tags]
  /\ Makes \in [Kinds \X Files -> SUBSET [file : Files, tags : SUBSET Tags]]
  /\ Learns \in [Kinds \X Files -> SUBSET SUBSET Tags]

VARIABLES
  pendingActions,       \* actions waiting to run
  activeActions,        \* actions running (isRunning is true of these)
  completedActionPtrs,  \* actions that returned
  state,                \* ActionDriver::state
  asyncCallbackOp,      \* the callback queued for the action, if any
  provisions,           \* files an action has provided, in order
  providedTags,         \* the tags of each, a vector parallel to provisions
  providedFactories,    \* trigger tags of the rule it has provided; {}: none
  tagTable,             \* which provision carries which tag
  dependencyTable,      \* which provision a lookup of a tag returned to whom
  triggers,             \* which factory wants files with which tag
  actionTriggersTable,  \* which factory made which action for which provision
  rootProvisions,       \* source files known to exist
  call,                 \* what the running handler still has to do
  report,               \* what the ActivityObserver was told last
  aborted               \* the process died of an assertion

actionVars == <<state, asyncCallbackOp, provisions, providedTags, providedFactories>>
queueVars  == <<pendingActions, activeActions, completedActionPtrs>>
tableVars  == <<tagTable, dependencyTable, triggers, actionTriggersTable>>
vars == <<queueVars, actionVars, tableVars, rootProvisions, call, report, aborted>>

TagRows     == [tag : Tags, prov : Provisions]
DepRows     == [tag : Tags, act : Acts, prov : Provisions \cup {None}]
TriggerRows == [tag : Tags, fac : Factories]
ActionRows  == [fac : Factories, prov : Provisions, act : Acts]
States      == {"PENDING", "RUNNING", "DONE", "PASSED", "FAILED"}

\* left: the tags still to register, with the place of the file in provisions.
\* shield: the actions registerProvider() must not reset.
Calls == [kind : {"none", "register", "dispatch"}, act : Creators,
          left : SUBSET [at : Nat, file : Files, tag : Tags], shield : SUBSET Acts]

NoCall   == [kind |-> "none", act |-> Root, left |-> {}, shield |-> {}]
Dispatch == [kind |-> "dispatch", act |-> Root, left |-> {}, shield |-> {}]
Registering(act, left, shield) ==
  [kind |-> "register", act |-> act, left |-> left, shield |-> shield]

TypeOK ==
  /\ pendingActions \subseteq Acts
  /\ activeActions \subseteq Acts
  /\ completedActionPtrs \subseteq Acts
  /\ state \in [Acts -> States]
  /\ asyncCallbackOp \in [Acts -> {"none", "start", "done"}]
  /\ provisions \in [Acts -> Seq(Files)]
  /\ providedTags \in [Acts -> Seq(SUBSET Tags)]
  /\ providedFactories \in [Acts -> SUBSET Tags]
  /\ tagTable \subseteq TagRows
  /\ dependencyTable \subseteq DepRows
  /\ triggers \subseteq TriggerRows
  /\ actionTriggersTable \subseteq ActionRows
  /\ rootProvisions \subseteq SourceFiles
  /\ call \in Calls
  /\ report \in {"none", "building", "passed", "failed"}
  /\ aborted \in BOOLEAN

Init ==
  /\ pendingActions = {}
  /\ activeActions = {}
  /\ completedActionPtrs = {}
  /\ state = [a \in Acts |-> "PENDING"]
  /\ asyncCallbackOp = [a \in Acts |-> "none"]
  /\ provisions = [a \in Acts |-> <<>>]
  /\ providedTags = [a \in Acts |-> <<>>]
  /\ providedFactories = [a \in Acts |-> {}]
  /\ tagTable = {}
  /\ dependencyTable = {}
  /\ triggers = {t \in [tag : Tags, fac : Builtin] : t.tag \in BuiltinTriggers[t.fac]}
  /\ actionTriggersTable = {}
  /\ rootProvisions = {}
  /\ call = NoCall
  /\ report = "none"
  /\ aborted = FALSE

-----------------------------------------------------------------------------
(***************************************************************************)
(* Reading the tables.                                                     *)
(***************************************************************************)

Live == pendingActions \cup activeActions \cup completedActionPtrs

\* The row that made action a: its factory, and the file it runs on (srcfile).
Origin(a)  == CHOOSE r \in actionTriggersTable : r.act = a
Srcfile(a) == Origin(a).prov.file
Job(a)     == <<IF Origin(a).fac \in Builtin THEN Origin(a).fac ELSE Learned, Srcfile(a)>>

\* The answers choosePreferredProvider() may give action a looking up tag in
\* the given rows: the best ranked file, any one of them if there is a tie.
ChoosePreferredProvider(a, tag, rows) ==
  LET found == {t.prov : t \in {t \in rows : t.tag = tag}}
      rank(p) == Rank[Srcfile(a)][p.file]
  IN  IF found = {} THEN {None}
      ELSE {p \in found : \A q \in found : rank(q) <= rank(p)}

\* The smallest set of actions that contains S and is closed under edges.
Closure(S, edges) ==
  LET closed == {X \in SUBSET Acts :
                   S \subseteq X /\ \A e \in edges : e[1] \in X => e[2] \in X}
  IN  {a \in Acts : \A X \in closed : a \in X}

\* Action y was triggered by provision p, or was given it by a lookup.
UsesProvision(y, p) ==
  \/ \E r \in actionTriggersTable : r.act = y /\ r.prov = p
  \/ \E d \in dependencyTable : d.act = y /\ d.prov = p

\* ... by a provision of action x.
BuiltFrom(y, x) ==
  \/ \E r \in actionTriggersTable : r.act = y /\ r.prov.by = x
  \/ \E d \in dependencyTable : d.act = y /\ d.prov # None /\ d.prov.by = x

\* Mutant: an action depends on what triggered it, not on what it looked up.
GetTriggerDependencies(a) ==
  Closure({a}, {e \in Acts \X Acts :
                  \E r \in actionTriggersTable : r.act = e[1] /\ r.prov.by = e[2]})

GetTransitiveDependencies(a) ==
  Closure({a}, {e \in Acts \X Acts : BuiltFrom(e[1], e[2])})

-----------------------------------------------------------------------------
(***************************************************************************)
(* ActionDriver::reset() and Driver::resetDependentActions(Provision).     *)
(* The cascade is one step: the set it reaches does not depend on the      *)
(* order the code takes.                                                   *)
(***************************************************************************)

\* Resetting x resets what was built from it and what its factory made.
MadeBy(y, x) == \E r \in actionTriggersTable : r.act = y /\ r.fac = x

ResetCascade(S) ==
  Closure(S, {e \in Acts \X Acts : BuiltFrom(e[2], e[1]) \/ MadeBy(e[2], e[1])})

\* Of the actions the cascade R reaches, those whose trigger or factory is gone
\* with it are deleted, the others are queued again.  P: provisions removed too.
\* Mutant: the actions of a rule outlive it.
DeletedButLearned(R, P) ==
  {r.act : r \in {r \in actionTriggersTable : r.prov \in P \/ r.prov.by \in R}}

Deleted(R, P) ==
  {r.act : r \in {r \in actionTriggersTable :
                    r.prov \in P \/ r.prov.by \in R \/ r.fac \in R}}

\* Mutant: a canceled run is not cleaned up, only a completed one.
ClearCompleted(R, field, empty) ==
  [a \in Acts |-> IF a \in R \cap completedActionPtrs THEN empty ELSE field[a]]

Clear(R, field, empty) == [a \in Acts |-> IF a \in R THEN empty ELSE field[a]]

Reset(R) ==
  /\ activeActions' = activeActions \ R
  /\ completedActionPtrs' = completedActionPtrs \ R
  /\ state' = [a \in Acts |-> IF a \in R THEN "PENDING" ELSE state[a]]
  /\ asyncCallbackOp' = Clear(R, asyncCallbackOp, "none")
  /\ provisions' = Clear(R, provisions, <<>>)
  /\ providedTags' = Clear(R, providedTags, <<>>)
  /\ providedFactories' = Clear(R, providedFactories, {})
  /\ dependencyTable' = {d \in dependencyTable : d.act \notin R}
  /\ triggers' = {t \in triggers : t.fac \notin R}

\* queueNewAction(), for each job: a fresh ActionDriver on the queue, and its
\* row.  queue and rows are the queue and the table as the step leaves them.
QueueNewActions(jobs, queue, rows) ==
  \E id \in [jobs -> Acts \ (queue \cup activeActions' \cup completedActionPtrs')] :
    /\ \A i, j \in jobs : id[i] = id[j] => i = j
    /\ pendingActions' = queue \cup {id[j] : j \in jobs}
    /\ actionTriggersTable' =
         rows \cup {[fac |-> j.fac, prov |-> j.prov, act |-> id[j]] : j \in jobs}

-----------------------------------------------------------------------------
(***************************************************************************)
(* Source files.                                                           *)
(***************************************************************************)

Idle == call.kind = "none" /\ ~aborted

\* resetDependentActions(provision), for the provision of source file f.
ResetSource(f) ==
  LET p == [by |-> Root, file |-> f]
  IN  \E R \in {ResetCascade({a \in Acts : UsesProvision(a, p)})} :
      \E D \in {Deleted(R, {p})} :
        /\ Reset(R)
        /\ tagTable' = {t \in tagTable : t.prov # p /\ t.prov.by \notin R}
        /\ pendingActions' = (pendingActions \cup R) \ D
        /\ actionTriggersTable' = {r \in actionTriggersTable : r.act \notin D}

\* A new source file, or a new version of one: what used the old version is
\* reset (nothing did if there was none), then the file is registered under the
\* default tag.
AddSourceFile(f) ==
  /\ Idle
  /\ ResetSource(f)
  /\ rootProvisions' = rootProvisions \cup {f}
  /\ call' = Registering(Root, {[at |-> 1, file |-> f, tag |-> DefaultTag]}, {})
  /\ UNCHANGED <<report, aborted>>

\* Mutant: nothing is started after the removal.
RemoveSourceFileOnly(f) ==
  /\ Idle
  /\ f \in rootProvisions
  /\ ResetSource(f)
  /\ rootProvisions' = rootProvisions \ {f}
  /\ UNCHANGED <<call, report, aborted>>

RemoveSourceFile(f) ==
  /\ Idle
  /\ f \in rootProvisions
  /\ ResetSource(f)
  /\ rootProvisions' = rootProvisions \ {f}
  /\ call' = Dispatch
  /\ UNCHANGED <<report, aborted>>

-----------------------------------------------------------------------------
(***************************************************************************)
(* What a running action does, through its BuildContext.                   *)
(***************************************************************************)

\* The callback queued by start() runs: action->start().
Begin(a) ==
  /\ Idle
  /\ a \in activeActions
  /\ asyncCallbackOp[a] = "start"
  /\ asyncCallbackOp' = [asyncCallbackOp EXCEPT ![a] = "none"]
  /\ UNCHANGED <<queueVars, state, provisions, providedTags, providedFactories,
                 tableVars, rootProvisions, call, report, aborted>>

\* ensureRunning(), and the action has been started and has events to come.
CanCall(a) ==
  /\ Idle
  /\ a \in activeActions
  /\ asyncCallbackOp[a] # "start"
  /\ state[a] # "DONE"

FindProvider(a, tag) ==
  /\ CanCall(a)
  /\ tag \in Looks[Job(a)]
  /\ \E p \in ChoosePreferredProvider(a, tag, tagTable) :
       dependencyTable' = dependencyTable \cup {[tag |-> tag, act |-> a, prov |-> p]}
  /\ UNCHANGED <<queueVars, actionVars, tagTable, triggers, actionTriggersTable,
                 rootProvisions, call, report, aborted>>

\* provideInternal(), for provide(), newOutput() and install(): tags of a file
\* provided before are added to, another file is appended.  Bound: a run gives
\* a file the same tag at most once.
Provide(a, file, tags) ==
  LET known == {i \in DOMAIN provisions[a] : provisions[a][i] = file}
  IN  /\ CanCall(a)
      /\ [file |-> file, tags |-> tags] \in Makes[Job(a)]
      /\ \/ /\ known = {}
            /\ provisions' = [provisions EXCEPT ![a] = Append(@, file)]
            /\ providedTags' = [providedTags EXCEPT ![a] = Append(@, tags)]
         \/ \E i \in known :
              /\ tags \cap providedTags[a][i] = {}
              /\ providedTags' = [providedTags EXCEPT ![a][i] = @ \cup tags]
              /\ UNCHANGED provisions
      /\ UNCHANGED <<queueVars, state, asyncCallbackOp, providedFactories,
                     tableVars, rootProvisions, call, report, aborted>>

AddActionType(a, tags) ==
  /\ CanCall(a)
  /\ tags \in Learns[Job(a)]
  /\ providedFactories[a] = {}
  /\ providedFactories' = [providedFactories EXCEPT ![a] = tags]
  /\ UNCHANGED <<queueVars, state, asyncCallbackOp, provisions, providedTags,
                 tableVars, rootProvisions, call, report, aborted>>

\* passed(), failed() and noMoreEvents(): the first of them queues returned().
\* A later one changes nothing (failed() after passed() throws).
Finish(a, verdict) ==
  /\ CanCall(a)
  /\ state[a] = "RUNNING"
  /\ state' = [state EXCEPT ![a] = verdict]
  /\ asyncCallbackOp' = [asyncCallbackOp EXCEPT ![a] = "done"]
  /\ UNCHANGED <<queueVars, provisions, providedTags, providedFactories,
                 tableVars, rootProvisions, call, report, aborted>>

Passed(a)       == Finish(a, "PASSED")
Failed(a)       == Finish(a, "FAILED")
NoMoreEvents(a) == Finish(a, "DONE")

-----------------------------------------------------------------------------
(***************************************************************************)
(* ActionDriver::returned() and what it calls.                             *)
(***************************************************************************)

\* The places in s of the files that still exist, in order.
Survivors(s) ==
  {k \in UNION {[1..n -> DOMAIN s] : n \in 0..Len(s)} :
     /\ \A i, j \in DOMAIN k : i < j => k[i] < k[j]
     /\ \A i \in DOMAIN s : s[i] \in Fleeting \/ \E j \in DOMAIN k : k[j] = i}

\* The tags to register when the files at the places k survive: the surviving
\* files are paired with the head of providedTags, as the code pairs them.
ToRegister(a, k) ==
  {x \in [at : DOMAIN k, file : Files, tag : Tags] :
     /\ x.file = provisions[a][k[x.at]]
     /\ x.tag \in providedTags[a][x.at]}

\* The done callback.  A failed action provides nothing; of the provisions of
\* another one, those of deleted files are filtered out.
Returned(a) ==
  /\ Idle
  /\ a \in activeActions
  /\ asyncCallbackOp[a] = "done"
  /\ activeActions' = activeActions \ {a}
  /\ completedActionPtrs' = completedActionPtrs \cup {a}
  /\ asyncCallbackOp' = [asyncCallbackOp EXCEPT ![a] = "none"]
  /\ providedTags' = [providedTags EXCEPT ![a] = <<>>]
  /\ \/ /\ state[a] = "FAILED"
        /\ provisions' = [provisions EXCEPT ![a] = <<>>]
        /\ providedFactories' = [providedFactories EXCEPT ![a] = {}]
        /\ call' = Dispatch
     \/ /\ state[a] # "FAILED"
        /\ \E k \in Survivors(provisions[a]) :
             /\ provisions' = [provisions EXCEPT ![a] = [i \in DOMAIN k |-> @[k[i]]]]
             /\ call' = Registering(a, ToRegister(a, k), GetTransitiveDependencies(a))
        /\ UNCHANGED providedFactories
  /\ UNCHANGED <<pendingActions, state, tableVars, rootProvisions, report, aborted>>

\* Mutants: a better provider does not disturb whoever has one; the actions that
\* contributed to the provision are not spared.
DisturbedIfMissing(tag, rows) ==
  {d \in dependencyTable : d.tag = tag /\ d.act \notin call.shield /\ d.prov = None}

DisturbedUnshielded(tag, rows) ==
  {d \in dependencyTable :
     d.tag = tag /\ ChoosePreferredProvider(d.act, tag, rows) # {d.prov}}

\* The lookups of tag that resetDependentActions(tag, dependencies) finds
\* answered differently now; of those that tie, any may be answered differently.
Disturbed(tag, rows) ==
  {d \in dependencyTable :
     /\ d.tag = tag
     /\ d.act \notin call.shield
     /\ ChoosePreferredProvider(d.act, tag, rows) # {d.prov}}

\* The row that registers x, a member of call.left.
NewRow(x) == [tag |-> x.tag, prov |-> [by |-> call.act, file |-> x.file]]

\* The row is added, the cascade R resets its actions, and fireTriggers() makes
\* the actions that the new row calls for.
RegisterTag(x, R) ==
  /\ Reset(R)
  /\ tagTable' = {t \in tagTable \cup {NewRow(x)} : t.prov.by \notin R}
  /\ \E D \in {Deleted(R, {})} :
       QueueNewActions({[fac |-> t.fac, prov |-> NewRow(x).prov, tag |-> x.tag] :
                          t \in {t \in triggers : t.tag = x.tag /\ t.fac \notin R}},
                       (pendingActions \cup R) \ D,
                       {r \in actionTriggersTable : r.act \notin D})
  /\ call' = Registering(call.act, call.left \ {x}, call.shield)
  /\ UNCHANGED <<rootProvisions, report, aborted>>

\* reset() asserts that it is not called for the action that is registering.
Abort ==
  /\ aborted' = TRUE
  /\ UNCHANGED <<queueVars, actionVars, tableVars, rootProvisions, call, report>>

\* registerProvider(), for one tag of one provision: the lookups that the new
\* row answers otherwise are reset; where providers tie, some of them are.
RegisterProvider ==
  /\ call.kind = "register"
  /\ ~aborted
  /\ \E x \in call.left :
       LET rows == tagTable \cup {NewRow(x)}
           lost == Disturbed(x.tag, rows)
           must == {d \in lost : d.prov \notin ChoosePreferredProvider(d.act, x.tag, rows)}
       IN  /\ \A y \in call.left : x.at <= y.at
           /\ \E hit \in SUBSET lost :
                /\ must \subseteq hit
                /\ \E R \in {ResetCascade({d.act : d \in hit})} :
                     \/ call.act \in R /\ Abort
                     \/ call.act \notin R /\ RegisterTag(x, R)

\* rescanForNewFactory(): a job for each file that carries a trigger tag.
\* Mutant: files tagged before are not looked at.
RescanNothing(fac, tags) == {}

Rescan(fac, tags) ==
  {[fac |-> fac, prov |-> t.prov, tag |-> t.tag] : t \in {t \in tagTable : t.tag \in tags}}

\* The end of returned(): the factory the action provided is registered, and
\* its actions for files tagged before are made.
RegisterFactory ==
  LET learned == IF call.act = Root THEN {} ELSE providedFactories[call.act]
  IN  /\ call.kind = "register"
      /\ ~aborted
      /\ call.left = {}
      /\ triggers' = triggers \cup {[tag |-> t, fac |-> call.act] : t \in learned}
      /\ UNCHANGED <<activeActions, completedActionPtrs, actionVars, tagTable,
                     dependencyTable, rootProvisions, report, aborted>>
      /\ QueueNewActions(Rescan(call.act, learned), pendingActions, actionTriggersTable)
      /\ call' = Dispatch

-----------------------------------------------------------------------------
(***************************************************************************)
(* Driver::startSomeActions(), the end of every handler.                   *)
(***************************************************************************)

\* dumpErrors(): has any completed action failed?
Verdict ==
  IF \E a \in completedActionPtrs : state[a] = "FAILED" THEN "failed" ELSE "passed"

StartSomeActions ==
  /\ call.kind = "dispatch"
  /\ ~aborted
  /\ \E S \in SUBSET pendingActions :
       /\ Cardinality(activeActions \cup S) <= MaxConcurrent
       /\ S = pendingActions \/ Cardinality(activeActions \cup S) = MaxConcurrent
       /\ pendingActions' = pendingActions \ S
       /\ activeActions' = activeActions \cup S
       /\ state' = [a \in Acts |-> IF a \in S THEN "RUNNING" ELSE state[a]]
       /\ asyncCallbackOp' = [a \in Acts |-> IF a \in S THEN "start" ELSE asyncCallbackOp[a]]
       /\ report' = IF activeActions \cup S = {} THEN Verdict
                    ELSE IF S # {} THEN "building" ELSE report
  /\ call' = NoCall
  /\ UNCHANGED <<completedActionPtrs, provisions, providedTags, providedFactories,
                 tableVars, rootProvisions, aborted>>

-----------------------------------------------------------------------------

Next ==
  \/ \E f \in SourceFiles : AddSourceFile(f) \/ RemoveSourceFile(f)
  \/ \E a \in Acts : Begin(a) \/ Passed(a) \/ Failed(a) \/ NoMoreEvents(a) \/ Returned(a)
  \/ \E a \in Acts, t \in Tags : FindProvider(a, t)
  \/ \E a \in Acts, f \in Files, T \in SUBSET Tags : Provide(a, f, T)
  \/ \E a \in Acts, T \in SUBSET Tags : AddActionType(a, T)
  \/ RegisterProvider
  \/ RegisterFactory
  \/ StartSomeActions

Spec == Init /\ [][Next]_vars

-----------------------------------------------------------------------------
(***************************************************************************)
(* Properties.                                                             *)
(***************************************************************************)

LiveProvision(p) ==
  IF p.by = Root THEN p.file \in rootProvisions
  ELSE /\ p.by \in completedActionPtrs
       /\ state[p.by] # "FAILED"
       /\ \E i \in DOMAIN provisions[p.by] : provisions[p.by][i] = p.file

LiveFactory(f) ==
  f \in Builtin \/ (f \in completedActionPtrs /\ providedFactories[f] # {})

\* Every ActionDriver has one owner (queue, active list or completed map), which
\* agrees with its state and its queued callback: an active action that has
\* finished always has the callback that will complete it, and a queued one
\* holds nothing of an earlier run, as the assertions of start() demand.
OneOwner ==
  /\ pendingActions \cap activeActions = {}
  /\ pendingActions \cap completedActionPtrs = {}
  /\ activeActions \cap completedActionPtrs = {}
  /\ \A a \in Acts \ (activeActions \cup completedActionPtrs) :
       /\ state[a] = "PENDING"
       /\ asyncCallbackOp[a] = "none"
       /\ provisions[a] = <<>>
       /\ providedTags[a] = <<>>
       /\ providedFactories[a] = {}
       /\ \A d \in dependencyTable : d.act # a
  /\ \A a \in activeActions :
       IF state[a] = "RUNNING" THEN asyncCallbackOp[a] \in {"none", "start"}
       ELSE state[a] # "PENDING" /\ asyncCallbackOp[a] = "done"
  /\ \A a \in completedActionPtrs :
       /\ state[a] \in {"DONE", "PASSED", "FAILED"}
       /\ asyncCallbackOp[a] = "none"
       /\ state[a] = "FAILED" => provisions[a] = <<>> /\ providedFactories[a] = {}

\* No table refers to a provision, an action or a factory that is gone, nor does
\* what returned() and registerProvider() have on the stack: whatever a cascade
\* of resets frees, the pointers left in the rows of Driver.h are good.
NoDanglingRows ==
  /\ \A t \in tagTable : LiveProvision(t.prov)
  /\ \A d \in dependencyTable :
       /\ d.act \in activeActions \cup completedActionPtrs
       /\ d.prov # None => [tag |-> d.tag, prov |-> d.prov] \in tagTable
  /\ \A t \in triggers : LiveFactory(t.fac)
  /\ \A r \in actionTriggersTable :
       r.act \in Live /\ LiveProvision(r.prov) /\ LiveFactory(r.fac)
  /\ \A a \in Live : \E r \in actionTriggersTable : r.act = a
  /\ \A r, s \in actionTriggersTable : r.act = s.act => r = s
  /\ call.kind = "register" =>
       /\ call.act = Root \/ call.act \in completedActionPtrs
       /\ \A x \in call.left : LiveProvision(NewRow(x).prov)

\* Every lookup is answered as it would be if it were asked now, except where
\* the better answer was itself built from the action that asked (the case
\* resetDependentActions(tag) excepts, or the build would never end).
FreshChoice ==
  \A d \in dependencyTable, t \in tagTable :
    /\ t.tag = d.tag
    /\ d.prov = None \/ Rank[Srcfile(d.act)][d.prov.file] < Rank[Srcfile(d.act)][t.prov.file]
    => /\ t.prov.by # Root
       /\ d.act \in GetTransitiveDependencies(t.prov.by)

\* A factory has made exactly one action for each tag it wants of each file
\* that carries it, whichever of the factory and the tag was registered first.
TriggeredExactlyOnce ==
  \A p \in {t.prov : t \in tagTable}, f \in {t.fac : t \in triggers} :
    Cardinality({r \in actionTriggersTable : r.prov = p /\ r.fac = f}) =
    Cardinality({t \in Tags : /\ [tag |-> t, prov |-> p] \in tagTable
                              /\ [tag |-> t, fac |-> f] \in triggers})

\* Between handlers no action waits while a slot is free.
NoIdleSlot ==
  call.kind = "none" =>
    pendingActions = {} \/ Cardinality(activeActions) = MaxConcurrent

\* Between handlers the observer knows whether a build runs and, if none does,
\* how the actions as they are now have ended.
ReportIsCurrent ==
  call.kind = "none" =>
    report = IF activeActions # {} THEN "building"
             ELSE IF Live = {} /\ report = "none" THEN "none"
             ELSE Verdict

\* No tag an action registers resets the action itself, neither because its own
\* lookup is answered otherwise now nor because what it was built from is reset,
\* at any distance: the build of actions that want each other's outputs ends.
NoSelfReset ==
  call.kind = "register" =>
    \A x \in call.left :
      call.act \notin Closure({d.act : d \in Disturbed(x.tag, tagTable \cup {NewRow(x)})},
                            {e \in Acts \X Acts : BuiltFrom(e[2], e[1])})

\* The assertion of reset() and of ~ActionDriver(): nothing resets an action
\* whose returned() is still on the stack.
AssertionHolds == ~aborted
=============================================================================
