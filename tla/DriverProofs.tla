---------------------------- MODULE DriverProofs ----------------------------
(***************************************************************************)
(* Theorems about the build graph of module Driver, for every pool of      *)
(* actions, every set of files, tags and rules, and every behaviour of the *)
(* actions that the constants allow.                                       *)
(***************************************************************************)
EXTENDS Driver, TLAPS, FiniteSetTheorems, FunctionTheorems

(***************************************************************************)
(* Closures.  Closure(S, edges) contains S, is closed under edges, and is  *)
(* contained in every such set.                                            *)
(***************************************************************************)

\* The closure of S contains S (Driver::reset() reaches what it is called for).
LEMMA ClosureContains ==
  ASSUME NEW S, NEW edges, S \subseteq Acts
  PROVE  /\ S \subseteq Closure(S, edges)
         /\ Closure(S, edges) \subseteq Acts
BY DEF Closure

\* The closure is closed: a cascade of resets stops only where nothing is left.
LEMMA ClosureClosed ==
  ASSUME NEW S, NEW edges, NEW x \in Acts, NEW y \in Acts,
         <<x, y>> \in edges, x \in Closure(S, edges)
  PROVE  y \in Closure(S, edges)
<1> DEFINE closed == {X \in SUBSET Acts :
                        S \subseteq X /\ \A e \in edges : e[1] \in X => e[2] \in X}
<1>1. \A X \in closed : x \in X
  BY DEF Closure
<1>2. \A X \in closed : y \in X
  <2> TAKE X \in closed
  <2>1. x \in X
    BY <1>1
  <2>2. <<x, y>>[1] \in X => <<x, y>>[2] \in X
    OBVIOUS
  <2> QED
    BY <2>1, <2>2
<1> QED
  BY <1>2 DEF Closure

\* The closure is the least closed set: a cascade resets nothing it need not.
LEMMA ClosureLeast ==
  ASSUME NEW S, NEW edges, NEW X \in SUBSET Acts, S \subseteq X,
         \A e \in edges : e[1] \in X => e[2] \in X
  PROVE  Closure(S, edges) \subseteq X
BY DEF Closure

-----------------------------------------------------------------------------
(***************************************************************************)
(* Type correctness.                                                       *)
(***************************************************************************)

\* Clearing a field of the reset actions keeps its type.
LEMMA ClearType ==
  ASSUME NEW T, NEW field \in [Acts -> T], NEW empty \in T, NEW R
  PROVE  Clear(R, field, empty) \in [Acts -> T]
BY DEF Clear

\* reset() keeps every field it touches well-typed.
LEMMA ResetType ==
  ASSUME TypeOK, NEW R, Reset(R)
  PROVE  /\ activeActions' \subseteq Acts
         /\ completedActionPtrs' \subseteq Acts
         /\ state' \in [Acts -> States]
         /\ asyncCallbackOp' \in [Acts -> {"none", "start", "done"}]
         /\ provisions' \in [Acts -> Seq(Files)]
         /\ providedTags' \in [Acts -> Seq(SUBSET Tags)]
         /\ providedFactories' \in [Acts -> SUBSET Tags]
         /\ dependencyTable' \subseteq DepRows
         /\ triggers' \subseteq TriggerRows
<1>1. provisions' \in [Acts -> Seq(Files)]
  BY ClearType, <<>> \in Seq(Files) DEF TypeOK, Reset
<1>2. providedTags' \in [Acts -> Seq(SUBSET Tags)]
  BY ClearType, <<>> \in Seq(SUBSET Tags) DEF TypeOK, Reset
<1>3. providedFactories' \in [Acts -> SUBSET Tags]
  BY ClearType DEF TypeOK, Reset
<1>4. asyncCallbackOp' \in [Acts -> {"none", "start", "done"}]
  BY ClearType DEF TypeOK, Reset
<1> QED
  BY <1>1, <1>2, <1>3, <1>4 DEF TypeOK, Reset, States

\* queueNewAction() puts members of the pool on the queue and in the table.
LEMMA QueueType ==
  ASSUME NEW jobs, NEW queue \in SUBSET Acts, NEW rows \in SUBSET ActionRows,
         \A j \in jobs : j.fac \in Factories /\ j.prov \in Provisions,
         QueueNewActions(jobs, queue, rows)
  PROVE  /\ pendingActions' \subseteq Acts
         /\ actionTriggersTable' \subseteq ActionRows
BY DEF QueueNewActions, ActionRows

\* A driver with nothing but its built-in factories (Driver::Driver and
\* addActionFactory()) is well typed.
LEMMA InitType == Init => TypeOK
<1> SUFFICES ASSUME Init PROVE TypeOK
  OBVIOUS
<1>1. triggers \subseteq TriggerRows
  <2> SUFFICES ASSUME NEW t \in [tag : Tags, fac : Builtin]
               PROVE  t \in [tag : Tags, fac : Builtin \cup Acts]
    BY DEF Init, TriggerRows, Factories
  <2> QED
    OBVIOUS
<1>2. call \in Calls
  BY DEF Init, NoCall, Calls, Creators
<1>3. /\ provisions \in [Acts -> Seq(Files)]
      /\ providedTags \in [Acts -> Seq(SUBSET Tags)]
  BY <<>> \in Seq(Files), <<>> \in Seq(SUBSET Tags) DEF Init
<1> QED
  BY <1>1, <1>2, <1>3 DEF Init, TypeOK, States

\* The two calls that name no action: no handler running, and a handler about
\* to run startSomeActions().
LEMMA DispatchType == Dispatch \in Calls /\ NoCall \in Calls
BY DEF Dispatch, NoCall, Calls, Creators

\* What an action that only touches its own fields leaves as it was.
LEMMA CallType ==
  ASSUME TypeOK, NEW a \in Acts,
         \/ Begin(a) \/ Passed(a) \/ Failed(a) \/ NoMoreEvents(a)
  PROVE  TypeOK'
BY DEF TypeOK, Begin, Passed, Failed, NoMoreEvents, Finish, queueVars, tableVars, States

\* A lookup answers with a provision that carries the tag, or with none.
LEMMA ChoiceCarriesTag ==
  ASSUME NEW rows \in SUBSET TagRows, NEW a, NEW tag,
         NEW p \in ChoosePreferredProvider(a, tag, rows)
  PROVE  /\ p \in Provisions \cup {None}
         /\ p # None => \E t \in rows : t.tag = tag /\ t.prov = p
<1> DEFINE found == {t.prov : t \in {t \in rows : t.tag = tag}}
<1>1. CASE found = {}
  BY <1>1 DEF ChoosePreferredProvider
<1>2. CASE found # {}
  <2>1. p \in found
    BY <1>2 DEF ChoosePreferredProvider
  <2>2. PICK t \in rows : t.tag = tag /\ t.prov = p
    BY <2>1
  <2> QED
    BY <2>2 DEF TagRows
<1> QED
  BY <1>1, <1>2

\* findProvider() and findInput() only add well-typed rows to the dependencies.
LEMMA FindProviderType ==
  ASSUME TypeOK, NEW a \in Acts, NEW tag \in Tags, FindProvider(a, tag)
  PROVE  TypeOK'
<1>1. PICK p \in ChoosePreferredProvider(a, tag, tagTable) :
        dependencyTable' = dependencyTable \cup {[tag |-> tag, act |-> a, prov |-> p]}
  BY DEF FindProvider
<1>2. p \in Provisions \cup {None}
  BY <1>1, ChoiceCarriesTag DEF TypeOK
<1>3. dependencyTable' \subseteq DepRows
  BY <1>1, <1>2 DEF TypeOK, DepRows
<1> QED
  BY <1>3 DEF TypeOK, FindProvider, queueVars, actionVars

\* provideInternal() keeps both of its parallel vectors well typed.
LEMMA ProvideType ==
  ASSUME TypeOK, NEW a \in Acts, NEW f \in Files, NEW T \in SUBSET Tags, Provide(a, f, T)
  PROVE  TypeOK'
<1>1. provisions' \in [Acts -> Seq(Files)] /\ providedTags' \in [Acts -> Seq(SUBSET Tags)]
  <2>1. provisions[a] \in Seq(Files) /\ providedTags[a] \in Seq(SUBSET Tags)
    BY DEF TypeOK
  <2>2. Append(provisions[a], f) \in Seq(Files) /\ Append(providedTags[a], T) \in Seq(SUBSET Tags)
    BY <2>1
  <2>3. CASE /\ provisions' = [provisions EXCEPT ![a] = Append(@, f)]
             /\ providedTags' = [providedTags EXCEPT ![a] = Append(@, T)]
    BY <2>2, <2>3 DEF TypeOK
  <2>4. ASSUME NEW n \in Nat, UNCHANGED provisions,
               providedTags' = [providedTags EXCEPT ![a][n] = @ \cup T]
        PROVE  provisions' \in [Acts -> Seq(Files)] /\ providedTags' \in [Acts -> Seq(SUBSET Tags)]
    <3> DEFINE old   == providedTags[a]
               grown == [old EXCEPT ![n] = old[n] \cup T]
    <3>1. old \in [1..Len(old) -> SUBSET Tags] /\ Len(old) \in Nat
      BY <2>1
    <3>2. grown = [i \in 1..Len(old) |-> IF i = n THEN old[n] \cup T ELSE old[i]]
      BY <3>1
    <3>3. \A i \in 1..Len(old) : (IF i = n THEN old[n] \cup T ELSE old[i]) \in SUBSET Tags
      BY <3>1
    <3> HIDE DEF old
    <3>4. grown \in [1..Len(old) -> SUBSET Tags]
      BY <3>2, <3>3
    <3> HIDE DEF grown
    <3>5. grown \in Seq(SUBSET Tags)
      BY <3>1, <3>4
    <3> QED
      BY <2>4, <3>5 DEF TypeOK, old, grown
  <2>5. \A n \in DOMAIN provisions[a] : n \in Nat
    BY <2>1
  <2> QED
    BY <2>3, <2>4, <2>5 DEF Provide
<1> QED
  BY <1>1 DEF TypeOK, Provide, queueVars, tableVars

\* addActionType() keeps the types.
LEMMA AddActionTypeType ==
  ASSUME TypeOK, NEW a \in Acts, NEW T \in SUBSET Tags, AddActionType(a, T)
  PROVE  TypeOK'
BY DEF TypeOK, AddActionType, queueVars, tableVars

\* A cascade stays within the pool, and only its members are deleted.
LEMMA CascadeType ==
  ASSUME NEW S \in SUBSET Acts
  PROVE  ResetCascade(S) \in SUBSET Acts /\ S \subseteq ResetCascade(S)
BY ClosureContains DEF ResetCascade

\* resetDependentActions(provision), for a source file, keeps the types.
LEMMA ResetSourceType ==
  ASSUME TypeOK, NEW f, ResetSource(f)
  PROVE  /\ pendingActions' \subseteq Acts
         /\ activeActions' \subseteq Acts
         /\ completedActionPtrs' \subseteq Acts
         /\ state' \in [Acts -> States]
         /\ asyncCallbackOp' \in [Acts -> {"none", "start", "done"}]
         /\ provisions' \in [Acts -> Seq(Files)]
         /\ providedTags' \in [Acts -> Seq(SUBSET Tags)]
         /\ providedFactories' \in [Acts -> SUBSET Tags]
         /\ tagTable' \subseteq TagRows
         /\ dependencyTable' \subseteq DepRows
         /\ triggers' \subseteq TriggerRows
         /\ actionTriggersTable' \subseteq ActionRows
<1> DEFINE p == [by |-> Root, file |-> f]
           S == {a \in Acts : UsesProvision(a, p)}
           R == ResetCascade(S)
           D == Deleted(R, {p})
<1>1. /\ Reset(R)
      /\ tagTable' = {t \in tagTable : t.prov # p /\ t.prov.by \notin R}
      /\ pendingActions' = (pendingActions \cup R) \ D
      /\ actionTriggersTable' = {r \in actionTriggersTable : r.act \notin D}
  BY DEF ResetSource
<1>2. R \in SUBSET Acts
  BY CascadeType
<1> HIDE DEF S, R, D
<1>3. /\ pendingActions' \subseteq Acts
      /\ tagTable' \subseteq TagRows
      /\ actionTriggersTable' \subseteq ActionRows
  BY <1>1, <1>2 DEF TypeOK
<1> QED
  BY <1>1, <1>3, ResetType

\* Both source file handlers, addSourceFile() and removeSourceFile(), keep them.
LEMMA SourceType ==
  ASSUME TypeOK, NEW f \in SourceFiles, AddSourceFile(f) \/ RemoveSourceFile(f)
  PROVE  TypeOK'
<1>1. ResetSource(f) /\ UNCHANGED <<report, aborted>>
  BY DEF AddSourceFile, RemoveSourceFile
<1>2. rootProvisions' \subseteq SourceFiles
  BY DEF TypeOK, AddSourceFile, RemoveSourceFile
<1>3. call' \in Calls
  <2>1. CASE AddSourceFile(f)
    <3>1. f \in Files /\ DefaultTag \in Tags
      BY DriverAssumption
    <3> QED
      BY <2>1, <3>1 DEF AddSourceFile, Registering, Calls, Creators
  <2>2. CASE RemoveSourceFile(f)
    BY <2>2, DispatchType DEF RemoveSourceFile
  <2> QED
    BY <2>1, <2>2
<1> QED
  BY <1>1, <1>2, <1>3, ResetSourceType DEF TypeOK

\* returned() keeps them, up to its first call of registerProvider().
LEMMA ReturnedType ==
  ASSUME TypeOK, NEW a \in Acts, Returned(a)
  PROVE  TypeOK'
<1>1. /\ activeActions' \subseteq Acts
      /\ completedActionPtrs' \subseteq Acts
      /\ asyncCallbackOp' \in [Acts -> {"none", "start", "done"}]
      /\ providedFactories' \in [Acts -> SUBSET Tags]
  BY DEF TypeOK, Returned
<1>2. providedTags' \in [Acts -> Seq(SUBSET Tags)]
  BY <<>> \in Seq(SUBSET Tags) DEF TypeOK, Returned
<1>3. provisions' \in [Acts -> Seq(Files)] /\ call' \in Calls
  <2>1. CASE state[a] = "FAILED"
    BY <2>1, <<>> \in Seq(Files), DispatchType DEF TypeOK, Returned
  <2>2. CASE state[a] # "FAILED"
    <3>1. PICK k \in Survivors(provisions[a]) :
            /\ provisions' = [provisions EXCEPT ![a] = [i \in DOMAIN k |-> @[k[i]]]]
            /\ call' = Registering(a, ToRegister(a, k), GetTransitiveDependencies(a))
      BY <2>2 DEF Returned
    <3>2. provisions[a] \in Seq(Files)
      BY DEF TypeOK
    <3>3. PICK n \in 0..Len(provisions[a]) : k \in [1..n -> DOMAIN provisions[a]]
      BY DEF Survivors
    <3>4. [i \in DOMAIN k |-> provisions[a][k[i]]] \in [1..n -> Files]
      BY <3>2, <3>3
    <3>5. [i \in DOMAIN k |-> provisions[a][k[i]]] \in Seq(Files)
      <4> DEFINE kept == [i \in DOMAIN k |-> provisions[a][k[i]]]
      <4>1. n \in Nat
        BY <3>2, <3>3
      <4> HIDE DEF kept
      <4> QED
        BY <3>4, <4>1 DEF kept
    <3>6. ToRegister(a, k) \in SUBSET [at : Nat, file : Files, tag : Tags]
      <4>1. \A i \in DOMAIN k : i \in Nat
        BY <3>3
      <4> QED
        BY <4>1 DEF ToRegister
    <3>7. GetTransitiveDependencies(a) \in SUBSET Acts
      BY ClosureContains DEF GetTransitiveDependencies
    <3>8. call' \in Calls
      BY <3>1, <3>6, <3>7 DEF Registering, Calls, Creators
    <3> QED
      BY <3>1, <3>5, <3>8 DEF TypeOK
  <2> QED
    BY <2>1, <2>2
<1> QED
  BY <1>1, <1>2, <1>3 DEF TypeOK, Returned, tableVars

\* The step of registerProvider(): it adds one row and resets one cascade.
LEMMA RegisterStep ==
  ASSUME TypeOK, RegisterProvider
  PROVE  \E x \in call.left : \E hit \in SUBSET Disturbed(x.tag, tagTable \cup {NewRow(x)}) :
           \/ /\ call.act \in ResetCascade({d.act : d \in hit})
              /\ Abort
           \/ /\ call.act \notin ResetCascade({d.act : d \in hit})
              /\ RegisterTag(x, ResetCascade({d.act : d \in hit}))
BY DEF RegisterProvider

\* Registering one tag keeps the tables and the queue well-typed.
LEMMA RegisterTagType ==
  ASSUME TypeOK, NEW x \in call.left, NEW R \in SUBSET Acts, RegisterTag(x, R)
  PROVE  TypeOK'
<1> DEFINE jobs == {[fac |-> t.fac, prov |-> NewRow(x).prov, tag |-> x.tag] :
                      t \in {t \in triggers : t.tag = x.tag /\ t.fac \notin R}}
           D == Deleted(R, {})
<1>1. /\ call.act \in Creators
      /\ call.left \subseteq [at : Nat, file : Files, tag : Tags]
      /\ call.shield \subseteq Acts
  BY DEF TypeOK, Calls
<1>2. NewRow(x) \in TagRows
  BY <1>1 DEF NewRow, TagRows, Provisions
<1>3. call' \in Calls
  BY <1>1 DEF RegisterTag, Registering, Calls
<1>4. tagTable' \subseteq TagRows
  BY <1>2 DEF TypeOK, RegisterTag
<1>5. \A j \in jobs : j.fac \in Factories /\ j.prov \in Provisions
  BY <1>2 DEF TypeOK, TriggerRows, TagRows
<1>6. QueueNewActions(jobs, (pendingActions \cup R) \ D,
                      {r \in actionTriggersTable : r.act \notin D})
  BY DEF RegisterTag
<1>7. pendingActions' \subseteq Acts /\ actionTriggersTable' \subseteq ActionRows
  <2>1. /\ (pendingActions \cup R) \ D \in SUBSET Acts
        /\ {r \in actionTriggersTable : r.act \notin D} \in SUBSET ActionRows
    BY DEF TypeOK
  <2> HIDE DEF jobs, D
  <2> QED
    BY <1>5, <1>6, <2>1, QueueType
<1>8. Reset(R)
  BY DEF RegisterTag
<1> QED
  BY <1>3, <1>4, <1>7, <1>8, ResetType DEF TypeOK, RegisterTag

\* registerProvider() keeps the tables and the queue well-typed.
LEMMA RegisterProviderType ==
  ASSUME TypeOK, RegisterProvider
  PROVE  TypeOK'
<1>1. PICK x \in call.left : \E hit \in SUBSET Disturbed(x.tag, tagTable \cup {NewRow(x)}) :
        Abort \/ RegisterTag(x, ResetCascade({d.act : d \in hit}))
  BY RegisterStep
<1>2. PICK hit \in SUBSET Disturbed(x.tag, tagTable \cup {NewRow(x)}) :
        Abort \/ RegisterTag(x, ResetCascade({d.act : d \in hit}))
  BY <1>1
<1>3. ResetCascade({d.act : d \in hit}) \in SUBSET Acts
  <2>1. \A d \in hit : d.act \in Acts
    BY DEF Disturbed, TypeOK, DepRows
  <2> QED
    BY <2>1, CascadeType
<1>4. CASE Abort
  BY <1>4 DEF Abort, TypeOK, queueVars, actionVars, tableVars
<1> QED
  BY <1>2, <1>3, <1>4, RegisterTagType

\* rescanForNewFactory() keeps the triggers and the queue well-typed.
LEMMA RegisterFactoryType ==
  ASSUME TypeOK, RegisterFactory
  PROVE  TypeOK'
<1> DEFINE learned == IF call.act = Root THEN {} ELSE providedFactories[call.act]
           jobs    == Rescan(call.act, learned)
<1>1. call.act \in Creators
  BY DEF TypeOK, Calls
<1>2. learned \in SUBSET Tags /\ (learned # {} => call.act \in Acts)
  BY <1>1 DEF TypeOK, Creators
<1>3. triggers' \subseteq TriggerRows
  <2>1. triggers' = triggers \cup {[tag |-> t, fac |-> call.act] : t \in learned}
    BY DEF RegisterFactory
  <2> HIDE DEF learned
  <2> QED
    BY <1>2, <2>1 DEF TypeOK, TriggerRows, Factories
<1>4. \A j \in jobs : j.fac \in Factories /\ j.prov \in Provisions
  <2> HIDE DEF learned
  <2> QED
    BY <1>2 DEF Rescan, TypeOK, TagRows, Factories
<1>5. QueueNewActions(jobs, pendingActions, actionTriggersTable)
  BY DEF RegisterFactory
<1>6. pendingActions' \subseteq Acts /\ actionTriggersTable' \subseteq ActionRows
  <2> HIDE DEF jobs
  <2> QED
    BY <1>4, <1>5, QueueType DEF TypeOK
<1>7. call' \in Calls
  BY DispatchType DEF RegisterFactory
<1> QED
  BY <1>3, <1>6, <1>7 DEF TypeOK, RegisterFactory, actionVars

\* startSomeActions() keeps the states and the callbacks well-typed.
LEMMA StartSomeActionsType ==
  ASSUME TypeOK, StartSomeActions
  PROVE  TypeOK'
<1>1. PICK S \in SUBSET pendingActions :
        /\ pendingActions' = pendingActions \ S
        /\ activeActions' = activeActions \cup S
        /\ state' = [a \in Acts |-> IF a \in S THEN "RUNNING" ELSE state[a]]
        /\ asyncCallbackOp' = [a \in Acts |-> IF a \in S THEN "start" ELSE asyncCallbackOp[a]]
        /\ report' = IF activeActions \cup S = {} THEN Verdict
                     ELSE IF S # {} THEN "building" ELSE report
  BY DEF StartSomeActions
<1>2. state' \in [Acts -> States] /\ asyncCallbackOp' \in [Acts -> {"none", "start", "done"}]
  BY <1>1 DEF TypeOK, States
<1>3. report' \in {"none", "building", "passed", "failed"}
  BY <1>1 DEF TypeOK, Verdict
<1>4. pendingActions' \subseteq Acts /\ activeActions' \subseteq Acts
  BY <1>1 DEF TypeOK
<1> QED
  BY <1>2, <1>3, <1>4, DispatchType DEF TypeOK, StartSomeActions, tableVars

\* Every step of the driver keeps its state well-typed.
LEMMA NextType ==
  ASSUME TypeOK, [Next]_vars
  PROVE  TypeOK'
<1>1. CASE UNCHANGED vars
  BY <1>1 DEF TypeOK, vars, queueVars, actionVars, tableVars
<1>2. CASE Next
  <2>1. ASSUME NEW f \in SourceFiles, AddSourceFile(f) \/ RemoveSourceFile(f)
        PROVE  TypeOK'
    BY <2>1, SourceType
  <2>2. ASSUME NEW a \in Acts, Begin(a) \/ Passed(a) \/ Failed(a) \/ NoMoreEvents(a)
        PROVE  TypeOK'
    BY <2>2, CallType
  <2>3. ASSUME NEW a \in Acts, Returned(a)
        PROVE  TypeOK'
    BY <2>3, ReturnedType
  <2>4. ASSUME NEW a \in Acts, NEW t \in Tags, FindProvider(a, t)
        PROVE  TypeOK'
    BY <2>4, FindProviderType
  <2>5. ASSUME NEW a \in Acts, NEW f \in Files, NEW T \in SUBSET Tags, Provide(a, f, T)
        PROVE  TypeOK'
    BY <2>5, ProvideType
  <2>6. ASSUME NEW a \in Acts, NEW T \in SUBSET Tags, AddActionType(a, T)
        PROVE  TypeOK'
    BY <2>6, AddActionTypeType
  <2>7. CASE RegisterProvider
    BY <2>7, RegisterProviderType
  <2>8. CASE RegisterFactory
    BY <2>8, RegisterFactoryType
  <2>9. CASE StartSomeActions
    BY <2>9, StartSomeActionsType
  <2> QED
    BY <1>2, <2>1, <2>2, <2>3, <2>4, <2>5, <2>6, <2>7, <2>8, <2>9 DEF Next
<1> QED
  BY <1>1, <1>2

\* Driver::activeActions, pendingActions, completedActionPtrs and the tables
\* always hold what their declarations in Driver.h say they hold.
THEOREM TypeCorrect == Spec => []TypeOK
<1>1. Init => TypeOK
  BY InitType
<1>2. TypeOK /\ [Next]_vars => TypeOK'
  BY NextType
<1> QED
  BY <1>1, <1>2, PTL DEF Spec

-----------------------------------------------------------------------------
(***************************************************************************)
(* Safety of the build graph of module Driver.  OneOwner and               *)
(* NoDanglingRows are inductive together with TypeOK; what the cascade of  *)
(* resets reaches, and what it spares, is stated once in CascadeKeeps.     *)
(***************************************************************************)

\* The inductive invariant: tables, queues and actions agree.
IInv == TypeOK /\ OneOwner /\ NoDanglingRows

(***************************************************************************)
(* One cascade of resets.                                                  *)
(***************************************************************************)

\* A cascade that starts at live actions, users of the removed provisions P
\* included, stays among live actions; it deletes only actions it resets; and no
\* row of an action it spares refers to anything that it removes.
LEMMA CascadeKeeps ==
  ASSUME IInv, NEW S \in SUBSET Live, NEW P \in SUBSET Provisions,
         \A y \in Acts, p \in P : UsesProvision(y, p) => y \in S,
         NEW R, R = ResetCascade(S), NEW D, D = Deleted(R, P)
  PROVE  /\ R \subseteq Live
         /\ D \subseteq R
         /\ \A r \in actionTriggersTable :
              r.act \notin D => r.prov \notin P /\ r.prov.by \notin R /\ r.fac \notin R
         /\ \A d \in dependencyTable :
              d.act \notin R /\ d.prov # None => d.prov \notin P /\ d.prov.by \notin R
<1> DEFINE edges == {e \in Acts \X Acts : BuiltFrom(e[2], e[1]) \/ MadeBy(e[2], e[1])}
<1>1. S \in SUBSET Acts /\ Live \in SUBSET Acts
  BY DEF IInv, TypeOK, Live
<1>2. S \subseteq R /\ R \in SUBSET Acts
  BY <1>1, CascadeType
<1>3. R \subseteq Live
  <2>1. \A e \in edges : e[2] \in Live
    BY DEF BuiltFrom, MadeBy, IInv, NoDanglingRows, Live
  <2> HIDE DEF edges
  <2>2. Closure(S, edges) \subseteq Live
    BY <1>1, <2>1, ClosureLeast
  <2> QED
    BY <2>2 DEF ResetCascade, edges
<1>4. \A x, y \in Acts : x \in R /\ (BuiltFrom(y, x) \/ MadeBy(y, x)) => y \in R
  <2> SUFFICES ASSUME NEW x \in Acts, NEW y \in Acts, x \in R,
                      BuiltFrom(y, x) \/ MadeBy(y, x)
               PROVE  y \in R
    OBVIOUS
  <2>1. <<x, y>> \in edges
    OBVIOUS
  <2>2. x \in Closure(S, edges)
    BY DEF ResetCascade
  <2> HIDE DEF edges
  <2>3. y \in Closure(S, edges)
    BY <2>1, <2>2, ClosureClosed
  <2> QED
    BY <2>3 DEF ResetCascade, edges
<1>5. D \subseteq R
  <2> SUFFICES ASSUME NEW r \in actionTriggersTable,
                      r.prov \in P \/ r.prov.by \in R \/ r.fac \in R
               PROVE  r.act \in R
    BY DEF Deleted
  <2>1. r.act \in Acts
    BY DEF IInv, TypeOK, ActionRows
  <2>2. CASE r.prov \in P
    BY <1>2, <2>1, <2>2 DEF UsesProvision
  <2>3. CASE r.prov.by \in R
    BY <1>2, <1>4, <2>1, <2>3 DEF BuiltFrom
  <2>4. CASE r.fac \in R
    BY <1>2, <1>4, <2>1, <2>4 DEF MadeBy
  <2> QED
    BY <2>2, <2>3, <2>4
<1>6. ASSUME NEW d \in dependencyTable, d.act \notin R, d.prov # None
      PROVE  d.prov \notin P /\ d.prov.by \notin R
  <2>1. d.act \in Acts
    BY DEF IInv, TypeOK, DepRows
  <2>2. d.prov \notin P
    BY <1>2, <1>6, <2>1 DEF UsesProvision
  <2>3. d.prov.by \notin R
    BY <1>2, <1>4, <1>6, <2>1 DEF BuiltFrom
  <2> QED
    BY <2>2, <2>3
<1> QED
  BY <1>3, <1>5, <1>6 DEF Deleted

\* reset() leaves the provisions and the factory of every other action.
LEMMA ResetSpares ==
  ASSUME TypeOK, NEW R \in SUBSET Acts, Reset(R)
  PROVE  /\ \A p \in Provisions :
              p.by # Root /\ p.by \notin R /\ LiveProvision(p) => LiveProvision(p)'
         /\ \A f \in Factories : f \notin R /\ LiveFactory(f) => LiveFactory(f)'
<1>1. ASSUME NEW a \in Acts, a \notin R
      PROVE  /\ state'[a] = state[a]
             /\ provisions'[a] = provisions[a]
             /\ providedFactories'[a] = providedFactories[a]
  BY <1>1 DEF Reset, Clear
<1>2. completedActionPtrs' = completedActionPtrs \ R
  BY DEF Reset
<1>3. ASSUME NEW p \in Provisions, p.by # Root, p.by \notin R, LiveProvision(p)
      PROVE  LiveProvision(p)'
  <2>1. p.by \in Acts
    BY <1>3 DEF Provisions, Creators
  <2> QED
    BY <1>1, <1>2, <1>3, <2>1 DEF LiveProvision
<1>4. ASSUME NEW f \in Factories, f \notin R, LiveFactory(f)
      PROVE  LiveFactory(f)'
  BY <1>1, <1>2, <1>4 DEF LiveFactory, TypeOK
<1> QED
  BY <1>3, <1>4

\* reset() cleans up what it cancels or undoes, and puts it on the queue only.
LEMMA ResetKeepsOwners ==
  ASSUME TypeOK, OneOwner, NEW R \in SUBSET Acts, Reset(R),
         pendingActions' \cap (activeActions' \cup completedActionPtrs') = {}
  PROVE  OneOwner'
<1>1. /\ activeActions' = activeActions \ R
      /\ completedActionPtrs' = completedActionPtrs \ R
      /\ dependencyTable' = {d \in dependencyTable : d.act \notin R}
  BY DEF Reset
<1>2. ASSUME NEW a \in Acts, a \in R
      PROVE  /\ state'[a] = "PENDING" /\ asyncCallbackOp'[a] = "none"
             /\ provisions'[a] = <<>> /\ providedTags'[a] = <<>>
             /\ providedFactories'[a] = {}
  BY <1>2 DEF Reset, Clear
<1>3. ASSUME NEW a \in Acts, a \notin R
      PROVE  /\ state'[a] = state[a] /\ asyncCallbackOp'[a] = asyncCallbackOp[a]
             /\ provisions'[a] = provisions[a] /\ providedTags'[a] = providedTags[a]
             /\ providedFactories'[a] = providedFactories[a]
  BY <1>3 DEF Reset, Clear
<1>4. activeActions' \cap completedActionPtrs' = {}
  BY <1>1 DEF OneOwner
<1>5. ASSUME NEW a \in Acts \ (activeActions' \cup completedActionPtrs')
      PROVE  /\ state'[a] = "PENDING" /\ asyncCallbackOp'[a] = "none"
             /\ provisions'[a] = <<>> /\ providedTags'[a] = <<>>
             /\ providedFactories'[a] = {}
             /\ \A d \in dependencyTable' : d.act # a
  <2>1. CASE a \in R
    BY <1>1, <1>2, <2>1
  <2>2. CASE a \notin R
    BY <1>1, <1>3, <2>2 DEF OneOwner
  <2> QED
    BY <2>1, <2>2
<1>6. ASSUME NEW a \in activeActions'
      PROVE  IF state'[a] = "RUNNING" THEN asyncCallbackOp'[a] \in {"none", "start"}
             ELSE state'[a] # "PENDING" /\ asyncCallbackOp'[a] = "done"
  <2>1. a \in activeActions /\ a \in Acts /\ a \notin R
    BY <1>1 DEF TypeOK
  <2> QED
    BY <1>3, <2>1 DEF OneOwner
<1>7. ASSUME NEW a \in completedActionPtrs'
      PROVE  /\ state'[a] \in {"DONE", "PASSED", "FAILED"}
             /\ asyncCallbackOp'[a] = "none"
             /\ state'[a] = "FAILED" => provisions'[a] = <<>> /\ providedFactories'[a] = {}
  <2>1. a \in completedActionPtrs /\ a \in Acts /\ a \notin R
    BY <1>1 DEF TypeOK
  <2> QED
    BY <1>3, <2>1 DEF OneOwner
<1> QED
  BY <1>4, <1>5, <1>6, <1>7 DEF OneOwner

-----------------------------------------------------------------------------
(***************************************************************************)
(* The steps that reset actions.                                           *)
(***************************************************************************)

\* A new version of a source file, or its removal, keeps the invariant.
LEMMA SourceKeeps ==
  ASSUME IInv, NEW f \in SourceFiles, AddSourceFile(f) \/ RemoveSourceFile(f)
  PROVE  OneOwner' /\ NoDanglingRows'
<1> DEFINE p == [by |-> Root, file |-> f]
           S == {a \in Acts : UsesProvision(a, p)}
           R == ResetCascade(S)
           D == Deleted(R, {p})
<1>1. /\ Reset(R)
      /\ tagTable' = {t \in tagTable : t.prov # p /\ t.prov.by \notin R}
      /\ pendingActions' = (pendingActions \cup R) \ D
      /\ actionTriggersTable' = {r \in actionTriggersTable : r.act \notin D}
  BY DEF AddSourceFile, RemoveSourceFile, ResetSource
<1>2. p \in Provisions
  BY DriverAssumption DEF Provisions, Creators
<1>3. S \in SUBSET Live
  BY DEF UsesProvision, IInv, NoDanglingRows, Live
<1>4. R \in SUBSET Acts
  BY CascadeType
<1>5. /\ R \subseteq Live
      /\ D \subseteq R
      /\ \A r \in actionTriggersTable :
           r.act \notin D => r.prov # p /\ r.prov.by \notin R /\ r.fac \notin R
      /\ \A d \in dependencyTable :
           d.act \notin R /\ d.prov # None => d.prov # p /\ d.prov.by \notin R
  <2>1. \A y \in Acts, q \in {p} : UsesProvision(y, q) => y \in S
    OBVIOUS
  <2>2. {p} \in SUBSET Provisions
    BY <1>2
  <2> HIDE DEF p, S, R, D
  <2> QED
    BY <1>3, <2>1, <2>2, CascadeKeeps DEF R, D
<1>6. ASSUME NEW q \in Provisions, q # p, q.by \notin R, LiveProvision(q)
      PROVE  LiveProvision(q)'
  <2>1. CASE q.by = Root
    <3>1. q.file # f
      BY <1>6, <2>1 DEF Provisions
    <3>2. q.file \in rootProvisions'
      BY <1>6, <2>1, <3>1 DEF LiveProvision, AddSourceFile, RemoveSourceFile
    <3> QED
      BY <2>1, <3>2 DEF LiveProvision
  <2>2. CASE q.by # Root
    BY <1>1, <1>4, <1>6, <2>2, ResetSpares DEF IInv
  <2> QED
    BY <2>1, <2>2
<1>7. \A g \in Factories : g \notin R /\ LiveFactory(g) => LiveFactory(g)'
  BY <1>1, <1>4, ResetSpares DEF IInv
<1>8. /\ activeActions' = activeActions \ R
      /\ completedActionPtrs' = completedActionPtrs \ R
      /\ dependencyTable' = {d \in dependencyTable : d.act \notin R}
      /\ triggers' = {t \in triggers : t.fac \notin R}
  BY <1>1 DEF Reset
<1>9. /\ call' = Registering(Root, {[at |-> 1, file |-> f, tag |-> DefaultTag]}, {})
         /\ f \in rootProvisions'
      \/ call' = Dispatch
  BY DEF AddSourceFile, RemoveSourceFile
<1> HIDE DEF S, R, D
<1>10. OneOwner'
  <2>1. pendingActions' \cap (activeActions' \cup completedActionPtrs') = {}
    BY <1>1, <1>8 DEF IInv, OneOwner
  <2> QED
    BY <1>1, <1>4, <2>1, ResetKeepsOwners DEF IInv
<1>11. \A t \in tagTable' : LiveProvision(t.prov)'
  BY <1>1, <1>6 DEF IInv, TypeOK, NoDanglingRows, TagRows
<1>12. ASSUME NEW d \in dependencyTable'
       PROVE  /\ d.act \in activeActions' \cup completedActionPtrs'
              /\ d.prov # None => [tag |-> d.tag, prov |-> d.prov] \in tagTable'
  <2>1. d \in dependencyTable /\ d.act \notin R
    BY <1>8
  <2> HIDE DEF p
  <2> QED
    BY <1>1, <1>5, <1>8, <2>1 DEF IInv, NoDanglingRows
<1>13. \A t \in triggers' : LiveFactory(t.fac)'
  BY <1>7, <1>8 DEF IInv, TypeOK, NoDanglingRows, TriggerRows
<1>14. ASSUME NEW r \in actionTriggersTable'
       PROVE  r.act \in Live' /\ LiveProvision(r.prov)' /\ LiveFactory(r.fac)'
  <2>1. r \in actionTriggersTable /\ r.act \notin D
    BY <1>1
  <2>2. r.prov \in Provisions /\ r.fac \in Factories
    BY <2>1 DEF IInv, TypeOK, ActionRows
  <2>3. r.act \in Live'
    BY <1>1, <1>8, <2>1 DEF IInv, NoDanglingRows, Live
  <2> HIDE DEF p
  <2> QED
    BY <1>5, <1>6, <1>7, <2>1, <2>2, <2>3 DEF IInv, NoDanglingRows
<1>15. \A a \in Live' : \E r \in actionTriggersTable' : r.act = a
  <2>1. Live' \subseteq Live \ D
    BY <1>1, <1>5, <1>8 DEF Live
  <2> QED
    BY <1>1, <2>1 DEF IInv, NoDanglingRows
<1>16. \A r, s \in actionTriggersTable' : r.act = s.act => r = s
  BY <1>1 DEF IInv, NoDanglingRows
<1>17. call'.kind = "register" =>
         /\ call'.act = Root \/ call'.act \in completedActionPtrs'
         /\ \A x \in call'.left : LiveProvision(NewRow(x).prov)'
  BY <1>9 DEF Registering, Dispatch, NewRow, LiveProvision
<1> QED
  BY <1>10, <1>11, <1>12, <1>13, <1>14, <1>15, <1>16, <1>17 DEF NoDanglingRows

\* queueNewAction() gives each job an ActionDriver of its own that is not in use.
LEMMA QueueKeeps ==
  ASSUME TypeOK, NEW jobs, NEW queue \in SUBSET Acts, NEW rows \in SUBSET ActionRows,
         \A r, s \in rows : r.act = s.act => r = s,
         \A r \in rows : r.act \in queue \cup activeActions' \cup completedActionPtrs',
         QueueNewActions(jobs, queue, rows)
  PROVE  /\ queue \subseteq pendingActions'
         /\ (pendingActions' \ queue) \cap (activeActions' \cup completedActionPtrs') = {}
         /\ rows \subseteq actionTriggersTable'
         /\ \A r \in actionTriggersTable' \ rows :
              /\ \E j \in jobs : r.fac = j.fac /\ r.prov = j.prov
              /\ r.act \in pendingActions' \ queue
         /\ \A a \in pendingActions' \ queue : \E r \in actionTriggersTable' : r.act = a
         /\ \A r, s \in actionTriggersTable' : r.act = s.act => r = s
<1>1. PICK id \in [jobs -> Acts \ (queue \cup activeActions' \cup completedActionPtrs')] :
        /\ \A i, j \in jobs : id[i] = id[j] => i = j
        /\ pendingActions' = queue \cup {id[j] : j \in jobs}
        /\ actionTriggersTable' =
             rows \cup {[fac |-> j.fac, prov |-> j.prov, act |-> id[j]] : j \in jobs}
  BY DEF QueueNewActions
<1>2. \A j \in jobs : id[j] \notin queue \cup activeActions' \cup completedActionPtrs'
  BY <1>1
<1>3. ASSUME NEW r \in actionTriggersTable', r \notin rows
      PROVE  \E j \in jobs : r = [fac |-> j.fac, prov |-> j.prov, act |-> id[j]]
  BY <1>1, <1>3
<1>4. ASSUME NEW r \in actionTriggersTable', NEW s \in actionTriggersTable', r.act = s.act
      PROVE  r = s
  <2>1. CASE r \in rows /\ s \in rows
    BY <1>4, <2>1
  <2>2. CASE r \notin rows /\ s \notin rows
    <3>1. PICK i \in jobs : r = [fac |-> i.fac, prov |-> i.prov, act |-> id[i]]
      BY <1>3, <2>2
    <3>2. PICK j \in jobs : s = [fac |-> j.fac, prov |-> j.prov, act |-> id[j]]
      BY <1>3, <2>2
    <3>3. id[i] = id[j]
      BY <1>4, <3>1, <3>2
    <3> QED
      BY <1>1, <3>1, <3>2, <3>3
  <2>3. CASE r \in rows /\ s \notin rows
    <3>1. PICK j \in jobs : s = [fac |-> j.fac, prov |-> j.prov, act |-> id[j]]
      BY <1>3, <2>3
    <3> QED
      BY <1>2, <1>4, <2>3, <3>1
  <2>4. CASE r \notin rows /\ s \in rows
    <3>1. PICK j \in jobs : r = [fac |-> j.fac, prov |-> j.prov, act |-> id[j]]
      BY <1>3, <2>4
    <3> QED
      BY <1>2, <1>4, <2>4, <3>1
  <2> QED
    BY <2>1, <2>2, <2>3, <2>4
<1>5. ASSUME NEW r \in actionTriggersTable', r \notin rows
      PROVE  /\ \E j \in jobs : r.fac = j.fac /\ r.prov = j.prov
             /\ r.act \in pendingActions' \ queue
  <2>1. PICK j \in jobs : r = [fac |-> j.fac, prov |-> j.prov, act |-> id[j]]
    BY <1>3, <1>5
  <2>2. id[j] \in pendingActions' \ queue
    BY <1>1, <1>2
  <2> QED
    BY <2>1, <2>2
<1>6. ASSUME NEW a \in pendingActions' \ queue
      PROVE  \E r \in actionTriggersTable' : r.act = a
  <2>1. PICK j \in jobs : a = id[j]
    BY <1>1
  <2>2. [fac |-> j.fac, prov |-> j.prov, act |-> id[j]] \in actionTriggersTable'
    BY <1>1
  <2> QED
    BY <2>1, <2>2
<1> QED
  BY <1>1, <1>2, <1>4, <1>5, <1>6

\* Registering one tag of a provision keeps the invariant.
LEMMA RegisterTagKeeps ==
  ASSUME IInv, call.kind = "register", NEW x \in call.left,
         NEW S \in SUBSET Live, NEW R, R = ResetCascade(S), call.act \notin R,
         RegisterTag(x, R)
  PROVE  OneOwner' /\ NoDanglingRows'
<1> DEFINE D     == Deleted(R, {})
           queue == (pendingActions \cup R) \ D
           rows  == {r \in actionTriggersTable : r.act \notin D}
           jobs  == {[fac |-> t.fac, prov |-> NewRow(x).prov, tag |-> x.tag] :
                       t \in {t \in triggers : t.tag = x.tag /\ t.fac \notin R}}
<1>1. R \in SUBSET Acts
  BY CascadeType DEF IInv, TypeOK, Live
<1>2. /\ R \subseteq Live
      /\ D \subseteq R
      /\ \A r \in actionTriggersTable :
           r.act \notin D => r.prov.by \notin R /\ r.fac \notin R
      /\ \A d \in dependencyTable : d.act \notin R /\ d.prov # None => d.prov.by \notin R
  <2> HIDE DEF D
  <2> QED
    BY CascadeKeeps DEF D
<1>3. /\ Reset(R)
      /\ tagTable' = {t \in tagTable \cup {NewRow(x)} : t.prov.by \notin R}
      /\ QueueNewActions(jobs, queue, rows)
      /\ call' = Registering(call.act, call.left \ {x}, call.shield)
      /\ rootProvisions' = rootProvisions
  BY DEF RegisterTag
<1>4. /\ activeActions' = activeActions \ R
      /\ completedActionPtrs' = completedActionPtrs \ R
      /\ dependencyTable' = {d \in dependencyTable : d.act \notin R}
      /\ triggers' = {t \in triggers : t.fac \notin R}
  BY <1>3 DEF Reset
<1>5. \A q \in Provisions : q.by \notin R /\ LiveProvision(q) => LiveProvision(q)'
  BY <1>1, <1>3, ResetSpares DEF IInv, LiveProvision
<1>6. \A g \in Factories : g \notin R /\ LiveFactory(g) => LiveFactory(g)'
  BY <1>1, <1>3, ResetSpares DEF IInv
<1>7. NewRow(x) \in TagRows /\ NewRow(x).prov.by = call.act /\ LiveProvision(NewRow(x).prov)
  <2>1. call.act \in Creators /\ x \in [at : Nat, file : Files, tag : Tags]
    BY DEF IInv, TypeOK, Calls
  <2>2. NewRow(x) \in TagRows /\ NewRow(x).prov.by = call.act
    BY <2>1 DEF NewRow, TagRows, Provisions
  <2> QED
    BY <2>2 DEF IInv, NoDanglingRows
<1>8. \A j \in jobs : j.prov = NewRow(x).prov /\ \E t \in triggers' : j.fac = t.fac
  BY <1>4
<1>9. /\ queue \subseteq pendingActions'
      /\ (pendingActions' \ queue) \cap (activeActions' \cup completedActionPtrs') = {}
      /\ rows \subseteq actionTriggersTable'
      /\ \A r \in actionTriggersTable' \ rows :
           /\ \E j \in jobs : r.fac = j.fac /\ r.prov = j.prov
           /\ r.act \in pendingActions' \ queue
      /\ \A a \in pendingActions' \ queue : \E r \in actionTriggersTable' : r.act = a
      /\ \A r, s \in actionTriggersTable' : r.act = s.act => r = s
  <2>1. queue \in SUBSET Acts /\ rows \in SUBSET ActionRows
    BY <1>1 DEF IInv, TypeOK
  <2>2. \A r \in rows : r.act \in queue \cup activeActions' \cup completedActionPtrs'
    BY <1>4 DEF IInv, NoDanglingRows, Live
  <2>3. \A r, s \in rows : r.act = s.act => r = s
    BY DEF IInv, NoDanglingRows
  <2> HIDE DEF D, queue, rows, jobs
  <2> QED
    BY <1>3, <2>1, <2>2, <2>3, QueueKeeps DEF IInv
<1>10. queue \subseteq (Live \cup R) /\ queue \cap D = {} /\ rows \subseteq actionTriggersTable
  BY DEF Live
<1>11. queue \cap (activeActions' \cup completedActionPtrs') = {}
  BY <1>4 DEF IInv, OneOwner
<1>12. \A r \in rows : r.act \notin D /\ r \in actionTriggersTable
  OBVIOUS
<1>13. \A r \in actionTriggersTable : r.act \notin D => r \in rows
  OBVIOUS
<1> HIDE DEF queue, rows, jobs, D
<1>14. OneOwner'
  BY <1>1, <1>3, <1>9, <1>11, ResetKeepsOwners DEF IInv
<1>15. \A t \in tagTable' : LiveProvision(t.prov)'
  BY <1>3, <1>5, <1>7 DEF IInv, TypeOK, NoDanglingRows, TagRows
<1>16. ASSUME NEW d \in dependencyTable'
       PROVE  /\ d.act \in activeActions' \cup completedActionPtrs'
              /\ d.prov # None => [tag |-> d.tag, prov |-> d.prov] \in tagTable'
  <2>1. d \in dependencyTable /\ d.act \notin R
    BY <1>4
  <2> QED
    BY <1>2, <1>3, <1>4, <2>1 DEF IInv, NoDanglingRows
<1>17. \A t \in triggers' : LiveFactory(t.fac)'
  BY <1>4, <1>6 DEF IInv, TypeOK, NoDanglingRows, TriggerRows
<1>18. \A q : q = NewRow(x).prov => LiveProvision(q)'
  BY <1>5, <1>7 DEF TagRows
<1>19. ASSUME NEW r \in actionTriggersTable'
       PROVE  r.act \in Live' /\ LiveProvision(r.prov)' /\ LiveFactory(r.fac)'
  <2>1. CASE r \in rows
    <3>1. r \in actionTriggersTable /\ r.act \notin D
      BY <1>12, <2>1
    <3>2. r.prov \in Provisions /\ r.fac \in Factories
      BY <3>1 DEF IInv, TypeOK, ActionRows
    <3>3. r.act \in Live'
      <4>1. r.act \in queue \cup activeActions' \cup completedActionPtrs'
        BY <1>4, <3>1 DEF IInv, NoDanglingRows, Live, queue
      <4> QED
        BY <1>9, <4>1 DEF Live
    <3> QED
      BY <1>2, <1>5, <1>6, <3>1, <3>2, <3>3 DEF IInv, NoDanglingRows
  <2>2. CASE r \notin rows
    <3>1. /\ r.prov = NewRow(x).prov
          /\ \E t \in triggers' : r.fac = t.fac
          /\ r.act \in pendingActions'
      BY <1>8, <1>9, <2>2
    <3> QED
      BY <1>17, <1>18, <3>1 DEF Live
  <2> QED
    BY <2>1, <2>2
<1>20. ASSUME NEW a \in Live'
       PROVE  \E r \in actionTriggersTable' : r.act = a
  <2>1. CASE a \in pendingActions' \ queue
    BY <1>9, <2>1
  <2>2. CASE a \notin pendingActions' \ queue
    <3>1. a \in Live /\ a \notin D
      BY <1>2, <1>4, <1>10, <2>2 DEF Live
    <3>2. PICK r \in actionTriggersTable : r.act = a
      BY <3>1 DEF IInv, NoDanglingRows
    <3> QED
      BY <1>9, <1>13, <3>1, <3>2
  <2> QED
    BY <2>1, <2>2
<1>21. call'.kind = "register" =>
         /\ call'.act = Root \/ call'.act \in completedActionPtrs'
         /\ \A y \in call'.left : LiveProvision(NewRow(y).prov)'
  <2>1. /\ call'.act = call.act /\ call'.left = call.left \ {x}
    BY <1>3 DEF Registering
  <2>2. call.act = Root \/ call.act \in completedActionPtrs'
    BY <1>4 DEF IInv, NoDanglingRows
  <2>3. ASSUME NEW y \in call.left
        PROVE  LiveProvision(NewRow(y).prov)'
    <3>1. /\ NewRow(y).prov \in Provisions /\ NewRow(y).prov.by = call.act
      BY DEF IInv, TypeOK, Calls, NewRow, Provisions
    <3>2. LiveProvision(NewRow(y).prov)
      BY DEF IInv, NoDanglingRows
    <3>3. NewRow(y)' = NewRow(y)
      BY <2>1 DEF NewRow
    <3> QED
      BY <1>5, <3>1, <3>2, <3>3 DEF LiveProvision
  <2> QED
    BY <2>1, <2>2, <2>3
<1> QED
  BY <1>9, <1>14, <1>15, <1>16, <1>17, <1>19, <1>20, <1>21 DEF NoDanglingRows

-----------------------------------------------------------------------------
(***************************************************************************)
(* The other steps.                                                        *)
(***************************************************************************)

\* What a running action calls in its BuildContext changes what it holds itself,
\* and no provision or factory that anybody else can see.
LEMMA RunningKeeps ==
  ASSUME IInv, NEW a \in activeActions, UNCHANGED <<queueVars, call, rootProvisions>>,
         \A b \in Acts \ {a} : /\ state'[b] = state[b]
                               /\ asyncCallbackOp'[b] = asyncCallbackOp[b]
                               /\ provisions'[b] = provisions[b]
                               /\ providedTags'[b] = providedTags[b]
                               /\ providedFactories'[b] = providedFactories[b],
         IF state'[a] = "RUNNING" THEN asyncCallbackOp'[a] \in {"none", "start"}
         ELSE state'[a] # "PENDING" /\ asyncCallbackOp'[a] = "done",
         UNCHANGED <<tagTable, triggers, actionTriggersTable>>,
         \A d \in dependencyTable' \ dependencyTable :
           d.act = a /\ (d.prov # None => [tag |-> d.tag, prov |-> d.prov] \in tagTable)
  PROVE  OneOwner' /\ NoDanglingRows'
<1>1. /\ pendingActions' = pendingActions
      /\ activeActions' = activeActions
      /\ completedActionPtrs' = completedActionPtrs
      /\ call' = call
      /\ rootProvisions' = rootProvisions
  BY DEF queueVars
<1>2. a \in Acts /\ a \notin completedActionPtrs /\ a \notin pendingActions
  BY DEF IInv, TypeOK, OneOwner
<1>3. \A b \in completedActionPtrs : b \in Acts \ {a}
  BY <1>2 DEF IInv, TypeOK
<1>4. \A q : LiveProvision(q) => LiveProvision(q)'
  BY <1>1, <1>3 DEF LiveProvision
<1>5. \A g : LiveFactory(g) => LiveFactory(g)'
  BY <1>1, <1>3 DEF LiveFactory
<1>6. ASSUME NEW b \in Acts \ (activeActions' \cup completedActionPtrs')
      PROVE  /\ state'[b] = "PENDING" /\ asyncCallbackOp'[b] = "none"
             /\ provisions'[b] = <<>> /\ providedTags'[b] = <<>>
             /\ providedFactories'[b] = {}
             /\ \A d \in dependencyTable' : d.act # b
  <2>1. b \in Acts \ {a} /\ b \in Acts \ (activeActions \cup completedActionPtrs)
    BY <1>1
  <2>2. /\ state[b] = "PENDING" /\ asyncCallbackOp[b] = "none"
        /\ provisions[b] = <<>> /\ providedTags[b] = <<>> /\ providedFactories[b] = {}
        /\ \A d \in dependencyTable : d.act # b
    BY <2>1 DEF IInv, OneOwner
  <2>3. \A d \in dependencyTable' : d \in dependencyTable \/ d.act = a
    OBVIOUS
  <2> QED
    BY <2>1, <2>2, <2>3
<1>7. ASSUME NEW b \in activeActions'
      PROVE  IF state'[b] = "RUNNING" THEN asyncCallbackOp'[b] \in {"none", "start"}
             ELSE state'[b] # "PENDING" /\ asyncCallbackOp'[b] = "done"
  <2>1. CASE b = a
    BY <2>1
  <2>2. CASE b # a
    BY <1>1, <2>2 DEF IInv, TypeOK, OneOwner
  <2> QED
    BY <2>1, <2>2
<1>8. ASSUME NEW b \in completedActionPtrs'
      PROVE  /\ state'[b] \in {"DONE", "PASSED", "FAILED"}
             /\ asyncCallbackOp'[b] = "none"
             /\ state'[b] = "FAILED" => provisions'[b] = <<>> /\ providedFactories'[b] = {}
  BY <1>1, <1>3 DEF IInv, OneOwner
<1>9. OneOwner'
  BY <1>1, <1>6, <1>7, <1>8 DEF IInv, OneOwner
<1>10. \A t \in tagTable' : LiveProvision(t.prov)'
  BY <1>4 DEF IInv, NoDanglingRows
<1>11. \A d \in dependencyTable' :
         /\ d.act \in activeActions' \cup completedActionPtrs'
         /\ d.prov # None => [tag |-> d.tag, prov |-> d.prov] \in tagTable'
  BY <1>1 DEF IInv, NoDanglingRows
<1>12. \A t \in triggers' : LiveFactory(t.fac)'
  BY <1>5 DEF IInv, NoDanglingRows
<1>13. \A r \in actionTriggersTable' :
         r.act \in Live' /\ LiveProvision(r.prov)' /\ LiveFactory(r.fac)'
  BY <1>1, <1>4, <1>5 DEF IInv, NoDanglingRows, Live
<1>14. /\ \A b \in Live' : \E r \in actionTriggersTable' : r.act = b
       /\ \A r, s \in actionTriggersTable' : r.act = s.act => r = s
  BY <1>1 DEF IInv, NoDanglingRows, Live
<1>15. call'.kind = "register" =>
         /\ call'.act = Root \/ call'.act \in completedActionPtrs'
         /\ \A x \in call'.left : LiveProvision(NewRow(x).prov)'
  <2>1. \A x : NewRow(x)' = NewRow(x)
    BY <1>1 DEF NewRow
  <2> QED
    BY <1>1, <1>4, <2>1 DEF IInv, NoDanglingRows, LiveProvision
<1> QED
  BY <1>9, <1>10, <1>11, <1>12, <1>13, <1>14, <1>15 DEF NoDanglingRows

\* A running action keeps the invariant, whatever it asks of its BuildContext.
LEMMA ActionKeeps ==
  ASSUME IInv, NEW a \in Acts,
         \/ Begin(a) \/ Passed(a) \/ Failed(a) \/ NoMoreEvents(a)
         \/ \E t \in Tags : FindProvider(a, t)
         \/ \E f \in Files, T \in SUBSET Tags : Provide(a, f, T)
         \/ \E T \in SUBSET Tags : AddActionType(a, T)
  PROVE  OneOwner' /\ NoDanglingRows'
<1>1. a \in activeActions /\ UNCHANGED <<queueVars, call, rootProvisions>>
  BY DEF Begin, Passed, Failed, NoMoreEvents, Finish, FindProvider, Provide, AddActionType, CanCall
<1>2. IF state[a] = "RUNNING" THEN asyncCallbackOp[a] \in {"none", "start"}
      ELSE state[a] # "PENDING" /\ asyncCallbackOp[a] = "done"
  BY <1>1 DEF IInv, OneOwner
<1>3. CASE Begin(a)
  BY <1>1, <1>2, <1>3, RunningKeeps DEF Begin, IInv, TypeOK, tableVars
<1>4. CASE Passed(a) \/ Failed(a) \/ NoMoreEvents(a)
  BY <1>1, <1>2, <1>4, RunningKeeps
     DEF Passed, Failed, NoMoreEvents, Finish, IInv, TypeOK, tableVars
<1>5. ASSUME NEW t \in Tags, FindProvider(a, t)
      PROVE  OneOwner' /\ NoDanglingRows'
  <2>1. PICK p \in ChoosePreferredProvider(a, t, tagTable) :
          dependencyTable' = dependencyTable \cup {[tag |-> t, act |-> a, prov |-> p]}
    BY <1>5 DEF FindProvider
  <2>2. p # None => [tag |-> t, prov |-> p] \in tagTable
    <3>1. p # None => \E row \in tagTable : row.tag = t /\ row.prov = p
      BY <2>1, ChoiceCarriesTag DEF IInv, TypeOK
    <3> QED
      BY <3>1 DEF IInv, TypeOK, TagRows
  <2> QED
    BY <1>1, <1>2, <1>5, <2>1, <2>2, RunningKeeps DEF FindProvider, actionVars
<1>6. ASSUME NEW f \in Files, NEW T \in SUBSET Tags, Provide(a, f, T)
      PROVE  OneOwner' /\ NoDanglingRows'
  <2>1. \A b \in Acts \ {a} : provisions'[b] = provisions[b] /\ providedTags'[b] = providedTags[b]
    BY <1>6 DEF Provide, IInv, TypeOK
  <2> QED
    BY <1>1, <1>2, <1>6, <2>1, RunningKeeps DEF Provide, tableVars
<1>7. ASSUME NEW T \in SUBSET Tags, AddActionType(a, T)
      PROVE  OneOwner' /\ NoDanglingRows'
  BY <1>1, <1>2, <1>7, RunningKeeps DEF AddActionType, IInv, TypeOK, tableVars
<1> QED
  BY <1>3, <1>4, <1>5, <1>6, <1>7

\* returned() moves the action to completedActionPtrs, with the files that still
\* exist; nobody refers to them yet.
LEMMA ReturnedKeeps ==
  ASSUME IInv, NEW a \in Acts, Returned(a)
  PROVE  OneOwner' /\ NoDanglingRows'
<1>1. /\ a \in activeActions /\ asyncCallbackOp[a] = "done"
      /\ activeActions' = activeActions \ {a}
      /\ completedActionPtrs' = completedActionPtrs \cup {a}
      /\ asyncCallbackOp' = [asyncCallbackOp EXCEPT ![a] = "none"]
      /\ providedTags' = [providedTags EXCEPT ![a] = <<>>]
      /\ UNCHANGED <<pendingActions, state, tableVars, rootProvisions>>
  BY DEF Returned
<1>2. a \notin completedActionPtrs /\ a \notin pendingActions
      /\ state[a] \in {"DONE", "PASSED", "FAILED"}
  <2>1. state[a] \in States
    BY DEF IInv, TypeOK
  <2> QED
    BY <1>1, <2>1 DEF IInv, OneOwner, States
<1>3. \A b \in Acts \ {a} : /\ asyncCallbackOp'[b] = asyncCallbackOp[b]
                            /\ provisions'[b] = provisions[b]
                            /\ providedTags'[b] = providedTags[b]
                            /\ providedFactories'[b] = providedFactories[b]
  BY DEF Returned, IInv, TypeOK
<1>4. asyncCallbackOp'[a] = "none"
  BY <1>1 DEF IInv, TypeOK
<1>5. state[a] = "FAILED" => provisions'[a] = <<>> /\ providedFactories'[a] = {}
  BY DEF Returned, IInv, TypeOK
<1>6. \A b \in completedActionPtrs : b \in Acts \ {a}
  BY <1>2 DEF IInv, TypeOK
<1>7. OneOwner'
  <2>1. ASSUME NEW b \in Acts \ (activeActions' \cup completedActionPtrs')
        PROVE  /\ state'[b] = "PENDING" /\ asyncCallbackOp'[b] = "none"
               /\ provisions'[b] = <<>> /\ providedTags'[b] = <<>>
               /\ providedFactories'[b] = {}
               /\ \A d \in dependencyTable' : d.act # b
    <3>1. b \in Acts \ {a} /\ b \in Acts \ (activeActions \cup completedActionPtrs)
      BY <1>1
    <3> QED
      BY <1>1, <1>3, <3>1 DEF IInv, OneOwner, tableVars
  <2>2. ASSUME NEW b \in activeActions'
        PROVE  IF state'[b] = "RUNNING" THEN asyncCallbackOp'[b] \in {"none", "start"}
               ELSE state'[b] # "PENDING" /\ asyncCallbackOp'[b] = "done"
    BY <1>1, <1>3 DEF IInv, TypeOK, OneOwner
  <2>3. ASSUME NEW b \in completedActionPtrs'
        PROVE  /\ state'[b] \in {"DONE", "PASSED", "FAILED"}
               /\ asyncCallbackOp'[b] = "none"
               /\ state'[b] = "FAILED" => provisions'[b] = <<>> /\ providedFactories'[b] = {}
    BY <1>1, <1>2, <1>3, <1>4, <1>5, <1>6 DEF IInv, OneOwner
  <2> QED
    BY <1>1, <1>2, <2>1, <2>2, <2>3 DEF IInv, OneOwner
<1>8. \A q : LiveProvision(q) => LiveProvision(q)'
  BY <1>1, <1>3, <1>6 DEF LiveProvision
<1>9. \A g : LiveFactory(g) => LiveFactory(g)'
  BY <1>1, <1>3, <1>6 DEF LiveFactory
<1>10. call'.kind = "register" =>
         /\ call'.act = Root \/ call'.act \in completedActionPtrs'
         /\ \A x \in call'.left : LiveProvision(NewRow(x).prov)'
  <2>1. CASE state[a] = "FAILED"
    BY <2>1 DEF Returned, Dispatch
  <2>2. CASE state[a] # "FAILED"
    <3>1. PICK k \in Survivors(provisions[a]) :
            /\ provisions' = [provisions EXCEPT ![a] = [i \in DOMAIN k |-> @[k[i]]]]
            /\ call' = Registering(a, ToRegister(a, k), GetTransitiveDependencies(a))
      BY <2>2 DEF Returned
    <3>2. call'.act = a /\ call'.left = ToRegister(a, k)
      BY <3>1 DEF Registering
    <3>3. a # Root
      BY DriverAssumption
    <3>4. provisions'[a] = [i \in DOMAIN k |-> provisions[a][k[i]]]
      BY <3>1 DEF IInv, TypeOK
    <3>5. ASSUME NEW x \in call'.left
          PROVE  LiveProvision(NewRow(x).prov)'
      <4>1. x.at \in DOMAIN k /\ x.file = provisions[a][k[x.at]]
        BY <3>2 DEF ToRegister
      <4>2. x.at \in DOMAIN provisions'[a] /\ provisions'[a][x.at] = x.file
        BY <3>4, <4>1
      <4>3. a \in completedActionPtrs' /\ state'[a] # "FAILED"
        BY <1>1, <2>2
      <4> QED
        BY <3>2, <3>3, <4>2, <4>3 DEF LiveProvision, NewRow
    <3> QED
      BY <1>1, <3>2, <3>5
  <2> QED
    BY <2>1, <2>2
<1>11. UNCHANGED <<tagTable, dependencyTable, triggers, actionTriggersTable>> /\ Live' = Live
  BY <1>1 DEF tableVars, Live
<1>12. \A t \in tagTable' : LiveProvision(t.prov)'
  BY <1>8, <1>11 DEF IInv, NoDanglingRows
<1>13. \A d \in dependencyTable' :
         /\ d.act \in activeActions' \cup completedActionPtrs'
         /\ d.prov # None => [tag |-> d.tag, prov |-> d.prov] \in tagTable'
  BY <1>1, <1>11 DEF IInv, NoDanglingRows
<1>14. \A t \in triggers' : LiveFactory(t.fac)'
  BY <1>9, <1>11 DEF IInv, NoDanglingRows
<1>15. \A r \in actionTriggersTable' :
         r.act \in Live' /\ LiveProvision(r.prov)' /\ LiveFactory(r.fac)'
  BY <1>8, <1>9, <1>11 DEF IInv, NoDanglingRows
<1>16. /\ \A b \in Live' : \E r \in actionTriggersTable' : r.act = b
       /\ \A r, s \in actionTriggersTable' : r.act = s.act => r = s
  BY <1>11 DEF IInv, NoDanglingRows
<1> QED
  BY <1>7, <1>10, <1>12, <1>13, <1>14, <1>15, <1>16 DEF NoDanglingRows

\* Registering the factory that an action provided keeps the invariant.
LEMMA RegisterFactoryKeeps ==
  ASSUME IInv, RegisterFactory
  PROVE  OneOwner' /\ NoDanglingRows'
<1> DEFINE learned == IF call.act = Root THEN {} ELSE providedFactories[call.act]
           jobs    == Rescan(call.act, learned)
<1>1. /\ UNCHANGED <<activeActions, completedActionPtrs, actionVars, tagTable,
                     dependencyTable, rootProvisions>>
      /\ triggers' = triggers \cup {[tag |-> t, fac |-> call.act] : t \in learned}
      /\ QueueNewActions(jobs, pendingActions, actionTriggersTable)
      /\ call'.kind = "dispatch"
      /\ call.kind = "register"
  BY DEF RegisterFactory, Dispatch
<1>2. learned # {} => LiveFactory(call.act)
  BY <1>1 DEF IInv, NoDanglingRows, LiveFactory
<1>3. \A j \in jobs : /\ LiveFactory(j.fac)
                      /\ LiveProvision(j.prov)
  <2>1. \A j \in jobs : learned # {} /\ j.fac = call.act /\ \E t \in tagTable : j.prov = t.prov
    BY DEF Rescan
  <2> HIDE DEF jobs, learned
  <2> QED
    BY <1>2, <2>1 DEF IInv, NoDanglingRows
<1>4. /\ pendingActions \subseteq pendingActions'
      /\ (pendingActions' \ pendingActions) \cap (activeActions' \cup completedActionPtrs') = {}
      /\ actionTriggersTable \subseteq actionTriggersTable'
      /\ \A r \in actionTriggersTable' \ actionTriggersTable :
           /\ \E j \in jobs : r.fac = j.fac /\ r.prov = j.prov
           /\ r.act \in pendingActions' \ pendingActions
      /\ \A a \in pendingActions' \ pendingActions : \E r \in actionTriggersTable' : r.act = a
      /\ \A r, s \in actionTriggersTable' : r.act = s.act => r = s
  <2>1. \A r \in actionTriggersTable :
          r.act \in pendingActions \cup activeActions' \cup completedActionPtrs'
    BY <1>1 DEF IInv, NoDanglingRows, Live
  <2>2. \A r, s \in actionTriggersTable : r.act = s.act => r = s
    BY DEF IInv, NoDanglingRows
  <2>3. pendingActions \in SUBSET Acts /\ actionTriggersTable \in SUBSET ActionRows
    BY DEF IInv, TypeOK
  <2> HIDE DEF jobs
  <2> QED
    BY <1>1, <2>1, <2>2, <2>3, QueueKeeps DEF IInv
<1> HIDE DEF jobs, learned
<1>5. /\ \A q : LiveProvision(q)' = LiveProvision(q)
      /\ \A g : LiveFactory(g)' = LiveFactory(g)
  BY <1>1 DEF LiveProvision, LiveFactory, actionVars
<1>6. OneOwner'
  BY <1>1, <1>4 DEF IInv, OneOwner, actionVars
<1>7. /\ \A t \in tagTable' : LiveProvision(t.prov)'
      /\ \A d \in dependencyTable' :
           /\ d.act \in activeActions' \cup completedActionPtrs'
           /\ d.prov # None => [tag |-> d.tag, prov |-> d.prov] \in tagTable'
  BY <1>1, <1>5 DEF IInv, NoDanglingRows
<1>8. \A t \in triggers' : LiveFactory(t.fac)'
  BY <1>1, <1>2, <1>5 DEF IInv, NoDanglingRows
<1>9. \A r \in actionTriggersTable' :
        r.act \in Live' /\ LiveProvision(r.prov)' /\ LiveFactory(r.fac)'
  <2> SUFFICES ASSUME NEW r \in actionTriggersTable'
               PROVE  r.act \in Live' /\ LiveProvision(r.prov)' /\ LiveFactory(r.fac)'
    OBVIOUS
  <2>1. CASE r \in actionTriggersTable
    BY <1>1, <1>4, <1>5, <2>1 DEF IInv, NoDanglingRows, Live
  <2>2. CASE r \notin actionTriggersTable
    BY <1>3, <1>4, <1>5, <2>2 DEF Live
  <2> QED
    BY <2>1, <2>2
<1>10. \A a \in Live' : \E r \in actionTriggersTable' : r.act = a
  BY <1>1, <1>4 DEF IInv, NoDanglingRows, Live
<1> QED
  BY <1>1, <1>4, <1>6, <1>7, <1>8, <1>9, <1>10 DEF NoDanglingRows

\* start() finds what it asserts: a queued action is clean.
LEMMA StartKeeps ==
  ASSUME IInv, StartSomeActions
  PROVE  OneOwner' /\ NoDanglingRows'
<1>1. PICK S \in SUBSET pendingActions :
        /\ pendingActions' = pendingActions \ S
        /\ activeActions' = activeActions \cup S
        /\ state' = [a \in Acts |-> IF a \in S THEN "RUNNING" ELSE state[a]]
        /\ asyncCallbackOp' = [a \in Acts |-> IF a \in S THEN "start" ELSE asyncCallbackOp[a]]
  BY DEF StartSomeActions
<1>2. /\ UNCHANGED <<completedActionPtrs, provisions, providedTags, providedFactories,
                     tableVars, rootProvisions>>
      /\ call'.kind = "none"
  BY DEF StartSomeActions, NoCall
<1>3. S \subseteq Acts /\ S \cap activeActions = {} /\ S \cap completedActionPtrs = {}
  BY DEF IInv, TypeOK, OneOwner
<1>4. \A a \in Acts \ S : state'[a] = state[a] /\ asyncCallbackOp'[a] = asyncCallbackOp[a]
  BY <1>1
<1>5. \A a \in S : state'[a] = "RUNNING" /\ asyncCallbackOp'[a] = "start"
  BY <1>1, <1>3
<1>6. \A a \in completedActionPtrs : a \in Acts \ S
  BY <1>3 DEF IInv, TypeOK
<1>7. OneOwner'
  <2>1. ASSUME NEW b \in activeActions'
        PROVE  IF state'[b] = "RUNNING" THEN asyncCallbackOp'[b] \in {"none", "start"}
               ELSE state'[b] # "PENDING" /\ asyncCallbackOp'[b] = "done"
    <3>1. CASE b \in S
      BY <1>5, <3>1
    <3>2. CASE b \notin S
      BY <1>1, <1>4, <3>2 DEF IInv, TypeOK, OneOwner
    <3> QED
      BY <3>1, <3>2
  <2>2. ASSUME NEW b \in completedActionPtrs'
        PROVE  /\ state'[b] \in {"DONE", "PASSED", "FAILED"}
               /\ asyncCallbackOp'[b] = "none"
               /\ state'[b] = "FAILED" => provisions'[b] = <<>> /\ providedFactories'[b] = {}
    BY <1>2, <1>4, <1>6 DEF IInv, OneOwner
  <2>3. ASSUME NEW b \in Acts \ (activeActions' \cup completedActionPtrs')
        PROVE  /\ state'[b] = "PENDING" /\ asyncCallbackOp'[b] = "none"
               /\ provisions'[b] = <<>> /\ providedTags'[b] = <<>>
               /\ providedFactories'[b] = {}
               /\ \A d \in dependencyTable' : d.act # b
    <3>1. b \in Acts \ S /\ b \in Acts \ (activeActions \cup completedActionPtrs)
      BY <1>1, <1>2
    <3> QED
      BY <1>2, <1>4, <3>1 DEF IInv, OneOwner, tableVars
  <2> QED
    BY <1>1, <1>2, <1>3, <2>1, <2>2, <2>3 DEF IInv, OneOwner
<1>8. /\ \A q : LiveProvision(q) => LiveProvision(q)'
      /\ \A g : LiveFactory(g) => LiveFactory(g)'
  BY <1>2, <1>4, <1>6 DEF LiveProvision, LiveFactory
<1>9. Live' = Live
  BY <1>1, <1>2 DEF Live
<1> QED
  BY <1>1, <1>2, <1>7, <1>8, <1>9 DEF IInv, NoDanglingRows, tableVars

\* registerProvider() keeps the invariant, whether or not an assertion fails.
LEMMA RegisterProviderKeeps ==
  ASSUME IInv, RegisterProvider
  PROVE  OneOwner' /\ NoDanglingRows'
<1>1. PICK x \in call.left : \E hit \in SUBSET Disturbed(x.tag, tagTable \cup {NewRow(x)}) :
        \/ Abort
        \/ /\ call.act \notin ResetCascade({d.act : d \in hit})
           /\ RegisterTag(x, ResetCascade({d.act : d \in hit}))
  BY RegisterStep DEF IInv
<1>2. PICK hit \in SUBSET Disturbed(x.tag, tagTable \cup {NewRow(x)}) :
        \/ Abort
        \/ /\ call.act \notin ResetCascade({d.act : d \in hit})
           /\ RegisterTag(x, ResetCascade({d.act : d \in hit}))
  BY <1>1
<1>3. CASE Abort
  <2>1. UNCHANGED <<queueVars, actionVars, tableVars, rootProvisions, call>>
    BY <1>3 DEF Abort
  <2> QED
    BY <2>1 DEF IInv, OneOwner, NoDanglingRows, LiveProvision, LiveFactory, NewRow, Live,
                queueVars, actionVars, tableVars
<1>4. {d.act : d \in hit} \in SUBSET Live
  <2>1. \A d \in hit : d \in dependencyTable
    BY DEF Disturbed
  <2>2. \A d \in hit : d.act \in Live
    BY <2>1 DEF IInv, NoDanglingRows, Live
  <2> QED
    BY <2>2
<1>5. call.kind = "register"
  BY DEF RegisterProvider
<1> QED
  BY <1>2, <1>3, <1>4, <1>5, RegisterTagKeeps

\* Every step keeps the invariant.
LEMMA NextKeeps ==
  ASSUME IInv, [Next]_vars
  PROVE  IInv'
<1>1. TypeOK'
  BY NextType DEF IInv
<1>2. OneOwner' /\ NoDanglingRows'
  <2>1. CASE UNCHANGED vars
    BY <2>1 DEF IInv, OneOwner, NoDanglingRows, LiveProvision, LiveFactory, NewRow, Live,
                vars, queueVars, actionVars, tableVars
  <2>2. CASE Next
    <3>1. ASSUME NEW f \in SourceFiles, AddSourceFile(f) \/ RemoveSourceFile(f)
          PROVE  OneOwner' /\ NoDanglingRows'
      BY <3>1, SourceKeeps
    <3>2. ASSUME NEW a \in Acts, Begin(a) \/ Passed(a) \/ Failed(a) \/ NoMoreEvents(a)
          PROVE  OneOwner' /\ NoDanglingRows'
      BY <3>2, ActionKeeps
    <3>3. ASSUME NEW a \in Acts, Returned(a)
          PROVE  OneOwner' /\ NoDanglingRows'
      BY <3>3, ReturnedKeeps
    <3>4. ASSUME NEW a \in Acts, NEW t \in Tags, FindProvider(a, t)
          PROVE  OneOwner' /\ NoDanglingRows'
      BY <3>4, ActionKeeps
    <3>5. ASSUME NEW a \in Acts, NEW f \in Files, NEW T \in SUBSET Tags, Provide(a, f, T)
          PROVE  OneOwner' /\ NoDanglingRows'
      BY <3>5, ActionKeeps
    <3>6. ASSUME NEW a \in Acts, NEW T \in SUBSET Tags, AddActionType(a, T)
          PROVE  OneOwner' /\ NoDanglingRows'
      BY <3>6, ActionKeeps
    <3>7. CASE RegisterProvider
      BY <3>7, RegisterProviderKeeps
    <3>8. CASE RegisterFactory
      BY <3>8, RegisterFactoryKeeps
    <3>9. CASE StartSomeActions
      BY <3>9, StartKeeps
    <3> QED
      BY <2>2, <3>1, <3>2, <3>3, <3>4, <3>5, <3>6, <3>7, <3>8, <3>9 DEF Next
  <2> QED
    BY <2>1, <2>2
<1> QED
  BY <1>1, <1>2 DEF IInv

\* The driver starts with empty queues and tables, and the built-in factories.
LEMMA InitKeeps == Init => IInv
<1> SUFFICES ASSUME Init PROVE IInv
  OBVIOUS
<1>1. TypeOK
  BY InitType
<1>2. OneOwner
  BY DEF Init, OneOwner
<1>3. NoDanglingRows
  BY DEF Init, NoDanglingRows, LiveFactory, Live, NoCall
<1> QED
  BY <1>1, <1>2, <1>3 DEF IInv

\* The invariant holds in every reachable state.
THEOREM Invariant == Spec => []IInv
BY InitKeeps, NextKeeps, PTL DEF Spec

\* An ActionDriver is always in exactly the container that its state and its
\* queued callback say, so no callback is lost and start() finds it clean.
THEOREM OwnersAgree == Spec => []OneOwner
<1>1. IInv => OneOwner
  BY DEF IInv
<1> QED
  BY <1>1, Invariant, PTL

\* No row of a table, and nothing on the stack of returned(), refers to what a
\* cascade of resets has freed.
THEOREM RowsAreLive == Spec => []NoDanglingRows
<1>1. IInv => NoDanglingRows
  BY DEF IInv
<1> QED
  BY <1>1, Invariant, PTL

-----------------------------------------------------------------------------
(***************************************************************************)
(* The build does not chase itself: what the shield of registerProvider()  *)
(* is worth.                                                               *)
(***************************************************************************)

\* The shield of returned(), computed before the first output is registered,
\* still covers what the action is built from as later ones are.
ShieldCovers ==
  call.kind = "register" /\ call.act \in Acts =>
    GetTransitiveDependencies(call.act) \subseteq call.shield

\* The two directions of getTransitiveDependencies(): a reset that spreads only
\* to what was built from its victims, and spares what a is built from, spares a.
LEMMA SparedWithDependencies ==
  ASSUME NEW a, NEW S \in SUBSET Acts,
         a \in Acts => GetTransitiveDependencies(a) \cap S = {}
  PROVE  a \notin Closure(S, {e \in Acts \X Acts : BuiltFrom(e[2], e[1])})
<1> DEFINE up   == {e \in Acts \X Acts : BuiltFrom(e[1], e[2])}
           down == {e \in Acts \X Acts : BuiltFrom(e[2], e[1])}
           N    == Acts \ Closure({a}, up)
<1>1. CASE a \notin Acts
  <2>1. Closure(S, down) \subseteq Acts
    <3> HIDE DEF down
    <3> QED
      BY ClosureContains
  <2> QED
    BY <1>1, <2>1
<1>2. CASE a \in Acts
  <2>1. a \in Closure({a}, up)
    <3> HIDE DEF up
    <3> QED
      BY <1>2, ClosureContains
  <2>2. N \in SUBSET Acts /\ S \subseteq N
    BY <1>2 DEF GetTransitiveDependencies
  <2>3. ASSUME NEW e \in down, e[1] \in N, e[2] \notin N
        PROVE  FALSE
    <3>1. e[1] \in Acts /\ e[2] \in Acts /\ e[2] \in Closure({a}, up) /\ <<e[2], e[1]>> \in up
      BY <2>3
    <3> HIDE DEF up
    <3>2. e[1] \in Closure({a}, up)
      BY <3>1, ClosureClosed
    <3> QED
      BY <2>3, <3>2
  <2>4. Closure(S, down) \subseteq N
    <3> HIDE DEF N, down
    <3> QED
      BY <2>2, <2>3, ClosureLeast
  <2> QED
    BY <2>1, <2>4
<1> QED
  BY <1>1, <1>2

\* Registering a tag takes rows away, and adds rows for actions triggered by the
\* registering action itself: what that is built from does not grow.
LEMMA RegisterTagCovers ==
  ASSUME IInv, ShieldCovers, call.kind = "register", NEW x \in call.left, NEW R,
         RegisterTag(x, R)
  PROVE  ShieldCovers'
<1> DEFINE rows == {r \in actionTriggersTable : r.act \notin Deleted(R, {})}
           up   == {e \in Acts \X Acts : BuiltFrom(e[1], e[2])}
           new  == {e \in Acts \X Acts : BuiltFrom(e[1], e[2])'}
           C    == Closure({call.act}, up)
<1>1. call'.act = call.act /\ call'.shield = call.shield
  BY DEF RegisterTag, Registering
<1>2. SUFFICES ASSUME call.act \in Acts
               PROVE  Closure({call.act}, new) \subseteq call.shield
  BY <1>1 DEF ShieldCovers, GetTransitiveDependencies, Closure
<1>3. dependencyTable' \subseteq dependencyTable
  BY DEF RegisterTag, Reset
<1>4. ASSUME NEW r \in actionTriggersTable'
      PROVE  r \in actionTriggersTable \/ r.prov.by = call.act
  BY DEF RegisterTag, QueueNewActions, NewRow
<1>5. call.act \in C /\ C \subseteq Acts
  <2> HIDE DEF up
  <2> QED
    BY <1>2, ClosureContains
<1>6. ASSUME NEW e \in new, e[1] \in C
      PROVE  e[2] \in C
  <2>1. e[1] \in Acts /\ e[2] \in Acts
    OBVIOUS
  <2>2. BuiltFrom(e[1], e[2]) \/ e[2] = call.act
    BY <1>3, <1>4 DEF BuiltFrom
  <2>3. CASE BuiltFrom(e[1], e[2])
    <3>1. <<e[1], e[2]>> \in up
      BY <2>1, <2>3
    <3> HIDE DEF up
    <3> QED
      BY <1>6, <2>1, <3>1, ClosureClosed
  <2> QED
    BY <1>5, <2>2, <2>3
<1>7. Closure({call.act}, new) \subseteq C
  <2>1. {call.act} \subseteq C
    BY <1>5
  <2> HIDE DEF C, new
  <2> QED
    BY <1>5, <1>6, <2>1, ClosureLeast
<1>8. C \subseteq call.shield
  BY <1>2 DEF ShieldCovers, GetTransitiveDependencies
<1> QED
  BY <1>7, <1>8

\* Every step keeps ShieldCovers.
LEMMA NextCovers ==
  ASSUME IInv, ShieldCovers, [Next]_vars
  PROVE  ShieldCovers'
<1>1. CASE UNCHANGED vars
  BY <1>1 DEF ShieldCovers, GetTransitiveDependencies, Closure, BuiltFrom, vars, tableVars
<1>2. ASSUME NEW a \in Acts, Returned(a)
      PROVE  ShieldCovers'
  <2>1. GetTransitiveDependencies(a)' = GetTransitiveDependencies(a)
    BY <1>2 DEF Returned, tableVars, GetTransitiveDependencies, Closure, BuiltFrom
  <2>2. CASE state[a] = "FAILED"
    BY <1>2, <2>2 DEF Returned, Dispatch, ShieldCovers
  <2>3. CASE state[a] # "FAILED"
    <3>1. call'.act = a /\ call'.shield = GetTransitiveDependencies(a)
      BY <1>2, <2>3 DEF Returned, Registering
    <3>2. Closure({a}, {e \in Acts \X Acts : BuiltFrom(e[1], e[2])'}) \subseteq call'.shield
      BY <2>1, <3>1 DEF GetTransitiveDependencies, Closure
    <3> QED
      BY <3>1, <3>2 DEF ShieldCovers, GetTransitiveDependencies, Closure
  <2> QED
    BY <2>2, <2>3
<1>3. CASE RegisterProvider
  <2>1. PICK x \in call.left : \E hit \in SUBSET Disturbed(x.tag, tagTable \cup {NewRow(x)}) :
          Abort \/ RegisterTag(x, ResetCascade({d.act : d \in hit}))
    BY <1>3, RegisterStep DEF IInv
  <2>2. PICK hit \in SUBSET Disturbed(x.tag, tagTable \cup {NewRow(x)}) :
          Abort \/ RegisterTag(x, ResetCascade({d.act : d \in hit}))
    BY <2>1
  <2>3. CASE Abort
    <3>1. UNCHANGED <<tableVars, call>>
      BY <2>3 DEF Abort
    <3> QED
      BY <3>1 DEF ShieldCovers, GetTransitiveDependencies, Closure, BuiltFrom, tableVars
  <2>4. call.kind = "register"
    BY <1>3 DEF RegisterProvider
  <2> QED
    BY <2>2, <2>3, <2>4, RegisterTagCovers
<1>4. ASSUME NEW f \in SourceFiles, AddSourceFile(f) \/ RemoveSourceFile(f)
      PROVE  ShieldCovers'
  <2>1. call'.kind = "dispatch" \/ call'.act = Root
    BY <1>4 DEF AddSourceFile, RemoveSourceFile, Registering, Dispatch
  <2> QED
    BY <2>1, DriverAssumption DEF ShieldCovers
<1>5. CASE RegisterFactory \/ StartSomeActions
  BY <1>5 DEF RegisterFactory, StartSomeActions, Dispatch, NoCall, ShieldCovers
<1>6. ASSUME NEW a \in Acts,
             \/ Begin(a) \/ Passed(a) \/ Failed(a) \/ NoMoreEvents(a)
             \/ \E t \in Tags : FindProvider(a, t)
             \/ \E f \in Files, T \in SUBSET Tags : Provide(a, f, T)
             \/ \E T \in SUBSET Tags : AddActionType(a, T)
      PROVE  ShieldCovers'
  <2>1. call.kind = "none" /\ call' = call
    BY <1>6 DEF Begin, Passed, Failed, NoMoreEvents, Finish, FindProvider, Provide,
                AddActionType, CanCall, Idle
  <2> QED
    BY <2>1 DEF ShieldCovers
<1> QED
  BY <1>1, <1>2, <1>3, <1>4, <1>5, <1>6 DEF Next

\* What resetDependentActions(tag) starts from is not in the shield.
LEMMA ShieldSpares ==
  ASSUME IInv, ShieldCovers, call.kind = "register", NEW x \in call.left,
         NEW hit \in SUBSET Disturbed(x.tag, tagTable \cup {NewRow(x)})
  PROVE  call.act \notin Closure({d.act : d \in hit},
                                 {e \in Acts \X Acts : BuiltFrom(e[2], e[1])})
<1> DEFINE S == {d.act : d \in hit}
<1>1. \A d \in hit : d.act \in Acts /\ d.act \notin call.shield
  BY DEF Disturbed, IInv, TypeOK, DepRows
<1>2. S \in SUBSET Acts /\ S \cap call.shield = {}
  BY <1>1
<1>3. call.act \in Acts => GetTransitiveDependencies(call.act) \cap S = {}
  BY <1>2 DEF ShieldCovers
<1> HIDE DEF S
<1>4. call.act \notin Closure(S, {e \in Acts \X Acts : BuiltFrom(e[2], e[1])})
  BY <1>2, <1>3, SparedWithDependencies
<1> QED
  BY <1>4 DEF S

\* No registration resets the registering action by way of what it was built
\* from: actions that want each other's outputs do not rebuild each other for ever.
THEOREM BuildDoesNotChaseItself == Spec => []NoSelfReset
<1>1. Init => ShieldCovers
  BY DEF Init, ShieldCovers, NoCall
<1>2. IInv /\ ShieldCovers /\ [Next]_vars => ShieldCovers'
  BY NextCovers
<1>3. IInv /\ ShieldCovers => NoSelfReset
  <2> SUFFICES ASSUME IInv, ShieldCovers, call.kind = "register", NEW x \in call.left
               PROVE  call.act \notin
                        Closure({d.act : d \in Disturbed(x.tag, tagTable \cup {NewRow(x)})},
                                {e \in Acts \X Acts : BuiltFrom(e[2], e[1])})
    BY DEF NoSelfReset
  <2> DEFINE hit == Disturbed(x.tag, tagTable \cup {NewRow(x)})
  <2>1. hit \in SUBSET Disturbed(x.tag, tagTable \cup {NewRow(x)})
    OBVIOUS
  <2> HIDE DEF hit
  <2>2. call.act \notin Closure({d.act : d \in hit},
                                {e \in Acts \X Acts : BuiltFrom(e[2], e[1])})
    BY <2>1, ShieldSpares
  <2> QED
    BY <2>2 DEF hit
<1> QED
  BY <1>1, <1>2, <1>3, Invariant, PTL DEF Spec

\* No action has provided a rule, so every action was made by a built-in factory.
NoRules ==
  /\ \A a \in Acts : providedFactories[a] = {}
  /\ \A t \in triggers : t.fac \in Builtin
  /\ \A r \in actionTriggersTable : r.fac \in Builtin

\* Nothing learns: what triggers hold is what addActionFactory() put there.
LEMMA NextNoRules ==
  ASSUME \A j \in Kinds \X Files : Learns[j] \subseteq {{}},
         IInv, NoRules, [Next]_vars
  PROVE  NoRules'
<1>1. CASE UNCHANGED vars
  BY <1>1 DEF NoRules, vars, tableVars, actionVars
<1>2. ASSUME NEW R, Reset(R)
      PROVE  /\ \A a \in Acts : providedFactories'[a] = {}
             /\ triggers' \subseteq triggers
  BY <1>2 DEF Reset, Clear, NoRules
<1>3. ASSUME NEW f \in SourceFiles, AddSourceFile(f) \/ RemoveSourceFile(f)
      PROVE  NoRules'
  <2>1. PICK R : Reset(R)
    BY <1>3 DEF AddSourceFile, RemoveSourceFile, ResetSource
  <2>2. actionTriggersTable' \subseteq actionTriggersTable
    BY <1>3 DEF AddSourceFile, RemoveSourceFile, ResetSource
  <2> QED
    BY <1>2, <2>1, <2>2 DEF NoRules
<1>4. CASE RegisterProvider
  <2>1. PICK x \in call.left : \E hit \in SUBSET Disturbed(x.tag, tagTable \cup {NewRow(x)}) :
          Abort \/ RegisterTag(x, ResetCascade({d.act : d \in hit}))
    BY <1>4, RegisterStep DEF IInv
  <2>2. PICK R : Abort \/ RegisterTag(x, R)
    BY <2>1
  <2>3. CASE Abort
    BY <2>3 DEF Abort, NoRules, tableVars, actionVars
  <2>4. CASE RegisterTag(x, R)
    <3>1. \A r \in actionTriggersTable' :
            r \in actionTriggersTable \/ \E t \in triggers : r.fac = t.fac
      BY <2>4 DEF RegisterTag, QueueNewActions
    <3>2. Reset(R)
      BY <2>4 DEF RegisterTag
    <3> QED
      BY <1>2, <3>1, <3>2 DEF NoRules
  <2> QED
    BY <2>2, <2>3, <2>4
<1>5. CASE RegisterFactory
  <2> DEFINE learned == IF call.act = Root THEN {} ELSE providedFactories[call.act]
  <2>1. learned = {}
    BY <1>5 DEF NoRules, IInv, TypeOK, Calls, Creators, RegisterFactory
  <2>2. Rescan(call.act, learned) = {}
    BY <2>1 DEF Rescan
  <2>3. \A r \in actionTriggersTable' : r \in actionTriggersTable
    <3>1. QueueNewActions(Rescan(call.act, learned), pendingActions, actionTriggersTable)
      BY <1>5 DEF RegisterFactory
    <3>2. QueueNewActions({}, pendingActions, actionTriggersTable)
      BY <2>2, <3>1
    <3> QED
      BY <3>2 DEF QueueNewActions
  <2>4. triggers' = triggers
    BY <1>5, <2>1 DEF RegisterFactory
  <2> QED
    BY <1>5, <2>3, <2>4 DEF RegisterFactory, actionVars, NoRules
<1>6. ASSUME NEW a \in Acts, NEW T \in SUBSET Tags, AddActionType(a, T)
      PROVE  NoRules'
  <2>1. \E r \in actionTriggersTable : r.act = a
    BY <1>6 DEF AddActionType, CanCall, IInv, NoDanglingRows, Live
  <2>2. Origin(a) \in actionTriggersTable
    BY <2>1 DEF Origin
  <2>3. Job(a) \in Kinds \X Files
    BY <2>2 DEF Job, Srcfile, Kinds, IInv, TypeOK, ActionRows, Provisions
  <2>4. T = {}
    <3>1. T \in Learns[Job(a)]
      BY <1>6 DEF AddActionType
    <3> QED
      BY <2>3, <3>1
  <2>5. \A b \in Acts : providedFactories'[b] = {}
    BY <1>6, <2>4 DEF AddActionType, NoRules, IInv, TypeOK
  <2> QED
    BY <1>6, <2>5 DEF AddActionType, NoRules, tableVars
<1>7. ASSUME NEW a \in Acts,
             \/ Begin(a) \/ Passed(a) \/ Failed(a) \/ NoMoreEvents(a) \/ Returned(a)
             \/ \E t \in Tags : FindProvider(a, t)
             \/ \E f \in Files, T \in SUBSET Tags : Provide(a, f, T)
      PROVE  NoRules'
  BY <1>7 DEF Begin, Passed, Failed, NoMoreEvents, Finish, FindProvider, Provide, Returned,
              NoRules, tableVars, actionVars, IInv, TypeOK
<1>8. CASE StartSomeActions
  BY <1>8 DEF StartSomeActions, NoRules, tableVars
<1> QED
  BY <1>1, <1>3, <1>4, <1>5, <1>6, <1>7, <1>8 DEF Next

\* Without learned rules the assertion of reset() holds: the only way from an
\* action's outputs back to the action is by a rule that made it.
THEOREM AssertionHoldsWithoutRules ==
  ASSUME \A j \in Kinds \X Files : Learns[j] \subseteq {{}}
  PROVE  Spec => []AssertionHolds
<1>1. Init => ShieldCovers /\ NoRules /\ AssertionHolds
  BY DEF Init, ShieldCovers, NoCall, NoRules, AssertionHolds
<1>2. IInv /\ ShieldCovers /\ NoRules /\ [Next]_vars => ShieldCovers' /\ NoRules'
  BY NextCovers, NextNoRules
<1>3. IInv /\ ShieldCovers /\ NoRules /\ AssertionHolds /\ [Next]_vars => AssertionHolds'
  <2> SUFFICES ASSUME IInv, ShieldCovers, NoRules, ~aborted, [Next]_vars
               PROVE  ~aborted'
    BY DEF AssertionHolds
  <2>1. CASE ~RegisterProvider
    BY <2>1 DEF Next, AddSourceFile, RemoveSourceFile, Begin, Passed, Failed, NoMoreEvents,
                Finish, FindProvider, Provide, AddActionType, Returned, RegisterFactory,
                StartSomeActions, vars
  <2>2. CASE RegisterProvider
    <3>1. PICK x \in call.left : \E hit \in SUBSET Disturbed(x.tag, tagTable \cup {NewRow(x)}) :
            \/ call.act \in ResetCascade({d.act : d \in hit}) /\ Abort
            \/ RegisterTag(x, ResetCascade({d.act : d \in hit}))
      BY <2>2, RegisterStep DEF IInv
    <3>2. PICK hit \in SUBSET Disturbed(x.tag, tagTable \cup {NewRow(x)}) :
            \/ call.act \in ResetCascade({d.act : d \in hit}) /\ Abort
            \/ RegisterTag(x, ResetCascade({d.act : d \in hit}))
      BY <3>1
    <3>3. \A e \in Acts \X Acts : ~MadeBy(e[2], e[1])
      BY DriverAssumption DEF MadeBy, NoRules
    <3>4. ResetCascade({d.act : d \in hit}) =
            Closure({d.act : d \in hit}, {e \in Acts \X Acts : BuiltFrom(e[2], e[1])})
      BY <3>3 DEF ResetCascade
    <3>5. call.act \notin ResetCascade({d.act : d \in hit})
      BY <2>2, <3>4, ShieldSpares DEF RegisterProvider
    <3> QED
      BY <3>2, <3>5 DEF RegisterTag
  <2> QED
    BY <2>1, <2>2
<1> QED
  BY <1>1, <1>2, <1>3, Invariant, PTL DEF Spec

-----------------------------------------------------------------------------
(***************************************************************************)
(* The end of a handler.                                                   *)
(***************************************************************************)

\* A step within a running action leaves the queues to the handlers; a handler
\* starts no action before its last step, and reports nothing.
LEMMA HandlerSteps ==
  ASSUME [Next]_vars
  PROVE  \/ /\ UNCHANGED <<queueVars, call, report>>
            /\ UNCHANGED state \/ activeActions # {}
         \/ /\ call'.kind # "none"
            /\ report' = report
            /\ activeActions' \subseteq activeActions
         \/ StartSomeActions
<1> DEFINE Goal == \/ /\ UNCHANGED <<queueVars, call, report>>
                      /\ UNCHANGED state \/ activeActions # {}
                   \/ /\ call'.kind # "none"
                      /\ report' = report
                      /\ activeActions' \subseteq activeActions
                   \/ StartSomeActions
<1>1. CASE UNCHANGED vars
  BY <1>1 DEF vars, actionVars
<1>2. ASSUME NEW f \in SourceFiles, AddSourceFile(f)
      PROVE  Goal
  <2>1. call'.kind = "register" /\ report' = report /\ ResetSource(f)
    BY <1>2 DEF AddSourceFile, Registering
  <2> QED
    BY <2>1 DEF ResetSource, Reset
<1>3. ASSUME NEW f \in SourceFiles, RemoveSourceFile(f)
      PROVE  Goal
  <2>1. call'.kind = "dispatch" /\ report' = report /\ ResetSource(f)
    BY <1>3 DEF RemoveSourceFile, Dispatch
  <2> QED
    BY <2>1 DEF ResetSource, Reset
<1>4. ASSUME NEW a \in Acts, Returned(a)
      PROVE  Goal
  BY <1>4 DEF Returned, Registering, Dispatch
<1>5. CASE RegisterFactory
  BY <1>5 DEF RegisterFactory, Dispatch
<1>6. CASE RegisterProvider
  <2>1. call.kind = "register"
    BY <1>6 DEF RegisterProvider
  <2>2. \E x, R : Abort \/ RegisterTag(x, R)
    BY <1>6 DEF RegisterProvider
  <2> QED
    BY <2>1, <2>2 DEF Abort, RegisterTag, Reset, Registering, queueVars
<1>7. ASSUME NEW a \in Acts,
             \/ Begin(a) \/ Passed(a) \/ Failed(a) \/ NoMoreEvents(a)
             \/ \E t \in Tags : FindProvider(a, t)
             \/ \E f \in Files, T \in SUBSET Tags : Provide(a, f, T)
             \/ \E T \in SUBSET Tags : AddActionType(a, T)
      PROVE  Goal
  BY <1>7 DEF Begin, Passed, Failed, NoMoreEvents, Finish, FindProvider, Provide,
              AddActionType, CanCall, queueVars
<1> QED
  BY <1>1, <1>2, <1>3, <1>4, <1>5, <1>6, <1>7 DEF Next

\* When no handler runs, no action waits while a slot is free.
THEOREM SlotsAreUsed == Spec => []NoIdleSlot
<1>1. Init => NoIdleSlot
  BY DEF Init, NoIdleSlot
<1>2. NoIdleSlot /\ [Next]_vars => NoIdleSlot'
  <2> SUFFICES ASSUME NoIdleSlot, [Next]_vars
               PROVE  NoIdleSlot'
    OBVIOUS
  <2>1. CASE StartSomeActions
    BY <2>1 DEF StartSomeActions, NoIdleSlot
  <2>2. CASE UNCHANGED <<queueVars, call>>
    BY <2>2 DEF NoIdleSlot, queueVars
  <2>3. CASE call'.kind # "none"
    BY <2>3 DEF NoIdleSlot
  <2> QED
    BY <2>1, <2>2, <2>3, HandlerSteps
<1> QED
  BY <1>1, <1>2, PTL DEF Spec

\* When no handler runs, the observer was told last that the build goes on if
\* an action is active, and otherwise how the actions, as they are, have ended.
THEOREM ReportedAsIs == Spec => []ReportIsCurrent
<1> DEFINE Building == activeActions # {} => report = "building"
<1>1. Init => ReportIsCurrent /\ Building
  BY DEF Init, ReportIsCurrent, Live
<1>2. TypeOK /\ ReportIsCurrent /\ Building /\ [Next]_vars => (ReportIsCurrent /\ Building)'
  <2> SUFFICES ASSUME TypeOK, ReportIsCurrent, Building, [Next]_vars
               PROVE  (ReportIsCurrent /\ Building)'
    OBVIOUS
  <2>1. CASE UNCHANGED <<queueVars, call, report>> /\ UNCHANGED state
    BY <2>1 DEF ReportIsCurrent, Verdict, Live, queueVars
  <2>2. CASE UNCHANGED <<queueVars, call, report>> /\ activeActions # {}
    BY <2>2 DEF ReportIsCurrent, queueVars
  <2>3. CASE call'.kind # "none" /\ report' = report /\ activeActions' \subseteq activeActions
    BY <2>3 DEF ReportIsCurrent
  <2>4. CASE StartSomeActions
    <3>1. PICK S \in SUBSET pendingActions :
            /\ activeActions' = activeActions \cup S
            /\ state' = [a \in Acts |-> IF a \in S THEN "RUNNING" ELSE state[a]]
            /\ report' = IF activeActions \cup S = {} THEN Verdict
                         ELSE IF S # {} THEN "building" ELSE report
            /\ completedActionPtrs' = completedActionPtrs
      BY <2>4 DEF StartSomeActions
    <3>2. CASE activeActions \cup S = {}
      <4>1. \A a \in completedActionPtrs : state'[a] = state[a]
        BY <3>1, <3>2 DEF TypeOK
      <4>2. Verdict' = Verdict /\ Verdict # "none"
        BY <3>1, <4>1 DEF Verdict
      <4> QED
        BY <3>1, <3>2, <4>2 DEF ReportIsCurrent
    <3>3. CASE activeActions \cup S # {}
      BY <3>1, <3>3 DEF ReportIsCurrent
    <3> QED
      BY <3>2, <3>3
  <2> QED
    BY <2>1, <2>2, <2>3, <2>4, HandlerSteps
<1> QED
  BY <1>1, <1>2, TypeCorrect, PTL DEF Spec

-----------------------------------------------------------------------------
(***************************************************************************)
(* The answers that lookups were given, of module Driver: none is out of   *)
(* date, unless the better answer was built from the action that asked.    *)
(* That exception lasts: a cascade that spares an action spares all that   *)
(* it was built from.                                                      *)
(***************************************************************************)

\* Row t answers lookup d better than the provision that d was given.
Better(d, t) ==
  /\ t.tag = d.tag
  /\ d.prov = None \/ Rank[Srcfile(d.act)][d.prov.file] < Rank[Srcfile(d.act)][t.prov.file]

\* ... but was built from the action that asked.
Excused(d, t) ==
  /\ t.prov.by # Root
  /\ d.act \in GetTransitiveDependencies(t.prov.by)

\* What registerProvider() spares was used by the action that registers: nobody
\* keeps an old answer for nothing.
ShieldIsUsed ==
  call.kind = "register" =>
    \A a \in call.shield :
      call.act \in Acts /\ a \in GetTransitiveDependencies(call.act)

\* A step that keeps the rows of all actions but those in R, whose provisions no
\* row that is kept uses.
KeepsAllBut(R) ==
  /\ \A r \in actionTriggersTable :
       r.act \notin R => r \in actionTriggersTable' /\ r.prov.by \notin R
  /\ \A d \in dependencyTable :
       d.act \notin R => /\ d \in dependencyTable'
                         /\ d.prov # None => d.prov.by \notin R

\* Such a step keeps what an action outside R was built from.
LEMMA DependenciesLast ==
  ASSUME NEW R, KeepsAllBut(R), NEW b \in Acts, b \notin R
  PROVE  GetTransitiveDependencies(b) \subseteq GetTransitiveDependencies(b)'
<1> DEFINE up   == {e \in Acts \X Acts : BuiltFrom(e[1], e[2])}
           up1  == {e \in Acts \X Acts : BuiltFrom(e[1], e[2])'}
           kept == {a \in Closure({b}, up1) : a \notin R}
<1>1. b \in Closure({b}, up1) /\ Closure({b}, up1) \subseteq Acts
  <2> HIDE DEF up1
  <2> QED
    BY ClosureContains
<1>2. {b} \subseteq kept /\ kept \in SUBSET Acts
  BY <1>1
<1>3. ASSUME NEW e \in up, e[1] \in kept
      PROVE  e[2] \in kept
  <2>1. /\ e[1] \in Acts /\ e[2] \in Acts /\ BuiltFrom(e[1], e[2])
        /\ e[1] \notin R /\ e[1] \in Closure({b}, up1)
    BY <1>3
  <2>2. BuiltFrom(e[1], e[2])' /\ e[2] \notin R
    BY <2>1 DEF BuiltFrom, KeepsAllBut
  <2>3. <<e[1], e[2]>> \in up1
    BY <2>1, <2>2
  <2> HIDE DEF up1
  <2>4. e[2] \in Closure({b}, up1)
    BY <2>1, <2>3, ClosureClosed
  <2> QED
    BY <2>2, <2>4
<1>4. Closure({b}, up) \subseteq kept
  <2> HIDE DEF up, kept
  <2> QED
    BY <1>2, <1>3, ClosureLeast
<1>5. Closure({b}, up) \subseteq Closure({b}, up1)
  BY <1>4
<1>6. GetTransitiveDependencies(b) = Closure({b}, up)
  BY DEF GetTransitiveDependencies
<1>7. GetTransitiveDependencies(b)' = Closure({b}, up1)
  BY DEF GetTransitiveDependencies, Closure
<1> QED
  BY <1>5, <1>6, <1>7

\* It keeps the file that such an action runs on, and so what it prefers.
LEMMA SrcfileLasts ==
  ASSUME IInv, IInv', NEW R, KeepsAllBut(R), NEW a \in Live, a \notin R
  PROVE  Srcfile(a)' = Srcfile(a) /\ Srcfile(a) \in Files
<1>1. PICK r \in actionTriggersTable : r.act = a
  BY DEF IInv, NoDanglingRows
<1>2. r \in actionTriggersTable'
  BY <1>1 DEF KeepsAllBut
<1>3. Origin(a) = r
  BY <1>1 DEF Origin, IInv, NoDanglingRows
<1>4. Origin(a)' = r
  BY <1>1, <1>2 DEF Origin, IInv, NoDanglingRows
<1>5. r.prov.file \in Files
  BY DEF IInv, TypeOK, ActionRows, Provisions
<1> QED
  BY <1>3, <1>4, <1>5 DEF Srcfile

\* The answer to a lookup that is kept is as good, among the rows that are kept.
LEMMA ChoiceLasts ==
  ASSUME IInv, IInv', FreshChoice, NEW R, KeepsAllBut(R),
         NEW d \in dependencyTable, d.act \notin R,
         NEW t \in tagTable, t.prov.by \notin R, Better(d, t)'
  PROVE  Excused(d, t)'
<1>1. d.act \in Live
  BY DEF IInv, NoDanglingRows, Live
<1>2. Srcfile(d.act)' = Srcfile(d.act)
  BY <1>1, SrcfileLasts
<1>3. Better(d, t)
  BY <1>2 DEF Better
<1>4. t.prov.by # Root /\ d.act \in GetTransitiveDependencies(t.prov.by)
  BY <1>3 DEF Better, FreshChoice
<1>5. t.prov.by \in Acts
  BY <1>4 DEF IInv, TypeOK, TagRows, Provisions, Creators
<1>6. d.act \in GetTransitiveDependencies(t.prov.by)'
  BY <1>4, <1>5, DependenciesLast
<1> QED
  BY <1>4, <1>6 DEF Excused

\* choosePreferredProvider() passes over a provision if there is a better one.
LEMMA BetterIsPreferred ==
  ASSUME NEW d, NEW rows \in SUBSET TagRows, NEW t \in rows, Better(d, t),
         d.prov # None => d.prov \in Provisions,
         Srcfile(d.act) \in Files
  PROVE  d.prov \notin ChoosePreferredProvider(d.act, d.tag, rows)
<1> DEFINE found   == {u.prov : u \in {u \in rows : u.tag = d.tag}}
           rank(p) == Rank[Srcfile(d.act)][p.file]
<1>1. t.prov \in found
  BY DEF Better
<1>2. \A p \in found : p \in Provisions
  BY DEF TagRows
<1>3. ChoosePreferredProvider(d.act, d.tag, rows) =
        {p \in found : \A q \in found : rank(q) <= rank(p)}
  BY <1>1 DEF ChoosePreferredProvider
<1>4. CASE d.prov = None
  BY <1>2, <1>3, <1>4, DriverAssumption
<1>5. CASE d.prov # None
  <2>1. rank(d.prov) < rank(t.prov)
    BY <1>5 DEF Better
  <2>2. \A p \in Provisions : rank(p) \in Nat
    BY DriverAssumption DEF Provisions
  <2>3. ~(rank(t.prov) <= rank(d.prov))
    <3>1. rank(d.prov) \in Nat /\ rank(t.prov) \in Nat
      BY <1>1, <1>2, <1>5, <2>2
    <3> HIDE DEF rank
    <3> QED
      BY <2>1, <3>1
  <2> HIDE DEF rank, found
  <2> QED
    BY <1>1, <1>3, <2>3
<1> QED
  BY <1>4, <1>5

-----------------------------------------------------------------------------
(***************************************************************************)
(* The steps.                                                              *)
(***************************************************************************)

\* What is inductive together with IInv.
CInv == FreshChoice /\ ShieldIsUsed

\* Lookups and rows that are taken away, and actions that are made, outdate nothing.
LEMMA FewerRows ==
  ASSUME IInv, IInv', FreshChoice, NEW R, KeepsAllBut(R),
         dependencyTable' \subseteq {d \in dependencyTable : d.act \notin R},
         tagTable' \subseteq {t \in tagTable : t.prov.by \notin R}
  PROVE  FreshChoice'
<1> SUFFICES ASSUME NEW d \in dependencyTable', NEW t \in tagTable', Better(d, t)'
             PROVE  Excused(d, t)'
  BY DEF FreshChoice, Better, Excused
<1>1. /\ d \in dependencyTable /\ d.act \notin R
      /\ t \in tagTable /\ t.prov.by \notin R
  OBVIOUS
<1> QED
  BY <1>1, ChoiceLasts

\* A step that leaves the tables leaves every answer.
LEMMA SameTables ==
  ASSUME FreshChoice, UNCHANGED <<tagTable, dependencyTable, actionTriggersTable>>
  PROVE  /\ FreshChoice'
         /\ \A a : GetTransitiveDependencies(a)' = GetTransitiveDependencies(a)
BY DEF FreshChoice, Srcfile, Origin, GetTransitiveDependencies, Closure, BuiltFrom

\* Whoever uses a provision is there.
LEMMA UsersAreLive ==
  ASSUME IInv, NEW y, NEW p, UsesProvision(y, p)
  PROVE  y \in Live
BY DEF UsesProvision, IInv, NoDanglingRows, Live

\* addSourceFile() and removeSourceFile().
LEMMA SourceChoice ==
  ASSUME IInv, IInv', CInv, NEW f \in SourceFiles, AddSourceFile(f) \/ RemoveSourceFile(f)
  PROVE  CInv'
<1> DEFINE p == [by |-> Root, file |-> f]
           S == {a \in Acts : UsesProvision(a, p)}
           R == ResetCascade(S)
           D == Deleted(R, {p})
<1>1. /\ Reset(R)
      /\ tagTable' = {t \in tagTable : t.prov # p /\ t.prov.by \notin R}
      /\ actionTriggersTable' = {r \in actionTriggersTable : r.act \notin D}
  BY DEF AddSourceFile, RemoveSourceFile, ResetSource
<1>2. S \in SUBSET Live /\ {p} \in SUBSET Provisions
  <2>1. S \in SUBSET Live
    BY UsersAreLive
  <2>2. p \in Provisions
    BY DriverAssumption DEF Provisions, Creators
  <2> QED
    BY <2>1, <2>2
<1>3. \A y \in Acts, q \in {p} : UsesProvision(y, q) => y \in S
  OBVIOUS
<1>4. ShieldIsUsed'
  <2>1. call'.kind = "dispatch" \/ call'.shield = {}
    BY DEF AddSourceFile, RemoveSourceFile, Registering, Dispatch
  <2> QED
    BY <2>1 DEF ShieldIsUsed
<1> HIDE DEF p, S, R, D
<1>5. /\ D \subseteq R
      /\ \A r \in actionTriggersTable : r.act \notin D => r.prov.by \notin R
      /\ \A d \in dependencyTable : d.act \notin R /\ d.prov # None => d.prov.by \notin R
  BY <1>2, <1>3, CascadeKeeps DEF R, D
<1>6. dependencyTable' = {d \in dependencyTable : d.act \notin R}
  BY <1>1 DEF Reset
<1>7. KeepsAllBut(R)
  BY <1>1, <1>5, <1>6 DEF KeepsAllBut
<1>8. FreshChoice'
  BY <1>1, <1>6, <1>7, FewerRows DEF CInv
<1> QED
  BY <1>4, <1>8 DEF CInv

\* findProvider() and findInput() answer with the best there is.
LEMMA FindChoice ==
  ASSUME IInv, IInv', CInv, NEW a \in Acts, NEW tag \in Tags, FindProvider(a, tag)
  PROVE  CInv'
<1>1. PICK p \in ChoosePreferredProvider(a, tag, tagTable) :
        dependencyTable' = dependencyTable \cup {[tag |-> tag, act |-> a, prov |-> p]}
  BY DEF FindProvider
<1>2. /\ UNCHANGED <<tagTable, actionTriggersTable, call>>
      /\ a \in activeActions /\ call.kind = "none"
  BY DEF FindProvider, CanCall, Idle
<1>3. KeepsAllBut({})
  BY <1>1, <1>2 DEF KeepsAllBut
<1>4. ASSUME NEW d \in dependencyTable', NEW t \in tagTable', Better(d, t)'
      PROVE  Excused(d, t)'
  <2>1. CASE d \in dependencyTable
    BY <1>2, <1>3, <1>4, <2>1, ChoiceLasts DEF CInv
  <2>2. CASE d = [tag |-> tag, act |-> a, prov |-> p]
    <3>1. d.tag = tag /\ d.act = a /\ d.prov = p
      BY <2>2
    <3>2. a \in Live
      BY <1>2 DEF Live
    <3>3. Srcfile(d.act)' = Srcfile(d.act) /\ Srcfile(d.act) \in Files
      BY <1>3, <3>1, <3>2, SrcfileLasts
    <3>4. Better(d, t)
      BY <1>4, <3>3 DEF Better
    <3>5. tagTable \in SUBSET TagRows /\ t \in tagTable
      BY <1>2 DEF IInv, TypeOK
    <3>6. d.prov # None => d.prov \in Provisions
      BY <1>1, <3>1, <3>5, ChoiceCarriesTag
    <3>7. d.prov \notin ChoosePreferredProvider(d.act, d.tag, tagTable)
      BY <3>3, <3>4, <3>5, <3>6, BetterIsPreferred
    <3> QED
      BY <1>1, <3>1, <3>7
  <2> QED
    BY <1>1, <2>1, <2>2
<1>5. FreshChoice'
  BY <1>4 DEF FreshChoice, Better, Excused
<1>6. ShieldIsUsed'
  BY <1>2 DEF ShieldIsUsed
<1> QED
  BY <1>5, <1>6 DEF CInv

\* registerProvider(), for one tag: who could have a better answer now is reset,
\* or is in the shield.
LEMMA RegisterTagChoice ==
  ASSUME IInv, IInv', CInv, call.kind = "register", NEW x \in call.left,
         NEW S \in SUBSET Live, NEW R, R = ResetCascade(S), call.act \notin R,
         RegisterTag(x, R),
         \A d \in Disturbed(x.tag, tagTable \cup {NewRow(x)}) :
           d.prov \notin ChoosePreferredProvider(d.act, x.tag, tagTable \cup {NewRow(x)}) =>
             d.act \in S
  PROVE  CInv'
<1> DEFINE n == NewRow(x)
           D == Deleted(R, {})
<1>1. n \in TagRows /\ n.tag = x.tag /\ n.prov.by = call.act
  BY DEF NewRow, TagRows, Provisions, IInv, TypeOK, Calls
<1>2. /\ tagTable' = {t \in tagTable \cup {n} : t.prov.by \notin R}
      /\ dependencyTable' = {d \in dependencyTable : d.act \notin R}
      /\ {r \in actionTriggersTable : r.act \notin D} \subseteq actionTriggersTable'
      /\ call'.act = call.act /\ call'.shield = call.shield
  BY DEF RegisterTag, Reset, QueueNewActions, Registering
<1>3. S \in SUBSET Acts /\ S \subseteq R
  <2>1. S \in SUBSET Acts
    BY DEF IInv, TypeOK, Live
  <2> QED
    BY <2>1, CascadeType
<1>4. /\ D \subseteq R
      /\ \A r \in actionTriggersTable : r.act \notin D => r.prov.by \notin R
      /\ \A d \in dependencyTable : d.act \notin R /\ d.prov # None => d.prov.by \notin R
  <2>1. \A y \in Acts, q \in {} : UsesProvision(y, q) => y \in S
    OBVIOUS
  <2> HIDE DEF D
  <2> QED
    BY <2>1, CascadeKeeps DEF D
<1> HIDE DEF n, D
<1>5. KeepsAllBut(R)
  BY <1>2, <1>4 DEF KeepsAllBut
<1>6. PICK b : b = call.act
  OBVIOUS
<1>7. b \in Acts => GetTransitiveDependencies(b) \subseteq GetTransitiveDependencies(b)'
  BY <1>5, <1>6, DependenciesLast
<1>8. ShieldIsUsed'
  <2>1. \A a \in call.shield : b \in Acts /\ a \in GetTransitiveDependencies(b)
    BY <1>6 DEF CInv, ShieldIsUsed
  <2>2. /\ call'.act = b
        /\ \A a \in call'.shield : b \in Acts /\ a \in GetTransitiveDependencies(b)'
    BY <1>2, <1>6, <1>7, <2>1
  <2> QED
    BY <2>2 DEF ShieldIsUsed, GetTransitiveDependencies, Closure
<1>9. ASSUME NEW d \in dependencyTable', NEW t \in tagTable', Better(d, t)'
      PROVE  Excused(d, t)'
  <2>1. d \in dependencyTable /\ d.act \notin R /\ t.prov.by \notin R
    BY <1>2
  <2>2. CASE t \in tagTable
    BY <1>5, <1>9, <2>1, <2>2, ChoiceLasts DEF CInv
  <2>3. CASE t = n
    <3>1. d.act \in Live
      BY <2>1 DEF IInv, NoDanglingRows, Live
    <3>2. Srcfile(d.act)' = Srcfile(d.act) /\ Srcfile(d.act) \in Files
      BY <1>5, <2>1, <3>1, SrcfileLasts
    <3>3. Better(d, n)
      BY <1>9, <2>3, <3>2 DEF Better
    <3>4. tagTable \cup {n} \in SUBSET TagRows /\ n \in tagTable \cup {n}
      BY <1>1 DEF IInv, TypeOK
    <3>5. d.prov # None => d.prov \in Provisions
      BY <2>1 DEF IInv, TypeOK, DepRows
    <3>6. d.prov \notin ChoosePreferredProvider(d.act, d.tag, tagTable \cup {n})
      BY <3>2, <3>3, <3>4, <3>5, BetterIsPreferred
    <3>7. d.tag = x.tag
      BY <1>1, <3>3 DEF Better
    <3>8. d.act \in call.shield
      <4>1. SUFFICES ASSUME d.act \notin call.shield
                     PROVE  FALSE
        OBVIOUS
      <4>2. d \in Disturbed(x.tag, tagTable \cup {n})
        BY <2>1, <3>6, <3>7, <4>1 DEF Disturbed
      <4>3. d.act \in S
        BY <3>6, <3>7, <4>2 DEF n
      <4> QED
        BY <1>3, <2>1, <4>3
    <3>9. b \in Acts /\ d.act \in GetTransitiveDependencies(b)
      BY <1>6, <3>8 DEF CInv, ShieldIsUsed
    <3>10. t.prov.by = b /\ b # Root
      BY <1>1, <1>6, <2>3, <3>9, DriverAssumption
    <3> QED
      BY <1>7, <3>9, <3>10 DEF Excused
  <2> QED
    BY <1>2, <2>2, <2>3
<1>10. FreshChoice'
  BY <1>9 DEF FreshChoice, Better, Excused
<1> QED
  BY <1>8, <1>10 DEF CInv

\* registerProvider(): the assertion, or one tag.
LEMMA RegisterProviderChoice ==
  ASSUME IInv, IInv', CInv, RegisterProvider
  PROVE  CInv'
<1>1. PICK x \in call.left :
        LET rows == tagTable \cup {NewRow(x)}
            lost == Disturbed(x.tag, rows)
            must == {d \in lost : d.prov \notin ChoosePreferredProvider(d.act, x.tag, rows)}
        IN  \E hit \in SUBSET lost :
              /\ must \subseteq hit
              /\ LET R == ResetCascade({d.act : d \in hit})
                 IN  \/ call.act \in R /\ Abort
                     \/ call.act \notin R /\ RegisterTag(x, R)
  BY DEF RegisterProvider
<1> DEFINE rows == tagTable \cup {NewRow(x)}
           lost == Disturbed(x.tag, rows)
           must == {d \in lost : d.prov \notin ChoosePreferredProvider(d.act, x.tag, rows)}
<1>2. PICK hit \in SUBSET lost :
        /\ must \subseteq hit
        /\ \/ Abort
           \/ /\ call.act \notin ResetCascade({d.act : d \in hit})
              /\ RegisterTag(x, ResetCascade({d.act : d \in hit}))
  BY <1>1
<1>3. CASE Abort
  <2>1. UNCHANGED <<tagTable, dependencyTable, actionTriggersTable, call>>
    BY <1>3 DEF Abort, tableVars
  <2>2. FreshChoice'
    BY <2>1, SameTables DEF CInv
  <2>3. ShieldIsUsed'
    BY <2>1 DEF CInv, ShieldIsUsed, GetTransitiveDependencies, Closure, BuiltFrom
  <2> QED
    BY <2>2, <2>3 DEF CInv
<1>4. {d.act : d \in hit} \in SUBSET Live
  <2>1. \A d \in hit : d \in dependencyTable
    BY DEF Disturbed
  <2>2. \A d \in hit : d.act \in Live
    BY <2>1 DEF IInv, NoDanglingRows, Live
  <2> QED
    BY <2>2
<1>5. \A d \in lost : d.prov \notin ChoosePreferredProvider(d.act, x.tag, rows) =>
                        d.act \in {e.act : e \in hit}
  BY <1>2
<1>6. call.kind = "register"
  BY DEF RegisterProvider
<1> QED
  BY <1>2, <1>3, <1>4, <1>5, <1>6, RegisterTagChoice

\* The actions that the new factory makes are new.
LEMMA RegisterFactoryChoice ==
  ASSUME IInv, IInv', CInv, RegisterFactory
  PROVE  CInv'
<1>1. /\ UNCHANGED <<tagTable, dependencyTable>>
      /\ actionTriggersTable \subseteq actionTriggersTable'
      /\ call'.kind = "dispatch"
  BY DEF RegisterFactory, QueueNewActions, Dispatch
<1>2. KeepsAllBut({})
  BY <1>1 DEF KeepsAllBut
<1>3. FreshChoice'
  BY <1>1, <1>2, FewerRows DEF CInv
<1> QED
  BY <1>1, <1>3 DEF CInv, ShieldIsUsed

\* The shield of returned() is what the action was built from.
LEMMA ReturnedChoice ==
  ASSUME CInv, NEW a \in Acts, Returned(a)
  PROVE  CInv'
<1>1. UNCHANGED <<tagTable, dependencyTable, actionTriggersTable>>
  BY DEF Returned, tableVars
<1>2. FreshChoice'
  BY <1>1, SameTables DEF CInv
<1>3. ShieldIsUsed'
  <2>1. CASE state[a] = "FAILED"
    BY <2>1 DEF Returned, Dispatch, ShieldIsUsed
  <2>2. CASE state[a] # "FAILED"
    <3>1. call'.act = a /\ call'.shield = GetTransitiveDependencies(a)
      BY <2>2 DEF Returned, Registering
    <3>2. \A b \in call'.shield : b \in GetTransitiveDependencies(a)'
      BY <1>1, <3>1, SameTables DEF CInv
    <3> QED
      BY <3>1, <3>2 DEF ShieldIsUsed, GetTransitiveDependencies, Closure
  <2> QED
    BY <2>1, <2>2
<1> QED
  BY <1>2, <1>3 DEF CInv

\* Every step keeps it.
LEMMA NextChoice ==
  ASSUME IInv, IInv', CInv, [Next]_vars
  PROVE  CInv'
<1>1. CASE UNCHANGED vars
  <2>1. UNCHANGED <<tagTable, dependencyTable, actionTriggersTable, call>>
    BY <1>1 DEF vars, tableVars
  <2>2. FreshChoice'
    BY <2>1, SameTables DEF CInv
  <2>3. ShieldIsUsed'
    BY <2>1 DEF CInv, ShieldIsUsed, GetTransitiveDependencies, Closure, BuiltFrom
  <2> QED
    BY <2>2, <2>3 DEF CInv
<1>2. ASSUME NEW f \in SourceFiles, AddSourceFile(f) \/ RemoveSourceFile(f)
      PROVE  CInv'
  BY <1>2, SourceChoice
<1>3. ASSUME NEW a \in Acts, Returned(a)
      PROVE  CInv'
  BY <1>3, ReturnedChoice
<1>4. ASSUME NEW a \in Acts, NEW t \in Tags, FindProvider(a, t)
      PROVE  CInv'
  BY <1>4, FindChoice
<1>5. CASE RegisterProvider
  BY <1>5, RegisterProviderChoice
<1>6. CASE RegisterFactory
  BY <1>6, RegisterFactoryChoice
<1>7. CASE StartSomeActions
  <2>1. /\ UNCHANGED <<tagTable, dependencyTable, actionTriggersTable>>
        /\ call'.kind = "none"
    BY <1>7 DEF StartSomeActions, NoCall, tableVars
  <2> QED
    BY <2>1, SameTables DEF CInv, ShieldIsUsed
<1>8. ASSUME NEW a \in Acts,
             \/ Begin(a) \/ Passed(a) \/ Failed(a) \/ NoMoreEvents(a)
             \/ \E f \in Files, T \in SUBSET Tags : Provide(a, f, T)
             \/ \E T \in SUBSET Tags : AddActionType(a, T)
      PROVE  CInv'
  <2>1. /\ UNCHANGED <<tagTable, dependencyTable, actionTriggersTable>>
        /\ call'.kind = "none"
    BY <1>8 DEF Begin, Passed, Failed, NoMoreEvents, Finish, Provide, AddActionType,
                CanCall, Idle, tableVars
  <2> QED
    BY <2>1, SameTables DEF CInv, ShieldIsUsed
<1> QED
  BY <1>1, <1>2, <1>3, <1>4, <1>5, <1>6, <1>7, <1>8 DEF Next

\* No lookup has an answer that is out of date, except where the better one was
\* built from the action that asked.
THEOREM AnswersAreFresh == Spec => []FreshChoice
<1>1. Init => CInv
  BY DEF Init, CInv, FreshChoice, ShieldIsUsed, NoCall
<1>2. IInv /\ IInv' /\ CInv /\ [Next]_vars => CInv'
  BY NextChoice
<1>3. CInv => FreshChoice
  BY DEF CInv
<1> QED
  BY <1>1, <1>2, <1>3, Invariant, PTL DEF Spec

-----------------------------------------------------------------------------
(***************************************************************************)
(* The actions that rules make, of module Driver: each rule has made as    *)
(* many for a file as the file has tags that the rule wants, whatever was  *)
(* reset in between.  TriggeredExactlyOnce speaks of the files and rules   *)
(* that are there; Matched of all, so that a reset may take some away.     *)
(***************************************************************************)

RowsOf(rows, p, f) == {r \in rows : r.prov = p /\ r.fac = f}
TagsOf(table, p)   == {t \in Tags : [tag |-> t, prov |-> p] \in table}
Wanted(table, trig, p, f) ==
  {t \in TagsOf(table, p) : [tag |-> t, fac |-> f] \in trig}

\* Factory f has made as many actions for p as p has tags that f wants.
Counts(rows, table, trig, p, f) ==
  /\ IsFiniteSet(RowsOf(rows, p, f))
  /\ Cardinality(RowsOf(rows, p, f)) = Cardinality(Wanted(table, trig, p, f))

MatchedIn(rows, table, trig) ==
  \A p \in Provisions :
    /\ IsFiniteSet(TagsOf(table, p))
    /\ \A f \in Factories : Counts(rows, table, trig, p, f)

Matched == MatchedIn(actionTriggersTable, tagTable, triggers)

\* provideInternal() looks for the file first.
FilesOnce ==
  \A a \in Acts : \A i, j \in DOMAIN provisions[a] :
    provisions[a][i] = provisions[a][j] => i = j

\* What registerProvider() has yet to register is not registered already, and the
\* rule of the action that is returning is not there before its turn.
LeftIsNew ==
  call.kind = "register" =>
    /\ \A x \in call.left : NewRow(x) \notin tagTable
    /\ \A x, y \in call.left : x.file = y.file /\ x.tag = y.tag => x = y
    /\ call.act \in Acts => \A t \in triggers : t.fac # call.act

\* What is inductive together with IInv.
TInv == Matched /\ FilesOnce /\ LeftIsNew

(***************************************************************************)
(* The tables.                                                             *)
(***************************************************************************)

\* A cascade takes the actions of a file and a rule away together with the file's
\* tags or the rule's triggers, or leaves both.
LEMMA ResetMatches ==
  ASSUME IInv, Matched, NEW R, NEW P, NEW D, D = Deleted(R, P)
  PROVE  MatchedIn({r \in actionTriggersTable : r.act \notin D},
                   {t \in tagTable : t.prov \notin P /\ t.prov.by \notin R},
                   {t \in triggers : t.fac \notin R})
<1> DEFINE rows  == {r \in actionTriggersTable : r.act \notin D}
           table == {t \in tagTable : t.prov \notin P /\ t.prov.by \notin R}
           trig  == {t \in triggers : t.fac \notin R}
<1> SUFFICES ASSUME NEW p \in Provisions
             PROVE  /\ IsFiniteSet(TagsOf(table, p))
                    /\ \A f \in Factories : Counts(rows, table, trig, p, f)
  BY DEF MatchedIn
<1>1. ASSUME NEW r \in actionTriggersTable
      PROVE  r.act \in D <=> r.prov \in P \/ r.prov.by \in R \/ r.fac \in R
  BY DEF Deleted, IInv, NoDanglingRows
<1>2. IsFiniteSet(TagsOf(tagTable, p))
  BY DEF Matched, MatchedIn
<1>3. TagsOf(table, p) \in SUBSET TagsOf(tagTable, p)
  BY DEF TagsOf
<1>4. IsFiniteSet(TagsOf(table, p))
  BY <1>2, <1>3, FS_Subset
<1>5. ASSUME NEW f \in Factories
      PROVE  Counts(rows, table, trig, p, f)
  <2>1. CASE p \in P \/ p.by \in R \/ f \in R
    <3>1. RowsOf(rows, p, f) = {}
      BY <1>1, <2>1 DEF RowsOf
    <3>2. Wanted(table, trig, p, f) = {}
      BY <2>1 DEF Wanted, TagsOf
    <3> QED
      BY <3>1, <3>2, FS_EmptySet DEF Counts
  <2>2. CASE ~(p \in P \/ p.by \in R \/ f \in R)
    <3>1. RowsOf(rows, p, f) = RowsOf(actionTriggersTable, p, f)
      BY <1>1, <2>2 DEF RowsOf
    <3>2. Wanted(table, trig, p, f) = Wanted(tagTable, triggers, p, f)
      BY <2>2 DEF Wanted, TagsOf
    <3> QED
      BY <3>1, <3>2 DEF Counts, Matched, MatchedIn
  <2> QED
    BY <2>1, <2>2
<1> QED
  BY <1>4, <1>5

\* fireTriggers(): a new tag of a file, and one new action for every rule that
\* wants it.
LEMMA FireMatches ==
  ASSUME NEW rows \in SUBSET ActionRows, NEW table, NEW trig \in SUBSET TriggerRows,
         MatchedIn(rows, table, trig), NEW n \in TagRows, n \notin table,
         NEW more, NEW id,
         \A t \in trig : t.tag = n.tag =>
           [fac |-> t.fac, prov |-> n.prov, act |-> id[t.fac]] \in more,
         \A r \in more : \E t \in trig :
           t.tag = n.tag /\ r = [fac |-> t.fac, prov |-> n.prov, act |-> id[t.fac]],
         \A r \in more : \A s \in rows : r.act # s.act
  PROVE  MatchedIn(rows \cup more, table \cup {n}, trig)
<1> DEFINE grown == table \cup {n}
<1> SUFFICES ASSUME NEW p \in Provisions
             PROVE  /\ IsFiniteSet(TagsOf(grown, p))
                    /\ \A f \in Factories : Counts(rows \cup more, grown, trig, p, f)
  BY DEF MatchedIn
<1>1. n.tag \in Tags /\ n.prov \in Provisions /\ n = [tag |-> n.tag, prov |-> n.prov]
  BY DEF TagRows
<1>2. IsFiniteSet(TagsOf(table, p))
  BY DEF MatchedIn
<1>3. \A f \in Factories : Counts(rows, table, trig, p, f)
  BY DEF MatchedIn
<1>4. CASE p # n.prov
  <2>1. TagsOf(grown, p) = TagsOf(table, p)
    BY <1>1, <1>4 DEF TagsOf
  <2>2. ASSUME NEW f \in Factories
        PROVE  RowsOf(rows \cup more, p, f) = RowsOf(rows, p, f)
    <3>1. \A r \in more : r.prov = n.prov
      OBVIOUS
    <3> QED
      BY <1>4, <3>1 DEF RowsOf
  <2>3. \A f \in Factories : Wanted(grown, trig, p, f) = Wanted(table, trig, p, f)
    BY <2>1 DEF Wanted
  <2> HIDE DEF grown
  <2> QED
    BY <1>2, <1>3, <2>1, <2>2, <2>3 DEF Counts
<1>5. CASE p = n.prov
  <2>1. TagsOf(grown, p) = TagsOf(table, p) \cup {n.tag} /\ n.tag \notin TagsOf(table, p)
    BY <1>1, <1>5 DEF TagsOf
  <2>2. IsFiniteSet(TagsOf(grown, p))
    <3>1. IsFiniteSet(TagsOf(table, p) \cup {n.tag})
      BY <1>2, FS_AddElement
    <3> QED
      BY <2>1, <3>1
  <2>3. ASSUME NEW f \in Factories, [tag |-> n.tag, fac |-> f] \notin trig
        PROVE  Counts(rows \cup more, grown, trig, p, f)
    <3>1. \A r \in more : r.fac # f
      BY <2>3 DEF TriggerRows
    <3>2. RowsOf(rows \cup more, p, f) = RowsOf(rows, p, f)
      BY <3>1 DEF RowsOf
    <3>3. Wanted(grown, trig, p, f) = Wanted(table, trig, p, f)
      BY <2>1, <2>3 DEF Wanted
    <3> HIDE DEF grown
    <3> QED
      BY <1>3, <3>2, <3>3 DEF Counts
  <2>4. ASSUME NEW f \in Factories, [tag |-> n.tag, fac |-> f] \in trig
        PROVE  Counts(rows \cup more, grown, trig, p, f)
    <3> DEFINE new == [fac |-> f, prov |-> p, act |-> id[f]]
    <3>1. \A r \in more : r.fac = f => r = new
      BY <1>5
    <3>2. new \in more
      BY <1>5, <2>4
    <3>3. new \notin rows
      BY <3>2
    <3>4. new.prov = p /\ new.fac = f
      OBVIOUS
    <3> HIDE DEF new, grown
    <3>5. RowsOf(rows \cup more, p, f) = RowsOf(rows, p, f) \cup {new}
      BY <3>1, <3>2, <3>4 DEF RowsOf
    <3>6. new \notin RowsOf(rows, p, f)
      BY <3>3 DEF RowsOf
    <3>7. Wanted(grown, trig, p, f) = Wanted(table, trig, p, f) \cup {n.tag}
      BY <2>1, <2>4 DEF Wanted
    <3>8. n.tag \notin Wanted(table, trig, p, f)
      BY <2>1 DEF Wanted
    <3>9. IsFiniteSet(Wanted(table, trig, p, f))
      <4>1. Wanted(table, trig, p, f) \in SUBSET TagsOf(table, p)
        BY DEF Wanted
      <4> QED
        BY <1>2, <4>1, FS_Subset
    <3>10. /\ IsFiniteSet(RowsOf(rows, p, f))
           /\ Cardinality(RowsOf(rows, p, f)) = Cardinality(Wanted(table, trig, p, f))
      BY <1>3 DEF Counts
    <3>11. /\ IsFiniteSet(RowsOf(rows \cup more, p, f))
           /\ Cardinality(RowsOf(rows \cup more, p, f)) = Cardinality(RowsOf(rows, p, f)) + 1
      <4> DEFINE old == RowsOf(rows, p, f)
      <4>1. IsFiniteSet(old) /\ new \notin old
        BY <3>6, <3>10
      <4> HIDE DEF old
      <4>2. IsFiniteSet(old \cup {new}) /\ Cardinality(old \cup {new}) = Cardinality(old) + 1
        BY <4>1, FS_AddElement
      <4> QED
        BY <3>5, <4>2 DEF old
    <3>12. Cardinality(Wanted(grown, trig, p, f)) = Cardinality(Wanted(table, trig, p, f)) + 1
      BY <3>7, <3>8, <3>9, FS_AddElement
    <3> QED
      BY <3>10, <3>11, <3>12 DEF Counts
  <2> QED
    BY <2>2, <2>3, <2>4
<1> QED
  BY <1>4, <1>5

\* The rule fac, which wants the tags learned, is new among the triggers: grown has
\* it, and more has its rows, one for every tag it wants of every file.
Rescanned(table, trig, fac, learned, more, id, grown) ==
  /\ \A t \in trig : t.fac # fac
  /\ \A n \in table : n.tag \in learned =>
       [fac |-> fac, prov |-> n.prov, act |-> id[n]] \in more
  /\ \A r \in more : \E n \in table :
       n.tag \in learned /\ r = [fac |-> fac, prov |-> n.prov, act |-> id[n]]
  /\ \A m, n \in table : m.tag \in learned /\ n.tag \in learned /\ id[m] = id[n] => m = n
  /\ \A t, f : [tag |-> t, fac |-> f] \in grown <=>
                 [tag |-> t, fac |-> f] \in trig \/ (f = fac /\ t \in learned)

\* rescanForNewFactory(): a new rule, and one new action for every tag it wants of
\* every file that carries it.
LEMMA RescanMatches ==
  ASSUME NEW rows, NEW table \in SUBSET TagRows, NEW trig, MatchedIn(rows, table, trig),
         NEW fac \in Factories, NEW learned \in SUBSET Tags, NEW more, NEW id, NEW grown,
         Rescanned(table, trig, fac, learned, more, id, grown)
  PROVE  MatchedIn(rows \cup more, table, grown)
<1> USE DEF Rescanned
<1> SUFFICES ASSUME NEW p \in Provisions
             PROVE  /\ IsFiniteSet(TagsOf(table, p))
                    /\ \A f \in Factories : Counts(rows \cup more, table, grown, p, f)
  BY DEF MatchedIn
<1>1. IsFiniteSet(TagsOf(table, p))
  BY DEF MatchedIn
<1>2. \A f \in Factories : Counts(rows, table, trig, p, f)
  BY DEF MatchedIn
<1>3. ASSUME NEW f \in Factories, f # fac
      PROVE  Counts(rows \cup more, table, grown, p, f)
  <2>1. RowsOf(rows \cup more, p, f) = RowsOf(rows, p, f)
    <3>1. \A r \in more : r.fac # f
      BY <1>3
    <3> QED
      BY <3>1 DEF RowsOf
  <2>2. Wanted(table, grown, p, f) = Wanted(table, trig, p, f)
    BY <1>3 DEF Wanted
  <2> QED
    BY <1>2, <2>1, <2>2 DEF Counts
<1>4. Counts(rows \cup more, table, grown, p, fac)
  <2> DEFINE W      == Wanted(table, grown, p, fac)
             Row(t) == [tag |-> t, prov |-> p]
             row(t) == [fac |-> fac, prov |-> p, act |-> id[Row(t)]]
             g      == [t \in W |-> row(t)]
             T      == RowsOf(rows \cup more, p, fac)
  <2>1. IsFiniteSet(W)
    <3>1. W \in SUBSET TagsOf(table, p)
      BY DEF Wanted
    <3> HIDE DEF W
    <3> QED
      BY <1>1, <3>1, FS_Subset
  <2>2. RowsOf(rows, p, fac) = {}
    <3>1. Wanted(table, trig, p, fac) = {}
      BY DEF Wanted
    <3>2. /\ IsFiniteSet(RowsOf(rows, p, fac))
          /\ Cardinality(RowsOf(rows, p, fac)) = 0
      <4>1. Counts(rows, table, trig, p, fac)
        BY <1>2
      <4>2. Cardinality({}) = 0
        BY FS_EmptySet
      <4> QED
        BY <3>1, <4>1, <4>2 DEF Counts
    <3> QED
      BY <3>2, FS_EmptySet
  <2>3. \A t : t \in W <=> t \in learned /\ [tag |-> t, prov |-> p] \in table
    <3>1. \A t \in trig : t.fac # fac
      OBVIOUS
    <3>2. \A t : [tag |-> t, fac |-> fac] \in grown <=> t \in learned
      BY <3>1
    <3> QED
      BY <3>2 DEF Wanted, TagsOf
  <2>4. \A t \in W : row(t) \in T
    <3>1. ASSUME NEW t \in W
          PROVE  row(t) \in more
      <4>1. Row(t) \in table /\ Row(t).tag \in learned /\ Row(t).prov = p
        BY <2>3
      <4> HIDE DEF Row
      <4> QED
        BY <4>1
    <3>2. \A t : row(t).prov = p /\ row(t).fac = fac
      OBVIOUS
    <3> HIDE DEF W, row
    <3> QED
      BY <3>1, <3>2 DEF RowsOf
  <2>5. ASSUME NEW r \in T
        PROVE  \E t \in W : r = row(t)
    <3>1. r \in more /\ r.prov = p
      BY <2>2 DEF RowsOf
    <3>2. PICK n \in table : n.tag \in learned /\ r = [fac |-> fac, prov |-> n.prov, act |-> id[n]]
      BY <3>1
    <3>3. n = Row(n.tag)
      BY <3>1, <3>2 DEF TagRows
    <3>4. n.tag \in W
      BY <2>3, <3>2, <3>3
    <3>5. r = row(n.tag)
      <4> HIDE DEF Row
      <4> QED
        BY <3>1, <3>2, <3>3
    <3> QED
      BY <3>4, <3>5
  <2>6. ASSUME NEW s \in W, NEW t \in W, row(s) = row(t)
        PROVE  s = t
    <3>1. id[Row(s)] = id[Row(t)]
      BY <2>6
    <3>2. /\ Row(s) \in table /\ Row(s).tag \in learned
          /\ Row(t) \in table /\ Row(t).tag \in learned
      BY <2>3
    <3>3. Row(s) = Row(t)
      <4> HIDE DEF Row
      <4> QED
        BY <3>1, <3>2
    <3> QED
      BY <3>3
  <2> HIDE DEF W, T, row
  <2>7. g \in Bijection(W, T)
    <3>1. g \in [W -> T]
      BY <2>4
    <3>2. \A s, t \in W : g[s] = g[t] => s = t
      BY <2>6
    <3>3. \A r \in T : \E t \in W : g[t] = r
      BY <2>5
    <3> QED
      BY <3>1, <3>2, <3>3, Fun_IsBij
  <2>8. ExistsBijection(W, T)
    BY <2>7 DEF ExistsBijection
  <2>9. IsFiniteSet(T) /\ Cardinality(T) = Cardinality(W)
    BY <2>1, <2>8, FS_Bijection
  <2> QED
    BY <2>9 DEF T, W, Counts
<1> QED
  BY <1>1, <1>3, <1>4

-----------------------------------------------------------------------------
(***************************************************************************)
(* The steps that change the tables.                                       *)
(***************************************************************************)

\* reset() keeps the files of an action distinct: it leaves them or clears them.
LEMMA ResetOnce ==
  ASSUME FilesOnce, NEW R, Reset(R)
  PROVE  FilesOnce'
<1>1. \A a \in Acts : provisions'[a] = IF a \in R THEN <<>> ELSE provisions[a]
  BY DEF Reset, Clear
<1> SUFFICES ASSUME NEW a \in Acts, NEW i \in DOMAIN provisions'[a],
                    NEW j \in DOMAIN provisions'[a], provisions'[a][i] = provisions'[a][j]
             PROVE  i = j
  BY DEF FilesOnce
<1>2. a \notin R
  BY <1>1
<1> QED
  BY <1>1, <1>2 DEF FilesOnce

\* addSourceFile() and removeSourceFile().
LEMMA SourceMatches ==
  ASSUME IInv, TInv, NEW f \in SourceFiles, AddSourceFile(f) \/ RemoveSourceFile(f)
  PROVE  TInv'
<1> DEFINE p == [by |-> Root, file |-> f]
           R == ResetCascade({a \in Acts : UsesProvision(a, p)})
           D == Deleted(R, {p})
<1>1. /\ Reset(R)
      /\ tagTable' = {t \in tagTable : t.prov # p /\ t.prov.by \notin R}
      /\ actionTriggersTable' = {r \in actionTriggersTable : r.act \notin D}
  BY DEF AddSourceFile, RemoveSourceFile, ResetSource
<1>2. \/ call' = Registering(Root, {[at |-> 1, file |-> f, tag |-> DefaultTag]}, {})
      \/ call' = Dispatch
  BY DEF AddSourceFile, RemoveSourceFile
<1> HIDE DEF R, p
<1>3. Matched'
  <2>1. MatchedIn({r \in actionTriggersTable : r.act \notin D},
                  {t \in tagTable : t.prov \notin {p} /\ t.prov.by \notin R},
                  {t \in triggers : t.fac \notin R})
    BY ResetMatches DEF TInv
  <2>2. tagTable' = {t \in tagTable : t.prov \notin {p} /\ t.prov.by \notin R}
    BY <1>1
  <2>3. triggers' = {t \in triggers : t.fac \notin R}
    BY <1>1 DEF Reset
  <2>4. MatchedIn(actionTriggersTable', tagTable', triggers')
    BY <1>1, <2>1, <2>2, <2>3
  <2> QED
    BY <2>4 DEF Matched, MatchedIn, Counts, TagsOf, RowsOf, Wanted
<1>4. FilesOnce'
  BY <1>1, ResetOnce DEF TInv
<1>5. LeftIsNew'
  <2>1. CASE call' = Dispatch
    BY <2>1 DEF Dispatch, LeftIsNew
  <2>2. CASE call' = Registering(Root, {[at |-> 1, file |-> f, tag |-> DefaultTag]}, {})
    <3>1. \A x \in call'.left : NewRow(x)'.prov = p
      BY <2>2 DEF Registering, NewRow, p
    <3>2. \A x, y \in call'.left : x = y
      BY <2>2 DEF Registering
    <3>3. call'.act \notin Acts
      BY <2>2, DriverAssumption DEF Registering
    <3> QED
      BY <1>1, <3>1, <3>2, <3>3 DEF LeftIsNew
  <2> QED
    BY <1>2, <2>1, <2>2
<1> QED
  BY <1>3, <1>4, <1>5 DEF TInv

\* registerProvider(), for one tag.
LEMMA RegisterTagMatches ==
  ASSUME IInv, TInv, call.kind = "register", NEW x \in call.left,
         NEW S \in SUBSET Live, NEW R, R = ResetCascade(S), call.act \notin R,
         RegisterTag(x, R)
  PROVE  TInv'
<1> DEFINE D     == Deleted(R, {})
           queue == (pendingActions \cup R) \ D
           rows  == {r \in actionTriggersTable : r.act \notin D}
           table == {t \in tagTable : t.prov \notin {} /\ t.prov.by \notin R}
           trig  == {t \in triggers : t.fac \notin R}
           n     == NewRow(x)
           jobs  == {[fac |-> t.fac, prov |-> n.prov, tag |-> n.tag] :
                       t \in {t \in trig : t.tag = n.tag}}
<1>1. n \in TagRows /\ n.tag = x.tag /\ n.prov.by = call.act
  BY DEF NewRow, TagRows, Provisions, IInv, TypeOK, Calls
<1>2. n \notin tagTable
  BY DEF TInv, LeftIsNew
<1>3. jobs = {[fac |-> t.fac, prov |-> NewRow(x).prov, tag |-> x.tag] :
                t \in {t \in triggers : t.tag = x.tag /\ t.fac \notin R}}
  BY <1>1
<1>4. Reset(R) /\ QueueNewActions(jobs, queue, rows)
  BY <1>3 DEF RegisterTag
<1>5. /\ activeActions' = activeActions \ R
      /\ completedActionPtrs' = completedActionPtrs \ R
      /\ triggers' = trig
  BY <1>4 DEF Reset
<1>6. PICK id \in [jobs -> Acts \ (queue \cup activeActions' \cup completedActionPtrs')] :
        actionTriggersTable' =
          rows \cup {[fac |-> j.fac, prov |-> j.prov, act |-> id[j]] : j \in jobs}
  BY <1>4 DEF QueueNewActions
<1>7. tagTable' = table \cup {n}
  <2>1. tagTable' = {t \in tagTable \cup {n} : t.prov.by \notin R}
    BY DEF RegisterTag
  <2> HIDE DEF n
  <2> QED
    BY <1>1, <2>1
<1>8. \A j \in jobs : \A r \in rows : r.act # id[j]
  <2>1. \A r \in rows : r.act \in queue \cup activeActions' \cup completedActionPtrs'
    BY <1>5 DEF IInv, NoDanglingRows, Live
  <2> HIDE DEF jobs, rows, queue
  <2> QED
    BY <1>6, <2>1
<1>9. Matched'
  <2>1. MatchedIn(rows, table, trig)
    BY ResetMatches DEF TInv
  <2>2. rows \in SUBSET ActionRows /\ trig \in SUBSET TriggerRows /\ n \notin table
    BY <1>2 DEF IInv, TypeOK
  <2> DEFINE more == {[fac |-> j.fac, prov |-> j.prov, act |-> id[j]] : j \in jobs}
             ids  == [f \in Factories |-> id[[fac |-> f, prov |-> n.prov, tag |-> n.tag]]]
  <2> HIDE DEF rows, table, trig, n
  <2>3. ASSUME NEW t \in trig, t.tag = n.tag
        PROVE  [fac |-> t.fac, prov |-> n.prov, act |-> ids[t.fac]] \in more
    <3>1. t.fac \in Factories
      BY <2>2 DEF TriggerRows
    <3>2. [fac |-> t.fac, prov |-> n.prov, tag |-> n.tag] \in jobs
      BY <2>3
    <3> QED
      BY <3>1, <3>2
  <2>4. ASSUME NEW r \in more
        PROVE  \E t \in trig : /\ t.tag = n.tag
                               /\ r = [fac |-> t.fac, prov |-> n.prov, act |-> ids[t.fac]]
    <3>1. PICK j \in jobs : r = [fac |-> j.fac, prov |-> j.prov, act |-> id[j]]
      BY <2>4
    <3>2. PICK t \in trig : /\ t.tag = n.tag
                           /\ j = [fac |-> t.fac, prov |-> n.prov, tag |-> n.tag]
      OBVIOUS
    <3>3. j.fac = t.fac /\ j.prov = n.prov
      BY <3>2
    <3>4. t.fac \in Factories
      BY <2>2 DEF TriggerRows
    <3>5. ids[t.fac] = id[j]
      BY <3>2, <3>4
    <3> QED
      BY <3>1, <3>2, <3>3, <3>5
  <2>5. \A r \in more : \A s \in rows : r.act # s.act
    BY <1>8
  <2> HIDE DEF more, ids
  <2>6. MatchedIn(rows \cup more, table \cup {n}, trig)
    BY <1>1, <2>1, <2>2, <2>3, <2>4, <2>5, FireMatches
  <2>7. MatchedIn(actionTriggersTable', tagTable', triggers')
    BY <1>5, <1>6, <1>7, <2>6 DEF more
  <2> QED
    BY <2>7 DEF Matched, MatchedIn, Counts, TagsOf, RowsOf, Wanted
<1>10. FilesOnce'
  BY <1>4, ResetOnce DEF TInv
<1>11. LeftIsNew'
  <2>1. call'.act = call.act /\ call'.left = call.left \ {x}
    BY DEF RegisterTag, Registering
  <2>2. ASSUME NEW y \in call'.left
        PROVE  NewRow(y)' \notin tagTable'
    <3>1. y \in call.left /\ y # x /\ NewRow(y)' = NewRow(y)
      BY <2>1 DEF NewRow
    <3>2. NewRow(y) \notin tagTable
      BY <3>1 DEF TInv, LeftIsNew
    <3>3. NewRow(y) # n
      <4>1. ~(y.file = x.file /\ y.tag = x.tag)
        BY <3>1 DEF TInv, LeftIsNew
      <4> QED
        BY <4>1 DEF NewRow
    <3> HIDE DEF n
    <3> QED
      BY <1>7, <3>1, <3>2, <3>3
  <2>3. \A y, z \in call'.left : y.file = z.file /\ y.tag = z.tag => y = z
    BY <2>1 DEF TInv, LeftIsNew
  <2>4. call'.act \in Acts => \A t \in triggers' : t.fac # call'.act
    BY <1>5, <2>1 DEF TInv, LeftIsNew
  <2> QED
    BY <2>2, <2>3, <2>4 DEF LeftIsNew
<1> QED
  BY <1>9, <1>10, <1>11 DEF TInv

\* registerProvider(): the assertion, or one tag.
LEMMA RegisterProviderMatches ==
  ASSUME IInv, TInv, RegisterProvider
  PROVE  TInv'
<1>1. PICK x \in call.left : \E hit \in SUBSET Disturbed(x.tag, tagTable \cup {NewRow(x)}) :
        \/ Abort
        \/ /\ call.act \notin ResetCascade({d.act : d \in hit})
           /\ RegisterTag(x, ResetCascade({d.act : d \in hit}))
  BY RegisterStep DEF IInv
<1>2. PICK hit \in SUBSET Disturbed(x.tag, tagTable \cup {NewRow(x)}) :
        \/ Abort
        \/ /\ call.act \notin ResetCascade({d.act : d \in hit})
           /\ RegisterTag(x, ResetCascade({d.act : d \in hit}))
  BY <1>1
<1>3. CASE Abort
  BY <1>3 DEF Abort, TInv, Matched, MatchedIn, Counts, TagsOf, RowsOf, Wanted, FilesOnce,
              LeftIsNew, NewRow, actionVars, tableVars
<1>4. {d.act : d \in hit} \in SUBSET Live
  <2>1. \A d \in hit : d \in dependencyTable
    BY DEF Disturbed
  <2>2. \A d \in hit : d.act \in Live
    BY <2>1 DEF IInv, NoDanglingRows, Live
  <2> QED
    BY <2>2
<1>5. call.kind = "register"
  BY DEF RegisterProvider
<1> QED
  BY <1>2, <1>3, <1>4, <1>5, RegisterTagMatches

\* The end of returned(): the rule the action provided, if any.
LEMMA RegisterFactoryMatches ==
  ASSUME IInv, TInv, RegisterFactory
  PROVE  TInv'
<1> DEFINE learned == IF call.act = Root THEN {} ELSE providedFactories[call.act]
           jobs    == Rescan(call.act, learned)
           job(n)  == [fac |-> call.act, prov |-> n.prov, tag |-> n.tag]
<1>1. /\ call.kind = "register" /\ call' = Dispatch
      /\ triggers' = triggers \cup {[tag |-> t, fac |-> call.act] : t \in learned}
      /\ QueueNewActions(jobs, pendingActions, actionTriggersTable)
      /\ UNCHANGED <<tagTable, provisions>>
  BY DEF RegisterFactory, actionVars
<1>2. Matched'
  <2>1. CASE learned = {}
    <3>1. jobs = {}
      BY <2>1 DEF Rescan
    <3> HIDE DEF jobs, learned
    <3>2. UNCHANGED <<actionTriggersTable, triggers, tagTable>>
      BY <1>1, <2>1, <3>1 DEF QueueNewActions
    <3> QED
      BY <3>2 DEF TInv, Matched, MatchedIn, Counts, TagsOf, RowsOf, Wanted
  <2>2. CASE learned # {}
    <3>1. call.act \in Acts /\ learned \in SUBSET Tags
      BY <2>2 DEF IInv, TypeOK, Calls, Creators
    <3>2. call.act \in Factories /\ \A t \in triggers : t.fac # call.act
      BY <1>1, <3>1 DEF Factories, TInv, LeftIsNew
    <3>3. PICK id \in [jobs -> Acts \ (pendingActions \cup activeActions' \cup completedActionPtrs')] :
            /\ \A i, j \in jobs : id[i] = id[j] => i = j
            /\ actionTriggersTable' =
                 actionTriggersTable \cup
                   {[fac |-> j.fac, prov |-> j.prov, act |-> id[j]] : j \in jobs}
      BY <1>1 DEF QueueNewActions
    <3> DEFINE more == {[fac |-> j.fac, prov |-> j.prov, act |-> id[j]] : j \in jobs}
               ids  == [n \in tagTable |-> id[job(n)]]
    <3>4. tagTable \in SUBSET TagRows
      BY DEF IInv, TypeOK
    <3>5. \A n \in tagTable : n.tag \in learned => job(n) \in jobs
      BY DEF Rescan
    <3>6. ASSUME NEW n \in tagTable, n.tag \in learned
          PROVE  [fac |-> call.act, prov |-> n.prov, act |-> ids[n]] \in more
      <4>1. job(n) \in jobs /\ job(n).fac = call.act /\ job(n).prov = n.prov
        BY <3>5, <3>6
      <4> HIDE DEF jobs, job
      <4> QED
        BY <4>1
    <3>7. ASSUME NEW r \in more
          PROVE  \E n \in tagTable :
                   n.tag \in learned /\ r = [fac |-> call.act, prov |-> n.prov, act |-> ids[n]]
      <4>1. PICK j \in jobs : r = [fac |-> j.fac, prov |-> j.prov, act |-> id[j]]
        BY <3>7
      <4>2. PICK n \in tagTable : n.tag \in learned /\ j = job(n)
        BY DEF Rescan
      <4>3. j.fac = call.act /\ j.prov = n.prov
        BY <4>2
      <4> HIDE DEF jobs, job
      <4> QED
        BY <4>1, <4>2, <4>3
    <3>8. ASSUME NEW m \in tagTable, NEW n \in tagTable,
                 m.tag \in learned, n.tag \in learned, ids[m] = ids[n]
          PROVE  m = n
      <4>1. job(m) = job(n)
        <5> HIDE DEF jobs, job
        <5> QED
          BY <3>3, <3>5, <3>8
      <4>2. m.prov = n.prov /\ m.tag = n.tag
        BY <4>1
      <4> QED
        BY <3>4, <4>2 DEF TagRows
    <3> HIDE DEF more, ids, learned, jobs
    <3>9. MatchedIn(actionTriggersTable, tagTable, triggers)
      BY DEF TInv, Matched
    <3>10. \A t, f : [tag |-> t, fac |-> f] \in triggers' <=>
                       [tag |-> t, fac |-> f] \in triggers \/ (f = call.act /\ t \in learned)
      BY <1>1
    <3>11. MatchedIn(actionTriggersTable \cup more, tagTable, triggers')
      <4>1. Rescanned(tagTable, triggers, call.act, learned, more, ids, triggers')
        BY <3>2, <3>6, <3>7, <3>8, <3>10 DEF Rescanned
      <4> QED
        BY <3>1, <3>2, <3>4, <3>9, <4>1, RescanMatches
    <3>12. MatchedIn(actionTriggersTable', tagTable', triggers')
      BY <1>1, <3>3, <3>11 DEF more
    <3> QED
      BY <3>12 DEF Matched, MatchedIn, Counts, TagsOf, RowsOf, Wanted
  <2> QED
    BY <2>1, <2>2
<1>3. FilesOnce'
  BY <1>1 DEF TInv, FilesOnce
<1>4. LeftIsNew'
  BY <1>1 DEF LeftIsNew, Dispatch
<1> QED
  BY <1>2, <1>3, <1>4 DEF TInv

-----------------------------------------------------------------------------
(***************************************************************************)
(* The other steps.                                                        *)
(***************************************************************************)

\* A step that leaves the tables leaves what they count.
LEMMA TablesMatch ==
  ASSUME Matched, UNCHANGED <<tagTable, triggers, actionTriggersTable>>
  PROVE  Matched'
BY DEF Matched, MatchedIn, Counts, TagsOf, RowsOf, Wanted

\* provideInternal() appends a file only if it is not there.
LEMMA ProvideOnce ==
  ASSUME TypeOK, FilesOnce, NEW a \in Acts, NEW f \in Files, NEW T \in SUBSET Tags,
         Provide(a, f, T)
  PROVE  FilesOnce'
<1> DEFINE s == provisions[a]
<1>1. s \in Seq(Files)
  BY DEF TypeOK
<1>2. CASE UNCHANGED provisions
  BY <1>2 DEF FilesOnce
<1>3. CASE /\ {i \in DOMAIN s : s[i] = f} = {}
           /\ provisions' = [provisions EXCEPT ![a] = Append(s, f)]
  <2>1. provisions'[a] = Append(s, f) /\ \A b \in Acts \ {a} : provisions'[b] = provisions[b]
    BY <1>3 DEF TypeOK
  <2>2. \A i, j \in DOMAIN s : s[i] = s[j] => i = j
    BY DEF FilesOnce
  <2>3. \A i \in DOMAIN s : s[i] # f
    BY <1>3
  <2> HIDE DEF s
  <2>4. \A i, j \in DOMAIN Append(s, f) : Append(s, f)[i] = Append(s, f)[j] => i = j
    BY <1>1, <2>2, <2>3
  <2> QED
    BY <2>1, <2>4 DEF FilesOnce
<1> QED
  BY <1>2, <1>3 DEF Provide

\* returned() keeps the order of the files that survive.
LEMMA ReturnedMatches ==
  ASSUME IInv, TInv, NEW a \in Acts, Returned(a)
  PROVE  TInv'
<1> DEFINE s == provisions[a]
<1>1. /\ a \in activeActions /\ a \notin completedActionPtrs
      /\ UNCHANGED <<tagTable, triggers, actionTriggersTable>>
  BY DEF Returned, tableVars, IInv, OneOwner
<1>2. Matched'
  BY <1>1, TablesMatch DEF TInv
<1>3. \A i, j \in DOMAIN s : s[i] = s[j] => i = j
  BY DEF TInv, FilesOnce
<1>4. \A b \in Acts \ {a} : provisions'[b] = provisions[b]
  BY DEF Returned, IInv, TypeOK
<1>5. CASE state[a] = "FAILED"
  <2>1. provisions'[a] = <<>> /\ call'.kind = "dispatch"
    BY <1>5 DEF Returned, Dispatch, IInv, TypeOK
  <2>2. FilesOnce'
    BY <1>4, <2>1 DEF TInv, FilesOnce
  <2> QED
    BY <1>2, <2>1, <2>2 DEF TInv, LeftIsNew
<1>6. CASE state[a] # "FAILED"
  <2>1. PICK k \in Survivors(s) :
          /\ provisions' = [provisions EXCEPT ![a] = [i \in DOMAIN k |-> @[k[i]]]]
          /\ call' = Registering(a, ToRegister(a, k), GetTransitiveDependencies(a))
    BY <1>6 DEF Returned
  <2>2. provisions'[a] = [i \in DOMAIN k |-> s[k[i]]]
    BY <2>1 DEF IInv, TypeOK
  <2>3. PICK m \in 0..Len(s) : k \in [1..m -> DOMAIN s]
    BY DEF Survivors
  <2>4. s \in Seq(Files)
    BY DEF IInv, TypeOK
  <2>5. \A i, j \in DOMAIN k : i < j => k[i] < k[j]
    BY DEF Survivors
  <2>6. ASSUME NEW i \in DOMAIN k, NEW j \in DOMAIN k, s[k[i]] = s[k[j]]
        PROVE  i = j
    <3>1. k[i] \in DOMAIN s /\ k[j] \in DOMAIN s /\ i \in Nat /\ j \in Nat
      BY <2>3
    <3>2. k[i] = k[j]
      BY <1>3, <2>6, <3>1
    <3>3. k[i] \in Nat
      BY <2>4, <3>1
    <3> HIDE DEF s
    <3>4. ~(i < j) /\ ~(j < i)
      BY <2>5, <3>2, <3>3
    <3> QED
      BY <3>1, <3>4
  <2>7. FilesOnce'
    <3>1. \A i, j \in DOMAIN provisions'[a] : provisions'[a][i] = provisions'[a][j] => i = j
      BY <2>2, <2>6
    <3> QED
      BY <1>4, <3>1 DEF TInv, FilesOnce
  <2>8. call'.act = a /\ call'.left = ToRegister(a, k)
    BY <2>1 DEF Registering
  <2>9. ASSUME NEW x \in call'.left
        PROVE  NewRow(x)' \notin tagTable'
    <3>1. NewRow(x)'.prov.by = a
      BY <2>8 DEF NewRow
    <3>2. \A t \in tagTable : t.prov.by # a
      BY <1>1, DriverAssumption DEF IInv, NoDanglingRows, LiveProvision
    <3> QED
      BY <1>1, <3>1, <3>2
  <2>10. ASSUME NEW x \in call'.left, NEW y \in call'.left, x.file = y.file, x.tag = y.tag
         PROVE  x = y
    <3>1. /\ x \in [at : DOMAIN k, file : Files, tag : Tags] /\ x.file = s[k[x.at]]
          /\ y \in [at : DOMAIN k, file : Files, tag : Tags] /\ y.file = s[k[y.at]]
      BY <2>8 DEF ToRegister
    <3>2. x.at = y.at
      BY <2>6, <2>10, <3>1
    <3> QED
      BY <2>10, <3>1, <3>2
  <2>11. \A t \in triggers' : t.fac # a
    <3>1. a \notin Builtin
      BY DriverAssumption
    <3> QED
      BY <1>1, <3>1 DEF IInv, NoDanglingRows, LiveFactory
  <2> QED
    BY <1>2, <2>7, <2>8, <2>9, <2>10, <2>11 DEF TInv, LeftIsNew
<1> QED
  BY <1>5, <1>6

\* Every step keeps it.
LEMMA NextMatches ==
  ASSUME IInv, TInv, [Next]_vars
  PROVE  TInv'
<1>1. CASE UNCHANGED vars
  BY <1>1 DEF TInv, Matched, MatchedIn, Counts, TagsOf, RowsOf, Wanted, FilesOnce,
              LeftIsNew, NewRow, vars, actionVars, tableVars
<1>2. ASSUME NEW f \in SourceFiles, AddSourceFile(f) \/ RemoveSourceFile(f)
      PROVE  TInv'
  BY <1>2, SourceMatches
<1>3. ASSUME NEW a \in Acts, Returned(a)
      PROVE  TInv'
  BY <1>3, ReturnedMatches
<1>4. CASE RegisterProvider
  BY <1>4, RegisterProviderMatches
<1>5. CASE RegisterFactory
  BY <1>5, RegisterFactoryMatches
<1>6. CASE StartSomeActions
  <2>1. /\ call'.kind = "none"
        /\ UNCHANGED <<provisions, tagTable, triggers, actionTriggersTable>>
    BY <1>6 DEF StartSomeActions, NoCall, tableVars
  <2> QED
    BY <2>1, TablesMatch DEF TInv, FilesOnce, LeftIsNew
<1>7. ASSUME NEW a \in Acts,
             \/ Begin(a) \/ Passed(a) \/ Failed(a) \/ NoMoreEvents(a)
             \/ \E t \in Tags : FindProvider(a, t)
             \/ \E f \in Files, T \in SUBSET Tags : Provide(a, f, T)
             \/ \E T \in SUBSET Tags : AddActionType(a, T)
      PROVE  TInv'
  <2>1. /\ call'.kind = "none"
        /\ UNCHANGED <<tagTable, triggers, actionTriggersTable>>
    BY <1>7 DEF Begin, Passed, Failed, NoMoreEvents, Finish, FindProvider, Provide,
                AddActionType, CanCall, Idle, tableVars
  <2>2. FilesOnce'
    <3>1. CASE \E f \in Files, T \in SUBSET Tags : Provide(a, f, T)
      BY <3>1, ProvideOnce DEF IInv, TInv
    <3>2. CASE UNCHANGED provisions
      BY <3>2 DEF TInv, FilesOnce
    <3> QED
      BY <1>7, <3>1, <3>2 DEF Begin, Passed, Failed, NoMoreEvents, Finish, FindProvider,
                              AddActionType, actionVars
  <2> QED
    BY <2>1, <2>2, TablesMatch DEF TInv, LeftIsNew
<1> QED
  BY <1>1, <1>2, <1>3, <1>4, <1>5, <1>6, <1>7 DEF Next

\* A factory has made exactly one action for each tag it wants of each file that
\* carries it, whichever of the two was registered first and whatever was reset.
THEOREM ActionsMatchTriggers == Spec => []TriggeredExactlyOnce
<1>1. Init => TInv
  <2> SUFFICES ASSUME Init PROVE TInv
    OBVIOUS
  <2>1. Matched
    <3>1. \A p, f : /\ RowsOf(actionTriggersTable, p, f) = {}
                    /\ TagsOf(tagTable, p) = {}
                    /\ Wanted(tagTable, triggers, p, f) = {}
      BY DEF Init, RowsOf, TagsOf, Wanted
    <3> QED
      BY <3>1, FS_EmptySet DEF Matched, MatchedIn, Counts
  <2> QED
    BY <2>1 DEF Init, TInv, FilesOnce, LeftIsNew, NoCall
<1>2. IInv /\ TInv /\ [Next]_vars => TInv'
  BY NextMatches
<1>3. IInv /\ TInv => TriggeredExactlyOnce
  <2> SUFFICES ASSUME IInv, TInv, NEW n \in tagTable, NEW t \in triggers
               PROVE  Cardinality({r \in actionTriggersTable : r.prov = n.prov /\ r.fac = t.fac}) =
                      Cardinality({g \in Tags : /\ [tag |-> g, prov |-> n.prov] \in tagTable
                                                /\ [tag |-> g, fac |-> t.fac] \in triggers})
    BY DEF TriggeredExactlyOnce
  <2>1. n.prov \in Provisions /\ t.fac \in Factories
    BY DEF IInv, TypeOK, TagRows, TriggerRows
  <2>2. {g \in Tags : /\ [tag |-> g, prov |-> n.prov] \in tagTable
                      /\ [tag |-> g, fac |-> t.fac] \in triggers} =
        Wanted(tagTable, triggers, n.prov, t.fac)
    BY DEF Wanted, TagsOf
  <2>3. Counts(actionTriggersTable, tagTable, triggers, n.prov, t.fac)
    BY <2>1 DEF TInv, Matched, MatchedIn
  <2> QED
    BY <2>2, <2>3 DEF Counts, RowsOf
<1> QED
  BY <1>1, <1>2, <1>3, Invariant, PTL DEF Spec

=============================================================================
