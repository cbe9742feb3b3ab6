-------------------------- MODULE DashboardsProofs --------------------------
(***************************************************************************)
(* Proofs about Dashboards: what Ekam's own console prints, what a client  *)
(* shows that joins a build in the middle, and that no client's death goes *)
(* unnoticed, for any tasks, clients, limits and heights of the terminal.  *)
(*                                                                         *)
(* A console is `Drawn` when its list of running tasks is right and is on  *)
(* the terminal as it believes; every operation keeps that.  `DInv` says   *)
(* this of all of them, what the mux has of each task, and of each client  *)
(* what it will show when all that is on its way has arrived: a message    *)
(* that is sent changes that as it changes Ekam's own console, a message   *)
(* that is passed on or read does not change it, and attaching a task      *)
(* makes it what the mux has.                                              *)
(***************************************************************************)
EXTENDS Dashboards, SequenceLemmas, TLAPS

----------------------------------------------------------------------------
(* What the operators of a console make of its fields.                     *)

\* A console is its fields.
LEMMA ConsoleIsRecord ==
  ASSUME NEW k \in Console(Lines)
  PROVE  k = [st |-> k.st, out |-> k.out, running |-> k.running, lineCount |-> k.lineCount,
                 debugged |-> k.debugged, onScreen |-> k.onScreen, shown |-> k.shown,
                 eaten |-> k.eaten, left |-> k.left]
BY DEF Console

\* and each field has its type.
LEMMA ConsoleFields ==
  ASSUME NEW k \in Console(Lines)
  PROVE  /\ k.st \in [Tasks -> TaskStates \cup {"none"}]
         /\ k.out \in [Tasks -> Seq(Lines)] /\ k.running \in Seq(Tasks) /\ k.lineCount \in Int
         /\ k.debugged \in BOOLEAN /\ k.onScreen \in Nat /\ k.shown \in [Tasks -> Seq(Lines)]
         /\ k.eaten \in BOOLEAN /\ k.left \in BOOLEAN
BY DEF Console

\* clearRunning(): only the list on the terminal goes.
LEMMA ClearedFields ==
  ASSUME NEW k \in Console(Lines)
  PROVE  /\ ClearRunning(k) = [st |-> k.st, out |-> k.out, running |-> k.running, lineCount |-> k.lineCount,
                 debugged |-> k.debugged, onScreen |-> 0, shown |-> k.shown,
                 eaten |-> k.eaten \/ (~k.debugged /\ k.lineCount > k.onScreen),
                 left |-> k.left \/ (~k.debugged /\ k.lineCount < k.onScreen)]
         /\ ClearRunning(k) \in Console(Lines)
<1>1. ClearRunning(k) = [st |-> k.st, out |-> k.out, running |-> k.running, lineCount |-> k.lineCount,
                 debugged |-> k.debugged, onScreen |-> 0, shown |-> k.shown,
                 eaten |-> k.eaten \/ (~k.debugged /\ k.lineCount > k.onScreen),
                 left |-> k.left \/ (~k.debugged /\ k.lineCount < k.onScreen)]
  BY DEF ClearRunning, Console
<1>2. PICK ate \in BOOLEAN : ate = (k.eaten \/ (~k.debugged /\ k.lineCount > k.onScreen))
  OBVIOUS
<1>3. PICK leftIt \in BOOLEAN : leftIt = (k.left \/ (~k.debugged /\ k.lineCount < k.onScreen))
  OBVIOUS
<1>4. ClearRunning(k) = [st |-> k.st, out |-> k.out, running |-> k.running, lineCount |-> k.lineCount,
                 debugged |-> k.debugged, onScreen |-> 0, shown |-> k.shown,
                 eaten |-> ate, left |-> leftIt]
  BY ONLY <1>1, <1>2, <1>3
<1>5. ClearRunning(k) \in Console(Lines)
  <2>1. 0 \in Nat
    OBVIOUS
  <2> QED BY <1>4, <2>1, ConsoleFields DEF Console
<1> QED BY <1>1, <1>5

\* drawRunning(): the count is that of the lines, if there is room for any.
LEMMA DrawnFields ==
  ASSUME NEW k \in Console(Lines), NEW height \in Nat
  PROVE  LET d == DrawRunning(k, height)
             n == Len(k.running)
         IN /\ d \in Console(Lines) /\ d.st = k.st /\ d.out = k.out /\ d.running = k.running
            /\ d.shown = k.shown /\ d.eaten = k.eaten /\ d.left = k.left
            /\ d.lineCount <= d.onScreen /\ (height > 4 => d.lineCount = d.onScreen)
<1> DEFINE n == Len(k.running)
           space == height - 4
           lines == IF n < space THEN n ELSE space
           on == IF n < space THEN n ELSE 1 + IF space > 0 THEN space - 1 ELSE 0
<1>1. n \in Nat /\ space \in Int
  BY ConsoleFields
<1>2. DrawRunning(k, height) = [st |-> k.st, out |-> k.out, running |-> k.running, lineCount |-> lines,
                 debugged |-> FALSE, onScreen |-> on, shown |-> k.shown, eaten |-> k.eaten, left |-> k.left]
  <2>1. CASE n < space
    BY <2>1 DEF DrawRunning, Console
  <2>2. CASE ~(n < space)
    BY <2>2 DEF DrawRunning, Console
  <2> QED BY <2>1, <2>2
<1>3. lines \in Int /\ on \in Nat /\ lines <= on /\ (height > 4 => lines = on)
  BY <1>1
<1> HIDE DEF lines, on
<1>4. DrawRunning(k, height) \in Console(Lines)
  <2>1. FALSE \in BOOLEAN
    OBVIOUS
  <2> QED BY <1>2, <1>3, <2>1, ConsoleFields DEF Console
<1> QED BY <1>2, <1>3, <1>4

\* The reason why a task was blocked goes when it is pending or runs.
LEMMA ForgetFields ==
  ASSUME NEW k \in Console(Lines), NEW t \in Tasks, NEW s
  PROVE  /\ ForgetReason(k, t, s) = [st |-> k.st,
                 out |-> IF k.st[t] = "BLOCKED" /\ s \in {"PENDING", "RUNNING"}
                         THEN [k.out EXCEPT ![t] = <<>>] ELSE k.out,
                 running |-> k.running, lineCount |-> k.lineCount,
                 debugged |-> k.debugged, onScreen |-> k.onScreen, shown |-> k.shown,
                 eaten |-> k.eaten, left |-> k.left]
         /\ ForgetReason(k, t, s) \in Console(Lines)
<1>1. CASE k.st[t] = "BLOCKED" /\ s \in {"PENDING", "RUNNING"}
  <2>1. ForgetReason(k, t, s) = [st |-> k.st, out |-> [k.out EXCEPT ![t] = <<>>],
                 running |-> k.running, lineCount |-> k.lineCount,
                 debugged |-> k.debugged, onScreen |-> k.onScreen, shown |-> k.shown,
                 eaten |-> k.eaten, left |-> k.left]
    BY <1>1 DEF ForgetReason, Console
  <2>2. [k.out EXCEPT ![t] = <<>>] \in [Tasks -> Seq(Lines)]
    <3>1. <<>> \in Seq(Lines)
      OBVIOUS
    <3> QED BY <3>1, ConsoleFields
  <2>3. ForgetReason(k, t, s) \in Console(Lines)
    BY <2>1, <2>2, ConsoleFields DEF Console
  <2> QED BY <1>1, <2>1, <2>3
<1>2. CASE ~(k.st[t] = "BLOCKED" /\ s \in {"PENDING", "RUNNING"})
  BY <1>2, ConsoleIsRecord DEF ForgetReason
<1> QED BY <1>1, <1>2

\* What is written to the log is not in outputText any more.
LEMMA FinalLogFields ==
  ASSUME NEW k \in Console(Lines), NEW t \in Tasks
  PROVE  /\ WriteFinalLog(k, t) = [st |-> k.st, out |-> [k.out EXCEPT ![t] = <<>>],
                 running |-> k.running, lineCount |-> k.lineCount,
                 debugged |-> k.debugged, onScreen |-> k.onScreen,
                 shown |-> [k.shown EXCEPT ![t] = k.shown[t] \o k.out[t]],
                 eaten |-> k.eaten, left |-> k.left]
         /\ WriteFinalLog(k, t) \in Console(Lines)
<1>1. WriteFinalLog(k, t) = [st |-> k.st, out |-> [k.out EXCEPT ![t] = <<>>],
                 running |-> k.running, lineCount |-> k.lineCount,
                 debugged |-> k.debugged, onScreen |-> k.onScreen,
                 shown |-> [k.shown EXCEPT ![t] = k.shown[t] \o k.out[t]],
                 eaten |-> k.eaten, left |-> k.left]
  <2>1. WriteFinalLog(k, t) = [[k EXCEPT !.shown[t] = k.shown[t] \o k.out[t]] EXCEPT !.out[t] = <<>>]
    BY DEF WriteFinalLog
  <2>2. [k EXCEPT !.shown[t] = k.shown[t] \o k.out[t]]
        = [st |-> k.st, out |-> k.out, running |-> k.running, lineCount |-> k.lineCount,
                 debugged |-> k.debugged, onScreen |-> k.onScreen,
                 shown |-> [k.shown EXCEPT ![t] = k.shown[t] \o k.out[t]],
                 eaten |-> k.eaten, left |-> k.left]
    <3>1. k = [st |-> k.st, out |-> k.out, running |-> k.running, lineCount |-> k.lineCount,
                 debugged |-> k.debugged, onScreen |-> k.onScreen, shown |-> k.shown,
                 eaten |-> k.eaten, left |-> k.left]
      BY ConsoleIsRecord
    <3>2. PICK p : p = [k.shown EXCEPT ![t] = k.shown[t] \o k.out[t]]
      OBVIOUS
    <3>3. [k EXCEPT !.shown[t] = k.shown[t] \o k.out[t]] = [k EXCEPT !.shown = p]
      BY <3>2 DEF Console
    <3>4. [k EXCEPT !.shown = p] = [st |-> k.st, out |-> k.out, running |-> k.running, lineCount |-> k.lineCount,
                 debugged |-> k.debugged, onScreen |-> k.onScreen, shown |-> p,
                 eaten |-> k.eaten, left |-> k.left]
      BY ONLY <3>1
    <3> QED BY ONLY <3>2, <3>3, <3>4
  <2> QED BY <2>1, <2>2
<1>2. [k.out EXCEPT ![t] = <<>>] \in [Tasks -> Seq(Lines)]
  <2>1. <<>> \in Seq(Lines)
    OBVIOUS
  <2> QED BY <2>1, ConsoleFields
<1>3. [k.shown EXCEPT ![t] = k.shown[t] \o k.out[t]] \in [Tasks -> Seq(Lines)]
  <2>1. k.shown[t] \in Seq(Lines) /\ k.out[t] \in Seq(Lines)
    BY ConsoleFields
  <2>2. k.shown[t] \o k.out[t] \in Seq(Lines)
    BY <2>1
  <2> QED BY <2>2, ConsoleFields
<1>4. WriteFinalLog(k, t) \in Console(Lines)
  BY <1>1, <1>2, <1>3, ConsoleFields DEF Console
<1> QED BY <1>1, <1>4

\* The tasks in a console's list; no task is listed twice, and exactly those
\* that run and are not silent are listed.
RunningIn(k) == {k.running[i] : i \in DOMAIN k.running}
ListedOnce(k) == \A i, j \in DOMAIN k.running : k.running[i] = k.running[j] => i = j
Listed(k) == RunningIn(k) = {t \in Tasks \ Silent : k.st[t] = "RUNNING"} /\ ListedOnce(k)

\* The list without a task.
LEMMA RemovedFromRunning ==
  ASSUME NEW k \in Console(Lines), NEW t \in Tasks,
         ListedOnce(k)
  PROVE  LET r == RemoveFromRunning(k, t)
         IN /\ r = [st |-> k.st, out |-> k.out, running |-> r.running, lineCount |-> k.lineCount,
                    debugged |-> k.debugged, onScreen |-> k.onScreen, shown |-> k.shown,
                    eaten |-> k.eaten, left |-> k.left]
            /\ r \in Console(Lines)
            /\ RunningIn(r) = RunningIn(k) \ {t}
            /\ ListedOnce(r)
<1> DEFINE s == k.running
           K == {i \in DOMAIN s : ~IsFirst(s, t, i)}
           r == Sublist(s, K)
<1>1. s \in Seq(Tasks) /\ K \in SUBSET (DOMAIN s) /\ DOMAIN s = 1 .. Len(s) /\ Len(s) \in Nat
  BY ConsoleFields
<1>2. \A i \in DOMAIN s : i \in K <=> s[i] # t
  <2>1. ASSUME NEW i \in DOMAIN s, s[i] = t PROVE IsFirst(s, t, i)
    <3>1. \A j \in 1 .. i - 1 : j \in DOMAIN s /\ j # i
      BY <1>1
    <3> QED BY <2>1, <3>1 DEF IsFirst, ListedOnce
  <2>2. ASSUME NEW i \in DOMAIN s, s[i] # t PROVE ~IsFirst(s, t, i)
    BY <2>2 DEF IsFirst
  <2> QED BY <2>1, <2>2
<1>3. r \in Seq(Tasks) /\ DOMAIN r = 1 .. Cardinality(K)
  <2> HIDE DEF K, s
  <2> QED BY <1>1, SublistIsTyped
<1>4. \A i \in K : Place(K, i) \in DOMAIN r /\ r[Place(K, i)] = s[i]
  <2>1. PICK m \in Nat : K \in SUBSET (1 .. m)
    BY <1>1
  <2>2. DOMAIN r = 1 .. Cardinality(K) /\ r = Sublist(s, K)
    BY <1>3
  <2> HIDE DEF K, s, r
  <2> QED BY ONLY <2>1, <2>2, SublistAt
<1>5. \A n \in DOMAIN r : \E i \in K : Place(K, i) = n
  <2>1. PICK m \in Nat : K \in SUBSET (1 .. m)
    BY <1>1
  <2>2. DOMAIN r = 1 .. Cardinality(K) /\ r = Sublist(s, K)
    BY <1>3
  <2> HIDE DEF K, s, r
  <2> QED BY ONLY <2>1, <2>2, PlacesAreTaken
<1> HIDE DEF r
<1>6. {r[i] : i \in DOMAIN r} = {s[i] : i \in DOMAIN s} \ {t}
  <2>1. ASSUME NEW n \in DOMAIN r PROVE r[n] \in {s[i] : i \in DOMAIN s} \ {t}
    <3>1. PICK i \in K : Place(K, i) = n
      BY <1>5
    <3>2. r[n] = s[i] /\ i \in DOMAIN s /\ s[i] # t
      BY <1>2, <1>4, <3>1
    <3> QED BY <3>2
  <2>2. ASSUME NEW i \in DOMAIN s, s[i] # t PROVE s[i] \in {r[n] : n \in DOMAIN r}
    <3>1. i \in K
      BY <1>2, <2>2
    <3> QED BY <1>4, <3>1
  <2> QED BY <2>1, <2>2
<1>7. \A i, j \in DOMAIN r : r[i] = r[j] => i = j
  <2>1. ASSUME NEW m \in DOMAIN r, NEW n \in DOMAIN r, r[m] = r[n] PROVE m = n
    <3>1. PICK i \in K : Place(K, i) = m
      BY <1>5
    <3>2. PICK j \in K : Place(K, j) = n
      BY <1>5
    <3>3. s[i] = s[j] /\ i \in DOMAIN s /\ j \in DOMAIN s
      BY <1>4, <2>1, <3>1, <3>2
    <3>4. i = j
      BY <3>3 DEF ListedOnce
    <3> QED BY <3>1, <3>2, <3>4
  <2> QED BY <2>1
<1>8. RemoveFromRunning(k, t) = [st |-> k.st, out |-> k.out, running |-> r, lineCount |-> k.lineCount,
                    debugged |-> k.debugged, onScreen |-> k.onScreen, shown |-> k.shown,
                    eaten |-> k.eaten, left |-> k.left]
  <2>1. RemoveFromRunning(k, t) = [k EXCEPT !.running = r]
    <3>1. k.running = s /\ r = Sublist(k.running, {i \in DOMAIN k.running : ~IsFirst(k.running, t, i)})
      BY DEF r
    <3> QED BY <3>1, ConsoleFields DEF RemoveFromRunning
  <2> HIDE DEF K, s
  <2> QED BY <2>1 DEF Console
<1>9. RemoveFromRunning(k, t) \in Console(Lines)
  <2> HIDE DEF s, K
  <2> QED BY <1>3, <1>8, ConsoleFields DEF Console
<1>10. RemoveFromRunning(k, t).running = r
  <2> HIDE DEF s, K
  <2> QED BY <1>8
<1>11. RunningIn(RemoveFromRunning(k, t)) = RunningIn(k) \ {t} /\ ListedOnce(RemoveFromRunning(k, t))
  BY <1>6, <1>7, <1>10 DEF RunningIn, ListedOnce
<1> QED BY ONLY <1>8, <1>9, <1>10, <1>11

\* Assignments to a single field.
LEMMA StateFields ==
  ASSUME NEW k \in Console(Lines), NEW t \in Tasks, NEW x \in TaskStates \cup {"none"}
  PROVE  LET d == [k EXCEPT !.st[t] = x]
         IN /\ d = [st |-> [k.st EXCEPT ![t] = x], out |-> k.out, running |-> k.running,
                 lineCount |-> k.lineCount, debugged |-> k.debugged,
                 onScreen |-> k.onScreen, shown |-> k.shown, eaten |-> k.eaten,
                 left |-> k.left]
            /\ d \in Console(Lines)
<1>1. k = [st |-> k.st, out |-> k.out, running |-> k.running,
           lineCount |-> k.lineCount, debugged |-> k.debugged,
           onScreen |-> k.onScreen, shown |-> k.shown, eaten |-> k.eaten,
           left |-> k.left]
  BY ConsoleIsRecord
<1>2. PICK p : p = [k.st EXCEPT ![t] = x]
  OBVIOUS
<1>3. [k EXCEPT !.st[t] = x] = [k EXCEPT !.st = p]
  BY <1>2 DEF Console
<1>4. [k EXCEPT !.st = p]
      = [st |-> p, out |-> k.out, running |-> k.running,
         lineCount |-> k.lineCount, debugged |-> k.debugged,
         onScreen |-> k.onScreen, shown |-> k.shown, eaten |-> k.eaten,
         left |-> k.left]
  BY ONLY <1>1
<1>5. p \in [Tasks -> TaskStates \cup {"none"}]
  BY <1>2, ConsoleFields
<1>6. [k EXCEPT !.st = p] \in Console(Lines)
  BY <1>4, <1>5, ConsoleFields DEF Console
<1> QED BY ONLY <1>2, <1>3, <1>4, <1>6

LEMMA OutputFields ==
  ASSUME NEW k \in Console(Lines), NEW t \in Tasks, NEW x \in Seq(Lines)
  PROVE  LET d == [k EXCEPT !.out[t] = x]
         IN /\ d = [st |-> k.st, out |-> [k.out EXCEPT ![t] = x], running |-> k.running,
                 lineCount |-> k.lineCount, debugged |-> k.debugged,
                 onScreen |-> k.onScreen, shown |-> k.shown, eaten |-> k.eaten,
                 left |-> k.left]
            /\ d \in Console(Lines)
<1>1. k = [st |-> k.st, out |-> k.out, running |-> k.running,
           lineCount |-> k.lineCount, debugged |-> k.debugged,
           onScreen |-> k.onScreen, shown |-> k.shown, eaten |-> k.eaten,
           left |-> k.left]
  BY ConsoleIsRecord
<1>2. PICK p : p = [k.out EXCEPT ![t] = x]
  OBVIOUS
<1>3. [k EXCEPT !.out[t] = x] = [k EXCEPT !.out = p]
  BY <1>2 DEF Console
<1>4. [k EXCEPT !.out = p]
      = [st |-> k.st, out |-> p, running |-> k.running, lineCount |-> k.lineCount,
         debugged |-> k.debugged, onScreen |-> k.onScreen, shown |-> k.shown,
         eaten |-> k.eaten, left |-> k.left]
  BY ONLY <1>1
<1>5. p \in [Tasks -> Seq(Lines)]
  BY <1>2, ConsoleFields
<1>6. [k EXCEPT !.out = p] \in Console(Lines)
  BY <1>4, <1>5, ConsoleFields DEF Console
<1> QED BY ONLY <1>2, <1>3, <1>4, <1>6

LEMMA PrintedFields ==
  ASSUME NEW k \in Console(Lines), NEW t \in Tasks, NEW x \in Seq(Lines)
  PROVE  LET d == [k EXCEPT !.shown[t] = x]
         IN /\ d = [st |-> k.st, out |-> k.out, running |-> k.running,
                 lineCount |-> k.lineCount, debugged |-> k.debugged,
                 onScreen |-> k.onScreen, shown |-> [k.shown EXCEPT ![t] = x],
                 eaten |-> k.eaten, left |-> k.left]
            /\ d \in Console(Lines)
<1>1. k = [st |-> k.st, out |-> k.out, running |-> k.running,
           lineCount |-> k.lineCount, debugged |-> k.debugged,
           onScreen |-> k.onScreen, shown |-> k.shown, eaten |-> k.eaten,
           left |-> k.left]
  BY ConsoleIsRecord
<1>2. PICK p : p = [k.shown EXCEPT ![t] = x]
  OBVIOUS
<1>3. [k EXCEPT !.shown[t] = x] = [k EXCEPT !.shown = p]
  BY <1>2 DEF Console
<1>4. [k EXCEPT !.shown = p]
      = [st |-> k.st, out |-> k.out, running |-> k.running,
         lineCount |-> k.lineCount, debugged |-> k.debugged,
         onScreen |-> k.onScreen, shown |-> p, eaten |-> k.eaten, left |-> k.left]
  BY ONLY <1>1
<1>5. p \in [Tasks -> Seq(Lines)]
  BY <1>2, ConsoleFields
<1>6. [k EXCEPT !.shown = p] \in Console(Lines)
  BY <1>4, <1>5, ConsoleFields DEF Console
<1> QED BY ONLY <1>2, <1>3, <1>4, <1>6

----------------------------------------------------------------------------
(* A console that was drawn: an invariant of every one there is.           *)

\* A console between two calls, which has drawn its list.
Drawn(k, height) ==
  /\ k \in Console(Lines)
  /\ Listed(k)
  /\ \A t \in Tasks : k.st[t] = "none" => k.out[t] = <<>> /\ k.shown[t] = <<>>
  /\ ~k.eaten
  /\ height > 4 => ~k.left
  /\ ~k.debugged => k.lineCount <= k.onScreen /\ (height > 4 => k.lineCount = k.onScreen)

\* A task that is not running, or is silent, is not in the list.
LEMMA LeaveRunningFields ==
  ASSUME NEW k \in Console(Lines), NEW t \in Tasks, Listed(k)
  PROVE  LET d == LeaveRunning(k, t)
         IN /\ d \in Console(Lines) /\ d.st = k.st /\ d.out = k.out /\ d.shown = k.shown
            /\ d.lineCount = k.lineCount /\ d.debugged = k.debugged /\ d.onScreen = k.onScreen
            /\ d.eaten = k.eaten /\ d.left = k.left
            /\ RunningIn(d) = {u \in Tasks \ Silent : k.st[u] = "RUNNING"} \ {t}
            /\ ListedOnce(d)
<1>1. RunningIn(k) = {u \in Tasks \ Silent : k.st[u] = "RUNNING"} /\ ListedOnce(k)
  BY DEF Listed
<1>2. CASE k.st[t] = "RUNNING" /\ t \notin Silent
  <2>1. PICK d : d = RemoveFromRunning(k, t)
    OBVIOUS
  <2>2. LeaveRunning(k, t) = d
    BY <1>2, <2>1 DEF LeaveRunning
  <2>3. /\ d = [st |-> k.st, out |-> k.out, running |-> d.running, lineCount |-> k.lineCount,
                debugged |-> k.debugged, onScreen |-> k.onScreen, shown |-> k.shown,
                eaten |-> k.eaten, left |-> k.left]
        /\ d \in Console(Lines)
        /\ RunningIn(d) = RunningIn(k) \ {t} /\ ListedOnce(d)
    BY <1>1, <2>1, RemovedFromRunning
  <2>4. /\ d.st = k.st /\ d.out = k.out /\ d.shown = k.shown
        /\ d.lineCount = k.lineCount /\ d.debugged = k.debugged /\ d.onScreen = k.onScreen
        /\ d.eaten = k.eaten /\ d.left = k.left
    BY ONLY <2>3
  <2> QED BY ONLY <1>1, <2>2, <2>3, <2>4
<1>3. CASE ~(k.st[t] = "RUNNING" /\ t \notin Silent)
  <2>1. LeaveRunning(k, t) = k
    BY <1>3 DEF LeaveRunning
  <2>2. t \notin {u \in Tasks \ Silent : k.st[u] = "RUNNING"}
    BY <1>3
  <2> QED BY <1>1, <2>1, <2>2
<1> QED BY <1>2, <1>3

\* Moving up over a list that was drawn erases it, and nothing else.
LEMMA ClearedWell ==
  ASSUME NEW k \in Console(Lines), NEW height \in Nat,
         ~k.eaten, height > 4 => ~k.left,
         ~k.debugged => k.lineCount <= k.onScreen /\ (height > 4 => k.lineCount = k.onScreen)
  PROVE  LET c == ClearRunning(k)
         IN /\ c \in Console(Lines) /\ c.st = k.st /\ c.out = k.out /\ c.running = k.running
            /\ c.shown = k.shown /\ ~c.eaten /\ (height > 4 => ~c.left)
<1>1. PICK c : c = ClearRunning(k)
  OBVIOUS
<1>2. /\ c = [st |-> k.st, out |-> k.out, running |-> k.running, lineCount |-> k.lineCount,
                 debugged |-> k.debugged, onScreen |-> 0, shown |-> k.shown,
                 eaten |-> k.eaten \/ (~k.debugged /\ k.lineCount > k.onScreen),
                 left |-> k.left \/ (~k.debugged /\ k.lineCount < k.onScreen)]
      /\ c \in Console(Lines)
  BY <1>1, ClearedFields
<1>3. /\ c.st = k.st /\ c.out = k.out /\ c.running = k.running /\ c.shown = k.shown
      /\ c.eaten = (k.eaten \/ (~k.debugged /\ k.lineCount > k.onScreen))
      /\ c.left = (k.left \/ (~k.debugged /\ k.lineCount < k.onScreen))
  BY ONLY <1>2
<1>4. k.lineCount \in Int /\ k.onScreen \in Int /\ k.eaten \in BOOLEAN /\ k.left \in BOOLEAN
  BY ConsoleFields
<1>5. ~(~k.debugged /\ k.lineCount > k.onScreen)
  BY <1>4
<1>6. height > 4 => ~(~k.debugged /\ k.lineCount < k.onScreen)
  BY <1>4
<1> QED BY <1>1, <1>2, <1>3, <1>5, <1>6

\* What SetState makes of the texts of a task, one clause for each kind of state.
TextsAfter(k, d, t, s) ==
  /\ \A u \in Tasks \ {t} : d.out[u] = k.out[u] /\ d.shown[u] = k.shown[u]
  /\ s \in Final => d.shown[t] = k.shown[t] \o k.out[t] /\ d.out[t] = <<>>
  /\ s = "BLOCKED" => d.shown[t] = k.shown[t] /\ d.out[t] = k.out[t]
  /\ s = "PENDING" => /\ d.shown[t] = k.shown[t]
                      /\ d.out[t] = IF k.st[t] = "BLOCKED" THEN <<>> ELSE k.out[t]
  /\ s = "RUNNING" => /\ d.shown[t] = <<>>
                      /\ d.out[t] = IF k.st[t] = "BLOCKED" THEN <<>> ELSE k.out[t]

\* What was drawn is drawn again after a change that leaves it on the terminal.
LEMMA DrawnAgain ==
  ASSUME NEW k \in Console(Lines), NEW height \in Nat, Listed(k), ~k.eaten, height > 4 => ~k.left,
         \A t \in Tasks : k.st[t] = "none" => k.out[t] = <<>> /\ k.shown[t] = <<>>
  PROVE  LET d == DrawRunning(k, height)
         IN Drawn(d, height) /\ d.st = k.st /\ d.out = k.out /\ d.shown = k.shown
<1>1. PICK d : d = DrawRunning(k, height)
  OBVIOUS
<1>2. /\ d \in Console(Lines) /\ d.st = k.st /\ d.out = k.out /\ d.running = k.running
      /\ d.shown = k.shown /\ d.eaten = k.eaten /\ d.left = k.left
      /\ d.lineCount <= d.onScreen /\ (height > 4 => d.lineCount = d.onScreen)
  BY <1>1, DrawnFields
<1>3. Listed(d)
  BY <1>2 DEF Listed, RunningIn, ListedOnce
<1> QED BY <1>1, <1>2, <1>3 DEF Drawn

\* setState(): the task is in the list if it runs, and the list is drawn again.
LEMMA SetStateDraws ==
  ASSUME NEW k, NEW height \in Nat, Drawn(k, height), NEW t \in Tasks, NEW s \in TaskStates
  PROVE  LET d == SetState(k, t, s, height)
         IN /\ Drawn(d, height)
            /\ d.st = [k.st EXCEPT ![t] = s]
            /\ TextsAfter(k, d, t, s)
<1>0. k \in Console(Lines) /\ Listed(k)
  BY DEF Drawn
<1>1. PICK a : a = ForgetReason(k, t, s)
  OBVIOUS
<1>2. /\ a \in Console(Lines) /\ a.st = k.st /\ a.running = k.running /\ a.shown = k.shown
      /\ a.lineCount = k.lineCount /\ a.debugged = k.debugged /\ a.onScreen = k.onScreen
      /\ a.eaten = k.eaten /\ a.left = k.left
      /\ a.out = IF k.st[t] = "BLOCKED" /\ s \in {"PENDING", "RUNNING"}
                 THEN [k.out EXCEPT ![t] = <<>>] ELSE k.out
  <2>1. /\ a = [st |-> k.st,
                 out |-> IF k.st[t] = "BLOCKED" /\ s \in {"PENDING", "RUNNING"}
                         THEN [k.out EXCEPT ![t] = <<>>] ELSE k.out,
                 running |-> k.running, lineCount |-> k.lineCount,
                 debugged |-> k.debugged, onScreen |-> k.onScreen, shown |-> k.shown,
                 eaten |-> k.eaten, left |-> k.left]
        /\ a \in Console(Lines)
    BY <1>0, <1>1, ForgetFields
  <2> QED BY ONLY <2>1
<1>3. Listed(a)
  BY <1>0, <1>2 DEF Listed, RunningIn, ListedOnce
<1>4. PICK b : b = LeaveRunning(a, t)
  OBVIOUS
<1>5. /\ b \in Console(Lines) /\ b.st = a.st /\ b.out = a.out /\ b.shown = a.shown
      /\ b.lineCount = a.lineCount /\ b.debugged = a.debugged /\ b.onScreen = a.onScreen
      /\ b.eaten = a.eaten /\ b.left = a.left
      /\ RunningIn(b) = {u \in Tasks \ Silent : a.st[u] = "RUNNING"} \ {t}
      /\ ListedOnce(b)
  BY <1>2, <1>3, <1>4, LeaveRunningFields
<1>6. PICK c : c = [b EXCEPT !.st[t] = s]
  OBVIOUS
<1>7. /\ c \in Console(Lines) /\ c.st = [b.st EXCEPT ![t] = s] /\ c.out = b.out /\ c.shown = b.shown
      /\ c.lineCount = b.lineCount /\ c.debugged = b.debugged /\ c.onScreen = b.onScreen
      /\ c.eaten = b.eaten /\ c.left = b.left /\ c.running = b.running
  <2>1. s \in TaskStates \cup {"none"}
    OBVIOUS
  <2>2. /\ c = [st |-> [b.st EXCEPT ![t] = s], out |-> b.out, running |-> b.running,
                lineCount |-> b.lineCount, debugged |-> b.debugged, onScreen |-> b.onScreen,
                shown |-> b.shown, eaten |-> b.eaten, left |-> b.left]
        /\ c \in Console(Lines)
    BY <1>5, <1>6, <2>1, StateFields
  <2> QED BY ONLY <2>2
<1>8. PICK e : e = ClearRunning(c)
  OBVIOUS
<1>9. /\ e \in Console(Lines) /\ e.st = c.st /\ e.out = c.out /\ e.running = c.running
      /\ e.shown = c.shown /\ ~e.eaten /\ (height > 4 => ~e.left)
  <2>1. /\ ~c.eaten /\ (height > 4 => ~c.left)
        /\ ~c.debugged => c.lineCount <= c.onScreen /\ (height > 4 => c.lineCount = c.onScreen)
    BY <1>2, <1>5, <1>7 DEF Drawn
  <2> QED BY <1>7, <1>8, <2>1, ClearedWell
<1> DEFINE f == CASE s \in Final -> WriteFinalLog(e, t)
                  [] s = "RUNNING" ->
                          [e EXCEPT !.shown[t] = <<>>,
                             !.running = IF t \in Silent THEN @ ELSE Append(@, t)]
                  [] OTHER -> e
<1>10. SetState(k, t, s, height) = DrawRunning(f, height)
  BY <1>1, <1>4, <1>6, <1>8 DEF SetState
<1>11. e.st = [k.st EXCEPT ![t] = s] /\ e.out = a.out /\ e.shown = k.shown
  BY <1>2, <1>5, <1>7, <1>9
<1>12. RunningIn(e) = {u \in Tasks \ Silent : k.st[u] = "RUNNING"} \ {t} /\ ListedOnce(e)
  BY <1>2, <1>5, <1>7, <1>9 DEF RunningIn, ListedOnce
<1>13. /\ f \in Console(Lines) /\ f.st = e.st
       /\ ~f.eaten /\ (height > 4 => ~f.left)
       /\ Listed(f)
       /\ TextsAfter(k, f, t, s)
  <2>0. e.st \in [Tasks -> TaskStates \cup {"none"}] /\ e.shown \in [Tasks -> Seq(Lines)]
        /\ e.out \in [Tasks -> Seq(Lines)] /\ e.running \in Seq(Tasks)
        /\ k.st \in [Tasks -> TaskStates \cup {"none"}]
        /\ k.out \in [Tasks -> Seq(Lines)] /\ k.shown \in [Tasks -> Seq(Lines)]
    BY <1>0, <1>9, ConsoleFields
  <2>1. s # "RUNNING" => {u \in Tasks \ Silent : e.st[u] = "RUNNING"}
                         = {u \in Tasks \ Silent : k.st[u] = "RUNNING"} \ {t}
    BY <1>11, <2>0
  <2>2. s = "RUNNING" => {u \in Tasks \ Silent : e.st[u] = "RUNNING"}
                         = ({u \in Tasks \ Silent : k.st[u] = "RUNNING"} \ {t})
                           \cup (IF t \in Silent THEN {} ELSE {t})
    BY <1>11, <2>0
  <2>9. /\ \A u \in Tasks \ {t} : e.out[u] = k.out[u]
        /\ s \in {"PENDING", "RUNNING"} =>
              e.out[t] = IF k.st[t] = "BLOCKED" THEN <<>> ELSE k.out[t]
        /\ s = "BLOCKED" => e.out[t] = k.out[t]
    BY <1>2, <1>11, <2>0
  <2>3. CASE s \in Final
    <3>1. s \notin {"PENDING", "RUNNING", "BLOCKED"} /\ s # "RUNNING"
      BY <2>3 DEF Final
    <3>2. PICK g : g = WriteFinalLog(e, t)
      OBVIOUS
    <3>3. f = g
      BY <2>3, <3>1, <3>2
    <3>4. /\ g \in Console(Lines) /\ g.st = e.st /\ g.running = e.running
          /\ g.out = [e.out EXCEPT ![t] = <<>>]
          /\ g.shown = [e.shown EXCEPT ![t] = e.shown[t] \o e.out[t]]
          /\ g.eaten = e.eaten /\ g.left = e.left
      <4>1. /\ g = [st |-> e.st, out |-> [e.out EXCEPT ![t] = <<>>],
                 running |-> e.running, lineCount |-> e.lineCount,
                 debugged |-> e.debugged, onScreen |-> e.onScreen,
                 shown |-> [e.shown EXCEPT ![t] = e.shown[t] \o e.out[t]],
                 eaten |-> e.eaten, left |-> e.left]
            /\ g \in Console(Lines)
        BY <1>9, <3>2, FinalLogFields
      <4> QED BY ONLY <4>1
    <3>5. Listed(g)
      BY <1>12, <2>1, <3>1, <3>4 DEF Listed, RunningIn, ListedOnce
    <3>6. e.out = k.out /\ e.shown = k.shown
      BY <1>2, <1>11, <3>1
    <3>7. TextsAfter(k, g, t, s)
      BY <2>0, <2>3, <3>1, <3>4, <3>6 DEF TextsAfter
    <3> HIDE DEF f
    <3> QED BY <1>9, <3>3, <3>4, <3>5, <3>7
  <2>4. CASE s = "RUNNING"
    <3>1. s \notin Final
      BY <2>4 DEF Final
    <3>2. PICK g : g = [e EXCEPT !.shown[t] = <<>>]
      OBVIOUS
    <3>3. /\ g \in Console(Lines) /\ g.st = e.st /\ g.running = e.running /\ g.out = e.out
          /\ g.shown = [e.shown EXCEPT ![t] = <<>>] /\ g.eaten = e.eaten /\ g.left = e.left
      <4>1. <<>> \in Seq(Lines)
        OBVIOUS
      <4>2. /\ g = [st |-> e.st, out |-> e.out, running |-> e.running, lineCount |-> e.lineCount,
                 debugged |-> e.debugged, onScreen |-> e.onScreen,
                 shown |-> [e.shown EXCEPT ![t] = <<>>], eaten |-> e.eaten, left |-> e.left]
            /\ g \in Console(Lines)
        BY <1>9, <3>2, <4>1, PrintedFields
      <4> QED BY ONLY <4>2
    <3>4. PICK r : r = IF t \in Silent THEN e.running ELSE Append(e.running, t)
      OBVIOUS
    <3>5. PICK h : h = [g EXCEPT !.running = r]
      OBVIOUS
    <3>6. f = h
      <4>1. f = [[e EXCEPT !.shown[t] = <<>>] EXCEPT
                 !.running = IF t \in Silent THEN @ ELSE Append(@, t)]
        BY <2>4, <3>1
      <4>2. f = [g EXCEPT !.running = IF t \in Silent THEN @ ELSE Append(@, t)]
        BY <3>2, <4>1
      <4> HIDE DEF f
      <4> QED BY <3>3, <3>4, <3>5, <4>2 DEF Console
    <3>7. r \in Seq(Tasks)
      <4>1. Append(e.running, t) \in Seq(Tasks)
        BY <2>0
      <4> QED BY <2>0, <3>4, <4>1
    <3>8. h = [st |-> g.st, out |-> g.out, running |-> r, lineCount |-> g.lineCount,
                 debugged |-> g.debugged, onScreen |-> g.onScreen, shown |-> g.shown,
                 eaten |-> g.eaten, left |-> g.left]
      <4>1. g = [st |-> g.st, out |-> g.out, running |-> g.running, lineCount |-> g.lineCount,
                 debugged |-> g.debugged, onScreen |-> g.onScreen, shown |-> g.shown,
                 eaten |-> g.eaten, left |-> g.left]
        BY <3>3, ConsoleIsRecord
      <4> QED BY ONLY <3>5, <4>1
    <3>9. h \in Console(Lines)
      BY <3>3, <3>7, <3>8, ConsoleFields DEF Console
    <3>10. /\ h.st = e.st /\ h.running = r /\ h.out = e.out /\ h.shown = [e.shown EXCEPT ![t] = <<>>]
           /\ h.eaten = e.eaten /\ h.left = e.left
      BY ONLY <3>3, <3>8
    <3>11. /\ {r[i] : i \in DOMAIN r} = RunningIn(e) \cup (IF t \in Silent THEN {} ELSE {t})
           /\ \A i, j \in DOMAIN r : r[i] = r[j] => i = j
      <4>1. CASE t \in Silent
        BY <1>12, <3>4, <4>1 DEF RunningIn, ListedOnce
      <4>2. CASE t \notin Silent
        <5>1. r = Append(e.running, t) /\ t \notin RunningIn(e)
          BY <1>12, <3>4, <4>2
        <5>2. /\ DOMAIN e.running = 1 .. Len(e.running) /\ Len(e.running) \in Nat
              /\ DOMAIN r = 1 .. Len(e.running) + 1
              /\ \A i \in DOMAIN e.running : r[i] = e.running[i]
              /\ r[Len(e.running) + 1] = t
          BY <2>0, <5>1
        <5> QED BY <1>12, <4>2, <5>1, <5>2 DEF RunningIn, ListedOnce
      <4> QED BY <4>1, <4>2
    <3>12. Listed(h)
      BY <1>12, <2>2, <2>4, <3>10, <3>11 DEF Listed, RunningIn, ListedOnce
    <3>13. TextsAfter(k, h, t, s)
      <4>1. h.shown[t] = <<>> /\ \A u \in Tasks \ {t} : h.shown[u] = k.shown[u]
        BY <1>11, <2>0, <3>10
      <4>2. /\ h.out[t] = IF k.st[t] = "BLOCKED" THEN <<>> ELSE k.out[t]
            /\ \A u \in Tasks \ {t} : h.out[u] = k.out[u]
        BY <2>4, <2>9, <3>10
      <4>3. s # "BLOCKED" /\ s # "PENDING"
        BY <2>4
      <4> QED BY <2>4, <3>1, <4>1, <4>2, <4>3 DEF TextsAfter
    <3> HIDE DEF f
    <3> QED BY <1>9, <3>6, <3>9, <3>10, <3>12, <3>13
  <2>5. CASE s \notin Final /\ s # "RUNNING"
    <3>1. f = e
      BY <2>5
    <3>2. Listed(e)
      BY <1>12, <2>1, <2>5 DEF Listed
    <3>3. TextsAfter(k, e, t, s)
      BY <1>11, <2>5, <2>9 DEF TextsAfter, Final
    <3> HIDE DEF f
    <3> QED BY <1>9, <3>1, <3>2, <3>3
  <2> HIDE DEF f
  <2> QED BY <2>3, <2>4, <2>5
<1>14. \A u \in Tasks : f.st[u] = "none" => f.out[u] = <<>> /\ f.shown[u] = <<>>
  <2>1. s # "none"
    BY DEF TaskStates
  <2>2. ASSUME NEW u \in Tasks, f.st[u] = "none" PROVE f.out[u] = <<>> /\ f.shown[u] = <<>>
    <3>1. k.st \in [Tasks -> TaskStates \cup {"none"}]
      BY <1>0, ConsoleFields
    <3>2. u # t /\ k.st[u] = "none"
      BY <1>11, <1>13, <2>1, <2>2, <3>1
    <3>3. f.out[u] = k.out[u] /\ f.shown[u] = k.shown[u]
      BY <1>13, <3>2 DEF TextsAfter
    <3> QED BY <3>2, <3>3 DEF Drawn
  <2> QED BY <2>2
<1>15. PICK g : g = f
  OBVIOUS
<1>16. PICK d : d = DrawRunning(g, height)
  OBVIOUS
<1>17. Drawn(d, height) /\ d.st = g.st /\ d.out = g.out /\ d.shown = g.shown
  <2> HIDE DEF f
  <2> QED BY <1>13, <1>14, <1>15, <1>16, DrawnAgain
<1>18. TextsAfter(k, d, t, s)
  <2> HIDE DEF f
  <2> QED BY <1>13, <1>15, <1>17 DEF TextsAfter
<1> HIDE DEF f
<1> QED BY <1>10, <1>11, <1>13, <1>15, <1>16, <1>17, <1>18

----------------------------------------------------------------------------
(* Every operation leaves the console drawn.                               *)

\* The constructor,
LEMMA NewConsoleIsDrawn ==
  ASSUME NEW height \in Nat
  PROVE  /\ Drawn(NewConsole, height)
         /\ NewConsole.st = [t \in Tasks |-> "none"]
         /\ NewConsole.out = [t \in Tasks |-> <<>>] /\ NewConsole.shown = [t \in Tasks |-> <<>>]
<1>1. PICK k : k = NewConsole
  OBVIOUS
<1>2. /\ k.st = [t \in Tasks |-> "none"] /\ k.out = [t \in Tasks |-> <<>>] /\ k.running = <<>>
      /\ k.lineCount = 0 /\ k.debugged = FALSE /\ k.onScreen = 0 /\ k.shown = [t \in Tasks |-> <<>>]
      /\ k.eaten = FALSE /\ k.left = FALSE
  BY <1>1 DEF NewConsole
<1>3. k.st \in [Tasks -> TaskStates \cup {"none"}]
  BY <1>2
<1>4. k.out \in [Tasks -> Seq(Lines)] /\ k.shown \in [Tasks -> Seq(Lines)]
  <2>1. <<>> \in Seq(Lines)
    OBVIOUS
  <2> QED BY <1>2, <2>1
<1>5. k.running \in Seq(Tasks) /\ k.lineCount \in Int /\ k.debugged \in BOOLEAN /\ k.onScreen \in Nat
      /\ k.eaten \in BOOLEAN /\ k.left \in BOOLEAN
  <2>1. <<>> \in Seq(Tasks) /\ 0 \in Int /\ 0 \in Nat
    OBVIOUS
  <2>2. k.debugged \in BOOLEAN
    BY <1>2
  <2>3. k.eaten \in BOOLEAN
    BY <1>2
  <2>4. k.left \in BOOLEAN
    BY <1>2
  <2> QED BY <1>2, <2>1, <2>2, <2>3, <2>4
<1>6. k = [st |-> k.st, out |-> k.out, running |-> k.running, lineCount |-> k.lineCount,
                 debugged |-> k.debugged, onScreen |-> k.onScreen, shown |-> k.shown,
                 eaten |-> k.eaten, left |-> k.left]
  BY <1>1 DEF NewConsole
<1>7. k \in Console(Lines)
  BY <1>3, <1>4, <1>5, <1>6 DEF Console
<1>8. Listed(k)
  <2>1. DOMAIN k.running = {}
    BY <1>2
  <2> QED BY <1>2, <2>1 DEF Listed, RunningIn, ListedOnce
<1>9. Drawn(k, height)
  BY <1>2, <1>7, <1>8 DEF Drawn
<1> QED BY <1>1, <1>2, <1>9

\* beginTask(),
LEMMA BeginDraws ==
  ASSUME NEW k, NEW height \in Nat, Drawn(k, height), NEW t \in Tasks, k.st[t] = "none"
  PROVE  LET d == BeginConsoleTask(k, t)
         IN /\ Drawn(d, height)
            /\ d.st = [k.st EXCEPT ![t] = "PENDING"] /\ d.out = k.out /\ d.shown = k.shown
<1>1. k \in Console(Lines) /\ k.st \in [Tasks -> TaskStates \cup {"none"}]
  BY ConsoleFields DEF Drawn
<1>2. PICK d : d = BeginConsoleTask(k, t)
  OBVIOUS
<1>3. /\ d \in Console(Lines) /\ d.st = [k.st EXCEPT ![t] = "PENDING"] /\ d.out = k.out
      /\ d.running = k.running /\ d.lineCount = k.lineCount /\ d.debugged = k.debugged
      /\ d.onScreen = k.onScreen /\ d.shown = k.shown /\ d.eaten = k.eaten /\ d.left = k.left
  <2>1. "PENDING" \in TaskStates \cup {"none"} /\ d = [k EXCEPT !.st[t] = "PENDING"]
    BY <1>2 DEF TaskStates, BeginConsoleTask
  <2>2. /\ d = [st |-> [k.st EXCEPT ![t] = "PENDING"], out |-> k.out, running |-> k.running,
                lineCount |-> k.lineCount, debugged |-> k.debugged, onScreen |-> k.onScreen,
                shown |-> k.shown, eaten |-> k.eaten, left |-> k.left]
        /\ d \in Console(Lines)
    BY <1>1, <2>1, StateFields
  <2> QED BY ONLY <2>2
<1>4. Listed(d)
  <2>1. {u \in Tasks \ Silent : d.st[u] = "RUNNING"} = {u \in Tasks \ Silent : k.st[u] = "RUNNING"}
    BY <1>1, <1>3
  <2> QED BY <1>3, <2>1 DEF Drawn, Listed, RunningIn, ListedOnce
<1>5. Drawn(d, height)
  BY <1>1, <1>3, <1>4 DEF Drawn
<1> QED BY <1>2, <1>3, <1>5

\* addOutput(),
LEMMA AddOutputDraws ==
  ASSUME NEW k, NEW height \in Nat, Drawn(k, height), NEW t \in Tasks, k.st[t] # "none",
         NEW text \in Seq(Lines)
  PROVE  LET d == AddOutput(k, t, text)
         IN /\ Drawn(d, height)
            /\ d.st = k.st /\ d.out = [k.out EXCEPT ![t] = k.out[t] \o text] /\ d.shown = k.shown
<1>1. k \in Console(Lines) /\ k.out \in [Tasks -> Seq(Lines)]
  BY ConsoleFields DEF Drawn
<1>2. PICK x : x = k.out[t] \o text
  OBVIOUS
<1>3. x \in Seq(Lines)
  BY <1>1, <1>2
<1>4. PICK d : d = AddOutput(k, t, text)
  OBVIOUS
<1>5. /\ d \in Console(Lines) /\ d.st = k.st /\ d.out = [k.out EXCEPT ![t] = x]
      /\ d.running = k.running /\ d.lineCount = k.lineCount /\ d.debugged = k.debugged
      /\ d.onScreen = k.onScreen /\ d.shown = k.shown /\ d.eaten = k.eaten /\ d.left = k.left
  <2>1. d = [k EXCEPT !.out[t] = x]
    BY <1>2, <1>4 DEF AddOutput
  <2>2. /\ d = [st |-> k.st, out |-> [k.out EXCEPT ![t] = x], running |-> k.running,
                lineCount |-> k.lineCount, debugged |-> k.debugged, onScreen |-> k.onScreen,
                shown |-> k.shown, eaten |-> k.eaten, left |-> k.left]
        /\ d \in Console(Lines)
    BY <1>1, <1>3, <2>1, OutputFields
  <2> QED BY ONLY <2>2
<1>6. Listed(d)
  BY <1>5 DEF Drawn, Listed, RunningIn, ListedOnce
<1>7. Drawn(d, height)
  BY <1>1, <1>5, <1>6 DEF Drawn
<1> QED BY <1>2, <1>4, <1>5, <1>7

\* and the destructor of a task.
LEMMA EndDraws ==
  ASSUME NEW k, NEW height \in Nat, Drawn(k, height), NEW t \in Tasks
  PROVE  LET d == EndConsoleTask(k, t, height)
         IN /\ Drawn(d, height)
            /\ d.st = [k.st EXCEPT ![t] = "none"] /\ d.out = [k.out EXCEPT ![t] = <<>>]
            /\ d.shown = [k.shown EXCEPT ![t] = <<>>]
<1>1. k \in Console(Lines) /\ Listed(k) /\ k.st \in [Tasks -> TaskStates \cup {"none"}]
      /\ k.out \in [Tasks -> Seq(Lines)] /\ k.shown \in [Tasks -> Seq(Lines)]
  BY ConsoleFields DEF Drawn
<1>2. PICK a : a = IF k.st[t] = "RUNNING"
                   THEN DrawRunning(RemoveFromRunning(ClearRunning(k), t), height) ELSE k
  OBVIOUS
\* The console without the task in its list.
<1>3. /\ a \in Console(Lines) /\ a.st = k.st /\ a.out = k.out /\ a.shown = k.shown
      /\ RunningIn(a) = {u \in Tasks \ Silent : k.st[u] = "RUNNING"} \ {t} /\ ListedOnce(a)
      /\ ~a.eaten /\ (height > 4 => ~a.left)
      /\ ~a.debugged => a.lineCount <= a.onScreen /\ (height > 4 => a.lineCount = a.onScreen)
  <2>1. CASE k.st[t] = "RUNNING"
    <3>1. PICK c : c = ClearRunning(k)
      OBVIOUS
    <3>2. /\ c \in Console(Lines) /\ c.st = k.st /\ c.out = k.out /\ c.running = k.running
          /\ c.shown = k.shown /\ ~c.eaten /\ (height > 4 => ~c.left)
      BY <1>1, <3>1, ClearedWell DEF Drawn
    <3>3. ListedOnce(c) /\ RunningIn(c) = {u \in Tasks \ Silent : k.st[u] = "RUNNING"}
      BY <1>1, <3>2 DEF Listed, RunningIn, ListedOnce
    <3>4. PICK r : r = RemoveFromRunning(c, t)
      OBVIOUS
    <3>5. /\ r = [st |-> c.st, out |-> c.out, running |-> r.running, lineCount |-> c.lineCount,
                  debugged |-> c.debugged, onScreen |-> c.onScreen, shown |-> c.shown,
                  eaten |-> c.eaten, left |-> c.left]
          /\ r \in Console(Lines) /\ RunningIn(r) = RunningIn(c) \ {t} /\ ListedOnce(r)
      BY <3>2, <3>3, <3>4, RemovedFromRunning
    <3>6. r.st = c.st /\ r.out = c.out /\ r.shown = c.shown /\ r.eaten = c.eaten /\ r.left = c.left
      BY ONLY <3>5
    <3>7. a = DrawRunning(r, height)
      BY <1>2, <2>1, <3>1, <3>4
    <3>8. /\ a \in Console(Lines) /\ a.st = r.st /\ a.out = r.out /\ a.running = r.running
          /\ a.shown = r.shown /\ a.eaten = r.eaten /\ a.left = r.left
          /\ a.lineCount <= a.onScreen /\ (height > 4 => a.lineCount = a.onScreen)
      BY <3>5, <3>7, DrawnFields
    <3>9. RunningIn(a) = RunningIn(r) /\ ListedOnce(a)
      BY <3>5, <3>8 DEF RunningIn, ListedOnce
    <3> QED BY <3>2, <3>3, <3>5, <3>6, <3>8, <3>9
  <2>2. CASE k.st[t] # "RUNNING"
    <3>1. a = k
      BY <1>2, <2>2
    <3>2. {u \in Tasks \ Silent : k.st[u] = "RUNNING"} = {u \in Tasks \ Silent : k.st[u] = "RUNNING"} \ {t}
      BY <2>2
    <3> QED BY <1>1, <3>1, <3>2 DEF Drawn, Listed
  <2> QED BY <2>1, <2>2
<1>4. "none" \in TaskStates \cup {"none"} /\ <<>> \in Seq(Lines)
  OBVIOUS
<1>5. PICK b : b = [a EXCEPT !.st[t] = "none"]
  OBVIOUS
<1>6. /\ b = [st |-> [a.st EXCEPT ![t] = "none"], out |-> a.out, running |-> a.running,
              lineCount |-> a.lineCount, debugged |-> a.debugged, onScreen |-> a.onScreen,
              shown |-> a.shown, eaten |-> a.eaten, left |-> a.left]
      /\ b \in Console(Lines)
  BY <1>3, <1>4, <1>5, StateFields
<1>7. PICK c : c = [b EXCEPT !.out[t] = <<>>]
  OBVIOUS
<1>8. /\ c = [st |-> b.st, out |-> [b.out EXCEPT ![t] = <<>>], running |-> b.running,
              lineCount |-> b.lineCount, debugged |-> b.debugged, onScreen |-> b.onScreen,
              shown |-> b.shown, eaten |-> b.eaten, left |-> b.left]
      /\ c \in Console(Lines)
  BY <1>4, <1>6, <1>7, OutputFields
<1>9. PICK d : d = [c EXCEPT !.shown[t] = <<>>]
  OBVIOUS
<1>10. /\ d = [st |-> c.st, out |-> c.out, running |-> c.running,
              lineCount |-> c.lineCount, debugged |-> c.debugged, onScreen |-> c.onScreen,
              shown |-> [c.shown EXCEPT ![t] = <<>>], eaten |-> c.eaten, left |-> c.left]
      /\ d \in Console(Lines)
  BY <1>4, <1>8, <1>9, PrintedFields
<1>11. EndConsoleTask(k, t, height) = d
  <2>1. EndConsoleTask(k, t, height) = [a EXCEPT !.st[t] = "none", !.out[t] = <<>>, !.shown[t] = <<>>]
    BY <1>2 DEF EndConsoleTask
  <2> QED BY ONLY <1>5, <1>7, <1>9, <2>1
<1>12. /\ d.st = [a.st EXCEPT ![t] = "none"] /\ d.out = [a.out EXCEPT ![t] = <<>>]
       /\ d.shown = [a.shown EXCEPT ![t] = <<>>] /\ d.running = a.running
       /\ d.lineCount = a.lineCount /\ d.debugged = a.debugged /\ d.onScreen = a.onScreen
       /\ d.eaten = a.eaten /\ d.left = a.left
  BY ONLY <1>6, <1>8, <1>10
<1>13. Listed(d)
  <2>1. {u \in Tasks \ Silent : d.st[u] = "RUNNING"} = {u \in Tasks \ Silent : k.st[u] = "RUNNING"} \ {t}
    BY <1>1, <1>3, <1>12
  <2> QED BY <1>3, <1>12, <2>1 DEF Listed, RunningIn, ListedOnce
<1>14. Drawn(d, height)
  <2>1. ASSUME NEW u \in Tasks, d.st[u] = "none" PROVE d.out[u] = <<>> /\ d.shown[u] = <<>>
    <3>1. CASE u = t
      BY <1>1, <1>3, <1>12, <3>1
    <3>2. CASE u # t
      <4>1. k.st[u] = "none" /\ d.out[u] = k.out[u] /\ d.shown[u] = k.shown[u]
        BY <1>1, <1>3, <1>12, <2>1, <3>2
      <4> QED BY <4>1 DEF Drawn
    <3> QED BY <3>1, <3>2
  <2> QED BY <1>3, <1>10, <1>12, <1>13, <2>1 DEF Drawn
<1> QED BY <1>3, <1>11, <1>12, <1>14

\* A debug message leaves the list where it is, above itself.
LEMMA DebugDraws ==
  ASSUME NEW k, NEW height \in Nat, Drawn(k, height)
  PROVE  LET d == [k EXCEPT !.debugged = TRUE]
         IN Drawn(d, height) /\ d.st = k.st /\ d.out = k.out /\ d.shown = k.shown
<1>1. k \in Console(Lines)
  BY DEF Drawn
<1>2. PICK d : d = [k EXCEPT !.debugged = TRUE]
  OBVIOUS
<1>3. d = [st |-> k.st, out |-> k.out, running |-> k.running,
           lineCount |-> k.lineCount, debugged |-> TRUE, onScreen |-> k.onScreen,
           shown |-> k.shown, eaten |-> k.eaten, left |-> k.left]
  BY <1>1, <1>2 DEF Console
<1>4. /\ d.st = k.st /\ d.out = k.out /\ d.running = k.running /\ d.shown = k.shown
      /\ d.debugged = TRUE /\ d.eaten = k.eaten /\ d.left = k.left
  BY ONLY <1>3
<1>5. d \in Console(Lines)
  <2>1. TRUE \in BOOLEAN
    OBVIOUS
  <2> QED BY <1>1, <1>3, <2>1, ConsoleFields DEF Console
<1>6. Listed(d)
  BY <1>4 DEF Drawn, Listed, RunningIn, ListedOnce
<1>7. Drawn(d, height)
  BY <1>4, <1>5, <1>6 DEF Drawn
<1> QED BY <1>2, <1>4, <1>7

----------------------------------------------------------------------------
(* Sequences of messages, and what showing them one after the other makes. *)

\* A line at the end of the second of two texts is at the end of both.
LEMMA ConcatAppended ==
  ASSUME NEW S, NEW s \in Seq(S), NEW t \in Seq(S), NEW x \in S
  PROVE  s \o Append(t, x) = Append(s \o t, x) /\ t \o <<x>> = Append(t, x)
OBVIOUS

LEMMA ConcatEmpty ==
  ASSUME NEW S, NEW s \in Seq(S)
  PROVE  s \o <<>> = s /\ <<>> \o s = s
OBVIOUS

\* A message that moves from one part of the way to the next.
LEMMA ConcatMoved ==
  ASSUME NEW S, NEW s \in Seq(S), NEW t \in Seq(S), t # <<>>
  PROVE  Append(s, Head(t)) \o Tail(t) = s \o t
<1> DEFINE l == Append(s, Head(t)) \o Tail(t)
           r == s \o t
<1>1. Len(t) \in Nat \ {0} /\ Len(s) \in Nat /\ Head(t) \in S /\ Tail(t) \in Seq(S) /\ Len(Tail(t)) = Len(t) - 1
      /\ Head(t) = t[1] /\ \A i \in 1 .. Len(t) - 1 : Tail(t)[i] = t[i + 1]
  OBVIOUS
<1>2. Append(s, Head(t)) \in Seq(S) /\ Len(Append(s, Head(t))) = Len(s) + 1
      /\ Append(s, Head(t))[Len(s) + 1] = t[1] /\ \A i \in 1 .. Len(s) : Append(s, Head(t))[i] = s[i]
  BY <1>1
<1>3. l \in Seq(S) /\ r \in Seq(S) /\ Len(l) = Len(s) + Len(t) /\ Len(r) = Len(s) + Len(t)
  BY <1>1, <1>2
<1>4. ASSUME NEW i \in 1 .. Len(s) + Len(t) PROVE l[i] = r[i]
  <2>1. CASE i <= Len(s)
    BY <1>1, <1>2, <2>1
  <2>2. CASE i = Len(s) + 1
    BY <1>1, <1>2, <2>2
  <2>3. CASE i > Len(s) + 1
    <3>1. l[i] = Tail(t)[i - (Len(s) + 1)]
      BY <1>1, <1>2, <2>3
    <3>2. i - (Len(s) + 1) \in 1 .. Len(t) - 1 /\ (i - (Len(s) + 1)) + 1 = i - Len(s)
      BY <1>1, <2>3
    <3>3. r[i] = t[i - Len(s)]
      BY <1>1, <2>3
    <3> QED BY <1>1, <3>1, <3>2, <3>3
  <2> QED BY <1>1, <2>1, <2>2, <2>3
<1> HIDE DEF l, r
<1>5. l = r
  BY <1>3, <1>4
<1> QED BY <1>5 DEF l, r

LEMMA ConcatHead ==
  ASSUME NEW S, NEW s \in Seq(S), NEW t \in Seq(S), s # <<>>
  PROVE  s \o t # <<>> /\ Head(s \o t) = Head(s) /\ Tail(s \o t) = Tail(s) \o t
<1>1. Len(s) \in Nat \ {0} /\ Len(t) \in Nat /\ Len(s \o t) = Len(s) + Len(t) /\ s \o t \in Seq(S)
  OBVIOUS
<1>2. s \o t # <<>> /\ Head(s \o t) = Head(s)
  BY <1>1
<1>3. Tail(s) \in Seq(S) /\ Len(Tail(s)) = Len(s) - 1 /\ \A i \in 1 .. Len(s) - 1 : Tail(s)[i] = s[i + 1]
  BY <1>1
<1>4. Tail(s \o t) \in Seq(S) /\ Len(Tail(s \o t)) = Len(s) + Len(t) - 1
      /\ \A i \in 1 .. Len(s) + Len(t) - 1 : Tail(s \o t)[i] = (s \o t)[i + 1]
  BY <1>1, <1>2
<1>5. Tail(s) \o t \in Seq(S) /\ Len(Tail(s) \o t) = Len(s) + Len(t) - 1
  BY <1>1, <1>3
<1>6. ASSUME NEW i \in 1 .. Len(s) + Len(t) - 1 PROVE Tail(s \o t)[i] = (Tail(s) \o t)[i]
  <2>1. CASE i <= Len(s) - 1
    <3>1. i + 1 \in 1 .. Len(s)
      BY <1>1, <2>1
    <3>2. (s \o t)[i + 1] = s[i + 1]
      BY <1>1, <3>1
    <3>3. (Tail(s) \o t)[i] = Tail(s)[i]
      BY <1>1, <1>3, <2>1
    <3> QED BY <1>3, <1>4, <2>1, <3>2, <3>3
  <2>2. CASE i > Len(s) - 1
    <3>1. (s \o t)[i + 1] = t[i + 1 - Len(s)]
      BY <1>1, <2>2
    <3>2. (Tail(s) \o t)[i] = t[i - (Len(s) - 1)]
      BY <1>1, <1>3, <2>2
    <3>3. i + 1 - Len(s) = i - (Len(s) - 1)
      BY <1>1
    <3> QED BY <1>4, <3>1, <3>2, <3>3
  <2> QED BY <1>1, <2>1, <2>2
<1>7. Tail(s \o t) = Tail(s) \o t
  <2>1. PICK l, r : l = Tail(s \o t) /\ r = Tail(s) \o t
    OBVIOUS
  <2>2. l \in Seq(S) /\ r \in Seq(S) /\ Len(l) = Len(r) /\ \A i \in 1 .. Len(l) : l[i] = r[i]
    BY <1>4, <1>5, <1>6, <2>1
  <2>3. l = r
    BY ONLY <2>2
  <2> QED BY ONLY <2>1, <2>3
<1> QED BY <1>2, <1>7

\* The consoles after each of some messages.
AreShown(g, k, ms, height) ==
  g[0] = k /\ \A n \in 1 .. Len(ms) : g[n] = Shown(g[n - 1], ms[n], height)

\* ShownAll goes through the messages one by one, whatever the function is called.
LEMMA ShownSteps ==
  ASSUME NEW k, NEW ms \in Seq(Messages), NEW height
  PROVE  \E f : /\ AreShown(f, k, ms, height)
                /\ ShownAll(k, ms, height) = f[Len(ms)]
<1> DEFINE Is(f, n) == f = [i \in 0 .. n |-> IF i = 0 THEN k ELSE Shown(f[i - 1], ms[i], height)]
           S == {n \in Nat : \E f : Is(f, n)}
<1>1. 0 \in S
  <2>1. PICK f : f = [i \in 0 .. 0 |-> k]
    OBVIOUS
  <2>2. Is(f, 0)
    <3>1. \A i \in 0 .. 0 : i = 0
      OBVIOUS
    <3> QED BY <2>1, <3>1
  <2> QED BY <2>2
<1>2. ASSUME NEW n \in S PROVE n + 1 \in S
  <2>1. n \in Nat /\ n + 1 \in Nat
    OBVIOUS
  <2>2. PICK f : Is(f, n)
    OBVIOUS
  <2>3. PICK g : g = [i \in 0 .. n + 1 |-> IF i = n + 1 THEN Shown(f[n], ms[n + 1], height) ELSE f[i]]
    OBVIOUS
  <2>4. /\ DOMAIN g = 0 .. n + 1
        /\ \A i \in 0 .. n : g[i] = f[i]
        /\ g[n + 1] = Shown(f[n], ms[n + 1], height)
    BY <2>1, <2>3
  <2>5. \A i \in 0 .. n : f[i] = IF i = 0 THEN k ELSE Shown(f[i - 1], ms[i], height)
    BY <2>2
  <2>6. ASSUME NEW i \in 0 .. n + 1
        PROVE  g[i] = IF i = 0 THEN k ELSE Shown(g[i - 1], ms[i], height)
    <3>1. CASE i = n + 1
      <4>1. i # 0 /\ i - 1 = n /\ n \in 0 .. n
        BY <2>1, <3>1
      <4>2. g[i - 1] = f[n]
        BY <2>4, <4>1
      <4> QED BY <2>4, <3>1, <4>1, <4>2
    <3>2. CASE i \in 0 .. n
      <4>1. i # 0 => i - 1 \in 0 .. n
        BY <2>1, <3>2
      <4>2. i # 0 => g[i - 1] = f[i - 1]
        BY <2>4, <4>1
      <4> QED BY <2>4, <2>5, <3>2, <4>2
    <3> QED BY <2>1, <3>1, <3>2
  <2>7. Is(g, n + 1)
    BY <2>3, <2>4, <2>6
  <2> QED BY <2>1, <2>7
<1>3. S = Nat
  <2>1. S \in SUBSET Nat
    OBVIOUS
  <2>2. \A n \in S : n + 1 \in S
    BY <1>2
  <2> HIDE DEF S
  <2> QED BY <1>1, <2>1, <2>2, NaturalsFromZero
<1>4. \E f : Is(f, Len(ms))
  <2>1. Len(ms) \in S
    BY <1>3
  <2> QED BY <2>1
<1> DEFINE a == CHOOSE f : Is(f, Len(ms))
<1>5. Is(a, Len(ms))
  BY <1>4
<1>6. ShownAll(k, ms, height) = a[Len(ms)]
  BY DEF ShownAll
<1>7. AreShown(a, k, ms, height)
  <2>1. Len(ms) \in Nat /\ 0 \in 0 .. Len(ms) /\ \A n \in 1 .. Len(ms) : n \in 0 .. Len(ms) /\ n # 0
    OBVIOUS
  <2>2. \A n \in 0 .. Len(ms) : a[n] = IF n = 0 THEN k ELSE Shown(a[n - 1], ms[n], height)
    BY <1>5
  <2> HIDE DEF a
  <2> QED BY <2>1, <2>2 DEF AreShown
<1> HIDE DEF a
<1> QED BY <1>6, <1>7

LEMMA ShownAllIs ==
  ASSUME NEW k, NEW ms \in Seq(Messages), NEW height, NEW g, AreShown(g, k, ms, height)
  PROVE  ShownAll(k, ms, height) = g[Len(ms)]
<1>1. PICK f : AreShown(f, k, ms, height) /\ ShownAll(k, ms, height) = f[Len(ms)]
  BY ShownSteps
<1>2. Len(ms) \in Nat
  OBVIOUS
<1>3. f[0] = k /\ \A n \in 1 .. Len(ms) : f[n] = Shown(f[n - 1], ms[n], height)
  BY <1>1 DEF AreShown
<1>20. g[0] = k /\ \A n \in 1 .. Len(ms) : g[n] = Shown(g[n - 1], ms[n], height)
  BY DEF AreShown
<1> DEFINE S == {n \in Nat : n <= Len(ms) => f[n] = g[n]}
<1>4. 0 \in S
  BY <1>3, <1>20
<1>5. ASSUME NEW n \in S PROVE n + 1 \in S
  <2>1. n \in Nat /\ n + 1 \in Nat
    OBVIOUS
  <2>2. ASSUME n + 1 <= Len(ms) PROVE f[n + 1] = g[n + 1]
    <3>1. f[n] = g[n] /\ n + 1 \in 1 .. Len(ms) /\ (n + 1) - 1 = n
      BY <1>2, <2>1, <2>2
    <3> QED BY <1>3, <1>20, <3>1
  <2> QED BY <2>1, <2>2
<1>6. S = Nat
  <2>1. S \in SUBSET Nat
    OBVIOUS
  <2>2. \A n \in S : n + 1 \in S
    BY <1>5
  <2> HIDE DEF S
  <2> QED BY <1>4, <2>1, <2>2, NaturalsFromZero
<1>7. f[Len(ms)] = g[Len(ms)]
  <2>1. Len(ms) \in S
    BY <1>2, <1>6
  <2> QED BY <1>2, <2>1
<1> QED BY <1>1, <1>7

\* Nothing, one more at the end, and the first of several.
LEMMA ShownNone ==
  ASSUME NEW k, NEW height
  PROVE  ShownAll(k, <<>>, height) = k
<1>1. PICK g : g = [n \in {0} |-> k]
  OBVIOUS
<1>2. <<>> \in Seq(Messages) /\ Len(<<>>) = 0
  OBVIOUS
<1>4. PICK ms : ms = <<>>
  OBVIOUS
<1>3. AreShown(g, k, ms, height)
  BY <1>1, <1>2, <1>4 DEF AreShown
<1>5. ShownAll(k, ms, height) = g[Len(ms)]
  BY <1>2, <1>3, <1>4, ShownAllIs
<1>6. g[Len(ms)] = k
  BY <1>1, <1>2, <1>4
<1> QED BY <1>4, <1>5, <1>6

LEMMA ShownLast ==
  ASSUME NEW k, NEW ms \in Seq(Messages), NEW height, NEW m \in Messages
  PROVE  ShownAll(k, Append(ms, m), height) = Shown(ShownAll(k, ms, height), m, height)
<1>1. PICK ns : ns = Append(ms, m)
  OBVIOUS
<1>2. ns \in Seq(Messages) /\ Len(ms) \in Nat /\ Len(ns) = Len(ms) + 1 /\ ns[Len(ms) + 1] = m
      /\ \A i \in 1 .. Len(ms) : ns[i] = ms[i]
  BY <1>1
<1>3. PICK f : AreShown(f, k, ns, height) /\ ShownAll(k, ns, height) = f[Len(ns)]
  BY <1>2, ShownSteps
<1>4. f[0] = k /\ \A n \in 1 .. Len(ns) : f[n] = Shown(f[n - 1], ns[n], height)
  BY <1>3 DEF AreShown
<1>5. \A n \in 1 .. Len(ms) : f[n] = Shown(f[n - 1], ms[n], height)
  BY <1>2, <1>4
<1>6. ShownAll(k, ms, height) = f[Len(ms)]
  <2>1. AreShown(f, k, ms, height)
    BY <1>4, <1>5 DEF AreShown
  <2> QED BY <2>1, ShownAllIs
<1>7. f[Len(ns)] = Shown(f[Len(ms)], m, height)
  <2>1. Len(ns) \in 1 .. Len(ns) /\ Len(ns) - 1 = Len(ms)
    BY <1>2
  <2> QED BY <1>2, <1>4, <2>1
<1> QED BY <1>1, <1>3, <1>6, <1>7

LEMMA ShownFirst ==
  ASSUME NEW k, NEW ms \in Seq(Messages), NEW height, ms # <<>>
  PROVE  ShownAll(k, ms, height) = ShownAll(Shown(k, Head(ms), height), Tail(ms), height)
<1>1. PICK ns : ns = Tail(ms)
  OBVIOUS
<1>2. /\ Len(ms) \in Nat \ {0} /\ ns \in Seq(Messages) /\ Len(ns) = Len(ms) - 1
      /\ Head(ms) = ms[1] /\ \A i \in 1 .. Len(ns) : ns[i] = ms[i + 1]
  BY <1>1
<1>3. PICK f : AreShown(f, k, ms, height) /\ ShownAll(k, ms, height) = f[Len(ms)]
  BY ShownSteps
<1>4. f[0] = k /\ \A n \in 1 .. Len(ms) : f[n] = Shown(f[n - 1], ms[n], height)
  BY <1>3 DEF AreShown
<1>5. PICK g : g = [n \in 0 .. Len(ns) |-> f[n + 1]]
  OBVIOUS
<1>6. PICK j : j = Shown(k, Head(ms), height)
  OBVIOUS
<1>7. g[0] = j
  <2>1. 1 \in 1 .. Len(ms) /\ 1 - 1 = 0 /\ 0 \in 0 .. Len(ns) /\ 0 + 1 = 1
    BY <1>2
  <2>2. f[1] = Shown(f[1 - 1], ms[1], height)
    BY <1>4, <2>1
  <2> QED BY <1>2, <1>4, <1>5, <1>6, <2>1, <2>2
<1>8. ASSUME NEW n \in 1 .. Len(ns) PROVE g[n] = Shown(g[n - 1], ns[n], height)
  <2>1. n + 1 \in 1 .. Len(ms) /\ (n + 1) - 1 = n /\ n - 1 \in 0 .. Len(ns) /\ (n - 1) + 1 = n /\ n \in 0 .. Len(ns)
    BY <1>2
  <2>2. f[n + 1] = Shown(f[n], ms[n + 1], height)
    BY <1>4, <2>1
  <2>3. g[n] = f[n + 1] /\ g[n - 1] = f[n]
    BY <1>5, <2>1
  <2> QED BY <1>2, <2>2, <2>3
<1>9. ShownAll(j, ns, height) = g[Len(ns)]
  <2>1. AreShown(g, j, ns, height)
    BY <1>7, <1>8 DEF AreShown
  <2> QED BY <1>2, <2>1, ShownAllIs
<1>10. g[Len(ns)] = f[Len(ms)]
  <2>1. Len(ns) \in 0 .. Len(ns) /\ Len(ns) + 1 = Len(ms)
    BY <1>2
  <2> QED BY <1>5, <2>1
<1> QED BY <1>1, <1>3, <1>6, <1>9, <1>10

----------------------------------------------------------------------------
(* What may be missing of a log, and what single messages do.              *)

LEMMA AllIsAll ==
  ASSUME NEW s
  PROVE  AllOrMarked(s, s)
BY DEF AllOrMarked

\* What was marked as missing stays so when more is logged.
LEMMA MarkedAppended ==
  ASSUME NEW s \in Seq(Lines), NEW whole \in Seq(Lines), NEW l \in Lines, AllOrMarked(s, whole)
  PROVE  AllOrMarked(Append(s, l), Append(whole, l))
<1>1. CASE s = whole
  BY <1>1, AllIsAll
<1>2. CASE s # whole
  <2>1. PICK i \in DOMAIN s :
          /\ s[i] = Cut
          /\ (i - 1) + (Len(s) - i) <= Len(whole)
          /\ \A j \in 1 .. i - 1 : s[j] = whole[j]
          /\ \A j \in 1 .. Len(s) - i : s[i + j] = whole[Len(whole) - (Len(s) - i) + j]
    BY <1>2 DEF AllOrMarked
  <2>2. PICK t : t = Append(s, l)
    OBVIOUS
  <2>3. PICK w : w = Append(whole, l)
    OBVIOUS
  <2>4. /\ Len(s) \in Nat /\ Len(whole) \in Nat /\ Len(t) = Len(s) + 1 /\ Len(w) = Len(whole) + 1
        /\ DOMAIN t = 1 .. Len(s) + 1 /\ i \in 1 .. Len(s)
        /\ \A j \in 1 .. Len(s) : t[j] = s[j]
        /\ \A j \in 1 .. Len(whole) : w[j] = whole[j]
        /\ t[Len(s) + 1] = l /\ w[Len(whole) + 1] = l
    BY <2>2, <2>3
  <2>5. i \in DOMAIN t /\ t[i] = Cut /\ (i - 1) + (Len(t) - i) <= Len(w)
    BY <2>1, <2>4
  <2>6. ASSUME NEW j \in 1 .. i - 1 PROVE t[j] = w[j]
    <3>1. j \in 1 .. Len(s) /\ j \in 1 .. Len(whole)
      BY <2>1, <2>4
    <3> QED BY <2>1, <2>4, <3>1
  <2>7. ASSUME NEW j \in 1 .. Len(t) - i PROVE t[i + j] = w[Len(w) - (Len(t) - i) + j]
    <3>0. j \in Int /\ i \in Int /\ 1 <= j /\ j <= Len(s) + 1 - i /\ 1 <= i /\ i <= Len(s)
          /\ Len(s) \in Int /\ Len(whole) \in Int /\ (i - 1) + (Len(s) - i) <= Len(whole)
      BY <2>1, <2>4
    <3>1. Len(w) - (Len(t) - i) + j = Len(whole) - (Len(s) - i) + j
      BY <2>4
    <3>10. PICK a \in Int, b \in Int : a = Len(s) /\ b = Len(whole)
      BY <3>0
    <3>2. CASE j <= Len(s) - i
      <4>0. j <= a - i
        BY <3>2, <3>10
      <4>1. i + j \in 1 .. Len(s) /\ Len(whole) - (Len(s) - i) + j \in 1 .. Len(whole)
            /\ j \in 1 .. Len(s) - i
        <5>1. i + j \in 1 .. a /\ b - (a - i) + j \in 1 .. b /\ j \in 1 .. a - i
          <6>1. j \in Int /\ i \in Int /\ 1 <= j /\ 1 <= i /\ (i - 1) + (a - i) <= b
            BY <3>0, <3>10
          <6> QED BY ONLY <3>10, <4>0, <6>1
        <5> QED BY <3>10, <5>1
      <4> QED BY <2>1, <2>4, <3>1, <4>1
    <3>3. CASE j = Len(s) - i + 1
      <4>1. i + j = Len(s) + 1 /\ Len(whole) - (Len(s) - i) + j = Len(whole) + 1
        <5>1. j = Len(s) - i + 1
          BY <3>3
        <5>2. i \in Int /\ j \in Int /\ Len(s) \in Int /\ Len(whole) \in Int
          BY <3>0
        <5>3. i + j = Len(s) + 1
          BY <5>1, <5>2
        <5>4. Len(whole) - (Len(s) - i) + j = Len(whole) + 1
          BY <5>1, <5>2
        <5> QED BY <5>3, <5>4
      <4> QED BY <2>4, <3>1, <4>1
    <3>4. j <= Len(s) - i \/ j = Len(s) - i + 1
      BY ONLY <3>0
    <3> QED BY <3>2, <3>3, <3>4
  <2> QED BY <2>2, <2>3, <2>5, <2>6, <2>7 DEF AllOrMarked
<1> QED BY <1>1, <1>2

\* The first lines, and the mark behind them.
LEMMA FirstLinesAreMarked ==
  ASSUME NEW s \in Seq(Lines), NEW whole \in Seq(Lines), NEW n \in Nat,
         Len(s) = n + 1, s[n + 1] = Cut, n <= Len(whole),
         \A j \in 1 .. n : s[j] = whole[j]
  PROVE  AllOrMarked(s, whole)
<1>1. /\ n + 1 \in DOMAIN s /\ (n + 1) - 1 = n /\ Len(s) - (n + 1) = 0 /\ Len(whole) \in Nat
      /\ 1 .. Len(s) - (n + 1) = {}
  OBVIOUS
<1>2. /\ s[n + 1] = Cut
      /\ ((n + 1) - 1) + (Len(s) - (n + 1)) <= Len(whole)
      /\ \A j \in 1 .. (n + 1) - 1 : s[j] = whole[j]
      /\ \A j \in 1 .. Len(s) - (n + 1) : s[(n + 1) + j] = whole[Len(whole) - (Len(s) - (n + 1)) + j]
  BY <1>1
<1> QED BY <1>1, <1>2 DEF AllOrMarked

\* Whatever the message, the console of the client is drawn.
LEMMA ShownDraws ==
  ASSUME NEW k, NEW height \in Nat, Drawn(k, height), NEW m \in Messages
  PROVE  Drawn(Shown(k, m, height), height)
<1>1. m.id \in Tasks \cup {None} /\ m.state \in TaskStates \cup {"UNCHANGED", "DELETED"}
      /\ m.log \in Seq(Lines)
  BY DEF Messages
<1>2. CASE m.id = None
  BY <1>2 DEF Shown
<1>3. CASE m.id # None /\ m.state = "DELETED"
  <2>1. PICK t \in Tasks : t = m.id
    BY <1>1, <1>3
  <2>2. Shown(k, m, height) = EndConsoleTask(k, t, height)
    BY <1>3, <2>1 DEF Shown
  <2>3. PICK d : d = EndConsoleTask(k, t, height)
    OBVIOUS
  <2>4. Drawn(d, height)
    BY <2>3, EndDraws
  <2> QED BY <2>2, <2>3, <2>4
<1>4. CASE m.id # None /\ m.state # "DELETED" /\ k.st[m.id] = "none"
  <2>1. PICK t \in Tasks : t = m.id
    BY <1>1, <1>4
  <2>2. Shown(k, m, height) = BeginConsoleTask(k, t)
    BY <1>4, <2>1 DEF Shown
  <2>3. PICK d : d = BeginConsoleTask(k, t)
    OBVIOUS
  <2>4. Drawn(d, height)
    BY <1>4, <2>1, <2>3, BeginDraws
  <2> QED BY <2>2, <2>3, <2>4
<1>5. CASE m.id # None /\ m.state # "DELETED" /\ k.st[m.id] # "none"
  <2>1. PICK d : d = AddOutput(k, m.id, m.log)
    OBVIOUS
  <2>2. m.id \in Tasks /\ Shown(k, m, height) = IF m.state = "UNCHANGED" THEN d
                                                ELSE SetState(d, m.id, m.state, height)
    BY <1>1, <1>5, <2>1 DEF Shown
  <2>3. Drawn(d, height)
    BY <1>1, <1>5, <2>1, <2>2, AddOutputDraws
  <2>4. CASE m.state = "UNCHANGED"
    BY <2>2, <2>3, <2>4
  <2>5. CASE m.state # "UNCHANGED"
    <3>1. m.state \in TaskStates
      BY <1>1, <1>5, <2>5
    <3>2. Drawn(SetState(d, m.id, m.state, height), height)
      BY <2>2, <2>3, <3>1, SetStateDraws
    <3> QED BY <2>2, <2>5, <3>2
  <2> QED BY <2>4, <2>5
<1> QED BY <1>2, <1>3, <1>4, <1>5

\* Each kind of message a driver's step sends.
LEMMA MessageParts ==
  ASSUME NEW t \in Tasks, NEW s \in TaskStates \cup {"UNCHANGED", "DELETED"}, NEW l \in Seq(Lines)
  PROVE  /\ Message(t, s, l) \in Messages /\ Message(t, s, l).id = t
         /\ Message(t, s, l).state = s /\ Message(t, s, l).log = l
         /\ t # None
BY DashboardsAssumption DEF Message, Messages

LEMMA ShownPending ==
  ASSUME NEW k, NEW t \in Tasks, NEW height, k.st[t] = "none"
  PROVE  Shown(k, Message(t, "PENDING", <<>>), height) = BeginConsoleTask(k, t)
BY MessageParts, DashboardsAssumption DEF Shown, Message

LEMMA ShownLog ==
  ASSUME NEW k, NEW t \in Tasks, NEW height, NEW l, k.st[t] # "none"
  PROVE  Shown(k, Message(t, "UNCHANGED", l), height) = AddOutput(k, t, l)
BY DashboardsAssumption DEF Shown, Message

LEMMA ShownDeleted ==
  ASSUME NEW k, NEW t \in Tasks, NEW height
  PROVE  Shown(k, Message(t, "DELETED", <<>>), height) = EndConsoleTask(k, t, height)
BY DashboardsAssumption DEF Shown, Message

LEMMA NothingLogged ==
  ASSUME NEW k \in Console(Lines), NEW t \in Tasks
  PROVE  AddOutput(k, t, <<>>) = k
<1>1. k.out \in [Tasks -> Seq(Lines)] /\ k.out[t] \in Seq(Lines)
  BY ConsoleFields
<1>2. k.out[t] \o <<>> = k.out[t]
  BY <1>1, ConcatEmpty
<1>3. [k.out EXCEPT ![t] = k.out[t]] = k.out
  BY <1>1
<1>4. AddOutput(k, t, <<>>) = [k EXCEPT !.out[t] = k.out[t]]
  BY <1>2 DEF AddOutput
<1>5. [k EXCEPT !.out[t] = k.out[t]]
      = [st |-> k.st, out |-> [k.out EXCEPT ![t] = k.out[t]], running |-> k.running,
         lineCount |-> k.lineCount, debugged |-> k.debugged, onScreen |-> k.onScreen,
         shown |-> k.shown, eaten |-> k.eaten, left |-> k.left]
  <2>1. k.out[t] \in Seq(Lines)
    BY <1>1
  <2> QED BY <2>1, OutputFields
<1> QED BY <1>3, <1>4, <1>5, ConsoleIsRecord

LEMMA ShownState ==
  ASSUME NEW k \in Console(Lines), NEW t \in Tasks, NEW height, NEW s \in TaskStates,
         k.st[t] # "none"
  PROVE  Shown(k, Message(t, s, <<>>), height) = SetState(k, t, s, height)
<1>1. s # "UNCHANGED" /\ s # "DELETED" /\ t # None
  BY DashboardsAssumption DEF TaskStates
<1>2. Shown(k, Message(t, s, <<>>), height) = SetState(AddOutput(k, t, <<>>), t, s, height)
  BY <1>1 DEF Shown, Message
<1> QED BY <1>2, NothingLogged

----------------------------------------------------------------------------
(* What an operation does to the text of a task.                           *)

\* All that a console has of a task.
TextOf(k, t) == k.shown[t] \o k.out[t]

\* Nothing of the tasks other than t is changed.
OnlyOf(k, d, t) ==
  \A u \in Tasks \ {t} : d.st[u] = k.st[u] /\ d.out[u] = k.out[u] /\ TextOf(d, u) = TextOf(k, u)

LEMMA Texts ==
  ASSUME NEW k, NEW height, Drawn(k, height), NEW t \in Tasks
  PROVE  /\ k \in Console(Lines) /\ k.st \in [Tasks -> TaskStates \cup {"none"}]
         /\ k.out \in [Tasks -> Seq(Lines)] /\ k.shown \in [Tasks -> Seq(Lines)]
         /\ k.out[t] \in Seq(Lines) /\ k.shown[t] \in Seq(Lines) /\ TextOf(k, t) \in Seq(Lines)
         /\ k.st[t] = "none" => TextOf(k, t) = <<>>
<1>1. /\ k \in Console(Lines) /\ k.st \in [Tasks -> TaskStates \cup {"none"}]
      /\ k.out \in [Tasks -> Seq(Lines)] /\ k.shown \in [Tasks -> Seq(Lines)]
  BY ConsoleFields DEF Drawn
<1>2. k.out[t] \in Seq(Lines) /\ k.shown[t] \in Seq(Lines)
  BY <1>1
<1>3. k.shown[t] \o k.out[t] \in Seq(Lines)
  BY <1>2
<1>4. <<>> \o <<>> = <<>>
  OBVIOUS
<1> QED BY <1>1, <1>2, <1>3, <1>4 DEF TextOf, Drawn

\* A task has no text when it begins,
LEMMA Begun ==
  ASSUME NEW k, NEW height \in Nat, Drawn(k, height), NEW t \in Tasks, k.st[t] = "none",
         NEW d, d = BeginConsoleTask(k, t)
  PROVE  /\ Drawn(d, height) /\ OnlyOf(k, d, t)
         /\ d.st[t] = "PENDING" /\ d.out[t] = <<>> /\ TextOf(d, t) = <<>>
<1>1. /\ Drawn(d, height)
      /\ d.st = [k.st EXCEPT ![t] = "PENDING"] /\ d.out = k.out /\ d.shown = k.shown
  BY BeginDraws
<1>2. k.st \in [Tasks -> TaskStates \cup {"none"}] /\ TextOf(k, t) = <<>> /\ k.out[t] = <<>>
  BY Texts DEF Drawn
<1> QED BY <1>1, <1>2 DEF OnlyOf, TextOf

\* gets what is logged,
LEMMA Logged ==
  ASSUME NEW k, NEW height \in Nat, Drawn(k, height), NEW t \in Tasks, k.st[t] # "none",
         NEW text \in Seq(Lines)
  PROVE  LET d == AddOutput(k, t, text)
         IN /\ Drawn(d, height) /\ OnlyOf(k, d, t)
            /\ d.st[t] = k.st[t] /\ d.out[t] = k.out[t] \o text
            /\ d.shown[t] = k.shown[t]
<1>0. PICK d : d = AddOutput(k, t, text)
  OBVIOUS
<1>1. /\ Drawn(d, height)
      /\ d.st = k.st /\ d.out = [k.out EXCEPT ![t] = k.out[t] \o text] /\ d.shown = k.shown
  <2>1. LET e == AddOutput(k, t, text)
        IN /\ Drawn(e, height)
           /\ e.st = k.st /\ e.out = [k.out EXCEPT ![t] = k.out[t] \o text] /\ e.shown = k.shown
    BY AddOutputDraws
  <2> QED BY <1>0, <2>1
<1>2. k.out \in [Tasks -> Seq(Lines)]
  BY Texts
<1> QED BY <1>0, <1>1, <1>2 DEF OnlyOf, TextOf

\* and has none when it is deleted.
LEMMA Ended ==
  ASSUME NEW k, NEW height \in Nat, Drawn(k, height), NEW t \in Tasks,
         NEW d, d = EndConsoleTask(k, t, height)
  PROVE  /\ Drawn(d, height) /\ OnlyOf(k, d, t)
         /\ d.st[t] = "none" /\ d.out[t] = <<>> /\ TextOf(d, t) = <<>>
<1>1. /\ Drawn(d, height)
      /\ d.st = [k.st EXCEPT ![t] = "none"] /\ d.out = [k.out EXCEPT ![t] = <<>>]
      /\ d.shown = [k.shown EXCEPT ![t] = <<>>]
  BY EndDraws
<1>2. k.st \in [Tasks -> TaskStates \cup {"none"}] /\ k.out \in [Tasks -> Seq(Lines)]
      /\ k.shown \in [Tasks -> Seq(Lines)]
  BY Texts
<1>3. d.st[t] = "none" /\ d.out[t] = <<>> /\ d.shown[t] = <<>>
  BY <1>1, <1>2
<1>4. <<>> \o <<>> = <<>>
  OBVIOUS
<1> QED BY <1>1, <1>2, <1>3, <1>4 DEF OnlyOf, TextOf

\* What a run has logged is kept when it ends, and when its end is reported.
LEMMA Stopped ==
  ASSUME NEW k, NEW height \in Nat, Drawn(k, height), NEW t \in Tasks,
         NEW s \in {"DONE", "FAILED", "BLOCKED"}, NEW d, d = SetState(k, t, s, height)
  PROVE  /\ Drawn(d, height) /\ OnlyOf(k, d, t)
         /\ d.st[t] = s /\ (s \in Final => d.out[t] = <<>>) /\ TextOf(d, t) = TextOf(k, t)
<1>1. s \in TaskStates
  BY DEF TaskStates
<1>2. Drawn(d, height) /\ d.st = [k.st EXCEPT ![t] = s] /\ TextsAfter(k, d, t, s)
  BY <1>1, SetStateDraws
<1>3. k.st \in [Tasks -> TaskStates \cup {"none"}] /\ TextOf(k, t) \in Seq(Lines)
  BY Texts
<1>4. OnlyOf(k, d, t) /\ d.st[t] = s
  BY <1>2, <1>3 DEF OnlyOf, TextOf, TextsAfter
<1>5. CASE s \in Final
  <2>1. d.shown[t] = TextOf(k, t) /\ d.out[t] = <<>>
    BY <1>2, <1>5 DEF TextsAfter, TextOf
  <2>2. TextOf(k, t) \o <<>> = TextOf(k, t)
    BY <1>3, ConcatEmpty
  <2>3. TextOf(d, t) = TextOf(k, t)
    BY <2>1, <2>2 DEF TextOf
  <2> QED BY <1>2, <1>4, <2>1, <2>3
<1>6. CASE s = "BLOCKED"
  <2>1. s \notin Final
    BY <1>6 DEF Final
  <2>2. TextOf(d, t) = TextOf(k, t)
    BY <1>2, <1>6 DEF TextsAfter, TextOf
  <2> QED BY <1>2, <1>4, <2>1, <2>2
<1> QED BY <1>5, <1>6 DEF Final

\* A run begins with nothing logged.
LEMMA Started ==
  ASSUME NEW k, NEW height \in Nat, Drawn(k, height), NEW t \in Tasks,
         k.st[t] # "BLOCKED" => k.out[t] = <<>>,
         NEW d, d = SetState(k, t, "RUNNING", height)
  PROVE  /\ Drawn(d, height) /\ OnlyOf(k, d, t)
         /\ d.st[t] = "RUNNING" /\ d.out[t] = <<>> /\ TextOf(d, t) = <<>>
<1>1. "RUNNING" \in TaskStates
  BY DEF TaskStates
<1>2. Drawn(d, height) /\ d.st = [k.st EXCEPT ![t] = "RUNNING"] /\ TextsAfter(k, d, t, "RUNNING")
  BY <1>1, SetStateDraws
<1>3. k.st \in [Tasks -> TaskStates \cup {"none"}]
  BY Texts
<1>4. OnlyOf(k, d, t) /\ d.st[t] = "RUNNING"
  BY <1>2, <1>3 DEF OnlyOf, TextOf, TextsAfter
<1>5. d.shown[t] = <<>> /\ d.out[t] = <<>>
  BY <1>2 DEF TextsAfter
<1>6. <<>> \o <<>> = <<>>
  OBVIOUS
<1> QED BY <1>2, <1>4, <1>5, <1>6 DEF TextOf

\* A line that a console is given is the last of the text of its task.
LEMMA LineLogged ==
  ASSUME NEW k, NEW height \in Nat, Drawn(k, height), NEW t \in Tasks, k.st[t] # "none",
         NEW l \in Lines, NEW d, d = AddOutput(k, t, <<l>>)
  PROVE  /\ Drawn(d, height) /\ OnlyOf(k, d, t)
         /\ d.st[t] = k.st[t] /\ TextOf(d, t) = Append(TextOf(k, t), l)
<1>1. PICK text \in Seq(Lines) : text = <<l>>
  <2>1. <<l>> \in Seq(Lines)
    OBVIOUS
  <2> QED BY <2>1
<1>2. /\ Drawn(d, height) /\ OnlyOf(k, d, t)
      /\ d.st[t] = k.st[t] /\ d.out[t] = k.out[t] \o text /\ d.shown[t] = k.shown[t]
  <2>1. LET e == AddOutput(k, t, text)
        IN /\ Drawn(e, height) /\ OnlyOf(k, e, t)
           /\ e.st[t] = k.st[t] /\ e.out[t] = k.out[t] \o text
           /\ e.shown[t] = k.shown[t]
    BY Logged
  <2>2. d = AddOutput(k, t, text)
    BY <1>1
  <2> QED BY <2>1, <2>2
<1>3. k.out[t] \in Seq(Lines) /\ k.shown[t] \in Seq(Lines)
  BY Texts
<1>4. d.shown[t] \o d.out[t] = Append(k.shown[t] \o k.out[t], l)
  <2>1. k.out[t] \o <<l>> = Append(k.out[t], l)
    BY <1>3, ConcatAppended
  <2>2. k.shown[t] \o Append(k.out[t], l) = Append(k.shown[t] \o k.out[t], l)
    <3>1. PICK a \in Seq(Lines), b \in Seq(Lines) : a = k.shown[t] /\ b = k.out[t]
      BY <1>3
    <3>2. a \o Append(b, l) = Append(a \o b, l)
      BY ConcatAppended
    <3> QED BY <3>1, <3>2
  <2> QED BY <1>1, <1>2, <2>1, <2>2
<1> QED BY <1>2, <1>4 DEF TextOf

----------------------------------------------------------------------------
(* The inductive invariant.                                                *)

\* The mux has all of a task's output, or the first lines of it.
MuxHasOutput(t) ==
  \/ mux[t].out = full[t] /\ Len(full[t]) < OutputLimit
  \/ /\ Len(mux[t].out) = OutputLimit + 1
     /\ mux[t].out[OutputLimit + 1] = Cut
     /\ OutputLimit <= Len(full[t])
     /\ \A j \in 1 .. OutputLimit : mux[t].out[j] = full[t][j]

MuxHasTask(t) ==
  /\ action[t] = "none" <=> mux[t].st = "none"
  /\ action[t] = "running" <=> mux[t].st = "RUNNING"
  /\ mux[t].st \in {"none", "PENDING"} => mux[t].out = <<>> /\ full[t] = <<>>
  /\ MuxHasOutput(t)

MuxIsRight == \A t \in Tasks : MuxHasTask(t)

\* A console has a task in its state, and output only where more may come, or
\* where the reason stands why it is blocked.
Says(k, t) ==
  /\ k.st[t] = mux[t].st
  /\ k.st[t] \in Final \cup {"PENDING"} => k.out[t] = <<>>

BaseIsRight ==
  /\ Drawn(base, rows)
  /\ \A t \in Tasks : Says(base, t) /\ TextOf(base, t) = full[t]

ViewsAreDrawn == \A c \in Clients : Drawn(view[c], rows)

ConnectionsAreRight ==
  /\ \A c \in Clients :
       /\ phase[c] # "open" \/ gone[c] => pipe[c] = <<>> /\ view[c] = NewConsole
       /\ fired[c] => phase[c] = "open" /\ gone[c]
       /\ phase[c] = "open" /\ c # joining => registered[c]
  /\ joining # None => phase[joining] = "open"
  /\ joining = None => attaching = {}
  /\ dumping # {} => joining = None
  /\ dumping \subseteq Failed
  /\ \A t \in attaching : mux[t].st # "none"

\* What c will show of the tasks it has been told of.
Follows(k, told) ==
  /\ Drawn(k, rows)
  /\ \A t \in Tasks :
       IF t \in told THEN Says(k, t) /\ AllOrMarked(TextOf(k, t), full[t])
       ELSE k.st[t] = "none"

ClientsFollow == \A c \in Connected : Follows(Eventually(c), Told(c))

DInv == TypeOK /\ MuxIsRight /\ BaseIsRight /\ ViewsAreDrawn /\ ConnectionsAreRight /\ ClientsFollow

----------------------------------------------------------------------------
(* Steps of the driver.                                                    *)

\* The variables that a step of the driver leaves alone.
NotTheDrivers == <<connVars, clientVars, pipe, rows>>

DriverTypes ==
  /\ action \in [Tasks -> {"none", "pending", "running", "ok", "failed"}]
  /\ full \in [Tasks -> Seq(Lines)]
  /\ mux \in [Tasks -> [st : TaskStates \cup {"none"}, out : Seq(Lines)]]
  /\ ops \in 0 .. MaxOps
  /\ todo \in [Clients -> Seq(Messages)]
  /\ \A c \in Clients : todo[c] # <<>> => c \in Open

\* What has to be shown of a step of the driver.
LEMMA DriverStepKeeps ==
  ASSUME DInv, joining = None, UNCHANGED NotTheDrivers,
         DriverTypes', dumping' \subseteq Failed', MuxIsRight', BaseIsRight',
         \A c \in Connected : Follows(Eventually(c), Tasks)'
  PROVE  DInv'
<1>0. /\ UNCHANGED <<phase, stream, registered, fired, joining, attaching, acceptOp>>
      /\ UNCHANGED <<gone, view, joins, pipe, rows>>
  BY DEF NotTheDrivers, connVars, joinVars, clientVars
<1>1. TypeOK'
  <2>1. TypeOK
    BY DEF DInv
  <2>2. \A t \in Tasks : Len(mux'[t].out) <= OutputLimit + 1
    <3>1. ASSUME NEW t \in Tasks PROVE Len(mux'[t].out) <= OutputLimit + 1
      <4>1. mux'[t].out \in Seq(Lines) /\ full'[t] \in Seq(Lines) /\ OutputLimit \in Nat
        BY DashboardsAssumption DEF DriverTypes
      <4>2. Len(mux'[t].out) \in Nat /\ Len(full'[t]) \in Nat
        BY <4>1
      <4> QED BY <4>1, <4>2 DEF MuxIsRight, MuxHasTask, MuxHasOutput
    <3> QED BY <3>1
  <2>3. base' \in Console(Lines)
    BY DEF BaseIsRight, Drawn
  <2>4. dumping' \subseteq Tasks
    BY DEF Failed
  <2>5. /\ phase' \in [Clients -> {"away", "backlog", "open"}]
        /\ joining' \in Clients \cup {None} /\ attaching' \subseteq Tasks
        /\ pipe' \in [Clients -> Seq(Messages)]
        /\ \A c \in Clients : Len(pipe'[c]) <= PipeCapacity
        /\ view' \in [Clients -> Console(Lines)]
        /\ acceptOp' \in {"waiting", "broken"} /\ rows' \in RowChoices
    BY <1>0, <2>1 DEF TypeOK
  <2>6. \A f \in {stream', registered', fired', gone'} : f \in [Clients -> BOOLEAN]
    BY <1>0, <2>1 DEF TypeOK
  <2> QED BY <2>2, <2>3, <2>4, <2>5, <2>6 DEF TypeOK, DriverTypes
<1>2. ViewsAreDrawn'
  BY <1>0 DEF DInv, ViewsAreDrawn
<1>3. ConnectionsAreRight'
  <2>1. ConnectionsAreRight
    BY DEF DInv
  <2>2. attaching = {} /\ attaching' = {}
    BY <1>0, <2>1 DEF ConnectionsAreRight
  <2> QED BY <1>0, <2>1, <2>2 DEF ConnectionsAreRight
<1>4. ClientsFollow'
  <2>1. Connected' = Connected
    BY <1>0 DEF Connected, Open
  <2>2. \A c : Told(c)' = Tasks
    <3>1. None \notin Clients
      BY DashboardsAssumption
    <3>2. attaching' = {}
      BY <1>0 DEF DInv, ConnectionsAreRight
    <3> QED BY <3>2 DEF Told
  <2> QED BY <2>1, <2>2 DEF ClientsFollow
<1> QED BY <1>1, <1>2, <1>3, <1>4 DEF DInv

\* What a client is sent is shown after all that was on its way to it.
LEMMA BroadcastReaches ==
  ASSUME TypeOK, NEW m \in Messages, Broadcast(m), UNCHANGED <<phase, pipe, view, rows>>
  PROVE  /\ todo' \in [Clients -> Seq(Messages)]
         /\ \A c \in Clients : todo'[c] # <<>> => c \in Open'
         /\ \A c \in Open : Eventually(c)' = Shown(Eventually(c), m, rows)
<1>1. todo \in [Clients -> Seq(Messages)] /\ pipe \in [Clients -> Seq(Messages)]
      /\ \A c \in Clients : todo[c] # <<>> => c \in Open
  BY DEF TypeOK
<1>2. Open' = Open
  BY DEF Open
<1>3. ASSUME NEW c \in Clients PROVE Append(todo[c], m) \in Seq(Messages)
  <2>1. todo[c] \in Seq(Messages)
    BY <1>1
  <2> QED BY <2>1
<1>4. todo' \in [Clients -> Seq(Messages)]
  BY <1>1, <1>3 DEF Broadcast
<1>5. \A c \in Clients : todo'[c] # <<>> => c \in Open'
  BY <1>1, <1>2 DEF Broadcast
<1>6. ASSUME NEW c \in Open PROVE Eventually(c)' = Shown(Eventually(c), m, rows)
  <2>1. c \in Clients
    BY DEF Open
  <2>2. PICK p \in Seq(Messages), q \in Seq(Messages) : p = pipe[c] /\ q = todo[c]
    BY <1>1, <2>1
  <2>3. pipe'[c] \o todo'[c] = p \o Append(q, m)
    BY <2>1, <2>2 DEF Broadcast
  <2>4. p \o Append(q, m) = Append(p \o q, m)
    BY ConcatAppended
  <2>5. p \o q \in Seq(Messages)
    OBVIOUS
  <2>10. PICK ms \in Seq(Messages) : ms = p \o q
    BY <2>5
  <2>6. PICK k, height : k = view[c] /\ height = rows
    OBVIOUS
  <2>7. ShownAll(k, Append(ms, m), height) = Shown(ShownAll(k, ms, height), m, height)
    BY ShownLast
  <2>8. Eventually(c)' = ShownAll(k, Append(ms, m), height)
    BY <2>3, <2>4, <2>6, <2>10 DEF Eventually
  <2>9. Eventually(c) = ShownAll(k, ms, height)
    BY <2>2, <2>6, <2>10 DEF Eventually
  <2> QED BY <2>6, <2>7, <2>8, <2>9
<1> QED BY <1>4, <1>5, <1>6

\* Says(d, t)', for a console that is not a state of Ekam's.
SaysNext(d, t) ==
  /\ d.st[t] = mux'[t].st
  /\ d.st[t] \in Final \cup {"PENDING"} => d.out[t] = <<>>

\* What a message makes of a console that has a task in its state: what the
\* step makes of it for the mux.
TaskTold(k, d, t) ==
  /\ Drawn(d, rows)
  /\ OnlyOf(k, d, t)
  /\ SaysNext(d, t)
  /\ TextOf(k, t) = full[t] => TextOf(d, t) = full'[t]
  /\ AllOrMarked(TextOf(k, t), full[t]) => AllOrMarked(TextOf(d, t), full'[t])

\* A step about one task, told to all connections and to Ekam's own console.
LEMMA BroadcastKeeps ==
  ASSUME DInv, joining = None, UNCHANGED NotTheDrivers,
         NEW t \in Tasks, NEW m \in Messages, Broadcast(m), base' = Shown(base, m, rows),
         DriverTypes', dumping' \subseteq Failed', MuxHasTask(t)',
         \A u \in Tasks \ {t} : mux'[u] = mux[u] /\ full'[u] = full[u] /\ action'[u] = action[u],
         \A k : Drawn(k, rows) /\ Says(k, t) => TaskTold(k, Shown(k, m, rows), t)
  PROVE  DInv'
<1>0. /\ UNCHANGED <<phase, stream, registered, fired, joining, attaching, acceptOp>>
      /\ UNCHANGED <<gone, view, joins, pipe, rows>>
  BY DEF NotTheDrivers, connVars, joinVars, clientVars
<1>1. TypeOK /\ MuxIsRight /\ BaseIsRight /\ ClientsFollow
  BY DEF DInv
<1>2. MuxIsRight'
  <2>1. ASSUME NEW u \in Tasks, u # t PROVE MuxHasTask(u)'
    BY <1>1, <2>1 DEF MuxIsRight, MuxHasTask, MuxHasOutput
  <2> QED BY <2>1 DEF MuxIsRight
<1>3. ASSUME NEW k, NEW d, NEW u \in Tasks, u # t, OnlyOf(k, d, t), Says(k, u)
      PROVE  Says(d, u)'
  BY <1>3 DEF OnlyOf, Says
<1>4. BaseIsRight'
  <2>1. Drawn(base, rows) /\ \A u \in Tasks : Says(base, u) /\ TextOf(base, u) = full[u]
    BY <1>1 DEF BaseIsRight
  <2>2. TaskTold(base, base', t)
    BY <2>1
  <2>3. PICK k, d : k = base /\ d = base'
    OBVIOUS
  <2>4. TaskTold(k, d, t)
    BY <2>2, <2>3
  <2>5. Drawn(d, rows')
    BY <1>0, <2>4 DEF TaskTold, SaysNext, Says
  <2>6. ASSUME NEW u \in Tasks PROVE Says(d, u)' /\ TextOf(d, u) = full'[u]
    <3>1. CASE u = t
      BY <2>1, <2>3, <2>4, <3>1 DEF TaskTold, SaysNext, Says
    <3>2. CASE u # t
      <4>1. OnlyOf(k, d, t) /\ Says(k, u) /\ TextOf(k, u) = full[u]
        BY <2>1, <2>3, <2>4 DEF TaskTold, SaysNext, Says
      <4>2. Says(d, u)'
        BY <1>3, <3>2, <4>1
      <4> QED BY <3>2, <4>1, <4>2 DEF OnlyOf
    <3> QED BY <3>1, <3>2
  <2> QED BY <2>3, <2>5, <2>6 DEF BaseIsRight, Says
<1>5. /\ todo' \in [Clients -> Seq(Messages)]
      /\ \A c \in Open : Eventually(c)' = Shown(Eventually(c), m, rows)
  BY <1>0, <1>1, BroadcastReaches
<1>6. ASSUME NEW c \in Connected PROVE Follows(Eventually(c), Tasks)'
  <2>1. c \in Connected /\ c \in Open
    BY <1>0 DEF Connected, Open
  <2>2. Told(c) = Tasks
    <3>1. None \notin Clients /\ c \in Clients
      BY <2>1, DashboardsAssumption DEF Open
    <3> QED BY <3>1 DEF Told
  <2>3. PICK k, d : k = Eventually(c) /\ d = Eventually(c)'
    OBVIOUS
  <2>4. Follows(k, Tasks)
    BY <1>1, <2>1, <2>2, <2>3 DEF ClientsFollow
  <2>5. Drawn(k, rows) /\ \A u \in Tasks : Says(k, u) /\ AllOrMarked(TextOf(k, u), full[u])
    BY <2>4 DEF Follows
  <2>6. d = Shown(k, m, rows)
    BY <1>5, <2>1, <2>3
  <2>7. TaskTold(k, d, t)
    BY <2>5, <2>6
  <2>8. Drawn(d, rows')
    BY <1>0, <2>7 DEF TaskTold, SaysNext, Says
  <2>9. ASSUME NEW u \in Tasks PROVE Says(d, u)' /\ AllOrMarked(TextOf(d, u), full'[u])
    <3>1. CASE u = t
      BY <2>5, <2>7, <3>1 DEF TaskTold, SaysNext, Says
    <3>2. CASE u # t
      <4>1. OnlyOf(k, d, t) /\ Says(k, u) /\ AllOrMarked(TextOf(k, u), full[u])
        BY <2>5, <2>7 DEF TaskTold, SaysNext, Says
      <4>2. Says(d, u)'
        BY <1>3, <3>2, <4>1
      <4> QED BY <3>2, <4>1, <4>2 DEF OnlyOf
    <3> QED BY <3>1, <3>2
  <2>10. Follows(d, Tasks)'
    BY <2>8, <2>9 DEF Follows
  <2> QED BY <2>3, <2>10 DEF Follows, Says
<1>7. \A c \in Connected : Follows(Eventually(c), Tasks)'
  BY <1>6
<1> QED BY <1>2, <1>4, <1>7, DriverStepKeeps

\* What every handler of the driver finds and leaves alone.
LEMMA HandlerParts ==
  ASSUME DInv, TaskStep
  PROVE  /\ joining = None /\ UNCHANGED NotTheDrivers /\ dumping = {} /\ dumping' = {}
         /\ ops \in 0 .. MaxOps - 1 /\ ops' \in 0 .. MaxOps
         /\ rows \in Nat /\ TypeOK /\ MuxIsRight
<1>1. ops \in 0 .. MaxOps /\ rows \in Nat /\ MaxOps \in Nat /\ rows \in RowChoices
  BY DashboardsAssumption DEF DInv, TypeOK
<1>2. ops < MaxOps /\ ops' = ops + 1 /\ joining = None /\ dumping = {} /\ dumping' = {}
  BY DEF TaskStep, HandlerStep, Idle
<1>3. UNCHANGED NotTheDrivers
  BY DEF TaskStep, HandlerStep, NotTheDrivers, connVars, joinVars, clientVars
<1> QED BY <1>1, <1>2, <1>3 DEF DInv

\* The types of a step that broadcasts.
LEMMA BroadcastTypes ==
  ASSUME DInv, TaskStep, NEW m \in Messages, Broadcast(m)
  PROVE  /\ todo' \in [Clients -> Seq(Messages)]
         /\ \A c \in Clients : todo'[c] # <<>> => c \in Open'
<1>1. UNCHANGED <<phase, pipe, view, rows>>
  BY DEF TaskStep, HandlerStep, connVars, joinVars, clientVars
<1> QED BY <1>1, BroadcastReaches DEF DInv

\* Each step of the driver keeps the invariant.
LEMMA BeginKeeps ==
  ASSUME DInv, NEW t \in Tasks, Begin(t)
  PROVE  DInv'
<1>1. /\ joining = None /\ UNCHANGED NotTheDrivers /\ dumping' = {} /\ ops' \in 0 .. MaxOps
      /\ rows \in Nat /\ TypeOK /\ MuxIsRight
  BY HandlerParts DEF Begin
<1>2. PICK m : m = Message(t, "PENDING", <<>>)
  OBVIOUS
<1>3. m \in Messages /\ Broadcast(m)
  <2>1. "PENDING" \in TaskStates \cup {"UNCHANGED", "DELETED"} /\ <<>> \in Seq(Lines)
    BY DEF TaskStates
  <2> QED BY <1>2, <2>1, MessageParts DEF Begin
<1>4. /\ action \in [Tasks -> {"none", "pending", "running", "ok", "failed"}]
      /\ full \in [Tasks -> Seq(Lines)]
      /\ mux \in [Tasks -> [st : TaskStates \cup {"none"}, out : Seq(Lines)]]
  BY <1>1 DEF TypeOK
<1>5. /\ action[t] = "none" /\ mux[t].st = "none"
      /\ action' = [action EXCEPT ![t] = "pending"] /\ full' = [full EXCEPT ![t] = <<>>]
      /\ mux' = [mux EXCEPT ![t] = [st |-> "PENDING", out |-> <<>>]]
      /\ base' = BeginConsoleTask(base, t)
  BY <1>1 DEF Begin, MuxIsRight, MuxHasTask
<1>6. action'[t] = "pending" /\ full'[t] = <<>> /\ mux'[t] = [st |-> "PENDING", out |-> <<>>]
      /\ \A u \in Tasks \ {t} : mux'[u] = mux[u] /\ full'[u] = full[u] /\ action'[u] = action[u]
  BY <1>4, <1>5
<1>7. DriverTypes'
  <2>1. <<>> \in Seq(Lines) /\ "PENDING" \in TaskStates
    BY DEF TaskStates
  <2>2. [st |-> "PENDING", out |-> <<>>] \in [st : TaskStates \cup {"none"}, out : Seq(Lines)]
    BY <2>1
  <2>3. TaskStep /\ Open' = Open
    BY DEF Begin, TaskStep, HandlerStep, connVars, Open
  <2>4. /\ todo' \in [Clients -> Seq(Messages)]
        /\ \A c \in Clients : todo'[c] # <<>> => c \in Open'
    BY <1>3, <2>3, BroadcastTypes
  <2>5. action' \in [Tasks -> {"none", "pending", "running", "ok", "failed"}]
    BY <1>4, <1>5
  <2>6. full' \in [Tasks -> Seq(Lines)]
    BY <1>4, <1>5, <2>1
  <2>7. mux' \in [Tasks -> [st : TaskStates \cup {"none"}, out : Seq(Lines)]]
    BY <1>4, <1>5, <2>2
  <2> QED BY <1>1, <2>4, <2>5, <2>6, <2>7 DEF DriverTypes
<1>8. MuxHasTask(t)'
  <2>1. OutputLimit \in Nat \ {0} /\ Len(<<>>) = 0
    BY DashboardsAssumption
  <2> QED BY <1>6, <2>1 DEF MuxHasTask, MuxHasOutput
<1>9. ASSUME NEW k, Drawn(k, rows), Says(k, t) PROVE TaskTold(k, Shown(k, m, rows), t)
  <2>1. k.st[t] = "none"
    BY <1>5, <1>9 DEF Says
  <2>2. PICK d : d = BeginConsoleTask(k, t)
    OBVIOUS
  <2>3. Shown(k, m, rows) = d
    BY <1>2, <2>1, <2>2, ShownPending
  <2>4. PICK height \in Nat : height = rows
    BY <1>1
  <2>5. /\ Drawn(d, height) /\ OnlyOf(k, d, t)
        /\ d.st[t] = "PENDING" /\ d.out[t] = <<>> /\ TextOf(d, t) = <<>>
    BY <1>9, <2>1, <2>2, <2>4, Begun
  <2>6. Says(d, t)'
    BY <1>6, <2>5 DEF Says
  <2>7. AllOrMarked(TextOf(d, t), full'[t])
    BY <1>6, <2>5, AllIsAll
  <2>8. TaskTold(k, d, t)
    BY <1>6, <2>4, <2>5, <2>6, <2>7 DEF TaskTold, SaysNext, Says
  <2> QED BY <2>3, <2>8
<1>10. base' = Shown(base, m, rows)
  <2>1. base.st[t] = "none"
    BY <1>5 DEF DInv, BaseIsRight, Says
  <2>2. PICK k, height : k = base /\ height = rows
    OBVIOUS
  <2>3. Shown(k, m, height) = BeginConsoleTask(k, t)
    BY <1>2, <2>1, <2>2, ShownPending
  <2> QED BY <1>5, <2>2, <2>3
<1>11. dumping' \subseteq Failed'
  BY <1>1
<1>12. \A k : Drawn(k, rows) /\ Says(k, t) => TaskTold(k, Shown(k, m, rows), t)
  BY <1>9
<1> QED BY <1>1, <1>3, <1>6, <1>7, <1>8, <1>10, <1>11, <1>12, BroadcastKeeps

\* SetTaskState, of any step.
LEMMA SetStateKeeps ==
  ASSUME DInv, joining = None, UNCHANGED NotTheDrivers, dumping' \subseteq Failed',
         ops' \in 0 .. MaxOps, NEW t \in Tasks, NEW st \in {"RUNNING", "DONE", "FAILED", "BLOCKED"},
         SetTaskState(t, st), mux[t].st # "none",
         NEW a \in {"pending", "running", "ok", "failed"}, action' = [action EXCEPT ![t] = a],
         a = "running" <=> st = "RUNNING",
         st = "RUNNING" => mux[t].st # "RUNNING" /\ full' = [full EXCEPT ![t] = <<>>],
         st # "RUNNING" => full' = full
  PROVE  DInv'
<1>1. TypeOK /\ MuxIsRight /\ rows \in Nat
  BY DashboardsAssumption DEF DInv, TypeOK
<1>2. PICK m : m = Message(t, st, <<>>)
  OBVIOUS
<1>3. st \in TaskStates
  BY DEF TaskStates
<1>4. m \in Messages /\ Broadcast(m)
  <2>1. st \in TaskStates \cup {"UNCHANGED", "DELETED"} /\ <<>> \in Seq(Lines)
    BY <1>3
  <2> QED BY <1>2, <2>1, MessageParts DEF SetTaskState
<1>5. /\ action \in [Tasks -> {"none", "pending", "running", "ok", "failed"}]
      /\ full \in [Tasks -> Seq(Lines)]
      /\ mux \in [Tasks -> [st : TaskStates \cup {"none"}, out : Seq(Lines)]]
  BY <1>1 DEF TypeOK
<1>6. PICK n : n = MuxSetState(mux[t], st)
  OBVIOUS
<1>7. /\ n = [st |-> st, out |-> IF st = "RUNNING" THEN <<>> ELSE mux[t].out]
      /\ n.st = st /\ n.out = IF st = "RUNNING" THEN <<>> ELSE mux[t].out
  <2>1. st \in {"PENDING", "RUNNING"} <=> st = "RUNNING"
    OBVIOUS
  <2>2. n = [st |-> st, out |-> IF st = "RUNNING" THEN <<>> ELSE mux[t].out]
    BY <1>6, <2>1 DEF MuxSetState
  <2> QED BY <2>2
<1>8. mux' = [mux EXCEPT ![t] = n]
  BY <1>6 DEF SetTaskState
<1>9. <<>> \in Seq(Lines)
  OBVIOUS
<1>10. /\ action'[t] = a /\ mux'[t] = n /\ (st = "RUNNING" => full'[t] = <<>>)
       /\ \A u \in Tasks \ {t} : mux'[u] = mux[u] /\ full'[u] = full[u] /\ action'[u] = action[u]
  BY <1>5, <1>8
<1>11. DriverTypes'
  <2>1. n \in [st : TaskStates \cup {"none"}, out : Seq(Lines)]
    BY <1>3, <1>5, <1>7, <1>9
  <2>2. UNCHANGED <<phase, pipe, view, rows>> /\ Open' = Open
    BY DEF NotTheDrivers, connVars, clientVars, Open
  <2>3. /\ todo' \in [Clients -> Seq(Messages)]
        /\ \A c \in Clients : todo'[c] # <<>> => c \in Open'
    BY <1>1, <1>4, <2>2, BroadcastReaches
  <2>4. action' \in [Tasks -> {"none", "pending", "running", "ok", "failed"}]
    BY <1>5
  <2>5. full' \in [Tasks -> Seq(Lines)]
    BY <1>5, <1>9
  <2>6. mux' \in [Tasks -> [st : TaskStates \cup {"none"}, out : Seq(Lines)]]
    BY <1>5, <1>8, <2>1
  <2> QED BY <2>3, <2>4, <2>5, <2>6 DEF DriverTypes
<1>12. MuxHasTask(t)'
  <2>1. OutputLimit \in Nat \ {0} /\ Len(<<>>) = 0
    BY DashboardsAssumption
  <2>2. MuxHasTask(t)
    BY <1>1 DEF MuxIsRight
  <2>3. action'[t] # "none" /\ mux'[t].st # "none" /\ mux'[t].st # "PENDING"
        /\ (action'[t] = "running" <=> mux'[t].st = "RUNNING")
    BY <1>7, <1>10
  <2>4. MuxHasOutput(t)'
    <3>1. CASE st = "RUNNING"
      <4>1. mux'[t].out = <<>> /\ full'[t] = <<>>
        BY <1>7, <1>10, <3>1
      <4> QED BY <2>1, <4>1 DEF MuxHasOutput
    <3>2. CASE st # "RUNNING"
      <4>1. mux'[t].out = mux[t].out /\ full'[t] = full[t]
        BY <1>7, <1>10, <3>2
      <4> QED BY <2>2, <4>1 DEF MuxHasTask, MuxHasOutput
    <3> QED BY <3>1, <3>2
  <2> QED BY <2>3, <2>4 DEF MuxHasTask
<1>13. PICK height \in Nat : height = rows
  BY <1>1
<1>14. ASSUME NEW k, Drawn(k, rows), Says(k, t)
       PROVE  Shown(k, m, rows) = SetState(k, t, st, rows) /\ TaskTold(k, Shown(k, m, rows), t)
  <2>1. k.st[t] # "none" /\ k \in Console(Lines) /\ k.st[t] \in TaskStates \cup {"none"}
    <3>1. k \in Console(Lines)
      BY <1>14 DEF Drawn
    <3> QED BY <1>14, <3>1, ConsoleFields DEF Says
  <2>2. PICK d : d = SetState(k, t, st, height)
    OBVIOUS
  <2>3. Shown(k, m, height) = d
    BY <1>2, <1>3, <2>1, <2>2, ShownState
  <2>4. Drawn(d, height) /\ OnlyOf(k, d, t) /\ Says(d, t)' /\ TextOf(d, t) = IF st = "RUNNING" THEN <<>> ELSE TextOf(k, t)
    <3>1. CASE st = "RUNNING"
      <4>1. k.st[t] # "BLOCKED" => k.out[t] = <<>>
        BY <1>14, <2>1, <3>1 DEF Says, TaskStates, Final
      <4>2. d = SetState(k, t, "RUNNING", height)
        BY <2>2, <3>1
      <4>3. /\ Drawn(d, height) /\ OnlyOf(k, d, t)
            /\ d.st[t] = "RUNNING" /\ d.out[t] = <<>> /\ TextOf(d, t) = <<>>
        BY <1>13, <1>14, <4>1, <4>2, Started
      <4>4. Says(d, t)'
        BY <1>7, <1>10, <3>1, <4>3 DEF Says
      <4> QED BY <3>1, <4>3, <4>4
    <3>2. CASE st # "RUNNING"
      <4>1. st \in {"DONE", "FAILED", "BLOCKED"}
        BY <3>2
      <4>2. /\ Drawn(d, height) /\ OnlyOf(k, d, t)
            /\ d.st[t] = st /\ (st \in Final => d.out[t] = <<>>) /\ TextOf(d, t) = TextOf(k, t)
        BY <1>13, <1>14, <2>2, <4>1, Stopped
      <4>3. st \in Final \cup {"PENDING"} => st \in Final
        OBVIOUS
      <4>4. Says(d, t)'
        BY <1>7, <1>10, <4>2, <4>3 DEF Says
      <4> QED BY <3>2, <4>2, <4>4
    <3> QED BY <3>1, <3>2
  <2>5. st # "RUNNING" => full'[t] = full[t]
    OBVIOUS
  <2>6. AllOrMarked(<<>>, <<>>)
    BY AllIsAll
  <2>7. TaskTold(k, d, t)
    BY <1>10, <1>13, <2>4, <2>5, <2>6 DEF TaskTold, SaysNext, Says
  <2> QED BY <1>13, <2>2, <2>3, <2>7
<1>15. base' = Shown(base, m, rows)
  <2>1. Drawn(base, rows) /\ Says(base, t)
    BY DEF DInv, BaseIsRight
  <2>2. Shown(base, m, rows) = SetState(base, t, st, rows)
    BY <1>14, <2>1
  <2> QED BY <2>2 DEF SetTaskState
<1>16. \A k : Drawn(k, rows) /\ Says(k, t) => TaskTold(k, Shown(k, m, rows), t)
  BY <1>14
<1> QED BY <1>4, <1>10, <1>11, <1>12, <1>15, <1>16, BroadcastKeeps

LEMMA StartKeeps ==
  ASSUME DInv, NEW t \in Tasks, Start(t)
  PROVE  DInv'
<1>1. /\ joining = None /\ UNCHANGED NotTheDrivers /\ dumping' = {} /\ ops' \in 0 .. MaxOps
      /\ MuxIsRight
  BY HandlerParts DEF Start
<1>2. action[t] = "pending" /\ mux[t].st # "none" /\ mux[t].st # "RUNNING"
  BY <1>1 DEF Start, MuxIsRight, MuxHasTask
<1>3. dumping' \subseteq Failed'
  BY <1>1
<1>4. PICK a \in {"pending", "running", "ok", "failed"}, st \in {"RUNNING", "DONE", "FAILED", "BLOCKED"} :
        a = "running" /\ st = "RUNNING"
  OBVIOUS
<1>5. SetTaskState(t, st) /\ action' = [action EXCEPT ![t] = a] /\ full' = [full EXCEPT ![t] = <<>>]
  BY <1>4 DEF Start
<1> QED BY <1>1, <1>2, <1>3, <1>4, <1>5, SetStateKeeps

LEMMA ReturnedKeeps ==
  ASSUME DInv, NEW t \in Tasks, NEW outcome \in {"ok", "failed"}, Returned(t, outcome)
  PROVE  DInv'
<1>1. /\ joining = None /\ UNCHANGED NotTheDrivers /\ dumping' = {} /\ ops' \in 0 .. MaxOps
      /\ MuxIsRight
  BY HandlerParts DEF Returned
<1>2. action[t] = "running" /\ mux[t].st # "none"
  BY <1>1 DEF Returned, MuxIsRight, MuxHasTask
<1>3. dumping' \subseteq Failed'
  BY <1>1
<1>4. PICK st \in {"RUNNING", "DONE", "FAILED", "BLOCKED"} :
        st = IF outcome = "failed" THEN "BLOCKED" ELSE "DONE"
  OBVIOUS
<1>5. SetTaskState(t, st) /\ action' = [action EXCEPT ![t] = outcome] /\ full' = full
      /\ st # "RUNNING" /\ outcome # "running" /\ outcome \in {"pending", "running", "ok", "failed"}
  BY <1>4 DEF Returned
<1> QED BY <1>1, <1>2, <1>3, <1>5, SetStateKeeps

LEMMA ReportFailureKeeps ==
  ASSUME DInv, NEW t \in Tasks, ReportFailure(t)
  PROVE  DInv'
<1>1. TypeOK /\ MuxIsRight /\ ConnectionsAreRight
  BY DEF DInv
<1>2. /\ joining = None /\ UNCHANGED NotTheDrivers /\ action' = action /\ full' = full
      /\ ops' \in 0 .. MaxOps /\ t \in Failed /\ dumping' \subseteq Failed'
  BY <1>1 DEF ReportFailure, TypeOK, ConnectionsAreRight, NotTheDrivers, connVars, joinVars, clientVars, Failed
<1>3. action[t] = "failed" /\ mux[t].st # "none"
  BY <1>1, <1>2 DEF Failed, MuxIsRight, MuxHasTask
<1>4. PICK a \in {"pending", "running", "ok", "failed"}, st \in {"RUNNING", "DONE", "FAILED", "BLOCKED"} :
        a = "failed" /\ st = "FAILED"
  OBVIOUS
<1>5. action' = [action EXCEPT ![t] = a]
  <2>1. action \in [Tasks -> {"none", "pending", "running", "ok", "failed"}]
    BY <1>1 DEF TypeOK
  <2> QED BY <1>2, <1>3, <1>4, <2>1
<1>6. SetTaskState(t, st)
  BY <1>4 DEF ReportFailure
<1> QED BY <1>2, <1>3, <1>4, <1>5, <1>6, SetStateKeeps

\* A step of the driver of which the dashboards are told nothing.
LEMMA SilentStepKeeps ==
  ASSUME DInv, joining = None, UNCHANGED NotTheDrivers, UNCHANGED <<full, mux, todo>>,
         ops' \in 0 .. MaxOps, dumping' \subseteq Failed',
         action' \in [Tasks -> {"none", "pending", "running", "ok", "failed"}],
         \A t \in Tasks : /\ action'[t] = "none" <=> action[t] = "none"
                          /\ action'[t] = "running" <=> action[t] = "running",
         Drawn(base', rows),
         \A t \in Tasks : /\ base'.st[t] = base.st[t] /\ base'.out[t] = base.out[t]
                          /\ TextOf(base', t) = TextOf(base, t)
  PROVE  DInv'
<1>0. UNCHANGED <<phase, pipe, view, rows, stream, gone>>
  BY DEF NotTheDrivers, connVars, clientVars
<1>1. TypeOK /\ MuxIsRight /\ BaseIsRight /\ ClientsFollow
  BY DEF DInv
<1>2. DriverTypes'
  BY <1>0, <1>1 DEF TypeOK, DriverTypes, Open
<1>3. MuxIsRight'
  BY <1>1 DEF MuxIsRight, MuxHasTask, MuxHasOutput
<1>4. BaseIsRight'
  BY <1>0, <1>1 DEF BaseIsRight, Says
<1>5. ASSUME NEW c \in Connected PROVE Follows(Eventually(c), Tasks)'
  <2>1. Follows(Eventually(c), Told(c))
    BY <1>1 DEF ClientsFollow
  <2>2. Told(c) = Tasks
    <3>1. None \notin Clients /\ c \in Clients
      BY DashboardsAssumption DEF Connected, Open
    <3> QED BY <3>1 DEF Told
  <2>3. Eventually(c)' = Eventually(c)
    BY <1>0 DEF Eventually
  <2>4. PICK k : k = Eventually(c)
    OBVIOUS
  <2>5. Follows(k, Tasks)
    BY <2>1, <2>2, <2>4
  <2>6. Follows(k, Tasks)'
    BY <1>0, <2>5 DEF Follows, Says
  <2> QED BY <2>3, <2>4, <2>6 DEF Follows, Says
<1>6. \A c \in Connected : Follows(Eventually(c), Tasks)'
  BY <1>5
<1> QED BY <1>2, <1>3, <1>4, <1>6, DriverStepKeeps

LEMMA ResetKeeps ==
  ASSUME DInv, NEW t \in Tasks, Reset(t)
  PROVE  DInv'
<1>1. /\ joining = None /\ UNCHANGED NotTheDrivers /\ dumping' = {} /\ ops' \in 0 .. MaxOps
      /\ TypeOK /\ MuxIsRight
  BY HandlerParts DEF Reset
<1>2. action[t] \notin {"none", "pending"} /\ action' = [action EXCEPT ![t] = "pending"] /\ full' = full
      /\ action \in [Tasks -> {"none", "pending", "running", "ok", "failed"}]
  BY <1>1 DEF Reset, TypeOK
<1>3. dumping' \subseteq Failed'
  BY <1>1
<1>4. CASE action[t] = "running"
  <2>1. mux[t].st # "none"
    BY <1>1, <1>4 DEF MuxIsRight, MuxHasTask
  <2>2. PICK a \in {"pending", "running", "ok", "failed"}, st \in {"RUNNING", "DONE", "FAILED", "BLOCKED"} :
          a = "pending" /\ st = "BLOCKED"
    OBVIOUS
  <2>3. SetTaskState(t, st) /\ action' = [action EXCEPT ![t] = a]
    BY <1>2, <1>4, <2>2 DEF Reset
  <2> QED BY <1>1, <1>2, <1>3, <2>1, <2>2, <2>3, SetStateKeeps
<1>5. CASE action[t] # "running"
  <2>1. UNCHANGED <<full, mux, todo, base>>
    BY <1>2, <1>5 DEF Reset
  <2>2. action' \in [Tasks -> {"none", "pending", "running", "ok", "failed"}]
    BY <1>2
  <2>3. \A u \in Tasks : /\ action'[u] = "none" <=> action[u] = "none"
                         /\ action'[u] = "running" <=> action[u] = "running"
    BY <1>2, <1>5
  <2>4. Drawn(base', rows)
    BY <2>1 DEF DInv, BaseIsRight
  <2>5. \A u \in Tasks : /\ base'.st[u] = base.st[u] /\ base'.out[u] = base.out[u]
                         /\ TextOf(base', u) = TextOf(base, u)
    BY <2>1
  <2>6. UNCHANGED <<full, mux, todo>>
    BY <2>1
  <2> QED BY <1>1, <1>3, <2>2, <2>3, <2>4, <2>5, <2>6, SilentStepKeeps
<1> QED BY <1>4, <1>5

LEMMA DumpErrorsKeeps ==
  ASSUME DInv, DumpErrors
  PROVE  DInv'
<1>1. TypeOK /\ MaxOps \in Nat
  BY DashboardsAssumption DEF DInv
<1>2. /\ joining = None /\ UNCHANGED NotTheDrivers /\ ops' \in 0 .. MaxOps
      /\ UNCHANGED <<full, mux, todo>> /\ action' = action /\ base' = base /\ dumping' = Failed
  BY <1>1 DEF DumpErrors, HandlerStep, Idle, TypeOK, NotTheDrivers, connVars, joinVars, clientVars
<1>3. dumping' \subseteq Failed' /\ action' \in [Tasks -> {"none", "pending", "running", "ok", "failed"}]
  BY <1>1, <1>2 DEF Failed, TypeOK
<1>4. Drawn(base', rows)
  BY <1>2 DEF DInv, BaseIsRight
<1>5. \A u \in Tasks : /\ base'.st[u] = base.st[u] /\ base'.out[u] = base.out[u]
                       /\ TextOf(base', u) = TextOf(base, u)
  BY <1>2
<1> QED BY <1>2, <1>3, <1>4, <1>5, SilentStepKeeps

LEMMA LogKeeps ==
  ASSUME DInv, NEW t \in Tasks, Log(t)
  PROVE  DInv'
<1>1. /\ joining = None /\ UNCHANGED NotTheDrivers /\ dumping' = {} /\ ops' \in 0 .. MaxOps
      /\ ops \in 0 .. MaxOps - 1 /\ rows \in Nat /\ TypeOK /\ MuxIsRight
  BY HandlerParts DEF Log
<1>2. PICK l : l = Line
  OBVIOUS
<1>3. l \in Lines
  <2>1. ops \in 0 .. MaxOps
    BY <1>1, DashboardsAssumption
  <2> QED BY <1>2, <2>1 DEF Line, Lines
<1>4. PICK text \in Seq(Lines) : text = <<l>>
  <2>1. <<l>> \in Seq(Lines)
    BY <1>3
  <2> QED BY <2>1
<1>5. PICK m : m = Message(t, "UNCHANGED", text)
  OBVIOUS
<1>6. m \in Messages /\ Broadcast(m)
  <2>1. "UNCHANGED" \in TaskStates \cup {"UNCHANGED", "DELETED"}
    OBVIOUS
  <2> QED BY <1>2, <1>4, <1>5, <2>1, MessageParts DEF Log
<1>7. /\ action \in [Tasks -> {"none", "pending", "running", "ok", "failed"}]
      /\ full \in [Tasks -> Seq(Lines)]
      /\ mux \in [Tasks -> [st : TaskStates \cup {"none"}, out : Seq(Lines)]]
  BY <1>1 DEF TypeOK
<1>8. PICK n : n = MuxAddOutput(mux[t], l)
  OBVIOUS
<1>9. /\ action[t] = "running" /\ mux[t].st = "RUNNING" /\ MuxHasTask(t)
      /\ action' = action /\ full' = [full EXCEPT ![t] = Append(full[t], l)]
      /\ mux' = [mux EXCEPT ![t] = n]
      /\ base' = AddOutput(base, t, text)
  BY <1>1, <1>2, <1>4, <1>8 DEF Log, MuxIsRight, MuxHasTask
<1>10. full[t] \in Seq(Lines) /\ Append(full[t], l) \in Seq(Lines)
       /\ mux[t] \in [st : TaskStates \cup {"none"}, out : Seq(Lines)] /\ mux[t].out \in Seq(Lines)
  <2>1. full[t] \in Seq(Lines)
    BY <1>7
  <2>2. Append(full[t], l) \in Seq(Lines)
    BY <1>3, <2>1
  <2> QED BY <1>7, <2>1, <2>2
<1>11. /\ full'[t] = Append(full[t], l) /\ mux'[t] = n
       /\ \A u \in Tasks \ {t} : mux'[u] = mux[u] /\ full'[u] = full[u] /\ action'[u] = action[u]
  BY <1>7, <1>9
\* What the mux keeps of the line.
<1>12. /\ n \in [st : TaskStates \cup {"none"}, out : Seq(Lines)] /\ n.st = "RUNNING"
       /\ MuxHasOutput(t)'
  <2>1. PICK o \in Seq(Lines), w \in Seq(Lines) : o = mux[t].out /\ w = full[t]
    BY <1>10
  <2>2. OutputLimit \in Nat \ {0} /\ Len(o) \in Nat /\ Len(w) \in Nat /\ Cut \in Lines
    BY DashboardsAssumption DEF Lines
  <2>3. \/ o = w /\ Len(w) < OutputLimit
        \/ /\ Len(o) = OutputLimit + 1 /\ o[OutputLimit + 1] = Cut
           /\ OutputLimit <= Len(w)
           /\ \A j \in 1 .. OutputLimit : o[j] = w[j]
    BY <1>9, <2>1 DEF MuxHasTask, MuxHasOutput
  <2>4. PICK v \in Seq(Lines) : v = Append(w, l)
    BY <1>10, <2>1
  <2>5. Len(v) = Len(w) + 1 /\ \A j \in 1 .. Len(w) : v[j] = w[j]
    BY <2>4
  <2>6. full'[t] = v
    BY <1>11, <2>1, <2>4
  <2>7. CASE Len(o) >= OutputLimit
    <3>1. n = mux[t]
      BY <1>8, <2>1, <2>7 DEF MuxAddOutput
    <3>2. Len(o) = OutputLimit + 1 /\ o[OutputLimit + 1] = Cut
          /\ OutputLimit <= Len(w) /\ \A j \in 1 .. OutputLimit : o[j] = w[j]
      BY <2>2, <2>3, <2>7
    <3>3. OutputLimit <= Len(v) /\ \A j \in 1 .. OutputLimit : o[j] = v[j]
      BY <2>2, <2>5, <3>2
    <3>4. mux'[t].out = o
      BY <1>11, <2>1, <3>1
    <3> QED BY <1>9, <1>10, <2>6, <3>1, <3>2, <3>3, <3>4 DEF MuxHasOutput
  <2>8. CASE Len(o) + 1 < OutputLimit
    <3>1. o = w
      BY <2>2, <2>3, <2>8
    <3>2. n = [st |-> mux[t].st, out |-> v]
      BY <1>8, <2>1, <2>2, <2>4, <2>8, <3>1 DEF MuxAddOutput
    <3>3. n.out = v /\ n.st = "RUNNING" /\ n \in [st : TaskStates \cup {"none"}, out : Seq(Lines)]
      BY <1>9, <3>2 DEF TaskStates
    <3>4. Len(v) < OutputLimit
      BY <2>5, <2>8, <3>1
    <3> QED BY <1>11, <2>6, <3>3, <3>4 DEF MuxHasOutput
  <2>9. CASE Len(o) + 1 = OutputLimit
    <3>1. o = w
      BY <2>2, <2>3, <2>9
    <3>2. PICK x \in Seq(Lines) : x = Append(v, Cut)
      <4>1. Append(v, Cut) \in Seq(Lines)
        BY <2>2
      <4> QED BY <4>1
    <3>3. Len(x) = OutputLimit + 1 /\ x[OutputLimit + 1] = Cut /\ Len(v) = OutputLimit
          /\ \A j \in 1 .. OutputLimit : x[j] = v[j]
      BY <2>2, <2>5, <2>9, <3>1, <3>2
    <3>4. n = [st |-> mux[t].st, out |-> x]
      <4>1. ~(Len(mux[t].out) >= OutputLimit) /\ ~(Len(mux[t].out) + 1 < OutputLimit)
        BY <2>1, <2>2, <2>9
      <4>2. Append(mux[t].out, l) = v
        BY <2>1, <2>4, <3>1
      <4> QED BY <1>8, <3>2, <4>1, <4>2 DEF MuxAddOutput
    <3>5. n.out = x /\ n.st = "RUNNING" /\ n \in [st : TaskStates \cup {"none"}, out : Seq(Lines)]
      BY <1>9, <3>4 DEF TaskStates
    <3> QED BY <1>11, <2>2, <2>6, <3>3, <3>5 DEF MuxHasOutput
  <2> QED BY <2>2, <2>7, <2>8, <2>9
<1>13. DriverTypes'
  <2>1. TaskStep /\ Open' = Open
    BY DEF Log, TaskStep, HandlerStep, connVars, Open
  <2>2. /\ todo' \in [Clients -> Seq(Messages)]
        /\ \A c \in Clients : todo'[c] # <<>> => c \in Open'
    BY <1>6, <2>1, BroadcastTypes
  <2>3. full' \in [Tasks -> Seq(Lines)]
    BY <1>7, <1>9, <1>10
  <2>4. mux' \in [Tasks -> [st : TaskStates \cup {"none"}, out : Seq(Lines)]]
    BY <1>7, <1>9, <1>12
  <2> QED BY <1>1, <1>7, <1>9, <2>2, <2>3, <2>4 DEF DriverTypes
<1>14. MuxHasTask(t)'
  BY <1>9, <1>11, <1>12 DEF MuxHasTask
<1>15. PICK height \in Nat : height = rows
  BY <1>1
<1>16. ASSUME NEW k, Drawn(k, rows), Says(k, t)
       PROVE  Shown(k, m, rows) = AddOutput(k, t, text) /\ TaskTold(k, Shown(k, m, rows), t)
  <2>1. k.st[t] = "RUNNING" /\ k.st[t] # "none"
    BY <1>9, <1>16 DEF Says
  <2>2. PICK d : d = AddOutput(k, t, <<l>>)
    OBVIOUS
  <2>3. Shown(k, m, height) = d
    BY <1>4, <1>5, <2>1, <2>2, ShownLog
  <2>4. /\ Drawn(d, height) /\ OnlyOf(k, d, t)
        /\ d.st[t] = k.st[t] /\ TextOf(d, t) = Append(TextOf(k, t), l)
    BY <1>3, <1>15, <1>16, <2>1, <2>2, LineLogged
  <2>5. Says(d, t)'
    BY <1>11, <1>12, <2>1, <2>4 DEF Says, Final
  <2>6. PICK s \in Seq(Lines), w \in Seq(Lines) : s = TextOf(k, t) /\ w = full[t]
    <3>1. TextOf(k, t) \in Seq(Lines)
      BY <1>15, <1>16, Texts
    <3> QED BY <1>10, <3>1
  <2>7. AllOrMarked(s, w) => AllOrMarked(Append(s, l), Append(w, l))
    BY <1>3, MarkedAppended
  <2>8. TaskTold(k, d, t)
    BY <1>11, <1>15, <2>4, <2>5, <2>6, <2>7 DEF TaskTold, SaysNext, Says
  <2> QED BY <1>4, <1>15, <2>2, <2>3, <2>8
<1>17. base' = Shown(base, m, rows)
  <2>1. Drawn(base, rows) /\ Says(base, t)
    BY DEF DInv, BaseIsRight
  <2>2. Shown(base, m, rows) = AddOutput(base, t, text)
    BY <1>16, <2>1
  <2> QED BY <1>9, <2>2
<1>18. \A k : Drawn(k, rows) /\ Says(k, t) => TaskTold(k, Shown(k, m, rows), t)
  BY <1>16
<1>19. dumping' \subseteq Failed'
  BY <1>1
<1> QED BY <1>1, <1>6, <1>11, <1>13, <1>14, <1>17, <1>18, <1>19, BroadcastKeeps

LEMMA EndKeeps ==
  ASSUME DInv, NEW t \in Tasks, End(t)
  PROVE  DInv'
<1>1. /\ joining = None /\ UNCHANGED NotTheDrivers /\ dumping' = {} /\ ops' \in 0 .. MaxOps
      /\ rows \in Nat /\ TypeOK /\ MuxIsRight
  BY HandlerParts DEF End
<1>2. PICK m : m = Message(t, "DELETED", <<>>)
  OBVIOUS
<1>3. m \in Messages /\ Broadcast(m)
  <2>1. "DELETED" \in TaskStates \cup {"UNCHANGED", "DELETED"} /\ <<>> \in Seq(Lines)
    OBVIOUS
  <2> QED BY <1>2, <2>1, MessageParts DEF End
<1>4. /\ action \in [Tasks -> {"none", "pending", "running", "ok", "failed"}]
      /\ full \in [Tasks -> Seq(Lines)]
      /\ mux \in [Tasks -> [st : TaskStates \cup {"none"}, out : Seq(Lines)]]
  BY <1>1 DEF TypeOK
<1>5. /\ action' = [action EXCEPT ![t] = "none"] /\ full' = [full EXCEPT ![t] = <<>>]
      /\ mux' = [mux EXCEPT ![t] = [st |-> "none", out |-> <<>>]]
      /\ base' = EndConsoleTask(base, t, rows)
  BY DEF End
<1>6. action'[t] = "none" /\ full'[t] = <<>> /\ mux'[t] = [st |-> "none", out |-> <<>>]
      /\ \A u \in Tasks \ {t} : mux'[u] = mux[u] /\ full'[u] = full[u] /\ action'[u] = action[u]
  BY <1>4, <1>5
<1>7. DriverTypes'
  <2>1. <<>> \in Seq(Lines)
    OBVIOUS
  <2>2. [st |-> "none", out |-> <<>>] \in [st : TaskStates \cup {"none"}, out : Seq(Lines)]
    BY <2>1
  <2>3. TaskStep /\ Open' = Open
    BY DEF End, TaskStep, HandlerStep, connVars, Open
  <2>4. /\ todo' \in [Clients -> Seq(Messages)]
        /\ \A c \in Clients : todo'[c] # <<>> => c \in Open'
    BY <1>3, <2>3, BroadcastTypes
  <2>5. action' \in [Tasks -> {"none", "pending", "running", "ok", "failed"}]
    BY <1>4, <1>5
  <2>6. full' \in [Tasks -> Seq(Lines)]
    BY <1>4, <1>5, <2>1
  <2>7. mux' \in [Tasks -> [st : TaskStates \cup {"none"}, out : Seq(Lines)]]
    BY <1>4, <1>5, <2>2
  <2> QED BY <1>1, <2>4, <2>5, <2>6, <2>7 DEF DriverTypes
<1>8. MuxHasTask(t)'
  <2>1. OutputLimit \in Nat \ {0} /\ Len(<<>>) = 0
    BY DashboardsAssumption
  <2> QED BY <1>6, <2>1 DEF MuxHasTask, MuxHasOutput
<1>9. ASSUME NEW k, Drawn(k, rows) PROVE TaskTold(k, Shown(k, m, rows), t)
  <2>1. PICK height \in Nat : height = rows
    BY <1>1
  <2>2. PICK d : d = EndConsoleTask(k, t, height)
    OBVIOUS
  <2>3. Shown(k, m, height) = d
    BY <1>2, <2>2, ShownDeleted
  <2>4. /\ Drawn(d, height) /\ OnlyOf(k, d, t)
        /\ d.st[t] = "none" /\ d.out[t] = <<>> /\ TextOf(d, t) = <<>>
    BY <1>9, <2>1, <2>2, Ended
  <2>5. Says(d, t)'
    BY <1>6, <2>4 DEF Says
  <2>6. AllOrMarked(TextOf(d, t), full'[t])
    BY <1>6, <2>4, AllIsAll
  <2>7. TaskTold(k, d, t)
    BY <1>6, <2>1, <2>4, <2>5, <2>6 DEF TaskTold, SaysNext, Says
  <2> QED BY <2>1, <2>3, <2>7
<1>10. base' = Shown(base, m, rows)
  <2>1. PICK k, height : k = base /\ height = rows
    OBVIOUS
  <2>2. Shown(k, m, height) = EndConsoleTask(k, t, height)
    BY <1>2, ShownDeleted
  <2> QED BY <1>5, <2>1, <2>2
<1>11. dumping' \subseteq Failed'
  BY <1>1
<1>12. \A k : Drawn(k, rows) /\ Says(k, t) => TaskTold(k, Shown(k, m, rows), t)
  BY <1>9
<1> QED BY <1>1, <1>3, <1>6, <1>7, <1>8, <1>10, <1>11, <1>12, BroadcastKeeps

----------------------------------------------------------------------------
(* Attaching a task.                                                       *)

LEMMA ShownAppended ==
  ASSUME NEW k, NEW p \in Seq(Messages), NEW q \in Seq(Messages), NEW m \in Messages, NEW height
  PROVE  ShownAll(k, p \o Append(q, m), height) = Shown(ShownAll(k, p \o q, height), m, height)
<1>1. p \o Append(q, m) = Append(p \o q, m)
  BY ConcatAppended
<1>2. PICK ms \in Seq(Messages) : ms = p \o q
  <2>1. p \o q \in Seq(Messages)
    OBVIOUS
  <2> QED BY <2>1
<1>3. ShownAll(k, Append(ms, m), height) = Shown(ShownAll(k, ms, height), m, height)
  BY ShownLast
<1> QED BY <1>1, <1>2, <1>3

\* A task that was attached while it runs keeps what was passed on.
LEMMA Resumed ==
  ASSUME NEW k, NEW height \in Nat, Drawn(k, height), NEW t \in Tasks,
         k.st[t] = "PENDING", k.shown[t] = <<>>, NEW d, d = SetState(k, t, "RUNNING", height)
  PROVE  /\ Drawn(d, height) /\ OnlyOf(k, d, t)
         /\ d.st[t] = "RUNNING" /\ TextOf(d, t) = TextOf(k, t)
<1>1. "RUNNING" \in TaskStates
  BY DEF TaskStates
<1>2. Drawn(d, height) /\ d.st = [k.st EXCEPT ![t] = "RUNNING"] /\ TextsAfter(k, d, t, "RUNNING")
  BY <1>1, SetStateDraws
<1>3. k.st \in [Tasks -> TaskStates \cup {"none"}]
  BY Texts
<1> QED BY <1>2, <1>3 DEF OnlyOf, TextOf, TextsAfter

LEMMA OnlyOfTwice ==
  ASSUME NEW k, NEW d, NEW e, NEW t, OnlyOf(k, d, t), OnlyOf(d, e, t)
  PROVE  OnlyOf(k, e, t)
BY DEF OnlyOf

\* The messages that attach a task, and what a console has become by them.
Attaches(q, t, st, out) ==
  q = <<Message(t, "PENDING", <<>>)>>
      \o (IF out # <<>> THEN <<Message(t, "UNCHANGED", out)>> ELSE <<>>)
      \o (IF st # "PENDING" THEN <<Message(t, st, <<>>)>> ELSE <<>>)

HasAttached(k, d, t, st, out, height) ==
  /\ Drawn(d, height) /\ OnlyOf(k, d, t)
  /\ d.st[t] = st /\ (st \in Final \cup {"PENDING"} => d.out[t] = <<>>)
  /\ TextOf(d, t) = out

\* A console that has no such task has, after attach(), what the mux has of it.
LEMMA AttachShows ==
  ASSUME NEW v, NEW p \in Seq(Messages), NEW height \in Nat, NEW t \in Tasks,
         NEW st \in TaskStates, NEW out \in Seq(Lines), st = "PENDING" => out = <<>>,
         NEW k, k = ShownAll(v, p, height), Drawn(k, height), k.st[t] = "none",
         NEW q, Attaches(q, t, st, out)
  PROVE  HasAttached(k, ShownAll(v, p \o q, height), t, st, out, height)
<1>1. PICK a, b, c : /\ a = Message(t, "PENDING", <<>>) /\ b = Message(t, "UNCHANGED", out)
                     /\ c = Message(t, st, <<>>)
  OBVIOUS
<1>2. a \in Messages /\ b \in Messages /\ c \in Messages
  <2>1. <<>> \in Seq(Lines)
    OBVIOUS
  <2>2. "PENDING" \in TaskStates \cup {"UNCHANGED", "DELETED"}
    BY DEF TaskStates
  <2>3. "UNCHANGED" \in TaskStates \cup {"UNCHANGED", "DELETED"} /\ st \in TaskStates \cup {"UNCHANGED", "DELETED"}
    OBVIOUS
  <2>4. a \in Messages
    BY <1>1, <2>1, <2>2, MessageParts
  <2>5. b \in Messages
    BY <1>1, <2>3, MessageParts
  <2>6. c \in Messages
    BY <1>1, <2>1, <2>3, MessageParts
  <2> QED BY <2>4, <2>5, <2>6
\* The task is made,
<1>3. PICK q0 \in Seq(Messages) : q0 = <<>>
  <2>1. <<>> \in Seq(Messages)
    OBVIOUS
  <2> QED BY <2>1
<1>4. PICK q1 \in Seq(Messages) : q1 = Append(q0, a)
  <2>1. Append(q0, a) \in Seq(Messages)
    BY <1>2
  <2> QED BY <2>1
<1>5. q1 = <<a>>
  BY <1>3, <1>4
<1>6. PICK k1 : k1 = ShownAll(v, p \o q1, height)
  OBVIOUS
<1>7. /\ Drawn(k1, height) /\ OnlyOf(k, k1, t)
      /\ k1.st[t] = "PENDING" /\ k1.out[t] = <<>> /\ k1.shown[t] = <<>> /\ TextOf(k1, t) = <<>>
  <2>1. p \o q0 = p
    BY <1>3, ConcatEmpty
  <2>2. k1 = Shown(k, a, height)
    <3>1. ShownAll(v, p \o Append(q0, a), height) = Shown(ShownAll(v, p \o q0, height), a, height)
      BY <1>2, ShownAppended
    <3> QED BY <1>4, <1>6, <2>1, <3>1
  <2>3. Shown(k, a, height) = BeginConsoleTask(k, t)
    BY <1>1, ShownPending
  <2>4. k1 = BeginConsoleTask(k, t)
    BY <2>2, <2>3
  <2>5. /\ Drawn(k1, height) /\ OnlyOf(k, k1, t)
        /\ k1.st[t] = "PENDING" /\ k1.out[t] = <<>> /\ TextOf(k1, t) = <<>>
    BY <2>4, Begun
  <2>6. k1.shown[t] \in Seq(Lines)
    BY <2>5, Texts
  <2>7. k1.shown[t] \o <<>> = k1.shown[t]
    BY <2>6, ConcatEmpty
  <2> QED BY <2>5, <2>7 DEF TextOf
\* gets what it has printed,
<1>8. PICK q2 : q2 = q1 \o (IF out # <<>> THEN <<b>> ELSE <<>>)
  OBVIOUS
<1>9. PICK k2 : k2 = ShownAll(v, p \o q2, height)
  OBVIOUS
<1>10. /\ q2 \in Seq(Messages) /\ Drawn(k2, height) /\ OnlyOf(k, k2, t)
       /\ k2.st[t] = "PENDING" /\ k2.out[t] = out /\ k2.shown[t] = <<>> /\ TextOf(k2, t) = out
  <2>1. <<>> \o out = out
    BY ConcatEmpty
  <2>2. CASE out = <<>>
    <3>1. q2 = q1
      <4>1. q1 \o <<>> = q1
        BY ConcatEmpty
      <4> QED BY <1>8, <2>2, <4>1
    <3> QED BY <1>6, <1>7, <1>9, <2>2, <3>1
  <2>3. CASE out # <<>>
    <3>1. q2 = Append(q1, b)
      <4>1. q1 \o <<b>> = Append(q1, b)
        BY <1>2, ConcatAppended
      <4> QED BY <1>8, <2>3, <4>1
    <3>2. q2 \in Seq(Messages)
      BY <1>2, <3>1
    <3>3. k2 = Shown(k1, b, height)
      BY <1>2, <1>6, <1>9, <3>1, ShownAppended
    <3>4. Shown(k1, b, height) = AddOutput(k1, t, out)
      BY <1>1, <1>7, ShownLog
    <3>5. LET d == AddOutput(k1, t, out)
          IN /\ Drawn(d, height) /\ OnlyOf(k1, d, t)
             /\ d.st[t] = k1.st[t] /\ d.out[t] = k1.out[t] \o out
             /\ d.shown[t] = k1.shown[t]
      BY <1>7, Logged
    <3>6. /\ Drawn(k2, height) /\ OnlyOf(k1, k2, t)
          /\ k2.st[t] = "PENDING" /\ k2.out[t] = out /\ k2.shown[t] = <<>>
      BY <1>7, <2>1, <3>3, <3>4, <3>5
    <3> QED BY <1>7, <2>1, <3>2, <3>6, OnlyOfTwice DEF TextOf
  <2> QED BY <2>2, <2>3
\* and comes to its state.
<1>11. q = q2 \o (IF st # "PENDING" THEN <<c>> ELSE <<>>)
  BY <1>1, <1>5, <1>8 DEF Attaches
<1>12. CASE st = "PENDING"
  <2>1. q = q2
    <3>1. q2 \o <<>> = q2
      BY <1>10, ConcatEmpty
    <3> QED BY <1>11, <1>12, <3>1
  <2> QED BY <1>9, <1>10, <1>12, <2>1 DEF HasAttached
<1>13. CASE st # "PENDING"
  <2>1. q = Append(q2, c)
    <3>1. q2 \o <<c>> = Append(q2, c)
      BY <1>2, <1>10, ConcatAppended
    <3> QED BY <1>11, <1>13, <3>1
  <2>3. PICK k3 : k3 = ShownAll(v, p \o q, height)
    OBVIOUS
  <2>4. k3 = Shown(k2, c, height)
    BY <1>2, <1>9, <1>10, <2>1, <2>3, ShownAppended
  <2>5. k2 \in Console(Lines) /\ k2.st[t] # "none"
    BY <1>10 DEF Drawn
  <2>6. Shown(k2, c, height) = SetState(k2, t, st, height)
    BY <1>1, <2>5, ShownState
  <2>7. k3 = SetState(k2, t, st, height)
    BY <2>4, <2>6
  <2>8. /\ Drawn(k3, height) /\ OnlyOf(k2, k3, t) /\ k3.st[t] = st
        /\ (st \in Final \cup {"PENDING"} => k3.out[t] = <<>>) /\ TextOf(k3, t) = out
    <3>1. CASE st = "RUNNING"
      <4>1. k3 = SetState(k2, t, "RUNNING", height)
        BY <2>7, <3>1
      <4>2. /\ Drawn(k3, height) /\ OnlyOf(k2, k3, t)
            /\ k3.st[t] = "RUNNING" /\ TextOf(k3, t) = TextOf(k2, t)
        BY <1>10, <4>1, Resumed
      <4> QED BY <1>10, <3>1, <4>2 DEF Final
    <3>2. CASE st # "RUNNING"
      <4>1. st \in {"DONE", "FAILED", "BLOCKED"}
        BY <1>13, <3>2 DEF TaskStates
      <4>2. /\ Drawn(k3, height) /\ OnlyOf(k2, k3, t)
            /\ k3.st[t] = st /\ (st \in Final => k3.out[t] = <<>>) /\ TextOf(k3, t) = TextOf(k2, t)
        BY <1>10, <2>7, <4>1, Stopped
      <4> QED BY <1>10, <1>13, <4>2
    <3> QED BY <3>1, <3>2
  <2>9. OnlyOf(k, k3, t)
    BY <1>10, <2>8, OnlyOfTwice
  <2> QED BY <2>3, <2>8, <2>9 DEF HasAttached
<1> QED BY <1>12, <1>13

----------------------------------------------------------------------------
(* Steps of the connections.                                               *)

DriverSame == UNCHANGED <<action, full, mux, base, dumping, ops, rows>>

\* The types of what steps of connections and clients change.
ConnectionTypes ==
  /\ phase \in [Clients -> {"away", "backlog", "open"}]
  /\ stream \in [Clients -> BOOLEAN] /\ registered \in [Clients -> BOOLEAN]
  /\ fired \in [Clients -> BOOLEAN] /\ gone \in [Clients -> BOOLEAN]
  /\ joining \in Clients \cup {None} /\ attaching \subseteq Tasks
  /\ todo \in [Clients -> Seq(Messages)]
  /\ \A c \in Clients : todo[c] # <<>> => c \in Open
  /\ pipe \in [Clients -> Seq(Messages)]
  /\ \A c \in Clients : Len(pipe[c]) <= PipeCapacity
  /\ acceptOp \in {"waiting", "broken"}

LEMMA TypesOfConnections ==
  ASSUME TypeOK
  PROVE  ConnectionTypes
BY DEF TypeOK, ConnectionTypes

\* What has to be shown of a step of a connection or a client.
LEMMA ConnectionStepKeeps ==
  ASSUME DInv, DriverSame, ConnectionTypes', ViewsAreDrawn', ConnectionsAreRight',
         view' \in [Clients -> Console(Lines)],
         \A c \in Clients : c \in Connected' =>
           \E k : k = Eventually(c)' /\ Follows(k, Told(c)')
  PROVE  DInv'
<1>0. UNCHANGED <<action, full, mux, base, dumping, ops, rows>>
  BY DEF DriverSame
<1>1. TypeOK'
  <2>1. TypeOK
    BY DEF DInv
  <2>2. \A f \in {stream', registered', fired', gone'} : f \in [Clients -> BOOLEAN]
    BY DEF ConnectionTypes
  <2> QED BY <1>0, <2>1, <2>2 DEF TypeOK, ConnectionTypes
<1>2. MuxIsRight'
  BY <1>0 DEF DInv, MuxIsRight, MuxHasTask, MuxHasOutput
<1>3. BaseIsRight'
  BY <1>0 DEF DInv, BaseIsRight, Says
<1>4. ClientsFollow'
  <2>1. ASSUME NEW c \in Connected' PROVE Follows(Eventually(c), Told(c))'
    <3>1. c \in Clients
      BY <2>1 DEF Connected, Open
    <3>2. PICK k : k = Eventually(c)' /\ Follows(k, Told(c)')
      BY <2>1, <3>1
    <3>3. PICK told : told = Told(c)'
      OBVIOUS
    <3>4. Follows(k, told)
      BY <3>2, <3>3
    <3>5. Follows(k, told)'
      BY <1>0, <3>4 DEF Follows, Says
    <3> QED BY <3>2, <3>3, <3>5 DEF Follows, Says
  <2> QED BY <2>1 DEF ClientsFollow
<1> QED BY <1>1, <1>2, <1>3, <1>4 DEF DInv

\* A client to which nothing happens.
LEMMA UntouchedFollows ==
  ASSUME DInv, DriverSame, NEW c \in Connected, view'[c] = view[c],
         pipe'[c] \o todo'[c] = pipe[c] \o todo[c], Told(c)' = Told(c)
  PROVE  \E k : k = Eventually(c)' /\ Follows(k, Told(c)')
<1>1. Eventually(c)' = Eventually(c)
  BY DEF Eventually, DriverSame
<1>2. Follows(Eventually(c), Told(c))
  BY DEF DInv, ClientsFollow
<1> QED BY <1>1, <1>2

\* Each step of them keeps the invariant.
LEMMA AcceptFailsKeeps ==
  ASSUME DInv, AcceptFails
  PROVE  DInv'
<1>1. /\ DriverSame
      /\ UNCHANGED <<gone, view, joins, phase, stream, registered, fired, joining, attaching, todo, pipe>>
      /\ acceptOp' = "broken"
  BY DEF AcceptFails, DriverSame, driverVars, clientVars, joinVars
<1>2. TypeOK /\ ConnectionTypes /\ ViewsAreDrawn /\ ConnectionsAreRight
  BY TypesOfConnections DEF DInv
<1>3. ConnectionTypes'
  BY <1>1, <1>2 DEF ConnectionTypes, Open
<1>4. ViewsAreDrawn' /\ view' \in [Clients -> Console(Lines)]
  BY <1>1, <1>2 DEF ViewsAreDrawn, TypeOK, DriverSame
<1>5. ConnectionsAreRight'
  BY <1>1, <1>2 DEF ConnectionsAreRight, DriverSame, Failed
<1>6. ASSUME NEW c \in Clients, c \in Connected'
      PROVE  \E k : k = Eventually(c)' /\ Follows(k, Told(c)')
  <2>1. c \in Connected /\ Told(c)' = Told(c)
    BY <1>1, <1>6 DEF Connected, Open, Told
  <2> QED BY <1>1, <2>1, UntouchedFollows
<1> QED BY <1>1, <1>3, <1>4, <1>5, <1>6, ConnectionStepKeeps

LEMMA JoinKeeps ==
  ASSUME DInv, Join
  PROVE  DInv'
<1>1. /\ DriverSame /\ joining # None /\ attaching = {} /\ attaching' = {} /\ joining' = None
      /\ registered' = [registered EXCEPT ![joining] = TRUE]
      /\ UNCHANGED <<gone, view, joins, phase, stream, fired, todo, pipe, acceptOp>>
  BY DEF Join, DriverSame, driverVars, clientVars
<1>2. TypeOK /\ ConnectionTypes /\ ViewsAreDrawn /\ ConnectionsAreRight
  BY TypesOfConnections DEF DInv
<1>3. ConnectionTypes'
  BY <1>1, <1>2 DEF ConnectionTypes, Open
<1>4. ViewsAreDrawn' /\ view' \in [Clients -> Console(Lines)]
  BY <1>1, <1>2 DEF ViewsAreDrawn, TypeOK, DriverSame
<1>5. ConnectionsAreRight'
  <2>1. joining \in Clients
    BY <1>1, <1>2 DEF ConnectionTypes
  <2>2. ASSUME NEW c \in Clients, phase[c] = "open" PROVE registered'[c]
    BY <1>1, <1>2, <2>1, <2>2 DEF ConnectionsAreRight, ConnectionTypes
  <2> QED BY <1>1, <1>2, <2>2 DEF ConnectionsAreRight, DriverSame, Failed
<1>6. ASSUME NEW c \in Clients, c \in Connected'
      PROVE  \E k : k = Eventually(c)' /\ Follows(k, Told(c)')
  <2>1. c \in Connected
    BY <1>1, <1>6 DEF Connected, Open
  <2>2. Told(c)' = Told(c)
    BY <1>1 DEF Told
  <2> QED BY <1>1, <2>1, <2>2, UntouchedFollows
<1> QED BY <1>1, <1>3, <1>4, <1>5, <1>6, ConnectionStepKeeps

\* What the three ways to write a message have in common.
LEMMA WriteNextParts ==
  ASSUME DInv, NEW c \in Clients, WriteNext(c)
  PROVE  /\ DriverSame /\ todo[c] # <<>> /\ todo' = [todo EXCEPT ![c] = Tail(todo[c])]
         /\ UNCHANGED <<gone, view, joins, phase, registered, joining, attaching, acceptOp>>
         /\ todo' \in [Clients -> Seq(Messages)]
         /\ \A x \in Clients : todo'[x] # <<>> => x \in Open'
         /\ c \in Open /\ Open' = Open
         /\ TypeOK /\ ConnectionTypes /\ ViewsAreDrawn /\ ConnectionsAreRight
         /\ ViewsAreDrawn' /\ view' \in [Clients -> Console(Lines)]
<1>1. /\ DriverSame /\ todo[c] # <<>> /\ todo' = [todo EXCEPT ![c] = Tail(todo[c])]
      /\ UNCHANGED <<gone, view, joins, phase, registered, joining, attaching, acceptOp>>
  BY DEF WriteNext, DriverSame, driverVars, clientVars, joinVars
<1>2. TypeOK /\ ConnectionTypes /\ ViewsAreDrawn /\ ConnectionsAreRight
  BY TypesOfConnections DEF DInv
<1>3. Open' = Open
  BY <1>1 DEF Open
<1>4. Tail(todo[c]) \in Seq(Messages)
  <2>1. todo[c] \in Seq(Messages)
    BY <1>2 DEF ConnectionTypes
  <2> QED BY <1>1, <2>1
<1>5. todo' \in [Clients -> Seq(Messages)]
  BY <1>1, <1>2, <1>4 DEF ConnectionTypes
<1>6. \A x \in Clients : todo'[x] # <<>> => x \in Open'
  BY <1>1, <1>2, <1>3 DEF ConnectionTypes
<1>7. ViewsAreDrawn' /\ view' \in [Clients -> Console(Lines)]
  BY <1>1, <1>2 DEF ViewsAreDrawn, TypeOK, DriverSame
<1> QED BY <1>1, <1>2, <1>3, <1>5, <1>6, <1>7 DEF ConnectionTypes

LEMMA DropKeeps ==
  ASSUME DInv, NEW c \in Clients, Drop(c)
  PROVE  DInv'
<1>1. WriteNext(c) /\ ~stream[c] /\ UNCHANGED <<stream, fired, pipe>>
  BY DEF Drop
<1>2. /\ DriverSame /\ todo[c] # <<>> /\ todo' = [todo EXCEPT ![c] = Tail(todo[c])]
      /\ UNCHANGED <<gone, view, joins, phase, registered, joining, attaching, acceptOp>>
      /\ todo' \in [Clients -> Seq(Messages)]
      /\ \A x \in Clients : todo'[x] # <<>> => x \in Open'
      /\ c \in Open /\ Open' = Open
      /\ TypeOK /\ ConnectionTypes /\ ViewsAreDrawn /\ ConnectionsAreRight
      /\ ViewsAreDrawn' /\ view' \in [Clients -> Console(Lines)]
  BY <1>1, WriteNextParts
<1>3. ConnectionTypes'
  BY <1>1, <1>2 DEF ConnectionTypes
<1>4. ConnectionsAreRight'
  BY <1>1, <1>2 DEF ConnectionsAreRight, DriverSame, Failed
<1>5. ASSUME NEW x \in Clients, x \in Connected'
      PROVE  \E k : k = Eventually(x)' /\ Follows(k, Told(x)')
  <2>1. x \in Connected /\ x # c /\ Told(x)' = Told(x)
    BY <1>1, <1>2, <1>5 DEF Connected, Told
  <2>2. todo'[x] = todo[x]
    BY <1>2, <2>1 DEF ConnectionTypes
  <2> QED BY <1>1, <1>2, <2>1, <2>2, UntouchedFollows
<1> QED BY <1>2, <1>3, <1>4, <1>5, ConnectionStepKeeps

LEMMA WriteFailsKeeps ==
  ASSUME DInv, NEW c \in Clients, WriteFails(c)
  PROVE  DInv'
<1>1. /\ WriteNext(c) /\ gone[c] /\ pipe' = pipe
      /\ stream' = [stream EXCEPT ![c] = FALSE] /\ fired' = [fired EXCEPT ![c] = registered[c]]
  BY DEF WriteFails
<1>2. /\ DriverSame /\ todo[c] # <<>> /\ todo' = [todo EXCEPT ![c] = Tail(todo[c])]
      /\ UNCHANGED <<gone, view, joins, phase, registered, joining, attaching, acceptOp>>
      /\ todo' \in [Clients -> Seq(Messages)]
      /\ \A x \in Clients : todo'[x] # <<>> => x \in Open'
      /\ c \in Open /\ Open' = Open
      /\ TypeOK /\ ConnectionTypes /\ ViewsAreDrawn /\ ConnectionsAreRight
      /\ ViewsAreDrawn' /\ view' \in [Clients -> Console(Lines)]
  BY <1>1, WriteNextParts
<1>3. ConnectionTypes'
  BY <1>1, <1>2 DEF ConnectionTypes
<1>4. ConnectionsAreRight'
  <2>1. phase[c] = "open"
    BY <1>2 DEF Open
  <2>2. \A x \in Clients : fired'[x] => phase'[x] = "open" /\ gone'[x]
    BY <1>1, <1>2, <2>1 DEF ConnectionsAreRight, ConnectionTypes
  <2> QED BY <1>1, <1>2, <2>2 DEF ConnectionsAreRight, DriverSame, Failed
<1>5. ASSUME NEW x \in Clients, x \in Connected'
      PROVE  \E k : k = Eventually(x)' /\ Follows(k, Told(x)')
  <2>1. x \in Connected /\ x # c /\ Told(x)' = Told(x)
    BY <1>1, <1>2, <1>5 DEF Connected, Told, ConnectionTypes
  <2>2. todo'[x] = todo[x]
    BY <1>2, <2>1 DEF ConnectionTypes
  <2> QED BY <1>1, <1>2, <2>1, <2>2, UntouchedFollows
<1> QED BY <1>2, <1>3, <1>4, <1>5, ConnectionStepKeeps

LEMMA WriteKeeps ==
  ASSUME DInv, NEW c \in Clients, Write(c)
  PROVE  DInv'
<1>1. /\ WriteNext(c) /\ (gone[c] \/ Len(pipe[c]) < PipeCapacity)
      /\ pipe' = IF gone[c] THEN pipe ELSE [pipe EXCEPT ![c] = Append(pipe[c], Head(todo[c]))]
      /\ UNCHANGED <<stream, fired>>
  BY DEF Write
<1>2. /\ DriverSame /\ todo[c] # <<>> /\ todo' = [todo EXCEPT ![c] = Tail(todo[c])]
      /\ UNCHANGED <<gone, view, joins, phase, registered, joining, attaching, acceptOp>>
      /\ todo' \in [Clients -> Seq(Messages)]
      /\ \A x \in Clients : todo'[x] # <<>> => x \in Open'
      /\ c \in Open /\ Open' = Open
      /\ TypeOK /\ ConnectionTypes /\ ViewsAreDrawn /\ ConnectionsAreRight
      /\ ViewsAreDrawn' /\ view' \in [Clients -> Console(Lines)]
  BY <1>1, WriteNextParts
<1>3. PICK p \in Seq(Messages), q \in Seq(Messages) : p = pipe[c] /\ q = todo[c]
  BY <1>2 DEF ConnectionTypes
<1>4. Append(p, Head(q)) \in Seq(Messages) /\ Len(Append(p, Head(q))) = Len(p) + 1 /\ Len(p) \in Nat
  <2>1. Head(q) \in Messages
    BY <1>2, <1>3
  <2> QED BY <2>1
<1>5. pipe' \in [Clients -> Seq(Messages)] /\ \A x \in Clients : Len(pipe'[x]) <= PipeCapacity
  <2>1. PipeCapacity \in Nat
    BY DashboardsAssumption
  <2>2. CASE gone[c]
    BY <1>1, <1>2, <2>2 DEF ConnectionTypes
  <2>3. CASE ~gone[c]
    <3>1. pipe' = [pipe EXCEPT ![c] = Append(p, Head(q))] /\ Len(p) < PipeCapacity
      BY <1>1, <1>3, <2>3
    <3>2. pipe' \in [Clients -> Seq(Messages)]
      BY <1>2, <1>4, <3>1 DEF ConnectionTypes
    <3>3. ASSUME NEW x \in Clients PROVE Len(pipe'[x]) <= PipeCapacity
      <4>1. CASE x = c
        <5>1. pipe'[x] = Append(p, Head(q))
          BY <1>2, <3>1, <4>1 DEF ConnectionTypes
        <5> QED BY <1>4, <2>1, <3>1, <5>1
      <4>2. CASE x # c
        BY <1>2, <3>1, <4>2 DEF ConnectionTypes
      <4> QED BY <4>1, <4>2
    <3> QED BY <3>2, <3>3
  <2> QED BY <2>2, <2>3
<1>6. ConnectionTypes'
  BY <1>1, <1>2, <1>5 DEF ConnectionTypes
<1>7. ConnectionsAreRight'
  <2>1. ASSUME NEW x \in Clients, phase[x] # "open" \/ gone[x] PROVE pipe'[x] = <<>>
    <3>1. pipe[x] = <<>>
      BY <1>2, <2>1 DEF ConnectionsAreRight
    <3>2. x = c => gone[c]
      BY <1>2, <2>1 DEF Open
    <3> QED BY <1>1, <1>2, <3>1, <3>2 DEF ConnectionTypes
  <2> QED BY <1>1, <1>2, <2>1 DEF ConnectionsAreRight, DriverSame, Failed
<1>8. ASSUME NEW x \in Clients, x \in Connected'
      PROVE  \E k : k = Eventually(x)' /\ Follows(k, Told(x)')
  <2>1. x \in Connected /\ Told(x)' = Told(x)
    BY <1>1, <1>2, <1>8 DEF Connected, Told
  <2>2. pipe'[x] \o todo'[x] = pipe[x] \o todo[x]
    <3>1. CASE x = c
      <4>1. ~gone[c]
        BY <2>1, <3>1 DEF Connected
      <4>2. pipe'[c] = Append(p, Head(q)) /\ todo'[c] = Tail(q)
        BY <1>1, <1>2, <1>3, <4>1 DEF ConnectionTypes
      <4>3. Append(p, Head(q)) \o Tail(q) = p \o q
        BY <1>2, <1>3, ConcatMoved
      <4> QED BY <1>3, <3>1, <4>2, <4>3
    <3>2. CASE x # c
      BY <1>1, <1>2, <3>2 DEF ConnectionTypes
    <3> QED BY <3>1, <3>2
  <2> QED BY <1>2, <2>1, <2>2, UntouchedFollows
<1> QED BY <1>2, <1>6, <1>7, <1>8, ConnectionStepKeeps

LEMMA DisconnectedKeeps ==
  ASSUME DInv, NEW c \in Clients, Disconnected(c)
  PROVE  DInv'
<1>1. /\ DriverSame /\ Written /\ joining = None /\ fired[c]
      /\ phase' = [phase EXCEPT ![c] = "away"] /\ registered' = [registered EXCEPT ![c] = FALSE]
      /\ fired' = [fired EXCEPT ![c] = FALSE]
      /\ UNCHANGED <<gone, view, joins, stream, joining, attaching, acceptOp, todo, pipe>>
  BY DEF Disconnected, Idle, DriverSame, driverVars, clientVars, joinVars
<1>2. TypeOK /\ ConnectionTypes /\ ViewsAreDrawn /\ ConnectionsAreRight
  BY TypesOfConnections DEF DInv
<1>3. ConnectionTypes'
  <2>1. \A x \in Clients : todo'[x] = <<>>
    BY <1>1 DEF Written
  <2> QED BY <1>1, <1>2, <2>1 DEF ConnectionTypes
<1>4. ViewsAreDrawn' /\ view' \in [Clients -> Console(Lines)]
  BY <1>1, <1>2 DEF ViewsAreDrawn, TypeOK, DriverSame
<1>5. ConnectionsAreRight'
  <2>1. gone[c]
    BY <1>1, <1>2 DEF ConnectionsAreRight
  <2>2. ASSUME NEW x \in Clients
        PROVE  /\ phase'[x] # "open" \/ gone'[x] => pipe'[x] = <<>> /\ view'[x] = NewConsole
               /\ fired'[x] => phase'[x] = "open" /\ gone'[x]
               /\ phase'[x] = "open" /\ x # joining' => registered'[x]
    <3>1. CASE x = c
      BY <1>1, <1>2, <2>1, <3>1 DEF ConnectionsAreRight, ConnectionTypes
    <3>2. CASE x # c
      BY <1>1, <1>2, <3>2 DEF ConnectionsAreRight, ConnectionTypes
    <3> QED BY <3>1, <3>2
  <2> QED BY <1>1, <1>2, <2>2 DEF ConnectionsAreRight, DriverSame, Failed
<1>6. ASSUME NEW x \in Clients, x \in Connected'
      PROVE  \E k : k = Eventually(x)' /\ Follows(k, Told(x)')
  <2>1. x \in Connected /\ Told(x)' = Told(x)
    BY <1>1, <1>2, <1>6 DEF Connected, Open, Told, ConnectionTypes
  <2> QED BY <1>1, <2>1, UntouchedFollows
<1> QED BY <1>1, <1>3, <1>4, <1>5, <1>6, ConnectionStepKeeps

LEMMA ConnectKeeps ==
  ASSUME DInv, NEW c \in Clients, Connect(c)
  PROVE  DInv'
<1>1. /\ DriverSame /\ phase[c] = "away" /\ phase' = [phase EXCEPT ![c] = "backlog"]
      /\ gone' = [gone EXCEPT ![c] = FALSE]
      /\ UNCHANGED <<view, stream, registered, fired, joining, attaching, acceptOp, todo, pipe>>
  BY DEF Connect, DriverSame, driverVars, joinVars
<1>2. TypeOK /\ ConnectionTypes /\ ViewsAreDrawn /\ ConnectionsAreRight
  BY TypesOfConnections DEF DInv
<1>3. ConnectionTypes'
  <2>1. \A x \in Clients : todo'[x] # <<>> => x \in Open'
    BY <1>1, <1>2 DEF ConnectionTypes, Open
  <2> QED BY <1>1, <1>2, <2>1 DEF ConnectionTypes
<1>4. ViewsAreDrawn' /\ view' \in [Clients -> Console(Lines)]
  BY <1>1, <1>2 DEF ViewsAreDrawn, TypeOK, DriverSame
<1>5. ConnectionsAreRight'
  <2>1. ASSUME NEW x \in Clients
        PROVE  /\ phase'[x] # "open" \/ gone'[x] => pipe'[x] = <<>> /\ view'[x] = NewConsole
               /\ fired'[x] => phase'[x] = "open" /\ gone'[x]
               /\ phase'[x] = "open" /\ x # joining' => registered'[x]
    <3>1. CASE x = c
      BY <1>1, <1>2, <3>1 DEF ConnectionsAreRight, ConnectionTypes
    <3>2. CASE x # c
      BY <1>1, <1>2, <3>2 DEF ConnectionsAreRight, ConnectionTypes
    <3> QED BY <3>1, <3>2
  <2>2. joining' # None => phase'[joining'] = "open"
    BY <1>1, <1>2 DEF ConnectionsAreRight, ConnectionTypes
  <2> QED BY <1>1, <1>2, <2>1, <2>2 DEF ConnectionsAreRight, DriverSame, Failed
<1>6. ASSUME NEW x \in Clients, x \in Connected'
      PROVE  \E k : k = Eventually(x)' /\ Follows(k, Told(x)')
  <2>1. x \in Connected /\ Told(x)' = Told(x)
    BY <1>1, <1>2, <1>6 DEF Connected, Open, Told, ConnectionTypes
  <2> QED BY <1>1, <2>1, UntouchedFollows
<1> QED BY <1>1, <1>3, <1>4, <1>5, <1>6, ConnectionStepKeeps

LEMMA LeaveKeeps ==
  ASSUME DInv, NEW c \in Clients, Leave(c)
  PROVE  DInv'
<1>1. /\ DriverSame /\ gone' = [gone EXCEPT ![c] = TRUE] /\ pipe' = [pipe EXCEPT ![c] = <<>>]
      /\ view' = [view EXCEPT ![c] = NewConsole]
      /\ UNCHANGED <<phase, stream, registered, fired, joining, attaching, acceptOp, todo>>
  BY DEF Leave, DriverSame, driverVars, connVars, joinVars
<1>2. TypeOK /\ ConnectionTypes /\ ViewsAreDrawn /\ ConnectionsAreRight
  BY TypesOfConnections DEF DInv
<1>3. ConnectionTypes'
  <2>1. <<>> \in Seq(Messages) /\ Len(<<>>) = 0 /\ PipeCapacity \in Nat
    BY DashboardsAssumption
  <2>2. pipe' \in [Clients -> Seq(Messages)]
    BY <1>1, <1>2, <2>1 DEF ConnectionTypes
  <2>3. \A x \in Clients : Len(pipe'[x]) <= PipeCapacity
    <3>1. ASSUME NEW x \in Clients PROVE Len(pipe'[x]) <= PipeCapacity
      <4>1. CASE x = c
        BY <1>1, <1>2, <2>1, <4>1 DEF ConnectionTypes
      <4>2. CASE x # c
        BY <1>1, <1>2, <4>2 DEF ConnectionTypes
      <4> QED BY <4>1, <4>2
    <3> QED BY <3>1
  <2>4. \A x \in Clients : todo'[x] # <<>> => x \in Open'
    BY <1>1, <1>2 DEF ConnectionTypes, Open
  <2> QED BY <1>1, <1>2, <2>2, <2>3, <2>4 DEF ConnectionTypes
<1>4. ViewsAreDrawn' /\ view' \in [Clients -> Console(Lines)]
  <2>1. PICK height \in Nat : height = rows
    BY <1>2, DashboardsAssumption DEF TypeOK
  <2>2. Drawn(NewConsole, height)
    BY NewConsoleIsDrawn
  <2>3. view \in [Clients -> Console(Lines)] /\ rows' = rows
    BY <1>1, <1>2 DEF TypeOK, DriverSame
  <2>4. NewConsole \in Console(Lines)
    BY <2>2 DEF Drawn
  <2>5. view' \in [Clients -> Console(Lines)]
    BY <1>1, <2>3, <2>4
  <2>6. \A x \in Clients : view'[x] = IF x = c THEN NewConsole ELSE view[x]
    BY <1>1, <2>3
  <2>7. ViewsAreDrawn'
    BY <1>2, <2>1, <2>2, <2>3, <2>6 DEF ViewsAreDrawn
  <2> QED BY <2>5, <2>7
<1>5. ConnectionsAreRight'
  <2>0. view \in [Clients -> Console(Lines)]
    BY <1>2 DEF TypeOK
  <2>1. ASSUME NEW x \in Clients
        PROVE  /\ phase'[x] # "open" \/ gone'[x] => pipe'[x] = <<>> /\ view'[x] = NewConsole
               /\ fired'[x] => phase'[x] = "open" /\ gone'[x]
               /\ phase'[x] = "open" /\ x # joining' => registered'[x]
    <3>1. CASE x = c
      BY <1>1, <1>2, <2>0, <3>1 DEF ConnectionsAreRight, ConnectionTypes
    <3>2. CASE x # c
      BY <1>1, <1>2, <2>0, <3>2 DEF ConnectionsAreRight, ConnectionTypes
    <3> QED BY <3>1, <3>2
  <2> QED BY <1>1, <1>2, <2>1 DEF ConnectionsAreRight, DriverSame, Failed
<1>6. ASSUME NEW x \in Clients, x \in Connected'
      PROVE  \E k : k = Eventually(x)' /\ Follows(k, Told(x)')
  <2>1. x \in Connected /\ x # c /\ Told(x)' = Told(x)
    BY <1>1, <1>2, <1>6 DEF Connected, Open, Told, ConnectionTypes
  <2>2. pipe'[x] = pipe[x] /\ view'[x] = view[x] /\ todo'[x] = todo[x]
    BY <1>1, <1>2, <2>1 DEF ConnectionTypes, TypeOK
  <2> QED BY <1>1, <2>1, <2>2, UntouchedFollows
<1> QED BY <1>1, <1>3, <1>4, <1>5, <1>6, ConnectionStepKeeps

\* What is read is shown: the rest then shows the same as before.
LEMMA ReadKeeps ==
  ASSUME DInv, NEW c \in Clients, Read(c)
  PROVE  DInv'
<1>1. /\ DriverSame /\ ~gone[c] /\ pipe[c] # <<>> /\ pipe' = [pipe EXCEPT ![c] = Tail(pipe[c])]
      /\ view' = [view EXCEPT ![c] = Shown(view[c], Head(pipe[c]), rows)]
      /\ UNCHANGED <<gone, phase, stream, registered, fired, joining, attaching, acceptOp, todo>>
  BY DEF Read, DriverSame, driverVars, connVars, joinVars
<1>2. TypeOK /\ ConnectionTypes /\ ViewsAreDrawn /\ ConnectionsAreRight
  BY TypesOfConnections DEF DInv
<1>3. PICK p \in Seq(Messages), q \in Seq(Messages) : p = pipe[c] /\ q = todo[c]
  BY <1>2 DEF ConnectionTypes
<1>4. Head(p) \in Messages /\ Tail(p) \in Seq(Messages) /\ Len(Tail(p)) = Len(p) - 1 /\ Len(p) \in Nat
  BY <1>1, <1>3
<1>5. PICK height \in Nat : height = rows
  BY <1>2, DashboardsAssumption DEF TypeOK
<1>6. PICK m \in Messages : m = Head(p)
  BY <1>4
<1>k. PICK k : k = view[c]
  OBVIOUS
<1>d. PICK d : d = Shown(k, m, height)
  OBVIOUS
<1>7. Drawn(d, height)
  <2>1. Drawn(k, height)
    BY <1>2, <1>5, <1>6, <1>k, <1>d DEF ViewsAreDrawn
  <2>2. Drawn(Shown(k, m, height), height)
    BY <2>1, ShownDraws
  <2> QED BY <1>6, <1>k, <1>d, <2>2
<1>8. view \in [Clients -> Console(Lines)] /\ view' = [view EXCEPT ![c] = d]
  BY <1>1, <1>2, <1>3, <1>5, <1>6, <1>k, <1>d DEF TypeOK
<1>9. ConnectionTypes'
  <2>1. pipe' \in [Clients -> Seq(Messages)]
    BY <1>1, <1>2, <1>3, <1>4 DEF ConnectionTypes
  <2>2. \A x \in Clients : Len(pipe'[x]) <= PipeCapacity
    <3>1. ASSUME NEW x \in Clients PROVE Len(pipe'[x]) <= PipeCapacity
      <4>1. CASE x = c
        <5>1. pipe'[x] = Tail(p) /\ Len(p) <= PipeCapacity /\ PipeCapacity \in Nat
          BY <1>1, <1>2, <1>3, <4>1, DashboardsAssumption DEF ConnectionTypes
        <5> QED BY <1>4, <5>1
      <4>2. CASE x # c
        BY <1>1, <1>2, <4>2 DEF ConnectionTypes
      <4> QED BY <4>1, <4>2
    <3> QED BY <3>1
  <2>3. \A x \in Clients : todo'[x] # <<>> => x \in Open'
    BY <1>1, <1>2 DEF ConnectionTypes, Open
  <2> QED BY <1>1, <1>2, <2>1, <2>2, <2>3 DEF ConnectionTypes
<1>10. ViewsAreDrawn' /\ view' \in [Clients -> Console(Lines)]
  <2>1. d \in Console(Lines) /\ rows' = rows
    BY <1>1, <1>7 DEF Drawn, DriverSame
  <2>2. view' \in [Clients -> Console(Lines)]
    BY <1>8, <2>1
  <2>3. \A x \in Clients : view'[x] = IF x = c THEN d ELSE view[x]
    BY <1>8
  <2>4. ViewsAreDrawn'
    BY <1>2, <1>5, <1>7, <2>1, <2>3 DEF ViewsAreDrawn
  <2> QED BY <2>2, <2>4
<1>11. ConnectionsAreRight'
  <2>1. phase[c] = "open" /\ ~gone[c]
    BY <1>1, <1>2 DEF ConnectionsAreRight
  <2>2. ASSUME NEW x \in Clients
        PROVE  phase'[x] # "open" \/ gone'[x] => pipe'[x] = <<>> /\ view'[x] = NewConsole
    <3>1. CASE x = c
      BY <1>1, <2>1, <3>1
    <3>2. CASE x # c
      BY <1>1, <1>2, <1>8, <3>2 DEF ConnectionsAreRight, ConnectionTypes
    <3> QED BY <3>1, <3>2
  <2> QED BY <1>1, <1>2, <2>2 DEF ConnectionsAreRight, DriverSame, Failed
<1>12. ASSUME NEW x \in Clients, x \in Connected'
       PROVE  \E e : e = Eventually(x)' /\ Follows(e, Told(x)')
  <2>1. x \in Connected /\ Told(x)' = Told(x)
    BY <1>1, <1>12 DEF Connected, Open, Told
  <2>2. CASE x # c
    <3>1. pipe'[x] = pipe[x] /\ view'[x] = view[x] /\ todo'[x] = todo[x]
      BY <1>1, <1>2, <1>8, <2>2 DEF ConnectionTypes
    <3> QED BY <1>1, <2>1, <3>1, UntouchedFollows
  <2>3. CASE x = c
    <3>1. pipe'[x] = Tail(p) /\ view'[x] = d /\ todo'[x] = q /\ rows' = height
      BY <1>1, <1>2, <1>3, <1>5, <1>8, <2>3 DEF ConnectionTypes, DriverSame
    <3>2. p \o q # <<>> /\ Head(p \o q) = m /\ Tail(p \o q) = Tail(p) \o q
      BY <1>1, <1>3, <1>6, <1>k, <1>d, ConcatHead
    <3>3. PICK ms \in Seq(Messages) : ms = p \o q
      <4>1. p \o q \in Seq(Messages)
        OBVIOUS
      <4> QED BY <4>1
    <3>4. ShownAll(k, ms, height) = ShownAll(Shown(k, Head(ms), height), Tail(ms), height)
      BY <3>2, <3>3, ShownFirst
    <3>5. Eventually(x) = ShownAll(k, ms, height)
      BY <1>3, <1>5, <1>6, <1>k, <1>d, <2>3, <3>3 DEF Eventually
    <3>6. Eventually(x)' = ShownAll(d, Tail(ms), height)
      BY <3>1, <3>2, <3>3 DEF Eventually
    <3>7. Eventually(x)' = Eventually(x)
      BY <1>6, <1>k, <1>d, <3>2, <3>3, <3>4, <3>5, <3>6
    <3>8. Follows(Eventually(x), Told(x))
      BY <2>1 DEF DInv, ClientsFollow
    <3> QED BY <2>1, <3>7, <3>8
  <2> QED BY <2>2, <2>3
<1> QED BY <1>1, <1>9, <1>10, <1>11, <1>12, ConnectionStepKeeps

\* The header opens the connection and shows nothing.
LEMMA HeaderShowsNothing ==
  ASSUME NEW height
  PROVE  Header \in Messages /\ ShownAll(NewConsole, <<>> \o <<Header>>, height) = NewConsole
<1>1. Header \in Messages /\ Header.id = None
  <2>1. <<>> \in Seq(Lines)
    OBVIOUS
  <2> QED BY <2>1 DEF Header, Message, Messages
<1>2. PICK ms \in Seq(Messages) : ms = <<>>
  <2>1. <<>> \in Seq(Messages)
    OBVIOUS
  <2> QED BY <2>1
<1>3. PICK m \in Messages : m = Header
  BY <1>1
<1>4. PICK k : k = NewConsole
  OBVIOUS
<1>5. ms \o <<m>> = Append(ms, m)
  BY ConcatAppended
<1>6. ShownAll(k, Append(ms, m), height) = Shown(ShownAll(k, ms, height), m, height)
  BY ShownLast
<1>7. ShownAll(k, ms, height) = k
  BY <1>2, ShownNone
<1>8. Shown(k, m, height) = k
  BY <1>1, <1>3 DEF Shown
<1> QED BY <1>1, <1>2, <1>3, <1>4, <1>5, <1>6, <1>7, <1>8

\* A client that has just been accepted shows the tasks the mux has none of.
LEMMA AcceptKeeps ==
  ASSUME DInv, NEW c \in Clients, Accept(c)
  PROVE  DInv'
<1>1. /\ DriverSame /\ Written /\ joining = None /\ dumping = {} /\ phase[c] = "backlog"
      /\ phase' = [phase EXCEPT ![c] = "open"] /\ stream' = [stream EXCEPT ![c] = TRUE]
      /\ joining' = c /\ attaching' = {t \in Tasks : mux[t].st # "none"}
      /\ todo' = [todo EXCEPT ![c] = <<Header>>]
      /\ UNCHANGED <<gone, view, joins, registered, fired, acceptOp, pipe>>
  BY DEF Accept, Idle, DriverSame, driverVars, clientVars
<1>2. TypeOK /\ ConnectionTypes /\ ViewsAreDrawn /\ ConnectionsAreRight /\ MuxIsRight
  BY TypesOfConnections DEF DInv
<1>3. c # None
  BY DashboardsAssumption
<1>4. <<Header>> \in Seq(Messages)
  BY HeaderShowsNothing
<1>5. ConnectionTypes'
  <2>1. \A x \in Clients : todo'[x] # <<>> => x \in Open'
    BY <1>1, <1>2 DEF ConnectionTypes, Open, Written
  <2>2. todo' \in [Clients -> Seq(Messages)]
    BY <1>1, <1>2, <1>4 DEF ConnectionTypes
  <2> QED BY <1>1, <1>2, <2>1, <2>2 DEF ConnectionTypes
<1>6. ViewsAreDrawn' /\ view' \in [Clients -> Console(Lines)]
  BY <1>1, <1>2 DEF ViewsAreDrawn, TypeOK, DriverSame
<1>7. ConnectionsAreRight'
  <2>1. ASSUME NEW x \in Clients
        PROVE  /\ phase'[x] # "open" \/ gone'[x] => pipe'[x] = <<>> /\ view'[x] = NewConsole
               /\ fired'[x] => phase'[x] = "open" /\ gone'[x]
               /\ phase'[x] = "open" /\ x # joining' => registered'[x]
    <3>0. x # None
      BY DashboardsAssumption
    <3>1. CASE x = c
      BY <1>1, <1>2, <3>1 DEF ConnectionsAreRight, ConnectionTypes
    <3>2. CASE x # c
      BY <1>1, <1>2, <3>0, <3>2 DEF ConnectionsAreRight, ConnectionTypes
    <3> QED BY <3>1, <3>2
  <2>2. phase'[joining'] = "open"
    BY <1>1, <1>2 DEF ConnectionTypes
  <2> QED BY <1>1, <1>2, <1>3, <2>1, <2>2 DEF ConnectionsAreRight, DriverSame, Failed
<1>8. ASSUME NEW x \in Clients, x \in Connected'
      PROVE  \E k : k = Eventually(x)' /\ Follows(k, Told(x)')
  <2>1. CASE x # c
    <3>1. x \in Connected
      BY <1>1, <1>2, <1>8, <2>1 DEF Connected, Open, ConnectionTypes
    <3>2. x # None /\ x # joining
      BY <1>1, DashboardsAssumption
    <3>3. Told(x)' = Told(x)
      BY <1>1, <2>1, <3>2 DEF Told
    <3>4. todo'[x] = todo[x]
      BY <1>1, <1>2, <2>1 DEF ConnectionTypes
    <3> QED BY <1>1, <3>1, <3>3, <3>4, UntouchedFollows
  <2>2. CASE x = c
    <3>1. pipe'[x] = <<>> /\ view'[x] = NewConsole /\ todo'[x] = <<Header>>
      BY <1>1, <1>2, <2>2 DEF ConnectionsAreRight, ConnectionTypes
    <3>2. PICK height \in Nat : height = rows'
      BY <1>1, <1>2, DashboardsAssumption DEF TypeOK, DriverSame
    <3>3. Eventually(x)' = NewConsole
      <4>1. Eventually(x)' = ShownAll(NewConsole, <<>> \o <<Header>>, height)
        BY <3>1, <3>2 DEF Eventually
      <4> QED BY <4>1, HeaderShowsNothing
    <3>4. Drawn(NewConsole, rows)
      BY <1>1, <3>2, NewConsoleIsDrawn DEF DriverSame
    <3>5. Told(x)' = Tasks \ {t \in Tasks : mux[t].st # "none"}
      BY <1>1, <2>2 DEF Told
    <3>6. ASSUME NEW t \in Tasks
          PROVE  IF t \in Told(x)'
                 THEN Says(NewConsole, t) /\ AllOrMarked(TextOf(NewConsole, t), full[t])
                 ELSE NewConsole.st[t] = "none"
      <4>1. NewConsole.st[t] = "none" /\ NewConsole.shown[t] = <<>> /\ NewConsole.out[t] = <<>>
        BY DEF NewConsole
      <4>2. TextOf(NewConsole, t) = <<>>
        BY <4>1 DEF TextOf
      <4>3. CASE mux[t].st = "none"
        <5>1. full[t] = <<>>
          BY <1>2, <4>3 DEF MuxIsRight, MuxHasTask
        <5> QED BY <4>1, <4>2, <4>3, <5>1, AllIsAll, <3>5 DEF Says
      <4>4. CASE mux[t].st # "none"
        BY <3>5, <4>1, <4>4
      <4> QED BY <4>3, <4>4
    <3>7. Follows(NewConsole, Told(x)')
      BY <3>4, <3>6 DEF Follows
    <3> QED BY <3>3, <3>7
  <2> QED BY <2>1, <2>2
<1> QED BY <1>1, <1>5, <1>6, <1>7, <1>8, ConnectionStepKeeps

\* What the mux passes on of a task says where something of its log is missing.
LEMMA MuxIsMarked ==
  ASSUME DInv, NEW t \in Tasks
  PROVE  AllOrMarked(mux[t].out, full[t])
<1>1. TypeOK /\ MuxHasOutput(t)
  BY DEF DInv, MuxIsRight, MuxHasTask
<1>2. PICK s \in Seq(Lines), whole \in Seq(Lines) : s = mux[t].out /\ whole = full[t]
  BY <1>1 DEF TypeOK
<1>3. PICK n \in Nat : n = OutputLimit
  BY DashboardsAssumption
<1>4. CASE s = whole
  BY <1>2, <1>4, AllIsAll
<1>5. CASE s # whole
  <2>1. /\ Len(s) = n + 1 /\ s[n + 1] = Cut /\ n <= Len(whole)
        /\ \A j \in 1 .. n : s[j] = whole[j]
    BY <1>1, <1>2, <1>3, <1>5 DEF MuxHasOutput
  <2>2. AllOrMarked(s, whole)
    BY <2>1, FirstLinesAreMarked
  <2> QED BY <1>2, <2>2
<1> QED BY <1>4, <1>5

LEMMA AttachNextKeeps ==
  ASSUME DInv, NEW t \in Tasks, AttachNext(t)
  PROVE  DInv'
<1>1. /\ DriverSame /\ Written /\ t \in attaching /\ attaching' = attaching \ {t}
      /\ todo' = [todo EXCEPT ![joining] = Attach(t)]
      /\ UNCHANGED <<gone, view, joins, phase, stream, registered, fired, joining, acceptOp, pipe>>
  BY DEF AttachNext, DriverSame, driverVars, clientVars
<1>2. TypeOK /\ ConnectionTypes /\ ViewsAreDrawn /\ ConnectionsAreRight /\ MuxIsRight
  BY TypesOfConnections DEF DInv
<1>3. PICK c \in Clients : c = joining
  BY <1>1, <1>2 DEF ConnectionTypes, ConnectionsAreRight
<1>4. phase[c] = "open" /\ todo[c] = <<>> /\ mux[t].st # "none"
  BY <1>1, <1>2, <1>3, DashboardsAssumption DEF ConnectionsAreRight, Written
<1>5. PICK st \in TaskStates, out \in Seq(Lines) : st = mux[t].st /\ out = mux[t].out
  BY <1>2, <1>4 DEF TypeOK
<1>6. st = "PENDING" => out = <<>>
  BY <1>2, <1>5 DEF MuxIsRight, MuxHasTask
<1>7. PICK p \in Seq(Messages), height \in Nat : p = pipe[c] /\ height = rows
  <2>1. pipe[c] \in Seq(Messages) /\ rows \in Nat
    BY <1>2, DashboardsAssumption DEF TypeOK
  <2> QED BY <2>1
<1>8. PICK v, q : v = view[c] /\ q = Attach(t)
  OBVIOUS
<1>9. Attaches(q, t, st, out)
  BY <1>5, <1>8 DEF Attach, Attaches
<1>10. PICK k : k = ShownAll(v, p, height)
  OBVIOUS
<1>11. q \in Seq(Messages)
  <2>1. Message(t, "PENDING", <<>>) \in Messages /\ Message(t, "UNCHANGED", out) \in Messages
        /\ Message(t, st, <<>>) \in Messages
    <3>1. <<>> \in Seq(Lines) /\ "PENDING" \in TaskStates
      BY DEF TaskStates
    <3> QED BY <3>1, MessageParts
  <2>2. /\ <<Message(t, "PENDING", <<>>)>> \in Seq(Messages)
        /\ (IF out # <<>> THEN <<Message(t, "UNCHANGED", out)>> ELSE <<>>) \in Seq(Messages)
        /\ (IF st # "PENDING" THEN <<Message(t, st, <<>>)>> ELSE <<>>) \in Seq(Messages)
    BY <2>1
  <2>3. PICK a, b, d \in Seq(Messages) :
          /\ a = <<Message(t, "PENDING", <<>>)>>
          /\ b = IF out # <<>> THEN <<Message(t, "UNCHANGED", out)>> ELSE <<>>
          /\ d = IF st # "PENDING" THEN <<Message(t, st, <<>>)>> ELSE <<>>
    BY <2>2
  <2>4. a \o b \o d \in Seq(Messages)
    OBVIOUS
  <2> QED BY <1>9, <2>3, <2>4 DEF Attaches
<1>12. ConnectionTypes'
  <2>1. todo' \in [Clients -> Seq(Messages)]
    BY <1>1, <1>2, <1>3, <1>8, <1>11 DEF ConnectionTypes
  <2>2. \A x \in Clients : todo'[x] # <<>> => x \in Open'
    BY <1>1, <1>2, <1>3, <1>4 DEF ConnectionTypes, Open
  <2> QED BY <1>1, <1>2, <2>1, <2>2 DEF ConnectionTypes
<1>13. ViewsAreDrawn' /\ view' \in [Clients -> Console(Lines)]
  BY <1>1, <1>2 DEF ViewsAreDrawn, TypeOK, DriverSame
<1>14. ConnectionsAreRight'
  <2>1. joining # None
    BY <1>3, DashboardsAssumption
  <2> QED BY <1>1, <1>2, <2>1 DEF ConnectionsAreRight, DriverSame, Failed
<1>15. ASSUME NEW x \in Clients, x \in Connected'
       PROVE  \E e : e = Eventually(x)' /\ Follows(e, Told(x)')
  <2>1. x \in Connected
    BY <1>1, <1>15 DEF Connected, Open
  <2>2. CASE x # c
    <3>1. todo'[x] = todo[x] /\ Told(x)' = Told(x)
      BY <1>1, <1>2, <1>3, <2>2 DEF ConnectionTypes, Told
    <3> QED BY <1>1, <2>1, <3>1, UntouchedFollows
  <2>3. CASE x = c
    <3>1. Eventually(x) = k
      <4>1. p \o <<>> = p
        BY ConcatEmpty
      <4> QED BY <1>4, <1>7, <1>8, <1>10, <2>3, <4>1 DEF Eventually
    <3>2. Eventually(x)' = ShownAll(v, p \o q, height)
      <4>1. /\ view'[x] = v /\ pipe'[x] = p /\ rows' = height
            /\ todo'[x] = q
        BY <1>1, <1>2, <1>3, <1>7, <1>8, <2>3 DEF ConnectionTypes, DriverSame
      <4> QED BY <4>1 DEF Eventually
    <3>3. Told(x) = Tasks \ attaching /\ Told(x)' = Told(x) \cup {t} /\ t \notin Told(x)
      BY <1>1, <1>3, <2>3 DEF Told
    <3>4. PICK told : told = Told(x)
      OBVIOUS
    <3>5. Follows(k, told)
      BY <2>1, <3>1, <3>4 DEF DInv, ClientsFollow
    <3>6. Drawn(k, height) /\ k.st[t] = "none"
      BY <1>7, <3>3, <3>4, <3>5 DEF Follows
    <3>7. PICK d : d = ShownAll(v, p \o q, height) /\ HasAttached(k, d, t, st, out, height)
      <4>1. HasAttached(k, ShownAll(v, p \o q, height), t, st, out, height)
        BY <1>6, <1>9, <1>10, <3>6, AttachShows
      <4> QED BY <4>1
    <3>8. ASSUME NEW u \in Tasks
          PROVE  IF u \in told \cup {t} THEN Says(d, u) /\ AllOrMarked(TextOf(d, u), full[u])
                 ELSE d.st[u] = "none"
      <4>1. CASE u = t
        <5>1. AllOrMarked(TextOf(d, t), full[t])
          BY <1>5, <3>7, MuxIsMarked DEF HasAttached
        <5> QED BY <1>5, <3>7, <4>1, <5>1 DEF Says, HasAttached
      <4>2. CASE u # t
        BY <3>5, <3>7, <4>2 DEF OnlyOf, Follows, Says, HasAttached
      <4> QED BY <4>1, <4>2
    <3>9. Follows(d, told \cup {t})
      BY <1>7, <3>7, <3>8 DEF Follows, HasAttached
    <3> QED BY <3>2, <3>3, <3>4, <3>7, <3>9
  <2> QED BY <2>2, <2>3
<1> QED BY <1>1, <1>12, <1>13, <1>14, <1>15, ConnectionStepKeeps

----------------------------------------------------------------------------
(* The theorems.                                                           *)

LEMMA DebugKeeps ==
  ASSUME DInv, Debug
  PROVE  DInv'
<1>1. /\ base' = [base EXCEPT !.debugged = TRUE]
      /\ UNCHANGED <<action, full, mux, dumping, ops, connVars, clientVars, todo, pipe, rows>>
  BY DEF Debug
<1>2. /\ UNCHANGED <<phase, stream, registered, fired, joining, attaching, acceptOp>>
      /\ UNCHANGED <<gone, view, joins>>
  BY <1>1 DEF connVars, joinVars, clientVars
<1>3. TypeOK /\ BaseIsRight
  BY DEF DInv
<1>4. PICK height \in Nat : height = rows
  BY <1>3, DashboardsAssumption DEF TypeOK
<1>5. /\ Drawn(base', rows) /\ base'.st = base.st /\ base'.out = base.out /\ base'.shown = base.shown
  <2>1. PICK k : k = base
    OBVIOUS
  <2>2. Drawn(k, height)
    BY <1>3, <1>4, <2>1 DEF BaseIsRight
  <2>3. LET d == [k EXCEPT !.debugged = TRUE]
        IN Drawn(d, height) /\ d.st = k.st /\ d.out = k.out /\ d.shown = k.shown
    BY <2>2, DebugDraws
  <2> QED BY <1>1, <1>4, <2>1, <2>3
<1>6. TypeOK'
  <2>1. base' \in Console(Lines)
    BY <1>5 DEF Drawn
  <2>2. \A f \in {stream', registered', fired', gone'} : f \in [Clients -> BOOLEAN]
    BY <1>2, <1>3 DEF TypeOK
  <2>3. \A c \in Clients : todo'[c] # <<>> => c \in Open'
    BY <1>1, <1>2, <1>3 DEF TypeOK, Open
  <2>4. /\ action' \in [Tasks -> {"none", "pending", "running", "ok", "failed"}]
        /\ full' \in [Tasks -> Seq(Lines)]
        /\ mux' \in [Tasks -> [st : TaskStates \cup {"none"}, out : Seq(Lines)]]
        /\ \A t \in Tasks : Len(mux'[t].out) <= OutputLimit + 1
        /\ dumping' \subseteq Tasks
        /\ todo' \in [Clients -> Seq(Messages)] /\ pipe' \in [Clients -> Seq(Messages)]
        /\ \A c \in Clients : Len(pipe'[c]) <= PipeCapacity
        /\ rows' \in RowChoices /\ ops' \in 0 .. MaxOps
    BY <1>1, <1>3 DEF TypeOK
  <2> QED BY <1>2, <1>3, <2>1, <2>2, <2>3, <2>4 DEF TypeOK
<1>7. MuxIsRight'
  BY <1>1 DEF DInv, MuxIsRight, MuxHasTask, MuxHasOutput
<1>8. BaseIsRight'
  BY <1>1, <1>3, <1>5 DEF BaseIsRight, Says, TextOf
<1>9. ViewsAreDrawn'
  BY <1>1, <1>2 DEF DInv, ViewsAreDrawn
<1>10. ConnectionsAreRight'
  BY <1>1, <1>2 DEF DInv, ConnectionsAreRight, Failed
<1>11. ClientsFollow'
  <2>1. Connected' = Connected
    BY <1>2 DEF Connected, Open
  <2>2. ASSUME NEW c \in Connected PROVE Follows(Eventually(c), Told(c))'
    <3>1. PICK k, told : k = Eventually(c) /\ told = Told(c)
      OBVIOUS
    <3>2. Eventually(c)' = k /\ Told(c)' = told
      BY <1>1, <1>2, <3>1 DEF Eventually, Told
    <3>3. Follows(k, told)
      BY <3>1 DEF DInv, ClientsFollow
    <3>4. Follows(k, told)'
      BY <1>1, <3>3 DEF Follows, Says
    <3> QED BY <3>2, <3>4 DEF Follows, Says
  <2> QED BY <2>1, <2>2 DEF ClientsFollow
<1> QED BY <1>6, <1>7, <1>8, <1>9, <1>10, <1>11 DEF DInv

LEMMA StutteringKeeps ==
  ASSUME DInv, UNCHANGED vars
  PROVE  DInv'
<1>1. /\ UNCHANGED <<action, full, mux, base, dumping, ops, todo, pipe, rows>>
      /\ UNCHANGED <<phase, stream, registered, fired, joining, attaching, acceptOp, gone, view>>
  BY DEF vars, driverVars, connVars, joinVars, clientVars
<1>2. TypeOK /\ ConnectionTypes /\ ViewsAreDrawn /\ ConnectionsAreRight
  BY TypesOfConnections DEF DInv
<1>3. ConnectionTypes'
  BY <1>1, <1>2 DEF ConnectionTypes, Open
<1>4. ViewsAreDrawn' /\ view' \in [Clients -> Console(Lines)]
  BY <1>1, <1>2 DEF ViewsAreDrawn, TypeOK
<1>5. ConnectionsAreRight'
  BY <1>1, <1>2 DEF ConnectionsAreRight, Failed
<1>6. DriverSame
  BY <1>1 DEF DriverSame
<1>7. ASSUME NEW c \in Clients, c \in Connected'
      PROVE  \E k : k = Eventually(c)' /\ Follows(k, Told(c)')
  <2>1. c \in Connected /\ Told(c)' = Told(c)
    BY <1>1, <1>7 DEF Connected, Open, Told
  <2> QED BY <1>1, <1>6, <2>1, UntouchedFollows
<1> QED BY <1>3, <1>4, <1>5, <1>6, <1>7, ConnectionStepKeeps

LEMMA InitImpliesDInv ==
  ASSUME Init
  PROVE  DInv
<1>1. PICK height \in Nat : height = rows
  BY DashboardsAssumption DEF Init
<1>2. /\ Drawn(NewConsole, height)
      /\ NewConsole.st = [t \in Tasks |-> "none"]
      /\ NewConsole.out = [t \in Tasks |-> <<>>] /\ NewConsole.shown = [t \in Tasks |-> <<>>]
  BY NewConsoleIsDrawn
<1>3. /\ Len(<<>>) = 0 /\ OutputLimit \in Nat \ {0} /\ PipeCapacity \in Nat
      /\ <<>> \in Seq(Lines) /\ <<>> \in Seq(Messages) /\ MaxOps \in Nat
  BY DashboardsAssumption
<1>4. TypeOK
  <2>1. NewConsole \in Console(Lines)
    BY <1>2 DEF Drawn
  <2>2. /\ action \in [Tasks -> {"none", "pending", "running", "ok", "failed"}]
        /\ full \in [Tasks -> Seq(Lines)]
        /\ mux \in [Tasks -> [st : TaskStates \cup {"none"}, out : Seq(Lines)]]
        /\ \A t \in Tasks : Len(mux[t].out) <= OutputLimit + 1
    BY <1>3 DEF Init
  <2>3. /\ todo \in [Clients -> Seq(Messages)] /\ pipe \in [Clients -> Seq(Messages)]
        /\ \A c \in Clients : todo[c] # <<>> => c \in Open
        /\ \A c \in Clients : Len(pipe[c]) <= PipeCapacity
    BY <1>3 DEF Init
  <2>4. \A f \in {stream, registered, fired, gone} : f \in [Clients -> BOOLEAN]
    BY DEF Init
  <2>5. view \in [Clients -> Console(Lines)] /\ base \in Console(Lines) /\ ops \in 0 .. MaxOps
    BY <1>3, <2>1 DEF Init
  <2> QED BY <2>2, <2>3, <2>4, <2>5 DEF Init, TypeOK
<1>5. MuxIsRight
  BY <1>3 DEF Init, MuxIsRight, MuxHasTask, MuxHasOutput
<1>6. BaseIsRight
  <2>1. Drawn(base, rows)
    BY <1>1, <1>2 DEF Init
  <2>2. \A t \in Tasks : Says(base, t) /\ TextOf(base, t) = full[t]
    BY <1>2 DEF Init, Says, TextOf
  <2> QED BY <2>1, <2>2 DEF BaseIsRight
<1>7. ViewsAreDrawn
  BY <1>1, <1>2 DEF Init, ViewsAreDrawn
<1>8. ConnectionsAreRight
  BY DEF Init, ConnectionsAreRight
<1>9. ClientsFollow
  BY DEF Init, ClientsFollow, Connected
<1> QED BY <1>4, <1>5, <1>6, <1>7, <1>8, <1>9 DEF DInv

LEMMA NextKeeps ==
  ASSUME DInv, [Next]_vars
  PROVE  DInv'
<1>1. ASSUME NEW t \in Tasks, Begin(t) \/ Start(t) \/ Log(t) \/ Reset(t) \/ End(t)
      PROVE  DInv'
  BY <1>1, BeginKeeps, StartKeeps, LogKeeps, ResetKeeps, EndKeeps
<1>2. ASSUME NEW t \in Tasks, NEW outcome \in {"ok", "failed"}, Returned(t, outcome)
      PROVE  DInv'
  BY <1>2, ReturnedKeeps
<1>3. CASE DumpErrors
  BY <1>3, DumpErrorsKeeps
<1>4. CASE Debug
  BY <1>4, DebugKeeps
<1>5. ASSUME NEW t \in Tasks, AttachNext(t) \/ ReportFailure(t)
      PROVE  DInv'
  BY <1>5, AttachNextKeeps, ReportFailureKeeps
<1>6. CASE Join
  BY <1>6, JoinKeeps
<1>7. CASE AcceptFails
  BY <1>7, AcceptFailsKeeps
<1>8. ASSUME NEW c \in Clients, WriteStep(c) \/ Accept(c) \/ Disconnected(c)
      PROVE  DInv'
  BY <1>8, DropKeeps, WriteKeeps, WriteFailsKeeps, AcceptKeeps, DisconnectedKeeps DEF WriteStep
<1>9. ASSUME NEW c \in Clients, Connect(c) \/ Read(c) \/ Leave(c)
      PROVE  DInv'
  BY <1>9, ConnectKeeps, ReadKeeps, LeaveKeeps
<1>10. CASE UNCHANGED vars
  BY <1>10, StutteringKeeps
<1> QED BY <1>1, <1>2, <1>3, <1>4, <1>5, <1>6, <1>7, <1>8, <1>9, <1>10 DEF Next, DriverStep, LoopStep

(***************************************************************************)
(* The inductive invariant: every console is drawn, what the mux and the   *)
(* console of Ekam have of each task is what its last run has logged, and  *)
(* each client will show what the mux has when it has read all that is on  *)
(* its way (MuxDashboard.cpp, ProtoDashboard.cpp, ekam-client.cpp).        *)
(***************************************************************************)
THEOREM DashboardsInvariant == Spec => []DInv
<1>1. Init => DInv
  BY InitImpliesDInv
<1>2. DInv /\ [Next]_vars => DInv'
  BY NextKeeps
<1> QED BY <1>1, <1>2, PTL DEF Spec

LEMMA DInvImpliesConsoles ==
  ASSUME DInv
  PROVE  ConsolesAreRight
<1>1. TypeOK /\ BaseIsRight /\ ViewsAreDrawn
  BY DEF DInv
<1>2. LogsAreWhole
  BY <1>1 DEF LogsAreWhole, BaseIsRight, Says, TextOf
<1>3. \A k \in {base} \cup {view[x] : x \in Clients} : Drawn(k, rows)
  BY <1>1 DEF BaseIsRight, ViewsAreDrawn
<1>4. RunningAreListed
  BY <1>3 DEF RunningAreListed, Drawn, Listed, RunningIn, ListedOnce
<1>5. ScreenIsKept
  BY <1>3 DEF ScreenIsKept, Drawn
<1> QED BY <1>1, <1>2, <1>4, <1>5 DEF ConsolesAreRight

(***************************************************************************)
(* Whatever the driver does and however high the terminal is, a task that  *)
(* is done or failed has printed the log of its last run and nothing else, *)
(* runningTasks has exactly the running ones that are not silent, and      *)
(* clearRunning() takes no line of the log (ConsoleDashboard.cpp).         *)
(***************************************************************************)
THEOREM ConsolesStayRight == Spec => []ConsolesAreRight
<1>1. DInv => ConsolesAreRight
  BY DInvImpliesConsoles
<1> QED BY <1>1, DashboardsInvariant, PTL

LEMMA DInvImpliesAgreement ==
  ASSUME DInv
  PROVE  ClientsAgree
BY DEF DInv, ClientsFollow, Follows, Says, TextOf, ClientsAgree

(***************************************************************************)
(* However late a client comes and however slowly it reads, among any      *)
(* number of others that come and go, what it will show of every task it   *)
(* was told of is its state, and all of its log but what is marked as cut  *)
(* (MuxDashboard::Connector, TaskImpl::attach(), addOutput()).             *)
(***************************************************************************)
THEOREM ClientsStayAgreed == Spec => []ClientsAgree
<1>1. DInv => ClientsAgree
  BY DInvImpliesAgreement
<1> QED BY <1>1, DashboardsInvariant, PTL

Noticed == \A c \in Clients : stream[c] /\ ~stream'[c] /\ joining # c => fired'[c]

LEMMA DeathIsNoticed ==
  ASSUME DInv, [Next]_vars
  PROVE  Noticed
<1>1. ASSUME NEW c \in Clients, stream[c], ~stream'[c], joining # c
      PROVE  fired'[c]
  <2>1. TypeOK /\ ConnectionTypes /\ ConnectionsAreRight
    BY TypesOfConnections DEF DInv
  <2>2. PICK x \in Clients : WriteFails(x) \/ Accept(x)
    <3>1. stream' # stream
      BY <1>1
    <3>2. CASE UNCHANGED vars
      BY <3>1, <3>2 DEF vars, connVars
    <3>3. CASE DriverStep
      BY <3>1, <3>3 DEF DriverStep, Begin, Start, Log, Reset, End, Returned, DumpErrors, Debug,
                        TaskStep, HandlerStep, connVars
    <3>4. CASE LoopStep
      BY <3>1, <3>4 DEF LoopStep, AttachNext, ReportFailure, connVars
    <3>5. CASE Join \/ AcceptFails
      BY <3>1, <3>5 DEF Join, AcceptFails
    <3>6. ASSUME NEW x \in Clients, Drop(x) \/ Write(x) \/ Disconnected(x) \/ Connect(x) \/ Read(x) \/ Leave(x)
          PROVE  FALSE
      BY <3>1, <3>6 DEF Drop, Write, Disconnected, Connect, Read, Leave, connVars
    <3> QED BY <3>2, <3>3, <3>4, <3>5, <3>6 DEF Next, WriteStep
  <2>3. WriteFails(c)
    <3>1. CASE Accept(x)
      BY <1>1, <2>1, <3>1 DEF Accept, ConnectionTypes
    <3>2. CASE WriteFails(x)
      BY <1>1, <2>1, <3>2 DEF WriteFails, ConnectionTypes
    <3> QED BY <2>2, <3>1, <3>2
  <2>4. phase[c] = "open"
    BY <2>1, <2>3 DEF WriteFails, WriteNext, ConnectionTypes, Open
  <2>5. registered[c]
    BY <1>1, <2>1, <2>4 DEF ConnectionsAreRight
  <2> QED BY <2>1, <2>3, <2>5 DEF WriteFails, ConnectionTypes
<1> QED BY <1>1 DEF Noticed

(***************************************************************************)
(* A connection whose stream is closed by a failing write has its          *)
(* disconnect callback queued at once, unless its dashboard was being      *)
(* constructed (ProtoDashboard.cpp, WriteBuffer::ready()).                 *)
(***************************************************************************)
THEOREM DeadStayNoticed == Spec => DeadAreNoticed
<1>1. DInv /\ [Next]_vars => [Noticed]_vars
  BY DeathIsNoticed
<1>2. DeadAreNoticed <=> [][Noticed]_vars
  BY DEF DeadAreNoticed, Noticed
<1> QED BY <1>1, <1>2, DashboardsInvariant, PTL DEF Spec

=============================================================================
