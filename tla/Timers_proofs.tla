----------------------------- MODULE Timers_proofs -----------------------------
(***************************************************************************)
(* Proofs about Timers: flags, tasks and ages, for any number of timers,   *)
(* tasks, calls and any lateness.                                          *)
(***************************************************************************)
EXTENDS Timers, SequenceTheorems, TLAPS

(***************************************************************************)
(* The inductive invariant, of the plugin's state p, the dirty timers D,   *)
(* the timer thr whose task's run() is in progress and the timers heard    *)
(* whose message is queued or being handled.                               *)
(***************************************************************************)
Time       == 0 - late - 1 .. Seconds
Datum      == [exists : BOOLEAN, playing : BOOLEAN, remainingTime : Time]
TaskRecord == [name : Timers \cup {None}, live : BOOLEAN, due : Time,
               age : 0 .. Seconds + late + 1]
Plugins    == [data : [Timers -> Datum], timerTasks : [Timers -> Tasks \cup {NoTask}],
               task : [Tasks -> TaskRecord]]

\* A task belongs to one timer, which has its name.
Apart(p) ==
    /\ \A n, m \in Timers :
         p.timerTasks[n] # NoTask /\ p.timerTasks[n] = p.timerTasks[m] => n = m
    /\ \A n \in Timers : p.timerTasks[n] # NoTask /\ p.task[p.timerTasks[n]].live
         => p.task[p.timerTasks[n]].name = n
    /\ \A i \in Tasks : p.task[i].live => p.task[i].name \in Timers

Held(p, D) ==
    \A i \in Tasks : p.task[i].live /\ p.task[i].name \notin D => p.timerTasks[p.task[i].name] = i

Flags(p, D, thr, heard) ==
    \A n \in Timers \ D :
        IF p.data[n].exists
        THEN /\ p.timerTasks[n] # NoTask => p.data[n].playing
             /\ p.data[n].playing =>
                  \/ p.timerTasks[n] # NoTask /\ (n \in Repeats \/ n # thr)
                  \/ n \notin Repeats /\ n \in heard
        ELSE p.timerTasks[n] = NoTask

\* Between the two steps of run().
Running(p, D, thr) ==
    thr \in Timers \ D =>
        IF thr \in Repeats THEN p.timerTasks[thr] # NoTask
        ELSE \A i \in Tasks : p.task[i].live => p.task[i].name # thr

\* When nothing is late, the task of a timer is not older than the timer is long,
\* and due before it would be; only between the two steps of run() is it done.
InTime(t, n, thr) ==
    /\ t.age <= Seconds
    /\ IF t.live THEN t.due >= 0 /\ (n # thr => t.age + t.due <= Seconds)
                 ELSE n = thr /\ n \notin Repeats

Ages(p, D, thr) ==
    late = 0 => \A n \in Timers \ D :
        /\ p.data[n].remainingTime >= 0
        /\ p.timerTasks[n] # NoTask => InTime(p.task[p.timerTasks[n]], n, thr)

Good(p, D, thr, heard) ==
    Apart(p) /\ Held(p, D) /\ Flags(p, D, thr, heard) /\ Running(p, D, thr) /\ Ages(p, D, thr)

Heard == {n \in Timers : n = responding \/ \E i \in 1 .. Len(inbox) : inbox[i] = n}

IInv == TypeOK /\ Good(Plugin, dirty, timerThread, Heard) /\ ThrowsOnlyIfTouched

(***************************************************************************)
(* The methods.                                                            *)
(***************************************************************************)
\* More dirty timers ask for less.
LEMMA GoodGrows ==
  ASSUME NEW p \in Plugins, NEW D, NEW E, D \subseteq E, NEW thr, NEW heard,
         Good(p, D, thr, heard)
  PROVE  Good(p, E, thr, heard)
<1>1. Held(p, E)
  BY DEF Good, Held
<1>2. Flags(p, E, thr, heard)
  BY DEF Good, Flags
<1>3. Running(p, E, thr)
  BY DEF Good, Running
<1>4. Ages(p, E, thr)
  BY DEF Good, Ages
<1> QED
  BY <1>1, <1>2, <1>3, <1>4 DEF Good

LEMMA StopIs ==
  ASSUME NEW p \in Plugins, NEW n \in Timers, late \in Nat
  PROVE  LET q == stopTimer(p, n) IN
         /\ q \in Plugins
         /\ q.timerTasks = [p.timerTasks EXCEPT ![n] = NoTask]
         /\ \A m \in Timers : q.data[m] = IF m = n THEN Halt(p.data[n], Seconds) ELSE p.data[m]
         /\ \A i \in Tasks : q.task[i] = IF i = p.timerTasks[n] THEN Free ELSE p.task[i]
<1> DEFINE q == stopTimer(p, n)
<1>0. Seconds \in Time
  BY TimersAssumption DEF Time
<1>1. Halt(p.data[n], Seconds) \in Datum
  BY <1>0 DEF Halt, Plugins, Datum
<1>2. Free \in TaskRecord
  BY TimersAssumption DEF Free, TaskRecord, Time
<1>3. q.data \in [Timers -> Datum]
      /\ \A m \in Timers : q.data[m] = IF m = n THEN Halt(p.data[n], Seconds) ELSE p.data[m]
  BY <1>1 DEF stopTimer, Plugins
<1>4. q.task \in [Tasks -> TaskRecord]
      /\ \A i \in Tasks : q.task[i] = IF i = p.timerTasks[n] THEN Free ELSE p.task[i]
  BY <1>2 DEF stopTimer, Cancelled, Plugins
<1>5. q.timerTasks = [p.timerTasks EXCEPT ![n] = NoTask]
      /\ q.timerTasks \in [Timers -> Tasks \cup {NoTask}]
  BY DEF stopTimer, Plugins
<1>6. q \in Plugins
  BY <1>3, <1>4, <1>5 DEF stopTimer, Plugins
<1> QED
  BY <1>3, <1>4, <1>5, <1>6

LEMMA PauseIs ==
  ASSUME NEW p \in Plugins, NEW n \in Timers, late \in Nat, p.timerTasks[n] # NoTask
  PROVE  LET q    == pauseTimer(p, n)
             rest == Seconds - p.task[p.timerTasks[n]].age IN
         /\ q \in Plugins
         /\ q.timerTasks = [p.timerTasks EXCEPT ![n] = NoTask]
         /\ \A m \in Timers : q.data[m] = IF m = n THEN Halt(p.data[n], rest) ELSE p.data[m]
         /\ \A i \in Tasks : q.task[i] = IF i = p.timerTasks[n] THEN Free ELSE p.task[i]
<1> DEFINE q == pauseTimer(p, n)
           rest == Seconds - p.task[p.timerTasks[n]].age
<1>0. rest \in Time
  <2>1. p.timerTasks[n] \in Tasks
    BY DEF Plugins
  <2>2. p.task[p.timerTasks[n]].age \in 0 .. Seconds + late + 1
    BY <2>1 DEF Plugins, TaskRecord
  <2> QED
    BY <2>2, TimersAssumption DEF Time
<1>1. Halt(p.data[n], rest) \in Datum
  <2> HIDE DEF rest
  <2> QED
    BY <1>0 DEF Halt, Plugins, Datum
<1>2. Free \in TaskRecord
  BY TimersAssumption DEF Free, TaskRecord, Time
<1>3. q.data \in [Timers -> Datum]
      /\ \A m \in Timers : q.data[m] = IF m = n THEN Halt(p.data[n], rest) ELSE p.data[m]
  BY <1>1 DEF pauseTimer, Plugins, Remaining
<1>4. q.task \in [Tasks -> TaskRecord]
      /\ \A i \in Tasks : q.task[i] = IF i = p.timerTasks[n] THEN Free ELSE p.task[i]
  BY <1>2 DEF pauseTimer, Cancelled, Plugins
<1>5. q.timerTasks = [p.timerTasks EXCEPT ![n] = NoTask]
      /\ q.timerTasks \in [Timers -> Tasks \cup {NoTask}]
  BY DEF pauseTimer, Plugins
<1>6. q \in Plugins
  BY <1>3, <1>4, <1>5 DEF pauseTimer, Plugins
<1> QED
  BY <1>3, <1>4, <1>5, <1>6

\* A timer whose task is cancelled, and who no longer plays, if it exists.
LEMMA Halted ==
  ASSUME NEW p \in Plugins, NEW q \in Plugins, NEW n \in Timers, NEW D \in SUBSET Timers,
         NEW thr, NEW heard, NEW told, NEW time \in Int, late \in Nat,
         heard \ {n} \subseteq told, Good(p, D, thr, heard), {n} \cap {thr} \subseteq D,
         late = 0 /\ n \notin D => time >= 0,
         q.timerTasks = [p.timerTasks EXCEPT ![n] = NoTask],
         \A m \in Timers : q.data[m] = IF m = n THEN Halt(p.data[n], time) ELSE p.data[m],
         \A i \in Tasks : q.task[i] = IF i = p.timerTasks[n] THEN Free ELSE p.task[i]
  PROVE  Good(q, D, thr, told)
<1>1. /\ q.timerTasks[n] = NoTask
      /\ \A m \in Timers : m # n => q.timerTasks[m] = p.timerTasks[m]
  BY DEF Plugins
<1>2. \A i \in Tasks : /\ q.task[i].live => q.task[i] = p.task[i] /\ i # p.timerTasks[n]
                       /\ i # p.timerTasks[n] => q.task[i] = p.task[i]
  BY DEF Free
<1>3. q.data[n].exists = p.data[n].exists /\ (q.data[n].exists => q.data[n].playing = FALSE)
  BY DEF Halt, Plugins, Datum
<1>4. \A m \in Timers : m # n => q.data[m] = p.data[m]
  OBVIOUS
<1>5. Apart(q)
  <2>1. \A m, k \in Timers :
          q.timerTasks[m] # NoTask /\ q.timerTasks[m] = q.timerTasks[k] => m = k
    BY <1>1 DEF Good, Apart
  <2>2. ASSUME NEW m \in Timers, q.timerTasks[m] # NoTask, q.task[q.timerTasks[m]].live
        PROVE  q.task[q.timerTasks[m]].name = m
    <3>1. m # n /\ q.timerTasks[m] = p.timerTasks[m] /\ q.timerTasks[m] \in Tasks
      BY <1>1, <2>2 DEF Plugins
    <3>2. q.task[q.timerTasks[m]] = p.task[p.timerTasks[m]]
      BY <1>2, <2>2, <3>1
    <3> QED
      BY <2>2, <3>1, <3>2 DEF Good, Apart
  <2>3. \A i \in Tasks : q.task[i].live => q.task[i].name \in Timers
    BY <1>2 DEF Good, Apart
  <2> QED
    BY <2>1, <2>2, <2>3 DEF Apart
<1>6. Held(q, D)
  <2> SUFFICES ASSUME NEW i \in Tasks, q.task[i].live, q.task[i].name \notin D
               PROVE  q.timerTasks[q.task[i].name] = i
    BY DEF Held
  <2>1. q.task[i] = p.task[i] /\ i # p.timerTasks[n]
    BY <1>2
  <2>2. p.timerTasks[p.task[i].name] = i /\ p.task[i].name \in Timers
    BY <2>1 DEF Good, Held, Apart
  <2> QED
    BY <1>1, <2>1, <2>2
<1>7. Flags(q, D, thr, told)
  <2> SUFFICES ASSUME NEW m \in Timers \ D
               PROVE  IF q.data[m].exists
                      THEN /\ q.timerTasks[m] # NoTask => q.data[m].playing
                           /\ q.data[m].playing =>
                                \/ q.timerTasks[m] # NoTask /\ (m \in Repeats \/ m # thr)
                                \/ m \notin Repeats /\ m \in told
                      ELSE q.timerTasks[m] = NoTask
    BY DEF Flags
  <2>1. CASE m = n
    BY <1>1, <1>3, <2>1
  <2>2. CASE m # n
    BY <1>1, <1>4, <2>2 DEF Good, Flags
  <2> QED
    BY <2>1, <2>2
<1>8. Running(q, D, thr)
  <2> SUFFICES ASSUME thr \in Timers \ D
               PROVE  IF thr \in Repeats THEN q.timerTasks[thr] # NoTask
                      ELSE \A i \in Tasks : q.task[i].live => q.task[i].name # thr
    BY DEF Running
  <2>1. thr # n
    OBVIOUS
  <2> QED
    BY <1>1, <1>2, <2>1 DEF Good, Running
<1>9. Ages(q, D, thr)
  <2> SUFFICES ASSUME late = 0, NEW m \in Timers \ D
               PROVE  /\ q.data[m].remainingTime >= 0
                      /\ q.timerTasks[m] # NoTask => InTime(q.task[q.timerTasks[m]], m, thr)
    BY DEF Ages
  <2>1. /\ p.data[m].remainingTime >= 0
        /\ p.timerTasks[m] # NoTask => InTime(p.task[p.timerTasks[m]], m, thr)
    BY DEF Good, Ages
  <2>2. CASE m = n
    BY <1>1, <2>1, <2>2 DEF Halt, Plugins, Datum
  <2>3. CASE m # n
    <3>1. q.data[m] = p.data[m] /\ q.timerTasks[m] = p.timerTasks[m]
      BY <1>1, <1>4, <2>3
    <3>2. ASSUME p.timerTasks[m] # NoTask PROVE q.task[p.timerTasks[m]] = p.task[p.timerTasks[m]]
      <4>1. p.timerTasks[m] \in Tasks /\ p.timerTasks[m] # p.timerTasks[n]
        BY <2>3, <3>2 DEF Plugins, Good, Apart
      <4> QED
        BY <1>2, <4>1
    <3> QED
      BY <2>1, <3>1, <3>2
  <2> QED
    BY <2>2, <2>3
<1> QED
  BY <1>5, <1>6, <1>7, <1>8, <1>9 DEF Good

LEMMA StopKeeps ==
  ASSUME NEW p \in Plugins, NEW n \in Timers, NEW D \in SUBSET Timers, NEW thr, NEW heard,
         NEW told, late \in Nat, heard \ {n} \subseteq told, Good(p, D, thr, heard),
         {n} \cap {thr} \subseteq D
  PROVE  stopTimer(p, n) \in Plugins /\ Good(stopTimer(p, n), D, thr, told)
<1> DEFINE q == stopTimer(p, n)
<1>1. /\ q \in Plugins
      /\ q.timerTasks = [p.timerTasks EXCEPT ![n] = NoTask]
      /\ \A m \in Timers : q.data[m] = IF m = n THEN Halt(p.data[n], Seconds) ELSE p.data[m]
      /\ \A i \in Tasks : q.task[i] = IF i = p.timerTasks[n] THEN Free ELSE p.task[i]
  BY StopIs
<1>2. Seconds \in Int /\ Seconds >= 0
  BY TimersAssumption
<1> HIDE DEF q
<1>3. Good(q, D, thr, told)
  BY <1>1, <1>2, Halted
<1> QED
  BY <1>1, <1>3 DEF q

LEMMA PauseKeeps ==
  ASSUME NEW p \in Plugins, NEW n \in Timers, NEW D \in SUBSET Timers, NEW thr, NEW heard,
         late \in Nat, Good(p, D, thr, heard), {n} \cap {thr} \subseteq D
  PROVE  pauseTimer(p, n) \in Plugins /\ Good(pauseTimer(p, n), D, thr, heard)
<1>1. CASE p.timerTasks[n] = NoTask
  BY <1>1 DEF pauseTimer
<1>2. CASE p.timerTasks[n] # NoTask
  <2> DEFINE q    == pauseTimer(p, n)
             i    == p.timerTasks[n]
             time == Seconds - p.task[i].age
  <2>1. /\ q \in Plugins
        /\ q.timerTasks = [p.timerTasks EXCEPT ![n] = NoTask]
        /\ \A m \in Timers : q.data[m] = IF m = n THEN Halt(p.data[n], time) ELSE p.data[m]
        /\ \A j \in Tasks : q.task[j] = IF j = i THEN Free ELSE p.task[j]
    BY <1>2, PauseIs
  <2>2. i \in Tasks
    BY <1>2 DEF Plugins
  <2>3. time \in Int
    <3>1. p.task[i].age \in Int
      BY <2>2 DEF Plugins, TaskRecord
    <3> QED
      BY <3>1, TimersAssumption
  <2>4. late = 0 /\ n \notin D => time >= 0
    <3> SUFFICES ASSUME late = 0, n \notin D PROVE time >= 0
      OBVIOUS
    <3>1. p.task[i].age \in Int /\ p.task[i].age <= Seconds
      BY <1>2, <2>2 DEF Plugins, TaskRecord, Good, Ages, InTime
    <3> QED
      BY <3>1, TimersAssumption
  <2> HIDE DEF q, time
  <2>5. Good(q, D, thr, heard)
    BY <2>1, <2>3, <2>4, Halted DEF i
  <2> QED
    BY <2>1, <2>5 DEF q
<1> QED
  BY <1>1, <1>2

\* A start takes a task nobody knows.
LEMMA StartKeeps ==
  ASSUME NEW p \in Plugins, NEW n \in Timers, NEW D \in SUBSET Timers, NEW thr, NEW heard,
         late \in Nat, Good(p, D, thr, heard), {n} \cap {thr} \subseteq D,
         CanStart(p, n) => Unused(p) # {}
  PROVE  startTimer(p, n) \in Plugins /\ Good(startTimer(p, n), D, thr, heard)
<1>1. CASE ~CanStart(p, n)
  BY <1>1 DEF startTimer
<1>2. CASE CanStart(p, n)
  <2> DEFINE q == startTimer(p, n)
             i == CHOOSE j \in Unused(p) : TRUE
             t == [name |-> n, live |-> TRUE, due |-> p.data[n].remainingTime, age |-> 0]
  <2>1. i \in Tasks /\ i # NoTask /\ ~p.task[i].live /\ \A m \in Timers : p.timerTasks[m] # i
    <3>1. i \in Unused(p)
      BY <1>2
    <3> QED
      BY <3>1 DEF Unused, Tasks, NoTask
  <2>2. /\ p.data[n].exists /\ p.timerTasks[n] = NoTask
        /\ p.data[n] \in Datum
    BY <1>2 DEF CanStart, Plugins
  <2>3. t \in TaskRecord
    <3>1. p.data[n].remainingTime \in Time
      BY <2>2 DEF Datum
    <3>2. 0 \in 0 .. Seconds + late + 1
      BY TimersAssumption
    <3> QED
      BY <3>1, <3>2 DEF TaskRecord
  <2> HIDE DEF i
  <2>4. q = [data |-> [p.data EXCEPT ![n].playing = TRUE],
             timerTasks |-> [p.timerTasks EXCEPT ![n] = i],
             task |-> [p.task EXCEPT ![i] = t]]
    BY <1>2 DEF startTimer, i, Delay
  <2> HIDE DEF q
  <2>5. /\ q.data \in [Timers -> Datum]
        /\ \A m \in Timers : m # n => q.data[m] = p.data[m]
        /\ q.data[n] = [p.data[n] EXCEPT !.playing = TRUE]
    <3>1. [p.data[n] EXCEPT !.playing = TRUE] \in Datum
      BY <2>2 DEF Datum
    <3> QED
      BY <2>4, <3>1 DEF Plugins
  <2>6. /\ q.data[n].exists /\ q.data[n].playing
        /\ q.data[n].remainingTime = p.data[n].remainingTime
    BY <2>2, <2>5 DEF Datum
  <2>7. /\ q.timerTasks \in [Timers -> Tasks \cup {NoTask}]
        /\ q.timerTasks[n] = i /\ \A m \in Timers : m # n => q.timerTasks[m] = p.timerTasks[m]
    BY <2>1, <2>4 DEF Plugins
  <2> HIDE DEF t
  <2>8. /\ q.task \in [Tasks -> TaskRecord]
        /\ q.task[i] = t /\ \A j \in Tasks : j # i => q.task[j] = p.task[j]
    BY <2>1, <2>3, <2>4 DEF Plugins
  <2>9. t.name = n /\ t.live /\ t.due = p.data[n].remainingTime /\ t.age = 0
    BY DEF t
  <2>10. q \in Plugins
    BY <2>4, <2>5, <2>7, <2>8 DEF Plugins
  <2>11. Apart(q)
    <3>1. \A m, k \in Timers :
            q.timerTasks[m] # NoTask /\ q.timerTasks[m] = q.timerTasks[k] => m = k
      BY <2>1, <2>7 DEF Good, Apart
    <3>2. ASSUME NEW m \in Timers, q.timerTasks[m] # NoTask, q.task[q.timerTasks[m]].live
          PROVE  q.task[q.timerTasks[m]].name = m
      <4>1. CASE m = n
        BY <2>7, <2>8, <2>9, <4>1
      <4>2. CASE m # n
        <5>1. q.timerTasks[m] = p.timerTasks[m] /\ p.timerTasks[m] # i
              /\ p.timerTasks[m] \in Tasks
          BY <2>1, <2>7, <3>2, <4>2 DEF Plugins
        <5>2. q.task[q.timerTasks[m]] = p.task[p.timerTasks[m]]
          BY <2>8, <5>1
        <5> QED
          BY <3>2, <5>1, <5>2 DEF Good, Apart
      <4> QED
        BY <4>1, <4>2
    <3>3. \A j \in Tasks : q.task[j].live => q.task[j].name \in Timers
      BY <2>8, <2>9 DEF Good, Apart
    <3> QED
      BY <3>1, <3>2, <3>3 DEF Apart
  <2>12. Held(q, D)
    <3> SUFFICES ASSUME NEW j \in Tasks, q.task[j].live, q.task[j].name \notin D
                 PROVE  q.timerTasks[q.task[j].name] = j
      BY DEF Held
    <3>1. CASE j = i
      BY <2>7, <2>8, <2>9, <3>1
    <3>2. CASE j # i
      <4>1. q.task[j] = p.task[j]
        BY <2>8, <3>2
      <4>2. p.timerTasks[p.task[j].name] = j /\ p.task[j].name \in Timers
        BY <4>1 DEF Good, Held, Apart
      <4>3. p.task[j].name # n
        BY <2>2, <4>2 DEF Tasks, NoTask
      <4> QED
        BY <2>7, <4>1, <4>2, <4>3
    <3> QED
      BY <3>1, <3>2
  <2>13. Flags(q, D, thr, heard)
    <3> SUFFICES ASSUME NEW m \in Timers \ D
                 PROVE  IF q.data[m].exists
                        THEN /\ q.timerTasks[m] # NoTask => q.data[m].playing
                             /\ q.data[m].playing =>
                                  \/ q.timerTasks[m] # NoTask /\ (m \in Repeats \/ m # thr)
                                  \/ m \notin Repeats /\ m \in heard
                        ELSE q.timerTasks[m] = NoTask
      BY DEF Flags
    <3>1. CASE m = n
      <4>1. n # thr
        BY <3>1
      <4> QED
        BY <2>1, <2>6, <2>7, <3>1, <4>1
    <3>2. CASE m # n
      BY <2>5, <2>7, <3>2 DEF Good, Flags
    <3> QED
      BY <3>1, <3>2
  <2>14. Running(q, D, thr)
    <3> SUFFICES ASSUME thr \in Timers \ D
                 PROVE  IF thr \in Repeats THEN q.timerTasks[thr] # NoTask
                        ELSE \A j \in Tasks : q.task[j].live => q.task[j].name # thr
      BY DEF Running
    <3>1. thr # n
      OBVIOUS
    <3> QED
      BY <2>7, <2>8, <2>9, <3>1 DEF Good, Running
  <2>15. Ages(q, D, thr)
    <3> SUFFICES ASSUME late = 0, NEW m \in Timers \ D
                 PROVE  /\ q.data[m].remainingTime >= 0
                        /\ q.timerTasks[m] # NoTask => InTime(q.task[q.timerTasks[m]], m, thr)
      BY DEF Ages
    <3>1. /\ p.data[m].remainingTime >= 0
          /\ p.timerTasks[m] # NoTask => InTime(p.task[p.timerTasks[m]], m, thr)
      BY DEF Good, Ages
    <3>2. CASE m = n
      <4>1. p.data[n].remainingTime \in Int /\ p.data[n].remainingTime <= Seconds
        BY <2>2, TimersAssumption DEF Datum, Time
      <4>2. t.due >= 0 /\ t.age <= Seconds /\ t.age + t.due <= Seconds
        BY <2>9, <3>1, <3>2, <4>1, TimersAssumption
      <4>3. InTime(t, n, thr)
        BY <2>9, <4>2 DEF InTime
      <4> QED
        BY <2>6, <2>7, <2>8, <3>1, <3>2, <4>3
    <3>3. CASE m # n
      <4>1. q.data[m] = p.data[m] /\ q.timerTasks[m] = p.timerTasks[m]
        BY <2>5, <2>7, <3>3
      <4>2. ASSUME p.timerTasks[m] # NoTask
            PROVE  q.task[p.timerTasks[m]] = p.task[p.timerTasks[m]]
        <5>1. p.timerTasks[m] \in Tasks /\ p.timerTasks[m] # i
          BY <2>1, <4>2 DEF Plugins
        <5> QED
          BY <2>8, <5>1
      <4> QED
        BY <3>1, <4>1, <4>2
    <3> QED
      BY <3>2, <3>3
  <2> QED
    BY <2>10, <2>11, <2>12, <2>13, <2>14, <2>15 DEF Good, q
<1> QED
  BY <1>1, <1>2

\* The dialog asks how far the timers are.
LEMMA ProgressKeeps ==
  ASSUME NEW p \in Plugins, NEW D \in SUBSET Timers, NEW thr, NEW heard,
         late \in Nat, Good(p, D, thr, heard)
  PROVE  updateTimerProgress(p) \in Plugins /\ Good(updateTimerProgress(p), D, thr, heard)
<1> DEFINE q == updateTimerProgress(p)
           rest(n) == Seconds - p.task[p.timerTasks[n]].age
           shown(n) == IF p.timerTasks[n] # NoTask /\ p.data[n].exists
                       THEN [p.data[n] EXCEPT !.remainingTime = rest(n)] ELSE p.data[n]
<1>1. \A n \in Timers : p.timerTasks[n] # NoTask => rest(n) \in Time
  <2> TAKE n \in Timers
  <2> HAVE p.timerTasks[n] # NoTask
  <2>1. p.timerTasks[n] \in Tasks
    BY DEF Plugins
  <2>2. p.task[p.timerTasks[n]].age \in 0 .. Seconds + late + 1
    BY <2>1 DEF Plugins, TaskRecord
  <2> QED
    BY <2>2, TimersAssumption DEF Time
<1>2. late = 0 => \A n \in Timers \ D : p.timerTasks[n] # NoTask => rest(n) >= 0
  <2> SUFFICES ASSUME late = 0, NEW n \in Timers \ D, p.timerTasks[n] # NoTask
               PROVE  rest(n) >= 0
    OBVIOUS
  <2> DEFINE i == p.timerTasks[n]
  <2>1. i \in Tasks
    BY DEF Plugins
  <2>2. p.task[i].age \in Int /\ p.task[i].age <= Seconds
    BY <2>1 DEF Plugins, TaskRecord, Good, Ages, InTime
  <2> QED
    BY <2>2, TimersAssumption
<1>3. q.timerTasks = p.timerTasks /\ q.task = p.task /\ q.data = [n \in Timers |-> shown(n)]
  BY DEF updateTimerProgress, Remaining, Plugins
<1> HIDE DEF rest
<1>4. \A n \in Timers : /\ shown(n) \in Datum /\ shown(n).exists = p.data[n].exists
                        /\ shown(n).playing = p.data[n].playing
                        /\ shown(n).remainingTime = p.data[n].remainingTime
                           \/ (p.timerTasks[n] # NoTask /\ shown(n).remainingTime = rest(n))
  BY <1>1 DEF Plugins, Datum
<1>5. q \in Plugins
  <2>1. q.data \in [Timers -> Datum]
    BY <1>3, <1>4
  <2> QED
    BY <1>3, <2>1 DEF updateTimerProgress, Plugins
<1> HIDE DEF q, shown
<1>6. \A n \in Timers : q.data[n] = shown(n)
  BY <1>3
<1>7. Apart(q) /\ Held(q, D) /\ Running(q, D, thr)
  BY <1>3 DEF Good, Apart, Held, Running
<1>8. Flags(q, D, thr, heard)
  BY <1>3, <1>4, <1>6 DEF Good, Flags
<1>9. Ages(q, D, thr)
  <2> SUFFICES ASSUME late = 0
               PROVE  \A n \in Timers \ D : q.data[n].remainingTime >= 0
    BY <1>3 DEF Good, Ages
  <2>1. \A n \in Timers \ D : p.data[n].remainingTime >= 0
    BY DEF Good, Ages
  <2> QED
    BY <1>2, <1>4, <1>6, <2>1
<1> QED
  BY <1>5, <1>7, <1>8, <1>9 DEF Good, q

\* The dialog deletes a timer or makes a new one: its flag is off, if it exists.
LEMMA EditKeeps ==
  ASSUME NEW p \in Plugins, NEW n \in Timers, NEW D \in SUBSET Timers, NEW thr, NEW heard,
         late \in Nat, Good(p, D, thr, heard),
         (IF p.timerTasks[n] # NoTask THEN {n} ELSE {n} \cap {thr}) \subseteq D,
         NEW q \in {deleteTimer(p, n), addTimer(p, n)}
  PROVE  q \in Plugins /\ Good(q, D, thr, heard)
<1>0. p = [data |-> p.data, timerTasks |-> p.timerTasks, task |-> p.task]
      /\ p.data \in [Timers -> Datum]
  BY DEF Plugins
<1>1. NewTimer \in Datum /\ [p.data[n] EXCEPT !.exists = FALSE] \in Datum
  <2>1. Seconds \in Time
    BY TimersAssumption DEF Time
  <2> QED
    BY <1>0, <2>1 DEF NewTimer, Datum
<1>2. /\ q.data \in [Timers -> Datum]
      /\ q.data[n] = NewTimer \/ q.data[n] = [p.data[n] EXCEPT !.exists = FALSE]
      /\ \A m \in Timers : m # n => q.data[m] = p.data[m]
  <2>1. CASE q = deleteTimer(p, n)
    BY <1>0, <1>1, <2>1 DEF deleteTimer
  <2>2. CASE q = addTimer(p, n)
    BY <1>0, <1>1, <2>2 DEF addTimer
  <2> QED
    BY <2>1, <2>2
<1>3. q.timerTasks = p.timerTasks /\ q.task = p.task
      /\ q = [data |-> q.data, timerTasks |-> q.timerTasks, task |-> q.task]
  BY <1>0 DEF deleteTimer, addTimer
<1>4. q \in Plugins
  BY <1>2, <1>3 DEF Plugins
<1>5. Apart(q) /\ Held(q, D) /\ Running(q, D, thr)
  BY <1>3 DEF Good, Apart, Held, Running
<1>6. Flags(q, D, thr, heard)
  <2> SUFFICES ASSUME NEW m \in Timers \ D
               PROVE  IF q.data[m].exists
                      THEN /\ q.timerTasks[m] # NoTask => q.data[m].playing
                           /\ q.data[m].playing =>
                                \/ q.timerTasks[m] # NoTask /\ (m \in Repeats \/ m # thr)
                                \/ m \notin Repeats /\ m \in heard
                      ELSE q.timerTasks[m] = NoTask
    BY DEF Flags
  <2>1. CASE m = n
    <3>1. q.timerTasks[n] = NoTask
      BY <1>3, <2>1
    <3>2. q.data[n].exists => ~q.data[n].playing
      BY <1>0, <1>2 DEF NewTimer, Datum
    <3> QED
      BY <2>1, <3>1, <3>2
  <2>2. CASE m # n
    BY <1>2, <1>3, <2>2 DEF Good, Flags
  <2> QED
    BY <2>1, <2>2
<1>7. Ages(q, D, thr)
  <2> SUFFICES ASSUME late = 0
               PROVE  \A m \in Timers \ D : q.data[m].remainingTime >= 0
    BY <1>3 DEF Good, Ages
  <2>1. \A m \in Timers \ D : p.data[m].remainingTime >= 0
    BY DEF Good, Ages
  <2>2. n \notin D => q.data[n].remainingTime >= 0
    BY <1>0, <1>2, <2>1, TimersAssumption DEF NewTimer, Datum
  <2> QED
    BY <1>2, <2>1, <2>2
<1> QED
  BY <1>4, <1>5, <1>6, <1>7 DEF Good

(***************************************************************************)
(* The steps.                                                              *)
(***************************************************************************)
RestType ==
    /\ timerThread \in Timers \cup {None} /\ responding \in Timers \cup {None}
    /\ restarting \in Timers \cup {None} /\ inbox \in Seq(Timers) /\ ops \in 0 .. MaxOps
    /\ fault \in {NoFault} \cup [what : {"null", "delay", "responder"}, timer : Timers]
    /\ late \in Lateness
    /\ halted \subseteq Timers /\ dirty \subseteq Timers

LEMMA TypeParts == TypeOK <=> Plugin \in Plugins /\ RestType
  BY DEF TypeOK, Plugin, Plugins, Datum, TaskRecord, Time, RestType

LEMMA TypeNext == (Plugin \in Plugins)' /\ RestType' => TypeOK'
  BY DEF TypeOK, Plugin, Plugins, Datum, TaskRecord, Time, RestType

LEMMA LateIsNat == RestType => late \in Nat
  BY TimersAssumption DEF RestType

\* The plugin becomes q.
LEMMA Stepped ==
  ASSUME NEW q \in Plugins, NEW D, NEW thr, NEW heard, Good(q, D, thr, heard),
         data' = q.data, timerTasks' = q.timerTasks, task' = q.task,
         late' = late, dirty' = D, timerThread' = thr, Heard' = heard
  PROVE  (Plugin \in Plugins)' /\ Good(Plugin, dirty, timerThread, Heard)'
<1>1. /\ Plugin'.data = q.data /\ Plugin'.timerTasks = q.timerTasks /\ Plugin'.task = q.task
  BY DEF Plugin
<1>2. (Plugin \in Plugins)'
  <2>1. Plugin' = q
    BY DEF Plugin, Plugins
  <2> QED
    BY <2>1 DEF Plugins, Datum, TaskRecord, Time
<1>3. Apart(Plugin)' /\ Held(Plugin, dirty)'
  BY <1>1 DEF Good, Apart, Held
<1>4. Flags(Plugin, dirty, timerThread, Heard)'
  BY <1>1 DEF Good, Flags
<1>5. Running(Plugin, dirty, timerThread)' /\ Ages(Plugin, dirty, timerThread)'
  BY <1>1 DEF Good, Running, Ages
<1> QED
  BY <1>2, <1>3, <1>4, <1>5 DEF Good

\* What throws, and about which timer.
Throws(what, n) == fault = NoFault /\ fault' = Fault(what, n)

\* What startTimer() comes to.
LEMMA StartsBecomes ==
  ASSUME IInv, fault = NoFault, NEW n \in Timers, Starts(n)
  PROVE  \E q \in Plugins :
           /\ Becomes(q) /\ Good(q, dirty', timerThread, Heard) /\ dirty' \subseteq Timers
           /\ fault' = fault \/ (Throws("delay", n) /\ (late > 0 \/ n \in dirty'))
<1> DEFINE D == dirty \cup Touched(n)
<1>1. Plugin \in Plugins /\ RestType /\ late \in Nat /\ Good(Plugin, dirty, timerThread, Heard)
  BY TypeParts, LateIsNat DEF IInv
<1>2. /\ D \in SUBSET Timers /\ dirty \subseteq D /\ {n} \cap {timerThread} \subseteq D
  BY <1>1 DEF Touched, RestType
<1>3. dirty' = D
  BY DEF Starts
<1> HIDE DEF D
<1>4. Good(Plugin, D, timerThread, Heard)
  BY <1>1, <1>2, GoodGrows
<1>5. CASE Illegal(Plugin, n)
  <2>1. Throws("delay", n) /\ Becomes(Plugin)
    BY <1>5 DEF Starts, Throws, Becomes, Plugin, plugin
  <2>2. late > 0 \/ n \in D
    <3> SUFFICES ASSUME late = 0, n \notin D PROVE FALSE
      BY <1>1
    <3>1. Plugin.data[n].remainingTime >= 0 /\ Plugin.data[n].remainingTime \in Int
      BY <1>1, <1>4 DEF Good, Ages, Plugins, Datum, Time
    <3> QED
      BY <1>5, <3>1 DEF Illegal, Delay
  <2> QED
    BY <1>1, <1>2, <1>3, <1>4, <2>1, <2>2
<1>6. CASE ~Illegal(Plugin, n)
  <2> DEFINE q == startTimer(Plugin, n)
  <2>1. Becomes(q) /\ fault' = fault /\ (CanStart(Plugin, n) => Unused(Plugin) # {})
    BY <1>6 DEF Starts
  <2>2. q \in Plugins /\ Good(q, D, timerThread, Heard)
    BY <1>1, <1>2, <1>4, <2>1, StartKeeps
  <2> HIDE DEF q
  <2> QED
    BY <1>2, <1>3, <2>1, <2>2
<1> QED
  BY <1>5, <1>6

\* What a call comes to.
LEMMA CallBecomes ==
  ASSUME IInv, NEW n \in Timers, Call(n)
  PROVE  \E q \in Plugins :
           /\ Becomes(q) /\ Good(q, dirty', timerThread, Heard)
           /\ dirty' \subseteq Timers /\ halted' \subseteq Timers
           /\ fault' = fault \/ (Throws("delay", n) /\ (late > 0 \/ n \in dirty'))
<1> DEFINE D == dirty \cup Touched(n)
           Goal(q) == /\ Becomes(q) /\ Good(q, dirty', timerThread, Heard)
                      /\ dirty' \subseteq Timers /\ halted' \subseteq Timers
                      /\ fault' = fault \/ (Throws("delay", n) /\ (late > 0 \/ n \in dirty'))
<1>1. Plugin \in Plugins /\ RestType /\ late \in Nat
  BY TypeParts, LateIsNat DEF IInv
<1>2. /\ D \in SUBSET Timers /\ dirty \subseteq D /\ {n} \cap {timerThread} \subseteq D
      /\ dirty \in SUBSET Timers /\ halted \subseteq Timers
  BY <1>1 DEF Touched, RestType
<1>3. Good(Plugin, dirty, timerThread, Heard)
  BY DEF IInv
<1>4. Good(Plugin, D, timerThread, Heard)
  <2> HIDE DEF D
  <2> QED
    BY <1>1, <1>2, <1>3, GoodGrows
<1>5. Heard \ {n} \subseteq Heard
  OBVIOUS
<1> HIDE DEF D
<1>6. CASE Start(n)
  <2>1. PICK q \in Plugins :
           /\ Becomes(q) /\ Good(q, dirty', timerThread, Heard) /\ dirty' \subseteq Timers
           /\ fault' = fault \/ (Throws("delay", n) /\ (late > 0 \/ n \in dirty'))
    <3>1. fault = NoFault /\ Starts(n)
      BY <1>6 DEF Start, Call, Alive
    <3> QED
      BY <3>1, StartsBecomes
  <2>2. halted' \subseteq Timers
    BY <1>2, <1>6 DEF Start
  <2> QED
    BY <2>1, <2>2
<1>7. CASE Pause(n)
  <2> DEFINE q == pauseTimer(Plugin, n)
  <2>1. dirty' = D /\ halted' \subseteq Timers /\ fault' = fault /\ Becomes(q)
    BY <1>2, <1>7 DEF Pause, D
  <2>2. q \in Plugins /\ Good(q, D, timerThread, Heard)
    BY <1>1, <1>2, <1>4, PauseKeeps
  <2> HIDE DEF q
  <2>3. Goal(q)
    BY <1>2, <2>1, <2>2
  <2> QED
    BY <2>2, <2>3
<1>8. CASE Stop(n)
  <2> DEFINE q == stopTimer(Plugin, n)
  <2>1. dirty' = D /\ halted' \subseteq Timers /\ fault' = fault /\ Becomes(q)
    BY <1>2, <1>8 DEF Stop, D
  <2>2. q \in Plugins /\ Good(q, D, timerThread, Heard)
    BY <1>1, <1>2, <1>4, <1>5, StopKeeps
  <2> HIDE DEF q
  <2>3. Goal(q)
    BY <1>2, <2>1, <2>2
  <2> QED
    BY <2>2, <2>3
<1>9. CASE Reset(n)
  <2> DEFINE q == stopTimer(Plugin, n)
  <2>1. dirty' = D /\ halted' \subseteq Timers /\ fault' = fault /\ Becomes(q)
    BY <1>2, <1>9 DEF Reset, D
  <2>2. q \in Plugins /\ Good(q, D, timerThread, Heard)
    BY <1>1, <1>2, <1>4, <1>5, StopKeeps
  <2> HIDE DEF q
  <2>3. Goal(q)
    BY <1>2, <2>1, <2>2
  <2> QED
    BY <2>2, <2>3
<1>10. CASE GetTimers
  <2> DEFINE q == updateTimerProgress(Plugin)
  <2>1. dirty' = dirty /\ halted' \subseteq Timers /\ fault' = fault /\ Becomes(q)
    BY <1>2, <1>10 DEF GetTimers
  <2>2. q \in Plugins /\ Good(q, dirty, timerThread, Heard)
    BY <1>1, <1>2, <1>3, ProgressKeeps
  <2> HIDE DEF q
  <2>3. Goal(q)
    BY <1>2, <2>1, <2>2
  <2> QED
    BY <2>2, <2>3
<1>11. ASSUME NEW q \in {deleteTimer(Plugin, n), addTimer(Plugin, n)}, Edit(q, n)
       PROVE  \E e \in Plugins : Goal(e)
  <2> DEFINE E == dirty \cup (IF timerTasks[n] # NoTask THEN {n} ELSE Touched(n))
  <2>1. dirty' = E /\ halted' \subseteq Timers /\ fault' = fault /\ Becomes(q)
    BY <1>2, <1>11 DEF Edit
  <2>2. /\ E \in SUBSET Timers /\ dirty \subseteq E
        /\ (IF Plugin.timerTasks[n] # NoTask THEN {n} ELSE {n} \cap {timerThread}) \subseteq E
    BY <1>2 DEF Touched, Plugin, D
  <2> HIDE DEF E
  <2>3. Good(Plugin, E, timerThread, Heard)
    BY <1>1, <1>3, <2>2, GoodGrows
  <2>4. q \in Plugins /\ Good(q, E, timerThread, Heard)
    BY <1>1, <2>2, <2>3, EditKeeps
  <2>5. Goal(q)
    BY <2>1, <2>2, <2>4
  <2> QED
    BY <2>4, <2>5
<1> QED
  BY <1>6, <1>7, <1>8, <1>9, <1>10, <1>11 DEF Call, Dialog

\* What is thrown is explained, when nothing was thrown before.
LEMMA Explained ==
  ASSUME fault = NoFault,
         \/ fault' = NoFault
         \/ \E n \in Timers : \/ Throws("null", n) /\ n \in dirty'
                              \/ Throws("responder", n) /\ ~data'[n].exists
                              \/ Throws("delay", n) /\ (late' > 0 \/ n \in dirty')
  PROVE  /\ ThrowsOnlyIfTouched'
         /\ (fault \in {NoFault} \cup [what : {"null", "delay", "responder"}, timer : Timers])'
  BY DEF ThrowsOnlyIfTouched, Throws, Fault, NoFault, None

LEMMA CallKeeps ==
  ASSUME IInv, NEW n \in Timers, Call(n)
  PROVE  IInv'
<1>1. PICK q \in Plugins :
           /\ Becomes(q) /\ Good(q, dirty', timerThread, Heard)
           /\ dirty' \subseteq Timers /\ halted' \subseteq Timers
           /\ fault' = fault \/ (Throws("delay", n) /\ (late > 0 \/ n \in dirty'))
  BY CallBecomes
<1>2. RestType
  BY TypeParts DEF IInv
<1>3. /\ fault = NoFault /\ ops' = ops - 1 /\ ops > 0
      /\ restarting' \in Timers \cup {None}
      /\ UNCHANGED <<timerThread, inbox, responding, late>>
  BY <1>2 DEF Call, Alive, Reset, RestType
<1>4. ThrowsOnlyIfTouched'
      /\ (fault \in {NoFault} \cup [what : {"null", "delay", "responder"}, timer : Timers])'
  <2>1. late' = late
    BY <1>3
  <2> QED
    BY <1>1, <1>3, <2>1, Explained
<1>5. RestType'
  BY <1>1, <1>2, <1>3, <1>4, TimersAssumption DEF RestType
<1>6. Heard' = Heard
  BY <1>3 DEF Heard
<1>7. (Plugin \in Plugins)' /\ Good(Plugin, dirty, timerThread, Heard)'
  BY <1>1, <1>3, <1>6, Stepped DEF Becomes
<1>8. TypeOK'
  BY <1>5, <1>7, TypeNext
<1> QED
  BY <1>4, <1>7, <1>8 DEF IInv

\* Fire changes one task, which its timer holds, or which is a dirty timer's.
LEMMA FireKeeps ==
  ASSUME IInv, Fire
  PROVE  IInv'
<1>1. Plugin \in Plugins /\ RestType /\ late \in Nat /\ Good(Plugin, dirty, None, Heard)
  <2>1. timerThread = None
    BY DEF Fire
  <2> QED
    BY <2>1, TypeParts, LateIsNat DEF IInv
<1>2. PICK i \in Tasks :
         LET n == task[i].name IN
         /\ task[i].live /\ task[i].due <= 0
         /\ timerThread' = n /\ inbox' = Append(inbox, n)
         /\ task' = [task EXCEPT ![i] = IF n \in Repeats THEN [@ EXCEPT !.due = Seconds]
                                                         ELSE [@ EXCEPT !.live = FALSE]]
  BY DEF Fire
<1> DEFINE n == task[i].name
           t == IF n \in Repeats THEN [task[i] EXCEPT !.due = Seconds]
                                  ELSE [task[i] EXCEPT !.live = FALSE]
           p == Plugin
           q == [data |-> data, timerTasks |-> timerTasks, task |-> task']
           told == Heard \cup {n}
<1>3. /\ fault = NoFault /\ fault' = NoFault
      /\ UNCHANGED <<data, timerTasks, responding, restarting, ops, late, halted, dirty>>
  BY DEF Fire, Alive
<1>4. task[i] \in TaskRecord /\ n \in Timers /\ n # None
  BY <1>1, <1>2, TimersAssumption DEF Plugins, Plugin, Good, Apart
<1>5. t \in TaskRecord
  <2>1. Seconds \in Time
    BY <1>1, TimersAssumption DEF Time
  <2> QED
    BY <1>4, <2>1 DEF TaskRecord
<1>6. /\ q.data = p.data /\ q.timerTasks = p.timerTasks
      /\ q.task[i] = t /\ \A j \in Tasks : j # i => q.task[j] = p.task[j]
      /\ p.data = data /\ p.timerTasks = timerTasks /\ p.task = task
  BY <1>1, <1>2 DEF Plugins, Plugin
<1>7. q \in Plugins
  <2>1. task' \in [Tasks -> TaskRecord]
    BY <1>1, <1>2, <1>5 DEF Plugins, Plugin
  <2> QED
    BY <1>1, <2>1 DEF Plugins, Plugin
<1>8. /\ t.name = n /\ t.age = task[i].age /\ (t.live <=> n \in Repeats)
      /\ t.live => t.due = Seconds
  BY <1>2, <1>4 DEF TaskRecord
<1> HIDE DEF q, t
<1>9. Apart(q)
  <2>1. \A m, k \in Timers :
          q.timerTasks[m] # NoTask /\ q.timerTasks[m] = q.timerTasks[k] => m = k
    BY <1>1, <1>6 DEF Good, Apart
  <2>2. ASSUME NEW m \in Timers, q.timerTasks[m] # NoTask, q.task[q.timerTasks[m]].live
        PROVE  q.task[q.timerTasks[m]].name = m
    <3> DEFINE j == timerTasks[m]
    <3>1. j \in Tasks /\ q.timerTasks[m] = j
      BY <1>1, <1>6, <2>2 DEF Plugins
    <3>2. CASE j = i
      <4>1. task[j].name = m
        BY <1>1, <1>2, <1>6, <2>2, <3>1, <3>2 DEF Good, Apart
      <4> QED
        BY <1>6, <1>8, <2>2, <3>1, <3>2, <4>1
    <3>3. CASE j # i
      BY <1>1, <1>6, <2>2, <3>1, <3>3 DEF Good, Apart
    <3> QED
      BY <3>2, <3>3
  <2>3. \A j \in Tasks : q.task[j].live => q.task[j].name \in Timers
    <3> SUFFICES ASSUME NEW j \in Tasks, q.task[j].live PROVE q.task[j].name \in Timers
      OBVIOUS
    <3>1. CASE j = i
      BY <1>4, <1>6, <1>8, <3>1
    <3>2. CASE j # i
      BY <1>1, <1>6, <3>2 DEF Good, Apart
    <3> QED
      BY <3>1, <3>2
  <2> QED
    BY <2>1, <2>2, <2>3 DEF Apart
<1>10. n \notin dirty => timerTasks[n] = i
  BY <1>1, <1>2, <1>6 DEF Good, Held
<1>11. Held(q, dirty)
  <2> SUFFICES ASSUME NEW j \in Tasks, q.task[j].live, q.task[j].name \notin dirty
               PROVE  q.timerTasks[q.task[j].name] = j
    BY DEF Held
  <2>1. CASE j = i
    BY <1>6, <1>8, <1>10, <2>1
  <2>2. CASE j # i
    BY <1>1, <1>6, <2>2 DEF Good, Held
  <2> QED
    BY <2>1, <2>2
<1>12. i # NoTask
  BY DEF Tasks, NoTask
<1>13. Flags(q, dirty, n, told)
  <2> SUFFICES ASSUME NEW m \in Timers \ dirty
               PROVE  IF q.data[m].exists
                      THEN /\ q.timerTasks[m] # NoTask => q.data[m].playing
                           /\ q.data[m].playing =>
                                \/ q.timerTasks[m] # NoTask /\ (m \in Repeats \/ m # n)
                                \/ m \notin Repeats /\ m \in told
                      ELSE q.timerTasks[m] = NoTask
    BY DEF Flags
  <2>1. CASE m = n
    <3>1. q.timerTasks[m] # NoTask /\ m \in told
      BY <1>6, <1>10, <1>12, <2>1
    <3> HIDE DEF n
    <3> QED
      BY <1>1, <1>6, <2>1, <3>1 DEF Good, Flags
  <2>2. CASE m # n
    BY <1>1, <1>6, <2>2 DEF Good, Flags
  <2> QED
    BY <2>1, <2>2
<1>14. Running(q, dirty, n)
  <2> SUFFICES ASSUME n \in Timers \ dirty
               PROVE  IF n \in Repeats THEN q.timerTasks[n] # NoTask
                      ELSE \A j \in Tasks : q.task[j].live => q.task[j].name # n
    BY DEF Running
  <2>1. CASE n \in Repeats
    BY <1>6, <1>10, <1>12, <2>1
  <2>2. CASE n \notin Repeats
    <3>1. ASSUME NEW j \in Tasks, q.task[j].live, q.task[j].name = n PROVE FALSE
      <4>1. j # i
        BY <1>6, <1>8, <2>2, <3>1
      <4>2. task[j].live /\ task[j].name = n
        BY <1>6, <3>1, <4>1
      <4>3. timerTasks[n] = j
        BY <1>1, <1>6, <4>2 DEF Good, Held
      <4> QED
        BY <1>10, <4>1, <4>3
    <3> QED
      BY <2>2, <3>1
  <2> QED
    BY <2>1, <2>2
<1>15. Ages(q, dirty, n)
  <2> SUFFICES ASSUME late = 0, NEW m \in Timers \ dirty
               PROVE  /\ q.data[m].remainingTime >= 0
                      /\ q.timerTasks[m] # NoTask => InTime(q.task[q.timerTasks[m]], m, n)
    BY DEF Ages
  <2>1. /\ p.data[m].remainingTime >= 0
        /\ p.timerTasks[m] # NoTask => InTime(p.task[p.timerTasks[m]], m, None)
    BY <1>1 DEF Good, Ages
  <2>2. m # None
    BY TimersAssumption
  <2>3. ASSUME p.timerTasks[m] # NoTask PROVE InTime(q.task[p.timerTasks[m]], m, n)
    <3>1. p.timerTasks[m] \in Tasks
      BY <1>1, <2>3 DEF Plugins
    <3>2. CASE p.timerTasks[m] = i
      <4>1. m = n
        BY <1>1, <1>2, <1>6, <2>3, <3>2 DEF Good, Apart
      <4>2. task[i].age <= Seconds
        BY <1>6, <2>1, <2>3, <3>2 DEF InTime
      <4> HIDE DEF n
      <4> QED
        BY <1>6, <1>8, <3>2, <4>1, <4>2, TimersAssumption DEF InTime
    <3>3. CASE p.timerTasks[m] # i
      <4>1. q.task[p.timerTasks[m]] = p.task[p.timerTasks[m]]
        BY <1>6, <3>1, <3>3
      <4> QED
        BY <2>1, <2>2, <2>3, <4>1 DEF InTime
    <3> QED
      BY <3>2, <3>3
  <2> QED
    BY <1>6, <2>1, <2>3
<1>16. Heard' = told
  <2>1. /\ Len(inbox') = Len(inbox) + 1 /\ inbox'[Len(inbox) + 1] = n /\ Len(inbox) \in Nat
        /\ \A j \in 1 .. Len(inbox) : inbox'[j] = inbox[j]
    BY <1>1, <1>2, <1>4 DEF RestType
  <2> HIDE DEF n
  <2>2. \A m : (\E j \in 1 .. Len(inbox') : inbox'[j] = m)
               <=> (m = n \/ \E j \in 1 .. Len(inbox) : inbox[j] = m)
    BY <2>1
  <2> QED
    BY <1>3, <1>4, <2>2 DEF Heard
<1>17. Good(q, dirty, n, told)
  BY <1>9, <1>11, <1>13, <1>14, <1>15 DEF Good
<1>18. (Plugin \in Plugins)' /\ Good(Plugin, dirty, timerThread, Heard)'
  <2>1. data' = q.data /\ timerTasks' = q.timerTasks /\ task' = q.task /\ timerThread' = n
    BY <1>2, <1>3 DEF q
  <2> HIDE DEF n, told
  <2> QED
    BY <1>3, <1>7, <1>16, <1>17, <2>1, Stepped
<1>19. ThrowsOnlyIfTouched'
  BY <1>3, Explained
<1>20. RestType'
  <2>1. inbox' \in Seq(Timers)
    BY <1>1, <1>2, <1>4 DEF RestType
  <2> QED
    BY <1>1, <1>2, <1>3, <1>4, <2>1 DEF RestType
<1> QED
  BY <1>18, <1>19, <1>20, TypeNext DEF IInv

\* The end of run() of a timer that exists no more, or that lost its task.
LEMMA EndedIdle ==
  ASSUME NEW p \in Plugins, NEW n \in Timers, NEW D \in SUBSET Timers, NEW heard,
         Good(p, D, n, heard), p.data[n].exists => n \in D
  PROVE  Good(p, D, None, heard)
<1>1. Flags(p, D, None, heard)
  BY TimersAssumption DEF Good, Flags
<1>2. Running(p, D, None)
  BY TimersAssumption DEF Running
<1>3. Ages(p, D, None)
  <2> SUFFICES ASSUME late = 0, NEW m \in Timers \ D
               PROVE  /\ p.data[m].remainingTime >= 0
                      /\ p.timerTasks[m] # NoTask => InTime(p.task[p.timerTasks[m]], m, None)
    BY DEF Ages
  <2>1. /\ p.data[m].remainingTime >= 0
        /\ p.timerTasks[m] # NoTask => InTime(p.task[p.timerTasks[m]], m, n)
    BY DEF Good, Ages
  <2>2. m = n => p.timerTasks[m] = NoTask
    BY DEF Good, Flags
  <2> QED
    BY <2>1, <2>2 DEF InTime
<1> QED
  BY <1>1, <1>2, <1>3 DEF Good

\* The end of run() of a timer that repeats.
LEMMA EndedAnew ==
  ASSUME NEW p \in Plugins, NEW n \in Timers, NEW D \in SUBSET Timers, NEW heard, late \in Nat,
         n \in Repeats, p.timerTasks[n] # NoTask, Good(p, D, n, heard)
  PROVE  LET q == [data |-> p.data, timerTasks |-> p.timerTasks,
                   task |-> [p.task EXCEPT ![p.timerTasks[n]].age = 0]] IN
         q \in Plugins /\ Good(q, D, None, heard)
<1> DEFINE i == p.timerTasks[n]
           t == [p.task[i] EXCEPT !.age = 0]
           q == [data |-> p.data, timerTasks |-> p.timerTasks,
                 task |-> [p.task EXCEPT ![i].age = 0]]
<1>1. i \in Tasks /\ p.task[i] \in TaskRecord
  BY DEF Plugins
<1>2. /\ t \in TaskRecord /\ t.live = p.task[i].live /\ t.name = p.task[i].name
      /\ t.due = p.task[i].due /\ t.age = 0
  <2>1. 0 \in 0 .. Seconds + late + 1
    BY TimersAssumption
  <2> QED
    BY <1>1, <2>1 DEF TaskRecord
<1> HIDE DEF t
<1>4. /\ q.task \in [Tasks -> TaskRecord]
      /\ q.task[i] = t /\ \A j \in Tasks : j # i => q.task[j] = p.task[j]
      /\ q.data = p.data /\ q.timerTasks = p.timerTasks
  BY <1>1, <1>2 DEF Plugins, t
<1>5. q \in Plugins
  BY <1>4 DEF Plugins
<1> HIDE DEF q
<1>6. \A j \in Tasks : /\ q.task[j].live = p.task[j].live /\ q.task[j].name = p.task[j].name
                       /\ q.task[j].due = p.task[j].due
                       /\ IF j = i THEN q.task[j].age = 0 ELSE q.task[j].age = p.task[j].age
  BY <1>2, <1>4
<1>7. Apart(q)
  <2>1. \A m \in Timers : p.timerTasks[m] # NoTask => p.timerTasks[m] \in Tasks
    BY DEF Plugins
  <2>2. \A m \in Timers : q.timerTasks[m] # NoTask /\ q.task[q.timerTasks[m]].live
         => q.task[q.timerTasks[m]].name = m
    BY <1>4, <1>6, <2>1 DEF Good, Apart
  <2>3. \A j \in Tasks : q.task[j].live => q.task[j].name \in Timers
    BY <1>6 DEF Good, Apart
  <2> QED
    BY <1>4, <2>2, <2>3 DEF Good, Apart
<1>8. Held(q, D)
  BY <1>4, <1>6 DEF Good, Held
<1>9. Flags(q, D, None, heard)
  BY <1>4, TimersAssumption DEF Good, Flags
<1>10. Running(q, D, None)
  BY TimersAssumption DEF Running
<1>11. Ages(q, D, None)
  <2> SUFFICES ASSUME late = 0, NEW m \in Timers \ D
               PROVE  /\ q.data[m].remainingTime >= 0
                      /\ q.timerTasks[m] # NoTask => InTime(q.task[q.timerTasks[m]], m, None)
    BY DEF Ages
  <2>1. /\ p.data[m].remainingTime >= 0
        /\ p.timerTasks[m] # NoTask => InTime(p.task[p.timerTasks[m]], m, n)
    BY DEF Good, Ages
  <2>2. ASSUME p.timerTasks[m] # NoTask PROVE InTime(q.task[p.timerTasks[m]], m, None)
    <3>1. p.timerTasks[m] \in Tasks
      BY <2>2 DEF Plugins
    <3>2. InTime(p.task[p.timerTasks[m]], m, n)
      BY <2>1, <2>2
    <3>3. CASE m = n
      <4>1. p.task[i].due \in Int /\ p.task[i].due <= Seconds
        BY <1>1, TimersAssumption DEF TaskRecord, Time
      <4>2. p.task[i].live /\ p.task[i].due >= 0
        BY <3>2, <3>3 DEF InTime
      <4>3. t.live /\ t.age = 0 /\ t.due = p.task[i].due
        BY <1>2, <4>2
      <4>4. InTime(t, m, None)
        BY <4>1, <4>2, <4>3, TimersAssumption DEF InTime
      <4> QED
        BY <1>4, <3>3, <4>4
    <3>4. CASE m # n
      <4>1. p.timerTasks[m] # i
        BY <2>2, <3>4 DEF Good, Apart
      <4>2. q.task[p.timerTasks[m]] = p.task[p.timerTasks[m]]
        BY <1>4, <3>1, <4>1
      <4> QED
        BY <3>2, <3>4, <4>2 DEF InTime
    <3> QED
      BY <3>3, <3>4
  <2> QED
    BY <1>4, <2>1, <2>2
<1> QED
  BY <1>5, <1>7, <1>8, <1>9, <1>10, <1>11 DEF Good, q

\* The end of run() of a timer that does not repeat: its task is removed, and gone
\* unless it is another that is scheduled.
LEMMA EndedOnce ==
  ASSUME NEW p \in Plugins, NEW n \in Timers, NEW D \in SUBSET Timers, NEW heard, late \in Nat,
         n \notin Repeats, Good(p, D, n, heard)
  PROVE  LET q == [data |-> p.data, timerTasks |-> [p.timerTasks EXCEPT ![n] = NoTask],
                   task |-> [i \in Tasks |-> IF i = p.timerTasks[n] /\ ~p.task[i].live
                                             THEN Free ELSE p.task[i]]] IN
         q \in Plugins /\ Good(q, D, None, heard)
<1> DEFINE q == [data |-> p.data, timerTasks |-> [p.timerTasks EXCEPT ![n] = NoTask],
                 task |-> [i \in Tasks |-> IF i = p.timerTasks[n] /\ ~p.task[i].live
                                           THEN Free ELSE p.task[i]]]
<1>1. /\ q.timerTasks \in [Timers -> Tasks \cup {NoTask}]
      /\ q.timerTasks[n] = NoTask
      /\ \A m \in Timers : m # n => q.timerTasks[m] = p.timerTasks[m]
      /\ q.data = p.data
  BY DEF Plugins
<1>2. Free \in TaskRecord
  BY TimersAssumption DEF Free, TaskRecord, Time
<1>3. q \in Plugins
  <2>1. q.task \in [Tasks -> TaskRecord]
    BY <1>2 DEF Plugins
  <2> QED
    BY <1>1, <2>1 DEF Plugins
<1>4. \A i \in Tasks : /\ q.task[i].live = p.task[i].live
                       /\ p.task[i].live \/ i # p.timerTasks[n] => q.task[i] = p.task[i]
  <2>1. \A i \in Tasks : p.task[i].live \in BOOLEAN
    BY DEF Plugins, TaskRecord
  <2>2. \A i \in Tasks : q.task[i] = IF i = p.timerTasks[n] /\ ~p.task[i].live
                                     THEN Free ELSE p.task[i]
    OBVIOUS
  <2> QED
    BY <2>1, <2>2 DEF Free
<1> HIDE DEF q
<1>5. Apart(q)
  <2>1. \A m, k \in Timers :
          q.timerTasks[m] # NoTask /\ q.timerTasks[m] = q.timerTasks[k] => m = k
    BY <1>1 DEF Good, Apart
  <2>2. ASSUME NEW m \in Timers, q.timerTasks[m] # NoTask, q.task[q.timerTasks[m]].live
        PROVE  q.task[q.timerTasks[m]].name = m
    <3>1. q.timerTasks[m] = p.timerTasks[m] /\ p.timerTasks[m] \in Tasks
      BY <1>1, <2>2 DEF Plugins
    <3>2. p.task[p.timerTasks[m]].live /\ q.task[p.timerTasks[m]] = p.task[p.timerTasks[m]]
      BY <1>4, <2>2, <3>1
    <3> QED
      BY <2>2, <3>1, <3>2 DEF Good, Apart
  <2>3. \A i \in Tasks : q.task[i].live => q.task[i].name \in Timers
    BY <1>4 DEF Good, Apart
  <2> QED
    BY <2>1, <2>2, <2>3 DEF Apart
<1>6. Held(q, D)
  <2> SUFFICES ASSUME NEW i \in Tasks, q.task[i].live, q.task[i].name \notin D
               PROVE  q.timerTasks[q.task[i].name] = i
    BY DEF Held
  <2>1. q.task[i] = p.task[i] /\ p.task[i].live
    BY <1>4
  <2>2. p.timerTasks[p.task[i].name] = i /\ p.task[i].name \in Timers
    BY <2>1 DEF Good, Held, Apart
  <2>3. p.task[i].name # n
    BY <2>1 DEF Good, Running
  <2> QED
    BY <1>1, <2>1, <2>2, <2>3
<1>7. Flags(q, D, None, heard)
  <2> SUFFICES ASSUME NEW m \in Timers \ D
               PROVE  IF q.data[m].exists
                      THEN /\ q.timerTasks[m] # NoTask => q.data[m].playing
                           /\ q.data[m].playing =>
                                \/ q.timerTasks[m] # NoTask /\ (m \in Repeats \/ m # None)
                                \/ m \notin Repeats /\ m \in heard
                      ELSE q.timerTasks[m] = NoTask
    BY DEF Flags
  <2>1. CASE m = n
    BY <1>1, <2>1 DEF Good, Flags
  <2>2. CASE m # n
    BY <1>1, <2>2, TimersAssumption DEF Good, Flags
  <2> QED
    BY <2>1, <2>2
<1>8. Running(q, D, None)
  BY TimersAssumption DEF Running
<1>9. Ages(q, D, None)
  <2> SUFFICES ASSUME late = 0, NEW m \in Timers \ D
               PROVE  /\ q.data[m].remainingTime >= 0
                      /\ q.timerTasks[m] # NoTask => InTime(q.task[q.timerTasks[m]], m, None)
    BY DEF Ages
  <2>1. /\ p.data[m].remainingTime >= 0
        /\ p.timerTasks[m] # NoTask => InTime(p.task[p.timerTasks[m]], m, n)
    BY DEF Good, Ages
  <2>2. ASSUME m # n, p.timerTasks[m] # NoTask PROVE InTime(q.task[p.timerTasks[m]], m, None)
    <3>1. p.timerTasks[m] \in Tasks /\ p.timerTasks[m] # p.timerTasks[n]
      BY <2>2 DEF Plugins, Good, Apart
    <3>2. q.task[p.timerTasks[m]] = p.task[p.timerTasks[m]]
      BY <1>4, <3>1
    <3> QED
      BY <2>1, <2>2, <3>2 DEF InTime
  <2> QED
    BY <1>1, <2>1, <2>2
<1> QED
  BY <1>3, <1>5, <1>6, <1>7, <1>8, <1>9 DEF Good, q

LEMMA RunEndsKeeps ==
  ASSUME IInv, RunEnds
  PROVE  IInv'
<1> DEFINE n == timerThread
<1>1. Plugin \in Plugins /\ RestType /\ late \in Nat /\ Good(Plugin, dirty, n, Heard)
  BY TypeParts, LateIsNat DEF IInv
<1>2. /\ fault = NoFault /\ n \in Timers /\ timerThread' = None /\ dirty \in SUBSET Timers
      /\ UNCHANGED <<inbox, responding, restarting, ops, late, halted, dirty>>
  BY <1>1 DEF RunEnds, Alive, RestType
<1>3. Heard' = Heard
  BY <1>2 DEF Heard
<1>4. Plugin.data = data /\ Plugin.timerTasks = timerTasks /\ Plugin.task = task
  BY DEF Plugin
<1> DEFINE Goal == /\ \E q \in Plugins : /\ data' = q.data /\ timerTasks' = q.timerTasks
                                         /\ task' = q.task /\ Good(q, dirty, None, Heard)
                   /\ fault' = NoFault \/ (Throws("null", n) /\ n \in dirty)
<1> HIDE DEF n
<1>5. ASSUME data[n].exists /\ n \in Repeats /\ timerTasks[n] = NoTask PROVE Goal
  <2>1. Throws("null", n) /\ UNCHANGED plugin
    BY <1>2, <1>5 DEF RunEnds, n, Throws
  <2>2. n \in dirty
    BY <1>1, <1>2, <1>4, <1>5 DEF Good, Running
  <2>3. Good(Plugin, dirty, None, Heard)
    BY <1>1, <1>2, <2>2, EndedIdle
  <2> QED
    BY <1>1, <1>4, <2>1, <2>2, <2>3 DEF plugin
<1>6. ASSUME ~data[n].exists PROVE Goal
  <2>1. fault' = NoFault /\ UNCHANGED plugin
    BY <1>2, <1>6 DEF RunEnds, n
  <2>2. Good(Plugin, dirty, None, Heard)
    BY <1>1, <1>2, <1>4, <1>6, EndedIdle
  <2> QED
    BY <1>1, <1>4, <2>1, <2>2 DEF plugin
<1>7. ASSUME data[n].exists /\ n \in Repeats /\ timerTasks[n] # NoTask PROVE Goal
  <2> DEFINE q == [data |-> Plugin.data, timerTasks |-> Plugin.timerTasks,
                   task |-> [Plugin.task EXCEPT ![Plugin.timerTasks[n]].age = 0]]
  <2>1. fault' = NoFault /\ data' = q.data /\ timerTasks' = q.timerTasks /\ task' = q.task
    BY <1>2, <1>4, <1>7 DEF RunEnds, Ran, n
  <2>2. q \in Plugins /\ Good(q, dirty, None, Heard)
    BY <1>1, <1>2, <1>4, <1>7, EndedAnew
  <2> HIDE DEF q
  <2> QED
    BY <2>1, <2>2
<1>8. ASSUME data[n].exists /\ n \notin Repeats PROVE Goal
  <2> DEFINE q == [data |-> Plugin.data,
                   timerTasks |-> [Plugin.timerTasks EXCEPT ![n] = NoTask],
                   task |-> [i \in Tasks |->
                               IF i = Plugin.timerTasks[n] /\ ~Plugin.task[i].live
                               THEN Free ELSE Plugin.task[i]]]
  <2>1. fault' = NoFault /\ data' = q.data /\ timerTasks' = q.timerTasks /\ task' = q.task
    BY <1>2, <1>4, <1>8 DEF RunEnds, Ran, Removed, n
  <2>2. q \in Plugins /\ Good(q, dirty, None, Heard)
    BY <1>1, <1>2, <1>8, EndedOnce
  <2> HIDE DEF q
  <2> QED
    BY <2>1, <2>2
<1>9. Goal
  BY <1>5, <1>6, <1>7, <1>8
<1>10. (Plugin \in Plugins)' /\ Good(Plugin, dirty, timerThread, Heard)'
  BY <1>2, <1>3, <1>9, Stepped
<1>11. ThrowsOnlyIfTouched'
       /\ (fault \in {NoFault} \cup [what : {"null", "delay", "responder"}, timer : Timers])'
  BY <1>2, <1>9, Explained
<1>12. RestType'
  BY <1>1, <1>2, <1>11 DEF RestType
<1> QED
  BY <1>10, <1>11, <1>12, TypeNext DEF IInv

\* Only timers that exist need to be heard.
LEMMA HeardLess ==
  ASSUME NEW p \in Plugins, NEW D, NEW thr, NEW heard, NEW told, Good(p, D, thr, heard),
         \A m \in Timers : m \in heard /\ p.data[m].exists => m \in told
  PROVE  Good(p, D, thr, told)
<1>1. Flags(p, D, thr, told)
  BY DEF Good, Flags
<1> QED
  BY <1>1 DEF Good

LEMMA RespondKeeps ==
  ASSUME IInv, Respond
  PROVE  IInv'
<1>1. Plugin \in Plugins /\ RestType /\ Good(Plugin, dirty, timerThread, Heard)
  BY TypeParts DEF IInv
<1>2. /\ fault = NoFault /\ fault' = NoFault /\ responding = None /\ inbox # <<>>
      /\ inbox' = Tail(inbox)
      /\ responding' = IF data[Head(inbox)].exists THEN Head(inbox) ELSE None
      /\ UNCHANGED <<plugin, timerThread, restarting, ops, late, halted, dirty>>
  BY DEF Respond, Alive, Idle
<1>3. /\ Len(inbox) \in Nat /\ Len(inbox') = Len(inbox) - 1
      /\ \A i \in 1 .. Len(inbox') : inbox'[i] = inbox[i + 1]
      /\ Head(inbox) = inbox[1] /\ Head(inbox) \in Timers /\ inbox' \in Seq(Timers)
  BY <1>1, <1>2 DEF RestType
<1>4. \A m \in Timers : m \in Heard /\ data[m].exists => m \in Heard'
  <2> SUFFICES ASSUME NEW m \in Timers, m \in Heard, data[m].exists
               PROVE  m = responding' \/ \E i \in 1 .. Len(inbox') : inbox'[i] = m
    BY DEF Heard
  <2>1. PICK i \in 1 .. Len(inbox) : inbox[i] = m
    BY <1>2, TimersAssumption DEF Heard
  <2>2. CASE i = 1
    BY <1>2, <1>3, <2>1, <2>2
  <2>3. CASE i # 1
    <3>1. i - 1 \in 1 .. Len(inbox') /\ inbox'[i - 1] = inbox[(i - 1) + 1]
      BY <1>3, <2>3
    <3>2. (i - 1) + 1 = i
      OBVIOUS
    <3> QED
      BY <2>1, <3>1, <3>2
  <2> QED
    BY <2>2, <2>3
<1>5. Good(Plugin, dirty, timerThread, Heard')
  <2>1. \A m \in Timers : m \in Heard /\ Plugin.data[m].exists => m \in Heard'
    BY <1>4 DEF Plugin
  <2> QED
    BY <1>1, <2>1, HeardLess
<1>6. (Plugin \in Plugins)' /\ Good(Plugin, dirty, timerThread, Heard)'
  <2>1. data' = Plugin.data /\ timerTasks' = Plugin.timerTasks /\ task' = Plugin.task
    BY <1>2 DEF Plugin, plugin
  <2> QED
    BY <1>1, <1>2, <1>5, <2>1, Stepped
<1>7. RestType'
  BY <1>1, <1>2, <1>3 DEF RestType
<1>8. ThrowsOnlyIfTouched'
  BY <1>2, Explained
<1> QED
  BY <1>6, <1>7, <1>8, TypeNext DEF IInv

LEMMA RespondedKeeps ==
  ASSUME IInv, Responded
  PROVE  IInv'
<1> DEFINE n == responding
           D == dirty \cup Touched(n)
<1>1. Plugin \in Plugins /\ RestType /\ late \in Nat /\ Good(Plugin, dirty, timerThread, Heard)
  BY TypeParts, LateIsNat DEF IInv
<1>2. /\ fault = NoFault /\ n \in Timers /\ responding' = None /\ dirty' = D
      /\ restarting' \in {n, restarting, None}
      /\ UNCHANGED <<timerThread, inbox, ops, late, halted>>
  BY <1>1 DEF Responded, Alive, RestType
<1>3. /\ D \in SUBSET Timers /\ dirty \subseteq D /\ {n} \cap {timerThread} \subseteq D
  BY <1>1, <1>2 DEF Touched, RestType
<1>4. Heard \ {n} \subseteq Heard'
  BY <1>2 DEF Heard
<1> HIDE DEF D
<1>5. Good(Plugin, D, timerThread, Heard)
  BY <1>1, <1>3, GoodGrows
<1> DEFINE Goal == /\ \E q \in Plugins : Becomes(q) /\ Good(q, D, timerThread, Heard')
                   /\ fault' = NoFault \/ (Throws("responder", n) /\ ~data'[n].exists)
<1> HIDE DEF n
<1>6. ASSUME ~data[n].exists, fault' = Fault("responder", n), UNCHANGED plugin PROVE Goal
  <2>1. \A m \in Timers : m \in Heard /\ Plugin.data[m].exists => m \in Heard'
    BY <1>4, <1>6 DEF Plugin
  <2>2. Good(Plugin, D, timerThread, Heard')
    BY <1>1, <1>5, <2>1, HeardLess
  <2>3. Becomes(Plugin) /\ ~data'[n].exists /\ Throws("responder", n)
    BY <1>2, <1>6 DEF Becomes, Plugin, plugin, Throws
  <2> QED
    BY <1>1, <2>2, <2>3
<1>7. ASSUME Becomes(AfterResponders(Plugin, n)), fault' = fault PROVE Goal
  <2> DEFINE q == stopTimer(Plugin, n)
  <2>1. q \in Plugins /\ Good(q, D, timerThread, Heard')
    BY <1>1, <1>2, <1>3, <1>4, <1>5, StopKeeps
  <2>2. Becomes(q) /\ fault' = NoFault
    BY <1>2, <1>7 DEF AfterResponders
  <2> HIDE DEF q
  <2> QED
    BY <2>1, <2>2
<1>8. Goal
  BY <1>6, <1>7 DEF Responded, n
<1>9. (Plugin \in Plugins)' /\ Good(Plugin, dirty, timerThread, Heard)'
  <2>1. PICK q \in Plugins : Becomes(q) /\ Good(q, D, timerThread, Heard')
    BY <1>8
  <2> QED
    BY <1>2, <2>1, Stepped DEF Becomes
<1>10. ThrowsOnlyIfTouched'
       /\ (fault \in {NoFault} \cup [what : {"null", "delay", "responder"}, timer : Timers])'
  BY <1>2, <1>8, Explained
<1>11. RestType'
  BY <1>1, <1>2, <1>3, <1>10 DEF RestType
<1> QED
  BY <1>9, <1>10, <1>11, TypeNext DEF IInv

\* The start after the stop, whatever came in between.
LEMMA RestartKeeps ==
  ASSUME IInv, Restart
  PROVE  IInv'
<1> DEFINE n == restarting
<1>1. RestType
  BY TypeParts DEF IInv
<1>2. /\ fault = NoFault /\ n \in Timers /\ restarting' = None /\ Starts(n)
      /\ UNCHANGED <<timerThread, inbox, responding, ops, late, halted>>
  BY <1>1 DEF Restart, Alive, RestType
<1> HIDE DEF n
<1>3. PICK q \in Plugins :
           /\ Becomes(q) /\ Good(q, dirty', timerThread, Heard) /\ dirty' \subseteq Timers
           /\ fault' = fault \/ (Throws("delay", n) /\ (late > 0 \/ n \in dirty'))
  BY <1>2, StartsBecomes
<1>4. Heard' = Heard
  BY <1>2 DEF Heard
<1>5. (Plugin \in Plugins)' /\ Good(Plugin, dirty, timerThread, Heard)'
  BY <1>2, <1>3, <1>4, Stepped DEF Becomes
<1>6. ThrowsOnlyIfTouched'
      /\ (fault \in {NoFault} \cup [what : {"null", "delay", "responder"}, timer : Timers])'
  <2>1. late' = late
    BY <1>2
  <2> QED
    BY <1>2, <1>3, <2>1, Explained
<1>7. RestType'
  BY <1>1, <1>2, <1>3, <1>6 DEF RestType
<1> QED
  BY <1>5, <1>6, <1>7, TypeNext DEF IInv

\* A second moves the due times and the ages of the tasks that are scheduled.
LEMMA TickKeeps ==
  ASSUME IInv, Tick
  PROVE  IInv'
<1> DEFINE p == Plugin
           q == [data |-> data, timerTasks |-> timerTasks, task |-> task']
<1>1. p \in Plugins /\ RestType /\ late \in Nat /\ Good(p, dirty, None, Heard)
  <2>1. timerThread = None
    BY DEF Tick
  <2> QED
    BY <2>1, TypeParts, LateIsNat DEF IInv
<1>2. /\ fault = NoFault /\ fault' = NoFault /\ timerThread = None
      /\ \A i \in Tasks : task[i].live => task[i].due > 0 - late
      /\ task' = [i \in Tasks |->
                  [task[i] EXCEPT
                     !.due = IF task[i].live THEN @ - 1 ELSE @,
                     !.age = IF task[i].name = None \/ @ > Seconds + late THEN @ ELSE @ + 1]]
      /\ UNCHANGED <<data, timerTasks, timerThread, inbox, responding, restarting, ops, late,
                     halted, dirty>>
  BY DEF Tick, Alive
<1>3. p.data = data /\ p.timerTasks = timerTasks /\ p.task = task
      /\ \A i \in Tasks : task[i] \in TaskRecord
  BY <1>1 DEF Plugin, Plugins
<1> DEFINE Ticked(t, u) ==
             /\ u.live = t.live /\ u.name = t.name
             /\ u.due = IF t.live THEN t.due - 1 ELSE t.due
             /\ u.age = IF t.name = None \/ t.age > Seconds + late THEN t.age ELSE t.age + 1
             /\ u = [name |-> u.name, live |-> u.live, due |-> u.due, age |-> u.age]
<1>4. \A i \in Tasks : Ticked(task[i], task'[i])
  BY <1>2, <1>3 DEF TaskRecord
<1>5. \A i \in Tasks : task'[i] \in TaskRecord
  <2>1. ASSUME NEW t \in TaskRecord, NEW u, t.live => t.due > 0 - late, Ticked(t, u)
        PROVE  u \in TaskRecord
    <3>1. /\ t.due \in Int /\ t.due <= Seconds /\ t.due >= 0 - late - 1
          /\ t.age \in 0 .. Seconds + late + 1
      BY <1>1, TimersAssumption DEF TaskRecord, Time
    <3>2. u.due \in Time
      BY <1>1, <2>1, <3>1, TimersAssumption DEF Time
    <3>3. u.age \in 0 .. Seconds + late + 1
      BY <1>1, <2>1, <3>1, TimersAssumption
    <3>4. u.name \in Timers \cup {None} /\ u.live \in BOOLEAN
      BY <2>1 DEF TaskRecord
    <3>5. u = [name |-> u.name, live |-> u.live, due |-> u.due, age |-> u.age]
      BY <2>1
    <3> QED
      BY <3>2, <3>3, <3>4, <3>5 DEF TaskRecord
  <2> HIDE DEF Ticked
  <2> QED
    BY <1>2, <1>3, <1>4, <2>1
<1>6. q \in Plugins
  <2>1. task' \in [Tasks -> TaskRecord]
    BY <1>2, <1>5
  <2> QED
    BY <1>1, <1>3, <2>1 DEF Plugins
<1>7. q.data = p.data /\ q.timerTasks = p.timerTasks /\ q.task = task'
  BY <1>3
<1> HIDE DEF p, q
<1>8. \A i \in Tasks : q.task[i].live = p.task[i].live /\ q.task[i].name = p.task[i].name
  BY <1>3, <1>4, <1>7
<1>9. Apart(q)
  <2>1. \A m \in Timers : p.timerTasks[m] # NoTask => p.timerTasks[m] \in Tasks
    BY <1>1 DEF Plugins
  <2>2. \A m \in Timers : q.timerTasks[m] # NoTask /\ q.task[q.timerTasks[m]].live
         => q.task[q.timerTasks[m]].name = m
    BY <1>1, <1>7, <1>8, <2>1 DEF Good, Apart
  <2>3. \A i \in Tasks : q.task[i].live => q.task[i].name \in Timers
    BY <1>1, <1>8 DEF Good, Apart
  <2> QED
    BY <1>1, <1>7, <2>2, <2>3 DEF Good, Apart
<1>10. Held(q, dirty)
  BY <1>1, <1>7, <1>8 DEF Good, Held
<1>11. Flags(q, dirty, None, Heard)
  BY <1>1, <1>7 DEF Good, Flags
<1>12. Running(q, dirty, None)
  BY TimersAssumption DEF Running
<1>13. Ages(q, dirty, None)
  <2> SUFFICES ASSUME late = 0, NEW m \in Timers \ dirty
               PROVE  /\ q.data[m].remainingTime >= 0
                      /\ q.timerTasks[m] # NoTask => InTime(q.task[q.timerTasks[m]], m, None)
    BY DEF Ages
  <2>1. /\ p.data[m].remainingTime >= 0
        /\ p.timerTasks[m] # NoTask => InTime(p.task[p.timerTasks[m]], m, None)
    BY <1>1 DEF Good, Ages
  <2>2. m # None
    BY TimersAssumption
  <2>3. ASSUME p.timerTasks[m] # NoTask PROVE InTime(q.task[p.timerTasks[m]], m, None)
    <3> DEFINE t == task[p.timerTasks[m]]
               u == task'[p.timerTasks[m]]
    <3>1. p.timerTasks[m] \in Tasks
      BY <1>1, <2>3 DEF Plugins
    <3>2. q.task[p.timerTasks[m]] = u /\ p.task[p.timerTasks[m]] = t
      BY <1>3, <1>7
    <3>3. /\ t.live /\ t.age <= Seconds /\ t.age + t.due <= Seconds
      BY <2>1, <2>2, <2>3, <3>2 DEF InTime
    <3>4. t \in TaskRecord /\ Ticked(t, u) /\ t.due > 0 - late /\ t.name # None
      <4>1. p.task[p.timerTasks[m]].name = m
        BY <1>1, <2>3, <3>2, <3>3 DEF Good, Apart
      <4> QED
        BY <1>2, <1>3, <1>4, <2>2, <3>1, <3>2, <3>3, <4>1
    <3> HIDE DEF t, u
    <3>5. t.due \in Int /\ t.age \in Int /\ t.due > 0
      BY <3>4 DEF TaskRecord, Time
    <3>6. u.live /\ u.due = t.due - 1 /\ u.age = t.age + 1
      BY <3>3, <3>4, <3>5, TimersAssumption
    <3>7. u.due >= 0 /\ u.age <= Seconds /\ u.age + u.due <= Seconds
      BY <3>3, <3>5, <3>6, TimersAssumption
    <3> QED
      BY <3>2, <3>6, <3>7 DEF InTime
  <2> QED
    BY <1>7, <2>1, <2>3
<1>14. Good(q, dirty, None, Heard)
  BY <1>9, <1>10, <1>11, <1>12, <1>13 DEF Good
<1>15. Heard' = Heard
  BY <1>2 DEF Heard
<1>16. (Plugin \in Plugins)' /\ Good(Plugin, dirty, timerThread, Heard)'
  <2>1. data' = q.data /\ timerTasks' = q.timerTasks /\ task' = q.task
    BY <1>2, <1>3, <1>7
  <2> QED
    BY <1>2, <1>6, <1>14, <1>15, <2>1, Stepped
<1>17. RestType'
  BY <1>1, <1>2 DEF RestType
<1>18. ThrowsOnlyIfTouched'
  BY <1>2, Explained
<1> QED
  BY <1>16, <1>17, <1>18, TypeNext DEF IInv

(***************************************************************************)
(* The theorems.                                                           *)
(***************************************************************************)
LEMMA InitInv == Init => IInv
<1> SUFFICES ASSUME Init PROVE IInv
  OBVIOUS
<1>1. late \in Nat /\ Seconds \in Time /\ 0 \in Time
  BY TimersAssumption DEF Init, Time
<1>2. NewTimer \in Datum /\ Free \in TaskRecord
  BY <1>1, TimersAssumption DEF NewTimer, Datum, Free, TaskRecord
<1>3. Plugin \in Plugins
  BY <1>2 DEF Init, Plugin, Plugins
<1>4. RestType
  BY TimersAssumption DEF Init, RestType
<1>5. /\ \A n \in Timers : Plugin.data[n] = NewTimer /\ Plugin.timerTasks[n] = NoTask
      /\ \A i \in Tasks : Plugin.task[i] = Free
      /\ timerThread = None
  BY DEF Init, Plugin
<1>6. Apart(Plugin) /\ Held(Plugin, dirty)
  <2>1. \A i \in Tasks : ~Plugin.task[i].live
    BY <1>5 DEF Free
  <2> QED
    BY <1>5, <2>1 DEF Apart, Held
<1>7. Flags(Plugin, dirty, timerThread, Heard) /\ Running(Plugin, dirty, timerThread)
  BY <1>5, TimersAssumption DEF Flags, Running, NewTimer
<1>8. Ages(Plugin, dirty, timerThread)
  BY <1>5, TimersAssumption DEF Ages, NewTimer
<1>9. ThrowsOnlyIfTouched
  BY DEF Init, ThrowsOnlyIfTouched, NoFault, None
<1>10. TypeOK
  BY <1>3, <1>4, TypeParts
<1> QED
  BY <1>6, <1>7, <1>8, <1>9, <1>10 DEF IInv, Good

LEMMA NextInv == IInv /\ [Next]_vars => IInv'
<1> SUFFICES ASSUME IInv, [Next]_vars PROVE IInv'
  OBVIOUS
<1>1. CASE UNCHANGED vars
  <2>1. /\ Plugin \in Plugins /\ RestType /\ Good(Plugin, dirty, timerThread, Heard)
        /\ ThrowsOnlyIfTouched
    BY TypeParts DEF IInv
  <2>2. (Plugin \in Plugins)' /\ Good(Plugin, dirty, timerThread, Heard)'
    <3>1. Heard' = Heard /\ late' = late /\ dirty' = dirty /\ timerThread' = timerThread
      BY <1>1 DEF vars, Heard
    <3>2. data' = Plugin.data /\ timerTasks' = Plugin.timerTasks /\ task' = Plugin.task
      BY <1>1 DEF vars, plugin, Plugin
    <3> QED
      BY <2>1, <3>1, <3>2, Stepped
  <2>3. RestType' /\ ThrowsOnlyIfTouched'
    BY <1>1, <2>1 DEF vars, plugin, RestType, ThrowsOnlyIfTouched
  <2> QED
    BY <2>2, <2>3, TypeNext DEF IInv
<1> QED
  BY <1>1, CallKeeps, FireKeeps, RunEndsKeeps, RespondKeeps, RespondedKeeps, RestartKeeps,
     TickKeeps DEF Next

\* Flags, tasks and ages fit together in every state, but for timers that are dirty.
THEOREM Correct == Spec => []IInv
  BY InitInv, NextInv, PTL DEF Spec

\* Every variable keeps its type; what is left of a timer's time, and when a task is
\* due, stay within the lateness of the Timer's thread.
THEOREM TypeCorrect == Spec => []TypeOK
<1>1. IInv => TypeOK
  BY DEF IInv
<1> QED
  BY <1>1, Correct, PTL

\* A timer with a task plays; one that plays has a task or has fired and is about
\* to be stopped.
THEOREM FlagsAgree == Spec => []FlagAgrees
<1>1. IInv => FlagAgrees
  <2> SUFFICES ASSUME IInv, NEW n \in Timers \ dirty, data[n].exists
               PROVE  /\ timerTasks[n] # NoTask => data[n].playing
                      /\ data[n].playing =>
                           timerTasks[n] # NoTask \/ (n \notin Repeats /\ Firing(n))
    BY DEF FlagAgrees
  <2>1. n \in Heard => Firing(n)
    <3>1. DOMAIN inbox = 1 .. Len(inbox)
      BY TypeParts DEF IInv, RestType
    <3> QED
      BY <3>1 DEF Heard, Firing
  <2>2. Flags(Plugin, dirty, timerThread, Heard) /\ Plugin.data = data
        /\ Plugin.timerTasks = timerTasks
    BY DEF IInv, Good, Plugin
  <2> QED
    BY <2>1, <2>2 DEF Flags
<1> QED
  BY <1>1, Correct, PTL

\* Every task java.util.Timer will run is the one its timer knows, and can be stopped.
THEOREM TasksAreHeld == Spec => []NoOrphan
<1>1. IInv => NoOrphan
  BY DEF IInv, Good, Held, NoOrphan, Plugin
<1> QED
  BY <1>1, Correct, PTL

\* What throws is about a dirty timer, or one that is gone, or the Timer's thread was
\* late.
THEOREM ThrowsAreExplained == Spec => []ThrowsOnlyIfTouched
<1>1. IInv => ThrowsOnlyIfTouched
  BY DEF IInv
<1> QED
  BY <1>1, Correct, PTL
=============================================================================
