-------------------------------- MODULE Timers --------------------------------
(***************************************************************************)
(* The timers of one plugin.  Plugin keeps a TimerData for every timer     *)
(* and, in timerTasks, the task that java.util.Timer is to run when it is  *)
(* due.  Three threads share the two maps without a lock: the Timer's, the *)
(* connection's handler and the binder's, which serves the timer dialog.   *)
(* A method on the last two is one step, so that a restart, a stop and a   *)
(* start, is two; a task's run() is two, for its first statement wakes the *)
(* handler.  Time passes in seconds.                                       *)
(***************************************************************************)
EXTENDS Integers, Sequences, FiniteSets

CONSTANTS
    Timers,         \* names
    Repeats,        \* the ones that repeat
    Seconds,        \* the length of every timer
    Lateness,       \* by how much may the Timer's thread run a task late?
    BinderOps,      \* the calls the dialog makes
    MaxOps,         \* bound: calls
    MaxTasks,       \* bound: tasks that exist at a time
    MaxPending      \* bound: messages the handler may be behind

None == "none"

ASSUME TimersAssumption ==
    /\ Repeats \subseteq Timers /\ IsFiniteSet(Timers) /\ None \notin Timers
    /\ Seconds \in Nat \ {0} /\ Lateness \subseteq Nat /\ Lateness # {}
    /\ BinderOps \subseteq {"start", "pause", "stop", "reset", "getTimers", "delete", "add"}
    /\ MaxOps \in Nat /\ MaxTasks \in Nat /\ MaxPending \in Nat \ {0}

Tasks  == 1 .. MaxTasks
NoTask == 0

VARIABLES
    data,           \* settings.getTimers(): [exists, playing, remainingTime]
    timerTasks,     \* the task of every timer, or NoTask
    task,           \* CustomTimerTasks: [name, live, due, age]
    timerThread,    \* the timer whose task's run() has posted its message, or none
    inbox,          \* innerHandler's queue: names of timers that fired
    responding,     \* the timer whose responders the handler is running, or none
    restarting,     \* the timer the handler has stopped and is about to start, or none
    ops,            \* what is left of MaxOps
    fault,          \* the exception nobody caught, if any, and the timer it is about
    late,           \* the lateness of this behaviour
    halted,         \* history: timers stopped or paused since they were started
    left,           \* history: what is left of a timer's time
    dirty           \* history: timers touched between the two steps of run(), or
                    \* edited while their task was scheduled

plugin == <<data, timerTasks, task>>
vars   == <<plugin, timerThread, inbox, responding, restarting, ops, fault, late, halted,
            left, dirty>>

NewTimer == [exists |-> TRUE, playing |-> FALSE, remainingTime |-> Seconds]
Free     == [name |-> None, live |-> FALSE, due |-> 0, age |-> 0]
NoFault  == [what |-> None, timer |-> None]
Fault(what, n) == [what |-> what, timer |-> n]

Init ==
    /\ data = [n \in Timers |-> NewTimer]
    /\ timerTasks = [n \in Timers |-> NoTask] /\ task = [i \in Tasks |-> Free]
    /\ timerThread = None /\ inbox = <<>> /\ responding = None /\ restarting = None
    /\ ops = MaxOps /\ fault = NoFault /\ late \in Lateness
    /\ halted = {} /\ left = [n \in Timers |-> Seconds] /\ dirty = {}

(***************************************************************************)
(* The methods, as functions of p, the plugin's state.                     *)
(***************************************************************************)
Plugin == [data |-> data, timerTasks |-> timerTasks, task |-> task]
Becomes(p) == data' = p.data /\ timerTasks' = p.timerTasks /\ task' = p.task

Unused(p) ==
    {i \in Tasks : ~p.task[i].live /\ \A n \in Timers : p.timerTasks[n] # i}
CanStart(p, n) == p.data[n].exists /\ p.timerTasks[n] = NoTask /\ ~p.data[n].playing

\* Mutant of Delay: a paused timer starts from the beginning.
DelayFull(p, n) == Seconds

\* The delay given to schedule; for a timer not paused the two are the same.
Delay(p, n) == p.data[n].remainingTime

startTimer(p, n) ==
    LET i == CHOOSE j \in Unused(p) : TRUE IN
    IF ~CanStart(p, n) THEN p
    ELSE [data |-> [p.data EXCEPT ![n].playing = TRUE],
          timerTasks |-> [p.timerTasks EXCEPT ![n] = i],
          task |-> [p.task EXCEPT ![i] =
                      [name |-> n, live |-> TRUE, due |-> Delay(p, n), age |-> 0]]]

\* Mutant of Cancelled: the task is forgotten without a cancel().
CancelledNot(p, n) == p.task

Cancelled(p, n) ==
    [i \in Tasks |-> IF i = p.timerTasks[n] THEN Free ELSE p.task[i]]

\* Mutant of Halt: the flag stays.
HaltKeepsFlag(d, time) == [d EXCEPT !.remainingTime = IF d.exists THEN time ELSE @]

Halt(d, time) ==
    IF d.exists THEN [d EXCEPT !.playing = FALSE, !.remainingTime = time] ELSE d

stopTimer(p, n) ==
    [data |-> [p.data EXCEPT ![n] = Halt(@, Seconds)],
     timerTasks |-> [p.timerTasks EXCEPT ![n] = NoTask],
     task |-> Cancelled(p, n)]

\* Mutant of Remaining: the time that has passed.
RemainingPassed(t) == t.age + 1 + Seconds

\* The age is that of the task, which a resumed timer starts anew.
Remaining(t) == Seconds - t.age

pauseTimer(p, n) ==
    IF p.timerTasks[n] = NoTask THEN p
    ELSE [data |-> [p.data EXCEPT ![n] = Halt(@, Remaining(p.task[p.timerTasks[n]]))],
          timerTasks |-> [p.timerTasks EXCEPT ![n] = NoTask],
          task |-> Cancelled(p, n)]

updateTimerProgress(p) ==
    [p EXCEPT !.data = [n \in Timers |->
        IF p.timerTasks[n] # NoTask /\ p.data[n].exists
        THEN [p.data[n] EXCEPT !.remainingTime = Remaining(p.task[p.timerTasks[n]])]
        ELSE p.data[n]]]

deleteTimer(p, n) == [p EXCEPT !.data[n].exists = FALSE]
addTimer(p, n)    == [p EXCEPT !.data[n] = NewTimer]

\* schedule() of a negative delay throws.
Illegal(p, n) == CanStart(p, n) /\ Delay(p, n) < 0

(***************************************************************************)
(* Calls                                                                   *)
(***************************************************************************)
Alive == fault = NoFault
Touched(n) == {n} \intersect {timerThread}

Starts(n) ==
    /\ CanStart(Plugin, n) => Unused(Plugin) # {}
    /\ IF Illegal(Plugin, n) THEN fault' = Fault("delay", n) /\ UNCHANGED plugin
                             ELSE Becomes(startTimer(Plugin, n)) /\ UNCHANGED fault
    /\ dirty' = dirty \union Touched(n)

Start(n) == Starts(n) /\ halted' = halted \ {n} /\ UNCHANGED left

Pause(n) ==
    /\ Becomes(pauseTimer(Plugin, n))
    /\ halted' = IF timerTasks[n] # NoTask THEN halted \union {n} ELSE halted
    /\ dirty' = dirty \union Touched(n)
    /\ UNCHANGED <<fault, left>>

Stop(n) ==
    /\ Becomes(stopTimer(Plugin, n))
    /\ halted' = halted \union {n} /\ left' = [left EXCEPT ![n] = Seconds]
    /\ dirty' = dirty \union Touched(n)
    /\ UNCHANGED fault

\* resetTimer() up to its startTimer(), which comes only if the timer was running.
Reset(n) ==
    /\ Becomes(stopTimer(Plugin, n))
    /\ restarting' = IF timerTasks[n] # NoTask THEN n ELSE None
    /\ left' = [left EXCEPT ![n] = Seconds]
    /\ dirty' = dirty \union Touched(n)
    /\ UNCHANGED <<fault, halted>>

GetTimers ==
    /\ Becomes(updateTimerProgress(Plugin))
    /\ UNCHANGED <<fault, halted, left, dirty>>

Edit(p, n) ==
    /\ Becomes(p)
    /\ dirty' = dirty \union (IF timerTasks[n] # NoTask THEN {n} ELSE Touched(n))
    /\ left' = [left EXCEPT ![n] = Seconds]
    /\ UNCHANGED <<fault, halted>>

\* reset reaches the handler as a .timer command; the other calls come from the
\* dialog, or from a command, at any moment.
Dialog(n) ==
    \/ "start" \in BinderOps /\ Start(n)
    \/ "pause" \in BinderOps /\ Pause(n)
    \/ "stop"  \in BinderOps /\ Stop(n)
    \/ "getTimers" \in BinderOps /\ GetTimers
    \/ "delete" \in BinderOps /\ data[n].exists /\ Edit(deleteTimer(Plugin, n), n)
    \/ "add" \in BinderOps /\ ~data[n].exists /\ Edit(addTimer(Plugin, n), n)

Idle == responding = None /\ restarting = None

Call(n) ==
    /\ Alive /\ ops > 0 /\ ops' = ops - 1
    /\ \/ Dialog(n) /\ UNCHANGED restarting
       \/ "reset" \in BinderOps /\ Idle /\ Reset(n)
    /\ UNCHANGED <<timerThread, inbox, responding, late>>

(***************************************************************************)
(* The Timer's thread, CustomTimerTask.run()                               *)
(***************************************************************************)
\* java.util.Timer takes a task that is due; run() posts its message first.  A
\* task that does not repeat is done, but the plugin still has it.
Fire ==
    /\ Alive /\ timerThread = None
    /\ \E i \in Tasks :
         LET n == task[i].name IN
         /\ task[i].live /\ task[i].due <= 0
         /\ timerThread' = n /\ inbox' = Append(inbox, n)
         /\ task' = [task EXCEPT ![i] = IF n \in Repeats THEN [@ EXCEPT !.due = Seconds]
                                                         ELSE [@ EXCEPT !.live = FALSE]]
         /\ left' = [left EXCEPT ![n] = Seconds]
    /\ UNCHANGED <<data, timerTasks, responding, restarting, ops, fault, late, halted, dirty>>

Removed(n) ==
    /\ timerTasks' = [timerTasks EXCEPT ![n] = NoTask]
    /\ task' = [i \in Tasks |-> IF i = timerTasks[n] /\ ~task[i].live THEN Free ELSE task[i]]
    /\ UNCHANGED data

\* Mutant of Ran: the start time of a repeating task is not moved.
RanStale(n) == IF n \in Repeats THEN UNCHANGED plugin ELSE Removed(n)

\* The rest of run() for a timer that still exists: its task starts anew, or is
\* removed, whichever task it has by now.
Ran(n) ==
    IF n \in Repeats
    THEN /\ task' = [task EXCEPT ![timerTasks[n]].age = 0]
         /\ UNCHANGED <<data, timerTasks>>
    ELSE Removed(n)

RunEnds ==
    LET n == timerThread IN
    /\ Alive /\ n # None /\ timerThread' = None
    /\ IF data[n].exists /\ n \in Repeats /\ timerTasks[n] = NoTask
       THEN fault' = Fault("null", n) /\ UNCHANGED plugin
       ELSE /\ IF data[n].exists THEN Ran(n) ELSE UNCHANGED plugin
            /\ UNCHANGED fault
    /\ UNCHANGED <<inbox, responding, restarting, ops, late, halted, left, dirty>>

(***************************************************************************)
(* The handler's thread, DoTimerResponders                                 *)
(***************************************************************************)
Respond ==
    /\ Alive /\ Idle /\ inbox # <<>> /\ inbox' = Tail(inbox)
    /\ responding' = IF data[Head(inbox)].exists THEN Head(inbox) ELSE None
    /\ UNCHANGED <<plugin, timerThread, restarting, ops, fault, late, halted, left, dirty>>

\* Mutant of AfterResponders: a timer that does not repeat is left as it is.
AfterRespondersKeep(p, n) == IF n \in Repeats THEN stopTimer(p, n) ELSE p

AfterResponders(p, n) == stopTimer(p, n)

\* A responder looks the timer up again, and fails if the dialog has deleted it.
Responded ==
    LET n == responding IN
    /\ Alive /\ n # None /\ responding' = None
    /\ \/ /\ Becomes(AfterResponders(Plugin, n)) /\ UNCHANGED fault
          /\ restarting' = IF n \in Repeats THEN n ELSE None
       \/ ~data[n].exists /\ fault' = Fault("responder", n) /\ UNCHANGED <<plugin, restarting>>
    /\ left' = [left EXCEPT ![n] = Seconds]
    /\ dirty' = dirty \union Touched(n)
    /\ UNCHANGED <<timerThread, inbox, ops, late, halted>>

\* The startTimer() after the stopTimer(), of DoTimerResponders or of resetTimer().
Restart ==
    /\ Alive /\ restarting # None /\ restarting' = None /\ Starts(restarting)
    /\ UNCHANGED <<timerThread, inbox, responding, ops, late, halted, left>>

\* A second passes: not inside run(), and never so that a task is more than late
\* seconds overdue or the handler MaxPending messages behind.  An age past what
\* any task in time can have grows no more.
Tick ==
    /\ Alive /\ timerThread = None
    /\ (\E i \in Tasks : task[i].live) /\ Len(inbox) < MaxPending
    /\ \A i \in Tasks : task[i].live => task[i].due > 0 - late
    /\ task' = [i \in Tasks |->
                  [task[i] EXCEPT
                     !.due = IF task[i].live THEN @ - 1 ELSE @,
                     !.age = IF task[i].name = None \/ @ > Seconds + late THEN @ ELSE @ + 1]]
    /\ left' = [n \in Timers |-> IF timerTasks[n] # NoTask /\ n \notin dirty
                                  THEN left[n] - 1 ELSE left[n]]
    /\ UNCHANGED <<data, timerTasks, timerThread, inbox, responding, restarting, ops, fault,
                   late, halted, dirty>>

Next ==
    \/ \E n \in Timers : Call(n)
    \/ Fire \/ RunEnds \/ Respond \/ Responded \/ Restart \/ Tick

Spec == Init /\ [][Next]_vars

\* Time passes, the Timer's thread and the handler's looper run; nobody is obliged
\* to call.
FairSpec ==
    Spec /\ WF_vars(Tick) /\ WF_vars(Fire) /\ WF_vars(RunEnds) /\ WF_vars(Respond)
         /\ WF_vars(Responded) /\ WF_vars(Restart)

(***************************************************************************)
(* Properties                                                              *)
(***************************************************************************)
TypeOK ==
    LET Time == 0 - late - 1 .. Seconds IN
    /\ data \in [Timers -> [exists : BOOLEAN, playing : BOOLEAN, remainingTime : Time]]
    /\ timerTasks \in [Timers -> Tasks \union {NoTask}]
    /\ task \in [Tasks -> [name : Timers \union {None}, live : BOOLEAN, due : Time,
                           age : 0 .. Seconds + late + 1]]
    /\ timerThread \in Timers \union {None} /\ responding \in Timers \union {None}
    /\ restarting \in Timers \union {None} /\ inbox \in Seq(Timers) /\ ops \in 0 .. MaxOps
    /\ fault \in {NoFault} \union [what : {"null", "delay", "responder"}, timer : Timers]
    /\ late \in Lateness
    /\ halted \subseteq Timers /\ dirty \subseteq Timers

\* The flag the dialog shows and the task agree: a timer with a task plays, and one
\* that plays has a task or has fired and is about to be stopped.
Firing(n) == n = timerThread \/ n = responding \/ \E i \in DOMAIN inbox : inbox[i] = n
FlagAgrees ==
    \A n \in Timers \ dirty : data[n].exists =>
        /\ timerTasks[n] # NoTask => data[n].playing
        /\ data[n].playing => timerTasks[n] # NoTask \/ (n \notin Repeats /\ Firing(n))

\* Every task java.util.Timer will run can still be stopped.
NoOrphan ==
    \A i \in Tasks : task[i].live /\ task[i].name \notin dirty => timerTasks[task[i].name] = i

\* What throws is about a timer that was touched between the two steps of run(), or
\* edited while scheduled; or the dialog has deleted it; or, for a negative delay,
\* the Timer's thread was late.  No other timer can make it throw.
ThrowsOnlyIfTouched ==
    /\ fault.what = "null" => fault.timer \in dirty
    /\ fault.what = "responder" => ~data[fault.timer].exists
    /\ fault.what = "delay" => late > 0 \/ fault.timer \in dirty

\* A timer that plays fires, however often others are started and stopped.
Plays(n) == data[n].exists /\ data[n].playing
PlayingFires ==
    \A n \in Timers :
        Plays(n) ~> (~Plays(n) \/ fault # NoFault \/ \E i \in DOMAIN inbox : inbox[i] = n)

\* A timer that does not repeat ends.
OneShotEnds ==
    \A n \in Timers \ Repeats : Plays(n) ~> (~Plays(n) \/ fault # NoFault)

\* "Stops a timer in the main settings plugin" (Connection.java:2705): it does not
\* play again until it is started.  Refuted: its message is still in the queue.
StoppedStaysStopped == \A n \in halted : ~data[n].playing

\* "Pauses a timer in the main settings plugin" (Connection.java:2685): what is left
\* of its time is kept.  Refuted: the second pause forgets the time before the
\* first.
PauseKeepsTime ==
    \A n \in halted : dirty = {} /\ ~Firing(n) => data[n].remainingTime = left[n]
===============================================================================
