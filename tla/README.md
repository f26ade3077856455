# A TLA+ verification of BlowTorch's session core

BlowTorch is a MUD client for Android: a telnet terminal with triggers, timers,
aliases and Lua plugins.  A background service keeps every connection's network
session alive while its window comes and goes.  The program's own code is in
`src/BTLib/src/com/offsetnull/bt/`; everything that is not drawing, dialogs or
XML is in its packages `service/`, `service/plugin/` and `window/`.  This
directory holds TLA+ modules translated from that code, the TLC configurations
that check them on small instances, and proofs checked by TLAPS.

1. Inventory: the components, how they interact, what is hard
2. The modules and how they correspond to the code
3. The runs: what is checked, the bounds, the fairness
4. What the code does otherwise than it says
5. The proofs
6. Abstractions, and what is not modelled
7. Plan

To check everything: `tlc -config X.cfg M.tla` for every run of `PROJECT.json`
and `tlapm M.tla` for `NetThreads_proofs`, `NetSession_proofs`, `Mccp_proofs`,
`Telnet_proofs`, `Timers_proofs`, `Service_proofs`, `Triggers_proofs` and
`Commands_proofs`.

## 1. Inventory

### Components

| Component | State it keeps | Operations | What must hold | Module |
|---|---|---|---|---|
| `service/Connection.java`, network part | `mPump`, `mProcessor`, `mAutoReconnectAttempt`, `mHandler`, the handler's queue | `killNetThreads`, `doDisconnect`, `dispatchDialog`, `doStartup`, `doReconnect`, `shutdown`, `sendToServer`, the network messages | one session at a time; bounded retries, which are made; a loss is acted on once and in the right session | NetThreads, NetSession, Session |
| `service/DataPumper.java` | socket, streams, `mConnected`, `mClosing`, its looper's queue, the writer's queue | `init`, `run`, `getData`, `shutdownSocket`, `closeSocket`, `sendData`, the writer | one poll outstanding, never deaf, one report, never connected after a close, the threads end | NetThreads, NetSession |
| MCCP (`DataPumper.doDecompress`, `Processor.rawProcess`) | `mCompressed`, `mCorrupted`, the inflater | `useCompression`, `doDecompress` | the text the server sent reaches the window once and in order | Mccp |
| `service/Processor.java` | the hold-over of a split telnet sequence | `rawProcess`, `dispatchIAC`, `dispatchSUB` | text and answers do not depend on how the stream is cut | Telnet |
| `service/OptionNegotiator.java` | NAWS flags, terminal type index | `processCommand`, `getSubnegotiationResponse`, `getNawsString` | one answer per offer, one window size per agreement | OptionNegotiator |
| `service/plugin/Plugin.java`, timers | `TimerData`, the map of timer tasks | start, stop, pause, reset, fire | flag and task agree, no task is lost, a timer that plays fires | Timers |
| `service/StellarService.java` | the connections, the selected one (the "clutch"), the notifications, the main thread's queue | `setClutch`, `switchTo`, `showConnectionNotification`, `removeConnectionNotification`, `registerCallback`, `closeConnection`, `doDisconnect` | the status bar agrees with the maps, a session has its notification, a window that loads gets a running session | Service (a session's own calls: NetThreads) |
| `service/Connection.java`, triggers; `responder/gag/GagAction.java` | the merged pattern and its table, the sorted lists, `triggersDirty` | `buildTriggerSystem`, `sortTriggers`, `dispatch`, `setTriggerEnabled`, add, delete | every line shown or gagged once, in order; a responder works on the line that matched; the table is as the triggers are | Triggers |
| `service/Connection.java`, commands | aliases, `processPeriod`, `semiIsNewLine` | `processOutputData`, `splitSemicolonSafe`, `processCommand`, `doAliasReplacement`, `sendToServer` | what is sent is what was typed, expanded; expansion ends | Commands |
| Window callbacks | the callback map of a connection | register, unregister, deliver | | not modelled |
| `window/CommandKeeper.java` | command history | add, next, prev | bounds and order | not modelled |
| `window/TextTree.java` | scrollback | add, prune, update | line and byte counts agree with the lines kept | not modelled; what `dispatch` does with its lines: Triggers |
| Settings, launcher, dialogs, rendering, Lua bridge | XML, Android views | load, save, draw | no control of their own that the others depend on | not modelled |
| `src/LuaJIT-2.0.5`, `src/BTLib/jni`, other packages of `src/BTLib/src` | vendored | | | not modelled |

### How they interact

* **Queues.**  A `Connection` belongs to a looper thread and receives everything
  as a message of its `ConnectionHandler`: from the reader (`CONNECTED`,
  `PROCESS`, `DISCONNECTED`, `TERMINATED_BY_PEER`), from the writer (`DODIALOG`),
  from the service (`XFER`, `STARTUP`), from itself (`SENDOPTIONDATA`,
  `STARTCOMPRESS`, a delayed `RECONNECT`), from the window (`SENDDATA`).  The
  reader is a looper of its own (`RETRIEVE`, `COMPRESS`, `END`) and so is the
  writer (`SEND`, `END`).  No message says which session it is about.
* **Binder calls.**  The window's calls are served on a binder thread.  Some only
  post a message (`initXfer`, `sendData`), others run the connection's methods
  there and then (`endXfer`, `reconnect`, `closeConnection`, the timer dialog's
  calls), beside the handler's thread.
* **Shared fields.**  `mPump`, `mHandler`, `mSettings`, `mProcessor`,
  `DataPumper.mConnected`, `mClosing`, the timer maps, the service's maps of
  connections and notifications, the trigger maps, the matcher and the static flag
  `triggersDirty` are read and written by several threads without a lock.
* **Callbacks.**  `Processor` calls back into the connection through its handler;
  a timer's responders are run by the plugin's handler after the `Timer` thread
  has woken it.

### What is hard

* `killNetThreads` is a chain of statements, each of which reads `mPump` again;
  it joins a thread that may itself be joining another.
* a session ends in four ways (peer closes, read fails, write fails, connect
  fails), which share one retry counter and may all happen to one session;
* the poll of the reader re-arms itself, from three places;
* compression begins with a detour: reader -> handler -> Processor -> handler ->
  reader, while the reader goes on reading;
* telnet commands are cut by the boundaries of reads;
* three threads change two maps of timers, and a firing is handled late;
* a message of the service names no connection, and is about the one selected when
  it is handled; a window makes two calls in a row that mean different connections;
* `dispatch` edits the list of lines it iterates over, searches a text it cuts, and
  rebuilds the table it searches with, all from inside the responder of a match;
* a line of input is expanded by aliases into text that is split into commands
  again, which may change aliases and settings.

`PROJECT.json` lists each of these under "hazards", at its line.

## 2. The modules and how they correspond to the code

    Session            what a connection promises about the life of its session
      ^ implemented by
    NetSession         fairness, the refinement mapping, the properties of a session
      | EXTENDS             <- EXTENDS  NetSession_proofs (and NetThreads_proofs)
    NetThreads         the threads of one connection    <- EXTENDS  NetThreads_proofs

    Mccp               the compressed stream            <- EXTENDS  Mccp_proofs
    Telnet             rawProcess and its answers       <- EXTENDS  Telnet_proofs
      | EXTENDS
    OptionNegotiator   what is answered to an offer
    Timers             the timers of one plugin         <- EXTENDS  Timers_proofs
    Service            the connections of the service   <- EXTENDS  Service_proofs
    Triggers           trigger table and dispatch       <- EXTENDS  Triggers_proofs
    Commands           a line of input                  <- EXTENDS  Commands_proofs

**NetThreads.**  `conn` holds the fields of `Connection`, `inbox` and
`reconnects` its queue and its delayed `MESSAGE_RECONNECT`s; `pump[p]` is the
p-th `DataPumper` with its thread (`pc`), queue (`mailbox`, and `tick` for the
delayed poll), flags, writer, socket and peer; `thread[t]` is where the handler's
thread ("main") or the binder's is inside `Connection`'s methods.

| Actions | Code |
|---|---|
| `KillReturnsAtOnce` ... `KillFinish` | `Connection.killNetThreads`, one action for each statement after which another thread can be noticed: `KillSocket`, `KillClear` (the messages go), `KillEnd` (the `MESSAGE_END`), `KillWaits`, `KillJoined` |
| `DisconnectedRetry`, `DisconnectedNotify`, `DisconnectedTooLate`, `Notify` | `Connection.doDisconnect`, `StellarService.doDisconnect` |
| `ShutdownDone`, `DialogRetry`, `Create`, `StartPump` | the rest of `shutdown`, `dispatchDialog`, `doStartup` after their `killNetThreads` |
| `Handle...` | the cases of `ConnectionHandler.handleMessage` |
| `InitXfer`, `EndXfer`, `Reconnect`, `CloseConnection`, `TypeCommand` | the binder calls of `StellarService` |
| `InitFails` ... `PumpDies` | `DataPumper.run`, `init`, `ReadHandler`, `getData`, `shutdownSocket` |
| `WriterPublish` ... `WriterEnds` | `OutputWriterThread` |
| `PeerSends`, `PeerFails` | external: the server and the network |

An exception nobody catches is a value of `fault`, after which nothing runs: it
is a state of the program like any other and no action is left out to avoid it.

**NetSession** adds fairness and `INSTANCE Session` with the mapping
`SessionPhase`, `SessionTries`.  **Session** has two variables: it starts once, is
lost or gives up, waits and is retried, at most `Limit` times between two
connects.  It may crash when it is over as well: a chunk that is queued behind the
`DISCONNECTED` is handled without a `Processor` (`Session!Crash`).

**Mccp.**  The server's stream is a sequence of kinds (`text`, `marker`, `z`,
`end`); a byte is its position, so that what reached the window can be compared
with what was sent.  `Poll` is `getData`, `Compress` is `useCompression`,
`DoDecompress` has one disjunct per outcome of `doDecompress`, `HandleProcess`
is `rawProcess` up to the marker, `HandleStartCompress` the way back.

**OptionNegotiator** holds the pure operators of the class, one per method
(`Response`, `AfterCommand`, `NawsDue`, `TermType` ...).  **Telnet** translates
`rawProcess` as the recursive function `Scan` over a chunk's bytes: it yields the
text, the events (what the method dispatches) and how it ended (`ok`, `compress`
for the return at the MCCP marker, `crash` for an exception, `spin` for a loop
that does not advance).  `Deliver` cuts the stream of units anywhere, runs it and
dispatches the events.  A size `Dispatch` has delayed waits in `later`, with its place among
the messages posted; `Due` is the end of its delay and records in `sizes` between which of
them it went out: anywhere from that place on, in front of its own `WILL` too.

**Timers.**  `data` is `settings.getTimers()`, `timerTasks` the plugin's map,
`task` the `CustomTimerTask`s `java.util.Timer` knows, with the seconds until they
are due and since their start time.  `startTimer` ... `updateTimerProgress` are
functions of the plugin's state, as the methods are called by one another.
`Call` is a call of the dialog on the binder thread, or of a `.timer` command on the
handler's; `Fire` and `RunEnds` are the two halves of `CustomTimerTask.run()`; `Respond`
and `Responded` the handler's `DoTimerResponders`, up to its `stopTimer`.  The `startTimer`
behind that stop, and behind the one of `resetTimer` (`Reset`), is a step of its own,
`Restart`, as the `Timer` thread can be between the two.  An exception is a `fault` and
names the timer it is about.  `Tick` is a second.

**Service** is one level above NetThreads: a connection has a pump or not.  `maps` are
`mConnections`, `mConnectionClutch` and the pumps, `notices` the notification fields
of `StellarService` together with what Android shows for them, `queue` the main thread's
messages (the service's handler and every connection's share that thread), `client`
the window: the display of its intent, the `INITIALIZEWINDOWS` in its queue, its
"Disconnected" dialog and the call it is in.  `NewConnection`, `switchTo`, `Startup`,
`Lost`, `Reload` are cases of the handlers, one step each; `Connection.doStartup` is
two, `StartBegins` and `StartEnds`, because a `closeConnection` on the binder thread
fits between the new pump and the notification.  `showConnectionNotification` and
`removeConnectionNotification` (`CancelNotice`, `LastNotice`, `NextNotice`) are operators,
used where the code calls them.  The window's calls are a step each;
`CloseDialog`, `Remove`, `CloseSelected`, `unregisterCallback` are the chain
`closeConnection`, `cleanExit` of `MainWindow`.

**Triggers.**  `Build` is `buildTriggerSystem`, `Sort` is `sortTriggers`; `dispatch`,
`Find`, `Fire`, `Rebuild`, `Finish` are the parts of `Connection.dispatch` between which
the binder thread can edit triggers.  The responders of a match are functions of a
record (`Gag`, `Switch`, `Delete`, composed in `Respond`), as in the code they all work
on the same list, iterator and flags.  Lines are numbered from the newest, 0, as
`TextTree` does; `working` and `finished` are the two lists the code moves lines
between.  `setTriggerEnabled`, `deleteTrigger`, `newTrigger` are the editor's calls on the
binder thread, `Script` a script outside a dispatch, `OtherConnection` the dispatch of
another connection, which shares `triggersDirty` and nothing else.

**Commands.**  A line is a sequence of words and the marks `;`, `~`, `.`.
`splitSemicolonSafe` is the fold of `Scan` over it, `Hold` ... `EndOfLine` are the cases of
the loop of `processOutputData`, `Expand` is one pass of `doAliasReplacement`, `Send` the end of
`sendToServer`.  What a line means is stated a second time, by positions and without
the loop (`Meaning`), and so is what an alias comes to (`Expanded`, `Does`);
`SentAsTyped` compares the two.

## 3. The runs

### What each one checks

| Run | Question | Properties |
|---|---|---|
| `net_full` | Is each pump sound under every interleaving of handler, binder calls, writer and a resetting peer, two pumps at a time? | `TypeOK` (retry counter bounded), `OneReport`, `ClosedNotConnected`, `PollsOnce`, `NeverDeaf` |
| `net_session` | Undisturbed by calls, is a session what `Session` promises, through three pumps? | `OneSession`, `ReportsAreFresh`, `ReconnectWaitsAlone`, `KillReturns`, `LossIsHandled`, `ImplementsSession` |
| `mccp` | Does every stream, however cut, come out once, in order, with exactly the known loss? | `TypeOK`, `ShownOnce`, `InOrder`, `OnlyText`, `LossIsTheLastCall`, `CorruptedIsPlain` |
| `telnet` | Do text, bells and answers depend only on what the server means? | `TypeOK`, `DecodesStream`, `AnswersInOrder`, `SizePerAgreement`, `TermTypesInOrder` |
| `timers` | Do flag and task agree, can every task be stopped, does every timer fire and end? | `TypeOK`, `FlagAgrees`, `NoOrphan`, `ThrowsOnlyIfTouched`, `PlayingFires`, `OneShotEnds` |
| `service` | Do status bar, maps and sessions agree through every order of windows, losses and closes? | `TypeOK`, `StatusBarAgrees`, `ForegroundKept`, `NoticesAgree`, `WindowGetsSession` |
| `triggers` | Is every line of every chunk kept, whatever gags, rebuilds and edits do to it? | `TypeOK`, `LinesKept`, `RightLine`, `TableFresh`, `DispatchEnds` |
| `commands` | Is what is sent what was typed, for every line and every pair of aliases? | `SentAsTyped`, `LineEnds` |
| `kill_orphan`, `timer_stop`, `close_next`, `trigger_delete` | section 4 | one each, refuted |

`OneReport` and `PollsOnce` hold for pumps that are being closed, replaced and
reset at the same time; what they exclude is the second report that would be
taken for the end of the *next* session.  `ReportsAreFresh`, `OneSession` and
`ReconnectWaitsAlone` are stated where they hold, without binder calls; with
them they fail (`NetSession!TerminatedIsCurrent` says how).  `InOrder`, `OnlyText` and
`LossIsTheLastCall` assume a handler that answers within the 100 ms between two
polls (`prompt`); `ShownOnce` and `CorruptedIsPlain` do not.  `DecodesStream` and
`AnswersInOrder` are about chunks `rawProcess` can decode (`calm`);
`SizePerAgreement` and `TermTypesInOrder` about all.  `SizePerAgreement` does not say that a size
comes behind the `WILL` that agrees to it: `disaptchNawsString` posts it first, with 2 ms of
delay, and nothing but those 2 ms keeps it back.  `NeverDeaf` is about the pump the
connection has: `killNetThreads` clears the messages of whatever `mPump` is by then, its
poll included, and must send the `END` that replaces them.  `FlagAgrees` and `NoOrphan`
leave out timers that were touched between the two halves of `run()` or
edited while scheduled (`dirty`): for those the code gives no guarantee.
`ThrowsOnlyIfTouched` says that they alone throw: whatever happens to one timer, no method
of another fails, unless it was deleted in the middle of its responders or the `Timer`
thread was late.

`ForegroundKept` is "at least one notification is used for the startForeground" until the last
notification has been removed for the first time; that it does not hold after that is
`OneInForeground`, section 4.  `NoticesAgree` excepts the
notification of a connection that was shut down while it started (`leaked`), which is
a hazard of its own in `PROJECT.json`.  `RightLine` ends with a rebuild, after which the
code numbers lines from the characters that are left; `DispatchEnds` excepts edits by
the binder thread, which replace the matcher under the loop, and a rebuild after a
match in a last line without a newline, where the code cuts the text at a line end
that is not there.  `TableFresh` excepts a flag another connection has taken down.
`SentAsTyped` leaves out dots, a lone semicolon at the beginning and a `~` at the
end, which the code loses, in the line and in what its aliases stand for, and aliases
that lead back to themselves, for which `LineEnds` promises nothing either.

### Bounds

| Constant | Value | Why it is enough |
|---|---|---|
| `MaxPumps` | 2 in `net_full`, 3 in `net_session` | the disputes are between a pump and its successor; the third shows a retry of a retry |
| `Limit` (`mAutoReconnectLimit`) | 1 | both sides of the test are reached, and a limit counted twice would show at once |
| `MaxFaults` | 1 / 2 | a fault per pump: a loss, then a failed or a lost retry |
| `MaxOps`, `MaxSends`, `MaxChunks` | 1 in `net_full` | one binder call (a typed command is one), one option reply and one chunk against all else; their counts do not meet in one another's guards |
| `MaxSent` | 7 | text, marker, two compressed bytes, end, text, marker: a second start of compression in one stream |
| `Prompt` | both | a slow handler is the general case |
| `MaxUnits`, `MaxAsked` | 3, 6 | a command between two others, every cut; more requests than there are terminal types |
| `Seconds`, `Lateness` | 2, {0, 1} | a timer can be stopped before, at and after its time; a task can be overdue |
| `Timers`, `MaxOps`, `MaxTasks`, `MaxPending` | 2, 3, 4, 2 | one timer of each kind; start, pause and resume of one, or a stop and a start against a firing; `MaxTasks` is never what stops a start (a timer has at most a live and a forgotten task); two firings in the queue |
| `Displays`, `MaxOps` (Service) | 3, 4; 2, 5 in `close_next` | one connection selected, one lost, one that the choice of the next may fall on; four things users and peers do: two connections, a loss, a close |
| `UserOps`, `MaxFaults` in `kill_orphan` | {endXfer}, 0 | the one call and a pump that connects are all it takes |
| `Count`, `Owned` | 3, 1 (2, 0 in `trigger_delete`) | triggers of the settings and of a plugin; one gags, one gags and switches, one deletes |
| `MaxText`, `MaxOps` (Triggers) | 3, 3 | every chunk of three triggers and newlines, up to three lines; a second chunk and an edit |
| `Names`, `Words`, `MaxLine` | 2, 1, 4 | every line of four marks and words: two semicolons between words, a `~` before one, an alias set and used |
| `MaxBody`, `MaxText` (Commands) | 1, 6 | aliases that name each other, hold a mark or nothing; `MaxText` stops cyclic ones only |

Every run has `CHECK_DEADLOCK FALSE`, because every one of these systems may stop:
the process has ended (`fault`), the session is over and nobody calls, the peer
is silent, the stream has been delivered, no timer plays, the line has been sent.  What must *not* stop is
stated as a liveness property or as `NeverDeaf`.

### Fairness

`NetSession!FairSpec`: weak fairness of the two threads inside `Connection`'s
methods, of the handler's looper, and of each pump's and each writer's thread -
Android runs a runnable thread and a looper takes the next message.  Nothing is
assumed of the peer, of the binder calls, or of *which* of several enabled steps a
thread takes.  `KillReturns` therefore says that the join ends even if the peer
stays silent for ever, because closing the socket wakes a blocked read.
`Session!Spec` asks for `Start` and `Retry` only.

`Timers!FairSpec`: time passes, `java.util.Timer`'s thread and the looper run.
Nobody is obliged to call.  Telnet and Mccp have no fairness: they state safety.

`Service!FairSpec`: the main thread's looper and the window's queue run, one condition for
each thread.  `Triggers!FairSpec`: the loop of `dispatch` goes on.  `Commands!FairSpec`: so
does the handling of a line.  Users, peers, scripts and editors need not do anything.

### Mutants

`PROJECT.json` lists for every property of a passing run a mutant of a mapped
definition, the bug that property is there to catch: the poll re-armed without
the `hasMessages` test, a join left out, the limit not looked at, a flag left
standing, the data after the marker dropped, and so on.  The mutated forms stand
in the modules, next to what they mutate.

## 4. What the code does otherwise than it says

Four runs end in a counterexample; each quotes the line it contradicts.

* `kill_orphan` - `killNetThreads` "kill[s] the DataPumper and all of its
  threads" (`Connection.java:1280`).  A pump still inside `init()` has no handler;
  when the window calls `endXfer` then, the pump is forgotten, connects later and posts to
  the handler.
* `timer_stop` - a repeating timer stopped while its last firing is queued starts
  again by itself, because the responders' end restarts it unasked.
* `close_next` - "switch to the next one. service will do this for us."
  (`MainWindow.java:1562`).  The service does switch, and the dialog's handler goes on to
  `cleanExit`, which closes what is selected by then: a connection that runs.
* `trigger_delete` - `DeleteTrigger` "Deletes a trigger." (`Plugin.java:970`).  It takes it
  out of the map; the table is built from the sorted list, which has it still.

Six more statements of comments stand in the modules and are refuted in the same way.
Their configurations are kept beside the others, but are not among the runs of
`PROJECT.json`, which keep to one for each kind of disagreement in a component:

* `no_reconnect.cfg`, `NetSession!NoReconnectAfterKill` - "true if there should be no reconnect attempt
  made" (`Connection.java:1282`).  The early return for a null `mPump` skips
  `removeMessages(MESSAGE_RECONNECT)`.
* `stale_terminated.cfg`, `NetSession!TerminatedIsCurrent` - `TERMINATED_BY_PEER` of a pump that `reconnect` left
  behind tears down the new, healthy session: the message names no pump.
* `mccp_slow.cfg`, `Mccp!FollowedIsInflated` - what "followed IAC SB MCCP2 IAC SE" (`DataPumper.java:346`) is
  shown as text if a poll comes before the handler's answer.
* `telnet_cut.cfg`, `Telnet!HoldoverHolds` - the hold-over "used when a telnet negotation spans a
  transmission boundary" (`Processor.java:38`) is never filled: the guard
  `i > data.length - 1` cannot be true in the loop.
* `timer_pause.cfg`, `Timers!PauseKeepsTime` - the second pause of a timer computes what is left from the
  time since it was *resumed*, and so gives back the time before the first pause.
* `foreground_lost.cfg`, `Service!OneInForeground` - "ensure that at least one notification is used for the
  startForeground(...) method" (`StellarService.java:498`).  `mHasForegroundNotification` stays set
  when the last notification has gone, so that the next connection's is shown by
  `notify` and the service runs without one in the foreground.

## 5. The proofs

TLAPS checks eight modules.  Their theorems hold for every value of the constants
that the named assumptions `NetAssumption`, `MccpAssumption`, `GmcpAssumption`,
`TelnetAssumption`, `TimersAssumption`, `ServiceAssumption`, `TriggersAssumption` and
`CommandsAssumption` allow; nothing else is assumed, but for the one hypothesis of `NetSession_proofs`,
which is named in each of its theorems.

### NetThreads_proofs

`TypeOK` is inductive as it stands (`TypeCorrect`).  Part of it is more than types:
`mAutoReconnectAttempt` never passes the limit, and a thread that is inside
`closeSocket` or `join` has a pump to close or join.

`OneReport`, `ClosedNotConnected`, `PollsOnce` and `NeverDeaf` are not inductive
each: that a pump reports once depends on its poll being gone when it has
reported, that its poll is gone depends on `closeSocket` having been read by its
looper, and so on.  `PumpsOK` (in `NetThreads`) is their strengthening.  It says
of every pump that

* before its handler is published nobody has closed it, sent to it or heard of it;
* `mConnected` means a socket and not `mClosing`;
* at most one `RETRIEVE` is outstanding, queued or timed, and a queued one stands
  first in the queue of a looper that waits; inside `getData` there is none;
* it reports at most once, and after that it is neither connected nor polling;

and of the connection's pump `NeverDeaf`: a poll or an `END` is before it, or a thread in
`killNetThreads` is about to send the `END`.

`PumpsCorrect` proves `TypeOK /\ PumpsOK`.  The argument is local: an action sets
one pump's record (`SetPump`) or none, so that for each action it is enough to
show that the record it writes satisfies `PumpOK` if the record it read did, and is not
deaf if that was not (`Keeps`), as long as `mPump` and the threads about to send stay
(`Steady`).  The steps of `killNetThreads`, and those that set `mPump`, have a proof of
their own.  `ReportsOnce`, `ClosedStaysClosed`, `PollsAtMostOnce`
and `NeverGoesDeaf` follow, for any number of pumps, faults, calls and chunks.

### NetSession_proofs

The theorems of this module are about a session nobody interferes with: their
hypothesis is `Alone == UserOps = {} /\ MaxSends = 0`, as in `net_session`, and their number
of pumps, retries, faults and chunks is any.  With binder calls the three invariants
are false (section 3).

`AloneInv` relates what the code keeps in five places: the pumps, `mPump`, the
handler's queue, the delayed reconnects and the handler's own thread.

* `PumpsAlone`, `RestBehind`: a pump has its socket from `init` to its end; every pump
  but `mPump` is unborn, dead, or never got a socket and has nothing to say (`Behind`).
* `QueueInv`: of the messages that are news about a connection, the queue holds the
  `CONNECTED` of the present pump and then one report of its end, and no other; a
  report of a refused connection is of a pump that failed.
* `Waits`, `HasEnded`: a delayed reconnect is the only one and there is no pump beside it;
  without a handler there is nothing.
* `MainInv`: while the handler's thread acts on a report, there is none in the queue and
  no reconnect, and at every statement of `killNetThreads`, `doDisconnect`, `dispatchDialog`
  and `doStartup` it is settled whether there still is a pump.

`AloneInvariant` proves it together with `TypeOK /\ PumpsOK` of NetThreads: that a report
in the queue is the only one rests on `OneReport`.  `OneSessionAlone`, `ReportsAreFreshAlone`
and `ReconnectIsAlone` follow.  `StepsOfSession` is the refinement step by step: `Init` maps to
`Session!Init`, and each action maps to an action of `Session` or to a stutter (most do:
what a reader does inside a poll is nothing to a session).  The invariant is what makes it
go through: `HandleReconnect` is a `Retry` because there is no pump, `DisconnectedRetry` is
a `Lost` because the attempts are below the limit, a new pump is no second session.
The proof showed that `Session` had promised too much: a `PROCESS` queued behind a
`DISCONNECTED` that nobody retries throws when the session is over, where
`Session!Crash` used to stop.  The runs have `AutoReconnect = TRUE` and could not reach it.

### Mccp_proofs

`ShownOnce` needs to know where bytes are before they are shown.  `OwnedOnce` says
that every byte read is in one place at most: the messages of the handler's
queue, those of the pump's queue and what has been shown do not overlap, and a
message carries nothing that has not been read.  Each step moves a stretch from
one place to another (`PostOwned`, `TakeOwned`, `MailOwned`), shows it
(`ShowOwned`), shows part of it and keeps the rest (`FrontOwned`), or drops it.

`InOrder` is about a prompt handler.  `OneAtATime` adds that then there is one
message at most in the two queues together, and that what it carries comes after
everything shown; a poll adds only what is newer.

`CorruptedIsPlain` is what makes these go through `doDecompress`: it is why its last
test of `mCorrupted` is never taken after a poll.  `Correct` proves
`TypeOK`, `OwnedOnce`, `OneAtATime` under `prompt`, and `CorruptedIsPlain` together;
`ShownOnlyOnce`, `ShownInOrder` and `CorruptedStopsInflating` follow, for streams of
any length.

`OnlyText` and `LossIsTheLastCall` need the stream's shape and what the two threads know of
it.  `SInv` adds to the above

* `StreamOK`: a byte belongs to a compressed stream exactly if the one before it is a marker
  or a compressed byte that does not end its stream (`Streaming`);
* `InTurn`: when no message is on its way, `mCompressed` and the inflater agree with the
  stream up to what has been read (`Settled`); when one is, it is the message the bytes it
  carries deserve (`Deserved`): text to be shown while nothing inflates, inflated bytes, or
  the bytes after a marker, whose inflater is still to be set up.  The threads take turns;
* `Told`: of everything before the bytes that are on their way (`Upto`), what the window
  shows is the text and the inflated bytes except those of the last call before an end.

`InTheirTurn` proves it, with a lemma for each step (`SendTold`, `PollTold`, `DecompressTold`,
`ProcessTold`, `InflatedTold`, `StartCompressTold`, `CompressTold`); `OnlyTextShown` and
`LossIsLastCall` follow.

### Telnet_proofs

`rawProcess` is a recursive function of the position in the chunk, what it posts is folded
over the messages, and the bytes of the stream are its units flattened.  The prover has
no induction over data; it has least elements of sets of naturals (`Least`), and
every induction here is over the least position for which a statement fails.  `FoldIs`,
`FlattenIs` and `ScanIs` first show that the fold, the flattening and the loop are functions that
satisfy their recursion at all, then `StepIs` what one turn of the loop can come to: the
end, what a later byte comes to, or that with one byte of text or one event in front.

`MachineOK` is what `Dispatch` keeps of negotiator and messages (`DispatchKeeps`), and with
`ScanKeeps` what every chunk keeps, decodable or not, wherever it is cut.

* `Sized` is `SizePerAgreement` with the sizes still delayed: with those that went out they
  are as many as the agreements, and each was posted behind the agreements ahead of its own.
* `TypesTold` is `TermTypesInOrder` with the negotiator's index, which is the number of types
  told, or the last of the list.

`TypeOK` bounds the bells by the length of the stream, and so the invariant
(`TelnetInv`) relates what was posted to what was delivered: no more bells than the units up
to the place of the cut ring (`WireBells`, `BeforeIs`, `BetweenIs`: a chunk is what it adds to the
bytes delivered, and a unit that is cut has no bell in it).  `TypeCorrect`, `SizesAgreed` and
`TermTypesTold` follow, for streams of any length and any number of requests.

`DecodesStream` and `AnswersInOrder` need what a unit comes to, not only what a byte can do.
`Reads` lists what the loop can make of a unit that begins at a position (`UnitScan`: nothing, its
one byte of text, one event, or the end of the plain stream), and `UnitPlace` says where the
units of a decodable chunk begin.  `Leads(s, h, t)` is what holds in front of every unit: what
the loop still has to return and to post, `h`, completes the text, the bells and the
answers of the units read so far, `s`, to those of the units of the whole chunk, `t`.
`LeadsOn` takes it over one unit, `ChunkLeads` over the chunk, by the last unit for which it
fails.  Offers and answers are matched by rank (`Matched`): a unit or a message
that is neither leaves all ranks alone, and an offer and its answer get the same new
one (`MatchedBoth`).  The invariant (`CalmInv`) is that, while every chunk was decodable, the
state is what the delivered units mean; `StreamDecoded` and `OffersAnswered` follow.


### Timers_proofs

`Good(p, D, thr, heard)` is the strengthening, a predicate of a plugin's state `p`, the
dirty timers `D`, the timer `thr` that is between the two halves of `run()`, and the timers
`heard` whose message is queued or being handled.  It has five parts.

* `Apart`: no two timers hold one task, and a scheduled task has its holder's name.
  Without it cancelling the task of one timer could cancel another's.
* `Held`: `NoOrphan`, for `D`.
* `Flags`: `FlagAgrees`, made inductive: in the middle of `run()` a timer that does not
  repeat is already owed its message, although the map still has its task; a timer that
  does not exist has no task.
* `Running`: between the halves a timer that repeats still has a task, one that does not
  has none scheduled, unless a call came in between.
* `Ages`: as long as the Timer's thread is punctual, age and due time of the task of a timer
  that is not dirty add up to `Seconds` at most (`InTime`); so no remaining time of such a
  timer is negative, and no delay.  It is said of each timer for itself: that
  another one is dirty does not matter to it, which is what `ThrowsOnlyIfTouched` needs.

Each method has a lemma for an arbitrary `p` (`StopKeeps`,
`PauseKeeps`, `StartKeeps`, `ProgressKeeps`, `EditKeeps`).  A reset and the end of the
responders are a stop; the start behind it is the same in `Start` and in `Restart`
(`StartsBecomes`).  A call grows `D` by the timer in `run()` if that is the one
it touches, which is why `Running` may assume that nobody did; a restart in the middle of
`run()` does the same.  `Correct` proves `IInv`, and
`TypeCorrect`, `FlagsAgree`, `TasksAreHeld`, `ThrowsAreExplained` follow, for any set of
timers, any number of tasks, and any lateness.

### Service_proofs

`IInv == TypeOK /\ BarInv /\ SessionInv`.  `BarInv` is about the notification fields alone:
the status bar shows exactly the ids of the map, which are distinct; until the last one
has been removed the foreground's id is one of them and is the one the service
remembers.  It also has what the code comes to after that (the flag stands, nothing is
in the foreground, the id remembered is of no display), as `StatusBarAgrees` needs it:
without it a removal could take away the wrong notification.  `BarShown` and `BarRemoved` prove it of
`showConnectionNotification` and `removeConnectionNotification` once, for all the steps that
call them.  `SessionInv` relates the threads to the maps: a queued `START` or `LOST` that is
not stale is of a connection that has not been shut down, and so is every pump; a display
being started is `orphan` exactly when it was shut down meanwhile; a pump has a
notification or is about to get it; a notification has a usable connection or is
`leaked`.  `NoticesAgree` is not inductive without it: whether a pump may still appear for a
connection that is gone is decided by the queue and by the call in progress.
`Correct` proves `IInv`; `TypeCorrect`, `StatusBarCorrect`, `ForegroundIsKept` and
`NoticesCorrect` follow, for any set of displays and any number of operations.

### Triggers_proofs

`TableFresh` is inductive as it stands (`TableStaysFresh`): every step that changes what
`Build` reads sets the flag or rebuilds, which for a match takes a look at every
composition of responders (`RespondMarks`).

`LinesKept` is not.  `Kept(finished, working, sent, gone)` says that `finished` rises,
`working` falls, everything finished is older than everything at work, and the
two together are the lines that were not gagged.  Four lemmas follow it through
what can happen to lines: a chunk arrives (`KeptAtFirst`), the older end of `working` is moved
over in reverse (`KeptWhenMoved`), a line is taken out of its middle (`KeptWhenGagged`), and
the two are read as one list (`KeptIsShown`).  `LinesAreKept` puts them together for
any set of triggers, any responders and chunks of any length.

`RightLine` needs to know where in `working` the lines are.  `RightInv`: until a
rebuild, the lines of `working` up to `lineNumber` are the newest of the chunk
with none missing (`Newest`), `lineNumber` is inside the list (`Reaches`), and the
text to be matched is still the chunk's (`Facing`).  A gag takes away the line at
`lineNumber`, and what it shifts is older; a dispatch only moves on.  Together with
`LinesInv` it is inductive, and `LineIsRight` follows.

`TypeOK` says how far numbers go, and needs `LinesInv` too: that what is at work or
finished are lines of the chunk (`LinesTyped`) is a matter of `Kept`, not of types.  A chunk
has no more lines than characters (`NumberBound`); `lineNumber` can fall below zero by
gags and by a match behind more newlines than there are lines left, never below the
length of the text (`WorkRanged`).  `TypesHold` is the theorem.  The sorted lists are sets in the
module, as nothing but the sequence number orders them; what a sequence filtered
by `SelectSeq` contains, these provers cannot say.

### Commands_proofs

`SentAsTyped` compares two programs: the code's loop over a list that is split, cut, put
together and split again, and `Meaning`, which looks at positions only.  Nothing of it is
a step of the other, and most of the module brings the two together for lines and texts
of any length.  There is no induction over data; as in `Telnet_proofs` every
induction is over the least counterexample (`Least`), after it has been shown that the
fold, the flattening and the passes of the alias replacement are functions that satisfy
their recursion (`FlattenIs`, `FoldsAre`, `PassesAre`).

1. *Positions.*  `At(s, T)` is what is left of a text at positions `T`.  It is cut where
   `T` is cut (`AtConcat`), and so is `Kept`, what is left of a stretch (`KeptSplit`).
2. *The splitting.*  `Breaks` are the lone semicolons and the end, `Raw(s, j)` the piece that
   ends at one, `Cuts(s)` all of them.  `Scanned` is what `Scan` has made of the first `n`
   characters, by cases of where the last semicolon is.  `SplitIs`: the result is `Cuts(s)`.
3. *The holding back.*  A `~` in front of a break makes a command of several pieces.
   `Reads(s, p, l, h)` is the loop between two pieces: what is left of the list begins
   behind position `p`, and what is held back is the beginning of the command there.
   `Owes(l, h, c, V)` says the same without `s` and `p`: list and hold-over will
   yield the commands `c`.  `OwesNext` takes it over one piece.
4. *The aliases.*  A text that replaced an alias is split and put in front of the rest of
   the line.  `Due` is what two texts owe, one behind the other (`DuePush`, `DueNext`): it
   needs no more than two, as a text has no aliases left when it comes in front.
   `AcyclicEnds` says that this is so.  If no alias leads back to itself, the names can be put into an
   order in which every text has later ones only (`ChainIs`), and each pass does away with one name.
5. *The steps.*  `Base` holds of every line: the variables are texts and lists of texts,
   what was sent is what was collected, and, for a line without dots, neither what is
   held back nor a piece of the list can be made into a dot command that names an alias
   (`Calm`).  This is not obvious, as an alias' text may have dots; `AliasesStay`
   is its theorem.  `InTime` is the invariant of a line that `SentAsTyped` is about: what is
   collected, followed by what the commands due come to, is what the line comes to.
   Each step of the loop has a lemma about lists (`HoldOk`, `TakeOk`, `ExpandOk`,
   `ReprocessOk`, `CollectOk`, `EndOk`), and `InTimeNext` applies them to the actions.

`LineInTime` proves `Base /\ InTime`, `LineSent` that `SentAsTyped` follows.  Not even the bounds
`MaxLine`, `MaxBody` and `MaxText` are used, except that they are numbers.  Of the aliases only
those that a command of the line leads to matter, and of their texts only what is left
when no alias is: it must not begin with a lone semicolon, end in a `~` or hold a dot.

### What is only model-checked

* `KillReturns`, `LossIsHandled`, `PlayingFires`, `OneShotEnds`, `WindowGetsSession`,
  `DispatchEnds`, `LineEnds`: liveness under fairness is out of this prover's reach.
* `ImplementsSession`: its liveness, on three pumps.  Its steps are proved (`StepsOfSession`).

## 6. Abstractions, and what is not modelled

**Session.**  `Connection.mIsConnected` is left out: it is what the window asks to
know, and no modelled code tests it.  Between two statements of a thread others may run only where
they can notice: the test of a field and its use in the next expression are one
step, and so are a pump's publication of its handler and its first `RETRIEVE`.
Inside `killNetThreads` the reads of `mPump` are merged
with the statement that uses the pump, except where a test and its use are steps of their
own.  The warnings and dialogs around `CONNECTED` and `TERMINATED` are folded into the
action that causes them.  `shutdown` saves the settings before its `killNetThreads`
(`Connection.java:4158`); the model notices that `mSettings` has gone only after it
(`ShutdownDone`), which ends in the same exception.  That `useCompression` has text to post
is any outcome of `TakeCompress` here; what it is, is in Mccp.  `mSettings` is null exactly when the handler is gone.
The `RuntimeException` `init` makes of some `IOException`s and the throttling of the
poll in the background are not modelled.  The network is external: a peer accepts
or refuses, sends, closes or resets.

**Mccp.**  The inflater is external: it accepts exactly the continuation of its
stream, and fed anything else it either throws or, unless it is new, yields
garbage.  A marker is one position, so that the marker itself is never cut
(`telnet_cut` is about cuts).  `corruptMe` and `MESSAGE_NOCOMPRESS` have no caller.

**Telnet.**  Bytes are names.  The content of GMCP data, beyond the sending of
`Core.Hello` and `Core.Supports.Set`, is not modelled, nor are debug texts.  The
window's size is constant: nobody calls `setDisplayDimensions`, so that its `>> 2`
on dimensions above 255 cannot be reached with the 80 by 21 it starts with.  Nobody calls
`Processor.reset` either, nor therefore `OptionNegotiator.reset`.  A GMCP message is posted
once; the code posts it once for each watcher of its module.  `STARTCOMPRESS` goes to the
front of the handler's queue, which is the same as to the end here: the return at the
marker ends the plain stream (its way is in NetThreads and Mccp).
`DecodesStream` and `AnswersInOrder` leave out what `rawProcess` does not decode -
a command cut in two, an escaped `IAC` followed by a command, a GMCP
subnegotiation without data, an `IAC` inside one; the model still runs these, and
shows where they end.

**Timers.**  Each of `startTimer`, `stopTimer`, `pauseTimer`, `updateTimerProgress` is one step,
and so a stop with the start behind it is two.  The other gap that is modelled is the one
inside `run()`, which the
`java.util.Timer` thread executes after posting its message and before it touches
the maps; the two overlap in every way.  Between the statements of one of those
methods nothing interleaves, and the maps' own concurrency is not modelled.
A reload replaces the plugin without cancelling its `java.util.Timer`
(`Connection.java:911`, `Plugin.java:2187`), whose tasks go on; it is not modelled.  Time goes in seconds and none
passes inside `run()`.  `updateTimer`, saving and the text of
`.timer info` are left out.

**Service.**  One window, as the activity is `singleTask`.  A call that dereferences
null on the binder thread throws in the caller's process: the window is gone.  The
notification "Click to reconnect", the launcher's callbacks, the end of the service
itself and the automatic reconnection (NetThreads has it) are left out; what goes
on inside a connection is one bit, its pump.  Android shows exactly what it is told to.
`INITIALIZEWINDOWS` beyond two queued ones are not told apart.

**Triggers.**  A pattern is one character, and the text has no other but newlines:
which alternative of a pattern matches, captures, literal triggers and fire-once are
not modelled; the one effect of the merged pattern's syntax that is, is its empty
leading alternative (`blank`).  Colour, replace, toast, notification and sound responders
change no list; gags that retarget a line to another window are left out.  Every
step of a dispatch between two edits is atomic, as both threads are in Java code
that has no lock: finer interleavings inside one `buildTriggerSystem` are not modelled.

**Commands.**  An alias is a word; anchored aliases with captures, script blocks,
the program's own dot commands and Lua callbacks send nothing of the line and are
left out, as are the echo, the encoding and the stripping of line ends.  The main
thread handles a line in one message, so that nothing interleaves with it.

**Not modelled.**  Which windows exist, and what their callbacks draw, is decided by
settings and scripts; of all callbacks only the main window's decides anything, and
it is in Service.  The command history is a list with a cursor, used by one thread
and one text field.  `TextTree` lays out colours and line breaks; its counts matter to
drawing only.  Settings are XML in and out; the launcher is a list edited in a
dialog; the user interface is Android views.  What scripts do is not in this
repository: a script is what the API lets it change.

All C code of the repository is vendored: LuaJIT, luajava, sqlite and luabins.  It is
most of the repository's lines and none of its own logic, and no module maps to it;
the modules map to the program's Java code, `Connection.java`, `DataPumper.java`,
`Processor.java`, `OptionNegotiator.java`, `StellarService.java`, `MainWindow.java`, `Plugin.java` and
what they use.

The hazards of `PROJECT.json` that carry a note and no property are those the code does
run into.  Some contradict what a comment says: a property states the comment, and its
configuration, kept beside the runs, refutes it (`stale_terminated.cfg`, `no_reconnect.cfg`,
`mccp_slow.cfg`, `telnet_cut.cfg`, `foreground_lost.cfg`).  The others are outcomes of the models that
no property forbids, because the code allows them and nothing says otherwise: the faults
of NetThreads, `spin` and `crash` of Telnet, the `dirty` timers, the `leaked` notification, the
`swept` table, the `edited` dispatch, the `blank` alternative of Triggers and the fault of an
empty line in Commands.  The properties that leave these cases out say what holds apart from them.

## 7. Plan

What would come next, most important first:

1. **The reload of a plugin** in Timers: the old `java.util.Timer` is not cancelled.
2. **Composition**: Service's one bit per connection replaced by `Session`'s
   phases, so that a retry can run while its connection is closed from the window.
3. **Triggers** with patterns that overlap, and gags that retarget.
