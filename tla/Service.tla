-------------------------------- MODULE Service --------------------------------
(***************************************************************************)
(* StellarService: the connections it keeps, the one that is selected (the *)
(* "clutch"), and the notifications that keep the process in the           *)
(* foreground.  The service's own handler and every Connection's share the *)
(* main thread and its queue; the calls of the window (one activity,       *)
(* singleTask, in another process) run on a binder thread.  A handler is   *)
(* one step, doStartup two; a call is one step, the calls of               *)
(* closeConnection and cleanExit one step each.  What goes on inside a     *)
(* connection is NetThreads' matter: here it has a pump or not.            *)
(***************************************************************************)
EXTENDS Naturals, Sequences, FiniteSets

CONSTANTS
    Displays,       \* display names
    MaxOps          \* bound: what users and peers do

None == "none"

ASSUME ServiceAssumption == IsFiniteSet(Displays) /\ None \notin Displays /\ MaxOps \in Nat

VARIABLES
    mConnections,                   \* the displays mConnections has
    mConnectionClutch,              \* the selected display, or None
    pump,                           \* displays whose connection has a pump
    mConnectionNotificationIdMap,   \* the notification of a display, or 0
    mHasForegroundNotification,
    mForegroundNotificationId,      \* 0 for -1
    notificationCount,
    shown,          \* Android: the ids in the status bar
    foreground,     \* Android: the id startForeground() is in force with, or 0
    queue,          \* the main thread's
    starting,       \* the display whose doStartup() the main thread is in, or None
    orphan,         \* and whether its connection has been shut down since
    window,         \* the display of the window's intent, None without a window
    inits,          \* INITIALIZEWINDOWS in the window's queue, at most two told apart
    dialog,         \* the display the window's "Disconnected" dialog is about, or None
    call,           \* what the window's thread calls next: [next, display]
    fault,          \* the main thread has thrown: the process is gone
    ops,            \* what is left of MaxOps
    emptied,        \* history: the last notification was removed once
    leaked          \* history: displays whose notification came after the shutdown

notices == <<mConnectionNotificationIdMap, mHasForegroundNotification,
             mForegroundNotificationId, notificationCount, shown, foreground, emptied>>
maps    == <<mConnections, mConnectionClutch, pump>>
client  == <<window, inits, dialog, call>>
main    == <<starting, orphan, leaked>>
vars    == <<maps, notices, queue, main, client, fault, ops>>

Idle == [next |-> "idle", display |-> None]

\* A message for the service has no connection it could be stale for.
Msg(what, d) == [what |-> what, display |-> d, stale |-> FALSE]

Init ==
    /\ mConnections = {} /\ mConnectionClutch = None /\ pump = {}
    /\ mConnectionNotificationIdMap = [d \in Displays |-> 0]
    /\ mHasForegroundNotification = FALSE /\ mForegroundNotificationId = 0
    /\ notificationCount = 0 /\ shown = {} /\ foreground = 0
    /\ queue = <<>> /\ starting = None /\ orphan = FALSE /\ fault = FALSE
    /\ ops = MaxOps
    /\ window = None /\ inits = 0 /\ dialog = None /\ call = Idle
    /\ emptied = FALSE /\ leaked = {}

(***************************************************************************)
(* Notifications.  An id is never used again.                              *)
(***************************************************************************)
IdOf(d) == mConnectionNotificationIdMap[d]
Noted   == {d \in Displays : IdOf(d) # 0}
NextId  == notificationCount + 1

showConnectionNotification(d) ==
    \/ IdOf(d) # 0 /\ UNCHANGED notices
    \/ /\ IdOf(d) = 0
       /\ notificationCount' = NextId
       /\ mConnectionNotificationIdMap' = [mConnectionNotificationIdMap EXCEPT ![d] = NextId]
       /\ shown' = shown \cup {NextId}
       /\ IF mHasForegroundNotification
          THEN UNCHANGED <<mHasForegroundNotification, mForegroundNotificationId, foreground>>
          ELSE /\ mHasForegroundNotification' = TRUE
               /\ mForegroundNotificationId' = NextId /\ foreground' = NextId
       /\ UNCHANGED emptied

Forget(d) ==
    mConnectionNotificationIdMap' = [mConnectionNotificationIdMap EXCEPT ![d] = 0]

\* Mutant of CancelNotice: it is forgotten, and stays in the status bar.
CancelNoticeKeeps(d) ==
    /\ IdOf(d) # mForegroundNotificationId
    /\ UNCHANGED <<shown, mForegroundNotificationId, foreground, mConnectionClutch, emptied>>

\* Not the foreground notification: it is only cancelled.
CancelNotice(d) ==
    /\ IdOf(d) # mForegroundNotificationId
    /\ shown' = shown \ {IdOf(d)}
    /\ UNCHANGED <<mForegroundNotificationId, foreground, mConnectionClutch, emptied>>

\* The last notification: the flag mHasForegroundNotification stays.
LastNotice(d) ==
    /\ IdOf(d) = mForegroundNotificationId /\ Noted = {d}
    /\ shown' = shown \ {foreground} /\ foreground' = 0
    /\ mConnectionClutch' = None /\ emptied' = TRUE
    /\ UNCHANGED mForegroundNotificationId

\* Mutant of NextNotice: the next notification is shown, but not as the foreground's.
NextNoticePlain(d) ==
    /\ IdOf(d) = mForegroundNotificationId
    /\ \E e \in Noted \ {d} :
         /\ mConnectionClutch' = e /\ mForegroundNotificationId' = IdOf(e)
         /\ foreground' = 0 /\ shown' = shown \ {foreground}
    /\ UNCHANGED emptied

\* Some other notification becomes the foreground's, and its display the clutch.
NextNotice(d) ==
    /\ IdOf(d) = mForegroundNotificationId
    /\ \E e \in Noted \ {d} :
         /\ mConnectionClutch' = e /\ mForegroundNotificationId' = IdOf(e)
         /\ foreground' = IdOf(e)
         /\ shown' = (shown \ {foreground, IdOf(e)}) \cup {IdOf(e)}
    /\ UNCHANGED emptied

removeConnectionNotification(d) ==
    \/ IdOf(d) = 0 /\ UNCHANGED <<notices, mConnectionClutch>>
    \/ /\ IdOf(d) # 0 /\ Forget(d)
       /\ CancelNotice(d) \/ LastNotice(d) \/ NextNotice(d)
       /\ UNCHANGED <<mHasForegroundNotification, notificationCount>>

(***************************************************************************)
(* Connection.shutdown().  The messages for its handler stay queued, for   *)
(* an object whose mSettings and mHandler are null.                        *)
(***************************************************************************)
\* Mutant of Outlived: the messages are handled as if nothing had happened.
OutlivedNot(q, d) == q

\* Messages of d's handler in q, once d is shut down.
Outlived(q, d) ==
    [i \in DOMAIN q |->
        IF q[i].what \in {"START", "LOST"} /\ q[i].display = d
        THEN [q[i] EXCEPT !.stale = TRUE] ELSE q[i]]

\* Mutant of shutdown: the notification of a lost connection is left to it.
shutdownKeeps(d, q) ==
    /\ pump' = pump \ {d} /\ queue' = Outlived(q, d)
    /\ orphan' = (orphan \/ starting = d)
    /\ UNCHANGED <<notices, mConnectionClutch>>

shutdown(d, q) ==
    /\ pump' = pump \ {d}
    /\ queue' = Outlived(q, d)
    /\ orphan' = (orphan \/ starting = d)
    /\ removeConnectionNotification(d)

\* Connections that have not been shut down.
Usable == mConnections \ {call.display}

(***************************************************************************)
(* The main thread.                                                        *)
(***************************************************************************)
Alive == ~fault
Looping(what) ==
    Alive /\ starting = None /\ queue # <<>> /\ Head(queue).what = what
Crash == fault' = TRUE /\ UNCHANGED <<maps, notices, main, client, ops>>

\* A broadcast of loadWindowSettings().
Announce ==
    inits' = IF window # None /\ inits < 2 THEN inits + 1 ELSE inits

NewConnection ==
    LET d == Head(queue).display IN
    /\ Looping("NEW") /\ queue' = Tail(queue)
    /\ \/ d \in mConnections /\ UNCHANGED <<mConnections, mConnectionClutch, inits>>
       \/ /\ d \notin mConnections
          /\ mConnections' = mConnections \cup {d} /\ mConnectionClutch' = d
          /\ Announce
    /\ UNCHANGED <<pump, notices, main, window, dialog, call, fault, ops>>

switchTo ==
    /\ Looping("SWITCH") /\ queue' = Tail(queue)
    /\ mConnectionClutch' = Head(queue).display /\ Announce
    /\ UNCHANGED <<mConnections, pump, notices, main, window, dialog, call, fault, ops>>

\* Mutant of Startup: a connection that has a notification is taken to run.
StartupNoted ==
    /\ Looping("STARTUP")
    /\ \/ mConnectionClutch \notin Usable /\ queue' = Tail(queue) /\ Crash
       \/ /\ mConnectionClutch \in Usable
          /\ queue' = IF mConnectionClutch \in Noted THEN Tail(queue)
                      ELSE Append(Tail(queue), Msg("START", mConnectionClutch))
          /\ UNCHANGED <<maps, notices, main, client, fault, ops>>

\* mConnections.get(mConnectionClutch) may be null, and so may its handler.
Startup ==
    /\ Looping("STARTUP")
    /\ \/ mConnectionClutch \notin Usable /\ queue' = Tail(queue) /\ Crash
       \/ /\ mConnectionClutch \in Usable
          /\ queue' = IF mConnectionClutch \in pump THEN Tail(queue)
                      ELSE Append(Tail(queue), Msg("START", mConnectionClutch))
          /\ UNCHANGED <<maps, notices, main, client, fault, ops>>

\* Connection.doStartup(), up to showConnectionNotification().
StartBegins ==
    LET m == Head(queue) IN
    /\ Looping("START") /\ queue' = Tail(queue)
    /\ \/ m.stale /\ Crash
       \/ /\ ~m.stale
          /\ starting' = m.display /\ orphan' = FALSE /\ pump' = pump \cup {m.display}
          /\ UNCHANGED <<mConnections, mConnectionClutch, notices, leaked, client, fault, ops>>

\* A shutdown in between makes the rest dereference null, or comes too late for that.
StartEnds ==
    /\ Alive /\ starting # None /\ starting' = None
    /\ \/ /\ showConnectionNotification(starting)
          /\ leaked' = IF orphan THEN leaked \cup {starting} ELSE leaked
          /\ UNCHANGED fault
       \/ orphan /\ fault' = TRUE /\ UNCHANGED <<notices, leaked>>
    /\ UNCHANGED <<maps, queue, orphan, client, ops>>

\* A loss the window is told of: the connection stays, without a pump.
TellWindow(d) ==
    /\ d = mConnectionClutch /\ window # None
    /\ dialog' = d /\ pump' = pump \ {d} /\ queue' = Tail(queue)
    /\ UNCHANGED <<mConnections, mConnectionClutch, notices, main>>

\* A loss nobody sees: showDisconnectedNotification().
Drop(d) ==
    /\ d # mConnectionClutch \/ window = None
    /\ mConnections' = mConnections \ {d} /\ shutdown(d, Tail(queue))
    /\ UNCHANGED <<starting, leaked, dialog>>

Lost ==
    LET m == Head(queue) IN
    /\ Looping("LOST")
    /\ \/ m.stale /\ queue' = Tail(queue) /\ UNCHANGED <<maps, notices, main, dialog>>
       \/ ~m.stale /\ (TellWindow(m.display) \/ Drop(m.display))
    /\ UNCHANGED <<window, inits, call, fault, ops>>

Reload ==
    /\ Looping("RELOAD") /\ queue' = Tail(queue)
    /\ \/ mConnectionClutch \notin mConnections /\ Crash
       \/ /\ mConnectionClutch \in mConnections
          /\ inits' = IF window # None THEN 2 ELSE inits
          /\ UNCHANGED <<maps, notices, main, window, dialog, call, fault, ops>>

Main == NewConnection \/ switchTo \/ Startup \/ StartBegins \/ StartEnds \/ Lost \/ Reload

(***************************************************************************)
(* The window and its calls.  A call that dereferences null throws in the  *)
(* window's process: the window is gone.                                   *)
(***************************************************************************)
Post(m) == queue' = Append(queue, m)
Can     == Alive /\ call = Idle
Op      == ops > 0 /\ ops' = ops - 1
Gone    == window' = None /\ inits' = 0 /\ dialog' = None

\* onServiceConnected() of a new window: registerCallback().
registerCallback(d) ==
    /\ Can /\ Op /\ window = None /\ window' = d
    /\ \/ d \in mConnections /\ mConnectionClutch' = d /\ inits' = 1 /\ UNCHANGED queue
       \/ d \notin mConnections /\ Post(Msg("NEW", d)) /\ UNCHANGED <<mConnectionClutch, inits>>
    /\ UNCHANGED <<mConnections, pump, notices, main, dialog, call, fault>>

\* onResume() of the bound window with a new intent.
Resume(d) ==
    /\ Can /\ Op /\ window # None /\ window' = d
    /\ IF mConnectionClutch = d THEN UNCHANGED queue ELSE Post(Msg("SWITCH", d))
    /\ UNCHANGED <<maps, notices, main, inits, dialog, call, fault>>

\* dirtyExit(), onDestroy(): the connections stay.
Leave ==
    /\ Can /\ window # None /\ Gone
    /\ UNCHANGED <<maps, notices, main, queue, call, fault, ops>>

\* INITIALIZEWINDOWS: the windows are asked for, then initXfer() is called.
Initialize ==
    /\ Can /\ inits > 0
    /\ \/ /\ mConnectionClutch \in mConnections
          /\ inits' = inits - 1 /\ Post(Msg("STARTUP", None)) /\ UNCHANGED <<window, dialog>>
       \/ mConnectionClutch \notin mConnections /\ Gone /\ UNCHANGED queue
    /\ UNCHANGED <<maps, notices, main, call, fault, ops>>

reloadSettings ==
    /\ Can /\ Op /\ window # None /\ Post(Msg("RELOAD", None))
    /\ UNCHANGED <<maps, notices, main, client, fault>>

\* The dialog's "Reconnect": Connection.doReconnect(), on the binder thread.
reconnect ==
    /\ Can /\ Op /\ dialog # None
    /\ \/ /\ dialog \in mConnections /\ pump' = pump \cup {dialog}
          /\ showConnectionNotification(dialog) /\ dialog' = None
          /\ UNCHANGED <<window, inits>>
       \/ dialog \notin mConnections /\ Gone /\ UNCHANGED <<pump, notices>>
    /\ UNCHANGED <<mConnections, mConnectionClutch, main, queue, call, fault>>

Dismiss ==
    /\ Can /\ dialog # None /\ dialog' = None
    /\ UNCHANGED <<maps, notices, main, queue, window, inits, call, fault, ops>>

\* closeConnection(d): shutdown, then Remove; next is what comes after it.
Close(d, next) ==
    /\ shutdown(d, queue) /\ call' = [next |-> next, display |-> d]
    /\ UNCHANGED <<mConnections, starting, leaked>>

\* The dialog's "Close".
CloseDialog ==
    /\ Can /\ Op /\ dialog # None
    /\ \/ dialog \in mConnections /\ Close(dialog, "close")
       \/ /\ dialog \notin mConnections /\ call' = [Idle EXCEPT !.next = "exit"]
          /\ UNCHANGED <<maps, notices, main, queue>>
    /\ UNCHANGED <<window, inits, dialog, fault>>

\* cleanExit(), from the menu and from back.
Exit ==
    /\ Can /\ Op /\ window # None /\ dialog = None
    /\ call' = [Idle EXCEPT !.next = "exit"]
    /\ UNCHANGED <<maps, notices, main, queue, window, inits, dialog, fault>>

\* The end of closeConnection().
Remove ==
    /\ Alive /\ call.display # None
    /\ mConnections' = mConnections \ {call.display}
    /\ call' = [next |-> IF call.next = "close" THEN "exit" ELSE "leave", display |-> None]
    /\ UNCHANGED <<mConnectionClutch, pump, notices, main, queue, window, inits, dialog,
                   fault, ops>>

\* cleanExit() closes what is selected by then.
CloseSelected ==
    /\ Alive /\ call = [Idle EXCEPT !.next = "exit"]
    /\ \/ mConnectionClutch \in mConnections /\ Close(mConnectionClutch, "exit")
       \/ /\ mConnectionClutch \notin mConnections /\ call' = [Idle EXCEPT !.next = "leave"]
          /\ UNCHANGED <<maps, notices, main, queue>>
    /\ UNCHANGED <<window, inits, dialog, fault, ops>>

unregisterCallback ==
    /\ Alive /\ call = [Idle EXCEPT !.next = "leave"] /\ Gone /\ call' = Idle
    /\ UNCHANGED <<maps, notices, main, queue, fault, ops>>

Window == Initialize \/ Remove \/ CloseSelected \/ unregisterCallback

User ==
    \/ \E d \in Displays : registerCallback(d) \/ Resume(d)
    \/ Leave \/ reloadSettings \/ reconnect \/ Dismiss \/ CloseDialog \/ Exit

\* The end of a session, as its pump reports it.
Lose(d) ==
    /\ Alive /\ Op /\ d \in pump
    /\ ~\E i \in DOMAIN queue : queue[i].what = "LOST" /\ queue[i].display = d
    /\ Post(Msg("LOST", d))
    /\ UNCHANGED <<maps, notices, main, client, fault>>

Next == Main \/ Window \/ User \/ \E d \in Displays : Lose(d)

Spec == Init /\ [][Next]_vars

\* The main thread's looper and the window's run; users and peers need not.
FairSpec == Spec /\ WF_vars(Main) /\ WF_vars(Window)

(***************************************************************************)
(* Properties.                                                             *)
(***************************************************************************)
Ids == {IdOf(d) : d \in Noted}

Message == [what : {"NEW", "SWITCH", "START", "LOST"}, display : Displays, stale : BOOLEAN]
           \cup [what : {"STARTUP", "RELOAD"}, display : {None}, stale : {FALSE}]

TypeOK ==
    /\ mConnections \subseteq Displays /\ pump \subseteq mConnections
    /\ mConnectionClutch \in Displays \cup {None}
    /\ mConnectionNotificationIdMap \in [Displays -> 0 .. notificationCount]
    /\ mHasForegroundNotification \in BOOLEAN
    /\ mForegroundNotificationId \in 0 .. notificationCount
    /\ notificationCount \in Nat /\ foreground \in 0 .. notificationCount
    /\ shown \subseteq 1 .. notificationCount
    /\ queue \in Seq(Message)
    /\ starting \in Displays \cup {None} /\ orphan \in BOOLEAN
    /\ window \in Displays \cup {None} /\ inits \in 0 .. 2
    /\ dialog \in Displays \cup {None} /\ ops \in 0 .. MaxOps /\ fault \in BOOLEAN
    /\ call \in [next : {"idle", "close", "exit", "leave"}, display : Displays \cup {None}]
    /\ emptied \in BOOLEAN /\ leaked \subseteq Displays

\* The status bar shows one notification for each entry of the maps and no
\* other, however starts, losses and closes follow each other.
StatusBarAgrees ==
    /\ shown = Ids
    /\ \A d, e \in Noted : IdOf(d) = IdOf(e) => d = e

\* Until the last notification has gone once, whatever is shown includes the one
\* startForeground() is in force with: a removal of the foreground's hands it on
\* (StellarService.removeConnectionNotification).
ForegroundKept ==
    ~emptied /\ Noted # {} => foreground = mForegroundNotificationId /\ foreground \in Ids

\* "at least one notification is used for the startForeground(...) method"
\* (StellarService.java:498).  The code does not keep it: the flag stays when the
\* last notification goes, and no later one is the foreground's.
OneInForeground == Noted # {} => foreground \in Ids

\* A running session has a notification, and a notification a connection, but
\* for one that was shut down while it started.
NoticesAgree ==
    /\ pump \subseteq Noted \cup {starting}
    /\ Noted \subseteq mConnections \cup leaked

\* A window that is told to load its windows gets a running session behind them,
\* or is told that there is none.
WindowGetsSession ==
    ops = 0 /\ inits > 0 ~> mConnectionClutch \in pump \/ window = None \/ fault

\* Closing a lost connection, "switch to the next one. service will do this for
\* us." (MainWindow.java:1562): the dialog's Close ends no connection that runs.
CloseSparesNext ==
    [][call.next = "exit" /\ CloseSelected /\ dialog # None => mConnectionClutch \notin pump]_vars
=============================================================================
