----------------------------- MODULE NetThreads -----------------------------
(***************************************************************************)
(* The network threads of one connection.  Three kinds of thread share a   *)
(* Connection object:                                                      *)
(*   - "main", the looper thread that runs Connection.ConnectionHandler;   *)
(*   - "binder", the thread that serves the calls of the foreground window *)
(*     (endXfer, reconnect and closeConnection act on the Connection       *)
(*     there, they are not forwarded to "main");                           *)
(*   - for every session p a DataPumper, the reader, and its               *)
(*     OutputWriterThread.                                                 *)
(* The peer, the socket and Android's message queues are modelled from how *)
(* the code uses them.                                                     *)
(***************************************************************************)
EXTENDS Naturals, Sequences

CONSTANTS
    MaxPumps,       \* bound: DataPumper objects one behaviour may create
    Limit,          \* mAutoReconnectLimit
    AutoReconnect,  \* mAutoReconnect
    UserOps,        \* the binder calls the foreground makes
    Foreground,     \* may a window be bound when the session ends?
    PeerFaults,     \* what may go wrong outside
    MaxFaults,      \* bound: network faults in one behaviour
    MaxOps,         \* bound: binder calls
    MaxSends,       \* bound: option replies
    MaxChunks       \* bound: chunks of data the peers send

ASSUME NetAssumption ==
    /\ MaxPumps \in Nat \ {0}
    /\ Limit \in Nat /\ MaxFaults \in Nat /\ MaxOps \in Nat
    /\ MaxSends \in Nat /\ MaxChunks \in Nat
    /\ AutoReconnect \in BOOLEAN
    /\ UserOps \subseteq {"sendData", "initXfer", "endXfer", "reconnect", "closeConnection"}
    /\ Foreground \subseteq BOOLEAN /\ Foreground # {}
    /\ PeerFaults \subseteq {"refused", "eof", "reset"}

Pumps   == 1 .. MaxPumps
NoPump  == 0                \* a null mPump
Threads == {"main", "binder"}

VARIABLES
    mPump, mProcessor, mAutoReconnectAttempt,
    mHandler,           \* FALSE once shutdown() has nulled mHandler and mSettings
    inbox,              \* the connection handler's queue: [what, from]
    reconnects,         \* delayed MESSAGE_RECONNECTs pending
    thread,             \* the threads that run Connection's methods
    pump,               \* DataPumper p, its writer, its socket and its peer
    left,               \* what remains of the bounds
    fault               \* the exception nobody caught, if any

conn  == <<mPump, mProcessor, mAutoReconnectAttempt, mHandler>>
queue == <<inbox, reconnects>>
vars  == <<conn, queue, thread, pump, left, fault>>

Terminal == {"TERMINATED_BY_PEER", "DISCONNECTED"}
Message  ==
    [what : Terminal \union {"CONNECTED", "PROCESS", "DODIALOG", "XFER", "STARTUP",
                             "SENDDATA", "SENDOPTIONDATA", "STARTCOMPRESS"},
     from : Pumps \union {NoPump}]
Msg(w, p) == [what |-> w, from |-> p]

NewPump ==
    [pc |-> "unborn",        \* where run() is
     handler |-> FALSE,      \* mHandler # null
     mailbox |-> <<>>,       \* messages due in the pump's looper
     tick |-> 0,             \* delayed MESSAGE_RETRIEVEs
     connected |-> FALSE,    \* mConnected
     closing |-> FALSE,      \* mClosing
     interrupted |-> FALSE,
     writer |-> "none",      \* the writer thread
     writeQ |-> <<>>,        \* its queue
     sock |-> "none",        \* mSocket: not connected, open, closed
     peer |-> "up",
     rx |-> 0,               \* chunks received and not read
     reports |-> 0]          \* history: terminal messages the reader posted

Init ==
    /\ mPump = NoPump /\ mProcessor = FALSE
    /\ mAutoReconnectAttempt = 0 /\ mHandler = TRUE
    /\ inbox = <<Msg("STARTUP", NoPump)>> /\ reconnects = 0
    /\ thread = [t \in Threads |-> [at |-> "idle", target |-> NoPump, cont |-> "none"]]
    /\ pump = [p \in Pumps |-> NewPump]
    /\ left = [ops |-> MaxOps, sends |-> MaxSends, faults |-> MaxFaults,
               chunks |-> MaxChunks]
    /\ fault = "none"

\* An exception nobody catches ends the process; nothing runs after it.
Crash(where) == fault' = where
Alive        == fault = "none"
At(t, s)     == Alive /\ thread[t].at = s
In(p, s)     == Alive /\ pump[p].pc = s

SetPump(p, d)   == pump' = [pump EXCEPT ![p] = d]
SetThread(t, d) == thread' = [thread EXCEPT ![t] = d]

(***************************************************************************)
(* killNetThreads, run by thread t for the caller it resumes as cont.      *)
(* mPump is a field: every statement that dereferences it reads it again.  *)
(***************************************************************************)
CallKill(t, k) == SetThread(t, [thread[t] EXCEPT !.at = "enter", !.cont = k])
Goto(t, s)     == SetThread(t, [thread[t] EXCEPT !.at = s])
HasHandler(p)  == p # NoPump /\ pump[p].handler

\* sendMessage to the pump's looper: one that has quit drops the message.
Mailed(d, w) == IF d.pc = "dead" THEN d ELSE [d EXCEPT !.mailbox = Append(@, w)]

\* mPump == null: the method returns at once, RECONNECT messages stay queued.
KillReturnsAtOnce(t) ==
    /\ At(t, "enter") /\ mPump = NoPump
    /\ Goto(t, "after")
    /\ UNCHANGED <<conn, queue, pump, left, fault>>

\* No handler yet: the pump is still in init() and is only forgotten.
KillSkipsInit(t) ==
    /\ At(t, "enter") /\ mPump # NoPump /\ ~HasHandler(mPump)
    /\ Goto(t, "finish")
    /\ UNCHANGED <<conn, queue, pump, left, fault>>

\* Mutant of Closing: closeSocket forgets mConnected.
ClosingConnected(d) == [d EXCEPT !.closing = TRUE]

\* closeSocket, the flags.
Closing(d) == [d EXCEPT !.closing = TRUE, !.connected = FALSE]
KillFlags(t) ==
    /\ At(t, "enter") /\ HasHandler(mPump)
    /\ SetPump(mPump, Closing(pump[mPump]))
    /\ SetThread(t, [thread[t] EXCEPT !.at = "close", !.target = mPump])
    /\ UNCHANGED <<conn, queue, left, fault>>

\* closeSocket, the socket: shutdownInput throws on a socket that is not
\* connected or closed and may throw on one the peer has reset; the rest of the
\* method is then skipped.
KillSocket(t) ==
    LET p == thread[t].target IN
    /\ At(t, "close")
    /\ \/ /\ pump[p].sock = "open"
          /\ SetPump(p, [pump[p] EXCEPT !.sock = "shut", !.interrupted = TRUE])
       \/ (pump[p].sock # "open" \/ pump[p].peer = "reset") /\ UNCHANGED pump
    /\ Goto(t, "remove")
    /\ UNCHANGED <<conn, queue, left, fault>>

\* removeCallbacksAndMessages(null)
KillClear(t) ==
    /\ At(t, "remove") /\ HasHandler(mPump)
    /\ SetPump(mPump, [pump[mPump] EXCEPT !.mailbox = <<>>, !.tick = 0])
    /\ Goto(t, "end")
    /\ UNCHANGED <<conn, queue, left, fault>>

\* Mutant of KillMailbox: the MESSAGE_END is not sent.
KillMailboxEmpty(d) == d

\* MESSAGE_END, behind what another thread has queued since.
KillMailbox(d) == Mailed(d, "END")
KillEnd(t) ==
    /\ At(t, "end") /\ HasHandler(mPump)
    /\ SetPump(mPump, KillMailbox(pump[mPump]))
    /\ Goto(t, "wait")
    /\ UNCHANGED <<conn, queue, left, fault>>

\* mPump.join() is called on what mPump is now.
KillWaits(t) ==
    /\ At(t, "wait") /\ mPump # NoPump
    /\ SetThread(t, [thread[t] EXCEPT !.at = "join", !.target = mPump])
    /\ UNCHANGED <<conn, queue, pump, left, fault>>

\* The other thread has nulled mPump, or put a pump without a handler there.
KillLosesPump(t) ==
    /\ \/ Alive /\ thread[t].at \in {"remove", "end"} /\ ~HasHandler(mPump)
       \/ At(t, "wait") /\ mPump = NoPump
    /\ Crash("pump")
    /\ UNCHANGED <<conn, queue, thread, pump, left>>

\* Mutant of KillJoined: the pump is not waited for.
KillNotJoined(t) ==
    /\ At(t, "join")
    /\ Goto(t, "finish")
    /\ UNCHANGED <<conn, queue, pump, left, fault>>

\* join returns at once for a thread that was not started.
KillJoined(t) ==
    /\ At(t, "join") /\ pump[thread[t].target].pc \in {"new", "dead"}
    /\ Goto(t, "finish")
    /\ UNCHANGED <<conn, queue, pump, left, fault>>

\* Mutant of PumpAfterKill: mPump is not nulled.
PumpAfterKillKept == mPump

PumpAfterKill == NoPump
KillFinish(t) ==
    /\ At(t, "finish")
    /\ mProcessor' = FALSE /\ mPump' = PumpAfterKill
    /\ reconnects' = IF mHandler THEN 0 ELSE reconnects
    /\ Goto(t, "after")
    /\ UNCHANGED <<mAutoReconnectAttempt, mHandler, inbox, pump, left, fault>>

Kill(t) == \/ KillReturnsAtOnce(t) \/ KillSkipsInit(t) \/ KillFlags(t)
           \/ KillSocket(t) \/ KillClear(t) \/ KillEnd(t) \/ KillWaits(t)
           \/ KillLosesPump(t) \/ KillJoined(t) \/ KillFinish(t)

(***************************************************************************)
(* What the callers of killNetThreads go on to do.                         *)
(***************************************************************************)
Return(t) ==
    SetThread(t, [at |-> "idle", target |-> NoPump, cont |-> "none"])
After(t, conts) == At(t, "after") /\ thread[t].cont \in conts

\* Mutant of MayRetry: the limit is not looked at.
MayRetryForever == AutoReconnect

MayRetry == AutoReconnect /\ mAutoReconnectAttempt < Limit

\* doDisconnect(false) that schedules a reconnect.
DisconnectedRetry(t) ==
    /\ After(t, {"disconnected"}) /\ mHandler /\ MayRetry
    /\ mAutoReconnectAttempt' = mAutoReconnectAttempt + 1
    /\ reconnects' = reconnects + 1
    /\ Return(t)
    /\ UNCHANGED <<mPump, mProcessor, mHandler, inbox, pump, left, fault>>

\* doDisconnect that reaches mService.doDisconnect: overridden, or no tries left.
DisconnectedNotify(t) ==
    /\ mHandler
    /\ After(t, {"terminated", "endXfer"}) \/ (After(t, {"disconnected"}) /\ ~MayRetry)
    /\ Goto(t, "notify")
    /\ UNCHANGED <<conn, queue, pump, left, fault>>

\* doDisconnect of a connection that was shut down returns at once.
DisconnectedTooLate(t) ==
    /\ ~mHandler /\ After(t, {"terminated", "endXfer", "disconnected"})
    /\ Return(t)
    /\ UNCHANGED <<mPump, mProcessor, mAutoReconnectAttempt, mHandler, queue, pump,
                   left, fault>>

\* StellarService.doDisconnect: tell the window or, when no window is bound,
\* Connection.shutdown() from showDisconnectedNotification, which saves mSettings
\* first.
Notify(t) ==
    /\ At(t, "notify")
    /\ \E bound \in Foreground :
         IF bound \/ mHandler
         THEN (IF bound THEN Return(t) ELSE CallKill(t, "shutdown")) /\ UNCHANGED fault
         ELSE Crash("settings") /\ UNCHANGED thread
    /\ UNCHANGED <<mPump, mProcessor, mAutoReconnectAttempt, mHandler, queue, pump,
                   left>>

\* The end of Connection.shutdown(); mSettings is null if the other thread has
\* been through here since this one saved it.
ShutdownDone(t) ==
    /\ After(t, {"shutdown"})
    /\ IF mHandler
       THEN mHandler' = FALSE /\ reconnects' = 0 /\ Return(t) /\ UNCHANGED fault
       ELSE Crash("settings") /\ UNCHANGED <<mHandler, reconnects, thread>>
    /\ UNCHANGED <<mPump, mProcessor, mAutoReconnectAttempt, inbox, pump,
                   left>>

\* dispatchDialog after its killNetThreads.
DialogRetry(t) ==
    /\ After(t, {"dialog"})
    /\ IF mHandler
       THEN reconnects' = reconnects + 1 /\ Return(t) /\ UNCHANGED fault
       ELSE Crash("handler") /\ UNCHANGED <<reconnects, thread>>
    /\ UNCHANGED <<conn, inbox, pump, left>>

\* doStartup after its killNetThreads: the new pump and processor.
Create(t) ==
    /\ After(t, {"startup"})
    /\ \E p \in Pumps :
         /\ pump[p].pc = "unborn" /\ \A q \in Pumps : q < p => pump[q].pc # "unborn"
         /\ IF mHandler
            THEN /\ mPump' = p /\ mProcessor' = TRUE
                 /\ SetPump(p, [pump[p] EXCEPT !.pc = "new"])
                 /\ Goto(t, "start") /\ UNCHANGED fault
            ELSE Crash("settings") /\ UNCHANGED <<mPump, mProcessor, pump, thread>>
    /\ UNCHANGED <<mAutoReconnectAttempt, mHandler, queue, left>>

\* mPump.start(): mPump is read again.
StartPump(t) ==
    /\ At(t, "start")
    /\ IF mPump # NoPump /\ pump[mPump].pc = "new"
       THEN /\ SetPump(mPump, [pump[mPump] EXCEPT !.pc = "init"])
            /\ Return(t) /\ UNCHANGED fault
       ELSE Crash("pump") /\ UNCHANGED <<pump, thread>>
    /\ UNCHANGED <<mPump, mProcessor, mAutoReconnectAttempt, mHandler, queue, left>>

Resume(t) == \/ DisconnectedRetry(t) \/ DisconnectedNotify(t) \/ DisconnectedTooLate(t)
             \/ Notify(t) \/ ShutdownDone(t) \/ DialogRetry(t) \/ Create(t) \/ StartPump(t)

\* doReconnect: MESSAGE_END for the current pump, whose socket is left open,
\* mPump = null, then doStartup.
DoReconnect(t) ==
    /\ IF HasHandler(mPump)
       THEN SetPump(mPump, Mailed(pump[mPump], "END"))
       ELSE UNCHANGED pump
    /\ mPump' = NoPump
    /\ CallKill(t, "startup")
    /\ UNCHANGED <<mProcessor, mAutoReconnectAttempt, mHandler, fault>>

(***************************************************************************)
(* ConnectionHandler.handleMessage, on "main".                             *)
(***************************************************************************)
Receive(w, rest) ==
    /\ At("main", "idle") /\ inbox # <<>> /\ Head(inbox).what = w
    /\ inbox' = Tail(inbox) \o rest

\* The warnings queued just before CONNECTED and TERMINATED_BY_PEER are handled
\* with them: sendDataToWindow needs mSettings.
HandleConnected ==
    /\ Receive("CONNECTED", <<>>)
    /\ IF mHandler
       THEN mAutoReconnectAttempt' = 0 /\ UNCHANGED fault
       ELSE Crash("settings") /\ UNCHANGED mAutoReconnectAttempt
    /\ UNCHANGED <<mPump, mProcessor, mHandler, reconnects, thread, pump,
                   left>>

HandleTerminated ==
    /\ Receive("TERMINATED_BY_PEER", <<>>)
    /\ IF mHandler THEN CallKill("main", "terminated") /\ UNCHANGED fault
                   ELSE Crash("settings") /\ UNCHANGED thread
    /\ UNCHANGED <<conn, reconnects, pump, left>>

HandleDisconnected ==
    /\ Receive("DISCONNECTED", <<>>)
    /\ CallKill("main", "disconnected")
    /\ UNCHANGED <<conn, reconnects, pump, left, fault>>

\* dispatchDialog
HandleDialog ==
    /\ Receive("DODIALOG", <<>>)
    /\ IF mHandler /\ MayRetry
       THEN /\ mAutoReconnectAttempt' = mAutoReconnectAttempt + 1
            /\ CallKill("main", "dialog")
       ELSE UNCHANGED <<mAutoReconnectAttempt, thread>>
    /\ UNCHANGED <<mPump, mProcessor, mHandler, reconnects, pump, left, fault>>

\* dispatch: rawProcess may answer an option with SENDOPTIONDATA, queued at the
\* end, or start compression with STARTCOMPRESS, queued at the front.
HandleProcess ==
    LET from == Head(inbox).from IN
    /\ At("main", "idle") /\ inbox # <<>> /\ Head(inbox).what = "PROCESS"
    /\ \/ /\ inbox' = Tail(inbox) /\ UNCHANGED left
          /\ IF mProcessor THEN UNCHANGED fault ELSE Crash("processor")
       \/ /\ mProcessor /\ left.sends > 0
          /\ left' = [left EXCEPT !.sends = @ - 1] /\ UNCHANGED fault
          /\ \/ inbox' = Append(Tail(inbox), Msg("SENDOPTIONDATA", from))
             \/ inbox' = <<Msg("STARTCOMPRESS", from)>> \o Tail(inbox)
    /\ UNCHANGED <<conn, reconnects, thread, pump>>

HandleStartCompress ==
    /\ Receive("STARTCOMPRESS", <<>>)
    /\ IF HasHandler(mPump)
       THEN /\ SetPump(mPump, Mailed(pump[mPump], "COMPRESS"))
            /\ UNCHANGED fault
       ELSE Crash("pump") /\ UNCHANGED pump
    /\ UNCHANGED <<conn, reconnects, thread, left>>

\* DataPumper.sendData: the writer's handler is null until the writer has run;
\* a looper that has quit drops the message.
SendData(p) ==
    IF pump[p].writer \in {"none", "starting"}
    THEN Crash("writer") /\ UNCHANGED pump
    ELSE /\ IF pump[p].writer = "dead" THEN UNCHANGED pump
            ELSE SetPump(p, [pump[p] EXCEPT !.writeQ = Append(@, "SEND")])
         /\ UNCHANGED fault

\* sendToServer
HandleSendData ==
    /\ Receive("SENDDATA", <<>>)
    /\ IF mHandler /\ mPump # NoPump /\ pump[mPump].connected
       THEN SendData(mPump) ELSE UNCHANGED <<pump, fault>>
    /\ UNCHANGED <<conn, reconnects, thread, left>>

HandleSendOptionData ==
    /\ Receive("SENDOPTIONDATA", <<>>)
    /\ IF mPump # NoPump THEN SendData(mPump) ELSE UNCHANGED <<pump, fault>>
    /\ UNCHANGED <<conn, reconnects, thread, left>>

\* ServiceHandler's MESSAGE_STARTUP, posted by initXfer, on the same looper; the
\* connection may have been closed and removed from the service meanwhile.
HandleXfer ==
    /\ Receive("XFER", IF mPump = NoPump /\ mHandler THEN <<Msg("STARTUP", NoPump)>>
                                                     ELSE <<>>)
    /\ IF mHandler THEN UNCHANGED fault ELSE Crash("handler")
    /\ UNCHANGED <<conn, reconnects, thread, pump, left>>

HandleStartup ==
    /\ Receive("STARTUP", <<>>)
    /\ CallKill("main", "startup")
    /\ UNCHANGED <<conn, reconnects, pump, left, fault>>

\* A delayed MESSAGE_RECONNECT comes due.
HandleReconnect ==
    /\ At("main", "idle") /\ reconnects > 0
    /\ reconnects' = reconnects - 1
    /\ DoReconnect("main")
    /\ UNCHANGED <<inbox, left>>

Handle == \/ HandleConnected \/ HandleTerminated \/ HandleDisconnected
          \/ HandleDialog \/ HandleProcess \/ HandleSendData
          \/ HandleSendOptionData \/ HandleStartCompress \/ HandleXfer
          \/ HandleStartup \/ HandleReconnect

(***************************************************************************)
(* The calls of the foreground window, on "binder".  They are synchronous: *)
(* the window makes one at a time.                                         *)
(***************************************************************************)
UserCall(op) ==
    /\ op \in UserOps /\ left.ops > 0 /\ At("binder", "idle") /\ mHandler
    /\ left' = [left EXCEPT !.ops = @ - 1]
    /\ UNCHANGED reconnects

InitXfer ==
    /\ UserCall("initXfer")
    /\ inbox' = Append(inbox, Msg("XFER", NoPump))
    /\ UNCHANGED <<conn, thread, pump, fault>>

EndXfer ==
    /\ UserCall("endXfer")
    /\ CallKill("binder", "endXfer")
    /\ UNCHANGED <<conn, inbox, pump, fault>>

Reconnect ==
    /\ UserCall("reconnect")
    /\ DoReconnect("binder")
    /\ UNCHANGED inbox

CloseConnection ==
    /\ UserCall("closeConnection")
    /\ CallKill("binder", "shutdown")
    /\ UNCHANGED <<conn, inbox, pump, fault>>

TypeCommand ==
    /\ UserCall("sendData")
    /\ inbox' = Append(inbox, Msg("SENDDATA", NoPump))
    /\ UNCHANGED <<conn, thread, pump, fault>>

User == InitXfer \/ EndXfer \/ Reconnect \/ CloseConnection \/ TypeCommand

(***************************************************************************)
(* DataPumper.run, on the pump's own thread.                               *)
(***************************************************************************)
Post(p, w) == inbox' = Append(inbox, Msg(w, p))

\* init: unknown host, refused, timed out.
InitFails(p) ==
    /\ In(p, "init") /\ "refused" \in PeerFaults /\ left.faults > 0
    /\ left' = [left EXCEPT !.faults = @ - 1]
    /\ Post(p, "DODIALOG")
    /\ SetPump(p, [pump[p] EXCEPT !.pc = "publish"])
    /\ UNCHANGED <<conn, reconnects, thread, fault>>

InitConnects(p) ==
    /\ In(p, "init")
    /\ Post(p, "CONNECTED")
    /\ SetPump(p, [pump[p] EXCEPT !.pc = "publish", !.sock = "open",
          !.writer = "starting", !.connected = TRUE])
    /\ UNCHANGED <<conn, reconnects, thread, left, fault>>

\* Steps of the pump that only change the pump.
Quiet == UNCHANGED <<conn, queue, thread, left, fault>>

\* mHandler = new Handler(...) comes after init(); if (mReader != null) RETRIEVE.
Publish(p) ==
    /\ In(p, "publish")
    /\ SetPump(p, [pump[p] EXCEPT !.pc = "loop", !.handler = TRUE,
          !.mailbox = IF pump[p].sock = "none" THEN <<>> ELSE <<"RETRIEVE">>])
    /\ Quiet

NextIs(p, w) == pump[p].mailbox # <<>> /\ Head(pump[p].mailbox) = w

\* A MESSAGE_RETRIEVE, queued or delayed, is handled: getData up to its first
\* blocking call.  A check of mClosing is made together with the failure it
\* follows; the message it guards is posted later.
Retrieve(p) ==
    /\ In(p, "loop")
    /\ \E delayed \in BOOLEAN, s \in {"reading", "blocked", "failed"} :
         /\ IF delayed THEN pump[p].tick > 0 ELSE NextIs(p, "RETRIEVE")
         /\ CASE s = "reading" -> pump[p].sock = "open" /\ pump[p].rx > 0
              [] s = "blocked" -> pump[p].sock = "open" /\ pump[p].rx = 0
              [] s = "failed"  -> pump[p].sock = "shut" \/ pump[p].peer = "reset"
         /\ SetPump(p, [pump[p] EXCEPT
                !.tick = IF delayed THEN @ - 1 ELSE @,
                !.mailbox = IF delayed THEN @ ELSE Tail(@),
                !.connected = @ /\ ~(s = "failed" /\ pump[p].closing),
                !.pc = IF s # "failed" THEN s
                          ELSE IF pump[p].closing THEN "tail" ELSE "postio"])
    /\ Quiet

\* mReader.read(data) succeeds: MESSAGE_PROCESS.
ReadData(p) ==
    /\ In(p, "reading") /\ pump[p].sock = "open"
    /\ Post(p, "PROCESS")
    /\ SetPump(p, [pump[p] EXCEPT !.pc = "tail", !.rx = 0])
    /\ UNCHANGED <<conn, reconnects, thread, left, fault>>

\* mReader.read(data) throws: the method goes on to MESSAGE_PROCESS all the same.
ReadFails(p) ==
    /\ In(p, "reading") /\ (pump[p].sock = "shut" \/ pump[p].peer = "reset")
    /\ IF pump[p].closing
       THEN /\ Post(p, "PROCESS")
            /\ SetPump(p, [pump[p] EXCEPT !.pc = "tail", !.connected = FALSE])
       ELSE SetPump(p, [pump[p] EXCEPT !.pc = "postread"]) /\ UNCHANGED inbox
    /\ UNCHANGED <<conn, reconnects, thread, left, fault>>

\* The blocking read() of one byte returns it; reset() puts it back.
WakeData(p) ==
    /\ In(p, "blocked") /\ pump[p].rx > 0
    /\ SetPump(p, [pump[p] EXCEPT !.pc = "tail"])
    /\ Quiet

\* read() returns -1, or throws.
WakeEnd(p) ==
    /\ In(p, "blocked")
    /\ \E report \in {"posteof", "postio"} :
         /\ \/ report = "posteof" /\ pump[p].rx = 0
               /\ (pump[p].peer = "eof" \/ pump[p].sock = "shut")
            \/ report = "postio" /\ (pump[p].peer = "reset" \/ pump[p].sock = "shut")
         /\ SetPump(p, [pump[p] EXCEPT !.pc = IF pump[p].closing THEN "tail" ELSE report,
             !.connected = @ /\ ~pump[p].closing])
    /\ Quiet

\* The report that was decided on while mClosing was false, and mConnected = false.
Report(p) ==
    /\ Alive /\ pump[p].pc \in {"posteof", "postio", "postread"}
    /\ inbox' = inbox \o
         (CASE pump[p].pc = "posteof"  -> <<Msg("TERMINATED_BY_PEER", p)>>
            [] pump[p].pc = "postio"   -> <<Msg("DISCONNECTED", p)>>
            [] pump[p].pc = "postread" -> <<Msg("DISCONNECTED", p), Msg("PROCESS", p)>>)
    /\ SetPump(p, [pump[p] EXCEPT !.pc = "tail", !.connected = FALSE,
          !.reports = @ + 1])
    /\ UNCHANGED <<conn, reconnects, thread, left, fault>>

Queued(d, w)   == {i \in DOMAIN d.mailbox : d.mailbox[i] = w}
HasRetrieve(d) == d.tick > 0 \/ Queued(d, "RETRIEVE") # {}

\* Mutants of MayPoll: without the mConnected test, without the hasMessages test,
\* with the hasMessages test the wrong way round.
MayPollForever(d) == ~HasRetrieve(d)
MayPollTwice(d)   == d.connected
MayPollInverse(d) == HasRetrieve(d) /\ d.connected

MayPoll(d) == ~HasRetrieve(d) /\ d.connected

\* The end of ReadHandler.handleMessage.
Rearm(p) ==
    /\ In(p, "tail")
    /\ SetPump(p, [pump[p] EXCEPT
          !.tick = IF MayPoll(pump[p]) THEN @ + 1 ELSE @,
          !.pc = IF pump[p].closing THEN "shutdown" ELSE "loop"])
    /\ Quiet

\* useCompression: what it inflates, if it does, is posted as MESSAGE_PROCESS.
TakeCompress(p) ==
    /\ In(p, "loop") /\ NextIs(p, "COMPRESS")
    /\ Post(p, "PROCESS") \/ UNCHANGED inbox
    /\ SetPump(p, [pump[p] EXCEPT !.pc = "tail", !.mailbox = Tail(@)])
    /\ UNCHANGED <<conn, reconnects, thread, left, fault>>

TakeEnd(p) ==
    /\ In(p, "loop") /\ NextIs(p, "END")
    /\ SetPump(p, [pump[p] EXCEPT !.pc = "shutdown", !.mailbox = Tail(@)])
    /\ Quiet

\* shutdownSocket up to mWriterThread.join().
ShutdownSocket(p) ==
    /\ In(p, "shutdown")
    /\ IF pump[p].writer = "starting"
       THEN Crash("writer") /\ UNCHANGED pump
       ELSE /\ SetPump(p, [pump[p] EXCEPT !.pc = "join", !.tick = 0,
             !.writeQ = IF pump[p].writer = "running"
                        THEN Append(@, "END") ELSE @])
            /\ UNCHANGED fault
    /\ UNCHANGED <<conn, queue, thread, left>>

\* The join ends, by itself or by the interrupt of closeSocket; reader and
\* socket are closed, with what nobody has read, and the looper quits.
PumpDies(p) ==
    /\ In(p, "join") /\ (pump[p].writer # "running" \/ pump[p].interrupted)
    /\ SetPump(p, [pump[p] EXCEPT !.pc = "dead", !.mailbox = <<>>, !.rx = 0,
          !.sock = IF @ = "open" THEN "shut" ELSE @])
    /\ Quiet

Pumper(p) == \/ InitFails(p) \/ InitConnects(p) \/ Publish(p)
             \/ Retrieve(p) \/ ReadData(p) \/ ReadFails(p) \/ WakeData(p)
             \/ WakeEnd(p) \/ Report(p) \/ Rearm(p)
             \/ TakeCompress(p) \/ TakeEnd(p)
             \/ ShutdownSocket(p) \/ PumpDies(p)

(***************************************************************************)
(* OutputWriterThread.                                                     *)
(***************************************************************************)
WriterPublish(p) ==
    /\ Alive /\ pump[p].writer = "starting"
    /\ SetPump(p, [pump[p] EXCEPT !.writer = "running"])
    /\ Quiet

WriterNext(p, w) ==
    /\ Alive
    /\ pump[p].writer = "running" /\ pump[p].writeQ # <<>> /\ Head(pump[p].writeQ) = w

WriteOk(p) ==
    /\ WriterNext(p, "SEND") /\ pump[p].sock = "open" /\ pump[p].peer # "reset"
    /\ SetPump(p, [pump[p] EXCEPT !.writeQ = Tail(@)])
    /\ Quiet

\* IOException: the dialog is sent whether or not the connection is closing.
WriteFails(p) ==
    /\ WriterNext(p, "SEND") /\ (pump[p].sock = "shut" \/ pump[p].peer # "up")
    /\ Post(p, "DODIALOG")
    /\ SetPump(p, [pump[p] EXCEPT !.writeQ = Tail(@), !.connected = FALSE])
    /\ UNCHANGED <<conn, reconnects, thread, left, fault>>

WriterEnds(p) ==
    /\ WriterNext(p, "END")
    /\ SetPump(p, [pump[p] EXCEPT !.writer = "dead", !.writeQ = <<>>])
    /\ Quiet

Writer(p) == WriterPublish(p) \/ WriteOk(p) \/ WriteFails(p) \/ WriterEnds(p)

(***************************************************************************)
(* The peer.                                                               *)
(***************************************************************************)
PeerSends(p) ==
    /\ Alive /\ pump[p].sock = "open" /\ pump[p].peer = "up" /\ left.chunks > 0
    /\ left' = [left EXCEPT !.chunks = @ - 1]
    /\ SetPump(p, [pump[p] EXCEPT !.rx = @ + 1])
    /\ UNCHANGED <<conn, queue, thread, fault>>

PeerFails(p) ==
    /\ Alive /\ pump[p].sock = "open" /\ pump[p].peer = "up" /\ left.faults > 0
    /\ left' = [left EXCEPT !.faults = @ - 1]
    /\ \E f \in PeerFaults \ {"refused"} : SetPump(p, [pump[p] EXCEPT !.peer = f])
    /\ UNCHANGED <<conn, queue, thread, fault>>

Peer(p) == PeerSends(p) \/ PeerFails(p)

Next == \/ \E t \in Threads : Kill(t) \/ Resume(t)
        \/ Handle \/ User
        \/ \E p \in Pumps : Pumper(p) \/ Writer(p) \/ Peer(p)

Spec == Init /\ [][Next]_vars

(***************************************************************************)
(* Properties.                                                             *)
(***************************************************************************)
PumpPc ==
    {"unborn", "new", "init", "publish", "loop", "reading", "blocked", "posteof", "postio",
     "postread", "tail", "shutdown", "join", "dead"}
WriterPc == {"none", "starting", "running", "dead"}
Mail     == Seq({"RETRIEVE", "COMPRESS", "END"})
WriteQ   == Seq({"SEND", "END"})
Sock     == {"none", "open", "shut"}
PumpType ==
    [pc : PumpPc, handler : BOOLEAN, mailbox : Mail, tick : Nat, connected : BOOLEAN,
     closing : BOOLEAN, interrupted : BOOLEAN, writer : WriterPc, writeQ : WriteQ,
     sock : Sock, peer : {"up", "eof", "reset"}, rx : Nat, reports : Nat]
ThreadType ==
    [at : {"idle", "enter", "close", "remove", "end", "wait", "join", "finish", "after",
           "start", "notify"},
     target : Pumps \union {NoPump},
     cont : {"none", "terminated", "disconnected", "dialog", "startup", "endXfer",
             "shutdown"}]

ConnType   == /\ mPump \in Pumps \union {NoPump} /\ mProcessor \in BOOLEAN
              /\ mAutoReconnectAttempt \in 0 .. Limit /\ mHandler \in BOOLEAN
QueueType  == inbox \in Seq(Message) /\ reconnects \in Nat
Waiting(d) == d.at \in {"close", "join"} => d.target \in Pumps
ThreadsOK  == thread \in [Threads -> ThreadType] /\ \A t \in Threads : Waiting(thread[t])
PumpsType  == pump \in [Pumps -> PumpType]
RestType   == /\ left \in [ops : Nat, sends : Nat, faults : Nat, chunks : Nat]
              /\ fault \in {"none", "processor", "writer", "settings", "pump", "handler"}

\* Every variable has its type; the attempts counted by doDisconnect and
\* dispatchDialog never pass mAutoReconnectLimit, and a thread that runs
\* closeSocket or join runs it on a pump.
TypeOK == ConnType /\ QueueType /\ ThreadsOK /\ PumpsType /\ RestType

\* The reader of a pump reports the end of its connection at most once, however
\* its polling, killNetThreads and reconnect interleave: a second report would
\* be taken for the end of the next session.
OneReport == \A p \in Pumps : pump[p].reports <= 1

\* After closeSocket a pump never claims to be connected again, although init()
\* and the writer set mConnected without any lock.
ClosedNotConnected == \A p \in Pumps : pump[p].closing => ~pump[p].connected

\* Where the reader is inside getData, past the test of hasMessages.
Active == {"reading", "blocked", "posteof", "postio", "postread"}

\* A pump has at most one MESSAGE_RETRIEVE outstanding, queued or delayed, and
\* none while it is inside getData.
PollsOnce ==
    \A p \in Pumps : LET d == pump[p] IN
        /\ d.tick <= 1
        /\ d.tick = 1 => Queued(d, "RETRIEVE") = {}
        /\ \A i, j \in Queued(d, "RETRIEVE") : i = j
        /\ d.pc \in Active => ~HasRetrieve(d)

Deaf(d) == /\ d.pc = "loop" /\ d.connected
           /\ ~HasRetrieve(d) /\ Queued(d, "END") = {}

\* A connected pump that waits in its looper, while it is the connection's pump,
\* will poll the socket again, has been told to end or is about to be told:
\* nothing that clears its messages leaves it connected and deaf.
NeverDeaf ==
    mPump # NoPump /\ Deaf(pump[mPump]) => \E t \in Threads : thread[t].at = "end"

(***************************************************************************)
(* The inductive strengthening of the four: what holds of every pump.      *)
(***************************************************************************)
Unpublished == {"unborn", "new", "init", "publish"}

PumpOK(d) ==
    /\ d.pc \in Unpublished => /\ ~d.handler /\ ~d.closing /\ d.mailbox = <<>>
                               /\ d.tick = 0 /\ d.reports = 0
    /\ d.connected => d.sock # "none" /\ ~d.closing
    /\ d.tick <= 1 /\ d.reports <= 1
    /\ \A i \in Queued(d, "RETRIEVE") : i = 1 /\ d.pc = "loop" /\ d.tick = 0 /\ d.reports = 0
    /\ d.pc \in Active => d.tick = 0 /\ d.reports = 0
    /\ d.reports = 1 => ~d.connected /\ d.tick = 0

PumpsOK == (\A p \in Pumps : PumpOK(pump[p])) /\ NeverDeaf
=============================================================================
