-------------------------- MODULE NetThreads_proofs --------------------------
(***************************************************************************)
(* TypeOK is an invariant of NetThreads, and so is what PumpsOK says of    *)
(* every DataPumper: from it OneReport, ClosedNotConnected, PollsOnce and  *)
(* NeverDeaf follow for any number of pumps, faults, calls and chunks.     *)
(*                                                                         *)
(* TypeOK is inductive as it stands.  PumpsOK is inductive relative to     *)
(* TypeOK; it speaks of one pump at a time, so an action that sets one     *)
(* pump is proved by what it does to that pump (Keeps, GoodPump), and      *)
(* NeverDeaf by what it leaves of mPump and of a killNetThreads under way  *)
(* (Steady).                                                               *)
(***************************************************************************)
EXTENDS NetThreads, SequenceTheorems, TLAPS

(***************************************************************************)
(* Lemmas about the operators the actions are built from.                  *)
(***************************************************************************)
\* SetThread keeps the threads well typed.
LEMMA ThreadStep ==
  ASSUME ThreadsOK, NEW t \in Threads, NEW d \in ThreadType, Waiting(d), SetThread(t, d)
  PROVE  ThreadsOK'
BY DEF ThreadsOK, SetThread, Waiting

\* Goto to a step that needs no target.
LEMMA GotoStep ==
  ASSUME ThreadsOK, NEW t \in Threads,
         NEW s \in {"idle", "enter", "remove", "end", "wait", "finish", "after", "start",
                    "notify"},
         Goto(t, s)
  PROVE  ThreadsOK'
<1> DEFINE d == [thread[t] EXCEPT !.at = s]
<1>1. thread[t] \in ThreadType
  BY DEF ThreadsOK
<1>2. d \in ThreadType /\ Waiting(d)
  BY <1>1 DEF ThreadType, Waiting
<1> QED
  BY <1>2, ThreadStep DEF Goto

\* CallKill names a caller of killNetThreads.
LEMMA CallKillStep ==
  ASSUME ThreadsOK, NEW t \in Threads,
         NEW k \in {"terminated", "disconnected", "dialog", "startup", "endXfer",
                    "shutdown"},
         CallKill(t, k)
  PROVE  ThreadsOK'
<1> DEFINE d == [thread[t] EXCEPT !.at = "enter", !.cont = k]
<1>1. thread[t] \in ThreadType
  BY DEF ThreadsOK
<1>2. d \in ThreadType /\ Waiting(d)
  BY <1>1 DEF ThreadType, Waiting
<1> QED
  BY <1>2, ThreadStep DEF CallKill

LEMMA ReturnStep ==
  ASSUME ThreadsOK, NEW t \in Threads, Return(t)
  PROVE  ThreadsOK'
<1> DEFINE d == [at |-> "idle", target |-> NoPump, cont |-> "none"]
<1>1. d \in ThreadType /\ Waiting(d)
  BY DEF ThreadType, Waiting
<1> QED
  BY <1>1, ThreadStep DEF Return

\* SetPump keeps the pumps well typed.
LEMMA PumpTypeStep ==
  ASSUME PumpsType, NEW p \in Pumps, NEW d \in PumpType, SetPump(p, d)
  PROVE  PumpsType'
BY DEF PumpsType, SetPump

\* A message appended to the handler's queue.
LEMMA AppendMessage ==
  ASSUME NEW q \in Seq(Message), NEW m \in Message
  PROVE  Append(q, m) \in Seq(Message)
BY AppendProperties

\* A message put at the front of the handler's queue.
LEMMA PrependMessage ==
  ASSUME NEW q \in Seq(Message), NEW m \in Message
  PROVE  <<m>> \o q \in Seq(Message)
<1>1. <<m>> \in Seq(Message)
  OBVIOUS
<1> QED
  BY <1>1, ConcatProperties

\* Receive takes the first message off and may queue others.
LEMMA ReceiveStep ==
  ASSUME inbox \in Seq(Message), NEW w, NEW r \in Seq(Message), Receive(w, r)
  PROVE  inbox' \in Seq(Message)
<1>1. Tail(inbox) \in Seq(Message)
  BY HeadTailProperties DEF Receive
<1> QED
  BY <1>1, ConcatProperties DEF Receive

\* The empty queue is a queue of messages.
LEMMA NoMessages == <<>> \in Seq(Message)
OBVIOUS

\* The updates of a pump's record the actions make keep it well typed.
LEMMA PumpUpdate ==
  ASSUME NEW d \in PumpType
  PROVE  /\ \A s \in PumpPc :
             [d EXCEPT !.pc = s] \in PumpType
         /\ \A b \in BOOLEAN, c \in BOOLEAN :
             [d EXCEPT !.closing = b, !.connected = c] \in PumpType
         /\ \A k \in Sock, b \in BOOLEAN :
             [d EXCEPT !.sock = k, !.interrupted = b] \in PumpType
         /\ \A m \in Mail, n \in Nat :
             [d EXCEPT !.mailbox = m, !.tick = n] \in PumpType
         /\ \A m \in Mail :
             [d EXCEPT !.mailbox = m] \in PumpType
         /\ \A q \in WriteQ :
             [d EXCEPT !.writeQ = q] \in PumpType
         /\ \A s \in PumpPc, k \in Sock, w \in WriterPc, b \in BOOLEAN :
             [d EXCEPT !.pc = s, !.sock = k, !.writer = w, !.connected = b] \in PumpType
         /\ \A s \in PumpPc, b \in BOOLEAN, m \in Mail :
             [d EXCEPT !.pc = s, !.handler = b, !.mailbox = m] \in PumpType
         /\ \A n \in Nat, m \in Mail, b \in BOOLEAN, s \in PumpPc :
             [d EXCEPT !.tick = n, !.mailbox = m, !.connected = b, !.pc = s] \in PumpType
         /\ \A s \in PumpPc, n \in Nat :
             [d EXCEPT !.pc = s, !.rx = n] \in PumpType
         /\ \A s \in PumpPc, b \in BOOLEAN :
             [d EXCEPT !.pc = s, !.connected = b] \in PumpType
         /\ \A s \in PumpPc, b \in BOOLEAN, n \in Nat :
             [d EXCEPT !.pc = s, !.connected = b, !.reports = n] \in PumpType
         /\ \A n \in Nat, s \in PumpPc :
             [d EXCEPT !.tick = n, !.pc = s] \in PumpType
         /\ \A s \in PumpPc, m \in Mail :
             [d EXCEPT !.pc = s, !.mailbox = m] \in PumpType
         /\ \A s \in PumpPc, n \in Nat, q \in WriteQ :
             [d EXCEPT !.pc = s, !.tick = n, !.writeQ = q] \in PumpType
         /\ \A s \in PumpPc, m \in Mail, n \in Nat, k \in Sock :
             [d EXCEPT !.pc = s, !.mailbox = m, !.rx = n, !.sock = k] \in PumpType
         /\ \A w \in WriterPc :
             [d EXCEPT !.writer = w] \in PumpType
         /\ \A q \in WriteQ, b \in BOOLEAN :
             [d EXCEPT !.writeQ = q, !.connected = b] \in PumpType
         /\ \A w \in WriterPc, q \in WriteQ :
             [d EXCEPT !.writer = w, !.writeQ = q] \in PumpType
         /\ \A n \in Nat :
             [d EXCEPT !.rx = n] \in PumpType
         /\ \A r \in {"up", "eof", "reset"} :
             [d EXCEPT !.peer = r] \in PumpType
<1>1. \A s \in PumpPc :
         [d EXCEPT !.pc = s] \in PumpType
  BY DEF PumpType
<1>2. \A b \in BOOLEAN, c \in BOOLEAN :
         [d EXCEPT !.closing = b, !.connected = c] \in PumpType
  BY DEF PumpType
<1>3. \A k \in Sock, b \in BOOLEAN :
         [d EXCEPT !.sock = k, !.interrupted = b] \in PumpType
  BY DEF PumpType
<1>4. \A m \in Mail, n \in Nat :
         [d EXCEPT !.mailbox = m, !.tick = n] \in PumpType
  BY DEF PumpType
<1>5. \A m \in Mail :
         [d EXCEPT !.mailbox = m] \in PumpType
  BY DEF PumpType
<1>6. \A q \in WriteQ :
         [d EXCEPT !.writeQ = q] \in PumpType
  BY DEF PumpType
<1>7. \A s \in PumpPc, k \in Sock, w \in WriterPc, b \in BOOLEAN :
         [d EXCEPT !.pc = s, !.sock = k, !.writer = w, !.connected = b] \in PumpType
  BY DEF PumpType
<1>8. \A s \in PumpPc, b \in BOOLEAN, m \in Mail :
         [d EXCEPT !.pc = s, !.handler = b, !.mailbox = m] \in PumpType
  BY DEF PumpType
<1>9. \A n \in Nat, m \in Mail, b \in BOOLEAN, s \in PumpPc :
         [d EXCEPT !.tick = n, !.mailbox = m, !.connected = b, !.pc = s] \in PumpType
  BY DEF PumpType
<1>10. \A s \in PumpPc, n \in Nat :
         [d EXCEPT !.pc = s, !.rx = n] \in PumpType
  BY DEF PumpType
<1>11. \A s \in PumpPc, b \in BOOLEAN :
         [d EXCEPT !.pc = s, !.connected = b] \in PumpType
  BY DEF PumpType
<1>12. \A s \in PumpPc, b \in BOOLEAN, n \in Nat :
         [d EXCEPT !.pc = s, !.connected = b, !.reports = n] \in PumpType
  BY DEF PumpType
<1>13. \A n \in Nat, s \in PumpPc :
         [d EXCEPT !.tick = n, !.pc = s] \in PumpType
  BY DEF PumpType
<1>14. \A s \in PumpPc, m \in Mail :
         [d EXCEPT !.pc = s, !.mailbox = m] \in PumpType
  BY DEF PumpType
<1>15. \A s \in PumpPc, n \in Nat, q \in WriteQ :
         [d EXCEPT !.pc = s, !.tick = n, !.writeQ = q] \in PumpType
  BY DEF PumpType
<1>16. \A s \in PumpPc, m \in Mail, n \in Nat, k \in Sock :
         [d EXCEPT !.pc = s, !.mailbox = m, !.rx = n, !.sock = k] \in PumpType
  BY DEF PumpType
<1>17. \A w \in WriterPc :
         [d EXCEPT !.writer = w] \in PumpType
  BY DEF PumpType
<1>18. \A q \in WriteQ, b \in BOOLEAN :
         [d EXCEPT !.writeQ = q, !.connected = b] \in PumpType
  BY DEF PumpType
<1>19. \A w \in WriterPc, q \in WriteQ :
         [d EXCEPT !.writer = w, !.writeQ = q] \in PumpType
  BY DEF PumpType
<1>20. \A n \in Nat :
         [d EXCEPT !.rx = n] \in PumpType
  BY DEF PumpType
<1>21. \A r \in {"up", "eof", "reset"} :
         [d EXCEPT !.peer = r] \in PumpType
  BY DEF PumpType
<1> QED
  BY Zenon, <1>1, <1>2, <1>3, <1>4, <1>5, <1>6, <1>7, <1>8, <1>9, <1>10, <1>11, <1>12,
     <1>13, <1>14, <1>15, <1>16, <1>17, <1>18, <1>19, <1>20, <1>21

\* A message sent to a pump's looper.
LEMMA MailedType ==
  ASSUME NEW d \in PumpType, NEW w \in {"RETRIEVE", "COMPRESS", "END"}
  PROVE  Mailed(d, w) \in PumpType
<1>1. Append(d.mailbox, w) \in Mail
  BY DEF PumpType, Mail
<1>2. [d EXCEPT !.mailbox = Append(@, w)] \in PumpType
  BY Zenon, <1>1, PumpUpdate
<1> QED
  BY <1>2 DEF Mailed

(***************************************************************************)
(* Type correctness, one lemma per thread.                                 *)
(***************************************************************************)
\* The steps of killNetThreads keep the types.
LEMMA KillType ==
  ASSUME TypeOK, NEW t \in Threads, Kill(t)
  PROVE  TypeOK'
<1> USE DEF TypeOK
<1>a. thread[t] \in ThreadType /\ Waiting(thread[t])
  BY DEF ThreadsOK
<1>b. mPump \in Pumps => pump[mPump] \in PumpType
  BY DEF PumpsType
<1>1. CASE KillReturnsAtOnce(t)
  BY <1>1, GotoStep DEF KillReturnsAtOnce, ConnType, QueueType, PumpsType, RestType, conn, queue
<1>2. CASE KillSkipsInit(t)
  BY <1>2, GotoStep DEF KillSkipsInit, ConnType, QueueType, PumpsType, RestType, conn, queue
<1>3. CASE KillFlags(t)
  <2> DEFINE d == [thread[t] EXCEPT !.at = "close", !.target = mPump]
  <2>1. mPump \in Pumps
    BY <1>3 DEF KillFlags, HasHandler, ConnType
  <2>2. Closing(pump[mPump]) \in PumpType
    BY Zenon, <1>b, <2>1, PumpUpdate DEF Closing
  <2>3. PumpsType'
    BY <1>3, <2>1, <2>2, PumpTypeStep DEF KillFlags
  <2>4. d \in ThreadType /\ Waiting(d)
    BY <1>a, <2>1 DEF ThreadType, Waiting
  <2>5. ThreadsOK'
    BY <1>3, <2>4, ThreadStep DEF KillFlags
  <2> QED
    BY <1>3, <2>3, <2>5 DEF KillFlags, ConnType, QueueType, RestType, conn, queue
<1>4. CASE KillSocket(t)
  <2> DEFINE p == thread[t].target
  <2>1. p \in Pumps /\ pump[p] \in PumpType
    BY <1>4, <1>a DEF KillSocket, At, Waiting, PumpsType
  <2>2. [pump[p] EXCEPT !.sock = "shut", !.interrupted = TRUE] \in PumpType
    BY Zenon, <2>1, PumpUpdate DEF Sock
  <2>3. PumpsType'
    BY <1>4, <2>1, <2>2, PumpTypeStep DEF KillSocket, PumpsType
  <2>4. ThreadsOK'
    BY <1>4, GotoStep DEF KillSocket
  <2> QED
    BY <1>4, <2>3, <2>4 DEF KillSocket, ConnType, QueueType, RestType, conn, queue
<1>5. CASE KillClear(t)
  <2>1. mPump \in Pumps
    BY <1>5 DEF KillClear, HasHandler, ConnType
  <2>2. <<>> \in Mail /\ 0 \in Nat
    BY DEF Mail
  <2>3. [pump[mPump] EXCEPT !.mailbox = <<>>, !.tick = 0] \in PumpType
    BY Zenon, <1>b, <2>1, <2>2, PumpUpdate
  <2>4. PumpsType'
    BY <1>5, <2>1, <2>3, PumpTypeStep DEF KillClear
  <2>5. ThreadsOK'
    BY <1>5, GotoStep DEF KillClear
  <2> QED
    BY <1>5, <2>4, <2>5 DEF KillClear, ConnType, QueueType, RestType, conn, queue
<1>9. CASE KillEnd(t)
  <2>1. mPump \in Pumps
    BY <1>9 DEF KillEnd, HasHandler, ConnType
  <2>2. PumpsType'
    BY <1>9, <1>b, <2>1, MailedType, PumpTypeStep DEF KillEnd, KillMailbox
  <2>3. ThreadsOK'
    BY <1>9, GotoStep DEF KillEnd
  <2> QED
    BY <1>9, <2>2, <2>3 DEF KillEnd, ConnType, QueueType, RestType, conn, queue
<1>10. CASE KillWaits(t)
  <2> DEFINE d == [thread[t] EXCEPT !.at = "join", !.target = mPump]
  <2>1. d \in ThreadType /\ Waiting(d)
    BY <1>10, <1>a DEF KillWaits, ConnType, ThreadType, Waiting
  <2>2. ThreadsOK'
    BY <1>10, <2>1, ThreadStep DEF KillWaits
  <2> QED
    BY <1>10, <2>2 DEF KillWaits, ConnType, QueueType, PumpsType, RestType, conn, queue
<1>6. CASE KillLosesPump(t)
  BY <1>6 DEF KillLosesPump, Crash, ConnType, QueueType, ThreadsOK, PumpsType, RestType, conn, queue
<1>7. CASE KillJoined(t)
  BY <1>7, GotoStep DEF KillJoined, ConnType, QueueType, PumpsType, RestType, conn, queue
<1>8. CASE KillFinish(t)
  BY <1>8, GotoStep DEF KillFinish, PumpAfterKill, ConnType, QueueType, PumpsType, RestType
<1> QED
  BY <1>1, <1>2, <1>3, <1>4, <1>5, <1>6, <1>7, <1>8, <1>9, <1>10 DEF Kill

\* What the callers of killNetThreads do next keeps the types.
LEMMA ResumeType ==
  ASSUME TypeOK, NEW t \in Threads, Resume(t)
  PROVE  TypeOK'
<1> USE DEF TypeOK
<1>1. CASE DisconnectedRetry(t)
  BY <1>1, NetAssumption, ReturnStep
     DEF DisconnectedRetry, MayRetry, ConnType, QueueType, PumpsType, RestType
<1>2. CASE DisconnectedNotify(t)
  BY <1>2, GotoStep DEF DisconnectedNotify, ConnType, QueueType, PumpsType, RestType, conn, queue
<1>3. CASE DisconnectedTooLate(t)
  BY <1>3, ReturnStep DEF DisconnectedTooLate, ConnType, QueueType, PumpsType, RestType, queue
<1>4. CASE Notify(t)
  <2>1. ThreadsOK'
    BY <1>4, ReturnStep, CallKillStep DEF Notify, ThreadsOK
  <2> QED
    BY <1>4, <2>1 DEF Notify, Crash, ConnType, QueueType, PumpsType, RestType, queue
<1>5. CASE ShutdownDone(t)
  <2>1. ThreadsOK'
    BY <1>5, ReturnStep DEF ShutdownDone, ThreadsOK
  <2>2. ConnType'
    BY <1>5 DEF ShutdownDone, ConnType
  <2>3. QueueType'
    <3>1. reconnects' = 0 \/ reconnects' = reconnects
      BY <1>5 DEF ShutdownDone
    <3> QED
      BY <1>5, <3>1 DEF ShutdownDone, QueueType
  <2>4. PumpsType' /\ RestType'
    BY <1>5 DEF ShutdownDone, Crash, PumpsType, RestType
  <2> QED
    BY <2>1, <2>2, <2>3, <2>4
<1>6. CASE DialogRetry(t)
  <2>1. ThreadsOK'
    BY <1>6, ReturnStep DEF DialogRetry, ThreadsOK
  <2> QED
    BY <1>6, <2>1 DEF DialogRetry, Crash, ConnType, QueueType, PumpsType, RestType, conn
<1>7. CASE Create(t)
  <2> PICK p \in Pumps :
        IF mHandler
        THEN /\ mPump' = p /\ mProcessor' = TRUE
             /\ SetPump(p, [pump[p] EXCEPT !.pc = "new"])
             /\ Goto(t, "start") /\ UNCHANGED fault
        ELSE Crash("settings") /\ UNCHANGED <<mPump, mProcessor, pump, thread>>
    BY <1>7 DEF Create
  <2>1. ThreadsOK'
    BY GotoStep DEF ThreadsOK
  <2>2. pump[p] \in PumpType /\ "new" \in PumpPc
    BY DEF PumpsType, PumpPc
  <2>3. [pump[p] EXCEPT !.pc = "new"] \in PumpType
    BY Zenon, <2>2, PumpUpdate
  <2>4. PumpsType'
    BY <2>3, PumpTypeStep DEF PumpsType
  <2> QED
    BY <1>7, <2>1, <2>4 DEF Create, Crash, ConnType, QueueType, RestType, queue
<1>8. CASE StartPump(t)
  <2>1. ThreadsOK'
    BY <1>8, ReturnStep DEF StartPump, ThreadsOK
  <2>2. PumpsType'
    <3>1. CASE UNCHANGED pump
      BY <3>1 DEF PumpsType
    <3>2. CASE mPump # NoPump /\ SetPump(mPump, [pump[mPump] EXCEPT !.pc = "init"])
      <4>1. mPump \in Pumps
        BY <3>2 DEF ConnType
      <4>2. pump[mPump] \in PumpType /\ "init" \in PumpPc
        BY <4>1 DEF PumpsType, PumpPc
      <4>3. [pump[mPump] EXCEPT !.pc = "init"] \in PumpType
        BY Zenon, <4>2, PumpUpdate
      <4> QED
        BY <3>2, <4>1, <4>3, PumpTypeStep
    <3> QED
      BY <1>8, <3>1, <3>2 DEF StartPump
  <2> QED
    BY <1>8, <2>1, <2>2 DEF StartPump, Crash, ConnType, QueueType, RestType, queue
<1> QED
  BY <1>1, <1>2, <1>3, <1>4, <1>5, <1>6, <1>7, <1>8 DEF Resume

\* doReconnect keeps the types.
LEMMA DoReconnectType ==
  ASSUME ConnType, ThreadsOK, PumpsType, NEW t \in Threads, DoReconnect(t)
  PROVE  ConnType' /\ ThreadsOK' /\ PumpsType'
<1>1. ThreadsOK'
  BY CallKillStep DEF DoReconnect
<1>2. PumpsType'
  <2>1. CASE HasHandler(mPump)
    <3>1. mPump \in Pumps
      BY <2>1 DEF HasHandler, ConnType
    <3>2. pump[mPump] \in PumpType
      BY <3>1 DEF PumpsType
    <3> QED
      BY <2>1, <3>1, <3>2, MailedType, PumpTypeStep DEF DoReconnect
  <2>2. CASE ~HasHandler(mPump)
    BY <2>2 DEF DoReconnect, PumpsType
  <2> QED
    BY <2>1, <2>2
<1>3. ConnType'
  BY DEF DoReconnect, ConnType
<1> QED
  BY <1>1, <1>2, <1>3

\* sendData keeps the types.
LEMMA SendDataType ==
  ASSUME PumpsType, RestType, NEW p \in Pumps, SendData(p)
  PROVE  PumpsType' /\ fault' \in {"none", "processor", "writer", "settings", "pump", "handler"}
<1>1. pump[p] \in PumpType
  BY DEF PumpsType
<1>2. Append(pump[p].writeQ, "SEND") \in WriteQ
  BY <1>1 DEF PumpType, WriteQ
<1>3. [pump[p] EXCEPT !.writeQ = Append(@, "SEND")] \in PumpType
  BY Zenon, <1>1, <1>2, PumpUpdate
<1>4. PumpsType'
  BY <1>3, PumpTypeStep DEF SendData, PumpsType
<1> QED
  BY <1>4 DEF SendData, Crash, RestType

\* The handler of the connection keeps the types.
LEMMA HandleType ==
  ASSUME TypeOK, Handle
  PROVE  TypeOK'
<1> USE DEF TypeOK
<1>a. "main" \in Threads
  BY DEF Threads
<1>b. \A w \in {"CONNECTED", "TERMINATED_BY_PEER", "DISCONNECTED", "DODIALOG", "SENDDATA",
                "SENDOPTIONDATA", "STARTCOMPRESS", "STARTUP"} :
        Receive(w, <<>>) => inbox' \in Seq(Message)
  BY ReceiveStep, NoMessages DEF QueueType
<1>1. CASE HandleConnected
  <2>1. ConnType'
    BY <1>1, NetAssumption DEF HandleConnected, ConnType
  <2>2. RestType'
    BY <1>1 DEF HandleConnected, Crash, RestType
  <2> QED
    BY <1>1, <1>b, <2>1, <2>2 DEF HandleConnected, QueueType, ThreadsOK, PumpsType
<1>2. CASE HandleTerminated
  <2>1. ThreadsOK'
    BY <1>2, <1>a, CallKillStep DEF HandleTerminated, ThreadsOK
  <2>2. RestType'
    BY <1>2 DEF HandleTerminated, Crash, RestType
  <2> QED
    BY <1>2, <1>b, <2>1, <2>2 DEF HandleTerminated, ConnType, QueueType, PumpsType, conn
<1>3. CASE HandleDisconnected
  <2>1. ThreadsOK'
    BY <1>3, <1>a, CallKillStep DEF HandleDisconnected, ThreadsOK
  <2> QED
    BY <1>3, <1>b, <2>1 DEF HandleDisconnected, ConnType, QueueType, PumpsType, RestType, conn
<1>4. CASE HandleDialog
  <2>1. ThreadsOK'
    BY <1>4, <1>a, CallKillStep DEF HandleDialog, ThreadsOK
  <2>2. ConnType'
    BY <1>4, NetAssumption DEF HandleDialog, MayRetry, ConnType
  <2> QED
    BY <1>4, <1>b, <2>1, <2>2 DEF HandleDialog, QueueType, PumpsType, RestType
<1>5. CASE HandleProcess
  <2> DEFINE from == Head(inbox).from
  <2>1. Head(inbox) \in Message /\ Tail(inbox) \in Seq(Message)
    BY <1>5, HeadTailProperties DEF HandleProcess, QueueType
  <2>2. Msg("SENDOPTIONDATA", from) \in Message /\ Msg("STARTCOMPRESS", from) \in Message
    BY <2>1 DEF Message, Msg
  <2>3. inbox' \in Seq(Message)
    BY <1>5, <2>1, <2>2, AppendMessage, PrependMessage DEF HandleProcess
  <2>4. RestType'
    BY <1>5 DEF HandleProcess, Crash, RestType
  <2> QED
    BY <1>5, <2>3, <2>4 DEF HandleProcess, ConnType, QueueType, ThreadsOK, PumpsType, conn
<1>6. CASE HandleSendData
  <2>1. mPump # NoPump => mPump \in Pumps
    BY DEF ConnType
  <2>2. PumpsType' /\ RestType'
    BY <1>6, <2>1, SendDataType DEF HandleSendData, PumpsType, RestType
  <2> QED
    BY <1>6, <1>b, <2>2 DEF HandleSendData, ConnType, QueueType, ThreadsOK, conn
<1>7. CASE HandleSendOptionData
  <2>1. mPump # NoPump => mPump \in Pumps
    BY DEF ConnType
  <2>2. PumpsType' /\ RestType'
    BY <1>7, <2>1, SendDataType DEF HandleSendOptionData, PumpsType, RestType
  <2> QED
    BY <1>7, <1>b, <2>2 DEF HandleSendOptionData, ConnType, QueueType, ThreadsOK, conn
<1>8. CASE HandleStartCompress
  <2>1. PumpsType'
    <3>1. CASE HasHandler(mPump)
      <4>1. mPump \in Pumps
        BY <3>1 DEF HasHandler, ConnType
      <4>2. pump[mPump] \in PumpType
        BY <4>1 DEF PumpsType
      <4> QED
        BY <1>8, <3>1, <4>1, <4>2, MailedType, PumpTypeStep DEF HandleStartCompress
    <3>2. CASE ~HasHandler(mPump)
      BY <1>8, <3>2 DEF HandleStartCompress, PumpsType
    <3> QED
      BY <3>1, <3>2
  <2>2. RestType'
    BY <1>8 DEF HandleStartCompress, Crash, RestType
  <2> QED
    BY <1>8, <1>b, <2>1, <2>2 DEF HandleStartCompress, ConnType, QueueType, ThreadsOK, conn
<1>9. CASE HandleXfer
  <2>1. Msg("STARTUP", NoPump) \in Message
    BY DEF Message, Msg
  <2>2. <<Msg("STARTUP", NoPump)>> \in Seq(Message)
    BY <2>1
  <2>3. inbox' \in Seq(Message)
    BY <1>9, <2>2, NoMessages, ReceiveStep DEF HandleXfer, QueueType
  <2>4. RestType'
    BY <1>9 DEF HandleXfer, Crash, RestType
  <2> QED
    BY <1>9, <2>3, <2>4 DEF HandleXfer, ConnType, QueueType, ThreadsOK, PumpsType, conn
<1>10. CASE HandleStartup
  <2>1. ThreadsOK'
    BY <1>10, <1>a, CallKillStep DEF HandleStartup
  <2> QED
    BY <1>10, <1>b, <2>1 DEF HandleStartup, ConnType, QueueType, PumpsType, RestType, conn
<1>11. CASE HandleReconnect
  <2>1. ConnType' /\ ThreadsOK' /\ PumpsType'
    BY <1>11, <1>a, DoReconnectType DEF HandleReconnect
  <2>2. QueueType'
    BY <1>11 DEF HandleReconnect, QueueType
  <2>3. RestType'
    BY <1>11 DEF HandleReconnect, DoReconnect, RestType
  <2> QED
    BY <2>1, <2>2, <2>3
<1> QED
  BY <1>1, <1>2, <1>3, <1>4, <1>5, <1>6, <1>7, <1>8, <1>9, <1>10, <1>11 DEF Handle

\* The calls of the foreground keep the types.
LEMMA UserType ==
  ASSUME TypeOK, User
  PROVE  TypeOK'
<1> USE DEF TypeOK
<1>a. "binder" \in Threads
  BY DEF Threads
<1>b. Msg("XFER", NoPump) \in Message /\ Msg("SENDDATA", NoPump) \in Message
  BY DEF Message, Msg
<1>c. \A op : UserCall(op) => left' \in [ops : Nat, sends : Nat, faults : Nat, chunks : Nat]
  BY DEF UserCall, RestType
<1>1. CASE InitXfer
  BY <1>1, <1>b, <1>c, AppendMessage
     DEF InitXfer, UserCall, ConnType, QueueType, ThreadsOK, PumpsType, RestType, conn
<1>2. CASE EndXfer
  <2>1. ThreadsOK'
    BY <1>2, <1>a, CallKillStep DEF EndXfer
  <2> QED
    BY <1>2, <1>c, <2>1 DEF EndXfer, UserCall, ConnType, QueueType, PumpsType, RestType, conn
<1>3. CASE Reconnect
  <2>1. ConnType' /\ ThreadsOK' /\ PumpsType'
    BY <1>3, <1>a, DoReconnectType DEF Reconnect
  <2> QED
    BY <1>3, <1>c, <2>1 DEF Reconnect, DoReconnect, UserCall, QueueType, RestType
<1>4. CASE CloseConnection
  <2>1. ThreadsOK'
    BY <1>4, <1>a, CallKillStep DEF CloseConnection
  <2> QED
    BY <1>4, <1>c, <2>1
       DEF CloseConnection, UserCall, ConnType, QueueType, PumpsType, RestType, conn
<1>5. CASE TypeCommand
  <2>1. left' \in [ops : Nat, sends : Nat, faults : Nat, chunks : Nat]
    BY <1>5, <1>c DEF TypeCommand
  <2>2. inbox' \in Seq(Message)
    BY <1>5, <1>b, AppendMessage DEF TypeCommand, QueueType
  <2> QED
    BY <1>5, <2>1, <2>2
       DEF TypeCommand, UserCall, ConnType, QueueType, ThreadsOK, PumpsType, RestType, conn
<1> QED
  BY <1>1, <1>2, <1>3, <1>4, <1>5 DEF User

\* The threads of a pump, and its peer, only touch the pump, the handler's queue
\* and what remains of the bounds.
LEMMA PumpThread ==
  ASSUME TypeOK, PumpsType', inbox' \in Seq(Message),
         UNCHANGED <<conn, reconnects, thread>>, RestType'
  PROVE  TypeOK'
BY DEF TypeOK, ConnType, QueueType, ThreadsOK, conn

LEMMA PumpOnly ==
  ASSUME TypeOK, PumpsType', Quiet
  PROVE  TypeOK'
BY DEF TypeOK, ConnType, QueueType, ThreadsOK, RestType, Quiet, conn, queue

\* The messages a pump posts.
LEMMA PostStep ==
  ASSUME TypeOK, NEW p \in Pumps,
         NEW w \in Terminal \union {"CONNECTED", "PROCESS", "DODIALOG"}, Post(p, w)
  PROVE  inbox' \in Seq(Message)
<1>1. Msg(w, p) \in Message
  BY DEF Msg, Message
<1> QED
  BY <1>1, AppendMessage DEF Post, TypeOK, QueueType

\* DataPumper keeps the types.
LEMMA PumperType ==
  ASSUME TypeOK, NEW p \in Pumps, Pumper(p)
  PROVE  TypeOK'
<1>a. pump[p] \in PumpType
  BY DEF TypeOK, PumpsType
<1>b. /\ pump[p].mailbox \in Mail /\ pump[p].writeQ \in WriteQ /\ pump[p].sock \in Sock
      /\ pump[p].tick \in Nat /\ pump[p].rx \in Nat /\ pump[p].reports \in Nat
      /\ pump[p].connected \in BOOLEAN /\ pump[p].closing \in BOOLEAN
  BY <1>a DEF PumpType
<1>c. pump[p].mailbox # <<>> => Tail(pump[p].mailbox) \in Mail
  BY <1>b, HeadTailProperties DEF Mail
<1>d. /\ <<>> \in Mail /\ <<"RETRIEVE">> \in Mail /\ Append(pump[p].writeQ, "END") \in WriteQ
      /\ <<>> \in WriteQ
  BY <1>b DEF Mail, WriteQ
<1>e. PumpPc = {"unborn", "new", "init", "publish", "loop", "reading", "blocked", "posteof",
                "postio", "postread", "tail", "shutdown", "join", "dead"}
  BY DEF PumpPc
<1>f. \A d \in PumpType : SetPump(p, d) => PumpsType'
  BY PumpTypeStep DEF TypeOK
<1>1. CASE InitFails(p)
  <2>1. [pump[p] EXCEPT !.pc = "publish"] \in PumpType
    BY Zenon, <1>a, <1>e, PumpUpdate
  <2>2. inbox' \in Seq(Message)
    BY <1>1, PostStep DEF InitFails
  <2>3. RestType'
    BY <1>1 DEF InitFails, TypeOK, RestType
  <2> QED
    BY <1>1, <1>f, <2>1, <2>2, <2>3, PumpThread DEF InitFails
<1>2. CASE InitConnects(p)
  <2>1. [pump[p] EXCEPT !.pc = "publish", !.sock = "open", !.writer = "starting",
                        !.connected = TRUE] \in PumpType
    <3>1. "publish" \in PumpPc /\ "open" \in Sock /\ "starting" \in WriterPc /\ TRUE \in BOOLEAN
      BY DEF PumpPc, Sock, WriterPc
    <3>2. \A s \in PumpPc, k \in Sock, w \in WriterPc, b \in BOOLEAN :
            [pump[p] EXCEPT !.pc = s, !.sock = k, !.writer = w, !.connected = b] \in PumpType
      BY Zenon, <1>a, PumpUpdate
    <3> QED
      BY <3>1, <3>2
  <2>2. inbox' \in Seq(Message)
    BY <1>2, PostStep DEF InitConnects
  <2>3. RestType'
    BY <1>2 DEF InitConnects, TypeOK, RestType
  <2> QED
    BY <1>2, <1>f, <2>1, <2>2, <2>3, PumpThread DEF InitConnects
<1>3. CASE Publish(p)
  <2> DEFINE m == IF pump[p].sock = "none" THEN <<>> ELSE <<"RETRIEVE">>
  <2>1. m \in Mail
    BY <1>d
  <2>2. [pump[p] EXCEPT !.pc = "loop", !.handler = TRUE, !.mailbox = m] \in PumpType
    BY ZenonT(60), <1>a, <1>e, <2>1, PumpUpdate
  <2> QED
    BY <1>3, <1>f, <2>2, PumpOnly DEF Publish
<1>4. CASE Retrieve(p)
  <2> PICK delayed \in BOOLEAN, s \in {"reading", "blocked", "failed"} :
        /\ IF delayed THEN pump[p].tick > 0 ELSE NextIs(p, "RETRIEVE")
        /\ SetPump(p, [pump[p] EXCEPT
             !.tick = IF delayed THEN @ - 1 ELSE @,
             !.mailbox = IF delayed THEN @ ELSE Tail(@),
             !.connected = @ /\ ~(s = "failed" /\ pump[p].closing),
             !.pc = IF s # "failed" THEN s
                    ELSE IF pump[p].closing THEN "tail" ELSE "postio"])
    BY ZenonT(60), <1>4 DEF Retrieve
  <2> DEFINE n == IF delayed THEN pump[p].tick - 1 ELSE pump[p].tick
             m == IF delayed THEN pump[p].mailbox ELSE Tail(pump[p].mailbox)
             b == pump[p].connected /\ ~(s = "failed" /\ pump[p].closing)
             c == IF s # "failed" THEN s ELSE IF pump[p].closing THEN "tail" ELSE "postio"
  <2>1. n \in Nat
    BY <1>b
  <2>2. m \in Mail
    BY <1>b, <1>c DEF NextIs
  <2>3. b \in BOOLEAN
    BY <1>b
  <2>4. c \in PumpPc
    BY <1>e
  <2> HIDE DEF n, m, b, c
  <2>5. [pump[p] EXCEPT !.tick = n, !.mailbox = m, !.connected = b, !.pc = c] \in PumpType
    BY Zenon, <1>a, <2>1, <2>2, <2>3, <2>4, PumpUpdate
  <2> QED
    BY <1>4, <1>f, <2>5, PumpOnly DEF n, m, b, c, Retrieve
<1>5. CASE ReadData(p)
  <2>1. [pump[p] EXCEPT !.pc = "tail", !.rx = 0] \in PumpType
    BY Zenon, <1>a, <1>e, PumpUpdate
  <2>2. inbox' \in Seq(Message)
    BY <1>5, PostStep DEF ReadData
  <2>3. RestType'
    BY <1>5 DEF ReadData, TypeOK, RestType
  <2> QED
    BY <1>5, <1>f, <2>1, <2>2, <2>3, PumpThread DEF ReadData
<1>6. CASE ReadFails(p)
  <2>1. /\ [pump[p] EXCEPT !.pc = "tail", !.connected = FALSE] \in PumpType
        /\ [pump[p] EXCEPT !.pc = "postread"] \in PumpType
    BY Zenon, <1>a, <1>e, PumpUpdate
  <2>2. inbox' \in Seq(Message)
    BY <1>6, PostStep DEF ReadFails, TypeOK, QueueType
  <2>3. RestType'
    BY <1>6 DEF ReadFails, TypeOK, RestType
  <2> QED
    BY <1>6, <1>f, <2>1, <2>2, <2>3, PumpThread DEF ReadFails
<1>7. CASE WakeData(p)
  <2>1. [pump[p] EXCEPT !.pc = "tail"] \in PumpType
    BY Zenon, <1>a, <1>e, PumpUpdate
  <2> QED
    BY <1>7, <1>f, <2>1, PumpOnly DEF WakeData
<1>8. CASE WakeEnd(p)
  <2> PICK report \in {"posteof", "postio"} :
        SetPump(p, [pump[p] EXCEPT !.pc = IF pump[p].closing THEN "tail" ELSE report,
                                   !.connected = @ /\ ~pump[p].closing])
    BY <1>8 DEF WakeEnd
  <2> DEFINE c == IF pump[p].closing THEN "tail" ELSE report
             b == pump[p].connected /\ ~pump[p].closing
  <2>1. c \in PumpPc /\ b \in BOOLEAN
    BY <1>b, <1>e
  <2>2. [pump[p] EXCEPT !.pc = c, !.connected = b] \in PumpType
    BY Zenon, <1>a, <2>1, PumpUpdate
  <2> QED
    BY <1>8, <1>f, <2>2, PumpOnly DEF WakeEnd
<1>9. CASE Report(p)
  <2>1. pump[p].reports + 1 \in Nat
    BY <1>b
  <2>2. [pump[p] EXCEPT !.pc = "tail", !.connected = FALSE, !.reports = @ + 1] \in PumpType
    BY Zenon, <1>a, <1>e, <2>1, PumpUpdate
  <2>3. /\ Msg("TERMINATED_BY_PEER", p) \in Message /\ Msg("DISCONNECTED", p) \in Message
        /\ Msg("PROCESS", p) \in Message
    BY DEF Msg, Message, Terminal
  <2> DEFINE news == CASE pump[p].pc = "posteof"  -> <<Msg("TERMINATED_BY_PEER", p)>>
                       [] pump[p].pc = "postio"   -> <<Msg("DISCONNECTED", p)>>
                       [] pump[p].pc = "postread" -> <<Msg("DISCONNECTED", p), Msg("PROCESS", p)>>
  <2>4. news \in Seq(Message)
    BY <1>9, <2>3 DEF Report
  <2>5. inbox' \in Seq(Message)
    BY <1>9, <2>4, ConcatProperties DEF Report, TypeOK, QueueType
  <2>6. RestType'
    BY <1>9 DEF Report, TypeOK, RestType
  <2> QED
    BY <1>9, <1>f, <2>2, <2>5, <2>6, PumpThread DEF Report
<1>10. CASE Rearm(p)
  <2> DEFINE n == IF MayPoll(pump[p]) THEN pump[p].tick + 1 ELSE pump[p].tick
             c == IF pump[p].closing THEN "shutdown" ELSE "loop"
  <2>1. n \in Nat /\ c \in PumpPc
    BY <1>b, <1>e
  <2>2. [pump[p] EXCEPT !.tick = n, !.pc = c] \in PumpType
    BY Zenon, <1>a, <2>1, PumpUpdate
  <2> QED
    BY <1>10, <1>f, <2>2, PumpOnly DEF Rearm
<1>11. CASE TakeCompress(p)
  <2>1. [pump[p] EXCEPT !.pc = "tail", !.mailbox = Tail(@)] \in PumpType
    BY Zenon, <1>11, <1>a, <1>c, <1>e, PumpUpdate DEF TakeCompress, NextIs
  <2>2. inbox' \in Seq(Message)
    BY <1>11, PostStep DEF TakeCompress, TypeOK, QueueType
  <2>3. RestType'
    BY <1>11 DEF TakeCompress, TypeOK, RestType
  <2> QED
    BY <1>11, <1>f, <2>1, <2>2, <2>3, PumpThread DEF TakeCompress
<1>12. CASE TakeEnd(p)
  <2>1. [pump[p] EXCEPT !.pc = "shutdown", !.mailbox = Tail(@)] \in PumpType
    BY Zenon, <1>12, <1>a, <1>c, <1>e, PumpUpdate DEF TakeEnd, NextIs
  <2> QED
    BY <1>12, <1>f, <2>1, PumpOnly DEF TakeEnd
<1>13. CASE ShutdownSocket(p)
  <2> DEFINE q == IF pump[p].writer = "running" THEN Append(pump[p].writeQ, "END")
                                                 ELSE pump[p].writeQ
  <2>1. q \in WriteQ
    BY <1>b, <1>d
  <2> HIDE DEF q
  <2>2. [pump[p] EXCEPT !.pc = "join", !.tick = 0, !.writeQ = q] \in PumpType
    <3>1. \A s \in PumpPc, n \in Nat, r \in WriteQ :
            [pump[p] EXCEPT !.pc = s, !.tick = n, !.writeQ = r] \in PumpType
      BY Zenon, <1>a, PumpUpdate
    <3>2. "join" \in PumpPc /\ 0 \in Nat
      BY <1>e
    <3> QED
      BY Zenon, <2>1, <3>1, <3>2
  <2>3. PumpsType'
    BY <1>13, <1>f, <2>2 DEF q, ShutdownSocket, TypeOK, PumpsType
  <2>4. RestType'
    BY <1>13 DEF ShutdownSocket, Crash, TypeOK, RestType
  <2>5. inbox' \in Seq(Message)
    BY <1>13 DEF ShutdownSocket, queue, TypeOK, QueueType
  <2> QED
    BY <1>13, <2>3, <2>4, <2>5, PumpThread DEF ShutdownSocket, queue
<1>14. CASE PumpDies(p)
  <2> DEFINE k == IF pump[p].sock = "open" THEN "shut" ELSE pump[p].sock
  <2>1. k \in Sock
    BY <1>b DEF Sock
  <2> HIDE DEF k
  <2>2. [pump[p] EXCEPT !.pc = "dead", !.mailbox = <<>>, !.rx = 0, !.sock = k] \in PumpType
    <3>1. \A s \in PumpPc, m \in Mail, n \in Nat, r \in Sock :
            [pump[p] EXCEPT !.pc = s, !.mailbox = m, !.rx = n, !.sock = r] \in PumpType
      BY Zenon, <1>a, PumpUpdate
    <3>2. "dead" \in PumpPc /\ 0 \in Nat
      BY <1>e
    <3> QED
      BY Zenon, <1>d, <2>1, <3>1, <3>2
  <2> QED
    BY <1>14, <1>f, <2>2, PumpOnly DEF k, PumpDies
<1> QED
  BY <1>1, <1>2, <1>3, <1>4, <1>5, <1>6, <1>7, <1>8, <1>9, <1>10, <1>11, <1>12, <1>13, <1>14
     DEF Pumper

\* The writer thread and the peer keep the types.
LEMMA WriterPeerType ==
  ASSUME TypeOK, NEW p \in Pumps, Writer(p) \/ Peer(p)
  PROVE  TypeOK'
<1>a. pump[p] \in PumpType
  BY DEF TypeOK, PumpsType
<1>b. pump[p].writeQ \in WriteQ /\ pump[p].rx \in Nat
  BY <1>a DEF PumpType
<1>c. pump[p].writeQ # <<>> => Tail(pump[p].writeQ) \in WriteQ
  BY <1>b, HeadTailProperties DEF WriteQ
<1>d. "running" \in WriterPc /\ "dead" \in WriterPc /\ <<>> \in WriteQ
  BY DEF WriterPc, WriteQ
<1>f. \A d \in PumpType : SetPump(p, d) => PumpsType'
  BY PumpTypeStep DEF TypeOK
<1>1. CASE WriterPublish(p)
  <2>1. [pump[p] EXCEPT !.writer = "running"] \in PumpType
    BY Zenon, <1>a, <1>d, PumpUpdate
  <2> QED
    BY <1>1, <1>f, <2>1, PumpOnly DEF WriterPublish
<1>2. CASE WriteOk(p)
  <2>1. [pump[p] EXCEPT !.writeQ = Tail(@)] \in PumpType
    BY Zenon, <1>2, <1>a, <1>c, PumpUpdate DEF WriteOk, WriterNext
  <2> QED
    BY <1>2, <1>f, <2>1, PumpOnly DEF WriteOk
<1>3. CASE WriteFails(p)
  <2>1. [pump[p] EXCEPT !.writeQ = Tail(@), !.connected = FALSE] \in PumpType
    BY Zenon, <1>3, <1>a, <1>c, PumpUpdate DEF WriteFails, WriterNext
  <2>2. inbox' \in Seq(Message)
    BY <1>3, PostStep DEF WriteFails
  <2>3. RestType'
    BY <1>3 DEF WriteFails, TypeOK, RestType
  <2> QED
    BY <1>3, <1>f, <2>1, <2>2, <2>3, PumpThread DEF WriteFails
<1>4. CASE WriterEnds(p)
  <2>1. [pump[p] EXCEPT !.writer = "dead", !.writeQ = <<>>] \in PumpType
    BY Zenon, <1>a, <1>d, PumpUpdate
  <2> QED
    BY <1>4, <1>f, <2>1, PumpOnly DEF WriterEnds
<1>5. CASE PeerSends(p)
  <2>1. pump[p].rx + 1 \in Nat
    BY <1>b
  <2>2. [pump[p] EXCEPT !.rx = @ + 1] \in PumpType
    BY Zenon, <1>a, <2>1, PumpUpdate
  <2>3. inbox' \in Seq(Message) /\ UNCHANGED reconnects
    BY <1>5 DEF PeerSends, queue, TypeOK, QueueType
  <2>4. RestType'
    BY <1>5 DEF PeerSends, TypeOK, RestType
  <2> QED
    BY <1>5, <1>f, <2>2, <2>3, <2>4, PumpThread DEF PeerSends
<1>6. CASE PeerFails(p)
  <2> PICK f \in PeerFaults \ {"refused"} : SetPump(p, [pump[p] EXCEPT !.peer = f])
    BY <1>6 DEF PeerFails
  <2>1. f \in {"up", "eof", "reset"}
    BY NetAssumption
  <2>2. [pump[p] EXCEPT !.peer = f] \in PumpType
    BY Zenon, <1>a, <2>1, PumpUpdate
  <2>3. inbox' \in Seq(Message) /\ UNCHANGED reconnects
    BY <1>6 DEF PeerFails, queue, TypeOK, QueueType
  <2>4. RestType'
    BY <1>6 DEF PeerFails, TypeOK, RestType
  <2> QED
    BY <1>6, <1>f, <2>2, <2>3, <2>4, PumpThread DEF PeerFails
<1> QED
  BY <1>1, <1>2, <1>3, <1>4, <1>5, <1>6 DEF Writer, Peer

\* A new pump's record is well typed.
LEMMA NewPumpType == NewPump \in PumpType
BY DEF NewPump, PumpType, PumpPc, WriterPc, Mail, WriteQ, Sock

LEMMA InitType ==
  ASSUME Init
  PROVE  TypeOK
<1>1. ConnType
  <2>1. 0 \in 0 .. Limit
    BY NetAssumption
  <2> QED
    BY <2>1 DEF Init, ConnType
<1>2. QueueType
  <2>1. Msg("STARTUP", NoPump) \in Message
    BY DEF Msg, Message
  <2> QED
    BY <2>1 DEF Init, QueueType
<1>3. ThreadsOK
  BY DEF Init, ThreadsOK, ThreadType, Waiting
<1>4. PumpsType
  BY NewPumpType DEF Init, PumpsType
<1>5. RestType
  BY NetAssumption DEF Init, RestType
<1> QED
  BY <1>1, <1>2, <1>3, <1>4, <1>5 DEF TypeOK

LEMMA NextType ==
  ASSUME TypeOK, [Next]_vars
  PROVE  TypeOK'
<1>1. CASE UNCHANGED vars
  BY <1>1 DEF vars, conn, queue, TypeOK, ConnType, QueueType, ThreadsOK, PumpsType, RestType
<1> QED
  BY <1>1, KillType, ResumeType, HandleType, UserType, PumperType, WriterPeerType DEF Next

\* Every reachable state of NetThreads is well typed, for any number of pumps and
\* any bounds: in particular the retries that doDisconnect and dispatchDialog count
\* never exceed mAutoReconnectLimit, and whoever runs closeSocket or join has a pump.
THEOREM TypeCorrect == Spec => []TypeOK
<1>1. Init => TypeOK
  BY InitType
<1>2. TypeOK /\ [Next]_vars => TypeOK'
  BY NextType
<1> QED
  BY <1>1, <1>2, PTL DEF Spec

(***************************************************************************)
(* What holds of every pump.                                               *)
(***************************************************************************)
\* A pump stays good, and is not made deaf.
Keeps(d, e) == PumpOK(e) /\ (Deaf(e) => Deaf(d))

\* The connection keeps its pump or lets go of it, and a MESSAGE_END that
\* killNetThreads is about to send still is to be sent.
Steady ==
    /\ mPump' \in {mPump, NoPump}
    /\ \A t \in Threads : thread[t].at = "end" => thread'[t].at = "end"

\* Setting one pump to a good record.
LEMMA GoodPump ==
  ASSUME ConnType, PumpsType, PumpsOK, Steady, NEW p \in Pumps, NEW d, Keeps(pump[p], d),
         SetPump(p, d)
  PROVE  PumpsOK'
<1>1. \A q \in Pumps : pump'[q] = IF q = p THEN d ELSE pump[q]
  BY DEF PumpsType, SetPump
<1>2. \A q \in Pumps : PumpOK(pump'[q])
  BY <1>1 DEF PumpsOK, Keeps
<1>3. NeverDeaf'
  <2> SUFFICES ASSUME mPump' # NoPump, Deaf(pump'[mPump'])
               PROVE  \E t \in Threads : thread'[t].at = "end"
    BY DEF NeverDeaf
  <2>1. mPump' = mPump /\ mPump \in Pumps
    BY DEF Steady, ConnType
  <2>2. Deaf(pump[mPump])
    BY <1>1, <2>1 DEF Keeps
  <2> QED
    BY <2>1, <2>2 DEF PumpsOK, NeverDeaf, Steady
<1> QED
  BY <1>2, <1>3 DEF PumpsOK

LEMMA SamePump ==
  ASSUME PumpsOK, Steady, UNCHANGED pump
  PROVE  PumpsOK'
BY DEF PumpsOK, NeverDeaf, Steady

\* What moves a thread that is not about to send MESSAGE_END, and does not make a
\* pump, is steady.
LEMMA SteadyStep ==
  ASSUME ThreadsOK, mPump' \in {mPump, NoPump},
         \/ UNCHANGED thread
         \/ \E t \in Threads : \E d : thread[t].at # "end" /\ SetThread(t, d)
  PROVE  Steady
BY DEF Steady, ThreadsOK, SetThread

\* Nothing PumpOK speaks of changes, except that the connection may be lost and
\* the socket used.
LEMMA OtherFields ==
  ASSUME NEW d, PumpOK(d), NEW e,
         e.pc = d.pc, e.handler = d.handler, e.mailbox = d.mailbox, e.tick = d.tick,
         e.closing = d.closing, e.reports = d.reports, e.connected => d.connected,
         d.sock # "none" => e.sock # "none"
  PROVE  Keeps(d, e)
BY DEF Keeps, Deaf, PumpOK, Queued, HasRetrieve

\* A message other than MESSAGE_RETRIEVE sent to a pump that has published its
\* handler; one that has been sent MESSAGE_END is not deaf.
LEMMA MailedOK ==
  ASSUME NEW d \in PumpType, PumpOK(d), d.handler, NEW w \in {"COMPRESS", "END"}
  PROVE  Keeps(d, Mailed(d, w)) /\ (w = "END" => ~Deaf(Mailed(d, w)))
<1>1. CASE d.pc = "dead"
  BY <1>1 DEF Mailed, Keeps, Deaf
<1>2. CASE d.pc # "dead"
  <2> DEFINE e == [d EXCEPT !.mailbox = Append(@, w)]
  <2>1. /\ e.pc = d.pc /\ e.handler = d.handler /\ e.tick = d.tick /\ e.closing = d.closing
        /\ e.reports = d.reports /\ e.connected = d.connected /\ e.sock = d.sock
        /\ e.mailbox = Append(d.mailbox, w)
    BY DEF PumpType
  <2>2. d.mailbox \in Mail
    BY DEF PumpType
  <2>3. Queued(d, "END") \subseteq Queued(e, "END")
    BY <2>1, <2>2 DEF Queued, Mail
  <2>4. Queued(e, "RETRIEVE") = Queued(d, "RETRIEVE")
    BY <2>1, <2>2 DEF Queued, Mail
  <2>5. w = "END" => Len(e.mailbox) \in Queued(e, "END")
    BY <2>1, <2>2 DEF Queued, Mail
  <2>6. e = Mailed(d, w)
    BY <1>2 DEF Mailed
  <2> HIDE DEF e
  <2>7. e.pc \notin Unpublished
    BY <2>1 DEF PumpOK
  <2>8. PumpOK(e)
    BY <2>1, <2>4, <2>7 DEF PumpOK
  <2>9. Deaf(e) => Deaf(d)
    BY <2>1, <2>3, <2>4 DEF Deaf, HasRetrieve
  <2>10. w = "END" => ~Deaf(e)
    BY <2>5 DEF Deaf
  <2> QED
    BY <2>6, <2>8, <2>9, <2>10 DEF Keeps
<1> QED
  BY <1>1, <1>2

\* The steps of killNetThreads.
LEMMA KillOK ==
  ASSUME TypeOK, PumpsOK, NEW t \in Threads, Kill(t)
  PROVE  PumpsOK'
<1>a. PumpsType
  BY DEF TypeOK
<1>b. /\ HasHandler(mPump) => mPump \in Pumps
      /\ thread[t].at \in {"close", "join"} => thread[t].target \in Pumps
  BY DEF TypeOK, ConnType, HasHandler, ThreadsOK, Waiting
<1>c. ~KillClear(t) /\ ~KillEnd(t) => Steady
  BY SteadyStep
     DEF TypeOK, Kill, KillReturnsAtOnce, KillSkipsInit, KillFlags, KillSocket, KillWaits,
         KillLosesPump, KillJoined, KillFinish, PumpAfterKill, At, Goto, conn
<1>d. ConnType
  BY DEF TypeOK
<1>e. (thread[t].at = "enter" \/ thread[t].at = "close") => ~KillClear(t) /\ ~KillEnd(t)
  BY DEF KillClear, KillEnd, At
<1>1. CASE KillFlags(t)
  <2> DEFINE d == pump[mPump]
             e == Closing(d)
  <2>1. mPump \in Pumps /\ d \in PumpType /\ PumpOK(d) /\ d.handler
    BY <1>1, <1>a, <1>b DEF KillFlags, HasHandler, PumpsType, PumpsOK
  <2>2. /\ e.pc = d.pc /\ e.mailbox = d.mailbox /\ e.tick = d.tick /\ e.reports = d.reports
        /\ ~e.connected
    BY <2>1 DEF PumpType, Closing
  <2>3. Keeps(d, e)
    BY <2>1, <2>2 DEF Keeps, Deaf, PumpOK, Queued
  <2> QED
    BY <1>1, <1>a, <1>c, <1>d, <1>e, <2>1, <2>3, GoodPump DEF KillFlags, At
<1>2. CASE KillSocket(t)
  <2> DEFINE p == thread[t].target
             e == [pump[p] EXCEPT !.sock = "shut", !.interrupted = TRUE]
  <2>1. p \in Pumps /\ pump[p] \in PumpType /\ PumpOK(pump[p])
    BY <1>2, <1>a, <1>b DEF KillSocket, At, PumpsType, PumpsOK
  <2>2. /\ e.pc = pump[p].pc /\ e.handler = pump[p].handler /\ e.mailbox = pump[p].mailbox
        /\ e.tick = pump[p].tick /\ e.closing = pump[p].closing /\ e.sock = "shut"
        /\ e.reports = pump[p].reports /\ e.connected = pump[p].connected
    BY <2>1 DEF PumpType
  <2>3. Keeps(pump[p], e)
    BY <2>1, <2>2, OtherFields
  <2> QED
    BY <1>2, <1>a, <1>c, <1>d, <1>e, <2>1, <2>3, GoodPump, SamePump DEF KillSocket, At
<1>3. CASE KillClear(t)
  <2> DEFINE d == pump[mPump]
             e == [d EXCEPT !.mailbox = <<>>, !.tick = 0]
  <2>1. mPump \in Pumps /\ d \in PumpType /\ PumpOK(d) /\ d.handler
    BY <1>3, <1>a, <1>b DEF KillClear, HasHandler, PumpsType, PumpsOK
  <2>2. /\ e.pc = d.pc /\ e.mailbox = <<>> /\ e.tick = 0 /\ e.reports = d.reports
        /\ e.connected = d.connected /\ e.closing = d.closing /\ e.sock = d.sock
    BY <2>1 DEF PumpType
  <2>3. Queued(e, "RETRIEVE") = {}
    BY <2>2 DEF Queued
  <2>4. PumpOK(e)
    BY <2>1, <2>2, <2>3 DEF PumpOK, HasRetrieve
  <2>5. \A q \in Pumps : PumpOK(pump'[q])
    BY <1>3, <1>a, <2>1, <2>4 DEF KillClear, SetPump, PumpsType, PumpsOK
  <2>6. thread'[t].at = "end"
    BY <1>3 DEF KillClear, Goto, SetThread, TypeOK, ThreadsOK, ThreadType
  <2> QED
    BY <2>5, <2>6 DEF PumpsOK, NeverDeaf
<1>5. CASE KillEnd(t)
  <2> DEFINE d == pump[mPump]
             e == Mailed(d, "END")
  <2>1. mPump \in Pumps /\ d \in PumpType /\ PumpOK(d) /\ d.handler
    BY <1>5, <1>a, <1>b DEF KillEnd, HasHandler, PumpsType, PumpsOK
  <2>2. Keeps(d, e) /\ ~Deaf(e)
    BY <2>1, MailedOK
  <2>3. \A q \in Pumps : pump'[q] = IF q = mPump THEN e ELSE pump[q]
    BY <1>5, <1>a DEF KillEnd, KillMailbox, SetPump, PumpsType
  <2>4. mPump' = mPump
    BY <1>5 DEF KillEnd, conn
  <2>5. \A q \in Pumps : PumpOK(pump'[q])
    BY <2>2, <2>3 DEF PumpsOK, Keeps
  <2>6. NeverDeaf'
    BY <2>1, <2>2, <2>3, <2>4 DEF NeverDeaf
  <2> QED
    BY <2>5, <2>6 DEF PumpsOK
<1>4. CASE KillReturnsAtOnce(t) \/ KillSkipsInit(t) \/ KillWaits(t) \/ KillLosesPump(t)
             \/ KillJoined(t) \/ KillFinish(t)
  <2>1. ~KillClear(t) /\ ~KillEnd(t)
    BY <1>4 DEF KillReturnsAtOnce, KillSkipsInit, KillWaits, KillLosesPump, KillJoined,
         KillFinish, KillClear, KillEnd, At
  <2>2. UNCHANGED pump
    BY <1>4 DEF KillReturnsAtOnce, KillSkipsInit, KillWaits, KillLosesPump, KillJoined,
         KillFinish
  <2> QED
    BY <1>c, <2>1, <2>2, SamePump
<1> QED
  BY <1>1, <1>2, <1>3, <1>4, <1>5 DEF Kill

\* doStartup makes a pump and starts it; nothing else its callers do reaches a pump.
LEMMA ResumeOK ==
  ASSUME TypeOK, PumpsOK, NEW t \in Threads, Resume(t)
  PROVE  PumpsOK'
<1>a. PumpsType
  BY DEF TypeOK
<1>b. \A p \in Pumps, s \in {"new", "init"} :
        pump[p].pc \in {"unborn", "new"} => Keeps(pump[p], [pump[p] EXCEPT !.pc = s])
  <2> SUFFICES ASSUME NEW p \in Pumps, NEW s \in {"new", "init"},
                      pump[p].pc \in {"unborn", "new"}
               PROVE  Keeps(pump[p], [pump[p] EXCEPT !.pc = s])
    OBVIOUS
  <2> DEFINE d == pump[p]
             e == [d EXCEPT !.pc = s]
  <2>1. d \in PumpType /\ PumpOK(d)
    BY <1>a DEF PumpsType, PumpsOK
  <2>2. /\ e.pc = s /\ e.handler = d.handler /\ e.mailbox = d.mailbox /\ e.tick = d.tick
        /\ e.closing = d.closing /\ e.reports = d.reports /\ e.connected = d.connected
        /\ e.sock = d.sock
    BY <2>1 DEF PumpType
  <2>3. Keeps(d, e)
    BY <2>1, <2>2 DEF Keeps, Deaf, PumpOK, Queued, Unpublished, Active
  <2> QED
    BY <2>3
<1>c. thread[t].at # "end" /\ (~Create(t) => Steady)
  BY SteadyStep
     DEF Resume, DisconnectedRetry, DisconnectedNotify, DisconnectedTooLate, Notify,
         ShutdownDone, DialogRetry, Create, StartPump, After, At, Goto, Return, CallKill,
         TypeOK, conn
<1>d. ConnType
  BY DEF TypeOK
<1>1. CASE Create(t)
  <2>1. PICK p \in Pumps :
          /\ pump[p].pc = "unborn"
          /\ \/ /\ SetPump(p, [pump[p] EXCEPT !.pc = "new"]) /\ mPump' = p
                /\ Goto(t, "start")
             \/ UNCHANGED <<mPump, pump, thread>>
    BY <1>1 DEF Create
  <2>2. CASE UNCHANGED <<mPump, pump, thread>>
    BY <2>2, SamePump DEF Steady
  <2>3. CASE SetPump(p, [pump[p] EXCEPT !.pc = "new"]) /\ mPump' = p /\ Goto(t, "start")
    <3> DEFINE e == [pump[p] EXCEPT !.pc = "new"]
    <3>1. \A q \in Pumps : pump'[q] = IF q = p THEN e ELSE pump[q]
      BY <1>a, <2>3 DEF SetPump, PumpsType
    <3>2. PumpOK(e)
      BY <1>b, <2>1 DEF Keeps
    <3>3. e.pc = "new"
      BY <1>a DEF PumpsType, PumpType
    <3>4. NeverDeaf'
      BY <2>3, <3>1, <3>3 DEF NeverDeaf, Deaf
    <3> QED
      BY <3>1, <3>2, <3>4 DEF PumpsOK
  <2> QED
    BY <2>1, <2>2, <2>3
<1>2. CASE StartPump(t)
  <2>a. Steady
    BY <1>2, SteadyStep, <1>c DEF StartPump, Return, TypeOK
  <2>1. CASE UNCHANGED pump
    BY <2>1, <2>a, SamePump
  <2>2. CASE /\ mPump # NoPump /\ pump[mPump].pc = "new"
             /\ SetPump(mPump, [pump[mPump] EXCEPT !.pc = "init"])
    <3>1. mPump \in Pumps
      BY <2>2 DEF TypeOK, ConnType
    <3> QED
      BY <1>a, <1>b, <1>d, <2>2, <2>a, <3>1, GoodPump
  <2> QED
    BY <1>2, <2>1, <2>2 DEF StartPump
<1>3. CASE DisconnectedRetry(t) \/ DisconnectedNotify(t) \/ DisconnectedTooLate(t)
             \/ Notify(t) \/ ShutdownDone(t) \/ DialogRetry(t)
  <2>1. UNCHANGED pump
    BY <1>3 DEF DisconnectedRetry, DisconnectedNotify, DisconnectedTooLate, Notify,
         ShutdownDone, DialogRetry
  <2>2. mPump' = mPump
    BY <1>3 DEF DisconnectedRetry, DisconnectedNotify, DisconnectedTooLate, Notify,
         ShutdownDone, DialogRetry, conn
  <2>3. Steady
    BY <1>3, <1>c, <2>2, SteadyStep
       DEF DisconnectedRetry, DisconnectedNotify, DisconnectedTooLate, Notify,
         ShutdownDone, DialogRetry, Goto, Return, CallKill, TypeOK
  <2> QED
    BY <2>1, <2>3, SamePump
<1> QED
  BY <1>1, <1>2, <1>3 DEF Resume

\* doReconnect leaves the pump with a MESSAGE_END.
LEMMA DoReconnectOK ==
  ASSUME TypeOK, PumpsOK, NEW t \in Threads, thread[t].at = "idle", DoReconnect(t)
  PROVE  PumpsOK'
<1>a. Steady
  BY SteadyStep DEF DoReconnect, CallKill, TypeOK
<1>1. CASE HasHandler(mPump)
  <2>1. mPump \in Pumps /\ pump[mPump].handler
    BY <1>1 DEF HasHandler, TypeOK, ConnType
  <2>2. pump[mPump] \in PumpType /\ PumpOK(pump[mPump])
    BY <2>1 DEF TypeOK, PumpsType, PumpsOK
  <2>3. Keeps(pump[mPump], Mailed(pump[mPump], "END"))
    BY <2>1, <2>2, MailedOK
  <2> QED
    BY <1>1, <1>a, <2>1, <2>3, GoodPump DEF DoReconnect, TypeOK
<1>2. CASE ~HasHandler(mPump)
  BY <1>2, <1>a, SamePump DEF DoReconnect
<1> QED
  BY <1>1, <1>2

\* What the handler and the foreground do to a pump.
LEMMA HandleOK ==
  ASSUME TypeOK, PumpsOK, Handle \/ User
  PROVE  PumpsOK'
<1>a. "main" \in Threads /\ "binder" \in Threads
  BY DEF Threads
<1>d. Steady
  BY <1>a, SteadyStep
     DEF Handle, User, HandleConnected, HandleTerminated, HandleDisconnected, HandleDialog,
         HandleProcess, HandleSendData, HandleSendOptionData, HandleStartCompress, HandleXfer,
         HandleStartup, HandleReconnect, InitXfer, EndXfer, Reconnect, CloseConnection,
         TypeCommand, UserCall, DoReconnect, Receive, At, CallKill, TypeOK, conn
<1>b. \A p \in Pumps : SendData(p) => PumpsOK'
  <2> SUFFICES ASSUME NEW p \in Pumps, SendData(p)
               PROVE  PumpsOK'
    OBVIOUS
  <2> DEFINE d == pump[p]
             e == [d EXCEPT !.writeQ = Append(@, "SEND")]
  <2>1. d \in PumpType /\ PumpOK(d)
    BY DEF TypeOK, PumpsType, PumpsOK
  <2>2. /\ e.pc = d.pc /\ e.handler = d.handler /\ e.mailbox = d.mailbox /\ e.tick = d.tick
        /\ e.closing = d.closing /\ e.reports = d.reports /\ e.connected = d.connected
        /\ e.sock = d.sock
    BY <2>1 DEF PumpType
  <2>3. Keeps(d, e)
    BY <2>1, <2>2, OtherFields
  <2>4. SetPump(p, e) \/ UNCHANGED pump
    BY DEF SendData
  <2> QED
    BY <1>d, <2>3, <2>4, GoodPump, SamePump DEF TypeOK
<1>c. mPump # NoPump => mPump \in Pumps
  BY DEF TypeOK, ConnType
<1>1. CASE HandleSendData \/ HandleSendOptionData
  BY <1>1, <1>b, <1>c, <1>d, SamePump DEF HandleSendData, HandleSendOptionData
<1>2. CASE HandleStartCompress
  <2>1. CASE HasHandler(mPump)
    <3>1. mPump \in Pumps /\ pump[mPump].handler
      BY <2>1, <1>c DEF HasHandler
    <3>2. pump[mPump] \in PumpType /\ PumpOK(pump[mPump])
      BY <3>1 DEF TypeOK, PumpsType, PumpsOK
    <3>3. Keeps(pump[mPump], Mailed(pump[mPump], "COMPRESS"))
      BY <3>1, <3>2, MailedOK
    <3> QED
      BY <1>2, <1>d, <2>1, <3>1, <3>3, GoodPump DEF HandleStartCompress, TypeOK
  <2>2. CASE ~HasHandler(mPump)
    BY <1>2, <1>d, <2>2, SamePump DEF HandleStartCompress
  <2> QED
    BY <2>1, <2>2
<1>3. CASE HandleReconnect \/ Reconnect
  BY <1>3, <1>a, DoReconnectOK DEF HandleReconnect, Reconnect, UserCall, At
<1>4. CASE HandleConnected \/ HandleTerminated \/ HandleDisconnected \/ HandleDialog
             \/ HandleProcess \/ HandleXfer \/ HandleStartup
  BY <1>4, <1>d, SamePump
     DEF HandleConnected, HandleTerminated, HandleDisconnected, HandleDialog, HandleProcess,
         HandleXfer, HandleStartup
<1>5. CASE InitXfer \/ EndXfer \/ CloseConnection \/ TypeCommand
  BY <1>5, <1>d, SamePump DEF InitXfer, EndXfer, CloseConnection, TypeCommand
<1> QED
  BY <1>1, <1>2, <1>3, <1>4, <1>5 DEF Handle, User

\* What the reader does to its own pump.
LEMMA PumperOK ==
  ASSUME TypeOK, PumpsOK, NEW p \in Pumps, Pumper(p)
  PROVE  PumpsOK'
<1> DEFINE d == pump[p]
<1>a. d \in PumpType /\ PumpOK(d)
  BY DEF TypeOK, PumpsType, PumpsOK
<1>c. Steady
  BY SteadyStep
     DEF Pumper, InitFails, InitConnects, Publish, Retrieve, ReadData, ReadFails, WakeData,
         WakeEnd, Report, Rearm, TakeCompress, TakeEnd, ShutdownSocket, PumpDies, Quiet,
         TypeOK, conn
<1>b. \A e : Keeps(d, e) /\ SetPump(p, e) => PumpsOK'
  BY <1>c, GoodPump DEF TypeOK
<1>1. CASE InitFails(p)
  <2> DEFINE e == [d EXCEPT !.pc = "publish"]
  <2>1. /\ e.pc = "publish" /\ e.handler = d.handler /\ e.mailbox = d.mailbox
        /\ e.tick = d.tick /\ e.closing = d.closing /\ e.reports = d.reports
        /\ e.connected = d.connected /\ e.sock = d.sock
    BY <1>a DEF PumpType
  <2>2. Keeps(d, e)
    BY <1>1, <1>a, <2>1 DEF InitFails, In, Keeps, Deaf, PumpOK, Queued, HasRetrieve, Unpublished, Active
  <2> QED
    BY <1>1, <1>b, <2>2 DEF InitFails
<1>2. CASE InitConnects(p)
  <2> DEFINE e == [d EXCEPT !.pc = "publish", !.sock = "open", !.writer = "starting",
                          !.connected = TRUE]
  <2>1. /\ e.pc = "publish" /\ e.handler = d.handler /\ e.mailbox = d.mailbox
        /\ e.tick = d.tick /\ e.closing = d.closing /\ e.reports = d.reports
        /\ e.connected = TRUE /\ e.sock = "open"
    BY <1>a DEF PumpType
  <2>2. Keeps(d, e)
    BY <1>2, <1>a, <2>1 DEF InitConnects, In, Keeps, Deaf, PumpOK, Queued, HasRetrieve, Unpublished, Active
  <2> QED
    BY <1>2, <1>b, <2>2 DEF InitConnects
<1>3. CASE Publish(p)
  <2> DEFINE m == IF d.sock = "none" THEN <<>> ELSE <<"RETRIEVE">>
             e == [d EXCEPT !.pc = "loop", !.handler = TRUE, !.mailbox = m]
  <2>1. /\ e.pc = "loop" /\ e.handler = TRUE /\ e.mailbox = m /\ e.tick = d.tick
        /\ e.closing = d.closing /\ e.reports = d.reports /\ e.connected = d.connected
        /\ e.sock = d.sock
    BY <1>a DEF PumpType
  <2>2. Keeps(d, e)
    BY <1>3, <1>a, <2>1 DEF Publish, In, Keeps, Deaf, PumpOK, Queued, HasRetrieve, Unpublished, Active
  <2> QED
    BY <1>3, <1>b, <2>2 DEF Publish
<1>4. CASE Retrieve(p)
  <2> PICK delayed \in BOOLEAN, s \in {"reading", "blocked", "failed"} :
        /\ IF delayed THEN d.tick > 0 ELSE NextIs(p, "RETRIEVE")
        /\ SetPump(p, [d EXCEPT
             !.tick = IF delayed THEN @ - 1 ELSE @,
             !.mailbox = IF delayed THEN @ ELSE Tail(@),
             !.connected = @ /\ ~(s = "failed" /\ d.closing),
             !.pc = IF s # "failed" THEN s ELSE IF d.closing THEN "tail" ELSE "postio"])
    BY ZenonT(60), <1>4 DEF Retrieve
  <2> DEFINE n == IF delayed THEN d.tick - 1 ELSE d.tick
             m == IF delayed THEN d.mailbox ELSE Tail(d.mailbox)
             b == d.connected /\ ~(s = "failed" /\ d.closing)
             c == IF s # "failed" THEN s ELSE IF d.closing THEN "tail" ELSE "postio"
             e == [d EXCEPT !.tick = n, !.mailbox = m, !.connected = b, !.pc = c]
  <2>1. /\ e.pc = c /\ e.handler = d.handler /\ e.mailbox = m /\ e.tick = n
        /\ e.closing = d.closing /\ e.reports = d.reports /\ e.connected = b /\ e.sock = d.sock
    BY <1>a DEF PumpType
  <2>2. d.pc = "loop"
    BY <1>4 DEF Retrieve, In
  <2>3. d.tick \in Nat /\ d.reports \in Nat /\ d.mailbox \in Mail
    BY <1>a DEF PumpType
  \* the message that was taken was the only one
  <2>4. n = 0 /\ d.reports = 0
    <3>1. CASE delayed
      <4>1. d.tick > 0 /\ n = d.tick - 1
        BY <3>1
      <4>2. d.tick <= 1 /\ d.reports <= 1 /\ (d.reports = 1 => d.tick = 0)
        BY <1>a DEF PumpOK
      <4> QED
        BY <4>1, <4>2, <2>3
    <3>2. CASE ~delayed
      <4>1. 1 \in Queued(d, "RETRIEVE")
        BY <3>2, <2>3 DEF NextIs, Queued, Mail
      <4> QED
        BY <3>2, <4>1, <1>a DEF PumpOK
    <3> QED
      BY <3>1, <3>2
  <2>5. Queued(e, "RETRIEVE") = {}
    <3>1. CASE delayed
      <4>1. d.tick # 0
        BY <3>1, <2>3
      <4> QED
        BY <3>1, <4>1, <1>a, <2>1 DEF PumpOK, Queued
    <3>2. CASE ~delayed
      <4>1. \A i \in DOMAIN Tail(d.mailbox) :
              i + 1 \in DOMAIN d.mailbox /\ Tail(d.mailbox)[i] = d.mailbox[i + 1] /\ i + 1 # 1
        BY <3>2, <2>3 DEF NextIs, Mail
      <4> QED
        BY <3>2, <4>1, <1>a, <2>1 DEF PumpOK, Queued
    <3> QED
      BY <3>1, <3>2
  <2>6. c \in Active \union {"tail"}
    BY DEF Active
  <2> HIDE DEF e, n, m, b, c
  <2>7. e.connected => d.connected
    BY <2>1 DEF b
  <2>8. Keeps(d, e)
    BY <1>a, <2>1, <2>4, <2>5, <2>6, <2>7 DEF Keeps, Deaf, PumpOK, Unpublished, Active
  <2> QED
    BY <1>b, <2>8 DEF e, n, m, b, c
<1>5. CASE ReadData(p)
  <2> DEFINE e == [d EXCEPT !.pc = "tail", !.rx = 0]
  <2>1. /\ e.pc = "tail" /\ e.handler = d.handler /\ e.mailbox = d.mailbox
        /\ e.tick = d.tick /\ e.closing = d.closing /\ e.reports = d.reports
        /\ e.connected = d.connected /\ e.sock = d.sock
    BY <1>a DEF PumpType
  <2>2. Keeps(d, e)
    BY <1>5, <1>a, <2>1 DEF ReadData, In, Keeps, Deaf, PumpOK, Queued, HasRetrieve, Unpublished, Active
  <2> QED
    BY <1>5, <1>b, <2>2 DEF ReadData
<1>6. CASE ReadFails(p)
  <2> DEFINE e == [d EXCEPT !.pc = "tail", !.connected = FALSE]
             f == [d EXCEPT !.pc = "postread"]
  <2>1. /\ e.pc = "tail" /\ e.handler = d.handler /\ e.mailbox = d.mailbox
        /\ e.tick = d.tick /\ e.closing = d.closing /\ e.reports = d.reports
        /\ e.connected = FALSE /\ e.sock = d.sock
    BY <1>a DEF PumpType
  <2>2. /\ f.pc = "postread" /\ f.handler = d.handler /\ f.mailbox = d.mailbox
        /\ f.tick = d.tick /\ f.closing = d.closing /\ f.reports = d.reports
        /\ f.connected = d.connected /\ f.sock = d.sock
    BY <1>a DEF PumpType
  <2>3. Keeps(d, e) /\ Keeps(d, f)
    BY <1>6, <1>a, <2>1, <2>2 DEF ReadFails, In, Keeps, Deaf, PumpOK, Queued, HasRetrieve, Unpublished, Active
  <2> QED
    BY <1>6, <1>b, <2>3 DEF ReadFails
<1>7. CASE WakeData(p)
  <2> DEFINE e == [d EXCEPT !.pc = "tail"]
  <2>1. /\ e.pc = "tail" /\ e.handler = d.handler /\ e.mailbox = d.mailbox
        /\ e.tick = d.tick /\ e.closing = d.closing /\ e.reports = d.reports
        /\ e.connected = d.connected /\ e.sock = d.sock
    BY <1>a DEF PumpType
  <2>2. Keeps(d, e)
    BY <1>7, <1>a, <2>1 DEF WakeData, In, Keeps, Deaf, PumpOK, Queued, HasRetrieve, Unpublished, Active
  <2> QED
    BY <1>7, <1>b, <2>2 DEF WakeData
<1>8. CASE WakeEnd(p)
  <2> PICK report \in {"posteof", "postio"} :
        SetPump(p, [d EXCEPT !.pc = IF d.closing THEN "tail" ELSE report,
                             !.connected = @ /\ ~d.closing])
    BY <1>8 DEF WakeEnd
  <2> DEFINE c == IF d.closing THEN "tail" ELSE report
             b == d.connected /\ ~d.closing
             e == [d EXCEPT !.pc = c, !.connected = b]
  <2>1. /\ e.pc = c /\ e.handler = d.handler /\ e.mailbox = d.mailbox
        /\ e.tick = d.tick /\ e.closing = d.closing /\ e.reports = d.reports
        /\ e.connected = b /\ e.sock = d.sock
    BY <1>a DEF PumpType
  <2>2. d.pc = "blocked" /\ c \in {"tail", "posteof", "postio"} /\ (b => d.connected)
    BY <1>8 DEF WakeEnd, In
  <2> HIDE DEF b, c, e
  <2>3. Queued(e, "RETRIEVE") = {}
    BY <1>a, <2>1, <2>2 DEF PumpOK, Queued
  <2>4. Keeps(d, e)
    BY <1>a, <2>1, <2>2, <2>3 DEF Keeps, Deaf, PumpOK, Unpublished, Active
  <2> QED
    BY <1>b, <2>4 DEF b, c, e
<1>9. CASE Report(p)
  <2> DEFINE e == [d EXCEPT !.pc = "tail", !.connected = FALSE, !.reports = @ + 1]
  <2>1. /\ e.pc = "tail" /\ e.handler = d.handler /\ e.mailbox = d.mailbox
        /\ e.tick = d.tick /\ e.closing = d.closing /\ e.reports = d.reports + 1
        /\ e.connected = FALSE /\ e.sock = d.sock
    BY <1>a DEF PumpType
  <2>2. Keeps(d, e)
    BY <1>9, <1>a, <2>1 DEF Report, In, Keeps, Deaf, PumpOK, Queued, HasRetrieve, Unpublished, Active
  <2> QED
    BY <1>9, <1>b, <2>2 DEF Report
<1>10. CASE Rearm(p)
  <2> DEFINE n == IF MayPoll(d) THEN d.tick + 1 ELSE d.tick
             c == IF d.closing THEN "shutdown" ELSE "loop"
             e == [d EXCEPT !.tick = n, !.pc = c]
  <2>1. /\ e.pc = c /\ e.handler = d.handler /\ e.mailbox = d.mailbox /\ e.tick = n
        /\ e.closing = d.closing /\ e.reports = d.reports /\ e.connected = d.connected
        /\ e.sock = d.sock
    BY <1>a DEF PumpType
  <2>2. d.pc = "tail" /\ d.tick \in Nat
    BY <1>10, <1>a DEF Rearm, In, PumpType
  <2>3. Queued(e, "RETRIEVE") = {} /\ Queued(d, "RETRIEVE") = {}
    BY <1>a, <2>1, <2>2 DEF PumpOK, Queued
  <2>4. Keeps(d, e)
    <3>1. CASE MayPoll(d)
      <4>1. d.tick = 0 /\ d.connected /\ n = 1
        BY <3>1, <2>2 DEF MayPoll, HasRetrieve
      <4> QED
        BY <4>1, <1>a, <2>1, <2>2, <2>3 DEF Keeps, Deaf, PumpOK, HasRetrieve, Unpublished, Active
    <3>2. CASE ~MayPoll(d)
      <4>1. n = d.tick /\ (d.connected => d.tick > 0)
        BY <3>2, <2>3 DEF MayPoll, HasRetrieve
      <4> QED
        BY <4>1, <1>a, <2>1, <2>2, <2>3 DEF Keeps, Deaf, PumpOK, HasRetrieve, Unpublished, Active
    <3> QED
      BY <3>1, <3>2
  <2> QED
    BY <1>10, <1>b, <2>4 DEF Rearm
<1>11. CASE TakeCompress(p)
  <2> DEFINE e == [d EXCEPT !.pc = "tail", !.mailbox = Tail(@)]
  <2>1. /\ e.pc = "tail" /\ e.handler = d.handler /\ e.mailbox = Tail(d.mailbox)
        /\ e.tick = d.tick /\ e.closing = d.closing /\ e.reports = d.reports
        /\ e.connected = d.connected /\ e.sock = d.sock
    BY <1>a DEF PumpType
  <2>2. d.pc = "loop" /\ d.mailbox \in Mail /\ d.mailbox # <<>> /\ d.mailbox[1] = "COMPRESS"
    BY <1>11, <1>a DEF TakeCompress, In, NextIs, PumpType, Mail
  <2>3. \A i \in DOMAIN Tail(d.mailbox) :
          i + 1 \in DOMAIN d.mailbox /\ Tail(d.mailbox)[i] = d.mailbox[i + 1] /\ i + 1 # 1
    BY <2>2 DEF Mail
  <2>4. Queued(e, "RETRIEVE") = {}
    BY <1>a, <2>1, <2>3 DEF PumpOK, Queued
  <2>5. Keeps(d, e)
    BY <1>a, <2>1, <2>2, <2>4 DEF Keeps, Deaf, PumpOK, Unpublished, Active
  <2> QED
    BY <1>11, <1>b, <2>5 DEF TakeCompress
<1>12. CASE TakeEnd(p)
  <2> DEFINE e == [d EXCEPT !.pc = "shutdown", !.mailbox = Tail(@)]
  <2>1. /\ e.pc = "shutdown" /\ e.handler = d.handler /\ e.mailbox = Tail(d.mailbox)
        /\ e.tick = d.tick /\ e.closing = d.closing /\ e.reports = d.reports
        /\ e.connected = d.connected /\ e.sock = d.sock
    BY <1>a DEF PumpType
  <2>2. d.pc = "loop" /\ d.mailbox \in Mail /\ d.mailbox # <<>> /\ d.mailbox[1] = "END"
    BY <1>12, <1>a DEF TakeEnd, In, NextIs, PumpType, Mail
  <2>3. \A i \in DOMAIN Tail(d.mailbox) :
          i + 1 \in DOMAIN d.mailbox /\ Tail(d.mailbox)[i] = d.mailbox[i + 1] /\ i + 1 # 1
    BY <2>2 DEF Mail
  <2>4. Queued(e, "RETRIEVE") = {}
    BY <1>a, <2>1, <2>3 DEF PumpOK, Queued
  <2>5. Keeps(d, e)
    BY <1>a, <2>1, <2>2, <2>4 DEF Keeps, Deaf, PumpOK, Unpublished, Active
  <2> QED
    BY <1>12, <1>b, <2>5 DEF TakeEnd
<1>13. CASE ShutdownSocket(p)
  <2> DEFINE q == IF d.writer = "running" THEN Append(d.writeQ, "END") ELSE d.writeQ
             e == [d EXCEPT !.pc = "join", !.tick = 0, !.writeQ = q]
  <2>1. /\ e.pc = "join" /\ e.handler = d.handler /\ e.mailbox = d.mailbox
        /\ e.tick = 0 /\ e.closing = d.closing /\ e.reports = d.reports
        /\ e.connected = d.connected /\ e.sock = d.sock
    BY <1>a DEF PumpType
  <2>2. Keeps(d, e)
    BY <1>13, <1>a, <2>1 DEF ShutdownSocket, In, Keeps, Deaf, PumpOK, Queued, HasRetrieve, Unpublished, Active
  <2> QED
    BY <1>13, <1>b, <1>c, <2>2, SamePump DEF ShutdownSocket
<1>14. CASE PumpDies(p)
  <2> DEFINE k == IF d.sock = "open" THEN "shut" ELSE d.sock
             e == [d EXCEPT !.pc = "dead", !.mailbox = <<>>, !.rx = 0, !.sock = k]
  <2>1. /\ e.pc = "dead" /\ e.handler = d.handler /\ e.mailbox = <<>>
        /\ e.tick = d.tick /\ e.closing = d.closing /\ e.reports = d.reports
        /\ e.connected = d.connected /\ e.sock = k
    BY <1>a DEF PumpType
  <2>2. Keeps(d, e)
    BY <1>14, <1>a, <2>1 DEF PumpDies, In, Keeps, Deaf, PumpOK, Queued, HasRetrieve, Unpublished, Active
  <2> QED
    BY <1>14, <1>b, <2>2 DEF PumpDies
<1> QED
  BY <1>1, <1>2, <1>3, <1>4, <1>5, <1>6, <1>7, <1>8, <1>9, <1>10, <1>11, <1>12, <1>13, <1>14
     DEF Pumper

\* The writer and the peer change nothing PumpOK speaks of, except that a failed
\* write loses the connection.
LEMMA WriterPeerOK ==
  ASSUME TypeOK, PumpsOK, NEW p \in Pumps, Writer(p) \/ Peer(p)
  PROVE  PumpsOK'
<1> DEFINE d == pump[p]
<1>a. d \in PumpType /\ PumpOK(d)
  BY DEF TypeOK, PumpsType, PumpsOK
<1>1. PICK e : /\ SetPump(p, e)
               /\ e.pc = d.pc /\ e.handler = d.handler /\ e.mailbox = d.mailbox
               /\ e.tick = d.tick /\ e.closing = d.closing /\ e.reports = d.reports
               /\ e.connected => d.connected /\ e.sock = d.sock
  <2>1. CASE WriterPublish(p)
    BY <2>1, <1>a DEF WriterPublish, PumpType
  <2>2. CASE WriteOk(p)
    BY <2>2, <1>a DEF WriteOk, PumpType
  <2>3. CASE WriteFails(p)
    <3> DEFINE e == [d EXCEPT !.writeQ = Tail(@), !.connected = FALSE]
    <3>1. /\ e.pc = d.pc /\ e.handler = d.handler /\ e.mailbox = d.mailbox
        /\ e.tick = d.tick /\ e.closing = d.closing /\ e.reports = d.reports
        /\ e.connected = FALSE /\ e.sock = d.sock
      BY <1>a DEF PumpType
    <3> QED
      BY <2>3, <3>1 DEF WriteFails
  <2>4. CASE WriterEnds(p)
    <3> DEFINE e == [d EXCEPT !.writer = "dead", !.writeQ = <<>>]
    <3>1. /\ e.pc = d.pc /\ e.handler = d.handler /\ e.mailbox = d.mailbox
        /\ e.tick = d.tick /\ e.closing = d.closing /\ e.reports = d.reports
        /\ e.connected = d.connected /\ e.sock = d.sock
      BY <1>a DEF PumpType
    <3> QED
      BY <2>4, <3>1 DEF WriterEnds
  <2>5. CASE PeerSends(p)
    BY <2>5, <1>a DEF PeerSends, PumpType
  <2>6. CASE PeerFails(p)
    BY <2>6, <1>a DEF PeerFails, PumpType
  <2> QED
    BY <2>1, <2>2, <2>3, <2>4, <2>5, <2>6 DEF Writer, Peer
<1>2. Keeps(d, e)
  BY <1>1, <1>a DEF Keeps, Deaf, PumpOK, Queued, HasRetrieve
<1>3. Steady
  BY SteadyStep DEF Writer, Peer, WriterPublish, WriteOk, WriteFails, WriterEnds, PeerSends,
     PeerFails, Quiet, TypeOK, conn
<1> QED
  BY <1>1, <1>2, <1>3, GoodPump DEF TypeOK

LEMMA NewPumpOK == PumpOK(NewPump)
BY DEF NewPump, PumpOK, Queued, HasRetrieve, Unpublished, Active

\* The inductive invariant.
THEOREM PumpsCorrect == Spec => [](TypeOK /\ PumpsOK)
<1>1. Init => TypeOK /\ PumpsOK
  BY InitType, NewPumpOK DEF Init, PumpsOK, NeverDeaf
<1>2. TypeOK /\ PumpsOK /\ [Next]_vars => TypeOK' /\ PumpsOK'
  <2>1. CASE UNCHANGED vars
    BY <2>1, NextType, SamePump DEF vars, conn, Steady
  <2> QED
    BY <2>1, NextType, KillOK, ResumeOK, HandleOK, PumperOK, WriterPeerOK DEF Next
<1> QED
  BY <1>1, <1>2, PTL DEF Spec

\* However many pumps a connection goes through, the reader of each reports the end
\* of its connection at most once.
THEOREM ReportsOnce == Spec => []OneReport
<1>1. PumpsOK => OneReport
  BY DEF PumpsOK, PumpOK, OneReport
<1> QED
  BY <1>1, PumpsCorrect, PTL

\* No interleaving of init(), the writer and closeSocket leaves a closing pump
\* connected.
THEOREM ClosedStaysClosed == Spec => []ClosedNotConnected
<1>1. PumpsOK => ClosedNotConnected
  BY DEF PumpsOK, PumpOK, ClosedNotConnected
<1> QED
  BY <1>1, PumpsCorrect, PTL

\* A pump never polls its socket twice at once.
THEOREM PollsAtMostOnce == Spec => []PollsOnce
<1>1. TypeOK /\ PumpsOK => PollsOnce
  <2> SUFFICES ASSUME TypeOK, PumpsOK, NEW p \in Pumps
               PROVE  LET d == pump[p] IN
                        /\ d.tick <= 1
                        /\ d.tick = 1 => Queued(d, "RETRIEVE") = {}
                        /\ \A i, j \in Queued(d, "RETRIEVE") : i = j
                        /\ d.pc \in Active => ~HasRetrieve(d)
    BY DEF PollsOnce
  <2>1. PumpOK(pump[p])
    BY DEF PumpsOK
  <2> QED
    BY <2>1 DEF PumpOK, HasRetrieve, Active
<1> QED
  BY <1>1, PumpsCorrect, PTL

\* While it is the connection's, a connected pump that waits in its looper will poll
\* again, has been told to end, or is about to be told by a killNetThreads under way.
THEOREM NeverGoesDeaf == Spec => []NeverDeaf
<1>1. PumpsOK => NeverDeaf
  BY DEF PumpsOK
<1> QED
  BY <1>1, PumpsCorrect, PTL
=============================================================================
