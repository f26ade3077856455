-------------------------- MODULE NetSession_proofs --------------------------
(***************************************************************************)
(* A session nobody interferes with, proved: OneSession, ReportsAreFresh   *)
(* and ReconnectWaitsAlone, and that every step of the threads is a step   *)
(* of Session or changes nothing Session knows of.                         *)
(***************************************************************************)
EXTENDS NetSession, NetThreads_proofs, FiniteSetTheorems

\* No call of the foreground, nothing written.
Alone == UserOps = {} /\ MaxSends = 0

(***************************************************************************)
(* What holds of every pump.                                               *)
(***************************************************************************)
Early == {"unborn", "new", "init"}

\* A pump that never got a socket: it will not poll and has nothing to say.
Failed(d) ==
    /\ d.sock = "none" /\ d.pc \in {"publish", "loop", "shutdown", "join", "dead"}
    /\ d.tick = 0 /\ Queued(d, "RETRIEVE") = {}

\* A pump that is not created yet, or that can do nothing any more.
Behind(d) ==
    \/ d.pc \in {"unborn", "dead"}
    \/ Failed(d) /\ d.pc \in {"publish", "loop"} /\ d.mailbox = <<>>

PumpAlone(d) ==
    /\ d.pc \in Early => d.sock = "none"
    /\ d.sock = "none" => d.pc \in Early \/ Failed(d)
    /\ d.pc = "dead" => d.sock # "open"
    /\ d.handler <=> d.pc \notin Unpublished
    /\ Queued(d, "COMPRESS") = {}
    /\ \A i \in DOMAIN d.writeQ : d.writeQ[i] # "SEND"

(***************************************************************************)
(* What holds of the connection: the pump it has is the only one that can  *)
(* speak, the queue holds at most its CONNECTED and then one report of its *)
(* end, and while "main" acts on a report there is none in the queue.      *)
(***************************************************************************)
IsNews(m) == m.what \in Terminal \union {"CONNECTED", "DODIALOG"}
NoNews    == \A i \in DOMAIN inbox : inbox[i].what = "PROCESS"
Current   == pump[mPump]
Killing   == {"enter", "close", "remove", "end", "wait", "join", "finish"}
Main      == thread["main"]

Nobody     == left.sends = 0 /\ thread["binder"].at = "idle"
PumpsAlone == \A q \in Pumps : PumpAlone(pump[q])
RestBehind == \A q \in Pumps : q # mPump => Behind(pump[q])

InboxKinds == \A i \in DOMAIN inbox : IsNews(inbox[i]) \/ inbox[i].what \in {"STARTUP", "PROCESS"}
NewsFresh  ==
    \A i \in DOMAIN inbox : IsNews(inbox[i]) =>
        /\ inbox[i].from = mPump /\ mPump # NoPump /\ Current.pc \notin Early
        /\ inbox[i].what \in Terminal => Current.reports = 1
        /\ inbox[i].what = "DODIALOG" => Failed(Current)
NewsOrder ==
    \A i, j \in DOMAIN inbox : i < j /\ IsNews(inbox[i]) /\ IsNews(inbox[j]) =>
        inbox[i].what = "CONNECTED" /\ inbox[j].what \in Terminal
Unstarted ==
    \A i \in DOMAIN inbox : inbox[i].what = "STARTUP" =>
        /\ Len(inbox) = 1 /\ Main.at = "idle" /\ mPump = NoPump /\ mHandler
        /\ reconnects = 0 /\ \A q \in Pumps : pump[q].pc = "unborn"

Waits    == reconnects > 0 => mPump = NoPump /\ reconnects = 1
HasEnded == ~mHandler => mPump = NoPump /\ reconnects = 0 /\ Main.at = "idle"
Busy     == Main.at # "idle" => reconnects = 0 /\ NoNews
Idles    == Main.at = "idle" <=> Main.cont = "none"

Starts ==
    Main.cont = "startup" =>
        /\ Main.at \in {"enter", "after", "start"}
        /\ Main.at = "start" => mPump # NoPump /\ Current.pc = "new"
        /\ Main.at # "start" => mPump = NoPump
Ends ==
    Main.cont \in {"terminated", "disconnected"} =>
        /\ Main.at \in Killing \union {"after", "notify"}
        /\ Main.at \in Killing => mPump # NoPump /\ Current.reports = 1
        /\ Main.at \notin Killing => mPump = NoPump
Retries ==
    Main.cont = "dialog" =>
        /\ Main.at \in Killing \union {"after"}
        /\ Main.at \in Killing => mPump # NoPump /\ Failed(Current)
        /\ Main.at \notin Killing => mPump = NoPump
        /\ AutoReconnect /\ mAutoReconnectAttempt > 0
Shuts == Main.cont = "shutdown" => Main.at \in {"enter", "after"} /\ mPump = NoPump
Kills ==
    /\ Main.cont # "endXfer"
    /\ Main.at \in {"close", "remove", "end", "wait", "join"} => Current.handler
    /\ Main.at \in {"close", "join"} => Main.target = mPump
    /\ Main.at = "finish" => Behind(Current)

QueueInv == InboxKinds /\ NewsFresh /\ NewsOrder /\ Unstarted
MainInv  == Busy /\ Idles /\ Starts /\ Ends /\ Retries /\ Shuts /\ Kills
AloneInv == Nobody /\ PumpsAlone /\ RestBehind /\ QueueInv /\ Waits /\ HasEnded /\ MainInv

(***************************************************************************)
(* Lemmas about queues and records.                                        *)
(***************************************************************************)
LEMMA Appended ==
  ASSUME NEW T, NEW q \in Seq(T), NEW m \in T, NEW i \in DOMAIN Append(q, m)
  PROVE  \/ i \in DOMAIN q /\ Append(q, m)[i] = q[i]
         \/ i = Len(q) + 1 /\ Append(q, m)[i] = m
OBVIOUS

LEMMA Tailed ==
  ASSUME NEW T, NEW q \in Seq(T), q # <<>>, NEW i \in DOMAIN Tail(q)
  PROVE  i + 1 \in DOMAIN q /\ Tail(q)[i] = q[i + 1]
OBVIOUS

\* What TypeOK says of the parts these proofs take apart.
LEMMA Typed ==
  ASSUME TypeOK
  PROVE  /\ mPump \in Pumps \union {NoPump} /\ NoPump \notin Pumps
         /\ inbox \in Seq(Message) /\ reconnects \in Nat
         /\ thread \in [Threads -> ThreadType] /\ Main \in ThreadType
         /\ pump \in [Pumps -> PumpType]
         /\ mAutoReconnectAttempt \in Nat /\ mHandler \in BOOLEAN
BY NetAssumption
DEF TypeOK, ConnType, QueueType, ThreadsOK, PumpsType, Main, Threads, Pumps, NoPump

LEMMA PumpSet ==
  ASSUME pump \in [Pumps -> PumpType], NEW q \in Pumps, NEW e, SetPump(q, e)
  PROVE  pump'[q] = e /\ \A r \in Pumps : r # q => pump'[r] = pump[r]
BY DEF SetPump

LEMMA MainSet ==
  ASSUME thread \in [Threads -> ThreadType], NEW d, SetThread("main", d)
  PROVE  Main' = d /\ thread'["binder"] = thread["binder"]
BY DEF SetThread, Main, Threads

\* Inside killNetThreads there is a pump to kill, and a report that asks for it.
LEMMA KillHasPump ==
  ASSUME TypeOK, MainInv, Main.at \in {"close", "remove", "end", "wait", "join", "finish"}
  PROVE  mPump # NoPump /\ Main.cont \in {"terminated", "disconnected", "dialog"}
<1>1. Main.cont \in {"terminated", "disconnected", "dialog", "startup", "shutdown"}
  BY Typed DEF MainInv, Idles, Kills, ThreadType
<1> QED
  BY <1>1 DEF MainInv, Starts, Ends, Retries, Shuts, Killing

(***************************************************************************)
(* A step of a pump's thread, of its writer or of its peer that makes no   *)
(* news.                                                                   *)
(***************************************************************************)
\* What such a step may do to the pump's record.
Moves(d, e) ==
    /\ PumpAlone(e) /\ e.reports = d.reports
    /\ Behind(d) => Behind(e)
    /\ Failed(d) => Failed(e)
    /\ d.handler => e.handler
    /\ e.pc \in Early => e.pc = d.pc
    /\ d.pc \in {"unborn", "new"} => e.pc = d.pc

LEMMA PumpMoves ==
  ASSUME TypeOK, AloneInv, NEW q \in Pumps, NEW e, SetPump(q, e), Moves(pump[q], e),
         UNCHANGED <<conn, reconnects, thread>>, left'.sends = left.sends,
         \/ UNCHANGED inbox
         \/ inbox' = Append(inbox, Msg("PROCESS", q)) /\ pump[q].pc # "unborn"
  PROVE  AloneInv'
<1> USE DEF AloneInv, Moves
<1>1. pump'[q] = e /\ \A r \in Pumps : r # q => pump'[r] = pump[r]
  BY Typed, PumpSet
<1>2. UNCHANGED <<mPump, mHandler, mAutoReconnectAttempt, reconnects, Main>>
  BY DEF conn, Main
<1>3. /\ mPump # NoPump => Current'.reports = Current.reports
      /\ mPump # NoPump /\ Failed(Current) => Failed(Current')
      /\ mPump # NoPump /\ Current.handler => Current'.handler
      /\ mPump # NoPump /\ Behind(Current) => Behind(Current')
      /\ mPump # NoPump /\ Current.pc \notin Early => Current'.pc \notin Early
      /\ mPump # NoPump /\ Current.pc = "new" => Current'.pc = "new"
  BY <1>1, <1>2, Typed DEF Current
<1>4. \A i \in DOMAIN inbox' :
         \/ i \in DOMAIN inbox /\ inbox'[i] = inbox[i]
         \/ i \notin DOMAIN inbox /\ inbox'[i].what = "PROCESS"
  BY Typed, Appended DEF Msg, Message
<1>5. Nobody'
  BY DEF Nobody
<1>6. PumpsAlone' /\ RestBehind'
  BY <1>1, <1>2 DEF PumpsAlone, RestBehind
<1>7. InboxKinds' /\ NewsFresh'
  BY <1>2, <1>3, <1>4 DEF QueueInv, InboxKinds, NewsFresh, IsNews, Terminal
<1>8. NewsOrder'
  BY <1>4 DEF QueueInv, NewsOrder, IsNews, Terminal
<1>9. Unstarted'
  BY <1>1, <1>2, <1>4 DEF QueueInv, Unstarted
<1>10. Waits' /\ HasEnded' /\ Busy' /\ Idles'
  BY <1>2, <1>4 DEF Waits, HasEnded, MainInv, Busy, Idles, NoNews
<1>11. Starts' /\ Ends' /\ Retries' /\ Shuts' /\ Kills'
  <2>1. Starts' /\ Shuts'
    BY <1>2, <1>3 DEF MainInv, Starts, Shuts
  <2>2. Ends' /\ Retries'
    BY <1>2, <1>3 DEF MainInv, Ends, Retries
  <2>3. Kills'
    BY <1>2, <1>3, KillHasPump DEF MainInv, Kills
  <2> QED
    BY <2>1, <2>2, <2>3
<1> QED
  BY <1>5, <1>6, <1>7, <1>8, <1>9, <1>10, <1>11 DEF QueueInv, MainInv

(***************************************************************************)
(* A step of a pump's thread that makes news m, and may post what it read  *)
(* behind it.                                                              *)
(***************************************************************************)
\* A pump that can still make news is the current one, and "main" waits.
LEMMA NewsMaker ==
  ASSUME TypeOK, AloneInv, NEW q \in Pumps, ~Behind(pump[q]), ~Failed(pump[q]),
         pump[q].reports = 0, pump[q].pc # "new"
  PROVE  /\ mPump = q /\ mPump # NoPump /\ Current = pump[q] /\ Main.at = "idle"
         /\ \A i \in DOMAIN inbox : inbox[i].what # "STARTUP"
         /\ \A i \in DOMAIN inbox : IsNews(inbox[i]) =>
                inbox[i].what = "CONNECTED" /\ pump[q].pc \notin Early
<1>1. mPump = q /\ Current = pump[q] /\ mPump # NoPump
  BY Typed DEF AloneInv, RestBehind, Current
<1>2. Main.at = "idle"
  <2>1. Main.cont \notin {"terminated", "disconnected", "dialog"}
    BY <1>1, Typed DEF AloneInv, MainInv, Ends, Retries, Kills, Killing, ThreadType
  <2>2. Main.cont \notin {"startup", "shutdown"}
    BY <1>1 DEF AloneInv, MainInv, Starts, Shuts
  <2> QED
    BY <2>1, <2>2, Typed DEF AloneInv, MainInv, Idles, Kills, ThreadType
<1>3. \A i \in DOMAIN inbox : inbox[i].what # "STARTUP"
  BY <1>1 DEF AloneInv, QueueInv, Unstarted
<1>4. \A i \in DOMAIN inbox : IsNews(inbox[i]) =>
         inbox[i].what = "CONNECTED" /\ pump[q].pc \notin Early
  BY <1>1 DEF AloneInv, QueueInv, NewsFresh, IsNews
<1> QED
  BY <1>1, <1>2, <1>3, <1>4

\* The news m, and what q has read behind it, at the end of the queue.
Speaks(q, m) ==
    \A i \in DOMAIN inbox' :
        \/ i \in 1 .. Len(inbox) /\ inbox'[i] = inbox[i]
        \/ i = Len(inbox) + 1 /\ inbox'[i] = m
        \/ i \in Nat /\ i > Len(inbox) + 1 /\ inbox'[i].what = "PROCESS"

LEMMA Spoken ==
  ASSUME inbox \in Seq(Message), NEW q \in Pumps, NEW m \in Message,
         NEW rest \in {<<>>, <<Msg("PROCESS", q)>>}, inbox' = inbox \o <<m>> \o rest
  PROVE  Speaks(q, m)
<1>1. Msg("PROCESS", q) \in Message /\ Msg("PROCESS", q).what = "PROCESS"
  BY DEF Msg, Message
<1>2. CASE rest = <<>>
  BY <1>2 DEF Speaks
<1>3. CASE rest = <<Msg("PROCESS", q)>>
  BY <1>1, <1>3 DEF Speaks
<1> QED
  BY <1>2, <1>3

LEMMA PumpNews ==
  ASSUME TypeOK, AloneInv, NEW q \in Pumps, NEW e, SetPump(q, e), PumpAlone(e),
         UNCHANGED <<conn, reconnects, thread>>, left'.sends = left.sends,
         ~Behind(pump[q]), ~Failed(pump[q]), pump[q].reports = 0, pump[q].pc # "new",
         e.pc \notin Early,
         NEW m \in Message, IsNews(m), m.from = q,
         m.what \in Terminal => e.reports = 1,
         m.what = "DODIALOG" => Failed(e),
         m.what \in Terminal \/ pump[q].pc \in Early,
         Speaks(q, m)
  PROVE  AloneInv'
<1> USE DEF AloneInv
<1>1. pump'[q] = e /\ \A r \in Pumps : r # q => pump'[r] = pump[r]
  BY Typed, PumpSet
<1>2. UNCHANGED <<mPump, mHandler, mAutoReconnectAttempt, reconnects, Main>>
  BY DEF conn, Main
<1>3. mPump = q /\ mPump # NoPump /\ Main.at = "idle" /\ Current' = e
  BY <1>1, <1>2, NewsMaker DEF Current
<1>4. \A i \in DOMAIN inbox' :
         \/ /\ i \in 1 .. Len(inbox) /\ inbox'[i] = inbox[i] /\ inbox[i].what # "STARTUP"
            /\ IsNews(inbox[i]) => /\ inbox[i].what = "CONNECTED" /\ pump[q].pc \notin Early
                                   /\ inbox[i].from = q
         \/ i = Len(inbox) + 1 /\ inbox'[i] = m
         \/ i \in Nat /\ i > Len(inbox) + 1 /\ inbox'[i].what = "PROCESS"
  <2>1. \A i \in DOMAIN inbox : IsNews(inbox[i]) => inbox[i].from = q
    BY <1>3 DEF QueueInv, NewsFresh
  <2>2. \A i \in DOMAIN inbox :
           /\ inbox[i].what # "STARTUP"
           /\ IsNews(inbox[i]) => inbox[i].what = "CONNECTED" /\ pump[q].pc \notin Early
    BY NewsMaker
  <2>3. DOMAIN inbox = 1 .. Len(inbox)
    BY Typed
  <2> QED
    BY <2>1, <2>2, <2>3 DEF Speaks
<1>5. Nobody'
  BY DEF Nobody
<1>6. PumpsAlone' /\ RestBehind'
  BY <1>1, <1>2, <1>3 DEF PumpsAlone, RestBehind
<1>7. InboxKinds' /\ NewsFresh'
  BY <1>2, <1>3, <1>4 DEF QueueInv, InboxKinds, NewsFresh, IsNews, Terminal
<1>8. NewsOrder'
  <2> SUFFICES ASSUME NEW i \in DOMAIN inbox', NEW j \in DOMAIN inbox', i < j,
                      IsNews(inbox'[i]), IsNews(inbox'[j])
               PROVE  inbox'[i].what = "CONNECTED" /\ inbox'[j].what \in Terminal
    BY DEF NewsOrder
  <2>1. \A k \in DOMAIN inbox' : inbox'[k].what = "PROCESS" => ~IsNews(inbox'[k])
    BY DEF IsNews, Terminal
  <2>2. DOMAIN inbox = 1 .. Len(inbox) /\ Len(inbox) \in Nat
    BY Typed
  <2>3. i \in DOMAIN inbox /\ inbox'[i] = inbox[i]
    BY <1>4, <2>1, <2>2
  <2>4. CASE j \in DOMAIN inbox
    BY <1>4, <2>2, <2>3, <2>4 DEF QueueInv, NewsOrder
  <2>5. CASE j = Len(inbox) + 1
    BY <1>4, <2>2, <2>3, <2>5
  <2> QED
    BY <1>4, <2>1, <2>2, <2>4, <2>5
<1>9. Unstarted'
  BY <1>4 DEF Unstarted, IsNews, Terminal
<1>10. Waits' /\ HasEnded' /\ Busy' /\ Idles'
  BY <1>2, <1>3 DEF Waits, HasEnded, MainInv, Busy, Idles
<1>11. Starts' /\ Ends' /\ Retries' /\ Shuts' /\ Kills'
  BY <1>2, <1>3 DEF MainInv, Idles, Starts, Ends, Retries, Shuts, Kills
<1> QED
  BY <1>5, <1>6, <1>7, <1>8, <1>9, <1>10, <1>11 DEF QueueInv, MainInv

(***************************************************************************)
(* The steps of a pump's thread.                                           *)
(***************************************************************************)
\* A pump with a socket goes on.
LEMMA GoesOn ==
  ASSUME NEW d, NEW e, PumpAlone(d), d.sock # "none", d.pc \notin Unpublished, d.pc # "dead",
         e.sock # "none", e.pc \notin Unpublished, e.pc = "dead" => e.sock # "open",
         e.handler = d.handler, e.reports = d.reports,
         Queued(e, "COMPRESS") = {}, \A i \in DOMAIN e.writeQ : e.writeQ[i] # "SEND"
  PROVE  Moves(d, e)
BY DEF Moves, PumpAlone, Behind, Failed, Early, Unpublished

\* A pump that never got a socket goes on to its end.
LEMMA FailsOn ==
  ASSUME NEW d, NEW e, PumpAlone(d), Failed(d), d.pc \notin {"unborn", "dead"}, Failed(e),
         e.pc \notin Early, e.handler <=> e.pc \notin Unpublished, d.handler => e.handler,
         e.reports = d.reports, Behind(d) => Behind(e),
         Queued(e, "COMPRESS") = {}, \A i \in DOMAIN e.writeQ : e.writeQ[i] # "SEND"
  PROVE  Moves(d, e)
BY DEF Moves, PumpAlone, Failed, Early, Unpublished

\* The rest of a looper's queue.
LEMMA QueuedTail ==
  ASSUME NEW d, NEW e, d.mailbox \in Mail, d.mailbox # <<>>, e.mailbox = Tail(d.mailbox), NEW w,
         Queued(d, w) = {}
  PROVE  Queued(e, w) = {}
BY Tailed DEF Queued, Mail

LEMMA QueuedSame ==
  ASSUME NEW d, NEW e, e.mailbox = d.mailbox, NEW w
  PROVE  Queued(e, w) = Queued(d, w)
BY DEF Queued

LEMMA QueuedNone ==
  ASSUME NEW e, e.mailbox = <<>>, NEW w
  PROVE  Queued(e, w) = {}
BY DEF Queued

\* A message a pump posts about what it has read.
LEMMA Reads ==
  ASSUME TypeOK, AloneInv, NEW q \in Pumps, NEW e, SetPump(q, e), Moves(pump[q], e),
         UNCHANGED <<conn, reconnects, thread, left>>, Post(q, "PROCESS"),
         pump[q].pc # "unborn"
  PROVE  AloneInv'
BY PumpMoves DEF Post

LEMMA Quietly ==
  ASSUME TypeOK, AloneInv, NEW q \in Pumps, NEW e, SetPump(q, e), Moves(pump[q], e), Quiet
  PROVE  AloneInv'
BY PumpMoves DEF Quiet, queue

LEMMA LoopAlone ==
  ASSUME TypeOK, PumpsOK, AloneInv, NEW q \in Pumps,
         Publish(q) \/ Retrieve(q) \/ TakeCompress(q) \/ TakeEnd(q)
  PROVE  AloneInv'
<1> DEFINE d == pump[q]
<1>a. d \in PumpType /\ d.mailbox \in Mail /\ PumpAlone(d) /\ PumpOK(d)
  BY Typed DEF AloneInv, PumpsAlone, PumpType, PumpsOK
<1>b. \A i \in DOMAIN d.writeQ : d.writeQ[i] # "SEND"
  BY <1>a DEF PumpAlone
<1>1. CASE Publish(q)
  <2> DEFINE m == IF d.sock = "none" THEN <<>> ELSE <<"RETRIEVE">>
             e == [d EXCEPT !.pc = "loop", !.handler = TRUE, !.mailbox = m]
  <2>1. /\ e.pc = "loop" /\ e.handler /\ e.mailbox = m /\ e.tick = d.tick
        /\ e.sock = d.sock /\ e.reports = d.reports /\ e.writeQ = d.writeQ
    BY <1>a DEF PumpType
  <2>2. d.pc = "publish"
    BY <1>1 DEF Publish, In
  <2>3. Moves(d, e)
    <3>1. Queued(e, "COMPRESS") = {} /\ (d.sock = "none" => Queued(e, "RETRIEVE") = {})
      BY <2>1 DEF Queued
    <3>2. d.sock = "none" => Failed(d) /\ Failed(e)
      BY <1>a, <2>1, <2>2, <3>1 DEF PumpAlone, Failed, Early
    <3> HIDE DEF e
    <3> QED
      BY <1>a, <1>b, <2>1, <2>2, <3>1, <3>2
      DEF Moves, PumpAlone, Behind, Failed, Early, Unpublished
  <2> QED
    BY <1>1, <2>3, Quietly DEF Publish
<1>2. CASE Retrieve(q)
  <2> PICK delayed \in BOOLEAN, s \in {"reading", "blocked", "failed"} :
        /\ IF delayed THEN d.tick > 0 ELSE NextIs(q, "RETRIEVE")
        /\ SetPump(q, [d EXCEPT
             !.tick = IF delayed THEN @ - 1 ELSE @,
             !.mailbox = IF delayed THEN @ ELSE Tail(@),
             !.connected = @ /\ ~(s = "failed" /\ d.closing),
             !.pc = IF s # "failed" THEN s ELSE IF d.closing THEN "tail" ELSE "postio"])
    BY ZenonT(60), <1>2 DEF Retrieve
  <2> DEFINE n == IF delayed THEN d.tick - 1 ELSE d.tick
             m == IF delayed THEN d.mailbox ELSE Tail(d.mailbox)
             b == d.connected /\ ~(s = "failed" /\ d.closing)
             c == IF s # "failed" THEN s ELSE IF d.closing THEN "tail" ELSE "postio"
             e == [d EXCEPT !.tick = n, !.mailbox = m, !.connected = b, !.pc = c]
  <2>1. /\ e.pc = c /\ e.handler = d.handler /\ e.mailbox = m
        /\ e.sock = d.sock /\ e.reports = d.reports /\ e.writeQ = d.writeQ
    BY <1>a DEF PumpType
  <2>2. d.pc = "loop" /\ Quiet
    BY <1>2 DEF Retrieve, In
  <2>3. d.sock # "none"
    <3>1. ~Failed(d)
      <4>1. CASE delayed
        BY <4>1 DEF Failed
      <4>2. CASE ~delayed
        <5>1. 1 \in DOMAIN d.mailbox /\ d.mailbox[1] = "RETRIEVE"
          BY <1>a, <4>2 DEF NextIs, Mail
        <5> QED
          BY <5>1 DEF Failed, Queued
      <4> QED
        BY <4>1, <4>2
    <3> QED
      BY <1>a, <2>2, <3>1 DEF PumpAlone, Early
  <2> HIDE DEF e
  <2>4. Queued(e, "COMPRESS") = {}
    <3>1. CASE delayed
      BY <1>a, <2>1, <3>1, QueuedSame DEF PumpAlone
    <3>2. CASE ~delayed
      BY <1>a, <2>1, <3>2, QueuedTail DEF PumpAlone, NextIs
    <3> QED
      BY <3>1, <3>2
  <2>5. Moves(d, e)
    BY <1>a, <1>b, <2>1, <2>2, <2>3, <2>4, GoesOn DEF Unpublished
  <2> QED
    BY <2>2, <2>5, Quietly DEF e
<1>3. CASE TakeCompress(q)
  <2>1. 1 \in DOMAIN d.mailbox /\ d.mailbox[1] = "COMPRESS"
    BY <1>a, <1>3 DEF TakeCompress, NextIs, Mail
  <2> QED
    BY <1>a, <2>1 DEF PumpAlone, Queued
<1>4. CASE TakeEnd(q)
  <2> DEFINE e == [d EXCEPT !.pc = "shutdown", !.mailbox = Tail(d.mailbox)]
  <2>1. /\ e.pc = "shutdown" /\ e.handler = d.handler /\ e.mailbox = Tail(d.mailbox)
        /\ e.tick = d.tick /\ e.sock = d.sock /\ e.reports = d.reports /\ e.writeQ = d.writeQ
    BY <1>a DEF PumpType
  <2>2. d.pc = "loop" /\ d.mailbox # <<>> /\ SetPump(q, e) /\ Quiet
    BY <1>4 DEF TakeEnd, In, NextIs
  <2> HIDE DEF e
  <2>3. \A w : Queued(d, w) = {} => Queued(e, w) = {}
    BY <1>a, <2>1, <2>2, QueuedTail
  <2>4. Moves(d, e)
    <3>1. CASE d.sock # "none"
      BY <1>a, <1>b, <2>1, <2>2, <2>3, <3>1, GoesOn DEF Unpublished, PumpAlone
    <3>2. CASE d.sock = "none"
      <4>1. Failed(d) /\ Failed(e) /\ ~Behind(d)
        BY <1>a, <2>1, <2>2, <2>3, <3>2 DEF PumpAlone, Failed, Behind, Early
      <4> QED
        BY <1>a, <1>b, <2>1, <2>2, <2>3, <4>1, FailsOn DEF PumpAlone, Early, Unpublished
    <3> QED
      BY <3>1, <3>2
  <2> QED
    BY <2>2, <2>4, Quietly
<1> QED
  BY <1>1, <1>2, <1>3, <1>4

\* The steps inside getData, and the two that follow it.
LEMMA ReadAlone ==
  ASSUME TypeOK, PumpsOK, AloneInv, NEW q \in Pumps,
         ReadData(q) \/ ReadFails(q) \/ WakeData(q) \/ WakeEnd(q) \/ Rearm(q)
  PROVE  AloneInv'
<1> DEFINE d == pump[q]
<1>a. d \in PumpType /\ PumpAlone(d)
  BY Typed DEF AloneInv, PumpsAlone
<1>b. Queued(d, "COMPRESS") = {} /\ \A i \in DOMAIN d.writeQ : d.writeQ[i] # "SEND"
  BY <1>a DEF PumpAlone
<1>c. d.pc \in {"reading", "blocked", "tail"}
  BY DEF ReadData, ReadFails, WakeData, WakeEnd, Rearm, In
<1>d. d.sock # "none"
  BY <1>a, <1>c DEF PumpAlone, Failed, Early
<1>1. \A e : /\ e.pc \in {"tail", "postread", "posteof", "postio", "shutdown", "loop"}
             /\ e.handler = d.handler /\ e.sock = d.sock
             /\ e.reports = d.reports /\ e.writeQ = d.writeQ /\ e.mailbox = d.mailbox
             => Moves(d, e)
  <2> TAKE e
  <2> HAVE /\ e.pc \in {"tail", "postread", "posteof", "postio", "shutdown", "loop"}
           /\ e.handler = d.handler /\ e.sock = d.sock
           /\ e.reports = d.reports /\ e.writeQ = d.writeQ /\ e.mailbox = d.mailbox
  <2>1. Queued(e, "COMPRESS") = {}
    BY <1>b, QueuedSame
  <2> QED
    BY <1>a, <1>b, <1>c, <1>d, <2>1, GoesOn DEF Unpublished
<1>2. CASE ReadData(q)
  <2> DEFINE e == [d EXCEPT !.pc = "tail", !.rx = 0]
  <2>1. Moves(d, e)
    <3>1. e.pc = "tail" /\ e.handler = d.handler /\ e.sock = d.sock
          /\ e.reports = d.reports /\ e.writeQ = d.writeQ /\ e.mailbox = d.mailbox
      BY <1>a DEF PumpType
    <3> HIDE DEF e
    <3> QED
      BY <1>1, <3>1
  <2> QED
    BY <1>2, <1>c, <2>1, Reads DEF ReadData
<1>3. CASE ReadFails(q)
  <2>1. CASE d.closing
    <3> DEFINE e == [d EXCEPT !.pc = "tail", !.connected = FALSE]
    <3>1. Moves(d, e)
      <4>1. e.pc = "tail" /\ e.handler = d.handler /\ e.sock = d.sock
            /\ e.reports = d.reports /\ e.writeQ = d.writeQ /\ e.mailbox = d.mailbox
        BY <1>a DEF PumpType
      <4> HIDE DEF e
      <4> QED
        BY <1>1, <4>1
    <3> QED
      BY <1>3, <1>c, <2>1, <3>1, Reads DEF ReadFails
  <2>2. CASE ~d.closing
    <3> DEFINE e == [d EXCEPT !.pc = "postread"]
    <3>1. Moves(d, e)
      BY <1>1, <1>a DEF PumpType
    <3> QED
      BY <1>3, <2>2, <3>1, PumpMoves DEF ReadFails
  <2> QED
    BY <2>1, <2>2
<1>4. CASE WakeData(q)
  <2> DEFINE e == [d EXCEPT !.pc = "tail"]
  <2>1. Moves(d, e)
    BY <1>1, <1>a DEF PumpType
  <2> QED
    BY <1>4, <2>1, Quietly DEF WakeData
<1>5. CASE WakeEnd(q)
  <2> PICK report \in {"posteof", "postio"} :
        SetPump(q, [d EXCEPT !.pc = IF d.closing THEN "tail" ELSE report,
                             !.connected = @ /\ ~d.closing])
    BY Zenon, <1>5 DEF WakeEnd
  <2> DEFINE c == IF d.closing THEN "tail" ELSE report
             b == d.connected /\ ~d.closing
             e == [d EXCEPT !.pc = c, !.connected = b]
  <2>1. Moves(d, e)
    <3>1. c \in {"tail", "postread", "posteof", "postio", "shutdown", "loop"}
      OBVIOUS
    <3>2. e.pc = c /\ e.handler = d.handler /\ e.sock = d.sock
          /\ e.reports = d.reports /\ e.writeQ = d.writeQ /\ e.mailbox = d.mailbox
      BY <1>a DEF PumpType
    <3> HIDE DEF e, c
    <3> QED
      BY <1>1, <3>1, <3>2
  <2> QED
    BY <1>5, <2>1, Quietly DEF WakeEnd
<1>6. CASE Rearm(q)
  <2> DEFINE n == IF MayPoll(d) THEN d.tick + 1 ELSE d.tick
             c == IF d.closing THEN "shutdown" ELSE "loop"
             e == [d EXCEPT !.tick = n, !.pc = c]
  <2>1. Moves(d, e)
    <3>1. e.pc = c /\ e.handler = d.handler /\ e.sock = d.sock
          /\ e.reports = d.reports /\ e.writeQ = d.writeQ /\ e.mailbox = d.mailbox
      BY <1>a DEF PumpType
    <3> HIDE DEF e
    <3> QED
      BY <1>1, <3>1
  <2> QED
    BY <1>6, <2>1, Quietly DEF Rearm
<1> QED
  BY <1>2, <1>3, <1>4, <1>5, <1>6

\* The end of a pump's thread.
LEMMA DieAlone ==
  ASSUME TypeOK, PumpsOK, AloneInv, NEW q \in Pumps, ShutdownSocket(q) \/ PumpDies(q)
  PROVE  AloneInv'
<1> DEFINE d == pump[q]
<1>a. d \in PumpType /\ PumpAlone(d) /\ d.writeQ \in WriteQ
  BY Typed DEF AloneInv, PumpsAlone, PumpType
<1>b. Queued(d, "COMPRESS") = {} /\ \A i \in DOMAIN d.writeQ : d.writeQ[i] # "SEND"
  BY <1>a DEF PumpAlone
<1>1. CASE ShutdownSocket(q)
  <2> DEFINE w == IF d.writer = "running" THEN Append(d.writeQ, "END") ELSE d.writeQ
             e == [d EXCEPT !.pc = "join", !.tick = 0, !.writeQ = w]
  <2>1. CASE d.writer = "starting"
    <3>1. UNCHANGED <<conn, queue, thread, left, pump>>
      BY <1>1, <2>1 DEF ShutdownSocket
    <3> QED
      BY <3>1
      DEF conn, queue, AloneInv, Nobody, PumpsAlone, RestBehind, QueueInv, InboxKinds,
          NewsFresh, NewsOrder, Unstarted, Waits, HasEnded, MainInv, Busy, Idles, Starts,
          Ends, Retries, Shuts, Kills, NoNews, Current, Main
  <2>2. CASE d.writer # "starting"
    <3>1. /\ e.pc = "join" /\ e.handler = d.handler /\ e.mailbox = d.mailbox
          /\ e.tick = 0 /\ e.sock = d.sock /\ e.reports = d.reports /\ e.writeQ = w
      BY <1>a DEF PumpType
    <3>2. d.pc = "shutdown" /\ SetPump(q, e) /\ Quiet
      BY <1>1, <2>2 DEF ShutdownSocket, In, Quiet
    <3>3. \A i \in DOMAIN w : w[i] # "SEND"
      BY <1>a, <1>b DEF WriteQ
    <3> HIDE DEF e
    <3>4. \A v : Queued(e, v) = Queued(d, v)
      BY <3>1, QueuedSame
    <3>5. Moves(d, e)
      <4>1. CASE d.sock # "none"
        BY <1>a, <1>b, <3>1, <3>2, <3>3, <3>4, <4>1, GoesOn DEF Unpublished
      <4>2. CASE d.sock = "none"
        <5>1. Failed(d) /\ Failed(e) /\ ~Behind(d)
          BY <1>a, <3>1, <3>2, <3>4, <4>2 DEF PumpAlone, Failed, Behind, Early
        <5> QED
          BY <1>a, <1>b, <3>1, <3>2, <3>3, <3>4, <5>1, FailsOn
          DEF PumpAlone, Early, Unpublished
      <4> QED
        BY <4>1, <4>2
    <3> QED
      BY <3>2, <3>5, Quietly
  <2> QED
    BY <2>1, <2>2
<1>2. CASE PumpDies(q)
  <2> DEFINE k == IF d.sock = "open" THEN "shut" ELSE d.sock
             e == [d EXCEPT !.pc = "dead", !.mailbox = <<>>, !.rx = 0, !.sock = k]
  <2>1. /\ e.pc = "dead" /\ e.handler = d.handler /\ e.mailbox = <<>>
        /\ e.tick = d.tick /\ e.sock = k /\ e.reports = d.reports /\ e.writeQ = d.writeQ
    BY <1>a DEF PumpType
  <2>2. d.pc = "join" /\ SetPump(q, e) /\ Quiet
    BY <1>2 DEF PumpDies, In
  <2> HIDE DEF e
  <2>3. \A v : Queued(e, v) = {}
    BY <2>1, QueuedNone
  <2>4. Moves(d, e)
    <3>1. CASE d.sock # "none"
      BY <1>a, <1>b, <2>1, <2>2, <2>3, <3>1, GoesOn DEF Unpublished
    <3>2. CASE d.sock = "none"
      <4>1. Failed(d) /\ Failed(e) /\ ~Behind(d)
        BY <1>a, <2>1, <2>2, <2>3, <3>2 DEF PumpAlone, Failed, Behind, Early
      <4> QED
        BY <1>a, <1>b, <2>1, <2>2, <2>3, <4>1, FailsOn DEF PumpAlone, Early, Unpublished
    <3> QED
      BY <3>1, <3>2
  <2> QED
    BY <2>2, <2>4, Quietly
<1> QED
  BY <1>1, <1>2

\* The news a pump makes.
LEMMA NewsAlone ==
  ASSUME TypeOK, PumpsOK, AloneInv, NEW q \in Pumps,
         InitFails(q) \/ InitConnects(q) \/ Report(q)
  PROVE  AloneInv'
<1> DEFINE d == pump[q]
<1>a. d \in PumpType /\ PumpAlone(d) /\ PumpOK(d) /\ inbox \in Seq(Message)
  BY Typed DEF AloneInv, PumpsAlone, PumpsOK
<1>b. Queued(d, "COMPRESS") = {} /\ \A i \in DOMAIN d.writeQ : d.writeQ[i] # "SEND"
  BY <1>a DEF PumpAlone
<1>c. /\ d.pc \in {"init", "posteof", "postio", "postread"} /\ d.reports = 0
      /\ ~Behind(d) /\ ~Failed(d)
  <2>1. d.pc \in {"init", "posteof", "postio", "postread"}
    BY DEF InitFails, InitConnects, Report, In
  <2> QED
    BY <1>a, <2>1 DEF PumpOK, Behind, Failed, Unpublished, Active
<1>d. \A w \in {"DODIALOG", "CONNECTED"} \union Terminal :
         Msg(w, q) \in Message /\ IsNews(Msg(w, q)) /\ Msg(w, q).from = q /\ Msg(w, q).what = w
  BY DEF Msg, Message, IsNews, Terminal
<1>1. CASE InitFails(q)
  <2> DEFINE e == [d EXCEPT !.pc = "publish"]
  <2>1. /\ e.pc = "publish" /\ e.handler = d.handler /\ e.mailbox = d.mailbox
        /\ e.tick = d.tick /\ e.sock = d.sock /\ e.reports = d.reports /\ e.writeQ = d.writeQ
    BY <1>a DEF PumpType
  <2>2. d.pc = "init" /\ SetPump(q, e) /\ inbox' = inbox \o <<Msg("DODIALOG", q)>> \o <<>>
        /\ UNCHANGED <<conn, reconnects, thread>> /\ left'.sends = left.sends
    <3>1. left'.sends = left.sends
      BY <1>1 DEF InitFails, TypeOK, RestType
    <3>2. inbox' = inbox \o <<Msg("DODIALOG", q)>> \o <<>>
      BY <1>1, <1>a, <1>d DEF InitFails, Post
    <3> QED
      BY <1>1, <3>1, <3>2 DEF InitFails, In
  <2> HIDE DEF e
  <2>3. Failed(e) /\ PumpAlone(e) /\ Queued(e, "RETRIEVE") = {}
    <3>1. \A v : Queued(e, v) = {}
      BY <1>a, <2>1, <2>2, QueuedNone DEF PumpOK, Unpublished
    <3>2. Failed(e)
      BY <1>a, <2>1, <2>2, <3>1 DEF Failed, PumpAlone, PumpOK, Early, Unpublished
    <3> QED
      BY <1>a, <2>1, <2>2, <3>1, <3>2 DEF PumpAlone, Early, Unpublished
  <2>4. Speaks(q, Msg("DODIALOG", q))
    BY <1>a, <1>d, <2>2, Spoken
  <2> QED
    BY <1>c, <1>d, <2>1, <2>2, <2>3, <2>4, PumpNews DEF Early, Terminal
<1>2. CASE InitConnects(q)
  <2> DEFINE e == [d EXCEPT !.pc = "publish", !.sock = "open", !.writer = "starting",
                          !.connected = TRUE]
  <2>1. /\ e.pc = "publish" /\ e.handler = d.handler /\ e.mailbox = d.mailbox
        /\ e.tick = d.tick /\ e.sock = "open" /\ e.reports = d.reports /\ e.writeQ = d.writeQ
    BY <1>a DEF PumpType
  <2>2. d.pc = "init" /\ SetPump(q, e) /\ inbox' = inbox \o <<Msg("CONNECTED", q)>> \o <<>>
        /\ UNCHANGED <<conn, reconnects, thread>> /\ left'.sends = left.sends
    <3>1. inbox' = inbox \o <<Msg("CONNECTED", q)>> \o <<>>
      BY <1>2, <1>a, <1>d DEF InitConnects, Post
    <3> QED
      BY <1>2, <3>1 DEF InitConnects, In
  <2> HIDE DEF e
  <2>3. PumpAlone(e)
    <3>1. Queued(e, "COMPRESS") = {}
      BY <1>b, <2>1, QueuedSame
    <3> QED
      BY <1>a, <2>1, <2>2, <3>1 DEF PumpAlone, Early, Unpublished
  <2>4. Speaks(q, Msg("CONNECTED", q))
    BY <1>a, <1>d, <2>2, Spoken
  <2> QED
    BY <1>c, <1>d, <2>1, <2>2, <2>3, <2>4, PumpNews DEF Early, Terminal
<1>3. CASE Report(q)
  <2> DEFINE e == [d EXCEPT !.pc = "tail", !.connected = FALSE, !.reports = @ + 1]
             w == IF d.pc = "posteof" THEN "TERMINATED_BY_PEER" ELSE "DISCONNECTED"
             rest == IF d.pc = "postread" THEN <<Msg("PROCESS", q)>> ELSE <<>>
  <2>1. /\ e.pc = "tail" /\ e.handler = d.handler /\ e.mailbox = d.mailbox
        /\ e.sock = d.sock /\ e.reports = 1 /\ e.writeQ = d.writeQ
    BY <1>a, <1>c DEF PumpType
  <2>2. d.pc \in {"posteof", "postio", "postread"} /\ SetPump(q, e)
        /\ UNCHANGED <<conn, reconnects, thread>> /\ left'.sends = left.sends
    BY <1>3 DEF Report
  <2>3. inbox' = inbox \o <<Msg(w, q)>> \o rest
    <3>1. inbox' = inbox \o
            (CASE d.pc = "posteof"  -> <<Msg("TERMINATED_BY_PEER", q)>>
               [] d.pc = "postio"   -> <<Msg("DISCONNECTED", q)>>
               [] d.pc = "postread" -> <<Msg("DISCONNECTED", q), Msg("PROCESS", q)>>)
      BY <1>3 DEF Report
    <3>2. Msg(w, q) \in Message /\ Msg("PROCESS", q) \in Message
      BY DEF Msg, Message, Terminal
    <3>3. CASE d.pc = "posteof"
      BY <1>a, <3>1, <3>2, <3>3
    <3>4. CASE d.pc = "postio"
      BY <1>a, <3>1, <3>2, <3>4
    <3>5. CASE d.pc = "postread"
      <4>1. w = "DISCONNECTED" /\ rest = <<Msg("PROCESS", q)>>
        BY <3>5
      <4>2. inbox' = inbox \o <<Msg("DISCONNECTED", q), Msg("PROCESS", q)>>
        BY <3>1, <3>5
      <4> QED
        BY <1>a, <3>2, <4>1, <4>2
    <3> QED
      BY <2>2, <3>3, <3>4, <3>5
  <2> HIDE DEF e
  <2>4. PumpAlone(e)
    <3>1. Queued(e, "COMPRESS") = {} /\ d.sock # "none"
      BY <1>a, <1>b, <2>1, <2>2, QueuedSame DEF PumpAlone, Failed, Early
    <3> QED
      BY <1>a, <2>1, <2>2, <3>1 DEF PumpAlone, Early, Unpublished
  <2>5. w \in Terminal /\ rest \in {<<>>, <<Msg("PROCESS", q)>>}
    BY DEF Terminal
  <2> HIDE DEF w, rest
  <2>6. Speaks(q, Msg(w, q))
    BY <1>a, <1>d, <2>3, <2>5, Spoken
  <2> QED
    BY <1>c, <1>d, <2>1, <2>2, <2>4, <2>5, <2>6, PumpNews DEF Early, Terminal
<1> QED
  BY <1>1, <1>2, <1>3

\* Nothing the invariant speaks of changes.
LEMMA SameMoves ==
  ASSUME NEW d, NEW e, PumpAlone(d), e.pc = d.pc, e.handler = d.handler,
         e.mailbox = d.mailbox, e.tick = d.tick, e.sock = d.sock, e.reports = d.reports,
         \A i \in DOMAIN e.writeQ : e.writeQ[i] # "SEND"
  PROVE  Moves(d, e)
<1>1. \A w : Queued(e, w) = Queued(d, w)
  BY QueuedSame
<1> QED
  BY <1>1 DEF Moves, PumpAlone, Behind, Failed

LEMMA WriterPeerAlone ==
  ASSUME TypeOK, AloneInv, NEW q \in Pumps, Writer(q) \/ Peer(q)
  PROVE  AloneInv'
<1> DEFINE d == pump[q]
<1>a. d \in PumpType /\ PumpAlone(d) /\ d.writeQ \in WriteQ
  BY Typed DEF AloneInv, PumpsAlone, PumpType
<1>b. \A i \in DOMAIN d.writeQ : d.writeQ[i] # "SEND"
  BY <1>a DEF PumpAlone
<1>1. CASE WriterPublish(q)
  <2> DEFINE e == [d EXCEPT !.writer = "running"]
  <2>1. /\ e.pc = d.pc /\ e.handler = d.handler /\ e.mailbox = d.mailbox /\ e.tick = d.tick
        /\ e.sock = d.sock /\ e.reports = d.reports /\ e.writeQ = d.writeQ
    BY <1>a DEF PumpType
  <2>2. SetPump(q, e) /\ Quiet
    BY <1>1 DEF WriterPublish
  <2> HIDE DEF e
  <2> QED
    BY <1>a, <1>b, <2>1, <2>2, SameMoves, Quietly
<1>2. ~WriteOk(q) /\ ~WriteFails(q)
  BY <1>a, <1>b DEF WriteOk, WriteFails, WriterNext, WriteQ
<1>3. CASE WriterEnds(q)
  <2> DEFINE e == [d EXCEPT !.writer = "dead", !.writeQ = <<>>]
  <2>1. /\ e.pc = d.pc /\ e.handler = d.handler /\ e.mailbox = d.mailbox /\ e.tick = d.tick
        /\ e.sock = d.sock /\ e.reports = d.reports /\ e.writeQ = <<>>
    BY <1>a DEF PumpType
  <2>2. SetPump(q, e) /\ Quiet
    BY <1>3 DEF WriterEnds
  <2> HIDE DEF e
  <2>3. Moves(d, e)
    BY <1>a, <2>1, SameMoves
  <2> QED
    BY <2>2, <2>3, Quietly
<1>4. CASE PeerSends(q)
  <2> DEFINE e == [d EXCEPT !.rx = @ + 1]
  <2>1. /\ e.pc = d.pc /\ e.handler = d.handler /\ e.mailbox = d.mailbox /\ e.tick = d.tick
        /\ e.sock = d.sock /\ e.reports = d.reports /\ e.writeQ = d.writeQ
    BY <1>a DEF PumpType
  <2>2. SetPump(q, e) /\ left'.sends = left.sends
        /\ UNCHANGED <<conn, inbox, reconnects, thread>>
    BY <1>4 DEF PeerSends, TypeOK, RestType, queue
  <2> HIDE DEF e
  <2>3. Moves(d, e)
    BY <1>a, <1>b, <2>1, SameMoves
  <2> QED
    BY <2>2, <2>3, PumpMoves
<1>5. CASE PeerFails(q)
  <2> PICK f \in PeerFaults \ {"refused"} : SetPump(q, [d EXCEPT !.peer = f])
    BY <1>5 DEF PeerFails
  <2> DEFINE e == [d EXCEPT !.peer = f]
  <2>1. /\ e.pc = d.pc /\ e.handler = d.handler /\ e.mailbox = d.mailbox /\ e.tick = d.tick
        /\ e.sock = d.sock /\ e.reports = d.reports /\ e.writeQ = d.writeQ
    BY <1>a DEF PumpType
  <2>2. SetPump(q, e) /\ left'.sends = left.sends
        /\ UNCHANGED <<conn, inbox, reconnects, thread>>
    BY <1>5 DEF PeerFails, TypeOK, RestType, queue
  <2> HIDE DEF e
  <2>3. Moves(d, e)
    BY <1>a, <1>b, <2>1, SameMoves
  <2> QED
    BY <2>2, <2>3, PumpMoves
<1> QED
  BY <1>1, <1>2, <1>3, <1>4, <1>5 DEF Writer, Peer

(***************************************************************************)
(* The steps of "main" inside killNetThreads and behind it.  No news is in *)
(* the queue then.                                                         *)
(***************************************************************************)
LEMMA BusyStep ==
  ASSUME AloneInv, Main.at # "idle", UNCHANGED <<inbox, left>>,
         thread'["binder"] = thread["binder"], Main'.at # "idle" => reconnects' = 0,
         PumpsAlone', RestBehind', Waits', HasEnded',
         Idles', Starts', Ends', Retries', Shuts', Kills'
  PROVE  AloneInv'
<1>1. NoNews /\ Nobody
  BY DEF AloneInv, MainInv, Busy
<1>2. NoNews' /\ Nobody'
  BY <1>1 DEF NoNews, Nobody
<1>3. QueueInv'
  BY <1>2 DEF NoNews, QueueInv, InboxKinds, NewsFresh, NewsOrder, Unstarted, IsNews, Terminal
<1>4. Busy'
  BY <1>2 DEF Busy
<1> QED
  BY <1>2, <1>3, <1>4 DEF AloneInv, MainInv

\* A step that leaves the connection's pump and its record alone.
LEMMA GotoAlone ==
  ASSUME TypeOK, AloneInv, Main.at # "idle", NEW s, s # "idle",
         SetThread("main", [Main EXCEPT !.at = s]),
         UNCHANGED <<conn, queue, pump, left>>, Starts', Ends', Retries', Shuts', Kills'
  PROVE  AloneInv'
<1>1. Main'.at = s /\ Main'.cont = Main.cont /\ thread'["binder"] = thread["binder"]
  BY Typed, MainSet DEF ThreadType
<1>2. reconnects = 0 /\ mHandler /\ reconnects' = 0 /\ mHandler'
  BY DEF AloneInv, MainInv, Busy, HasEnded, conn, queue
<1>3. PumpsAlone' /\ RestBehind'
  BY DEF AloneInv, PumpsAlone, RestBehind, conn
<1>4. Waits' /\ HasEnded' /\ Idles'
  BY <1>1, <1>2 DEF AloneInv, MainInv, Waits, HasEnded, Idles
<1> QED
  BY <1>1, <1>2, <1>3, <1>4, BusyStep DEF queue

\* A step of killNetThreads that sets the record of the connection's pump.
LEMMA KillMoves ==
  ASSUME TypeOK, AloneInv, Main.at \in {"enter", "close", "remove", "end"}, mPump # NoPump,
         NEW s \in {"close", "remove", "end", "wait"}, NEW g,
         s \in {"close", "join"} => g = mPump,
         SetThread("main", [at |-> s, target |-> g, cont |-> Main.cont]),
         NEW e, SetPump(mPump, e), PumpAlone(e), e.handler, e.reports = Current.reports,
         Failed(Current) => Failed(e),
         UNCHANGED <<conn, queue, left>>
  PROVE  AloneInv'
<1>1. /\ Main'.at = s /\ Main'.cont = Main.cont /\ Main'.target = g
      /\ thread'["binder"] = thread["binder"]
  BY Typed, MainSet
<1>2. UNCHANGED <<mPump, mHandler, mAutoReconnectAttempt, reconnects>>
  BY DEF conn, queue
<1>3. reconnects = 0 /\ mHandler
  BY DEF AloneInv, MainInv, Busy, HasEnded
<1>4. pump'[mPump] = e /\ \A r \in Pumps : r # mPump => pump'[r] = pump[r]
  BY Typed, PumpSet
<1>5. Current' = e
  BY <1>2, <1>4 DEF Current
<1>6. PumpsAlone' /\ RestBehind'
  BY <1>2, <1>4 DEF AloneInv, PumpsAlone, RestBehind
<1>7. Waits' /\ HasEnded' /\ Idles'
  BY <1>1, <1>2, <1>3 DEF AloneInv, MainInv, Waits, HasEnded, Idles
<1>8. Starts' /\ Shuts'
  BY <1>1, <1>2 DEF AloneInv, MainInv, Starts, Shuts
<1>9. Ends' /\ Retries' /\ Kills'
  BY <1>1, <1>2, <1>5 DEF AloneInv, MainInv, Ends, Retries, Kills, Killing
<1> QED
  BY <1>1, <1>2, <1>3, <1>6, <1>7, <1>8, <1>9, BusyStep DEF queue

LEMMA MainGoto ==
  ASSUME TypeOK, NEW x, SetThread("main", [Main EXCEPT !.at = x])
  PROVE  /\ Main'.at = x /\ Main'.cont = Main.cont /\ Main'.target = Main.target
         /\ thread'["binder"] = thread["binder"]
         /\ SetThread("main", [at |-> x, target |-> Main.target, cont |-> Main.cont])
<1> DEFINE e == [Main EXCEPT !.at = x]
<1>1. e = [at |-> x, target |-> Main.target, cont |-> Main.cont]
  BY Typed DEF ThreadType
<1>2. Main' = e /\ thread'["binder"] = thread["binder"]
  BY Typed, MainSet
<1> QED
  BY <1>1, <1>2

LEMMA MainTakes ==
  ASSUME TypeOK, NEW x, NEW g
  PROVE  [Main EXCEPT !.at = x, !.target = g] = [at |-> x, target |-> g, cont |-> Main.cont]
<1> DEFINE e == [Main EXCEPT !.at = x]
<1>1. e = [at |-> x, target |-> Main.target, cont |-> Main.cont]
  BY Typed DEF ThreadType
<1>2. [Main EXCEPT !.at = x, !.target = g] = [e EXCEPT !.target = g]
  OBVIOUS
<1> HIDE DEF e
<1> QED
  BY <1>1, <1>2

\* A pump that has been killed without a handler never connected.
LEMMA UnheardFailed ==
  ASSUME TypeOK, PumpsOK, AloneInv, Main.at = "enter", mPump # NoPump, ~HasHandler(mPump)
  PROVE  Main.cont = "dialog" /\ Behind(Current)
<1>1. PumpAlone(Current) /\ PumpOK(Current) /\ mPump \in Pumps
  BY Typed DEF AloneInv, PumpsAlone, PumpsOK, Current
<1>2. ~Current.handler /\ Current.pc \in Unpublished
  BY <1>1 DEF HasHandler, Current, PumpAlone
<1>3. Current.reports = 0 /\ Current.mailbox = <<>>
  BY <1>1, <1>2 DEF PumpOK
<1>4. Main.cont = "dialog"
  BY <1>3, Typed
  DEF AloneInv, MainInv, Idles, Starts, Ends, Shuts, Kills, Killing, ThreadType
<1>5. Failed(Current)
  BY <1>4 DEF AloneInv, MainInv, Retries, Killing
<1> QED
  BY <1>2, <1>3, <1>4, <1>5 DEF Behind, Failed, Unpublished

LEMMA KillAlone ==
  ASSUME TypeOK, PumpsOK, AloneInv, Kill("main")
  PROVE  AloneInv'
<1>a. /\ Main \in ThreadType /\ thread \in [Threads -> ThreadType] /\ Main = thread["main"]
      /\ "main" \in Threads
  BY Typed DEF Main, Threads
<1>d. mPump # NoPump =>
         /\ mPump \in Pumps /\ Current \in PumpType /\ PumpAlone(Current) /\ Current = pump[mPump]
         /\ Current.mailbox \in Mail /\ \A i \in DOMAIN Current.writeQ : Current.writeQ[i] # "SEND"
  BY Typed DEF AloneInv, PumpsAlone, PumpAlone, Current, PumpType
<1>1. CASE KillReturnsAtOnce("main")
  <2>1. SetThread("main", [Main EXCEPT !.at = "after"]) /\ UNCHANGED <<conn, queue, pump, left>>
    BY <1>1, <1>a DEF KillReturnsAtOnce, Goto
  <2>2. Main.at = "enter" /\ mPump = NoPump /\ mPump' = NoPump
        /\ Main'.at = "after" /\ Main'.cont = Main.cont
    BY <1>1, <1>a, <2>1, MainGoto DEF KillReturnsAtOnce, At, conn
  <2>3. Main.cont \in {"startup", "shutdown"}
    BY <1>a, <2>2
    DEF AloneInv, MainInv, Idles, Ends, Retries, Kills, Killing, ThreadType
  <2>4. Starts' /\ Ends' /\ Retries' /\ Shuts' /\ Kills'
    BY <2>2, <2>3 DEF Starts, Ends, Retries, Shuts, Kills
  <2> QED
    BY <2>1, <2>2, <2>4, GotoAlone
<1>2. CASE KillSkipsInit("main")
  <2>1. SetThread("main", [Main EXCEPT !.at = "finish"]) /\ UNCHANGED <<conn, queue, pump, left>>
    BY <1>2, <1>a DEF KillSkipsInit, Goto
  <2>2. Main.at = "enter" /\ mPump # NoPump /\ ~HasHandler(mPump)
        /\ Main'.at = "finish" /\ Main'.cont = Main.cont
        /\ UNCHANGED <<mPump, Current, mAutoReconnectAttempt>>
    BY <1>2, <1>a, <2>1, MainGoto DEF KillSkipsInit, At, conn, Current
  <2>3. Main.cont = "dialog" /\ Behind(Current)
    BY <2>2, UnheardFailed
  <2>4. Starts' /\ Ends' /\ Retries' /\ Shuts' /\ Kills'
    BY <2>2, <2>3 DEF AloneInv, MainInv, Starts, Ends, Retries, Shuts, Kills, Killing
  <2> QED
    BY <2>1, <2>2, <2>4, GotoAlone
<1>3. CASE KillFlags("main")
  <2> DEFINE e == Closing(Current)
  <2>1. Main.at = "enter" /\ mPump # NoPump /\ Current.handler
    BY <1>3, <1>a DEF KillFlags, At, HasHandler, Current
  <2>2. SetPump(mPump, e) /\ UNCHANGED <<conn, queue, left>>
        /\ SetThread("main", [at |-> "close", target |-> mPump, cont |-> Main.cont])
    BY <1>3, <1>a, <2>1, MainTakes DEF KillFlags, Current
  <2>3. /\ e.pc = Current.pc /\ e.handler = Current.handler /\ e.mailbox = Current.mailbox
        /\ e.tick = Current.tick /\ e.sock = Current.sock /\ e.reports = Current.reports
        /\ e.writeQ = Current.writeQ
    BY <1>d, <2>1 DEF PumpType, Closing
  <2> HIDE DEF e
  <2>4. PumpAlone(Current) /\ \A i \in DOMAIN e.writeQ : e.writeQ[i] # "SEND"
    BY <1>d, <2>1, <2>3
  <2>5. Moves(Current, e)
    BY <2>3, <2>4, SameMoves
  <2> QED
    BY <2>1, <2>2, <2>3, <2>5, KillMoves DEF Moves
<1>4. CASE KillSocket("main")
  <2>1. Main.at = "close" /\ mPump # NoPump /\ Main.target = mPump /\ Current.handler
    BY <1>4, <1>a, KillHasPump DEF KillSocket, At, AloneInv, MainInv, Kills
  <2>2. UNCHANGED <<conn, queue, left>>
        /\ SetThread("main", [at |-> "remove", target |-> Main.target, cont |-> Main.cont])
    BY <1>4, <1>a, MainGoto DEF KillSocket, Goto
  <2>3. CASE UNCHANGED pump
    <3>1. SetPump(mPump, Current)
      BY <1>d, <2>1, <2>3, Typed DEF SetPump
    <3>2. Moves(Current, Current)
      BY <1>d, <2>1, SameMoves
    <3> QED
      BY <2>1, <2>2, <3>1, <3>2, KillMoves DEF Moves
  <2>4. CASE Current.sock = "open" /\
             SetPump(mPump, [Current EXCEPT !.sock = "shut", !.interrupted = TRUE])
    <3> DEFINE e == [Current EXCEPT !.sock = "shut", !.interrupted = TRUE]
    <3>1. /\ e.pc = Current.pc /\ e.handler = Current.handler /\ e.mailbox = Current.mailbox
          /\ e.tick = Current.tick /\ e.sock = "shut" /\ e.reports = Current.reports
          /\ e.writeQ = Current.writeQ
      BY <1>d, <2>1 DEF PumpType
    <3>2. Current.pc \notin Unpublished /\ Current.pc # "dead" /\ Queued(Current, "COMPRESS") = {}
      BY <1>d, <2>1, <2>4 DEF PumpAlone
    <3> HIDE DEF e
    <3>a. Queued(e, "COMPRESS") = {} /\ \A i \in DOMAIN e.writeQ : e.writeQ[i] # "SEND"
      BY <1>d, <2>1, <3>1, <3>2, QueuedSame
    <3>3. Moves(Current, e)
      BY <1>d, <2>1, <2>4, <3>1, <3>2, <3>a, GoesOn
    <3> QED
      BY <2>1, <2>2, <2>4, <3>1, <3>3, KillMoves DEF e, Moves
  <2> QED
    BY <1>4, <1>a, <2>1, <2>3, <2>4 DEF KillSocket, Current
<1>5. CASE KillClear("main")
  <2> DEFINE e == [Current EXCEPT !.mailbox = <<>>, !.tick = 0]
  <2>1. Main.at = "remove" /\ mPump # NoPump /\ Current.handler
    BY <1>5, <1>a DEF KillClear, At, HasHandler, Current
  <2>2. SetPump(mPump, e) /\ UNCHANGED <<conn, queue, left>>
        /\ SetThread("main", [at |-> "end", target |-> Main.target, cont |-> Main.cont])
    BY <1>5, <1>a, <2>1, MainGoto DEF KillClear, Goto, Current
  <2>3. /\ e.pc = Current.pc /\ e.handler = Current.handler /\ e.mailbox = <<>>
        /\ e.tick = 0 /\ e.sock = Current.sock /\ e.reports = Current.reports
        /\ e.writeQ = Current.writeQ
    BY <1>d, <2>1 DEF PumpType
  <2> HIDE DEF e
  <2>4. Queued(e, "COMPRESS") = {} /\ Queued(e, "RETRIEVE") = {}
    BY <2>3 DEF Queued
  <2>5. Current.pc \notin Unpublished
    BY <1>d, <2>1 DEF PumpAlone
  <2>6. PumpAlone(e) /\ (Failed(Current) => Failed(e))
    <3>1. Failed(Current) => Failed(e)
      BY <2>3, <2>4 DEF Failed
    <3> QED
      BY <1>d, <2>1, <2>3, <2>4, <3>1 DEF PumpAlone
  <2> QED
    BY <2>1, <2>2, <2>3, <2>6, KillMoves
<1>9. CASE KillEnd("main")
  <2> DEFINE e == Mailed(Current, "END")
  <2>1. Main.at = "end" /\ mPump # NoPump /\ Current.handler
    BY <1>9, <1>a DEF KillEnd, At, HasHandler, Current
  <2>2. SetPump(mPump, e) /\ UNCHANGED <<conn, queue, left>>
        /\ SetThread("main", [at |-> "wait", target |-> Main.target, cont |-> Main.cont])
    BY <1>9, <1>a, <2>1, MainGoto DEF KillEnd, KillMailbox, Goto, Current
  <2>3. /\ e.pc = Current.pc /\ e.handler = Current.handler
        /\ e.tick = Current.tick /\ e.sock = Current.sock /\ e.reports = Current.reports
        /\ e.writeQ = Current.writeQ
        /\ e.mailbox \in {Current.mailbox, Append(Current.mailbox, "END")}
    <3> DEFINE f == [Current EXCEPT !.mailbox = Append(Current.mailbox, "END")]
    <3>1. e = IF Current.pc = "dead" THEN Current ELSE f
      BY DEF Mailed
    <3>2. /\ f.pc = Current.pc /\ f.handler = Current.handler
          /\ f.tick = Current.tick /\ f.sock = Current.sock /\ f.reports = Current.reports
          /\ f.writeQ = Current.writeQ /\ f.mailbox = Append(Current.mailbox, "END")
      BY <1>d, <2>1 DEF PumpType
    <3> HIDE DEF f
    <3> QED
      BY <3>1, <3>2
  <2> HIDE DEF e
  <2>4. \A w \in {"COMPRESS", "RETRIEVE"} : Queued(e, w) = Queued(Current, w)
    <3> DEFINE k == Len(Current.mailbox)
    <3>1. Current.mailbox \in Seq({"RETRIEVE", "COMPRESS", "END"})
      BY <1>d, <2>1 DEF PumpType, Mail
    <3>2. CASE e.mailbox = Current.mailbox
      BY <3>2 DEF Queued
    <3>3. CASE e.mailbox = Append(Current.mailbox, "END")
      <4>1. /\ DOMAIN e.mailbox = DOMAIN Current.mailbox \cup {k + 1}
            /\ e.mailbox[k + 1] = "END"
            /\ \A i \in DOMAIN Current.mailbox : e.mailbox[i] = Current.mailbox[i]
        BY <3>1, <3>3
      <4> QED
        BY <4>1 DEF Queued
    <3> QED
      BY <2>3, <3>2, <3>3
  <2>5. Current.pc \notin Unpublished
    BY <1>d, <2>1 DEF PumpAlone
  <2>6. PumpAlone(e) /\ (Failed(Current) => Failed(e))
    <3>1. Failed(Current) => Failed(e)
      BY <2>3, <2>4 DEF Failed
    <3> QED
      BY <1>d, <2>1, <2>3, <2>4, <3>1 DEF PumpAlone
  <2> QED
    BY <2>1, <2>2, <2>3, <2>6, KillMoves
<1>10. CASE KillWaits("main")
  <2>1. Main.at = "wait" /\ mPump # NoPump /\ UNCHANGED <<conn, queue, pump, left>>
        /\ SetThread("main", [at |-> "join", target |-> mPump, cont |-> Main.cont])
    BY <1>10, <1>a, MainTakes DEF KillWaits, At
  <2>2. /\ Main'.at = "join" /\ Main'.cont = Main.cont /\ Main'.target = mPump
        /\ thread'["binder"] = thread["binder"]
    BY <1>a, <2>1, MainSet
  <2>3. UNCHANGED <<mPump, Current, mHandler, mAutoReconnectAttempt, reconnects, inbox>>
    BY <2>1 DEF conn, queue, Current
  <2>4. PumpsAlone' /\ RestBehind'
    BY <2>1, <2>3 DEF AloneInv, PumpsAlone, RestBehind
  <2>5. reconnects = 0 /\ mHandler
    BY <2>1 DEF AloneInv, MainInv, Busy, HasEnded
  <2>6. Waits' /\ HasEnded' /\ Idles' /\ Starts' /\ Ends' /\ Retries' /\ Shuts' /\ Kills'
    BY <2>1, <2>2, <2>3, <2>5
    DEF AloneInv, MainInv, Waits, HasEnded, Idles, Starts, Ends, Retries, Shuts, Kills, Killing
  <2> QED
    BY <2>1, <2>2, <2>3, <2>4, <2>5, <2>6, BusyStep
<1>6. ~KillLosesPump("main")
  BY <1>a, KillHasPump DEF KillLosesPump, At, HasHandler, AloneInv, MainInv, Kills, Current
<1>7. CASE KillJoined("main")
  <2>1. SetThread("main", [Main EXCEPT !.at = "finish"]) /\ UNCHANGED <<conn, queue, pump, left>>
    BY <1>7, <1>a DEF KillJoined, Goto
  <2>2. Main.at = "join" /\ mPump # NoPump /\ Main.target = mPump
        /\ Main'.at = "finish" /\ Main'.cont = Main.cont
        /\ UNCHANGED <<mPump, Current, mAutoReconnectAttempt>>
    BY <1>7, <1>a, <2>1, MainGoto, KillHasPump
    DEF KillJoined, At, conn, Current, AloneInv, MainInv, Kills
  <2>3. Behind(Current) /\ Main.cont \in {"terminated", "disconnected", "dialog"}
    <3>1. Current.handler /\ Current.pc \in {"new", "dead"}
      BY <1>7, <1>a, <2>2 DEF KillJoined, Current, AloneInv, MainInv, Kills
    <3>2. Current.pc = "dead"
      BY <1>d, <2>2, <3>1 DEF PumpAlone, Unpublished
    <3> QED
      BY <2>2, <3>2, KillHasPump DEF Behind, AloneInv
  <2>4. Starts' /\ Ends' /\ Retries' /\ Shuts' /\ Kills'
    BY <2>2, <2>3 DEF AloneInv, MainInv, Starts, Ends, Retries, Shuts, Kills, Killing
  <2> QED
    BY <2>1, <2>2, <2>4, GotoAlone
<1>8. CASE KillFinish("main")
  <2>1. /\ Main.at = "finish" /\ mPump' = NoPump /\ UNCHANGED <<mHandler, inbox, pump, left>>
        /\ mAutoReconnectAttempt' = mAutoReconnectAttempt
        /\ SetThread("main", [Main EXCEPT !.at = "after"])
    BY <1>8, <1>a DEF KillFinish, At, Goto, PumpAfterKill
  <2>2. Main'.at = "after" /\ Main'.cont = Main.cont /\ thread'["binder"] = thread["binder"]
    BY <1>a, <2>1, MainGoto
  <2>3. mHandler /\ reconnects = 0 /\ reconnects' = 0
    BY <1>8, <2>1 DEF KillFinish, AloneInv, HasEnded, MainInv, Busy
  <2>4. Main.cont \in {"terminated", "disconnected", "dialog"} /\ Behind(Current)
    BY <2>1, KillHasPump DEF AloneInv, MainInv, Kills
  <2>5. PumpsAlone' /\ RestBehind'
    BY <2>1, <2>4 DEF AloneInv, PumpsAlone, RestBehind, Current
  <2>6. Waits' /\ HasEnded' /\ Idles' /\ Starts' /\ Ends' /\ Retries' /\ Shuts' /\ Kills'
    BY <2>1, <2>2, <2>3, <2>4
    DEF AloneInv, MainInv, Waits, HasEnded, Idles, Starts, Ends, Retries, Shuts, Kills, Killing
  <2> QED
    BY <2>1, <2>2, <2>3, <2>5, <2>6, BusyStep
<1> QED
  BY <1>1, <1>2, <1>3, <1>4, <1>5, <1>6, <1>7, <1>8, <1>9, <1>10 DEF Kill

\* The end of what "main" does about a message.
LEMMA ReturnAlone ==
  ASSUME TypeOK, AloneInv, Main.at # "idle", Return("main"), UNCHANGED <<inbox, left>>,
         PumpsAlone', RestBehind', Waits', HasEnded'
  PROVE  AloneInv'
<1>1. Main'.at = "idle" /\ Main'.cont = "none" /\ thread'["binder"] = thread["binder"]
  BY Typed, MainSet DEF Return
<1>2. Idles' /\ Starts' /\ Ends' /\ Retries' /\ Shuts' /\ Kills'
  BY <1>1 DEF Idles, Starts, Ends, Retries, Shuts, Kills
<1> QED
  BY <1>1, <1>2, BusyStep

LEMMA ResumeAlone ==
  ASSUME TypeOK, PumpsOK, AloneInv, Resume("main")
  PROVE  AloneInv'
<1>a. /\ Main \in ThreadType /\ thread \in [Threads -> ThreadType] /\ Main = thread["main"]
      /\ "main" \in Threads
  BY Typed DEF Main, Threads
<1>b. Main.at # "idle" => reconnects = 0 /\ mHandler
  BY DEF AloneInv, MainInv, Busy, HasEnded
<1>c. Main.at \in {"after", "notify"} => mPump = NoPump
  BY <1>a DEF AloneInv, MainInv, Idles, Starts, Ends, Retries, Shuts, Kills, Killing, ThreadType
<1>d. UNCHANGED <<mPump, pump>> => PumpsAlone' /\ RestBehind'
  BY DEF AloneInv, PumpsAlone, RestBehind
<1>1. CASE DisconnectedRetry("main")
  <2>1. Main.at = "after" /\ Return("main") /\ reconnects' = reconnects + 1
        /\ UNCHANGED <<mPump, mHandler, inbox, pump, left>>
    BY <1>1, <1>a DEF DisconnectedRetry, After, At
  <2>2. Waits' /\ HasEnded'
    BY <1>b, <1>c, <2>1 DEF Waits, HasEnded
  <2> QED
    BY <1>d, <2>1, <2>2, ReturnAlone
<1>2. CASE DisconnectedNotify("main")
  <2>1. Main.at = "after" /\ Main.cont \in {"terminated", "endXfer", "disconnected"}
        /\ SetThread("main", [Main EXCEPT !.at = "notify"]) /\ UNCHANGED <<conn, queue, pump, left>>
    BY <1>2, <1>a DEF DisconnectedNotify, After, At, Goto
  <2>2. Main'.at = "notify" /\ Main'.cont = Main.cont /\ mPump' = NoPump
    BY <1>c, <2>1, MainGoto DEF conn
  <2>3. Main.cont # "endXfer"
    BY DEF AloneInv, MainInv, Kills
  <2>4. Starts' /\ Ends' /\ Retries' /\ Shuts' /\ Kills'
    BY <2>1, <2>2, <2>3 DEF Starts, Ends, Retries, Shuts, Kills, Killing
  <2> QED
    BY <2>1, <2>4, GotoAlone
<1>3. ~DisconnectedTooLate("main")
  BY <1>a, <1>b DEF DisconnectedTooLate, After, At
<1>4. CASE Notify("main")
  <2>1. Main.at = "notify" /\ UNCHANGED <<mPump, mHandler, reconnects, inbox, pump, left>>
    BY <1>4, <1>a DEF Notify, At, queue
  <2>2. Waits' /\ HasEnded'
    BY <1>b, <2>1 DEF Waits, HasEnded
  <2>3. CASE Return("main")
    BY <1>d, <2>1, <2>2, <2>3, ReturnAlone
  <2>4. CASE CallKill("main", "shutdown")
    <3> DEFINE e == [Main EXCEPT !.at = "enter", !.cont = "shutdown"]
    <3>1. Main' = e /\ thread'["binder"] = thread["binder"]
      BY <1>a, <2>4, MainSet DEF CallKill
    <3>2. Main'.at = "enter" /\ Main'.cont = "shutdown" /\ mPump' = NoPump
      BY <1>a, <1>c, <2>1, <3>1 DEF ThreadType
    <3>3. Idles' /\ Starts' /\ Ends' /\ Retries' /\ Shuts' /\ Kills'
      BY <3>2 DEF Idles, Starts, Ends, Retries, Shuts, Kills
    <3> QED
      BY <1>b, <1>d, <2>1, <2>2, <3>1, <3>3, BusyStep
  <2> QED
    BY <1>4, <1>b, <2>1, <2>3, <2>4 DEF Notify
<1>5. CASE ShutdownDone("main")
  <2>1. Main.at = "after" /\ mHandler /\ UNCHANGED <<mPump, inbox, pump, left>>
    BY <1>5, <1>a, <1>b DEF ShutdownDone, After, At
  <2>2. Return("main") /\ reconnects' = 0
    BY <1>5, <2>1 DEF ShutdownDone
  <2>3. Main'.at = "idle"
    BY <1>a, <2>2, MainSet DEF Return
  <2>4. Waits' /\ HasEnded'
    BY <1>c, <2>1, <2>2, <2>3 DEF Waits, HasEnded
  <2> QED
    BY <1>d, <2>1, <2>2, <2>4, ReturnAlone
<1>6. CASE DialogRetry("main")
  <2>1. Main.at = "after" /\ mHandler /\ UNCHANGED <<mPump, mHandler, inbox, pump, left>>
    BY <1>6, <1>a, <1>b DEF DialogRetry, After, At, conn
  <2>2. Return("main") /\ reconnects' = reconnects + 1
    BY <1>6, <2>1 DEF DialogRetry
  <2>3. Waits' /\ HasEnded'
    BY <1>b, <1>c, <2>1, <2>2 DEF Waits, HasEnded
  <2> QED
    BY <1>d, <2>1, <2>2, <2>3, ReturnAlone
<1>7. CASE Create("main")
  <2>1. Main.at = "after" /\ Main.cont = "startup" /\ mHandler
        /\ UNCHANGED <<mHandler, reconnects, inbox, left>>
    BY <1>7, <1>a, <1>b DEF Create, After, At, queue
  <2>2. PICK p \in Pumps :
          /\ pump[p].pc = "unborn" /\ mPump' = p
          /\ SetPump(p, [pump[p] EXCEPT !.pc = "new"]) /\ Goto("main", "start")
    BY <1>7, <2>1 DEF Create
  <2> DEFINE e == [pump[p] EXCEPT !.pc = "new"]
  <2>3. Main'.at = "start" /\ Main'.cont = "startup" /\ thread'["binder"] = thread["binder"]
    BY <1>a, <2>1, <2>2, MainGoto DEF Goto
  <2>4. pump[p] \in PumpType /\ PumpAlone(pump[p]) /\ p # NoPump /\ p = mPump'
    BY <2>2, Typed DEF AloneInv, PumpsAlone
  <2>5. /\ e.pc = "new" /\ e.sock = pump[p].sock /\ e.handler = pump[p].handler
        /\ e.mailbox = pump[p].mailbox /\ e.writeQ = pump[p].writeQ
    BY <2>4 DEF PumpType
  <2>6. pump'[p] = e /\ \A r \in Pumps : r # p => pump'[r] = pump[r]
    BY <2>2, Typed, PumpSet
  <2> HIDE DEF e
  <2>7. PumpAlone(e)
    <3>1. Queued(e, "COMPRESS") = {}
      BY <2>4, <2>5, QueuedSame DEF PumpAlone
    <3> QED
      BY <2>2, <2>4, <2>5, <3>1 DEF PumpAlone, Early, Unpublished
  <2>8. PumpsAlone' /\ RestBehind'
    <3>1. \A q \in Pumps : q # mPump
      BY <1>c, <2>1, Typed
    <3> QED
      BY <2>4, <2>6, <2>7, <3>1 DEF AloneInv, PumpsAlone, RestBehind
  <2>9. Current'.pc = "new"
    BY <2>4, <2>5, <2>6 DEF Current
  <2>10. Waits' /\ HasEnded' /\ Idles' /\ Starts' /\ Ends' /\ Retries' /\ Shuts' /\ Kills'
    BY <1>b, <2>1, <2>3, <2>4, <2>9
    DEF Waits, HasEnded, Idles, Starts, Ends, Retries, Shuts, Kills
  <2> QED
    BY <1>b, <2>1, <2>3, <2>8, <2>10, BusyStep
<1>8. CASE StartPump("main")
  <2>1. Main.at = "start" /\ UNCHANGED <<mPump, mHandler, reconnects, inbox, left>>
    BY <1>8, <1>a DEF StartPump, At, queue
  <2>2. Main.cont = "startup" /\ mPump # NoPump /\ Current.pc = "new"
    BY <1>a, <2>1
    DEF AloneInv, MainInv, Idles, Starts, Ends, Retries, Shuts, Kills, Killing, ThreadType
  <2> DEFINE e == [Current EXCEPT !.pc = "init"]
  <2>3. SetPump(mPump, e) /\ Return("main")
    BY <1>8, <2>2 DEF StartPump, Current
  <2>4. mPump \in Pumps /\ Current \in PumpType /\ PumpAlone(Current)
    BY <2>2, Typed DEF AloneInv, PumpsAlone, Current
  <2>5. /\ e.pc = "init" /\ e.sock = Current.sock /\ e.handler = Current.handler
        /\ e.mailbox = Current.mailbox /\ e.writeQ = Current.writeQ
    BY <2>4 DEF PumpType
  <2>6. pump'[mPump] = e /\ \A r \in Pumps : r # mPump => pump'[r] = pump[r]
    BY <2>3, <2>4, Typed, PumpSet
  <2> HIDE DEF e
  <2>7. PumpAlone(e)
    <3>1. Queued(e, "COMPRESS") = {}
      BY <2>4, <2>5, QueuedSame DEF PumpAlone
    <3> QED
      BY <2>2, <2>4, <2>5, <3>1 DEF PumpAlone, Early, Unpublished
  <2>8. PumpsAlone' /\ RestBehind'
    BY <2>1, <2>6, <2>7 DEF AloneInv, PumpsAlone, RestBehind
  <2>9. Waits' /\ HasEnded'
    BY <1>b, <2>1 DEF Waits, HasEnded
  <2> QED
    BY <2>1, <2>3, <2>8, <2>9, ReturnAlone
<1> QED
  BY <1>1, <1>2, <1>3, <1>4, <1>5, <1>6, <1>7, <1>8 DEF Resume

(***************************************************************************)
(* What "main" does with a message.                                        *)
(***************************************************************************)
\* One it has nothing more to do about.
LEMMA HeardAlone ==
  ASSUME TypeOK, AloneInv, Main.at = "idle", inbox # <<>>, inbox' = Tail(inbox),
         UNCHANGED <<mPump, mHandler, reconnects, thread, pump, left>>
  PROVE  AloneInv'
<1>1. \A i \in DOMAIN inbox' :
         i \in Nat /\ i + 1 \in DOMAIN inbox /\ inbox'[i] = inbox[i + 1] /\ Len(inbox) > 1
  BY Typed, Tailed
<1>2. UNCHANGED <<Current, Main>>
  BY DEF Current, Main
<1>3. Nobody' /\ PumpsAlone' /\ RestBehind' /\ Waits' /\ HasEnded'
  BY <1>2 DEF AloneInv, Nobody, PumpsAlone, RestBehind, Waits, HasEnded
<1>4. InboxKinds' /\ NewsFresh' /\ NewsOrder'
  BY <1>1, <1>2 DEF AloneInv, QueueInv, InboxKinds, NewsFresh, NewsOrder
<1>5. Unstarted'
  BY <1>1 DEF AloneInv, QueueInv, Unstarted
<1>6. MainInv'
  <2>1. Busy' /\ Idles'
    BY <1>2 DEF AloneInv, MainInv, Busy, Idles
  <2>2. Starts' /\ Ends' /\ Retries' /\ Shuts' /\ Kills'
    BY <2>1, <1>2 DEF AloneInv, MainInv, Idles, Starts, Ends, Retries, Shuts, Kills
  <2> QED
    BY <2>1, <2>2 DEF MainInv
<1> QED
  BY <1>3, <1>4, <1>5, <1>6 DEF AloneInv, QueueInv

\* One that makes it call killNetThreads.
LEMMA CalledAlone ==
  ASSUME TypeOK, AloneInv, Main.at = "idle", mHandler,
         NEW k \in {"terminated", "disconnected", "dialog", "startup"}, CallKill("main", k),
         NoNews', reconnects' = 0,
         k = "startup" <=> mPump = NoPump,
         k \in {"terminated", "disconnected"} => Current.reports = 1,
         k = "dialog" => Failed(Current) /\ AutoReconnect /\ mAutoReconnectAttempt' > 0,
         UNCHANGED <<mPump, mHandler, pump>>, left'.sends = left.sends
  PROVE  AloneInv'
<1> DEFINE e == [Main EXCEPT !.at = "enter", !.cont = k]
<1>1. Main' = e /\ thread'["binder"] = thread["binder"]
  BY Typed, MainSet DEF CallKill, Main
<1>2. Main'.at = "enter" /\ Main'.cont = k
  BY <1>1, Typed DEF ThreadType
<1>3. UNCHANGED Current
  BY DEF Current
<1>4. Nobody' /\ PumpsAlone' /\ RestBehind' /\ Waits' /\ HasEnded'
  BY <1>1 DEF AloneInv, Nobody, PumpsAlone, RestBehind, Waits, HasEnded
<1>5. QueueInv'
  BY DEF NoNews, QueueInv, InboxKinds, NewsFresh, NewsOrder, Unstarted, IsNews, Terminal
<1>6. MainInv'
  <2>1. Busy' /\ Idles' /\ Shuts' /\ Kills'
    BY <1>2 DEF Busy, Idles, Shuts, Kills
  <2>2. Starts' /\ Ends' /\ Retries'
    BY <1>2, <1>3 DEF Starts, Ends, Retries, Killing
  <2> QED
    BY <2>1, <2>2 DEF MainInv
<1> QED
  BY <1>4, <1>5, <1>6 DEF AloneInv

\* Behind the report of an end there is no other news.
LEMMA EndIsLast ==
  ASSUME TypeOK, AloneInv, inbox # <<>>, Head(inbox).what \in Terminal \union {"DODIALOG"}
  PROVE  /\ \A i \in DOMAIN Tail(inbox) : Tail(inbox)[i].what = "PROCESS"
         /\ mPump # NoPump /\ reconnects = 0 /\ mHandler
         /\ Head(inbox).what \in Terminal => Current.reports = 1
         /\ Head(inbox).what = "DODIALOG" => Failed(Current)
<1>1. 1 \in DOMAIN inbox /\ Head(inbox) = inbox[1] /\ IsNews(inbox[1])
  BY Typed DEF IsNews
<1>2. \A i \in DOMAIN Tail(inbox) :
         i + 1 \in DOMAIN inbox /\ 1 < i + 1 /\ Tail(inbox)[i] = inbox[i + 1] /\ Len(inbox) > 1
  BY Typed, Tailed
<1>3. \A i \in DOMAIN Tail(inbox) : ~IsNews(inbox[i + 1]) /\ inbox[i + 1].what # "STARTUP"
  <2>1. inbox[1].what # "CONNECTED"
    BY <1>1 DEF Terminal
  <2> QED
    BY <1>1, <1>2, <2>1 DEF AloneInv, QueueInv, NewsOrder, Unstarted
<1>4. mPump # NoPump
  BY <1>1 DEF AloneInv, QueueInv, NewsFresh
<1> QED
  BY <1>1, <1>2, <1>3, <1>4, Typed
  DEF AloneInv, QueueInv, InboxKinds, NewsFresh, Waits, HasEnded

LEMMA HandleAlone ==
  ASSUME TypeOK, AloneInv, Handle
  PROVE  AloneInv'
<1>a. inbox \in Seq(Message) /\ Main = thread["main"] /\ Nobody
  BY Typed DEF Main, AloneInv
<1>b. \A w : Receive(w, <<>>) => /\ Main.at = "idle" /\ inbox # <<>> /\ Head(inbox).what = w
                                /\ inbox' = Tail(inbox)
  BY <1>a DEF Receive, At
<1>1. CASE HandleConnected
  BY <1>1, <1>b, HeardAlone DEF HandleConnected
<1>2. CASE HandleTerminated
  <2>1. Main.at = "idle" /\ inbox # <<>> /\ Head(inbox).what = "TERMINATED_BY_PEER"
        /\ inbox' = Tail(inbox)
    BY <1>2, <1>b DEF HandleTerminated
  <2>2. NoNews' /\ mPump # NoPump /\ reconnects = 0 /\ mHandler /\ Current.reports = 1
    BY <2>1, EndIsLast DEF NoNews, Terminal
  <2> QED
    BY <1>2, <2>1, <2>2, CalledAlone DEF HandleTerminated, conn
<1>3. CASE HandleDisconnected
  <2>1. Main.at = "idle" /\ inbox # <<>> /\ Head(inbox).what = "DISCONNECTED"
        /\ inbox' = Tail(inbox)
    BY <1>3, <1>b DEF HandleDisconnected
  <2>2. NoNews' /\ mPump # NoPump /\ reconnects = 0 /\ mHandler /\ Current.reports = 1
    BY <2>1, EndIsLast DEF NoNews, Terminal
  <2> QED
    BY <1>3, <2>1, <2>2, CalledAlone DEF HandleDisconnected, conn
<1>4. CASE HandleDialog
  <2>1. Main.at = "idle" /\ inbox # <<>> /\ Head(inbox).what = "DODIALOG"
        /\ inbox' = Tail(inbox)
    BY <1>4, <1>b DEF HandleDialog
  <2>2. NoNews' /\ mPump # NoPump /\ reconnects = 0 /\ mHandler /\ Failed(Current)
    BY <2>1, EndIsLast DEF NoNews
  <2>3. CASE MayRetry
    <3>1. AutoReconnect /\ mAutoReconnectAttempt' > 0 /\ CallKill("main", "dialog")
      BY <1>4, <2>2, <2>3, Typed DEF HandleDialog, MayRetry
    <3> QED
      BY <1>4, <2>1, <2>2, <3>1, CalledAlone DEF HandleDialog
  <2>4. CASE ~MayRetry
    BY <1>4, <2>1, <2>4, HeardAlone DEF HandleDialog
  <2> QED
    BY <2>3, <2>4
<1>5. CASE HandleProcess
  <2>1. left.sends = 0
    BY <1>a DEF Nobody
  <2> QED
    BY <1>5, <1>a, <2>1, HeardAlone DEF HandleProcess, At, conn
<1>6. ~HandleSendData /\ ~HandleSendOptionData /\ ~HandleStartCompress /\ ~HandleXfer
  <2>1. inbox # <<>> =>
          Head(inbox).what \notin {"SENDDATA", "SENDOPTIONDATA", "STARTCOMPRESS", "XFER"}
    BY <1>a DEF AloneInv, QueueInv, InboxKinds, IsNews, Terminal
  <2> QED
    BY <2>1 DEF HandleSendData, HandleSendOptionData, HandleStartCompress, HandleXfer, Receive
<1>7. CASE HandleStartup
  <2>1. Main.at = "idle" /\ inbox # <<>> /\ Head(inbox).what = "STARTUP" /\ inbox' = Tail(inbox)
    BY <1>7, <1>b DEF HandleStartup
  <2>2. 1 \in DOMAIN inbox /\ inbox[1].what = "STARTUP"
    BY <1>a, <2>1
  <2>3. Len(inbox) = 1 /\ mPump = NoPump /\ mHandler /\ reconnects = 0
    BY <2>2 DEF AloneInv, QueueInv, Unstarted
  <2>4. NoNews'
    BY <1>a, <2>1, <2>3 DEF NoNews
  <2> QED
    BY <1>7, <2>1, <2>3, <2>4, CalledAlone DEF HandleStartup, conn
<1>8. CASE HandleReconnect
  <2>1. Main.at = "idle" /\ reconnects > 0 /\ reconnects' = reconnects - 1
        /\ DoReconnect("main") /\ UNCHANGED <<inbox, left>>
    BY <1>8, <1>a DEF HandleReconnect, At
  <2>2. mPump = NoPump /\ reconnects' = 0 /\ mHandler
    BY <2>1 DEF AloneInv, Waits, HasEnded
  <2>3. NoNews'
    BY <1>a, <2>1, <2>2 DEF NoNews, AloneInv, QueueInv, InboxKinds, NewsFresh, Unstarted
  <2>4. UNCHANGED <<pump, mPump, mHandler>> /\ CallKill("main", "startup")
    BY <2>1, <2>2 DEF DoReconnect, HasHandler
  <2> QED
    BY <2>1, <2>2, <2>3, <2>4, CalledAlone
<1> QED
  BY <1>1, <1>2, <1>3, <1>4, <1>5, <1>6, <1>7, <1>8 DEF Handle

(***************************************************************************)
(* AloneInv is an invariant.                                               *)
(***************************************************************************)
LEMMA InitAlone ==
  ASSUME Alone, Init
  PROVE  AloneInv
<1>1. inbox = <<Msg("STARTUP", NoPump)>> /\ thread["main"].at = "idle"
      /\ thread["main"].cont = "none" /\ thread["binder"].at = "idle"
  BY DEF Init, Threads
<1>2. \A q \in Pumps : pump[q] = NewPump
  BY DEF Init
<1>3. Nobody
  BY <1>1 DEF Init, Alone, Nobody
<1>4. PumpAlone(NewPump) /\ Behind(NewPump) /\ NewPump.pc = "unborn"
  BY DEF PumpAlone, Behind, NewPump, Early, Queued, Unpublished
<1>5. PumpsAlone /\ RestBehind
  BY <1>2, <1>4 DEF PumpsAlone, RestBehind
<1>6. QueueInv
  <2>1. Len(inbox) = 1 /\ DOMAIN inbox = {1} /\ inbox[1].what = "STARTUP"
    BY <1>1 DEF Msg
  <2> QED
    BY <1>1, <1>2, <1>4, <2>1
    DEF Init, QueueInv, InboxKinds, NewsFresh, NewsOrder, Unstarted, IsNews, Terminal, Main
<1>7. Waits /\ HasEnded /\ MainInv
  BY <1>1 DEF Init, Waits, HasEnded, MainInv, Busy, Idles, Starts, Ends, Retries, Shuts, Kills,
              Main
<1> QED
  BY <1>3, <1>5, <1>6, <1>7 DEF AloneInv

LEMMA NextAlone ==
  ASSUME Alone, TypeOK, PumpsOK, AloneInv, [Next]_vars
  PROVE  AloneInv'
<1>a. thread["binder"].at = "idle" /\ left.sends = 0
  BY DEF AloneInv, Nobody
<1>1. ~Kill("binder") /\ ~Resume("binder")
  BY <1>a
  DEF Kill, KillReturnsAtOnce, KillSkipsInit, KillFlags, KillSocket, KillClear, KillEnd,
      KillWaits, KillLosesPump, KillJoined, KillFinish, Resume, DisconnectedRetry, DisconnectedNotify, DisconnectedTooLate,
      Notify, ShutdownDone, DialogRetry, Create, StartPump, After, At
<1>2. ~User
  BY <1>a
  DEF Alone, User, InitXfer, EndXfer, Reconnect, CloseConnection, TypeCommand, UserCall
<1>3. CASE UNCHANGED vars
  BY <1>3
  DEF vars, conn, queue, AloneInv, Nobody, PumpsAlone, RestBehind, QueueInv, InboxKinds,
      NewsFresh, NewsOrder, Unstarted, Waits, HasEnded, MainInv, Busy, Idles, Starts,
      Ends, Retries, Shuts, Kills, NoNews, Current, Main
<1>4. CASE Kill("main") \/ Resume("main") \/ Handle
  BY <1>4, KillAlone, ResumeAlone, HandleAlone
<1>5. ASSUME NEW q \in Pumps, Pumper(q) \/ Writer(q) \/ Peer(q)
      PROVE  AloneInv'
  BY <1>5, NewsAlone, LoopAlone, ReadAlone, DieAlone, WriterPeerAlone DEF Pumper
<1> QED
  BY <1>1, <1>2, <1>3, <1>4, <1>5 DEF Next, Threads

LEMMA AloneInvariant ==
  ASSUME Alone
  PROVE  Spec => [](TypeOK /\ PumpsOK /\ AloneInv)
<1>1. Spec => [](TypeOK /\ PumpsOK)
  BY PumpsCorrect
<1>2. Init => AloneInv
  BY InitAlone
<1>3. TypeOK /\ PumpsOK /\ AloneInv /\ [Next]_vars => AloneInv'
  BY NextAlone
<1> QED
  BY <1>1, <1>2, <1>3, PTL DEF Spec

(***************************************************************************)
(* The properties of such a session.                                       *)
(***************************************************************************)
LEMMA OnlyCurrentOpen ==
  ASSUME TypeOK, AloneInv
  PROVE  OneSession
<1> DEFINE Open == {p \in Pumps : pump[p].sock = "open"}
<1>1. Open \subseteq {mPump}
  BY DEF AloneInv, PumpsAlone, PumpAlone, RestBehind, Behind, Failed, Early
<1>2. IsFiniteSet({mPump}) /\ Cardinality({mPump}) = 1
  BY FS_Singleton
<1> HIDE DEF Open
<1>3. IsFiniteSet(Open) /\ Cardinality(Open) \in Nat /\ Cardinality(Open) <= 1
  BY <1>1, <1>2, FS_Subset, FS_CardinalityType
<1> QED
  BY <1>3 DEF OneSession, Open

\* When nobody interferes there are never two open sockets, however the polls of
\* a pump, its peer, killNetThreads and the reconnects interleave: the pump of a
\* lost session is closed before the next one can connect.
THEOREM OneSessionAlone == Alone => (Spec => []OneSession)
<1> SUFFICES ASSUME Alone
             PROVE  Spec => []OneSession
  OBVIOUS
<1>1. TypeOK /\ AloneInv => OneSession
  BY OnlyCurrentOpen
<1> QED
  BY <1>1, AloneInvariant, PTL

\* When nobody interferes the report of an end that waits in the handler's queue
\* is about the pump the connection has now.
THEOREM ReportsAreFreshAlone == Alone => (Spec => []ReportsAreFresh)
<1> SUFFICES ASSUME Alone
             PROVE  Spec => []ReportsAreFresh
  OBVIOUS
<1>1. AloneInv => ReportsAreFresh
  BY DEF AloneInv, QueueInv, NewsFresh, ReportsAreFresh, IsNews
<1> QED
  BY <1>1, AloneInvariant, PTL

\* When nobody interferes a delayed MESSAGE_RECONNECT is alone: there is no pump
\* it would forget with its socket open, and no second reconnect behind it.
THEOREM ReconnectIsAlone == Alone => (Spec => []ReconnectWaitsAlone)
<1> SUFFICES ASSUME Alone
             PROVE  Spec => []ReconnectWaitsAlone
  OBVIOUS
<1>1. AloneInv => ReconnectWaitsAlone
  BY DEF AloneInv, Waits, ReconnectWaitsAlone
<1> QED
  BY <1>1, AloneInvariant, PTL

(***************************************************************************)
(* The steps of Session.                                                   *)
(***************************************************************************)
Ahead == inbox # <<>> /\ Head(inbox).what = "STARTUP"

\* What of the threads Session sees.
LEMMA PhaseIs ==
  ASSUME AloneInv, Alive
  PROVE  /\ Ahead => SessionPhase = "starting"
         /\ ~Ahead /\ (mPump # NoPump \/ Main.at # "idle") => SessionPhase = "live"
         /\ ~Ahead /\ mPump = NoPump /\ Main.at = "idle" =>
                SessionPhase = IF reconnects > 0 THEN "waiting" ELSE "over"
         /\ SessionTries = IF Main.cont = "dialog" THEN mAutoReconnectAttempt - 1
                                                   ELSE mAutoReconnectAttempt
BY DEF SessionPhase, SessionTries, Ahead, Main, Working

LEMMA PhaseIsNext ==
  ASSUME Alive'
  PROVE  /\ Ahead' => SessionPhase' = "starting"
         /\ ~Ahead' /\ (mPump' # NoPump \/ Main'.at # "idle") => SessionPhase' = "live"
         /\ ~Ahead' /\ mPump' = NoPump /\ Main'.at = "idle" =>
                SessionPhase' = IF reconnects' > 0 THEN "waiting" ELSE "over"
         /\ SessionTries' = IF Main'.cont = "dialog" THEN mAutoReconnectAttempt' - 1
                                                    ELSE mAutoReconnectAttempt'
BY DEF SessionPhase, SessionTries, Ahead, Main, Working

\* STARTUP is the first thing "main" does.
LEMMA AheadIdle ==
  ASSUME TypeOK, AloneInv, Ahead
  PROVE  Main.at = "idle" /\ mPump = NoPump /\ Len(inbox) = 1
         /\ reconnects = 0 /\ \A q \in Pumps : pump[q].pc = "unborn"
<1>1. 1 \in DOMAIN inbox /\ inbox[1].what = "STARTUP"
  BY Typed DEF Ahead
<1> QED
  BY <1>1 DEF AloneInv, QueueInv, Unstarted

LEMMA AheadSame ==
  ASSUME inbox \in Seq(Message),
         \/ UNCHANGED inbox
         \/ \E m \in Message, rest \in Seq(Message) :
               m.what # "STARTUP" /\ inbox' = inbox \o <<m>> \o rest
  PROVE  Ahead' <=> Ahead
<1>1. CASE UNCHANGED inbox
  BY <1>1 DEF Ahead
<1>2. ASSUME NEW m \in Message, NEW rest \in Seq(Message),
             m.what # "STARTUP", inbox' = inbox \o <<m>> \o rest
      PROVE  Ahead' <=> Ahead
  <2>1. CASE inbox = <<>>
    <3>1. inbox' = <<m>> \o rest
      BY <1>2, <2>1
    <3>2. inbox' # <<>> /\ Head(inbox') = m
      BY <3>1
    <3> QED
      BY <1>2, <2>1, <3>2 DEF Ahead
  <2>2. CASE inbox # <<>>
    <3>1. inbox' # <<>> /\ Head(inbox') = Head(inbox)
      BY <1>2, <2>2
    <3> QED
      BY <2>2, <3>1 DEF Ahead
  <2> QED
    BY <2>1, <2>2
<1> QED
  BY <1>1, <1>2

\* A step Session does not see.
LEMMA Unseen ==
  ASSUME UNCHANGED <<mPump, mAutoReconnectAttempt, reconnects, thread, fault>>,
         Ahead' <=> Ahead
  PROVE  UNCHANGED S!vars
BY DEF S!vars, SessionPhase, SessionTries, Ahead, Working, Alive

LEMMA PumperSimulates ==
  ASSUME TypeOK, AloneInv, NEW q \in Pumps, Pumper(q) \/ Writer(q) \/ Peer(q)
  PROVE  S!Next \/ UNCHANGED S!vars
<1> DEFINE Same == UNCHANGED <<mPump, mAutoReconnectAttempt, reconnects, thread, fault>>
           More == \E m \in Message, rest \in Seq(Message) :
                     m.what # "STARTUP" /\ inbox' = inbox \o <<m>> \o rest
<1>a. inbox \in Seq(Message)
  BY Typed
<1>b. \A w \in {"PROCESS", "DODIALOG", "CONNECTED"} : Post(q, w) => More
  <2> TAKE w \in {"PROCESS", "DODIALOG", "CONNECTED"}
  <2> HAVE Post(q, w)
  <2>1. Msg(w, q) \in Message /\ Msg(w, q).what # "STARTUP"
    BY DEF Msg, Message
  <2>2. inbox' = inbox \o <<Msg(w, q)>> \o <<>>
    BY <1>a, <2>1 DEF Post
  <2> DEFINE m == Msg(w, q)
  <2>3. m \in Message /\ m.what # "STARTUP" /\ inbox' = inbox \o <<m>> \o <<>>
    BY <2>1, <2>2
  <2>4. <<>> \in Seq(Message)
    OBVIOUS
  <2> HIDE DEF m
  <2> QED
    BY <2>3, <2>4
<1>1. CASE Same /\ (UNCHANGED inbox \/ More)
  BY <1>a, <1>1, AheadSame, Unseen
<1>2. Quiet => Same /\ UNCHANGED inbox
  BY DEF Quiet, conn, queue
<1>3. CASE ShutdownSocket(q) /\ ~UNCHANGED fault
  <2>1. Alive /\ fault' = "writer" /\ pump[q].pc = "shutdown"
        /\ UNCHANGED <<mPump, mAutoReconnectAttempt, reconnects, inbox, thread>>
    BY <1>3 DEF ShutdownSocket, In, Crash, conn, queue
  <2>2. ~Ahead
    BY <2>1, AheadIdle
  <2>3. SessionPhase \in {"live", "waiting", "over"} /\ SessionPhase' = "crashed"
        /\ UNCHANGED SessionTries
    BY <2>1, <2>2 DEF SessionPhase, SessionTries, Alive, Ahead, Working
  <2> QED
    BY <2>3 DEF S!Next, S!Crash
<1>4. CASE ShutdownSocket(q) /\ UNCHANGED fault
  BY <1>1, <1>4 DEF ShutdownSocket, conn, queue
<1>5. CASE InitFails(q) \/ InitConnects(q) \/ ReadData(q) \/ TakeCompress(q)
  BY <1>1, <1>5, <1>b DEF InitFails, InitConnects, ReadData, TakeCompress, conn
<1>6. CASE ReadFails(q) \/ WriteFails(q)
  BY <1>1, <1>6, <1>b DEF ReadFails, WriteFails, conn
<1>7. CASE Report(q)
  <2>1. Same
    BY <1>7 DEF Report, conn
  <2>2. /\ Msg("TERMINATED_BY_PEER", q) \in Message /\ Msg("DISCONNECTED", q) \in Message
        /\ Msg("PROCESS", q) \in Message
        /\ Msg("TERMINATED_BY_PEER", q).what # "STARTUP"
        /\ Msg("DISCONNECTED", q).what # "STARTUP"
    BY DEF Msg, Message, Terminal
  <2> DEFINE t == Msg("TERMINATED_BY_PEER", q)
             x == Msg("DISCONNECTED", q)
             r == Msg("PROCESS", q)
  <2>3. \/ inbox' = inbox \o <<t>> \/ inbox' = inbox \o <<x>> \/ inbox' = inbox \o <<x, r>>
    BY <1>7 DEF Report
  <2> HIDE DEF t, x, r
  <2>4. /\ inbox \o <<t>> = inbox \o <<t>> \o <<>> /\ inbox \o <<x>> = inbox \o <<x>> \o <<>>
        /\ inbox \o <<x, r>> = inbox \o <<x>> \o <<r>>
    BY <1>a, <2>2 DEF t, x, r
  <2>5. <<>> \in Seq(Message) /\ <<r>> \in Seq(Message)
    BY <2>2 DEF r
  <2>6. More
    BY <2>2, <2>3, <2>4, <2>5 DEF t, x
  <2> QED
    BY <1>1, <2>1, <2>6
<1>8. CASE Publish(q) \/ Retrieve(q) \/ WakeData(q) \/ WakeEnd(q) \/ Rearm(q)
           \/ TakeEnd(q) \/ PumpDies(q)
           \/ WriterPublish(q) \/ WriteOk(q) \/ WriterEnds(q)
  BY <1>1, <1>2, <1>8
  DEF Publish, Retrieve, WakeData, WakeEnd, Rearm, TakeEnd, PumpDies,
      WriterPublish, WriteOk, WriterEnds
<1>9. CASE PeerSends(q) \/ PeerFails(q)
  BY <1>1, <1>9 DEF PeerSends, PeerFails, conn, queue
<1> QED
  BY <1>3, <1>4, <1>5, <1>6, <1>7, <1>8, <1>9 DEF Pumper, Writer, Peer

\* Inside killNetThreads the session is live and stays so.
LEMMA KillSimulates ==
  ASSUME TypeOK, AloneInv, Kill("main")
  PROVE  S!Next \/ UNCHANGED S!vars
<1>1. Alive /\ Main.at # "idle" /\ Main \in ThreadType
  BY Typed
  DEF Kill, KillReturnsAtOnce, KillSkipsInit, KillFlags, KillSocket, KillClear, KillEnd,
      KillWaits, KillLosesPump, KillJoined, KillFinish, At, Main
<1>2. ~KillLosesPump("main")
  BY KillHasPump DEF KillLosesPump, At, HasHandler, AloneInv, MainInv, Kills, Current, Main
<1>3. UNCHANGED <<fault, mAutoReconnectAttempt, inbox>>
  BY <1>2
  DEF Kill, KillReturnsAtOnce, KillSkipsInit, KillFlags, KillSocket, KillClear, KillEnd,
      KillWaits, KillJoined, KillFinish, conn, queue
<1>4. \E x \in {"after", "finish", "close", "remove", "end", "wait", "join"} : \E g :
        SetThread("main", [at |-> x, target |-> g, cont |-> Main.cont])
  <2>1. CASE KillFlags("main") \/ KillWaits("main")
    <3>1. PICK x \in {"close", "join"} :
            SetThread("main", [Main EXCEPT !.at = x, !.target = mPump])
      BY <2>1 DEF KillFlags, KillWaits, Main
    <3>2. [Main EXCEPT !.at = x, !.target = mPump]
            = [at |-> x, target |-> mPump, cont |-> Main.cont]
      BY MainTakes
    <3> QED
      BY <3>1, <3>2
  <2>2. CASE ~(KillFlags("main") \/ KillWaits("main"))
    <3>1. \E x \in {"after", "finish", "remove", "end", "wait"} : SetThread("main", [Main EXCEPT !.at = x])
      BY <1>2, <2>2
      DEF Kill, KillReturnsAtOnce, KillSkipsInit, KillSocket, KillClear, KillEnd, KillJoined,
          KillFinish, Goto, Main
    <3> QED
      BY <3>1, MainGoto
  <2> QED
    BY <2>1, <2>2
<1>5. Main'.at # "idle" /\ Main'.cont = Main.cont
  BY <1>4, Typed, MainSet
<1>6. ~Ahead /\ ~Ahead'
  BY <1>1, <1>3, AheadIdle DEF Ahead
<1>7. Alive'
  BY <1>1, <1>3 DEF Alive
<1> QED
  BY <1>1, <1>3, <1>5, <1>6, <1>7, PhaseIs, PhaseIsNext DEF S!vars

LEMMA MainReturns ==
  ASSUME TypeOK, Return("main")
  PROVE  Main'.at = "idle" /\ Main'.cont = "none"
BY Typed, MainSet DEF Return

\* Behind killNetThreads the session goes on, waits for a reconnect or is over.
LEMMA ResumeSimulates ==
  ASSUME TypeOK, AloneInv, Resume("main")
  PROVE  S!Next \/ UNCHANGED S!vars
<1>a. Alive /\ Main.at # "idle" /\ Main = thread["main"] /\ Main \in ThreadType
  BY Typed
  DEF Resume, DisconnectedRetry, DisconnectedNotify, DisconnectedTooLate, Notify, ShutdownDone,
      DialogRetry, Create, StartPump, After, At, Main
<1>b. reconnects = 0 /\ mHandler
  BY <1>a DEF AloneInv, MainInv, Busy, HasEnded
<1>c. Main.at \in {"after", "notify"} => mPump = NoPump
  BY <1>a DEF AloneInv, MainInv, Idles, Starts, Ends, Retries, Shuts, Kills, Killing, ThreadType
<1>d. ~Ahead /\ SessionPhase = "live" /\ ~Ahead'
  <2>1. UNCHANGED inbox
    BY <1>a, <1>b
    DEF Resume, DisconnectedRetry, DisconnectedNotify, DisconnectedTooLate, Notify, ShutdownDone,
        DialogRetry, Create, StartPump, queue
  <2> QED
    BY <1>a, <2>1, AheadIdle, PhaseIs DEF Ahead
<1>e. mAutoReconnectAttempt \in Nat /\ mAutoReconnectAttempt <= Limit /\ Limit \in Nat
  BY NetAssumption DEF TypeOK, ConnType
<1>f. SessionTries = IF Main.cont = "dialog" THEN mAutoReconnectAttempt - 1
                                            ELSE mAutoReconnectAttempt
  BY <1>a, PhaseIs
<1>1. CASE DisconnectedRetry("main")
  <2>1. Main.at = "after" /\ Main.cont = "disconnected" /\ MayRetry /\ Return("main")
        /\ mAutoReconnectAttempt' = mAutoReconnectAttempt + 1
        /\ reconnects' = reconnects + 1 /\ UNCHANGED <<mPump, fault>>
    BY <1>1, <1>a DEF DisconnectedRetry, After, At
  <2>2. SessionPhase' = "waiting" /\ SessionTries' = mAutoReconnectAttempt + 1
    BY <1>a, <1>b, <1>c, <1>d, <2>1, MainReturns, PhaseIsNext DEF Alive
  <2> QED
    BY <1>d, <1>e, <1>f, <2>1, <2>2 DEF MayRetry, S!Next, S!Lost, S!Become
<1>2. CASE DisconnectedNotify("main")
  <2>1. SetThread("main", [Main EXCEPT !.at = "notify"])
        /\ UNCHANGED <<mPump, mAutoReconnectAttempt, fault>>
    BY <1>2, <1>a DEF DisconnectedNotify, Goto, conn
  <2>2. SessionPhase' = "live" /\ UNCHANGED SessionTries
    BY <1>a, <1>d, <1>f, <2>1, MainGoto, PhaseIsNext DEF Alive
  <2> QED
    BY <1>d, <2>2 DEF S!vars
<1>3. ~DisconnectedTooLate("main")
  BY <1>b DEF DisconnectedTooLate
<1>4. CASE Notify("main")
  <2>1. Main.at = "notify" /\ UNCHANGED <<mPump, mAutoReconnectAttempt, reconnects, fault>>
    BY <1>4, <1>a, <1>b DEF Notify, At, queue
  <2>2. Main.cont # "dialog"
    BY <2>1 DEF AloneInv, MainInv, Retries, Killing
  <2>3. CASE Return("main")
    <3>1. SessionPhase' = "over" /\ UNCHANGED SessionTries
      BY <1>a, <1>b, <1>c, <1>d, <1>f, <2>1, <2>2, <2>3, MainReturns, PhaseIsNext DEF Alive
    <3> QED
      BY <1>d, <3>1 DEF S!Next, S!GiveUp, S!Become
  <2>4. CASE CallKill("main", "shutdown")
    <3>1. Main'.at = "enter" /\ Main'.cont = "shutdown"
      <4> DEFINE e == [Main EXCEPT !.at = "enter", !.cont = "shutdown"]
      <4>1. Main' = e
        BY <1>a, <2>4, Typed, MainSet DEF CallKill
      <4> QED
        BY <1>a, <4>1 DEF ThreadType
    <3>2. SessionPhase' = "live" /\ UNCHANGED SessionTries
      BY <1>a, <1>d, <1>f, <2>1, <2>2, <3>1, PhaseIsNext DEF Alive
    <3> QED
      BY <1>d, <3>2 DEF S!vars
  <2> QED
    BY <1>4, <1>b, <2>3, <2>4 DEF Notify
<1>5. CASE ShutdownDone("main")
  <2>1. Main.at = "after" /\ Main.cont = "shutdown" /\ Return("main") /\ reconnects' = 0
        /\ UNCHANGED <<mPump, mAutoReconnectAttempt, fault>>
    BY <1>5, <1>a, <1>b DEF ShutdownDone, After, At
  <2>2. SessionPhase' = "over" /\ UNCHANGED SessionTries
    BY <1>a, <1>c, <1>d, <1>f, <2>1, MainReturns, PhaseIsNext DEF Alive
  <2> QED
    BY <1>d, <2>2 DEF S!Next, S!GiveUp, S!Become
<1>6. CASE DialogRetry("main")
  <2>1. Main.at = "after" /\ Main.cont = "dialog" /\ Return("main")
        /\ reconnects' = reconnects + 1 /\ UNCHANGED <<mPump, mAutoReconnectAttempt, fault>>
    BY <1>6, <1>a, <1>b DEF DialogRetry, After, At, conn
  <2>2. SessionPhase' = "waiting" /\ SessionTries' = mAutoReconnectAttempt
    BY <1>a, <1>b, <1>c, <1>d, <2>1, MainReturns, PhaseIsNext DEF Alive
  <2>3. AutoReconnect /\ mAutoReconnectAttempt > 0
    BY <2>1 DEF AloneInv, MainInv, Retries
  <2> QED
    BY <1>d, <1>e, <1>f, <2>1, <2>2, <2>3 DEF S!Next, S!Lost, S!Become
<1>7. CASE Create("main")
  <2>1. SetThread("main", [Main EXCEPT !.at = "start"])
        /\ UNCHANGED <<mAutoReconnectAttempt, fault>>
    BY <1>7, <1>a, <1>b DEF Create, Goto
  <2>2. SessionPhase' = "live" /\ UNCHANGED SessionTries
    BY <1>a, <1>d, <1>f, <2>1, MainGoto, PhaseIsNext DEF Alive
  <2> QED
    BY <1>d, <2>2 DEF S!vars
<1>8. CASE StartPump("main")
  <2>1. Main.at = "start" /\ UNCHANGED <<mPump, mAutoReconnectAttempt>>
    BY <1>8, <1>a DEF StartPump, At
  <2>2. Main.cont = "startup" /\ mPump # NoPump /\ Current.pc = "new"
    BY <1>a, <2>1
    DEF AloneInv, MainInv, Idles, Starts, Ends, Retries, Shuts, Kills, Killing, ThreadType
  <2>3. Return("main") /\ UNCHANGED fault
    BY <1>8, <2>2 DEF StartPump, Current
  <2>4. SessionPhase' = "live" /\ UNCHANGED SessionTries
    BY <1>a, <1>d, <1>f, <2>1, <2>2, <2>3, MainReturns, PhaseIsNext DEF Alive
  <2> QED
    BY <1>d, <2>4 DEF S!vars
<1> QED
  BY <1>1, <1>2, <1>3, <1>4, <1>5, <1>6, <1>7, <1>8 DEF Resume

LEMMA MainCalled ==
  ASSUME TypeOK, NEW k, CallKill("main", k)
  PROVE  Main'.at = "enter" /\ Main'.cont = k
<1> DEFINE e == [Main EXCEPT !.at = "enter", !.cont = k]
<1>1. Main' = e
  BY Typed, MainSet DEF CallKill, Main
<1> QED
  BY <1>1, Typed DEF ThreadType

\* A message is taken: behind it there is no STARTUP.
LEMMA TakenNotAhead ==
  ASSUME TypeOK, AloneInv, inbox # <<>>, inbox' = Tail(inbox)
  PROVE  ~Ahead'
<1> SUFFICES ASSUME Ahead'
             PROVE  FALSE
  OBVIOUS
<1>1. Tail(inbox) # <<>> /\ Head(Tail(inbox)) = inbox[2] /\ 2 \in DOMAIN inbox /\ Len(inbox) > 1
  BY Typed DEF Ahead
<1>2. inbox[2].what = "STARTUP"
  BY <1>1 DEF Ahead
<1> QED
  BY <1>1, <1>2 DEF AloneInv, QueueInv, Unstarted

\* CONNECTED, STARTUP and RECONNECT are what Session calls so; the rest is not
\* seen by it, but for data a connection that is closed cannot process.
LEMMA HandleSimulates ==
  ASSUME TypeOK, AloneInv, Handle
  PROVE  S!Next \/ UNCHANGED S!vars
<1>a. Alive /\ Main.at = "idle" /\ Main.cont = "none" /\ Main = thread["main"]
      /\ inbox \in Seq(Message) /\ Nobody
  <2>1. Alive /\ Main.at = "idle"
    BY DEF Handle, HandleConnected, HandleTerminated, HandleDisconnected, HandleDialog,
           HandleProcess, HandleSendData, HandleSendOptionData, HandleStartCompress, HandleXfer,
           HandleStartup, HandleReconnect, Receive, At, Main
  <2> QED
    BY <2>1, Typed DEF AloneInv, MainInv, Idles, Main
<1>b. \A w : Receive(w, <<>>) => inbox # <<>> /\ Head(inbox).what = w /\ inbox' = Tail(inbox)
  BY <1>a DEF Receive
<1>c. SessionTries = mAutoReconnectAttempt
  BY <1>a, PhaseIs
<1>1. CASE HandleConnected
  <2>1. inbox # <<>> /\ Head(inbox).what = "CONNECTED" /\ inbox' = Tail(inbox)
        /\ UNCHANGED <<mPump, thread>>
    BY <1>1, <1>b DEF HandleConnected
  <2>2. mPump # NoPump /\ mHandler
    <3>1. 1 \in DOMAIN inbox /\ inbox[1].what = "CONNECTED"
      BY <1>a, <2>1
    <3> QED
      BY <3>1 DEF AloneInv, QueueInv, NewsFresh, IsNews, HasEnded
  <2>3. mAutoReconnectAttempt' = 0 /\ UNCHANGED fault
    BY <1>1, <2>2 DEF HandleConnected
  <2>4. SessionPhase = "live" /\ SessionPhase' = "live" /\ SessionTries' = 0
    BY <1>a, <2>1, <2>2, <2>3, TakenNotAhead, PhaseIs, PhaseIsNext DEF Alive, Ahead, Main
  <2> QED
    BY <2>4 DEF S!Next, S!Connected, S!Become
<1>2. ASSUME NEW k \in {"terminated", "disconnected", "dialog"}, CallKill("main", k),
             inbox # <<>>, Head(inbox).what \in Terminal \union {"DODIALOG"},
             inbox' = Tail(inbox), UNCHANGED <<mPump, fault>>,
             mAutoReconnectAttempt'
                = IF k = "dialog" THEN mAutoReconnectAttempt + 1 ELSE mAutoReconnectAttempt
      PROVE  UNCHANGED S!vars
  <2>1. mPump # NoPump
    BY <1>2, EndIsLast
  <2>3. ~Ahead /\ ~Ahead'
    BY <1>a, <1>2, TakenNotAhead DEF Ahead, Terminal
  <2>4. Main'.at = "enter" /\ Main'.cont = k
    BY <1>2, MainCalled
  <2>5. SessionPhase = "live"
    BY <1>a, <2>1, <2>3, PhaseIs
  <2>6. Alive' /\ mPump' # NoPump
    BY <1>a, <1>2, <2>1 DEF Alive
  <2>7. SessionPhase' = "live"
    BY <2>3, <2>6, PhaseIsNext
  <2>8. mAutoReconnectAttempt \in Nat
    BY Typed
  <2>9. SessionTries' = mAutoReconnectAttempt
    BY <1>2, <2>4, <2>6, <2>8, PhaseIsNext
  <2>2. SessionPhase = "live" /\ SessionPhase' = "live" /\ SessionTries' = mAutoReconnectAttempt
    BY <2>5, <2>7, <2>9
  <2> QED
    BY <1>c, <2>2 DEF S!vars
<1>3. CASE HandleTerminated
  <2>1. inbox # <<>> /\ Head(inbox).what = "TERMINATED_BY_PEER" /\ inbox' = Tail(inbox)
    BY <1>3, <1>b DEF HandleTerminated
  <2>2. mHandler
    BY <2>1, EndIsLast DEF Terminal
  <2> QED
    BY <1>2, <1>3, <2>1, <2>2 DEF HandleTerminated, conn, Terminal
<1>4. CASE HandleDisconnected
  BY <1>b, <1>2, <1>4 DEF HandleDisconnected, conn, Terminal
<1>5. CASE HandleDialog
  <2>1. inbox # <<>> /\ Head(inbox).what = "DODIALOG" /\ inbox' = Tail(inbox)
        /\ UNCHANGED <<mPump, fault, reconnects>>
    BY <1>5, <1>b DEF HandleDialog
  <2>2. CASE mHandler /\ MayRetry
    BY <1>2, <1>5, <2>1, <2>2 DEF HandleDialog
  <2>3. CASE ~(mHandler /\ MayRetry)
    <3>1. UNCHANGED <<mAutoReconnectAttempt, thread>>
      BY <1>5, <2>3 DEF HandleDialog
    <3>2. ~Ahead /\ ~Ahead'
      BY <2>1, TakenNotAhead DEF Ahead
    <3> QED
      BY <2>1, <3>1, <3>2, Unseen
  <2> QED
    BY <2>2, <2>3
<1>6. CASE HandleProcess
  <2>1. inbox # <<>> /\ Head(inbox).what = "PROCESS" /\ inbox' = Tail(inbox)
        /\ UNCHANGED <<mPump, mAutoReconnectAttempt, reconnects, thread>>
        /\ (UNCHANGED fault \/ fault' = "processor")
    BY <1>6, <1>a DEF HandleProcess, conn, Crash, Nobody
  <2>2. ~Ahead /\ ~Ahead'
    BY <2>1, TakenNotAhead DEF Ahead
  <2>3. CASE UNCHANGED fault
    BY <2>1, <2>2, <2>3, Unseen
  <2>4. CASE fault' = "processor"
    <3>1. SessionPhase \in {"live", "waiting", "over"} /\ SessionPhase' = "crashed"
          /\ UNCHANGED SessionTries
      BY <1>a, <2>1, <2>2, <2>4 DEF SessionPhase, SessionTries, Alive, Ahead, Working
    <3> QED
      BY <3>1 DEF S!Next, S!Crash
  <2> QED
    BY <2>1, <2>3, <2>4
<1>7. ~HandleSendData /\ ~HandleSendOptionData /\ ~HandleStartCompress /\ ~HandleXfer
  <2>1. inbox # <<>> =>
          Head(inbox).what \notin {"SENDDATA", "SENDOPTIONDATA", "STARTCOMPRESS", "XFER"}
    BY <1>a DEF AloneInv, QueueInv, InboxKinds, IsNews, Terminal
  <2> QED
    BY <2>1 DEF HandleSendData, HandleSendOptionData, HandleStartCompress, HandleXfer, Receive
<1>8. CASE HandleStartup
  <2>1. Ahead /\ inbox # <<>> /\ inbox' = Tail(inbox) /\ CallKill("main", "startup")
        /\ UNCHANGED <<mPump, mAutoReconnectAttempt, fault>>
    BY <1>8, <1>b DEF HandleStartup, Ahead, conn
  <2>2. SessionPhase = "starting" /\ SessionPhase' = "live" /\ UNCHANGED SessionTries
    BY <1>a, <1>c, <2>1, TakenNotAhead, MainCalled, PhaseIs, PhaseIsNext DEF Alive
  <2> QED
    BY <2>2 DEF S!Next, S!Start, S!Become
<1>9. CASE HandleReconnect
  <2>1. reconnects > 0 /\ DoReconnect("main") /\ UNCHANGED inbox
    BY <1>9 DEF HandleReconnect
  <2>2. mPump = NoPump /\ ~Ahead /\ ~Ahead'
    BY <2>1, AheadIdle DEF AloneInv, Waits, Ahead
  <2>3. CallKill("main", "startup") /\ UNCHANGED <<mAutoReconnectAttempt, fault>>
    BY <2>1 DEF DoReconnect
  <2>4. SessionPhase = "waiting" /\ SessionPhase' = "live" /\ UNCHANGED SessionTries
    BY <1>a, <1>c, <2>1, <2>2, <2>3, MainCalled, PhaseIs, PhaseIsNext DEF Alive
  <2> QED
    BY <2>4 DEF S!Next, S!Retry, S!Become
<1> QED
  BY <1>1, <1>3, <1>4, <1>5, <1>6, <1>7, <1>8, <1>9 DEF Handle

LEMMA NextSimulates ==
  ASSUME Alone, TypeOK, AloneInv, [Next]_vars
  PROVE  [S!Next]_(S!vars)
<1>a. thread["binder"].at = "idle" /\ left.sends = 0
  BY DEF AloneInv, Nobody
<1>1. ~Kill("binder") /\ ~Resume("binder")
  BY <1>a
  DEF Kill, KillReturnsAtOnce, KillSkipsInit, KillFlags, KillSocket, KillClear, KillEnd,
      KillWaits, KillLosesPump, KillJoined, KillFinish, Resume, DisconnectedRetry, DisconnectedNotify, DisconnectedTooLate,
      Notify, ShutdownDone, DialogRetry, Create, StartPump, After, At
<1>2. ~User
  BY <1>a
  DEF Alone, User, InitXfer, EndXfer, Reconnect, CloseConnection, TypeCommand, UserCall
<1>3. CASE UNCHANGED vars
  BY <1>3 DEF vars, conn, queue, S!vars, SessionPhase, SessionTries, Alive, Working
<1>4. CASE Kill("main") \/ Resume("main") \/ Handle
  BY <1>4, KillSimulates, ResumeSimulates, HandleSimulates
<1>5. ASSUME NEW q \in Pumps, Pumper(q) \/ Writer(q) \/ Peer(q)
      PROVE  [S!Next]_(S!vars)
  BY <1>5, PumperSimulates
<1> QED
  BY <1>1, <1>2, <1>3, <1>4, <1>5 DEF Next, Threads

\* When nobody interferes the threads do nothing but what Session allows, step by
\* step: one start, at most mAutoReconnectLimit tries between two connects, no
\* session after the end.  (That a retry Session promises is made is left to
\* ImplementsSession.)
THEOREM StepsOfSession == Alone => (Spec => S!Init /\ [][S!Next]_(S!vars))
<1> SUFFICES ASSUME Alone
             PROVE  Spec => S!Init /\ [][S!Next]_(S!vars)
  OBVIOUS
<1>1. Init => S!Init
  BY DEF Init, S!Init, SessionPhase, SessionTries, Alive, Working, Msg, Threads
<1>2. TypeOK /\ AloneInv /\ [Next]_vars => [S!Next]_(S!vars)
  BY NextSimulates
<1> QED
  BY <1>1, <1>2, AloneInvariant, PTL DEF Spec
=============================================================================
