----------------------------- MODULE Service_proofs -----------------------------
(***************************************************************************)
(* Proofs about Service: the notifications of a service with any number of *)
(* displays and any number of calls, losses and closes.                    *)
(***************************************************************************)
EXTENDS Service, SequenceTheorems, FiniteSetTheorems, TLAPS

(***************************************************************************)
(* The inductive invariant: the status bar, the notification that keeps    *)
(* the process in the foreground, and who may still bring one back.        *)
(***************************************************************************)
BarInv ==
    /\ StatusBarAgrees
    /\ ~mHasForegroundNotification =>
         notificationCount = 0 /\ mForegroundNotificationId = 0 /\ foreground = 0 /\ ~emptied
    /\ mHasForegroundNotification /\ ~emptied =>
         mForegroundNotificationId \in Ids /\ foreground = mForegroundNotificationId
    /\ emptied =>
         mHasForegroundNotification /\ foreground = 0 /\ mForegroundNotificationId \notin Ids

Fresh(q, U) == \A i \in DOMAIN q :
    q[i].what \in {"START", "LOST"} /\ ~q[i].stale => q[i].display \in U

SessionInv ==
    /\ Fresh(queue, Usable)
    /\ pump \subseteq Usable
    /\ starting # None => (orphan <=> starting \notin Usable)
    /\ pump \subseteq Noted \cup {starting}
    /\ Noted \subseteq Usable \cup leaked

IInv == TypeOK /\ BarInv /\ SessionInv

(***************************************************************************)
(* TypeOK in parts.                                                        *)
(***************************************************************************)
BarType ==
    /\ mConnectionNotificationIdMap \in [Displays -> 0 .. notificationCount]
    /\ mHasForegroundNotification \in BOOLEAN
    /\ mForegroundNotificationId \in 0 .. notificationCount
    /\ notificationCount \in Nat /\ foreground \in 0 .. notificationCount
    /\ shown \subseteq 1 .. notificationCount /\ emptied \in BOOLEAN

MapsType ==
    /\ mConnections \subseteq Displays /\ mConnectionClutch \in Displays \cup {None}
    /\ starting \in Displays \cup {None} /\ orphan \in BOOLEAN /\ leaked \subseteq Displays

ClientType ==
    /\ window \in Displays \cup {None} /\ inits \in 0 .. 2
    /\ dialog \in Displays \cup {None} /\ ops \in 0 .. MaxOps /\ fault \in BOOLEAN
    /\ call \in [next : {"idle", "close", "exit", "leave"}, display : Displays \cup {None}]

LEMMA TypeParts ==
    TypeOK <=> BarType /\ MapsType /\ ClientType /\ queue \in Seq(Message) /\ pump \subseteq mConnections
  BY DEF TypeOK, BarType, MapsType, ClientType

(***************************************************************************)
(* The notifications.                                                      *)
(***************************************************************************)
\* What a step that leaves the notifications alone keeps.
LEMMA BarKept ==
  ASSUME BarType, BarInv, UNCHANGED notices
  PROVE  BarType' /\ BarInv' /\ Noted' = Noted
  BY DEF BarType, BarInv, StatusBarAgrees, Noted, Ids, IdOf, notices

\* showConnectionNotification() shows the display, whatever was shown before.
LEMMA BarShown ==
  ASSUME BarType, BarInv, NEW d \in Displays, showConnectionNotification(d)
  PROVE  BarType' /\ BarInv' /\ Noted' = Noted \cup {d}
<1>1. CASE IdOf(d) # 0 /\ UNCHANGED notices
  <2>1. d \in Noted
    BY <1>1 DEF Noted
  <2> QED
    BY <1>1, <2>1, BarKept
<1>2. CASE IdOf(d) = 0 /\ notificationCount' = NextId
  <2>1. /\ mConnectionNotificationIdMap' = [mConnectionNotificationIdMap EXCEPT ![d] = NextId]
        /\ shown' = shown \cup {NextId} /\ emptied' = emptied
        /\ IF mHasForegroundNotification
           THEN UNCHANGED <<mHasForegroundNotification, mForegroundNotificationId, foreground>>
           ELSE /\ mHasForegroundNotification' = TRUE
                /\ mForegroundNotificationId' = NextId /\ foreground' = NextId
    BY <1>2 DEF showConnectionNotification, notices
  <2>2. NextId \in Nat /\ NextId = notificationCount + 1 /\ NextId # 0
    BY DEF NextId, BarType
  <2>3. \A e \in Displays : IdOf(e) \in 0 .. notificationCount /\ IdOf(e) # NextId
    BY <2>2 DEF IdOf, BarType
  <2>4. \A e \in Displays : IdOf(e)' = IF e = d THEN NextId ELSE IdOf(e)
    BY <2>1 DEF IdOf, BarType
  <2>5. Noted' = Noted \cup {d}
    BY <2>2, <2>4 DEF Noted
  <2>6. Ids' = Ids \cup {NextId}
    BY <1>2, <2>4, <2>5 DEF Ids, Noted
  <2>7. NextId \notin Ids /\ Ids \subseteq 0 .. notificationCount
    BY <2>3 DEF Ids, Noted
  <2>8. BarType'
    <3>1. mConnectionNotificationIdMap' \in [Displays -> 0 .. notificationCount']
      BY <1>2, <2>1, <2>2 DEF BarType
    <3>2. mForegroundNotificationId' \in 0 .. notificationCount'
      BY <1>2, <2>1, <2>2 DEF BarType
    <3>3. foreground' \in 0 .. notificationCount'
      BY <1>2, <2>1, <2>2 DEF BarType
    <3>4. shown' \subseteq 1 .. notificationCount'
      BY <1>2, <2>1, <2>2 DEF BarType
    <3>5. notificationCount' \in Nat
      BY <1>2, <2>2
    <3>6. mHasForegroundNotification' \in BOOLEAN /\ emptied' \in BOOLEAN
      BY <2>1, Zenon DEF BarType
    <3> QED
      BY <3>1, <3>2, <3>3, <3>4, <3>5, <3>6 DEF BarType
  <2>9. StatusBarAgrees'
    BY <2>1, <2>3, <2>4, <2>5, <2>6 DEF StatusBarAgrees, BarInv, Noted
  <2>10. ~mHasForegroundNotification => Ids = {} /\ ~emptied
    <3>1. ~mHasForegroundNotification => \A e \in Displays : IdOf(e) = 0
      BY <2>3 DEF BarInv
    <3> QED
      BY <3>1 DEF Ids, Noted, BarInv
  <2>11. BarInv'
    BY <2>1, <2>2, <2>6, <2>7, <2>9, <2>10 DEF BarInv, BarType
  <2> QED
    BY <2>5, <2>8, <2>11
<1> QED
  BY <1>1, <1>2 DEF showConnectionNotification

\* removeConnectionNotification() takes the display's away and no other, and keeps
\* one of those that are left in the foreground.
LEMMA BarRemoved ==
  ASSUME BarType, BarInv, NEW d \in Displays, removeConnectionNotification(d),
         mConnectionClutch \in Displays \cup {None}
  PROVE  /\ BarType' /\ BarInv' /\ Noted' = Noted \ {d}
         /\ mConnectionClutch' \in Displays \cup {None}
<1>1. CASE IdOf(d) = 0 /\ UNCHANGED <<notices, mConnectionClutch>>
  <2>1. d \notin Noted
    BY <1>1 DEF Noted
  <2> QED
    BY <1>1, <2>1, BarKept
<1>2. CASE /\ IdOf(d) # 0 /\ Forget(d)
           /\ CancelNotice(d) \/ LastNotice(d) \/ NextNotice(d)
           /\ UNCHANGED <<mHasForegroundNotification, notificationCount>>
  <2>1. \A e \in Displays : IdOf(e)' = IF e = d THEN 0 ELSE IdOf(e)
    BY <1>2 DEF IdOf, BarType, Forget
  <2>2. Noted' = Noted \ {d} /\ d \in Noted
    BY <1>2, <2>1 DEF Noted
  <2>3. Ids' = Ids \ {IdOf(d)}
    BY <2>1, <2>2 DEF Ids, Noted, BarInv, StatusBarAgrees
  <2>4. \A e \in Displays : IdOf(e) \in 0 .. notificationCount
    BY DEF IdOf, BarType
  <2>5. \A e, f \in Noted' : IdOf(e)' = IdOf(f)' => e = f
    BY <2>1, <2>2 DEF BarInv, StatusBarAgrees, Noted
  <2>6. mConnectionNotificationIdMap' \in [Displays -> 0 .. notificationCount']
    BY <1>2 DEF Forget, BarType
  <2>7. mHasForegroundNotification
    BY <1>2, <2>4 DEF BarInv
  <2>8. shown = Ids /\ IdOf(d) \in Ids /\ Ids \subseteq 1 .. notificationCount
    BY <2>2, <2>4 DEF BarInv, StatusBarAgrees, Ids, Noted
  <2>9. CASE CancelNotice(d)
    <3>1. shown' = Ids'
      BY <2>3, <2>8, <2>9 DEF CancelNotice
    <3>2. StatusBarAgrees'
      BY <2>5, <3>1 DEF StatusBarAgrees
    <3>3. BarType'
      BY <1>2, <2>6, <2>9 DEF BarType, CancelNotice
    <3>4. BarInv'
      BY <1>2, <2>3, <2>7, <2>9, <3>2 DEF BarInv, CancelNotice
    <3> QED
      BY <2>2, <2>9, <3>3, <3>4 DEF CancelNotice
  <2>10. CASE LastNotice(d)
    <3>1. ~emptied /\ foreground = IdOf(d) /\ Ids' = {}
      BY <2>1, <2>2, <2>7, <2>8, <2>10 DEF LastNotice, BarInv, Ids, Noted
    <3>2. shown' = Ids'
      BY <2>3, <2>8, <2>10, <3>1 DEF LastNotice
    <3>3. StatusBarAgrees'
      BY <2>5, <3>2 DEF StatusBarAgrees
    <3>4. BarType'
      BY <1>2, <2>6, <2>10 DEF BarType, LastNotice
    <3>5. BarInv'
      BY <1>2, <2>7, <2>10, <3>1, <3>3 DEF BarInv, LastNotice
    <3> QED
      BY <2>2, <2>10, <3>4, <3>5 DEF LastNotice
  <2>11. CASE NextNotice(d)
    <3>1. PICK e \in Noted \ {d} :
            /\ mConnectionClutch' = e /\ mForegroundNotificationId' = IdOf(e)
            /\ foreground' = IdOf(e)
            /\ shown' = (shown \ {foreground, IdOf(e)}) \cup {IdOf(e)}
      BY <2>11 DEF NextNotice
    <3>2. emptied' = emptied /\ IdOf(d) = mForegroundNotificationId
      BY <2>11 DEF NextNotice
    <3>3. ~emptied /\ foreground = IdOf(d)
      BY <2>7, <2>8, <3>2 DEF BarInv
    <3>4. e \in Displays /\ IdOf(e) \in Ids /\ IdOf(e) # IdOf(d)
      BY <2>2 DEF Noted, Ids, BarInv, StatusBarAgrees
    <3>5. IdOf(e) \in Ids' /\ shown' = Ids'
      BY <2>3, <2>8, <3>1, <3>3, <3>4
    <3>6. StatusBarAgrees'
      BY <2>5, <3>5 DEF StatusBarAgrees
    <3>7. IdOf(e) \in 0 .. notificationCount /\ shown' \subseteq 1 .. notificationCount
      BY <2>3, <2>4, <2>8, <3>4, <3>5
    <3>8. BarType'
      BY <1>2, <2>6, <3>1, <3>2, <3>7 DEF BarType
    <3>9. BarInv'
      BY <1>2, <2>7, <3>1, <3>2, <3>3, <3>5, <3>6 DEF BarInv
    <3> QED
      BY <2>2, <3>1, <3>4, <3>8, <3>9
  <2> QED
    BY <1>2, <2>9, <2>10, <2>11
<1> QED
  BY <1>1, <1>2 DEF removeConnectionNotification

(***************************************************************************)
(* The queue.                                                              *)
(***************************************************************************)
LEMMA TailQueue ==
  ASSUME NEW q \in Seq(Message), q # <<>>, NEW U
  PROVE  /\ Head(q) \in Message /\ Tail(q) \in Seq(Message)
         /\ Fresh(q, U) => Fresh(Tail(q), U)
<1>1. /\ Head(q) \in Message /\ Tail(q) \in Seq(Message)
      /\ \A i \in DOMAIN Tail(q) : i + 1 \in DOMAIN q /\ Tail(q)[i] = q[i + 1]
  OBVIOUS
<1> QED
  BY <1>1 DEF Fresh

LEMMA AppendQueue ==
  ASSUME NEW q \in Seq(Message), NEW m \in Message, NEW U
  PROVE  /\ Append(q, m) \in Seq(Message)
         /\ Fresh(q, U) /\ (m.what \in {"START", "LOST"} => m.display \in U)
            => Fresh(Append(q, m), U)
<1>1. /\ Append(q, m) \in Seq(Message) /\ DOMAIN Append(q, m) = DOMAIN q \cup {Len(q) + 1}
      /\ Append(q, m)[Len(q) + 1] = m /\ \A i \in DOMAIN q : Append(q, m)[i] = q[i]
  OBVIOUS
<1> QED
  BY <1>1 DEF Fresh

\* After a shutdown no message in the queue acts on the display.
LEMMA OutlivedQueue ==
  ASSUME NEW q \in Seq(Message), NEW d \in Displays, NEW U
  PROVE  /\ Outlived(q, d) \in Seq(Message)
         /\ Fresh(q, U) => Fresh(Outlived(q, d), U \ {d})
<1>1. /\ DOMAIN Outlived(q, d) = 1 .. Len(q) /\ Len(q) \in Nat
      /\ \A i \in 1 .. Len(q) : q[i] \in Message
      /\ \A i \in 1 .. Len(q) :
           Outlived(q, d)[i] = IF q[i].what \in {"START", "LOST"} /\ q[i].display = d
                               THEN [q[i] EXCEPT !.stale = TRUE] ELSE q[i]
  <2>1. DOMAIN q = 1 .. Len(q) /\ Len(q) \in Nat /\ \A i \in 1 .. Len(q) : q[i] \in Message
    OBVIOUS
  <2> QED
    BY <2>1, Zenon DEF Outlived
<1>2. \A m \in Message : m.what \in {"START", "LOST"} =>
        [m EXCEPT !.stale = TRUE] \in Message /\ [m EXCEPT !.stale = TRUE].stale
  BY DEF Message
<1>3. ASSUME NEW i \in 1 .. Len(q)
      PROVE  Outlived(q, d)[i] \in Message
  <2>1. q[i] \in Message
    BY <1>1
  <2>2. CASE q[i].what \in {"START", "LOST"} /\ q[i].display = d
    <3>1. Outlived(q, d)[i] = [q[i] EXCEPT !.stale = TRUE]
      BY <1>1, <2>2, Zenon
    <3> QED
      BY <1>2, <2>1, <2>2, <3>1, Zenon
  <2>3. CASE ~(q[i].what \in {"START", "LOST"} /\ q[i].display = d)
    <3>1. Outlived(q, d)[i] = q[i]
      BY <1>1, <2>3, Zenon
    <3> QED
      BY <2>1, <3>1
  <2> QED
    BY <2>2, <2>3
<1>4. Outlived(q, d) \in [1 .. Len(q) -> Message]
  BY <1>1, <1>3 DEF Outlived
<1>5. Outlived(q, d) \in Seq(Message)
  BY <1>1, <1>4, SeqDef
<1>6. ASSUME Fresh(q, U), NEW i \in 1 .. Len(q), Outlived(q, d)[i].what \in {"START", "LOST"},
             ~Outlived(q, d)[i].stale
      PROVE  Outlived(q, d)[i].display \in U \ {d}
  <2>1. q[i] \in Message /\ i \in DOMAIN q
    BY <1>1
  <2>2. q[i].what \in {"START", "LOST"} => [q[i] EXCEPT !.stale = TRUE].stale
    BY <1>2, <2>1
  <2>3. ~(q[i].what \in {"START", "LOST"} /\ q[i].display = d)
    BY <1>1, <1>6, <2>2, Zenon
  <2>4. Outlived(q, d)[i] = q[i]
    BY <1>1, <2>3, Zenon
  <2>5. q[i].display \in U
    BY <1>6, <2>1, <2>4 DEF Fresh
  <2> QED
    BY <1>6, <2>3, <2>4, <2>5
<1> QED
  BY <1>1, <1>5, <1>6 DEF Fresh

\* More usable connections keep the messages good.
LEMMA FreshGrows ==
  ASSUME NEW q, NEW U, NEW W, U \subseteq W, Fresh(q, U)
  PROVE  Fresh(q, W)
  BY DEF Fresh

(***************************************************************************)
(* The initial states.                                                     *)
(***************************************************************************)
LEMMA InitInv ==
  ASSUME Init
  PROVE  IInv
<1>1. Noted = {} /\ Ids = {}
  BY DEF Init, Noted, Ids, IdOf
<1>2. BarType
  <2>1. /\ mConnectionNotificationIdMap = [d \in Displays |-> 0]
        /\ mForegroundNotificationId = 0
        /\ notificationCount = 0 /\ shown = {} /\ foreground = 0
    BY Zenon DEF Init
  <2>2. mHasForegroundNotification \in BOOLEAN /\ emptied \in BOOLEAN
    BY Zenon DEF Init
  <2> QED
    BY <2>1, <2>2 DEF BarType
<1>3. StatusBarAgrees
  BY <1>1 DEF Init, StatusBarAgrees
<1>4. BarInv
  BY <1>3 DEF Init, BarInv
<1>5. MapsType
  BY DEF Init, MapsType
<1>6. call \in [next : {"idle", "close", "exit", "leave"}, display : Displays \cup {None}]
  BY DEF Init, Idle
<1>7. ClientType
  <2>1. window = None /\ inits = 0 /\ dialog = None /\ ops = MaxOps /\ fault \in BOOLEAN
    BY Zenon DEF Init
  <2>2. MaxOps \in 0 .. MaxOps
    BY ServiceAssumption
  <2> QED
    BY <1>6, <2>1, <2>2 DEF ClientType
<1>8. queue \in Seq(Message) /\ pump \subseteq mConnections /\ DOMAIN queue = {}
  BY DEF Init
<1>9. SessionInv
  BY <1>1, <1>8 DEF Init, SessionInv, Fresh
<1> QED
  BY <1>2, <1>4, <1>5, <1>7, <1>8, <1>9, TypeParts DEF IInv

(***************************************************************************)
(* The steps that leave the notifications alone.                           *)
(***************************************************************************)
LEMMA QuietStep ==
  ASSUME IInv, UNCHANGED notices, UNCHANGED main,
         MapsType', ClientType', queue' \in Seq(Message), Fresh(queue', Usable'),
         Usable \subseteq Usable', starting = None \/ Usable' = Usable, pump' \subseteq pump
  PROVE  IInv'
<1>1. BarType /\ BarInv /\ SessionInv
  BY TypeParts DEF IInv
<1>2. BarType' /\ BarInv' /\ Noted' = Noted
  BY <1>1, BarKept
<1>3. starting' = starting /\ orphan' = orphan /\ leaked' = leaked
  BY DEF main
<1>4. SessionInv'
  BY <1>1, <1>2, <1>3 DEF SessionInv
<1>5. pump' \subseteq mConnections'
  BY <1>4 DEF SessionInv, Usable
<1>6. TypeOK'
  BY <1>2, <1>5 DEF TypeOK, BarType, MapsType, ClientType
<1> QED
  BY <1>2, <1>4, <1>6 DEF IInv

\* The facts about a state that the steps are proved from.
LEMMA Facts ==
  ASSUME IInv
  PROVE  /\ MapsType /\ ClientType /\ queue \in Seq(Message) /\ BarType /\ BarInv
         /\ SessionInv /\ Fresh(queue, Usable)
  BY TypeParts DEF IInv, SessionInv

LEMMA CrashKeeps ==
  ASSUME IInv, Crash, queue' = Tail(queue), queue # <<>>
  PROVE  IInv'
<1>1. MapsType /\ ClientType /\ queue \in Seq(Message) /\ Fresh(queue, Usable)
  BY Facts
<1>2. Usable' = Usable
  BY DEF Crash, maps, client, Usable
<1>3. queue' \in Seq(Message) /\ Fresh(queue', Usable')
  BY <1>1, <1>2, TailQueue
<1>4. MapsType'
  BY <1>1 DEF Crash, maps, main, MapsType
<1>5. ClientType'
  BY <1>1 DEF Crash, client, ClientType
<1>6. UNCHANGED notices /\ UNCHANGED main /\ pump' \subseteq pump
  BY DEF Crash, maps
<1> QED
  BY <1>2, <1>3, <1>4, <1>5, <1>6, QuietStep

LEMMA NewConnectionKeeps ==
  ASSUME IInv, NewConnection
  PROVE  IInv'
<1> DEFINE d == Head(queue).display
<1>1. MapsType /\ ClientType /\ queue \in Seq(Message) /\ Fresh(queue, Usable)
  BY Facts
<1>2. queue # <<>> /\ starting = None /\ queue' = Tail(queue)
  BY DEF NewConnection, Looping
<1>3. d \in Displays /\ queue' \in Seq(Message) /\ Fresh(queue', Usable)
  <2>1. Head(queue) \in Message /\ Head(queue).what = "NEW"
    BY <1>1, <1>2, TailQueue DEF NewConnection, Looping
  <2>2. d \in Displays
    BY <2>1 DEF Message
  <2> QED
    BY <1>1, <1>2, <2>2, TailQueue
<1>4. Usable \subseteq Usable'
  BY DEF NewConnection, Usable
<1>5. Fresh(queue', Usable')
  BY <1>3, <1>4, FreshGrows
<1>6. MapsType'
  BY <1>1, <1>3 DEF NewConnection, main, MapsType
<1>7. ClientType'
  BY <1>1 DEF NewConnection, Announce, ClientType
<1>8. UNCHANGED notices /\ UNCHANGED main /\ pump' \subseteq pump
  BY DEF NewConnection
<1> QED
  BY <1>2, <1>3, <1>4, <1>5, <1>6, <1>7, <1>8, QuietStep

LEMMA SwitchKeeps ==
  ASSUME IInv, switchTo
  PROVE  IInv'
<1>1. MapsType /\ ClientType /\ queue \in Seq(Message) /\ Fresh(queue, Usable)
  BY Facts
<1>2. queue # <<>> /\ queue' = Tail(queue) /\ Usable' = Usable
  BY DEF switchTo, Looping, Usable
<1>3. queue' \in Seq(Message) /\ Fresh(queue', Usable') /\ Head(queue) \in Message
  BY <1>1, <1>2, TailQueue
<1>4. MapsType'
  BY <1>1, <1>3 DEF switchTo, main, MapsType, Message
<1>5. ClientType'
  BY <1>1 DEF switchTo, Announce, ClientType
<1>6. UNCHANGED notices /\ UNCHANGED main /\ pump' \subseteq pump
  BY DEF switchTo
<1> QED
  BY <1>2, <1>3, <1>4, <1>5, <1>6, QuietStep

LEMMA StartupKeeps ==
  ASSUME IInv, Startup
  PROVE  IInv'
<1>1. MapsType /\ ClientType /\ queue \in Seq(Message) /\ Fresh(queue, Usable)
  BY Facts
<1>2. queue # <<>>
  BY DEF Startup, Looping
<1>3. CASE mConnectionClutch \notin Usable /\ queue' = Tail(queue) /\ Crash
  BY <1>2, <1>3, CrashKeeps
<1>4. CASE /\ mConnectionClutch \in Usable
           /\ queue' = IF mConnectionClutch \in pump THEN Tail(queue)
                       ELSE Append(Tail(queue), Msg("START", mConnectionClutch))
           /\ UNCHANGED <<maps, notices, main, client, fault, ops>>
  <2>1. Tail(queue) \in Seq(Message) /\ Fresh(Tail(queue), Usable)
    BY <1>1, <1>2, TailQueue
  <2>2. Msg("START", mConnectionClutch) \in Message
    BY <1>1, <1>4 DEF Msg, Message, Usable, MapsType
  <2>3. Msg("START", mConnectionClutch).display \in Usable
    BY <1>4 DEF Msg
  <2>4. /\ Append(Tail(queue), Msg("START", mConnectionClutch)) \in Seq(Message)
        /\ Fresh(Append(Tail(queue), Msg("START", mConnectionClutch)), Usable)
    BY <2>1, <2>2, <2>3, AppendQueue
  <2>5. queue' \in Seq(Message) /\ Fresh(queue', Usable)
    BY <1>4, <2>1, <2>4
  <2>6. Usable' = Usable /\ pump' \subseteq pump
    BY <1>4 DEF maps, client, Usable
  <2>7. MapsType'
    BY <1>1, <1>4 DEF maps, main, MapsType
  <2>8. ClientType'
    BY <1>1, <1>4 DEF client, ClientType
  <2> QED
    BY <1>4, <2>5, <2>6, <2>7, <2>8, QuietStep
<1> QED
  BY <1>3, <1>4 DEF Startup

LEMMA ReloadKeeps ==
  ASSUME IInv, Reload
  PROVE  IInv'
<1>1. MapsType /\ ClientType /\ queue \in Seq(Message) /\ Fresh(queue, Usable)
  BY Facts
<1>2. queue # <<>> /\ queue' = Tail(queue)
  BY DEF Reload, Looping
<1>3. CASE Crash
  BY <1>2, <1>3, CrashKeeps
<1>4. CASE /\ inits' = IF window # None THEN 2 ELSE inits
           /\ UNCHANGED <<maps, notices, main, window, dialog, call, fault, ops>>
  <2>1. Usable' = Usable /\ pump' \subseteq pump
    BY <1>4 DEF maps, Usable
  <2>2. queue' \in Seq(Message) /\ Fresh(queue', Usable')
    BY <1>1, <1>2, <2>1, TailQueue
  <2>3. MapsType'
    BY <1>1, <1>4 DEF maps, main, MapsType
  <2>4. ClientType'
    BY <1>1, <1>4 DEF ClientType
  <2> QED
    BY <1>4, <2>1, <2>2, <2>3, <2>4, QuietStep
<1> QED
  BY <1>3, <1>4 DEF Reload

(***************************************************************************)
(* The steps of a start, a loss and a close.                               *)
(***************************************************************************)
LEMMA StartBeginsKeeps ==
  ASSUME IInv, StartBegins
  PROVE  IInv'
<1> DEFINE m == Head(queue)
<1>1. /\ MapsType /\ ClientType /\ queue \in Seq(Message) /\ BarType /\ BarInv
      /\ SessionInv /\ Fresh(queue, Usable)
  BY Facts
<1>2. queue # <<>> /\ queue' = Tail(queue) /\ starting = None /\ m.what = "START"
  BY DEF StartBegins, Looping
<1>3. CASE Crash
  BY <1>2, <1>3, CrashKeeps
<1>4. CASE /\ ~m.stale
           /\ starting' = m.display /\ orphan' = FALSE /\ pump' = pump \cup {m.display}
           /\ UNCHANGED <<mConnections, mConnectionClutch, notices, leaked, client, fault, ops>>
  <2>1. m \in Message /\ queue' \in Seq(Message) /\ Fresh(queue', Usable)
    BY <1>1, <1>2, TailQueue
  <2>2. m.display \in Usable
    <3>1. 1 \in DOMAIN queue /\ queue[1] = m
      BY <1>1, <1>2
    <3> QED
      BY <1>1, <1>2, <1>4, <3>1 DEF Fresh
  <2>3. BarType' /\ BarInv' /\ Noted' = Noted
    BY <1>1, <1>4, BarKept
  <2>4. Usable' = Usable
    BY <1>4 DEF client, Usable
  <2>5. m.display \in Displays
    BY <1>1, <2>2 DEF Usable, MapsType
  <2>6. MapsType'
    BY <1>1, <1>4, <2>5 DEF MapsType
  <2>7. ClientType'
    BY <1>1, <1>4 DEF client, ClientType
  <2>8. SessionInv'
    <3>1. pump \subseteq Noted
      BY <1>1, <1>2, ServiceAssumption DEF SessionInv, Usable, MapsType
    <3>2. pump' \subseteq Usable' /\ pump' \subseteq Noted' \cup {starting'}
      BY <1>1, <1>4, <2>2, <2>3, <2>4, <3>1 DEF SessionInv
    <3>3. starting' # None => (orphan' <=> starting' \notin Usable')
      BY <1>4, <2>2, <2>4
    <3>4. Noted' \subseteq Usable' \cup leaked' /\ Fresh(queue', Usable')
      BY <1>1, <1>4, <2>1, <2>3, <2>4 DEF SessionInv
    <3> QED
      BY <3>2, <3>3, <3>4 DEF SessionInv
  <2>9. pump' \subseteq mConnections'
    BY <2>8 DEF SessionInv, Usable
  <2>10. TypeOK'
    BY <2>1, <2>3, <2>6, <2>7, <2>9 DEF TypeOK, BarType, MapsType, ClientType
  <2> QED
    BY <2>3, <2>8, <2>10 DEF IInv
<1> QED
  BY <1>3, <1>4 DEF StartBegins

LEMMA StartEndsKeeps ==
  ASSUME IInv, StartEnds
  PROVE  IInv'
<1>1. /\ MapsType /\ ClientType /\ queue \in Seq(Message) /\ BarType /\ BarInv
      /\ SessionInv /\ Fresh(queue, Usable)
  BY Facts
<1>2. /\ starting # None /\ starting \in Displays /\ starting' = None
      /\ UNCHANGED <<maps, queue, orphan, client, ops>>
  BY <1>1 DEF StartEnds, MapsType
<1>3. Usable' = Usable /\ pump' = pump
  BY <1>2 DEF maps, client, Usable
<1>4. /\ BarType' /\ BarInv' /\ fault' \in BOOLEAN
      /\ \/ /\ Noted' = Noted \cup {starting}
            /\ leaked' = IF orphan THEN leaked \cup {starting} ELSE leaked
         \/ orphan /\ Noted' = Noted /\ leaked' = leaked
  <2>1. CASE /\ showConnectionNotification(starting)
             /\ leaked' = IF orphan THEN leaked \cup {starting} ELSE leaked
             /\ UNCHANGED fault
    BY <1>1, <1>2, <2>1, BarShown DEF ClientType
  <2>2. CASE orphan /\ fault' = TRUE /\ UNCHANGED <<notices, leaked>>
    BY <1>1, <2>2, BarKept
  <2> QED
    BY <2>1, <2>2 DEF StartEnds
<1>5. MapsType'
  BY <1>1, <1>2, <1>4 DEF maps, MapsType
<1>6. ClientType'
  BY <1>1, <1>2, <1>4 DEF client, ClientType
<1>7. SessionInv'
  BY <1>1, <1>2, <1>3, <1>4 DEF SessionInv
<1>8. pump' \subseteq mConnections'
  BY <1>7 DEF SessionInv, Usable
<1>9. TypeOK'
  BY <1>1, <1>2, <1>4, <1>5, <1>6, <1>8 DEF TypeOK, BarType, MapsType, ClientType
<1> QED
  BY <1>4, <1>7, <1>9 DEF IInv

\* A shutdown takes the display out of everything that could still start it.
LEMMA ShutdownKeeps ==
  ASSUME IInv, NEW d \in Displays, NEW q \in Seq(Message), Fresh(q, Usable), shutdown(d, q),
         Usable' = Usable \ {d}, ClientType', UNCHANGED <<starting, leaked>>,
         mConnections' \subseteq mConnections, Usable' \subseteq mConnections'
  PROVE  IInv'
<1>1. /\ MapsType /\ ClientType /\ BarType /\ BarInv /\ SessionInv
  BY Facts
<1>2. /\ pump' = pump \ {d} /\ queue' = Outlived(q, d) /\ orphan' = (orphan \/ starting = d)
      /\ removeConnectionNotification(d)
  BY DEF shutdown
<1>3. BarType' /\ BarInv' /\ Noted' = Noted \ {d} /\ mConnectionClutch' \in Displays \cup {None}
  BY <1>1, <1>2, BarRemoved DEF MapsType
<1>4. queue' \in Seq(Message) /\ Fresh(queue', Usable')
  BY <1>2, OutlivedQueue
<1>5. orphan' \in BOOLEAN
  BY <1>2
<1>6. MapsType'
  BY <1>1, <1>3, <1>5 DEF MapsType
<1>7. starting' # None => (orphan' <=> starting' \notin Usable')
  BY <1>1, <1>2 DEF SessionInv
<1>8. SessionInv'
  BY <1>1, <1>2, <1>3, <1>4, <1>7 DEF SessionInv
<1>9. pump' \subseteq mConnections'
  BY <1>8 DEF SessionInv
<1>10. TypeOK'
  BY <1>3, <1>4, <1>6, <1>9 DEF TypeOK, BarType, MapsType, ClientType
<1> QED
  BY <1>3, <1>8, <1>10 DEF IInv

LEMMA LostKeeps ==
  ASSUME IInv, Lost
  PROVE  IInv'
<1> DEFINE m == Head(queue)
<1>1. /\ MapsType /\ ClientType /\ queue \in Seq(Message) /\ SessionInv /\ Fresh(queue, Usable)
  BY Facts
<1>2. queue # <<>> /\ starting = None /\ m.what = "LOST"
  BY DEF Lost, Looping
<1>3. UNCHANGED <<window, inits, call, fault, ops>>
  BY DEF Lost
<1>4. m \in Message /\ Tail(queue) \in Seq(Message) /\ Fresh(Tail(queue), Usable)
  BY <1>1, <1>2, TailQueue
<1>5. m.display \in Displays
  BY <1>2, <1>4 DEF Message
<1>6. CASE queue' = Tail(queue) /\ UNCHANGED <<maps, notices, main, dialog>>
  <2>1. Usable' = Usable /\ pump' \subseteq pump
    BY <1>3, <1>6 DEF maps, Usable
  <2>2. MapsType'
    BY <1>1, <1>6 DEF maps, main, MapsType
  <2>3. ClientType'
    BY <1>1, <1>3, <1>6 DEF ClientType
  <2> QED
    BY <1>4, <1>6, <2>1, <2>2, <2>3, QuietStep
<1>7. CASE ~m.stale /\ TellWindow(m.display)
  <2>1. /\ queue' = Tail(queue) /\ pump' \subseteq pump /\ dialog' = m.display
        /\ UNCHANGED <<mConnections, mConnectionClutch, notices, main>>
    BY <1>7 DEF TellWindow
  <2>2. Usable' = Usable
    BY <1>3, <2>1 DEF Usable
  <2>3. MapsType'
    BY <1>1, <2>1 DEF main, MapsType
  <2>4. ClientType'
    BY <1>1, <1>3, <1>5, <2>1 DEF ClientType
  <2> QED
    BY <1>4, <2>1, <2>2, <2>3, <2>4, QuietStep
<1>8. CASE ~m.stale /\ Drop(m.display)
  <2>1. /\ mConnections' = mConnections \ {m.display} /\ shutdown(m.display, Tail(queue))
        /\ UNCHANGED <<starting, leaked, dialog>>
    BY <1>8 DEF Drop
  <2>2. Usable' = Usable \ {m.display}
    BY <1>3, <2>1 DEF Usable
  <2>3. ClientType'
    BY <1>1, <1>3, <2>1 DEF ClientType
  <2>4. Usable' \subseteq mConnections' /\ mConnections' \subseteq mConnections
    BY <2>1 DEF Usable
  <2> QED
    BY <1>4, <1>5, <2>1, <2>2, <2>3, <2>4, ShutdownKeeps
<1> QED
  BY <1>6, <1>7, <1>8 DEF Lost

\* A close, while no other call is going on.
LEMMA CloseKeeps ==
  ASSUME IInv, NEW d \in Displays, NEW next \in {"close", "exit"}, Close(d, next),
         call.display = None, UNCHANGED <<window, inits, dialog, fault>>, ops' \in 0 .. MaxOps
  PROVE  IInv'
<1>1. MapsType /\ ClientType /\ queue \in Seq(Message) /\ Fresh(queue, Usable)
  BY Facts
<1>2. /\ shutdown(d, queue) /\ call' = [next |-> next, display |-> d]
      /\ UNCHANGED <<mConnections, starting, leaked>>
  BY DEF Close
<1>3. call'.display = d
  BY <1>2
<1>4. Usable' = Usable \ {d}
  BY <1>1, <1>2, <1>3, ServiceAssumption DEF Usable, MapsType
<1>5. ClientType'
  BY <1>1, <1>2 DEF ClientType
<1>6. Usable' \subseteq mConnections' /\ mConnections' \subseteq mConnections
  BY <1>2 DEF Usable
<1> QED
  BY <1>1, <1>2, <1>4, <1>5, <1>6, ShutdownKeeps

(***************************************************************************)
(* The calls of the window, and the end of a session.                      *)
(***************************************************************************)
LEMMA OpCounts ==
  ASSUME ops \in 0 .. MaxOps, Op
  PROVE  ops' \in 0 .. MaxOps
  BY ServiceAssumption DEF Op

\* A step that posts a message which starts nothing, or none.
LEMMA PostStep ==
  ASSUME IInv, UNCHANGED notices, UNCHANGED main, MapsType', ClientType', Usable' = Usable,
         pump' \subseteq pump, NEW m \in Message,
         queue' = queue \/ Post(m),
         m.what \in {"START", "LOST"} => m.display \in Usable
  PROVE  IInv'
<1>1. queue \in Seq(Message) /\ Fresh(queue, Usable)
  BY Facts
<1>2. queue' \in Seq(Message) /\ Fresh(queue', Usable')
  BY <1>1, AppendQueue DEF Post
<1> QED
  BY <1>2, QuietStep

LEMMA registerCallbackKeeps ==
  ASSUME IInv, NEW d \in Displays, registerCallback(d)
  PROVE  IInv'
<1>1. MapsType /\ ClientType
  BY Facts
<1>2. /\ ops' \in 0 .. MaxOps /\ window' = d /\ inits' \in 0 .. 2
      /\ UNCHANGED <<mConnections, pump, notices, main, dialog, call, fault>>
      /\ mConnectionClutch' \in {d, mConnectionClutch}
      /\ queue' = queue \/ Post(Msg("NEW", d))
  BY <1>1, OpCounts DEF registerCallback, ClientType
<1>3. Msg("NEW", d) \in Message /\ Msg("NEW", d).what = "NEW"
  BY DEF Msg, Message
<1>4. Usable' = Usable
  BY <1>2 DEF Usable
<1>5. MapsType'
  BY <1>1, <1>2 DEF main, MapsType
<1>6. ClientType'
  BY <1>1, <1>2 DEF ClientType
<1> QED
  BY <1>2, <1>3, <1>4, <1>5, <1>6, PostStep

LEMMA ResumeKeeps ==
  ASSUME IInv, NEW d \in Displays, Resume(d)
  PROVE  IInv'
<1>1. MapsType /\ ClientType
  BY Facts
<1>2. /\ ops' \in 0 .. MaxOps /\ window' = d
      /\ UNCHANGED <<maps, notices, main, inits, dialog, call, fault>>
      /\ queue' = queue \/ Post(Msg("SWITCH", d))
  BY <1>1, OpCounts DEF Resume, ClientType
<1>3. Msg("SWITCH", d) \in Message /\ Msg("SWITCH", d).what = "SWITCH"
  BY DEF Msg, Message
<1>4. Usable' = Usable /\ pump' \subseteq pump
  BY <1>2 DEF maps, Usable
<1>5. MapsType'
  BY <1>1, <1>2 DEF maps, main, MapsType
<1>6. ClientType'
  BY <1>1, <1>2 DEF ClientType
<1> QED
  BY <1>2, <1>3, <1>4, <1>5, <1>6, PostStep

\* A step of the window that changes nothing but the window.
LEMMA ClientStep ==
  ASSUME IInv, UNCHANGED <<maps, notices, main, queue>>, ClientType', call'.display = call.display
  PROVE  IInv'
<1>1. MapsType /\ queue \in Seq(Message) /\ Fresh(queue, Usable)
  BY Facts
<1>2. Usable' = Usable /\ pump' \subseteq pump
  BY DEF maps, Usable
<1>3. MapsType'
  BY <1>1 DEF maps, main, MapsType
<1> QED
  BY <1>1, <1>2, <1>3, QuietStep

LEMMA QuietUserKeeps ==
  ASSUME IInv, Leave \/ Dismiss \/ Exit \/ unregisterCallback
  PROVE  IInv'
<1>1. ClientType /\ Idle.display = None /\ [Idle EXCEPT !.next = "leave"].display = None
  BY Facts DEF Idle
<1>2. Idle \in [next : {"idle", "close", "exit", "leave"}, display : Displays \cup {None}]
  BY DEF Idle
<1>3. CASE Leave
  <2>1. ClientType' /\ call' = call /\ UNCHANGED <<maps, notices, main, queue>>
    BY <1>1, <1>3 DEF Leave, Gone, ClientType
  <2> QED
    BY <2>1, ClientStep
<1>4. CASE Dismiss
  <2>1. ClientType' /\ call' = call /\ UNCHANGED <<maps, notices, main, queue>>
    BY <1>1, <1>4 DEF Dismiss, ClientType
  <2> QED
    BY <2>1, ClientStep
<1>5. CASE Exit
  <2>1. /\ call = Idle /\ call' = [next |-> "exit", display |-> None] /\ ops' \in 0 .. MaxOps
        /\ UNCHANGED <<maps, notices, main, queue, window, inits, dialog, fault>>
    BY <1>1, <1>5, OpCounts DEF Exit, Can, Idle, ClientType
  <2>2. ClientType' /\ call'.display = None
    BY <1>1, <2>1 DEF ClientType
  <2> QED
    BY <1>1, <2>1, <2>2, ClientStep
<1>6. CASE unregisterCallback
  <2>1. /\ call.display = None /\ call' = Idle
        /\ window' = None /\ inits' = 0 /\ dialog' = None
        /\ UNCHANGED <<maps, notices, main, queue, fault, ops>>
    BY <1>1, <1>6, Zenon DEF unregisterCallback, Gone
  <2>2. ClientType'
    BY <1>1, <1>2, <2>1 DEF ClientType
  <2> QED
    BY <1>1, <2>1, <2>2, ClientStep
<1> QED
  BY <1>3, <1>4, <1>5, <1>6

LEMMA InitializeKeeps ==
  ASSUME IInv, Initialize
  PROVE  IInv'
<1>1. MapsType /\ ClientType
  BY Facts
<1>2. CASE /\ inits' = inits - 1 /\ Post(Msg("STARTUP", None)) /\ UNCHANGED <<window, dialog>>
  <2>1. inits > 0 /\ UNCHANGED <<maps, notices, main, call, fault, ops>>
    BY DEF Initialize
  <2>2. Msg("STARTUP", None) \in Message /\ Msg("STARTUP", None).what = "STARTUP"
    BY DEF Msg, Message
  <2>3. Usable' = Usable /\ pump' \subseteq pump
    BY <2>1 DEF maps, Usable
  <2>4. MapsType'
    BY <1>1, <2>1 DEF maps, main, MapsType
  <2>5. ClientType'
    BY <1>1, <1>2, <2>1 DEF ClientType
  <2> QED
    BY <1>2, <2>1, <2>2, <2>3, <2>4, <2>5, PostStep
<1>3. CASE Gone /\ UNCHANGED queue
  <2>1. UNCHANGED <<maps, notices, main, queue, call, fault, ops>>
    BY <1>3 DEF Initialize
  <2>2. ClientType'
    BY <1>1, <1>3, <2>1 DEF Gone, ClientType
  <2> QED
    BY <2>1, <2>2, ClientStep
<1> QED
  BY <1>2, <1>3 DEF Initialize

LEMMA reloadSettingsKeeps ==
  ASSUME IInv, reloadSettings
  PROVE  IInv'
<1>1. MapsType /\ ClientType
  BY Facts
<1>2. /\ ops' \in 0 .. MaxOps /\ Post(Msg("RELOAD", None))
      /\ UNCHANGED <<maps, notices, main, client, fault>>
  BY <1>1, OpCounts DEF reloadSettings, ClientType
<1>3. Msg("RELOAD", None) \in Message /\ Msg("RELOAD", None).what = "RELOAD"
  BY DEF Msg, Message
<1>4. Usable' = Usable /\ pump' \subseteq pump
  BY <1>2 DEF maps, client, Usable
<1>5. MapsType'
  BY <1>1, <1>2 DEF maps, main, MapsType
<1>6. ClientType'
  BY <1>1, <1>2 DEF client, ClientType
<1> QED
  BY <1>2, <1>3, <1>4, <1>5, <1>6, PostStep

LEMMA reconnectKeeps ==
  ASSUME IInv, reconnect
  PROVE  IInv'
<1>1. /\ MapsType /\ ClientType /\ queue \in Seq(Message) /\ BarType /\ BarInv
      /\ SessionInv /\ Fresh(queue, Usable)
  BY Facts
<1>2. /\ call.display = None /\ ops' \in 0 .. MaxOps /\ dialog \in Displays
      /\ UNCHANGED <<mConnections, mConnectionClutch, main, queue, call, fault>>
  BY <1>1, OpCounts DEF reconnect, Can, Idle, ClientType
<1>3. Usable' = Usable /\ Usable = mConnections
  BY <1>1, <1>2, ServiceAssumption DEF Usable, MapsType
<1>4. MapsType'
  BY <1>1, <1>2 DEF main, MapsType
<1>5. CASE /\ dialog \in mConnections /\ pump' = pump \cup {dialog}
           /\ showConnectionNotification(dialog) /\ dialog' = None
           /\ UNCHANGED <<window, inits>>
  <2>1. BarType' /\ BarInv' /\ Noted' = Noted \cup {dialog}
    BY <1>1, <1>2, <1>5, BarShown
  <2>2. ClientType'
    BY <1>1, <1>2, <1>5 DEF ClientType
  <2>3. starting' = starting /\ orphan' = orphan /\ leaked' = leaked /\ queue' = queue
    BY <1>2 DEF main
  <2>4. SessionInv'
    BY <1>1, <1>3, <1>5, <2>1, <2>3 DEF SessionInv
  <2>5. pump' \subseteq mConnections'
    BY <1>2, <1>3, <2>4 DEF SessionInv
  <2>6. TypeOK'
    BY <1>1, <1>4, <2>1, <2>2, <2>3, <2>5 DEF TypeOK, BarType, MapsType, ClientType
  <2> QED
    BY <2>1, <2>4, <2>6 DEF IInv
<1>6. CASE Gone /\ UNCHANGED <<pump, notices>>
  <2>1. ClientType'
    BY <1>1, <1>2, <1>6 DEF Gone, ClientType
  <2>2. UNCHANGED <<maps, notices, main, queue>> /\ call'.display = call.display
    BY <1>2, <1>6 DEF maps
  <2> QED
    BY <2>1, <2>2, ClientStep
<1> QED
  BY <1>5, <1>6 DEF reconnect

LEMMA CloseDialogKeeps ==
  ASSUME IInv, CloseDialog
  PROVE  IInv'
<1>1. ClientType
  BY Facts
<1>2. /\ call.display = None /\ ops' \in 0 .. MaxOps /\ dialog \in Displays
      /\ UNCHANGED <<window, inits, dialog, fault>>
  BY <1>1, OpCounts DEF CloseDialog, Can, Idle, ClientType
<1>3. CASE Close(dialog, "close")
  BY <1>2, <1>3, CloseKeeps
<1>4. CASE /\ call' = [Idle EXCEPT !.next = "exit"] /\ UNCHANGED <<maps, notices, main, queue>>
  <2>1. call' = [next |-> "exit", display |-> None]
    BY <1>4 DEF Idle
  <2>2. ClientType' /\ call'.display = None
    BY <1>1, <1>2, <2>1 DEF ClientType
  <2> QED
    BY <1>2, <1>4, <2>2, ClientStep
<1> QED
  BY <1>3, <1>4 DEF CloseDialog

LEMMA CloseSelectedKeeps ==
  ASSUME IInv, CloseSelected
  PROVE  IInv'
<1>1. MapsType /\ ClientType
  BY Facts
<1>2. /\ call = [next |-> "exit", display |-> None]
      /\ UNCHANGED <<window, inits, dialog, fault, ops>>
  BY DEF CloseSelected, Idle
<1>3. CASE mConnectionClutch \in mConnections /\ Close(mConnectionClutch, "exit")
  <2>1. mConnectionClutch \in Displays /\ call.display = None /\ ops' \in 0 .. MaxOps
    BY <1>1, <1>2, <1>3 DEF MapsType, ClientType
  <2> QED
    BY <1>2, <1>3, <2>1, CloseKeeps
<1>4. CASE /\ call' = [Idle EXCEPT !.next = "leave"] /\ UNCHANGED <<maps, notices, main, queue>>
  <2>1. call' = [next |-> "leave", display |-> None]
    BY <1>4 DEF Idle
  <2>2. ClientType' /\ call'.display = call.display
    BY <1>1, <1>2, <2>1 DEF ClientType
  <2> QED
    BY <1>4, <2>2, ClientStep
<1> QED
  BY <1>3, <1>4 DEF CloseSelected

LEMMA RemoveKeeps ==
  ASSUME IInv, Remove
  PROVE  IInv'
<1>1. MapsType /\ ClientType /\ queue \in Seq(Message) /\ Fresh(queue, Usable)
  BY Facts
<1>2. /\ mConnections' = mConnections \ {call.display}
      /\ call' = [next |-> IF call.next = "close" THEN "exit" ELSE "leave", display |-> None]
      /\ UNCHANGED <<mConnectionClutch, pump, notices, main, queue, window, inits, dialog,
                     fault, ops>>
  BY DEF Remove
<1>3. call'.display = None
  BY <1>2
<1>4. Usable' = Usable
  BY <1>1, <1>2, <1>3, ServiceAssumption DEF Usable, MapsType
<1>5. MapsType'
  BY <1>1, <1>2 DEF main, MapsType
<1>6. ClientType'
  BY <1>1, <1>2 DEF ClientType
<1> QED
  BY <1>1, <1>2, <1>4, <1>5, <1>6, QuietStep

LEMMA LoseKeeps ==
  ASSUME IInv, NEW d \in Displays, Lose(d)
  PROVE  IInv'
<1>1. MapsType /\ ClientType /\ SessionInv
  BY Facts
<1>2. /\ ops' \in 0 .. MaxOps /\ d \in pump /\ Post(Msg("LOST", d))
      /\ UNCHANGED <<maps, notices, main, client, fault>>
  BY <1>1, OpCounts DEF Lose, ClientType
<1>3. Msg("LOST", d) \in Message /\ Msg("LOST", d).display = d
  BY DEF Msg, Message
<1>4. d \in Usable
  BY <1>1, <1>2 DEF SessionInv
<1>5. Usable' = Usable /\ pump' \subseteq pump
  BY <1>2 DEF maps, client, Usable
<1>6. MapsType'
  BY <1>1, <1>2 DEF maps, main, MapsType
<1>7. ClientType'
  BY <1>1, <1>2 DEF client, ClientType
<1> QED
  BY <1>2, <1>3, <1>4, <1>5, <1>6, <1>7, PostStep

(***************************************************************************)
(* The theorems.                                                           *)
(***************************************************************************)
LEMMA NextInv ==
  ASSUME IInv, [Next]_vars
  PROVE  IInv'
<1>1. CASE Main
  BY <1>1, NewConnectionKeeps, SwitchKeeps, StartupKeeps, StartBeginsKeeps, StartEndsKeeps,
     LostKeeps, ReloadKeeps DEF Main
<1>2. CASE Window
  BY <1>2, InitializeKeeps, RemoveKeeps, CloseSelectedKeeps, QuietUserKeeps DEF Window
<1>3. CASE User
  BY <1>3, registerCallbackKeeps, ResumeKeeps, QuietUserKeeps, reloadSettingsKeeps,
     reconnectKeeps, CloseDialogKeeps DEF User
<1>4. CASE \E d \in Displays : Lose(d)
  BY <1>4, LoseKeeps
<1>5. CASE UNCHANGED vars
  <2>1. UNCHANGED <<maps, notices, main, queue>>
    BY <1>5 DEF vars
  <2>2. UNCHANGED <<client, fault, ops>> /\ call' = call
    BY <1>5 DEF vars, client
  <2>3. ClientType
    BY Facts
  <2>4. ClientType'
    BY <2>2, <2>3 DEF client, ClientType
  <2> QED
    BY <2>1, <2>2, <2>4, ClientStep
<1> QED
  BY <1>1, <1>2, <1>3, <1>4, <1>5 DEF Next

\* In every state the status bar, the foreground notification, the sessions and
\* what is on its way to them fit together.
THEOREM Correct == Spec => []IInv
<1>1. Init => IInv
  BY InitInv
<1>2. IInv /\ [Next]_vars => IInv'
  BY NextInv
<1> QED
  BY <1>1, <1>2, PTL DEF Spec

\* Every variable keeps its type; no pump without a connection.
THEOREM TypeCorrect == Spec => []TypeOK
<1>1. IInv => TypeOK
  BY DEF IInv
<1> QED
  BY <1>1, Correct, PTL

\* The status bar shows one notification for each entry of the maps and no other.
THEOREM StatusBarCorrect == Spec => []StatusBarAgrees
<1>1. IInv => StatusBarAgrees
  BY DEF IInv, BarInv
<1> QED
  BY <1>1, Correct, PTL

\* Until the last notification has gone once, one of those shown keeps the service
\* in the foreground.
THEOREM ForegroundIsKept == Spec => []ForegroundKept
<1>1. IInv => ForegroundKept
  <2> SUFFICES ASSUME IInv PROVE ForegroundKept
    OBVIOUS
  <2>1. BarInv /\ BarType
    BY Facts
  <2>2. ~mHasForegroundNotification => \A e \in Displays : IdOf(e) = 0
    BY <2>1 DEF BarInv, BarType, IdOf
  <2>3. ~mHasForegroundNotification => Noted = {}
    BY <2>2 DEF Noted
  <2> QED
    BY <2>1, <2>3 DEF BarInv, ForegroundKept
<1> QED
  BY <1>1, Correct, PTL

\* A running session has a notification, and a notification a connection, but for
\* one that was shut down while it started.
THEOREM NoticesCorrect == Spec => []NoticesAgree
<1>1. IInv => NoticesAgree
  BY DEF IInv, SessionInv, NoticesAgree, Usable
<1> QED
  BY <1>1, Correct, PTL

=============================================================================
