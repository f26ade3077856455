----------------------------- MODULE NetSession -----------------------------
(***************************************************************************)
(* NetThreads under the fairness of Android's threads, and the properties  *)
(* of a session nobody interferes with: no call of the foreground, nothing *)
(* written.                                                                *)
(***************************************************************************)
EXTENDS NetThreads, FiniteSets

\* Every looper and every thread that can run is run; the peer may stay silent
\* for ever, and nobody is obliged to call.
FairSpec ==
    /\ Spec
    /\ \A t \in Threads : WF_vars(Kill(t) \/ Resume(t))
    /\ WF_vars(Handle)
    /\ \A p \in Pumps : WF_vars(Pumper(p)) /\ WF_vars(Writer(p))

\* Never two open sockets: the pump of a lost session is dead before the
\* next one is created.
OneSession == Cardinality({p \in Pumps : pump[p].sock = "open"}) <= 1

\* A report of the end of a connection that is waiting for the handler is about
\* the current pump: handling it cannot tear down another session.
ReportsAreFresh ==
    \A i \in DOMAIN inbox : inbox[i].what \in Terminal => inbox[i].from = mPump

\* A reconnect is pending only while there is no pump, and only one is.
ReconnectWaitsAlone == reconnects > 0 => mPump = NoPump /\ reconnects = 1

\* The join of killNetThreads returns: the pump it waits for sees MESSAGE_END,
\* whatever it was doing, and so does its writer.
KillReturns ==
    \A t \in Threads : thread[t].at = "join" ~> thread[t].at # "join" \/ ~Alive

\* A loss the reader has reported is acted on: the connection lets go of the pump.
LossIsHandled ==
    \A p \in Pumps : pump[p].reports > 0 ~> mPump # p \/ ~Alive

(***************************************************************************)
(* What comments of the code say, once nobody is kept from interfering.    *)
(***************************************************************************)
\* killNetThreads "kill[s] the DataPumper and all of its threads"
\* (Connection.java:1280): a pump it has let go of does not connect and report
\* its connection afterwards.
KillStopsPump == [][\A p \in Pumps : InitConnects(p) => p = mPump]_vars

\* "noreconnect true if there should be no reconnect attempt made"
\* (Connection.java:1282), which every caller passes: no reconnect is pending
\* when killNetThreads returns.
NoReconnectAfterKill == \A t \in Threads : At(t, "after") => reconnects = 0

\* MESSAGE_TERMINATED_BY_PEER indicates "the orderly shutdown of the tcp
\* connection" (Connection.java:202): when it is handled, the connection that is
\* torn down is one its peer has closed.
TerminatedIsCurrent ==
    [][HandleTerminated => mPump = NoPump \/ pump[mPump].peer = "eof"]_vars

(***************************************************************************)
(* The session the threads implement.  While "main" runs the handler of a  *)
(* loss the session is still live; an attempt that dispatchDialog counts   *)
(* before killNetThreads is counted when the reconnect is scheduled.       *)
(***************************************************************************)
Working(k) == thread["main"].cont = k

SessionPhase ==
    IF ~Alive THEN "crashed"
    ELSE IF inbox # <<>> /\ Head(inbox).what = "STARTUP" THEN "starting"
    ELSE IF mPump # NoPump \/ thread["main"].at # "idle" THEN "live"
    ELSE IF reconnects > 0 THEN "waiting" ELSE "over"

SessionTries == IF Working("dialog") THEN mAutoReconnectAttempt - 1
                                     ELSE mAutoReconnectAttempt

S == INSTANCE Session WITH Limit <- IF AutoReconnect THEN Limit ELSE 0,
                           phase <- SessionPhase, tries <- SessionTries

\* The threads of one connection implement the abstract session.
ImplementsSession == S!Spec
=============================================================================
