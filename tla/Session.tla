------------------------------ MODULE Session ------------------------------
(***************************************************************************)
(* What a Connection promises about the life of its session: it starts     *)
(* once, a lost session is retried at most Limit times between two         *)
(* successful connects, a retry replaces the session and never runs beside *)
(* it, and a retry that was announced is made.                             *)
(***************************************************************************)
EXTENDS Naturals

CONSTANT Limit

VARIABLES
    phase,      \* "starting", "live", "waiting", "over" or "crashed"
    tries       \* tries since the last successful connect
vars == <<phase, tries>>

Init == phase = "starting" /\ tries = 0

Become(from, to) == phase = from /\ phase' = to

Start     == Become("starting", "live") /\ UNCHANGED tries
Connected == Become("live", "live") /\ tries' = 0
Lost      == Become("live", "waiting") /\ tries < Limit /\ tries' = tries + 1
GiveUp    == Become("live", "over") /\ UNCHANGED tries
Retry     == Become("waiting", "live") /\ UNCHANGED tries

\* Data of a session may be left to handle when it is over.
Crash == phase \in {"live", "waiting", "over"} /\ phase' = "crashed" /\ UNCHANGED tries

Next == Start \/ Connected \/ Lost \/ GiveUp \/ Retry \/ Crash

Spec == Init /\ [][Next]_vars /\ WF_vars(Start) /\ WF_vars(Retry)
=============================================================================
