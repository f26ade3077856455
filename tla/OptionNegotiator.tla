-------------------------- MODULE OptionNegotiator --------------------------
(***************************************************************************)
(* OptionNegotiator: what the client answers to the telnet options a       *)
(* server offers or asks for.  Of the object's fields the window size is   *)
(* left out: it never changes while the program runs, because no caller of *)
(* setDisplayDimensions is left; nor has reset(), or Processor's, which is *)
(* the only one to call it, a caller.                                      *)
(***************************************************************************)
EXTENDS Naturals, Sequences

CONSTANT mUseGMCP       \* the setting use_gmcp
ASSUME GmcpAssumption == mUseGMCP \in BOOLEAN

Actions == {"WILL", "WONT", "DO", "DONT"}
Options == {"MCCP", "SGA", "GMCP", "NAWS", "TTYPE", "ECHO"}

\* mTermTypes; mTermType is the configured name.
TermTypes      == <<"mTermType", "ansi", "BlowTorch-256color", "UNKNOWN">>
TTYPE_MAX_TRIES == 3

Negotiator == [mIsNAWS : BOOLEAN, mDoneNAWS : BOOLEAN,
               mTermTypeAttempt : 0 .. TTYPE_MAX_TRIES]
NewNegotiator == [mIsNAWS |-> FALSE, mDoneNAWS |-> FALSE, mTermTypeAttempt |-> 0]

Offer(a, o) == <<"IAC", a, o>>

\* Mutant of Response: options nobody asked about are accepted.
ResponseEager(action, option) == IF action \in {"WILL", "WONT"} THEN "DO" ELSE "WILL"

\* The action byte of processCommand's reply.
Response(action, option) ==
    CASE action = "WILL" ->
           IF option \in {"MCCP", "SGA"} \/ (option = "GMCP" /\ mUseGMCP) THEN "DO"
                                                                      ELSE "DONT"
      [] action = "DO"   -> IF option \in {"NAWS", "TTYPE"} THEN "WILL" ELSE "WONT"
      [] action = "WONT" -> "DONT"
      [] action = "DONT" -> "WONT"

\* processCommand's effect: the size is due again when the server asks for it.
AfterCommand(n, action, option) ==
    IF action = "DO" /\ option = "NAWS" THEN [n EXCEPT !.mIsNAWS = TRUE, !.mDoneNAWS = FALSE]
                                        ELSE n

\* Mutant of NawsDue: the size goes out whether or not it was agreed.
NawsDueAlways(n) == ~n.mDoneNAWS

\* getNawsString returns a string, and has then been called for this session.
NawsDue(n) == n.mIsNAWS /\ ~n.mDoneNAWS
NawsSent(n) == [n EXCEPT !.mDoneNAWS = TRUE]

\* Mutant of AfterTermType: the list is run through again.
AfterTermTypeWrap(n) == [n EXCEPT !.mTermTypeAttempt = (@ + 1) % Len(TermTypes)]

\* getSubnegotiationResponse for TERM.
TermType(n) == TermTypes[n.mTermTypeAttempt + 1]
AfterTermType(n) ==
    IF n.mTermTypeAttempt < TTYPE_MAX_TRIES
    THEN [n EXCEPT !.mTermTypeAttempt = @ + 1] ELSE n
=============================================================================
