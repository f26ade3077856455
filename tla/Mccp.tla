--------------------------------- MODULE Mccp ---------------------------------
(***************************************************************************)
(* MCCP, the compression of one session's stream.  The reader thread posts *)
(* what it reads to the connection's handler; the handler's Processor      *)
(* finds the marker IAC SB MCCP2 IAC SE and sends what followed it back to *)
(* the reader, which inflates from then on.  The two threads share nothing *)
(* but their queues, so the reader may poll the socket again before it     *)
(* hears of the marker.                                                    *)
(*                                                                         *)
(* A byte is its position in the stream; `sent` says what stands there.    *)
(* The inflater (java.util.zip) and the server are modelled from how they  *)
(* are used.                                                               *)
(***************************************************************************)
EXTENDS Naturals, Sequences, FiniteSetsExt

CONSTANTS
    MaxSent,    \* bound: length of the server's stream
    Prompt      \* may the handler be prompt (see `prompt`), or slow?

ASSUME MccpAssumption == MaxSent \in Nat /\ Prompt \subseteq BOOLEAN /\ Prompt # {}

\* "text": a plain byte; "marker": IAC SB MCCP2 IAC SE; "z": a compressed byte;
\* "end": the end of the compressed stream
Kinds == {"text", "marker", "z", "end"}
Z     == {"z", "end"}

VARIABLES
    sent,           \* what the server has sent
    got,            \* how much of it the pump has read
    inbox,          \* the handler's queue
    mailbox,        \* the data of the pump's MESSAGE_COMPRESSes
    mCompressed, mCorrupted,
    inflater,       \* the last position mDecompressor took in; 0: a new one
    shown,          \* history: the bytes that went to the window, inflated or as they came
    garbled,        \* history: what went to the window was not all text
    cuts,           \* history: where the data given to doDecompress ended
    prompt          \* the handler always answers before the next poll is due

pumpVars == <<mCompressed, mCorrupted, inflater>>
history  == <<shown, garbled, cuts>>
vars     == <<sent, got, inbox, mailbox, pumpVars, history, prompt>>

Positions == 0 .. MaxSent + 1
Lost      == MaxSent + 1    \* the inflater has been fed something else
Chunk     == [lo : Positions, hi : Positions]
Message   == [what : {"PROCESS", "INFLATED", "GARBAGE", "STARTCOMPRESS",
                      "MCCPFATALERROR"}, data : Chunk]
Bytes(i, j)  == [lo |-> i, hi |-> j]
Msg(w, i, j) == [what |-> w, data |-> Bytes(i, j)]

TypeOK ==
    /\ sent \in Seq(Kinds) /\ Len(sent) <= MaxSent /\ got \in 0 .. Len(sent)
    /\ inbox \in Seq(Message) /\ mailbox \in Seq(Chunk)
    /\ mCompressed \in BOOLEAN /\ mCorrupted \in BOOLEAN
    /\ inflater \in Positions
    /\ shown \in Seq(Positions) /\ garbled \in BOOLEAN /\ cuts \subseteq Positions
    /\ prompt \in BOOLEAN

Init ==
    /\ sent = <<>> /\ got = 0 /\ inbox = <<>> /\ mailbox = <<>>
    /\ mCompressed = FALSE /\ mCorrupted = FALSE /\ inflater = 0
    /\ shown = <<>> /\ garbled = FALSE /\ cuts = {}
    /\ prompt \in Prompt

(***************************************************************************)
(* The server: text, then a marker, compressed bytes, and text again.      *)
(***************************************************************************)
Follows(k) ==
    IF sent # <<>> /\ sent[Len(sent)] \in {"marker", "z"} THEN k \in Z
                                                        ELSE k \in {"text", "marker"}
Send ==
    /\ Len(sent) < MaxSent
    /\ \E k \in Kinds : Follows(k) /\ sent' = Append(sent, k)
    /\ UNCHANGED <<got, inbox, mailbox, pumpVars, history, prompt>>

(***************************************************************************)
(* doDecompress                                                            *)
(***************************************************************************)
\* The first byte of a kind in lo..hi, hi + 1 if there is none.
First(kind, lo, hi) == Min({i \in lo .. hi : sent[i] = kind} \union {hi + 1})
EndIn(lo, hi)       == First("end", lo, hi)

\* The inflater can take in lo..hi: a new one needs the start of a compressed
\* stream, another one the byte after the last.
Feeds(lo, hi) ==
    /\ IF inflater = 0 THEN lo > 1 /\ sent[lo - 1] = "marker" ELSE inflater = lo - 1
    /\ \A i \in lo .. hi : sent[i] \in Z

\* Mutant of Remainder: the byte after the end is lost.
RemainderLate(lo, hi) == Bytes(EndIn(lo, hi) + 2, hi)

\* What follows the end of the compressed stream.
Remainder(lo, hi) == Bytes(EndIn(lo, hi) + 1, hi)

\* corrupted is mCorrupted at the call: what is inflated is not posted if it holds.
Inflated(m, corrupted) ==
    /\ inbox' = IF corrupted THEN inbox ELSE Append(inbox, m)
    /\ mCompressed' = TRUE /\ mCorrupted' = corrupted

Inflates(lo, hi, corrupted) ==
    /\ Feeds(lo, hi) /\ EndIn(lo, hi) > hi
    /\ Inflated(Msg("INFLATED", lo, hi), corrupted)
    /\ inflater' = hi

\* finished(): the rest is posted, what this call had inflated is not.
Finishes(lo, hi) ==
    LET rest == Remainder(lo, hi) IN
    /\ EndIn(lo, hi) <= hi /\ Feeds(lo, EndIn(lo, hi))
    /\ inbox' = Append(inbox, Msg("PROCESS", rest.lo, rest.hi))
    /\ inflater' = 0
    /\ mCompressed' = FALSE /\ mCorrupted' = FALSE

\* Mutant of OnFailure: the pump goes on inflating.
OnFailureGoOn == mCompressed' = TRUE /\ mCorrupted' = TRUE

OnFailure == mCompressed' = FALSE /\ mCorrupted' = TRUE

\* DataFormatException: certain for a new inflater, else garbage may come out.
Fails(lo, hi, corrupted) ==
    /\ ~Feeds(lo, IF EndIn(lo, hi) <= hi THEN EndIn(lo, hi) ELSE hi)
    /\ \/ /\ inbox' = Append(inbox, Msg("MCCPFATALERROR", 1, 0))
          /\ inflater' = 0
          /\ OnFailure
       \/ /\ inflater # 0
          /\ Inflated(Msg("GARBAGE", lo, hi), corrupted)
          /\ inflater' = Lost

DoDecompress(lo, hi, corrupted) ==
    Inflates(lo, hi, corrupted) \/ Finishes(lo, hi) \/ Fails(lo, hi, corrupted)

(***************************************************************************)
(* The pump                                                                *)
(***************************************************************************)
\* getData: everything that has arrived.  The poll comes at least
\* NO_THROTTLE_DELAY after the last one; `prompt` says that this is enough for
\* the handler.
Poll ==
    /\ got < Len(sent)
    /\ prompt => inbox = <<>> /\ mailbox = <<>>
    /\ got' = Len(sent)
    /\ IF mCompressed
       THEN DoDecompress(got + 1, Len(sent), mCorrupted) /\ cuts' = cuts \union {Len(sent)}
       ELSE /\ inbox' = Append(inbox, Msg("PROCESS", got + 1, Len(sent)))
            /\ UNCHANGED <<pumpVars, cuts>>
    /\ UNCHANGED <<sent, mailbox, shown, garbled, prompt>>

\* useCompression
Compress ==
    LET data == Head(mailbox) IN
    /\ mailbox # <<>> /\ mailbox' = Tail(mailbox)
    /\ IF data.lo <= data.hi
       THEN DoDecompress(data.lo, data.hi, FALSE)
       ELSE mCompressed' = TRUE /\ mCorrupted' = FALSE /\ UNCHANGED <<inflater, inbox>>
    /\ cuts' = cuts \union {data.hi}
    /\ UNCHANGED <<sent, got, shown, garbled, prompt>>

(***************************************************************************)
(* The connection's handler                                                *)
(***************************************************************************)
Receive(w) == inbox # <<>> /\ Head(inbox).what = w
Run(i, j) == [k \in 1 .. (IF i <= j THEN j - i + 1 ELSE 0) |-> i + k - 1]
Plain(i) == sent[i] = "text"

MarkerIn(lo, hi) == First("marker", lo, hi)

\* Mutant of ShownUpTo: rawProcess does not return at the marker.
ShownUpToAll(lo, hi) == hi

\* The last byte of lo..hi that rawProcess lets through to the window.
ShownUpTo(lo, hi) == MarkerIn(lo, hi) - 1

\* Mutant of AfterMarker: the data after the marker is not sent along.
AfterMarkerNothing(hi) == <<Msg("STARTCOMPRESS", hi + 1, hi)>>

\* sendMessageAtFrontOfQueue(STARTCOMPRESS) with what follows the marker.
AfterMarker(hi) ==
    LET m == MarkerIn(Head(inbox).data.lo, hi) IN
    IF m > hi THEN <<>> ELSE <<Msg("STARTCOMPRESS", m + 1, hi)>>

\* rawProcess: up to the marker, everything goes to the window.
HandleProcess ==
    LET lo == Head(inbox).data.lo
        hi == Head(inbox).data.hi
        upTo == ShownUpTo(lo, hi) IN
    /\ Receive("PROCESS")
    /\ inbox' = AfterMarker(hi) \o Tail(inbox)
    /\ shown' = shown \o Run(lo, upTo)
    /\ garbled' = (garbled \/ \E i \in lo .. upTo : ~Plain(i))
    /\ UNCHANGED <<sent, got, mailbox, pumpVars, cuts, prompt>>

HandleInflated ==
    /\ Receive("INFLATED") /\ inbox' = Tail(inbox)
    /\ shown' = shown \o Run(Head(inbox).data.lo, Head(inbox).data.hi)
    /\ UNCHANGED <<sent, got, mailbox, pumpVars, garbled, cuts, prompt>>

HandleGarbage ==
    /\ Receive("GARBAGE") /\ inbox' = Tail(inbox)
    /\ garbled' = TRUE
    /\ UNCHANGED <<sent, got, mailbox, pumpVars, shown, cuts, prompt>>

HandleStartCompress ==
    /\ Receive("STARTCOMPRESS") /\ inbox' = Tail(inbox)
    /\ mailbox' = Append(mailbox, Head(inbox).data)
    /\ UNCHANGED <<sent, got, pumpVars, history, prompt>>

\* MESSAGE_MCCPFATALERROR is 9, which is MESSAGE_SENDDATA_BYTES: sendToServer(null).
HandleFatal ==
    /\ Receive("MCCPFATALERROR") /\ inbox' = Tail(inbox)
    /\ UNCHANGED <<sent, got, mailbox, pumpVars, history, prompt>>

Handle == HandleProcess \/ HandleInflated \/ HandleGarbage \/ HandleStartCompress
          \/ HandleFatal
Next == Send \/ Poll \/ Compress \/ Handle
Spec == Init /\ [][Next]_vars

(***************************************************************************)
(* Properties                                                              *)
(***************************************************************************)
\* No byte reaches the window twice, inflated or as it came, however slow the handler
\* is: what useCompression is given and what getData reads never overlap.
ShownOnce == \A i, j \in DOMAIN shown : i # j => shown[i] # shown[j]

\* With a prompt handler the window shows the server's bytes in the order in which
\* they were sent, through any number of compressed parts.
InOrder == prompt => \A i, j \in DOMAIN shown : i < j => shown[i] < shown[j]

\* With a prompt handler only text reaches the window: no compressed byte is taken
\* for text, the inflater is never fed anything but its stream.
OnlyText == prompt => ~garbled /\ ~mCorrupted

\* With a prompt handler, once all is handled, the text missing from the window is
\* exactly what doDecompress had inflated in the call that met the end of the
\* compressed stream.
Quiet == got = Len(sent) /\ inbox = <<>> /\ mailbox = <<>>
InLastCall(i) ==
    sent[i] = "z" /\ \E e \in i + 1 .. Len(sent) :
                       sent[e] = "end" /\ \A j \in i .. e - 1 : sent[j] = "z" /\ j \notin cuts
LossIsTheLastCall ==
    prompt /\ Quiet =>
        \A i \in 1 .. Len(sent) :
            (\E k \in DOMAIN shown : shown[k] = i)
              <=> sent[i] \in {"text", "z"} /\ ~InLastCall(i)

\* A pump that reports a fatal error has stopped inflating, until the server
\* starts a new compressed stream.
CorruptedIsPlain == mCorrupted => ~mCompressed /\ inflater = 0

\* "The data to start the compression with. This is whatever followed IAC SB MCCP2
\* IAC SE" (DataPumper.java:346): what follows the marker is inflated, never
\* shown as it came.  Refuted: a poll before MESSAGE_COMPRESS arrives.
FollowedIsInflated == ~garbled
===============================================================================
