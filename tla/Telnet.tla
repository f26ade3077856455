-------------------------------- MODULE Telnet --------------------------------
(***************************************************************************)
(* Processor: the telnet layer of one session.  The server writes a stream *)
(* of units, each a character or a telnet command; the reader thread hands *)
(* it to rawProcess in the chunks in which it came off the socket, cut     *)
(* anywhere.  rawProcess strips the commands, posts the answers to the     *)
(* connection's handler and returns the text.  A byte is the name of the   *)
(* telnet byte it is, or "c" for any other.                                *)
(***************************************************************************)
EXTENDS OptionNegotiator, SequencesExt

CONSTANTS
    MaxUnits,       \* bound: length of the server's stream
    MaxAsked,       \* bound: how often a server asks for a terminal type
    Cuts            \* may a chunk end inside a unit?
ASSUME TelnetAssumption == MaxUnits \in Nat /\ MaxAsked \in Nat /\ Cuts \in BOOLEAN

Bytes ==
    Actions \union Options
    \union {"IAC", "SB", "SE", "SEND", "GOAHEAD", "IP", "BREAK", "AO", "EC", "EL", "AYT", "NOP"}
    \union {"c", "CARRIAGE", "BELL", "module", "SPACE", "data"}

Sub(o, payload) == <<"IAC", "SB", o>> \o payload \o <<"IAC", "SE">>
Marker == Sub("MCCP", <<>>)

\* What a server may write: characters, offers and requests, subnegotiations,
\* two-byte commands and the byte 255 as data, which is doubled.  A GMCP message
\* is a module with data or the name of the module alone.
Units ==
    {<<"c">>, <<"CARRIAGE">>, <<"BELL">>}
    \union {Offer("WILL", o) : o \in {"MCCP", "GMCP", "ECHO"}}
    \union {Offer("DO", o) : o \in {"NAWS", "TTYPE"}}
    \union {Offer("WONT", "ECHO"), Offer("DONT", "NAWS")}
    \union {Sub("TTYPE", <<"SEND">>), Sub("GMCP", <<"module", "SPACE", "data">>), Marker}
    \union {Sub("GMCP", <<"module">>), Sub("ECHO", <<"IAC", "IAC">>)}
    \union {<<"IAC", "GOAHEAD">>, <<"IAC", "NOP">>, <<"IAC", "IAC">>}
Streams ==
    {s \in UNION {[1 .. n -> Units] : n \in 1 .. MaxUnits} :
       \A i \in 1 .. Len(s) - 1 : s[i] # Marker}
    \union {[i \in 1 .. n |-> Sub("TTYPE", <<"SEND">>)] : n \in 1 .. MaxAsked}

VARIABLES
    stream,     \* the server's units
    at,         \* [unit, byte]: what has been handed to rawProcess
    text,       \* what rawProcess has returned
    bells,      \* MESSAGE_BELLINCs
    negotiator, \* mOptionHandler
    out,        \* the messages posted without delay, in the order of their handling
    later,      \* the window sizes in the queue: what was in out when each was posted
    sizes,      \* the window sizes handled: how much of out was handled before each
    end,        \* how the last rawProcess ended
    calm        \* history: every chunk so far was one rawProcess can decode

vars == <<stream, at, text, bells, negotiator, out, later, sizes, end, calm>>

Init ==
    /\ stream \in Streams /\ at = [unit |-> 0, byte |-> 0]
    /\ text = <<>> /\ bells = 0 /\ negotiator = NewNegotiator
    /\ out = <<>> /\ later = <<>> /\ sizes = <<>> /\ end = "ok" /\ calm = TRUE

(***************************************************************************)
(* rawProcess                                                              *)
(***************************************************************************)
Ends(how)      == [text |-> <<>>, events |-> <<>>, end |-> how]
Put(b, rest)   == [rest EXCEPT !.text = <<b>> \o @]
Event(e, rest) == [rest EXCEPT !.events = <<e>> \o @]

Stripped == {"CARRIAGE"}
\* The commands whose second byte is dropped too; the others' byte is kept.
Consumed == {"GOAHEAD", "IP", "BREAK", "AO", "EC", "EL", "AYT"}

\* Where the subnegotiation at i ends: the first IAC behind its option byte.
SubEnd(d, i) ==
    IF \E j \in i + 3 .. Len(d) : d[j] = "IAC"
    THEN CHOOSE j \in i + 3 .. Len(d) : d[j] = "IAC" /\ \A k \in i + 3 .. j - 1 : d[k] # "IAC"
    ELSE Len(d)

\* Mutant of AfterOption: the option byte is not skipped.
AfterOptionKept(i) == i + 2

\* The position after IAC action option.
AfterOption(i) == i + 3

\* dispatchSUB: the marker ends the text, and the STARTCOMPRESS that goes to the
\* front of the queue is this end; a GMCP message without data is not cut at its
\* space, there is none.
DispatchSub(d, i, j, rest) ==
    CASE d[i + 2] = "MCCP"  -> Ends("compress")
      [] d[i + 2] = "TTYPE" -> Event(<<"TTYPE">>, rest)
      [] d[i + 2] = "GMCP"  ->
           IF \E k \in i + 3 .. j - 1 : d[k] = "SPACE" THEN Event(<<"GMCPTRIGGERED">>, rest)
                                                 ELSE Ends("crash")
      [] OTHER -> rest

\* IAC SB: an IAC inside that no SE follows is looked at for ever.
Subnegotiation(d, i, scan) ==
    LET j == SubEnd(d, i) IN
    CASE j >= Len(d) -> Ends("crash")
      [] j < Len(d) /\ d[j + 1] # "SE" -> Ends("spin")
      [] OTHER -> DispatchSub(d, i, j, scan[j + 2])

\* IAC: what the next byte says; reading past the end of data is an
\* ArrayIndexOutOfBoundsException.
Command(d, i, scan) ==
    CASE i = Len(d) -> Ends("crash")
      [] i < Len(d) /\ d[i + 1] \in Actions ->
           IF i + 2 > Len(d) THEN Ends("crash")
           ELSE Event(<<d[i + 1], d[i + 2]>>, scan[AfterOption(i)])
      [] i < Len(d) /\ d[i + 1] = "SB" -> Subnegotiation(d, i, scan)
      [] i < Len(d) /\ d[i + 1] = "IAC" -> Put("IAC", scan[i + 1])
      [] i < Len(d) /\ d[i + 1] \in Consumed -> scan[i + 2]
      [] OTHER -> scan[i + 1]

\* The loop over the bytes of data, from byte i on.
RawProcess(d) ==
    LET Scan[i \in 1 .. Len(d) + 1] ==
          CASE i > Len(d) -> Ends("ok")
            [] i <= Len(d) /\ d[i] = "IAC" -> Command(d, i, Scan)
            [] i <= Len(d) /\ d[i] = "BELL" -> Event(<<"BELL">>, Scan[i + 1])
            [] i <= Len(d) /\ d[i] \in Stripped -> Scan[i + 1]
            [] OTHER -> Put(d[i], Scan[i + 1])
    IN IF d = <<"IAC">> THEN Ends("ok") ELSE Scan[1]

(***************************************************************************)
(* What rawProcess's calls post: dispatchIAC, dispatchSUB, initGMCP.       *)
(***************************************************************************)
\* What one command does to m, the negotiator and the messages: the size is posted
\* first, with a delay, the reply behind it.
DispatchIAC(m, a, o) ==
    LET n == AfterCommand(m.n, a, o)
        size == o = "NAWS" /\ NawsDue(n)
        hello == IF a = "WILL" /\ o = "GMCP" /\ mUseGMCP
                 THEN <<<<"core.hello">>, <<"core.supports.set">>>> ELSE <<>>
    IN [m EXCEPT !.n = IF size THEN NawsSent(n) ELSE n,
                 !.later = IF size THEN Append(@, Len(m.now)) ELSE @,
                 !.now = (@ \o <<Offer(Response(a, o), o)>>) \o hello]

\* Mutant of Rung: every bell is posted twice.
RungTwice(b) == b + 2

\* sendEmptyMessage(MESSAGE_BELLINC)
Rung(b) == b + 1

\* GMCPTRIGGERED stands for the messages to the module's watchers, posted one
\* behind the other.
Dispatch(m, e) ==
    CASE e = <<"BELL">>  -> [m EXCEPT !.bells = Rung(@)]
      [] e = <<"TTYPE">> -> [m EXCEPT !.now = Append(@, <<"TTYPE", TermType(m.n)>>),
                                      !.n = AfterTermType(m.n)]
      [] e[1] \in Actions -> DispatchIAC(m, e[1], e[2])
      [] OTHER -> [m EXCEPT !.now = Append(@, e)]

(***************************************************************************)
(* Steps                                                                   *)
(***************************************************************************)
Running == end = "ok"

\* The bytes from position p up to position q of the stream, and the units in them.
Before(p) == FlattenSeq(SubSeq(stream, 1, p.unit)) \o
             (IF p.byte = 0 THEN <<>> ELSE SubSeq(stream[p.unit + 1], 1, p.byte))
Between(p, q) == SubSeq(Before(q), Len(Before(p)) + 1, Len(Before(q)))

Odd   == {Sub("GMCP", <<"module">>), Sub("ECHO", <<"IAC", "IAC">>)}
Chars == {<<"c">>, <<"CARRIAGE">>, <<"BELL">>}
Decodable(p, q) ==
    /\ p.byte = 0 /\ q.byte = 0
    /\ \A i \in p.unit + 1 .. q.unit :
         /\ stream[i] \notin Odd
         /\ stream[i] = <<"IAC", "IAC">> => i < q.unit /\ stream[i + 1] \in Chars

\* A chunk comes off the socket and is handed to rawProcess.
Deliver ==
    \E u \in at.unit .. Len(stream) :
    \E b \in 0 .. (IF Cuts /\ u < Len(stream) THEN Len(stream[u + 1]) - 1 ELSE 0) :
      LET q == [unit |-> u, byte |-> b]
          r == RawProcess(Between(at, q))
          m == FoldLeft(Dispatch, [n |-> negotiator, now |-> out, later |-> later,
                                   bells |-> bells], r.events)
      IN /\ Running /\ Between(at, q) # <<>>
         /\ at' = q
         /\ end' = r.end
         /\ text' = IF r.end \in {"ok", "compress"} THEN text \o r.text ELSE text
         /\ negotiator' = m.n /\ out' = m.now /\ later' = m.later /\ bells' = m.bells
         /\ calm' = (calm /\ Decodable(at, q))
         /\ UNCHANGED <<stream, sizes>>

\* The 2 ms of disaptchNawsString's sendMessageDelayed are over.  They may have been
\* over before anything that was posted behind the size, its own reply included.
Due ==
    /\ end \in {"ok", "compress"} /\ later # <<>>
    /\ \E k \in Head(later) .. Len(out) :
         /\ \A i \in DOMAIN sizes : sizes[i] <= k
         /\ sizes' = Append(sizes, k)
    /\ later' = Tail(later)
    /\ UNCHANGED <<stream, at, text, bells, negotiator, out, end, calm>>

Next == Deliver \/ Due
Spec == Init /\ [][Next]_vars

(***************************************************************************)
(* Properties                                                              *)
(***************************************************************************)
TypeOK ==
    /\ stream \in Streams
    /\ at.unit \in 0 .. Len(stream) /\ at.byte \in 0 .. 8
    /\ text \in Seq(Bytes) /\ bells \in 0 .. MaxUnits
    /\ negotiator \in Negotiator
    /\ end \in {"ok", "compress", "crash", "spin"} /\ calm \in BOOLEAN

Delivered == SubSeq(stream, 1, at.unit)

\* The text a unit stands for: "everything else keep" is what the code says of the
\* second byte of a command it does not know.
TextOf(u) == CASE u = <<"c">> -> u
               [] u = <<"IAC", "NOP">> -> <<"NOP">>
               [] u = <<"IAC", "IAC">> -> <<"IAC">>
               [] OTHER -> <<>>
Meaning(s) == FlattenSeq([i \in DOMAIN s |-> TextOf(s[i])])
CountIn(u, s) == Cardinality({i \in DOMAIN s : s[i] = u})
\* i is the Rank(T, i)-th of the positions T.
Rank(T, i) == Cardinality({j \in T : j <= i})

\* While no chunk cuts a command, the text and the bells are those of the stream,
\* whatever the chunks are, and nothing crashes or hangs.
DecodesStream ==
    calm => /\ end \in {"ok", "compress"}
            /\ text = Meaning(Delivered)
            /\ bells = CountIn(<<"BELL">>, Delivered)

\* While no chunk cuts a command, every offer and every request is answered once,
\* in order, WILL and WONT by a DO or DONT and the other way round, and what the
\* server turns off is never turned on again.
IsOffer(u) == Len(u) = 3 /\ u[2] \in Actions
Offers(s)  == {i \in DOMAIN s : IsOffer(s[i])}
Answers(a, b) ==
    /\ a[3] = b[3]
    /\ CASE a[2] = "WILL" -> b[2] \in {"DO", "DONT"}
         [] a[2] = "WONT" -> b[2] = "DONT"
         [] a[2] = "DO"   -> b[2] \in {"WILL", "WONT"}
         [] a[2] = "DONT" -> b[2] = "WONT"
AnswersInOrder ==
    calm => /\ Cardinality(Offers(Delivered)) = Cardinality(Offers(out))
            /\ \A i \in Offers(Delivered), j \in Offers(out) :
                 Rank(Offers(Delivered), i) = Rank(Offers(out), j)
                   => Answers(Delivered[i], out[j])

\* The window size goes out once for every time the client agreed to send it.  The
\* delay may be over before the WILL that agrees is posted, but a size overtakes no
\* agreement but its own: the ones before it have gone out.
Agreed(s) == CountIn(Offer("WILL", "NAWS"), s)
SizePerAgreement ==
    /\ Len(sizes) + Len(later) = Agreed(out)
    /\ \A i \in DOMAIN sizes : Agreed(SubSeq(out, 1, sizes[i])) >= i - 1

\* The terminal types go out in the order of the list, the last one for ever.
TermTypesInOrder ==
    LET asked == {i \in DOMAIN out : out[i][1] = "TTYPE"}
    IN \A i \in asked : out[i][2] = TermTypes[IF Rank(asked, i) <= 4 THEN Rank(asked, i) ELSE 4]

\* "Used when a telnet negotation spans a transmission boundary"
\* (Processor.java:38): a command that is cut does no harm.  Refuted: the buffer is
\* never filled, and rawProcess reads past the end of the chunk.
HoldoverHolds ==
    (\A i \in DOMAIN stream : stream[i] \notin Odd \union {<<"IAC", "IAC">>})
      => end # "crash"
===============================================================================
