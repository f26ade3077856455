-------------------------------- MODULE Commands --------------------------------
(***************************************************************************)
(* What becomes of a line of input: Connection.processOutputData() splits  *)
(* it at semicolons, runs its dot commands, replaces its aliases and       *)
(* collects what sendToServer() then sends in one piece.  All of it runs   *)
(* in one message of the main thread; a command of the line, and a pass of *)
(* the alias replacement, are one step each.                               *)
(*                                                                         *)
(* A line is a sequence of marks and words, words set apart by blanks that *)
(* are left out.  An alias is a word without anchors, its text a sequence  *)
(* of the same kind; script blocks and the commands of the program         *)
(* (.reconnect, ...) send nothing and are left out, and so is the echo.    *)
(***************************************************************************)
EXTENDS Naturals, Sequences, FiniteSets, SequencesExt

CONSTANTS
    Names,          \* words that are aliases
    Words,          \* other words
    MaxLine,        \* bound: length of a line
    MaxBody,        \* bound: length of the first aliases' texts, together
    MaxText         \* bound: length of a text that is still expanded

ASSUME CommandsAssumption ==
    /\ Names \cap Words = {} /\ {";", "~", "."} \cap (Names \cup Words) = {}
    /\ IsFiniteSet(Names) /\ IsFiniteSet(Words) /\ {MaxLine, MaxBody, MaxText} \subseteq Nat

Marks == {";", "~", "."}
Chars == Names \cup Words \cup Marks

VARIABLES
    aliases,        \* the text of every alias
    processPeriod,  \* dot commands are on
    semiIsNewLine,  \* semicolons separate
    line,           \* the line typed
    pc,             \* "type", "next", "alias", "send" or "done"
    list,           \* the commands left
    holdover,       \* what commands that end in ~ have left for the next one
    cmd, text,      \* the command whose aliases are replaced, and how far
    server,         \* mDataToServer, as a sequence of commands
    sent,           \* what the pump was given, <<>> for an Enter
    outcome         \* "none", "sent", "told" (Disconnected.) or "fault"

settings == <<aliases, processPeriod, semiIsNewLine>>
vars     == <<settings, line, pc, list, holdover, cmd, text, server, sent, outcome>>

Bodies == UNION {[1 .. n -> Chars] : n \in 0 .. MaxBody}

Init ==
    /\ aliases \in {f \in [Names -> Bodies] : MapThenSumSet(LAMBDA n : Len(f[n]), Names) <= MaxBody}
    /\ processPeriod \in BOOLEAN /\ semiIsNewLine \in BOOLEAN
    /\ line = <<>> /\ pc = "type" /\ list = <<>> /\ holdover = <<>>
    /\ cmd = <<>> /\ text = <<>> /\ server = <<>> /\ sent = <<>> /\ outcome = "none"

(***************************************************************************)
(* splitSemicolonSafe(), one round of its loop for every semicolon.        *)
(***************************************************************************)
Start == [list |-> <<>>, part |-> <<>>, append |-> FALSE, firstSemi |-> TRUE]

\* Continue the last command of a list.
Extend(l, s) == Append(Front(l), Last(l) \o s)

\* A semicolon with nothing since the one before it.
Literal(r) ==
    [r EXCEPT !.append = TRUE, !.firstSemi = @ /\ r.list # <<>>,
              !.list = IF @ # <<>> THEN Extend(@, <<";">>)
                       ELSE IF r.firstSemi THEN @ ELSE << <<";">> >>]

\* Mutant of Separate: after a literal semicolon a command begins.
SeparateAlways(r) == [r EXCEPT !.list = Append(@, r.part), !.part = <<>>, !.append = FALSE]

\* A semicolon that ends what was read since the one before it.  Behind a lone
\* semicolon at the beginning there is no command to continue, and it is lost.
Separate(r) ==
    [r EXCEPT !.part = <<>>, !.append = FALSE,
              !.list = IF ~r.append THEN Append(@, r.part)
                       ELSE IF @ = <<>> THEN << <<";">> >> ELSE Extend(@, r.part)]

Scan(r, c) ==
    IF c # ";" THEN [r EXCEPT !.part = Append(@, c)]
    ELSE IF r.part = <<>> THEN Literal(r) ELSE Separate(r)

splitSemicolonSafe(s) ==
    LET r == FoldLeft(Scan, Start, s) IN
    IF ~Contains(s, ";") THEN <<s>>
    ELSE IF ~r.append THEN Append(r.list, r.part)
    ELSE IF r.list = <<>> THEN <<>> ELSE Extend(r.list, r.part)

Split(s) == IF semiIsNewLine THEN splitSemicolonSafe(s) ELSE <<s>>

(***************************************************************************)
(* processOutputData().                                                    *)
(***************************************************************************)
Lines == UNION {[1 .. n -> Chars] : n \in 0 .. MaxLine}

\* A line alone of two semicolons is one, whatever semiIsNewLine says.
Type(s) ==
    /\ line' = s
    /\ \/ s = <<>> /\ pc' = "send" /\ UNCHANGED <<list, server>>
       \/ s = <<";", ";">> /\ pc' = "send" /\ server' = << <<";">> >> /\ UNCHANGED list
       \/ s \notin {<<>>, <<";", ";">>} /\ pc' = "next" /\ list' = Split(s) /\ UNCHANGED server
    /\ UNCHANGED <<settings, holdover, cmd, text, sent, outcome>>

EndsWith(s, c)   == s # <<>> /\ Last(s) = c
StartsWith(s, p) == IsPrefix(p, s)

\* Every ".." of s, from the left, as ".": of a run of dots every second one goes.
Undot(s) ==
    LET run(i) == {k \in 1 .. i : \A j \in k .. i : s[j] = "."}
    IN  FlattenSeq([i \in DOMAIN s |->
            IF s[i] = "." /\ Cardinality(run(i)) % 2 = 0 THEN <<>> ELSE <<s[i]>>])

\* Mutant of Hold: a command that ends in ~ is passed over.
HoldDrop ==
    /\ pc = "next" /\ list # <<>> /\ EndsWith(Head(list), "~")
    /\ list' = Tail(list)
    /\ UNCHANGED <<settings, line, pc, holdover, cmd, text, server, sent, outcome>>

\* A command that ends in ~ goes on with a semicolon and the next command.
Hold ==
    /\ pc = "next" /\ list # <<>> /\ EndsWith(Head(list), "~")
    /\ holdover' = holdover \o Front(Head(list)) \o <<";">> /\ list' = Tail(list)
    /\ UNCHANGED <<settings, line, pc, cmd, text, server, sent, outcome>>

\* The next command, whole.
Command == holdover \o Head(list)

Taken == /\ pc = "next" /\ list # <<>> /\ ~EndsWith(Head(list), "~")
         /\ list' = Tail(list) /\ holdover' = <<>>
         /\ UNCHANGED <<semiIsNewLine, line, server, sent, outcome>>

\* processCommand(): the dot commands.
TogglePeriod ==
    /\ Taken /\ Command = <<".", ".">> /\ processPeriod' = ~processPeriod
    /\ UNCHANGED <<aliases, pc, cmd, text>>

IsDot == processPeriod /\ StartsWith(Command, <<".">>)

\* .alias text; without a text there is an error message.
SetAlias ==
    /\ Taken /\ IsDot /\ Len(Command) > 1 /\ Command[2] \in Names
    /\ aliases' = IF Len(Command) = 2 THEN aliases
                  ELSE [aliases EXCEPT ![Command[2]] = SubSeq(Command, 3, Len(Command))]
    /\ UNCHANGED <<processPeriod, pc, cmd, text>>

\* Not an alias and not a command: an error message, or nothing at all.
Unrecognized ==
    /\ Taken /\ IsDot
    /\ Len(Command) > 1 => Command[2] \notin Names \cup {"."}
    /\ UNCHANGED <<aliases, processPeriod, pc, cmd, text>>

\* What goes on to the alias replacement.
Plain ==
    LET c == IF IsDot THEN Undot(Command) ELSE Command IN
    /\ Taken /\ Command # <<".", ".">>
    /\ ~IsDot \/ StartsWith(Command, <<".", ".">>)
    /\ cmd' = c /\ text' = c /\ pc' = IF c = <<>> THEN "next" ELSE "alias"
    /\ UNCHANGED <<aliases, processPeriod>>

(***************************************************************************)
(* doAliasReplacement(): every alias in the text, until there is none.     *)
(***************************************************************************)
HasAlias(s) == \E i \in DOMAIN s : s[i] \in Names

\* Mutant of Replace: the text of the last pass is not cleared before this one.
ReplaceMore(s) ==
    s \o FlattenSeq([i \in DOMAIN s |-> IF s[i] \in Names THEN aliases[s[i]] ELSE <<s[i]>>])

Replace(s) ==
    FlattenSeq([i \in DOMAIN s |-> IF s[i] \in Names THEN aliases[s[i]] ELSE <<s[i]>>])

Expand ==
    /\ pc = "alias" /\ HasAlias(text) /\ Len(text) <= MaxText
    /\ text' = Replace(text)
    /\ UNCHANGED <<settings, line, pc, list, holdover, cmd, server, sent, outcome>>

\* An alias was replaced: the commands of its text come next.
Reprocess ==
    /\ pc = "alias" /\ ~HasAlias(text) /\ text # cmd
    /\ list' = Split(text) \o list /\ pc' = "next"
    /\ UNCHANGED <<settings, line, holdover, cmd, text, server, sent, outcome>>

Collect ==
    /\ pc = "alias" /\ ~HasAlias(text) /\ text = cmd
    /\ server' = Append(server, cmd) /\ pc' = "next"
    /\ UNCHANGED <<settings, line, list, holdover, cmd, text, sent, outcome>>

\* The end of the line; what a ~ has held back is dropped.
EndOfLine ==
    /\ pc = "next" /\ list = <<>> /\ pc' = "send"
    /\ UNCHANGED <<settings, line, list, holdover, cmd, text, server, sent, outcome>>

(***************************************************************************)
(* The rest of sendToServer().  Without a pump there is a null to          *)
(* dereference for an Enter, and a message for anything else.              *)
(***************************************************************************)
Send ==
    /\ pc = "send" /\ pc' = "done"
    /\ \/ server # <<>> /\ sent' = server /\ outcome' = "sent"
       \/ server # <<>> /\ outcome' = "told" /\ UNCHANGED sent
       \/ line = <<>> /\ sent' = << <<>> >> /\ outcome' = "sent"
       \/ line = <<>> /\ outcome' = "fault" /\ UNCHANGED sent
       \/ server = <<>> /\ line # <<>> /\ UNCHANGED <<sent, outcome>>
    /\ UNCHANGED <<settings, line, list, holdover, cmd, text, server>>

Step == \/ Hold \/ TogglePeriod \/ SetAlias \/ Unrecognized \/ Plain
        \/ Expand \/ Reprocess \/ Collect \/ EndOfLine \/ Send

Next == Step \/ (pc = "type" /\ \E s \in Lines : Type(s))

Spec == Init /\ [][Next]_vars

\* The handler runs to the end of its message, if there is one.
FairSpec == Spec /\ WF_vars(Step)

(***************************************************************************)
(* Properties.                                                             *)
(***************************************************************************)
\* What the line means, by its positions: a semicolon alone separates, one behind
\* a ~ is itself, and of a longer run the first stands for the rest to be literal.
IsSemi(s, i) == i \in DOMAIN s /\ s[i] = ";"
Lone(s, i)   == IsSemi(s, i) /\ ~IsSemi(s, i - 1) /\ ~IsSemi(s, i + 1)
Tilde(s, i)  == i \in DOMAIN s /\ s[i] = "~" /\ Lone(s, i + 1)
Ends(s)      == {i \in DOMAIN s : Lone(s, i) /\ ~Tilde(s, i - 1)}
Silent(s, i) == i \in Ends(s) \/ Tilde(s, i)
                \/ (IsSemi(s, i) /\ ~IsSemi(s, i - 1) /\ IsSemi(s, i + 1))

\* The characters of s at positions T, in their order.
At(s, T) == FlattenSeq([i \in DOMAIN s |-> IF i \in T THEN <<s[i]>> ELSE <<>>])

\* The command that stops at position j, and all that are not empty.
Stops(s)   == Ends(s) \cup {Len(s) + 1}
Begin(s, j) == Max({0} \cup {i \in Stops(s) : i < j})
Said(s, j) == At(s, {i \in Begin(s, j) + 1 .. j - 1 : ~Silent(s, i)})
Saying(s)  == [j \in 1 .. Len(s) + 1 |->
                 IF j \in Stops(s) /\ Said(s, j) # <<>> THEN <<Said(s, j)>> ELSE <<>>]
Meaning(s) == FlattenSeq(Saying(s))

\* Some order of the aliases' names in which every text has only later ones.
Acyclic ==
    \A S \in (SUBSET Names) \ {{}} : \E n \in S : ToSet(aliases[n]) \cap S = {}

\* As many passes as there are names replace every alias, if none leads to itself.
Expanded(s) ==
    LET pass[k \in 0 .. Cardinality(Names)] == IF k = 0 THEN s ELSE Replace(pass[k - 1])
    IN  pass[Cardinality(Names)]

\* What is sent of a command.
Does(c) == IF HasAlias(c) THEN Meaning(Expanded(c)) ELSE <<c>>

\* A lone semicolon at the beginning loses the first command, a ~ at the end the last.
Whole(s) == ~Lone(s, 1) /\ ~EndsWith(s, "~") /\ ~Contains(s, ".")

\* What is sent of a line without dots is what it means, in order and whole; a command
\* with an alias is replaced by the commands its text means, its literal semicolons too.
SentAsTyped ==
    LET said == Meaning(line) IN
    outcome = "sent" /\ line # <<>> /\ semiIsNewLine /\ Acyclic /\ Whole(line)
      /\ (\A i \in DOMAIN said : HasAlias(said[i]) => Whole(Expanded(said[i])))
    => sent = FlattenSeq([i \in DOMAIN said |-> Does(said[i])])

\* The main thread comes to the end of every line, however aliases hold aliases and
\* whatever the line does to them, as long as no alias leads back to itself.
LineEnds == pc = "next" ~> pc = "done" \/ ~Acyclic
=============================================================================
