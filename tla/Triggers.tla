-------------------------------- MODULE Triggers --------------------------------
(***************************************************************************)
(* The triggers of a connection: the table built from them                 *)
(* (buildTriggerSystem) and Connection.dispatch(), which looks for their   *)
(* patterns in what arrives and runs their responders, line by line.       *)
(* dispatch() and every script run on the main thread; the trigger editor  *)
(* calls on a binder thread, without a lock.  A search, the responders of  *)
(* a match and a rebuild are one step each.                                *)
(*                                                                         *)
(* A trigger is its sequence number, its pattern one character, the same   *)
(* number; no other character but the newline matters.  Lines are numbered *)
(* from 0, the newest, as in TextTree; a character of the text remembers   *)
(* which line it came in.  A list that is sorted by sequence numbers is    *)
(* the set of what is in it.                                               *)
(***************************************************************************)
EXTENDS Integers, Sequences, FiniteSets, SequencesExt

CONSTANTS
    Count,          \* how many triggers there are
    Owned,          \* how many of them are in the settings, not in the plugin
    Gags, Switches, Deletes,    \* triggers whose responders gag, switch, delete
    Target,         \* the trigger that is switched or deleted
    MaxText,        \* bound: characters of a chunk
    MaxOps          \* bound: edits, scripts and chunks

Trigs == 1 .. Count

ASSUME TriggersAssumption ==
    /\ Count \in Nat /\ Owned \in 0 .. Count /\ Gags \cup Switches \cup Deletes \subseteq Trigs
    /\ Target \in Owned + 1 .. Count /\ MaxText \in Nat \ {0} /\ MaxOps \in Nat

VARIABLES
    triggers,       \* the maps getTriggers()
    enabled,        \* isEnabled() of every trigger
    sorted,         \* the lists sortedTriggers, as sets
    table,          \* mSortedTriggerMap: [list, blank], blank if nothing can match
    triggersDirty,  \* static: one flag for all connections
    pc,             \* where dispatch() is: "idle", "find", "fire" or "rebuild"
    matching,       \* mMassiveMatcher is the one dispatch() gave its text
    text,           \* stripped, as [char, line]
    pos,            \* the matcher's: end() of the last match
    first,          \* the line number mLineMap gives the first line of text
    working,        \* mWorking's lines, the newest first
    finished,       \* mFinished's, the oldest first
    lineNumber,
    keepEvaluating, replaceGagged,
    fault,          \* the main thread has thrown
    ops,            \* what is left of MaxOps
    sent, gone,     \* history: lines in the chunk, lines gagged
    rebuilt,        \* history: the table was rebuilt in this dispatch,
    edge,           \*          for a match in a last line that had no newline
    edited,         \*          from the binder thread
    wrong,          \* history: a responder was given another line than the match's
    swept           \* history: another connection has taken the flag down

config   == <<triggers, enabled, sorted, table, triggersDirty>>
search   == <<matching, text, pos, first>>
lines    == <<working, finished, lineNumber>>
history  == <<sent, gone, rebuilt, edge, edited, wrong, swept>>
vars     == <<config, pc, search, lines, keepEvaluating, replaceGagged, fault, ops, history>>

(***************************************************************************)
(* The table.                                                              *)
(***************************************************************************)
IsOwn(t)    == t <= Owned
IsPlugin(t) == t > Owned

\* The pattern begins with an empty alternative, which matches before any
\* other, when the settings add nothing and the plugin's first trigger is off.
Build(list, on) ==
    LET used == list \cap on
        plug == {t \in list : IsPlugin(t)}
    IN  [list |-> used,
         blank |-> used = {} \/ (IsPlugin(Min(used)) /\ Min(used) # Min(plug))]

\* sortTriggers() of the settings or of the plugin, whoever has t; it leaves the
\* list of an empty map.
Sort(all, t) ==
    LET part(Test(_)) == IF Test(t) /\ \E u \in all : Test(u)
                         THEN {u \in all : Test(u)} ELSE {u \in sorted : Test(u)}
    IN  part(IsOwn) \cup part(IsPlugin)

Init ==
    /\ triggers = Trigs /\ enabled \in {Trigs, Trigs \ {Target}}
    /\ sorted = Trigs /\ table = Build(sorted, enabled) /\ triggersDirty = FALSE
    /\ pc = "idle" /\ matching = FALSE /\ text = <<>> /\ pos = 0 /\ first = 0
    /\ working = <<>> /\ finished = <<>> /\ lineNumber = 0
    /\ keepEvaluating = FALSE /\ replaceGagged = FALSE
    /\ fault = FALSE /\ ops = MaxOps
    /\ sent = 0 /\ gone = {} /\ rebuilt = FALSE /\ edge = FALSE /\ edited = FALSE
    /\ wrong = FALSE /\ swept = FALSE

Alive == ~fault
Op    == ops > 0 /\ ops' = ops - 1

(***************************************************************************)
(* dispatch().                                                             *)
(***************************************************************************)
Newline == 0
Chunks  == UNION {[1 .. n -> Trigs \cup {Newline}] : n \in 1 .. MaxText}

Newlines(s) == {i \in DOMAIN s : s[i] = Newline}

\* A newline belongs to the line it ends.
Number(s, i) == Cardinality({j \in Newlines(s) : j < i})
Tagged(s)    == [i \in DOMAIN s |-> [char |-> s[i], line |-> Number(s, i) + 1]]

\* Mutant of Lines: a newline at the end begins another line.
LinesMore(s) == Cardinality(Newlines(s)) + 1

Lines(s) == Number(s, Len(s)) + 1

Countdown(n) == [i \in 1 .. n |-> n + 1 - i]

dispatch(s) ==
    /\ Alive /\ pc = "idle" /\ Op
    /\ table' = IF triggersDirty THEN Build(sorted, enabled) ELSE table
    /\ triggersDirty' = FALSE
    /\ text' = Tagged(s) /\ working' = Countdown(Lines(s)) /\ finished' = <<>>
    /\ first' = Lines(s) - 1 /\ lineNumber' = Lines(s) - 1
    /\ matching' = TRUE /\ pos' = 0 /\ keepEvaluating' = TRUE /\ replaceGagged' = FALSE
    /\ sent' = Lines(s) /\ gone' = {} /\ rebuilt' = FALSE /\ edge' = FALSE
    /\ edited' = FALSE /\ wrong' = FALSE /\ swept' = (swept /\ ~triggersDirty)
    /\ pc' = "find" /\ UNCHANGED <<triggers, enabled, sorted, fault>>

\* The text as characters, and where the table's patterns occur after the last match.
Chars == [i \in DOMAIN text |-> text[i].char]
Hits  == {i \in pos + 1 .. Len(text) : text[i].char \in table.list}

\* Mutant of Finish: the remaining lines as they are numbered.
FinishNewest ==
    /\ finished' = finished \o working /\ working' = <<>> /\ pc' = "idle"
    /\ UNCHANGED <<config, search, lineNumber, keepEvaluating, replaceGagged, fault, ops, history>>

\* The end of dispatch(): the remaining lines, oldest first.
Finish ==
    /\ finished' = finished \o Reverse(working) /\ working' = <<>> /\ pc' = "idle"
    /\ UNCHANGED <<config, search, lineNumber, keepEvaluating, replaceGagged, fault, ops, history>>

Find ==
    LET tries == keepEvaluating /\ matching /\ ~table.blank /\ Hits # {} IN
    /\ Alive /\ pc = "find"
    /\ \/ /\ tries /\ pos' = Min(Hits) /\ pc' = "fire"
          /\ UNCHANGED <<config, matching, text, first, lines, keepEvaluating, replaceGagged,
                         fault, ops, history>>
       \/ ~tries /\ Finish

(***************************************************************************)
(* The responders of a match, as functions of r, what they work on.        *)
(***************************************************************************)
Work == [triggers |-> triggers, enabled |-> enabled, dirty |-> triggersDirty,
         working |-> working, lineNumber |-> lineNumber, keep |-> keepEvaluating,
         gagged |-> replaceGagged, gone |-> gone]

OnLine(r) == r.lineNumber \in 0 .. Len(r.working) - 1

\* Mutant of Gag: the search goes on with the line of the same number.
GagStays(r) ==
    IF ~OnLine(r) THEN [r EXCEPT !.gagged = TRUE]
    ELSE [r EXCEPT !.gagged = TRUE, !.gone = @ \cup {r.working[r.lineNumber + 1]},
                   !.working = RemoveAt(@, r.lineNumber + 1),
                   !.keep = @ /\ r.lineNumber < Len(r.working) - 1]

\* GagAction, and what dispatch() does when it throws IteratorModifiedException:
\* on with the next newer line, if there is one.
Gag(r) ==
    IF ~OnLine(r) THEN [r EXCEPT !.gagged = TRUE]
    ELSE [r EXCEPT !.gagged = TRUE, !.gone = @ \cup {r.working[r.lineNumber + 1]},
                   !.working = RemoveAt(@, r.lineNumber + 1),
                   !.lineNumber = @ - 1, !.keep = @ /\ r.lineNumber > 0]

\* Mutant of Switch: the table is believed to be as it was.
SwitchQuiet(r) ==
    IF Target \notin r.triggers THEN r
    ELSE [r EXCEPT !.enabled = (@ \ {Target}) \cup ({Target} \ @), !.keep = FALSE]

\* TriggerEnabled() of a script: the flag is set whatever the state was.
Switch(r) ==
    IF Target \notin r.triggers THEN r
    ELSE [r EXCEPT !.enabled = (@ \ {Target}) \cup ({Target} \ @), !.dirty = TRUE, !.keep = FALSE]

\* DeleteTrigger() of a script: the sorted list is not touched.
Delete(r) == [r EXCEPT !.triggers = @ \ {Target}, !.dirty = TRUE, !.keep = FALSE]

Respond(r, t) ==
    LET g == IF t \in Gags THEN Gag(r) ELSE r
        s == IF t \in Switches THEN Switch(g) ELSE g
    IN  IF t \in Deletes THEN Delete(s) ELSE s

\* The line the match is in, as mLineMap has it, and lineNumber moved on to it.
MatchLine == first - Number(Chars, pos)
Advance   == [Work EXCEPT !.lineNumber = IF @ > MatchLine THEN MatchLine ELSE @]

Skip == /\ pc' = "find"
        /\ UNCHANGED <<config, search, lines, keepEvaluating, replaceGagged, fault, ops, history>>

Throw == /\ fault' = TRUE
         /\ UNCHANGED <<config, pc, search, lines, keepEvaluating, replaceGagged, ops, history>>

\* The matcher has been replaced since the search: what is left of it throws,
\* unless the new table has nothing at the old index.
FireLost == Alive /\ pc = "fire" /\ ~matching /\ (Throw \/ Skip)

Fire ==
    LET t == text[pos].char
        r == IF t \in enabled THEN Respond(Advance, t) ELSE Advance
        rebuild == r.dirty /\ t \in Switches \cup Deletes
    IN
    /\ Alive /\ pc = "fire" /\ matching
    /\ \/ MatchLine > lineNumber /\ Skip
       \/ /\ MatchLine <= lineNumber
          /\ pc' = IF rebuild THEN "rebuild" ELSE "find"
          /\ triggers' = r.triggers /\ enabled' = r.enabled /\ triggersDirty' = r.dirty
          /\ working' = r.working /\ lineNumber' = r.lineNumber
          /\ keepEvaluating' = r.keep /\ replaceGagged' = r.gagged /\ gone' = r.gone
          /\ wrong' = (wrong \/ (/\ t \in enabled /\ OnLine(Advance)
                                /\ working[Advance.lineNumber + 1] # text[pos].line))
          /\ UNCHANGED <<sorted, table, search, finished, fault, ops, sent, rebuilt, edge,
                         edited, swept>>

(***************************************************************************)
(* A responder has changed the triggers: the older lines are done with,    *)
(* and the rest of the text is searched with a new table.                  *)
(***************************************************************************)
\* The end of the match's line: its newline, or the end of the text.
LineEnd == Min({i \in Newlines(Chars) : i >= pos} \cup {Len(text) + 1})

\* Mutant of Dropped: the search goes on with the match itself.
DroppedLess == IF replaceGagged THEN LineEnd ELSE pos - 1

\* The characters dropped, if the match does not end the text: one more than the
\* match, or the line of the match once any has been gagged.
Dropped == IF pos = Len(text) THEN 0 ELSE IF replaceGagged THEN LineEnd ELSE pos + 1

Rebuild ==
    LET left == Min({lineNumber + 1, Len(working)}) IN
    /\ Alive /\ pc = "rebuild"
    /\ rebuilt' = TRUE
    /\ edge' = (edge \/ LineEnd > Len(text))
    /\ \/ /\ ~matching \/ Dropped > Len(text) \/ lineNumber < -1
          /\ fault' = TRUE
          /\ UNCHANGED <<config, pc, search, lines, keepEvaluating, replaceGagged, swept>>
       \/ /\ matching /\ Dropped <= Len(text) /\ lineNumber >= -1
          /\ text' = SubSeq(text, Dropped + 1, Len(text))
          /\ finished' = finished \o Reverse(SubSeq(working, left + 1, Len(working)))
          /\ working' = SubSeq(working, 1, left)
          /\ table' = Build(sorted, enabled) /\ triggersDirty' = FALSE
          /\ first' = left - 1 /\ lineNumber' = left - 1
          /\ pos' = 0 /\ matching' = TRUE /\ replaceGagged' = FALSE
          /\ keepEvaluating' = (left > 0) /\ pc' = "find" /\ swept' = FALSE
          /\ UNCHANGED <<triggers, enabled, sorted, fault>>
    /\ UNCHANGED <<ops, sent, gone, edited, wrong>>

(***************************************************************************)
(* Everybody else.                                                         *)
(***************************************************************************)
\* A script outside dispatch(): a timer's, an alias', a button's.
Script ==
    /\ Alive /\ pc = "idle" /\ Op
    /\ \E r \in {Switch(Work), Delete(Work)} :
         triggers' = r.triggers /\ enabled' = r.enabled /\ triggersDirty' = r.dirty
    /\ UNCHANGED <<sorted, table, pc, search, lines, keepEvaluating, replaceGagged, fault, history>>

\* dispatch() of another connection builds that one's table.
OtherConnection ==
    /\ Alive /\ pc = "idle" /\ triggersDirty /\ triggersDirty' = FALSE /\ swept' = TRUE
    /\ UNCHANGED <<triggers, enabled, sorted, table, pc, search, lines, keepEvaluating,
                   replaceGagged, fault, ops, sent, gone, rebuilt, edge, edited, wrong>>

\* buildTriggerSystem() on the binder thread, whatever the main thread is doing.
Edited ==
    /\ table' = Build(sorted', enabled') /\ triggersDirty' = FALSE /\ matching' = FALSE
    /\ edited' = TRUE /\ swept' = FALSE
    /\ UNCHANGED <<pc, text, pos, first, lines, keepEvaluating, replaceGagged, fault, sent,
                   gone, rebuilt, edge, wrong>>

setTriggerEnabled(t) ==
    /\ Alive /\ Op /\ t \in triggers
    /\ enabled' = (enabled \ {t}) \cup ({t} \ enabled)
    /\ UNCHANGED <<triggers, sorted>> /\ Edited

deleteTrigger(t) ==
    /\ Alive /\ Op /\ t \in triggers /\ triggers' = triggers \ {t}
    /\ sorted' = Sort(triggers', t) /\ UNCHANGED enabled /\ Edited

newTrigger(t) ==
    /\ Alive /\ Op /\ t \notin triggers /\ triggers' = triggers \cup {t}
    /\ enabled' = enabled \cup {t} /\ sorted' = Sort(triggers', t) /\ Edited

Dispatch == Find \/ FireLost \/ Fire \/ Rebuild

Next ==
    \/ Dispatch \/ Script \/ OtherConnection
    \/ \E s \in Chunks : dispatch(s)
    \/ \E t \in Trigs : setTriggerEnabled(t) \/ deleteTrigger(t) \/ newTrigger(t)

Spec == Init /\ [][Next]_vars
FairSpec == Spec /\ WF_vars(Dispatch)

(***************************************************************************)
(* Properties.                                                             *)
(***************************************************************************)
TypeOK ==
    /\ triggers \subseteq Trigs /\ enabled \subseteq Trigs /\ sorted \subseteq Trigs
    /\ table \in [list : SUBSET Trigs, blank : BOOLEAN] /\ triggersDirty \in BOOLEAN
    /\ pc \in {"idle", "find", "fire", "rebuild"} /\ matching \in BOOLEAN
    /\ text \in Seq([char : Trigs \cup {Newline}, line : 1 .. MaxText])
    /\ Len(text) <= MaxText /\ pos \in 0 .. Len(text)
    /\ first \in -1 .. MaxText - 1 /\ lineNumber \in -MaxText .. MaxText - 1
    /\ working \in Seq(1 .. MaxText) /\ finished \in Seq(1 .. MaxText)
    /\ keepEvaluating \in BOOLEAN /\ replaceGagged \in BOOLEAN /\ fault \in BOOLEAN
    /\ ops \in 0 .. MaxOps /\ sent \in 0 .. MaxText /\ gone \subseteq 1 .. MaxText
    /\ {rebuilt, edge, edited, wrong, swept} \subseteq BOOLEAN

\* Whatever is gagged, moved on or rebuilt on the way, every line of a chunk is
\* gagged or shown, once, and the lines stay in order.
LinesKept ==
    LET all == finished \o Reverse(working) IN
    /\ ToSet(all) = (1 .. sent) \ gone
    /\ \A i \in 1 .. Len(all) - 1 : all[i] < all[i + 1]

\* A responder works on the line its trigger matched in, as long as no responder of
\* this dispatch has changed the triggers; then the lines may be numbered anew wrongly.
RightLine == wrong => rebuilt

\* The table is built from the triggers as they are, or the flag says that it is not;
\* but the flag is one for all connections, and another one may take it down.
TableFresh == table = Build(sorted, enabled) \/ triggersDirty \/ swept

\* A dispatch comes to its end, without an exception, unless the triggers are edited
\* meanwhile, or changed by a match in a last line without a newline: then the same
\* match may be found for ever, or a line be cut where there is none.
DispatchEnds == pc = "find" ~> pc = "idle" \/ edited \/ edge

\* DeleteTrigger() "Deletes a trigger." (Plugin.java:970): it does not fire again.
DeletedIsSilent == [][Fire /\ MatchLine <= lineNumber => text[pos].char \in triggers]_vars
=============================================================================
