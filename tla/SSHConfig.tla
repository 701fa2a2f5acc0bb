------------------------------ MODULE SSHConfig ------------------------------
(***************************************************************************)
(* ssh/config.Load (src/lib/ssh/config/config.go): the loop over the lines *)
(* of an ssh_config(5) file that splits each line with parseKeyValue and   *)
(* groups the options under the Host and Match lines before them.          *)
(*                                                                         *)
(* A line is a non-empty sequence of one-character strings.  The keywords  *)
(* are abstracted to one letter: "h" stands for "host", "m" for "match",   *)
(* any other letter for an option keyword; "H" and "M" are their upper-    *)
(* case spellings.  A Section is abstracted to its kind, its argument and  *)
(* the sequence of (key, value) pairs Load passed to its Set method:       *)
(* newSectionHost, newSectionMatch and Section.Set are not in this tree,   *)
(* so Set and newSectionMatch succeed or fail nondeterministically, and    *)
(* so do the environment calls (Getwd, UserHomeDir) and the parser that    *)
(* reads the file and its Includes.                                        *)
(***************************************************************************)
EXTENDS Integers, Sequences, SequencesExt, FiniteSets

CONSTANT Files   \* the line sequences p.load may return

Space == " "
Equal == "="
Quote == "\""
Hash  == "#"

\* strings.ToLower on the abstract alphabet.
LowerOf == ("H" :> "h") @@ ("M" :> "m") @@ ("O" :> "o")
ToLower(s) == [i \in DOMAIN s |-> IF s[i] \in DOMAIN LowerOf THEN LowerOf[s[i]] ELSE s[i]]

keyHost  == <<"h">>
keyMatch == <<"m">>

NoSection == [kind |-> "none"]

\* strings.Trim(s, `"`): drop every leading and every trailing quote.
RECURSIVE TrimQuotes(_)
TrimQuotes(s) ==
    IF s = <<>> THEN s
    ELSE IF Head(s) = Quote THEN TrimQuotes(Tail(s))
    ELSE IF s[Len(s)] = Quote THEN TrimQuotes(SubSeq(s, 1, Len(s) - 1))
    ELSE s

\* parseKeyValue without "if hasSeparator { continue }": every separator
\* character moves the end of the key.
RECURSIVE parseKeyValueLoopNoSkip(_, _, _, _, _)
parseKeyValueLoopNoSkip(line, y, hasSeparator, nequal, key) ==
    IF y > Len(line) THEN [key |-> key, value |-> <<>>, err |-> FALSE]
    ELSE IF line[y] \in {Space, Equal}
         THEN LET ne == IF line[y] = Equal THEN nequal + 1 ELSE nequal
              IN  IF ne > 1 THEN [key |-> key, value |-> <<>>, err |-> TRUE]
                  ELSE parseKeyValueLoopNoSkip(line, y + 1, TRUE, ne, SubSeq(line, 1, y - 1))
    ELSE IF ~hasSeparator THEN parseKeyValueLoopNoSkip(line, y + 1, FALSE, nequal, key)
    ELSE [key |-> key, value |-> SubSeq(line, y, Len(line)), err |-> FALSE]

(* The loop of parseKeyValue from rune y on.  The first space or '=' ends  *)
(* the key, a second '=' anywhere before the value is an error, and the    *)
(* first other rune after a separator starts the value, which runs to the  *)
(* end of the line.                                                        *)
RECURSIVE parseKeyValueLoop(_, _, _, _, _)
parseKeyValueLoop(line, y, hasSeparator, nequal, key) ==
    IF y > Len(line) THEN [key |-> key, value |-> <<>>, err |-> FALSE]
    ELSE IF line[y] \in {Space, Equal}
         THEN LET ne == IF line[y] = Equal THEN nequal + 1 ELSE nequal
              IN  IF ne > 1 THEN [key |-> key, value |-> <<>>, err |-> TRUE]
                  ELSE IF hasSeparator
                       THEN parseKeyValueLoop(line, y + 1, TRUE, ne, key)
                       ELSE parseKeyValueLoop(line, y + 1, TRUE, ne, SubSeq(line, 1, y - 1))
    ELSE IF ~hasSeparator THEN parseKeyValueLoop(line, y + 1, FALSE, nequal, key)
    ELSE [key |-> key, value |-> SubSeq(line, y, Len(line)), err |-> FALSE]

parseKeyValue(line) ==
    LET r == parseKeyValueLoop(line, 1, FALSE, 0, <<>>)
    IN  IF r.err THEN r
        ELSE [r EXCEPT !.key = ToLower(@), !.value = TrimQuotes(@)]

VARIABLES
    pc,         \* "idle" before Load, "loop" in its line loop, "done" after
    file,       \* the lines p.load returned
    x,          \* index of the line the loop is at
    section,    \* the section being filled, or NoSection (nil)
    sections,   \* cfg.sections
    result,     \* what Load returned: "none" yet, "nil", "config" or "error"
    lastParse   \* the line last given to parseKeyValue, and what it returned

vars == <<pc, file, x, section, sections, result, lastParse>>

Init ==
    /\ pc = "idle" /\ file = <<>> /\ x = 1
    /\ section = NoSection /\ sections = <<>>
    /\ result = "none" /\ lastParse = [line |-> <<>>]

\* Append the section being filled to cfg.sections, if there is one.
Flush == IF section = NoSection THEN sections ELSE Append(sections, section)

Line == file[x]
KV   == parseKeyValue(Line)

Fail ==
    /\ pc' = "done" /\ result' = "error"
    /\ UNCHANGED <<file, x, section, sections>>

(* Load(""): an empty file name returns nil, nil.                          *)
LoadNoFile ==
    /\ pc = "idle"
    /\ pc' = "done" /\ result' = "nil"
    /\ UNCHANGED <<file, x, section, sections, lastParse>>

(* newConfig (Getwd, UserHomeDir), newParser or p.load fails.              *)
LoadSetupFail ==
    /\ pc = "idle"
    /\ Fail /\ UNCHANGED lastParse

(* The setup succeeds and p.load returns the lines f.  loadEnvironments    *)
(* stores nothing (its condition len(kv) == 0 is never true).              *)
LoadStart(f) ==
    /\ pc = "idle"
    /\ pc' = "loop" /\ file' = f /\ x' = 1
    /\ UNCHANGED <<section, sections, result, lastParse>>

(* A line starting with '#' is skipped.                                    *)
SkipComment ==
    /\ pc = "loop" /\ x <= Len(file) /\ Line[1] = Hash
    /\ x' = x + 1
    /\ UNCHANGED <<pc, file, section, sections, result, lastParse>>

(* A line that is not a comment goes through parseKeyValue; an error ends  *)
(* Load, otherwise the key selects the case of the switch.                 *)
ParseLine ==
    /\ pc = "loop" /\ x <= Len(file) /\ Line[1] # Hash
    /\ lastParse' = [line |-> Line] @@ KV
    /\ \/ /\ KV.err
          /\ Fail
       \/ /\ ~KV.err /\ KV.key = keyHost
          /\ sections' = Flush
          /\ section' = [kind |-> "host", arg |-> KV.value, opts |-> <<>>]
          /\ x' = x + 1
          /\ UNCHANGED <<pc, file, result>>
       \/ /\ ~KV.err /\ KV.key = keyMatch
          /\ \/ /\ sections' = Flush
                /\ section' = [kind |-> "match", arg |-> KV.value, opts |-> <<>>]
                /\ x' = x + 1
                /\ UNCHANGED <<pc, file, result>>
             \/ Fail    \* newSectionMatch fails
       \/ /\ ~KV.err /\ KV.key \notin {keyHost, keyMatch}
          /\ section = NoSection
          /\ x' = x + 1
          /\ UNCHANGED <<pc, file, section, sections, result>>
       \/ /\ ~KV.err /\ KV.key \notin {keyHost, keyMatch}
          /\ section # NoSection
          /\ \/ /\ section' = [section EXCEPT !.opts = Append(@, <<KV.key, KV.value>>)]
                /\ x' = x + 1
                /\ UNCHANGED <<pc, file, sections, result>>
             \/ Fail    \* section.Set fails

\* The end of Load without the append after the loop.
FinishNoFlush ==
    /\ pc = "loop" /\ x > Len(file)
    /\ pc' = "done" /\ result' = "config"
    /\ section' = NoSection
    /\ UNCHANGED <<file, x, sections, lastParse>>

(* After the last line the section being filled is appended and Load       *)
(* returns cfg.                                                            *)
Finish ==
    /\ pc = "loop" /\ x > Len(file)
    /\ sections' = Flush /\ section' = NoSection
    /\ pc' = "done" /\ result' = "config"
    /\ UNCHANGED <<file, x, lastParse>>

Next ==
    \/ LoadNoFile
    \/ LoadSetupFail
    \/ \E f \in Files : LoadStart(f)
    \/ SkipComment
    \/ ParseLine
    \/ Finish

Spec == Init /\ [][Next]_vars

-----------------------------------------------------------------------------
(* Properties.                                                             *)

(* A line in the form ssh_config(5) documents: a keyword, a separator of   *)
(* spaces with at most one '=', and an argument, which may be enclosed in  *)
(* double quotes.                                                          *)
NotSep(c) == c \notin {Space, Equal}
CountEq(s) == Cardinality({i \in DOMAIN s : s[i] = Equal})
Unquoted(v) == \A i \in DOMAIN v : v[i] # Quote
DocumentedSplit(l, i, j) ==
    LET k == SubSeq(l, 1, i)
        s == SubSeq(l, i + 1, j)
        v == SubSeq(l, j + 1, Len(l))
    IN  /\ 1 <= i /\ i < j /\ j < Len(l)
        /\ \A n \in DOMAIN k : NotSep(k[n])
        /\ \A n \in DOMAIN s : ~NotSep(s[n])
        /\ NotSep(v[1]) /\ v[Len(v)] # Space

(* parseKeyValue splits a documented line as ssh_config(5) says: the       *)
(* keyword, compared case-insensitively, and the argument without its      *)
(* enclosing quotes; a separator with two '=' is refused.  Lines outside   *)
(* the documented form are not constrained.                                *)
ParsedAsDocumented ==
    \A i, j \in DOMAIN lastParse.line :
        DocumentedSplit(lastParse.line, i, j) =>
            LET l == lastParse.line
                k == SubSeq(l, 1, i)
                v == SubSeq(l, j + 1, Len(l))
            IN  IF CountEq(SubSeq(l, i + 1, j)) > 1 THEN lastParse.err
                ELSE /\ ~lastParse.err
                     /\ lastParse.key = ToLower(k)
                     /\ Unquoted(v) => lastParse.value = v
                     /\ (/\ Len(v) >= 2 /\ v[1] = Quote /\ v[Len(v)] = Quote
                         /\ Unquoted(SubSeq(v, 2, Len(v) - 1)))
                        => lastParse.value = SubSeq(v, 2, Len(v) - 1)

(* The sections of a file, read off the file as a whole: one section per  *)
(* Host or Match line, in file order, holding the options of the lines    *)
(* between it and the next Host or Match line; comment lines and options  *)
(* before the first Host or Match belong to no section.                   *)
IsComment(f, i) == f[i][1] = Hash
KeyOf(f, i) == parseKeyValue(f[i]).key
ValueOf(f, i) == parseKeyValue(f[i]).value
HeaderLines(f) ==
    SetToSortSeq({i \in DOMAIN f : ~IsComment(f, i) /\ KeyOf(f, i) \in {keyHost, keyMatch}}, <)
RefSections(f) ==
    LET H == HeaderLines(f)
        End(j) == IF j < Len(H) THEN H[j + 1] ELSE Len(f) + 1
        Opts(j) == SetToSortSeq({i \in H[j] + 1 .. End(j) - 1 : ~IsComment(f, i)}, <)
    IN  [j \in DOMAIN H |->
            [kind |-> IF KeyOf(f, H[j]) = keyHost THEN "host" ELSE "match",
             arg  |-> ValueOf(f, H[j]),
             opts |-> [n \in DOMAIN Opts(j) |-> <<KeyOf(f, Opts(j)[n]), ValueOf(f, Opts(j)[n])>>]]]

(* When Load returns a config, its sections are exactly the sections of   *)
(* the file: none lost at the end, none merged, none out of order, and    *)
(* every option under the Host or Match line that precedes it.            *)
SectionsFollowFile ==
    result = "config" => sections = RefSections(file)
=============================================================================
