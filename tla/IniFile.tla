------------------------------ MODULE IniFile ------------------------------
(***************************************************************************)
(* Reading a key of an ini file (minIni.c), line by line.                  *)
(*                                                                         *)
(* A line is given by what the reader can tell: a section, "[name]"; a     *)
(* line that begins with "[" and has no "]"; a key, "name = value" or      *)
(* "name : value"; anything else, a comment too.  Names are equal when     *)
(* they differ in case only.  A value is a number, Empty or Text, with the *)
(* comment behind it and the blanks around it taken off.                   *)
(***************************************************************************)
EXTENDS Integers, Sequences

Empty == -1     \* ""
Text == -2      \* something that does not begin with a number

Section(n) == [kind |-> "section", name |-> n, value |-> Empty]
OpenBracket == [kind |-> "bracket", name |-> "none", value |-> Empty]
Key(n, v) == [kind |-> "key", name |-> n, value |-> v]
Other == [kind |-> "other", name |-> "none", value |-> Empty]

IniLine == {Section(n) : n \in STRING} \cup {OpenBracket, Other}
             \cup {Key(n, v) : n \in STRING, v \in Nat \cup {Empty, Text}}

\* How far getkeystring() has come: it looks for the section, then for the key,
\* until it has found it or has to give up.
Looking == [at |-> "section", value |-> Empty]
Found(v) == [at |-> "found", value |-> v]

\* Mutant: a line "[..." that is no section does not end the search for the key.
StepOverBracket(section, key, s, line) ==
    CASE s.at = "section" /\ line = Section(section) -> [s EXCEPT !.at = "key"]
      [] s.at = "key" /\ line.kind = "section" -> [s EXCEPT !.at = "gone"]
      [] s.at = "key" /\ line.kind = "key" /\ line.name = key -> Found(line.value)
      [] OTHER -> s

Step(section, key, s, line) ==
    CASE s.at = "section" /\ line = Section(section) -> [s EXCEPT !.at = "key"]
      [] s.at = "key" /\ line.kind \in {"section", "bracket"} -> [s EXCEPT !.at = "gone"]
      [] s.at = "key" /\ line.kind = "key" /\ line.name = key -> Found(line.value)
      [] OTHER -> s

getkeystring(file, section, key) ==
    LET after[n \in 0..Len(file)] ==
            IF n = 0 THEN Looking ELSE Step(section, key, after[n - 1], file[n])
    IN  after[Len(file)]

ini_gets(file, section, key, default) ==
    LET s == getkeystring(file, section, key)
    IN  IF s.at = "found" THEN s.value ELSE default

\* strtol() of a text is 0.
ini_getl(file, section, key, default) ==
    LET v == ini_gets(file, section, key, Empty)
    IN  IF v = Empty THEN default ELSE IF v = Text THEN 0 ELSE v

-----------------------------------------------------------------------------
(* What a file says of a key, read off as a whole: its first line in the     *)
(* first section of that name, up to the next line that begins with "[".     *)
FirstSection(file, section, i) ==
    /\ i \in DOMAIN file /\ file[i] = Section(section)
    /\ \A k \in 1..(i - 1) : file[k] # Section(section)

KeyLines(file, section, key) ==
    {j \in DOMAIN file :
        /\ file[j].kind = "key" /\ file[j].name = key
        /\ \E i \in 1..j :
             /\ FirstSection(file, section, i)
             /\ \A k \in (i + 1)..j : file[k].kind \notin {"section", "bracket"}}

Written(file, section, key, default) ==
    LET js == KeyLines(file, section, key)
    IN  IF js = {} THEN default
        ELSE LET v == file[CHOOSE j \in js : \A k \in js : j <= k].value
             IN  IF v = Empty THEN default ELSE IF v = Text THEN 0 ELSE v
=============================================================================
