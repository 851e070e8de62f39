----------------------------- MODULE RosterText -----------------------------
(***************************************************************************)
(* The roster text a host pastes and the entries it stands for:            *)
(* src/internal/raffle/roster.go.                                          *)
(*                                                                         *)
(* A name keeps only what the parser can tell apart: the person, whether   *)
(* it is written in capitals (NameKey folds case and spaces away), and     *)
(* whether it ends in one of ",;:" (the parser trims those on some lines   *)
(* and keeps them on others).  A line keeps its name, whether it has a tab *)
(* in it, and the number on it, if there is one.                           *)
(*                                                                         *)
(* A definition whose name has an underscore in it, here and in the other  *)
(* modules, is a mutant: the definition after it with a plausible bug, used *)
(* only to show that a property notices.                                   *)
(***************************************************************************)
EXTENDS Integers, SequencesExt

CONSTANTS
    People,     \* who can be named
    Half,       \* 2^63: an int64 lies in -Half .. Half-1
    TooBig      \* what int64(f) gives for a float that is too large: the Go
                \* specification leaves it to the processor

ASSUME WidthAssumption == Half \in Nat \ {0}
ASSUME TooBigAssumption == TooBig \in -Half .. Half - 1
ASSUME PeopleAssumption == "" \notin People

\* The name of a line such as ",": nothing but punctuation.
Nobody == ""

Name == [who : People \cup {Nobody}, caps : BOOLEAN, mark : BOOLEAN]

Blank(name) == name.who = Nobody /\ ~name.mark

\* A name that survives being written out as "name, count" and read again.
Plain(name) == name.who # Nobody /\ ~name.mark

Line == [name : Name, tabbed : BOOLEAN, counted : BOOLEAN, count : Int]

NameKey(name) == <<name.who, name.mark>>
Key == (People \cup {Nobody}) \X BOOLEAN

Entry == [name : Name, key : Key, count : Int, merged : BOOLEAN]

Int64_Unbounded(x) == x
Int64(x) == ((x + Half) % (2 * Half)) - Half

---------------------------------------------------------------------------
\* Reading

\* strconv.ParseInt, then strconv.ParseFloat and a conversion for a number
\* ParseInt rejects.
parseCount(number) ==
    CASE number >= Half -> TooBig
      [] number < -Half -> -Half
      [] OTHER          -> number

\* A line with a tab keeps the name as it stands; "name, number" loses the
\* punctuation in front of the number; a line without a number is all name.
parseLine(line) ==
    [name  |-> IF line.counted /\ ~line.tabbed
                 THEN [line.name EXCEPT !.mark = FALSE]
                 ELSE line.name,
     count |-> IF line.counted THEN parseCount(line.count) ELSE 0]

AtLeastZero(n) == IF n < 0 THEN 0 ELSE n

\* Whether byKey holds the key already.
Listed_OnlyLast(entries, key) == entries # <<>> /\ Last(entries).key = key
Listed(entries, key) == \E i \in DOMAIN entries : entries[i].key = key

\* One more line for an entry that is there already.
Merge(entry, count) == [entry EXCEPT !.count = Int64(@ + count), !.merged = TRUE]

AddEntry_InFront(entries, name, count) ==
    <<[name |-> name, key |-> NameKey(name), count |-> count, merged |-> FALSE]>> \o entries
AddEntry(entries, name, count) ==
    Append(entries, [name |-> name, key |-> NameKey(name),
                     count |-> count, merged |-> FALSE])

\* The body of ParseRoster's loop, on the entries in order of first appearance.
ReadLine(entries, line) ==
    LET read  == parseLine(line)
        count == AtLeastZero(read.count)
        key   == NameKey(read.name)
    IN  IF Blank(read.name) THEN entries
        ELSE IF Listed(entries, key)
          THEN [i \in DOMAIN entries |->
                  IF entries[i].key = key THEN Merge(entries[i], count) ELSE entries[i]]
          ELSE AddEntry(entries, read.name, count)

ParseRoster(text) == FoldLeft(ReadLine, <<>>, text)

---------------------------------------------------------------------------
\* Writing

\* "name, count", one line for each entry.
FormatRoster_Reversed(entries) ==
    [i \in DOMAIN entries |->
        [name |-> entries[Len(entries) + 1 - i].name, tabbed |-> FALSE,
         counted |-> TRUE, count |-> entries[Len(entries) + 1 - i].count]]
FormatRoster(entries) ==
    [i \in DOMAIN entries |->
        [name |-> entries[i].name, tabbed |-> FALSE,
         counted |-> TRUE, count |-> entries[i].count]]

Unmerged(entries) == [i \in DOMAIN entries |-> [entries[i] EXCEPT !.merged = FALSE]]
=============================================================================
