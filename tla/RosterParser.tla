---------------------------- MODULE RosterParser ----------------------------
(***************************************************************************)
(* ParseRoster (src/internal/raffle/roster.go:45-78) line by line: each    *)
(* step reads one more line of the pasted text.  The properties compare    *)
(* the entries so far with a definition that never looks at the loop:      *)
(* which lines name a person, which of them is the first to do so, and     *)
(* what their numbers add up to.                                           *)
(***************************************************************************)
EXTENDS RosterText

CONSTANTS Lines,      \* the lines a host may type
          MaxLines    \* bound: the longest text read

ASSUME LinesAssumption == Lines \subseteq Line

VARIABLES text, entries
parserVars == <<text, entries>>

ParserInit == text = <<>> /\ entries = <<>>

NextLine(line) ==
    /\ Len(text) < MaxLines
    /\ text' = Append(text, line)
    /\ entries' = ReadLine(entries, line)

ParserNext == \E line \in Lines : NextLine(line)

ParserSpec == ParserInit /\ [][ParserNext]_parserVars

---------------------------------------------------------------------------
\* Type correctness: entries are well formed and every count fits an int64.
ParserTypeOK ==
    /\ text \in Seq(Lines)
    /\ entries \in Seq(Entry)
    /\ \A i \in DOMAIN entries : entries[i].count \in -Half .. Half - 1

\* What the text says, without the loop.
Usable == {i \in DOMAIN text : ~Blank(parseLine(text[i]).name)}
KeyAt(i) == NameKey(parseLine(text[i]).name)
CountAt(i) == AtLeastZero(parseLine(text[i]).count)
LinesOf(key) == {i \in Usable : KeyAt(i) = key}
FirstLine(key) == CHOOSE i \in LinesOf(key) : \A j \in LinesOf(key) : i <= j

\* One entry per person: two entries never share a key, every entry's key is
\* its own name's, and a person is listed exactly if some line names them.
\* Guards the UNIQUE (event_id, name_key) of 001_initial.sql:42, which
\* ReplaceRoster would trip over.
OneEntryEach ==
    /\ \A i, j \in DOMAIN entries : entries[i].key = entries[j].key => i = j
    /\ \A i \in DOMAIN entries : entries[i].key = NameKey(entries[i].name)
    /\ \A i \in DOMAIN entries : ~Blank(entries[i].name)
    /\ {entries[i].key : i \in DOMAIN entries} = {KeyAt(i) : i \in Usable}

\* "The first time a name appears fixes its position" (roster.go:44), and the
\* spelling too.
FirstSpellingFirst ==
    \A i \in DOMAIN entries :
        LET first == FirstLine(entries[i].key) IN
        /\ entries[i].name = parseLine(text[first]).name
        /\ \A j \in DOMAIN entries : i < j => first < FirstLine(entries[j].key)

\* "Repeated names are summed" (roster.go:42), in int64; Merged tells the
\* entries that more than one line fed.
CountsAreSums ==
    \A i \in DOMAIN entries :
        LET mine == LinesOf(entries[i].key) IN
        /\ entries[i].count = Int64(MapThenSumSet(CountAt, mine))
        /\ entries[i].merged <=> Cardinality(mine) > 1

\* The comment on ParseRoster (roster.go:37-45) as a whole, against definitions
\* that never look at the loop.
EntriesAreSums == FirstSpellingFirst /\ CountsAreSums

\* Writing the entries out and reading them back changes nothing but the
\* merged flags, as long as no name ends in punctuation and no sum has
\* wrapped: what syncRosterTextTx (guests.go:257-259) relies on.
RoundTrip ==
    (\A i \in DOMAIN entries : Plain(entries[i].name) /\ entries[i].count >= 0)
        => ParseRoster(FormatRoster(entries)) = Unmerged(entries)

\* "Negative counts are treated as zero" (roster.go:42): no guest ends up with
\* a negative number of diapers.
NoNegativeCount == \A i \in DOMAIN entries : entries[i].count >= 0
=============================================================================
