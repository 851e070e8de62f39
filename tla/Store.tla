------------------------------- MODULE Store -------------------------------
(***************************************************************************)
(* The raffle's database, src/internal/store: raffles (events), the guests *)
(* on each roster, the draws and their ticket stubs (draw_winners).        *)
(*                                                                         *)
(* The pool has one connection (store.go:63) and every operation runs in   *)
(* one transaction, so an operation is one action.  An operation that      *)
(* fails rolls back and is no step at all: each guard below is the         *)
(* negation of the early returns.                                          *)
(*                                                                         *)
(* A table is a function from row ids to rows.  Stubs live and die with    *)
(* their draw, so a draw holds its stubs: prize_index i is stubs[i + 1].   *)
(* Timestamps and serial numbers are left out.                             *)
(***************************************************************************)
EXTENDS RosterText

CONSTANTS
    Titles,         \* what a host may type as a name or a link; "" is blank
    Roots,          \* what is left of a slug without the suffixes
    Slugify,        \* the slug each title makes: events.go:232-239
    Names,          \* names sent to the guest endpoints, spaces trimmed
    Counts,         \* diaper counts sent to the guest endpoints
    RosterTexts,    \* texts saved from the textarea
    PrizeRequests,  \* prize counts asked for
    MaxSuffix,      \* the last suffix uniqueSlug tries: 999
    MaxEvents, MaxVersion, MaxDraws    \* bounds

VARIABLES
    events,     \* id -> [slug, name, prizes, version, text]
    guests,     \* id -> [event, name, key, count, position, merged]
    draws,      \* id -> [event, prizes, entrants, total, version, stubs]
    lastEvent, lastGuest, lastDraw     \* AUTOINCREMENT: no id comes back

vars == <<events, guests, draws, lastEvent, lastGuest, lastDraw>>

MaxPrizeCount == 20
DefaultPrizeCount == 3

Slug == [root : Roots, suffix : Seq(Nat)]
NoSlug == [root |-> "", suffix |-> <<>>]
RaffleSlug == [root |-> "raffle", suffix |-> <<>>]

Event == [slug : Slug, name : Titles, prizes : 1..MaxPrizeCount,
          version : Nat, text : Seq(Line)]
Guest == [event : Nat, name : Name, key : Key, count : Int,
          position : Nat, merged : BOOLEAN]

NoGuest == 0    \* guest_id NULL
Stub == [guest : Nat, name : Name, count : Int, revealed : BOOLEAN]
Draw(total) == [event : Nat, prizes : 1..MaxPrizeCount, entrants : Nat, total : {total},
                version : Nat, stubs : Seq(Stub)]

ASSUME RootsAssumption == {"", "raffle"} \subseteq Roots

ASSUME InputsAssumption ==
    /\ Slugify \in [Titles -> Slug]
    /\ Names \subseteq Name
    /\ Counts \subseteq -Half .. Half - 1
    /\ RosterTexts \subseteq Seq(Line)
    /\ PrizeRequests \subseteq Int
    /\ MaxSuffix \in Nat

ASSUME BoundsAssumption == MaxEvents \in Nat /\ MaxVersion \in Nat /\ MaxDraws \in Nat

Init ==
    /\ events = <<>> /\ guests = <<>> /\ draws = <<>>
    /\ lastEvent = 0 /\ lastGuest = 0 /\ lastDraw = 0

---------------------------------------------------------------------------
\* Rows

With(table, id, row) == [x \in DOMAIN table \cup {id} |-> IF x = id THEN row ELSE table[x]]
Without(table, ids) == Restrict(table, DOMAIN table \ ids)

\* A field that a request may leave out: {} or {value}.
Optional(S) == {{}} \cup {{x} : x \in S}
OrElse(given, old) == IF given = {} THEN old ELSE CHOOSE x \in given : TRUE

GuestsOf(rows, e) == {g \in DOMAIN rows : rows[g].event = e}
DrawsOf(e) == {d \in DOMAIN draws : draws[d].event = e}
Roster(e) == Restrict(guests, GuestsOf(guests, e))

\* ORDER BY position, id: the one listing that is in order.
Listings(rows, e) ==
    LET mine == GuestsOf(rows, e)
        Before(g, h) == \/ rows[g].position < rows[h].position
                        \/ rows[g].position = rows[h].position /\ g < h
    IN  {list \in [1 .. Cardinality(mine) -> mine] :
            \A i, j \in DOMAIN list : i < j => Before(list[i], list[j])}

EntryOf(row) == [name |-> row.name, key |-> row.key,
                 count |-> row.count, merged |-> row.merged]

\* ON DELETE SET NULL: a draw keeps the name and count of a guest who is gone.
Unlink_Forgotten(stubs, gone) == stubs
Unlink(stubs, gone) ==
    [i \in DOMAIN stubs |->
        IF stubs[i].guest \in gone THEN [stubs[i] EXCEPT !.guest = NoGuest] ELSE stubs[i]]
UnlinkAll(gone) == [d \in DOMAIN draws |-> [draws[d] EXCEPT !.stubs = Unlink(@, gone)]]

---------------------------------------------------------------------------
\* Raffles

\* base, base-2, base-3, ...: the first that no raffle has.  The empty set when
\* all of them are taken.
Candidate(base, n) == IF n = 1 THEN base ELSE [base EXCEPT !.suffix = Append(@, n)]
IsFree_Unchecked(slug) == TRUE
IsFree(slug) == \A e \in DOMAIN events : events[e].slug # slug
uniqueSlug(base) ==
    {Candidate(base, n) : n \in {k \in 1 .. MaxSuffix :
        /\ IsFree(Candidate(base, k))
        /\ \A m \in 1 .. k - 1 : ~IsFree(Candidate(base, m))}}

CreateEvent(title, link, prizeCount) ==
    LET prizes == IF prizeCount <= 0 THEN DefaultPrizeCount ELSE prizeCount
        slug   == CASE Slugify[link] # NoSlug  -> Slugify[link]
                    [] Slugify[title] # NoSlug -> Slugify[title]
                    [] OTHER                   -> RaffleSlug
    IN  /\ lastEvent < MaxEvents
        /\ title # ""
        /\ prizes <= MaxPrizeCount
        /\ lastEvent' = lastEvent + 1
        /\ \E free \in uniqueSlug(slug) :
             events' = With(events, lastEvent + 1,
                            [slug |-> free, name |-> title, prizes |-> prizes,
                             version |-> 0, text |-> <<>>])
        /\ UNCHANGED <<guests, draws, lastGuest, lastDraw>>

\* A new link is asked for only if it differs from the one the raffle has; its
\* own link then counts as taken.
UpdateEvent(e, title, link, prizeCount) ==
    LET wanted == Slugify[OrElse(link, "")]
        moves  == link # {} /\ wanted # events[e].slug
    IN  /\ "" \notin title
        /\ prizeCount \subseteq 1 .. MaxPrizeCount
        /\ link # {} => wanted # NoSlug
        /\ \E slug \in IF moves THEN uniqueSlug(wanted) ELSE {events[e].slug} :
             events' = [events EXCEPT ![e].name   = OrElse(title, @),
                                      ![e].prizes = OrElse(prizeCount, @),
                                      ![e].slug   = slug]
        /\ UNCHANGED <<guests, draws, lastEvent, lastGuest, lastDraw>>

\* ON DELETE CASCADE takes the roster and the draws along.
DeleteEvent(e) ==
    /\ events' = Without(events, {e})
    /\ guests' = Without(guests, GuestsOf(guests, e))
    /\ draws' = Without(draws, DrawsOf(e))
    /\ UNCHANGED <<lastEvent, lastGuest, lastDraw>>

---------------------------------------------------------------------------
\* Rosters

NextVersion_Same(version) == version
NextVersion_One(version) == 1
NextVersion(version) == version + 1

\* What an int64 column reads back: SQLite turns a sum that overflows into a
\* float, the scan fails and the transaction rolls back.
Fits_Anything(n) == TRUE
Fits(n) == n \in -Half .. Half - 1

SaveText(e, text) ==
    /\ events[e].version < MaxVersion
    /\ events' = [events EXCEPT ![e].text = text, ![e].version = NextVersion(@)]

\* The guest whose row an entry updates, if there is one.
Matching_None(e, entry) == {}
Matching(e, entry) == {g \in GuestsOf(guests, e) : guests[g].key = entry.key}

\* Guests are matched by name key: a match is updated in place, anyone else on
\* the text gets the next id, and who is no longer on it goes.
ReplaceRoster(e, text) ==
    LET entries == ParseRoster(text)
        fresh   == {i \in DOMAIN entries : Matching(e, entries[i]) = {}}
        rowOf   == [i \in DOMAIN entries |->
                       IF i \in fresh
                         THEN lastGuest + Cardinality({j \in fresh : j <= i})
                         ELSE CHOOSE g \in Matching(e, entries[i]) : TRUE]
        kept    == {rowOf[i] : i \in DOMAIN entries}
        gone    == GuestsOf(guests, e) \ kept
        row(i)  == [event |-> e, name |-> entries[i].name, key |-> entries[i].key,
                    count |-> entries[i].count, position |-> i - 1,
                    merged |-> entries[i].merged]
    IN  /\ guests' = [g \in (DOMAIN guests \ gone) \cup kept |->
                         IF g \in kept THEN row(CHOOSE i \in DOMAIN entries : rowOf[i] = g)
                         ELSE guests[g]]
        /\ lastGuest' = lastGuest + Cardinality(fresh)
        /\ draws' = UnlinkAll(gone)
        /\ SaveText(e, text)
        /\ UNCHANGED <<lastEvent, lastDraw>>

\* Regenerated text has one line per guest, so nothing is a merge any more.
ClearMerged_Not(rows, e) == rows
ClearMerged(rows, e) ==
    [g \in DOMAIN rows |->
        IF rows[g].event = e THEN [rows[g] EXCEPT !.merged = FALSE] ELSE rows[g]]

\* The tail of every guest-level operation; rows is the guest table it made.
SyncRosterText(e, rows) ==
    /\ \E list \in Listings(rows, e) :
          SaveText(e, FormatRoster([i \in DOMAIN list |-> EntryOf(rows[list[i]])]))
    /\ guests' = ClearMerged(rows, e)

Found_AnyRaffle(e, key) == {g \in DOMAIN guests : guests[g].key = key}
Found(e, key) == {g \in GuestsOf(guests, e) : guests[g].key = key}

\* COALESCE(MAX(position) + 1, 0), as a set with that one element.
EndPosition(e) ==
    LET taken == {guests[g].position : g \in GuestsOf(guests, e)}
    IN  {p \in {0} \cup {q + 1 : q \in taken} : \A q \in taken : q < p}

AddDiapersToGuest(e, g, count) ==
    /\ Fits(guests[g].count + count)
    /\ SyncRosterText(e, [guests EXCEPT ![g].count = @ + count])
    /\ UNCHANGED lastGuest

AddNewGuest(e, name, count) ==
    /\ lastGuest' = lastGuest + 1
    /\ \E position \in EndPosition(e) :
         SyncRosterText(e, With(guests, lastGuest + 1,
             [event |-> e, name |-> name, key |-> NameKey(name), count |-> count,
              position |-> position, merged |-> FALSE]))

AddDiapers(e, name, count) ==
    /\ ~Blank(name)
    /\ count >= 0
    /\ IF Found(e, NameKey(name)) = {}
         THEN AddNewGuest(e, name, count)
         ELSE \E g \in Found(e, NameKey(name)) : AddDiapersToGuest(e, g, count)
    /\ UNCHANGED <<draws, lastEvent, lastDraw>>

\* UNIQUE (event_id, name_key) refuses a name that somebody else has.
KeyIsFree_Always(e, g, key) == TRUE
KeyIsFree(e, g, key) == Found(e, key) \subseteq {g}

UpdateGuest(e, g, name, count) ==
    LET newName == OrElse(name, guests[g].name) IN
    /\ \A n \in name : ~Blank(n)
    /\ \A c \in count : c >= 0
    /\ KeyIsFree(e, g, NameKey(newName))
    /\ SyncRosterText(e, [guests EXCEPT ![g].name  = newName,
                                        ![g].key   = NameKey(newName),
                                        ![g].count = OrElse(count, @)])
    /\ UNCHANGED <<draws, lastEvent, lastGuest, lastDraw>>

DeleteGuest(e, g) ==
    /\ SyncRosterText(e, Without(guests, {g}))
    /\ draws' = UnlinkAll({g})
    /\ UNCHANGED <<lastEvent, lastGuest, lastDraw>>

---------------------------------------------------------------------------
\* Draws

Eligible(roster) == {g \in DOMAIN roster : roster[g].count > 0}
DiaperTotal(roster) ==
    Int64(SumFunctionOnSet([g \in DOMAIN roster |-> roster[g].count], Eligible(roster)))

\* raffle.Draw: the weights decide how likely each outcome is, any sequence of
\* n different candidates is possible.
Picks_WithReplacement(pool, n) == [1 .. n -> pool]
Picks(pool, n) == {picks \in [1 .. n -> pool] : IsInjective(picks)}

SealedStub(row, g) == [guest |-> g, name |-> row.name, count |-> row.count, revealed |-> FALSE]

RunDraw(e) ==
    LET pool == Eligible(Roster(e))
        n    == Min({events[e].prizes, Cardinality(pool)})
    IN  /\ lastDraw < MaxDraws
        /\ pool # {}
        /\ \E picks \in Picks(pool, n) :
             draws' = With(draws, lastDraw + 1,
                [event |-> e, prizes |-> events[e].prizes,
                 entrants |-> Cardinality(pool), total |-> DiaperTotal(Roster(e)),
                 version |-> events[e].version,
                 stubs |-> [i \in 1 .. n |-> SealedStub(guests[picks[i]], picks[i])]])
        /\ lastDraw' = lastDraw + 1
        /\ UNCHANGED <<events, guests, lastEvent, lastGuest>>

\* Tearing a torn stub answers the same and changes nothing.
RevealWinner(d, i) ==
    /\ ~draws[d].stubs[i].revealed
    /\ draws' = [draws EXCEPT ![d].stubs[i].revealed = TRUE]
    /\ UNCHANGED <<events, guests, lastEvent, lastGuest, lastDraw>>

---------------------------------------------------------------------------
Next ==
    \/ \E title, link \in Titles, n \in PrizeRequests : CreateEvent(title, link, n)
    \/ \E e \in DOMAIN events :
        \/ \E title, link \in Optional(Titles), n \in Optional(PrizeRequests) :
             UpdateEvent(e, title, link, n)
        \/ DeleteEvent(e)
        \/ \E text \in RosterTexts : ReplaceRoster(e, text)
        \/ \E name \in Names, count \in Counts : AddDiapers(e, name, count)
        \/ \E g \in GuestsOf(guests, e) :
             \/ \E name \in Optional(Names), count \in Optional(Counts) :
                  UpdateGuest(e, g, name, count)
             \/ DeleteGuest(e, g)
        \/ RunDraw(e)
    \/ \E d \in DOMAIN draws : \E i \in DOMAIN draws[d].stubs : RevealWinner(d, i)

Spec == Init /\ [][Next]_vars

---------------------------------------------------------------------------
\* Type correctness: ids stay below the AUTOINCREMENT counters, rows have the
\* columns of 001_initial.sql, and every stored count fits an int64.
TypeOK ==
    /\ lastEvent \in Nat /\ lastGuest \in Nat /\ lastDraw \in Nat
    /\ DOMAIN events \subseteq 1 .. lastEvent
    /\ DOMAIN guests \subseteq 1 .. lastGuest
    /\ DOMAIN draws \subseteq 1 .. lastDraw
    /\ events \in [DOMAIN events -> Event]
    /\ guests \in [DOMAIN guests -> Guest]
    /\ \A d \in DOMAIN draws : draws[d] \in Draw(draws[d].total)
    /\ draws = [d \in DOMAIN draws |-> draws[d]]
    /\ \A g \in DOMAIN guests : guests[g].count \in -Half .. Half - 1

\* One row per person: within a raffle no two rows share a key or a position,
\* and every row's key is its own name's.  RunDraw counts on it for "nobody
\* can take home two prizes", the listing for its order.
OneRowEach ==
    /\ \A g \in DOMAIN guests :
          guests[g].key = NameKey(guests[g].name) /\ ~Blank(guests[g].name)
    /\ \A g, h \in DOMAIN guests :
          guests[g].event = guests[h].event /\ g # h =>
             guests[g].key # guests[h].key /\ guests[g].position # guests[h].position

\* Nothing dangles: rosters and draws belong to live raffles, and a stub's
\* guest_id is null or a guest who is still on the same raffle's roster
\* (001_initial.sql:28, 53, 72-74).
NothingDangles ==
    /\ \A g \in DOMAIN guests : guests[g].event \in DOMAIN events
    /\ \A d \in DOMAIN draws :
          /\ draws[d].event \in DOMAIN events
          /\ draws[d].version <= events[draws[d].event].version
          /\ \A i \in DOMAIN draws[d].stubs :
                draws[d].stubs[i].guest \in {NoGuest} \cup GuestsOf(guests, draws[d].event)

\* A link leads to one raffle, whatever was created, renamed or moved onto
\* somebody else's link (events.go:71-88, 157-166).
OneRafflePerLink ==
    \A e, f \in DOMAIN events : events[e].slug = events[f].slug => e = f

\* A draw is called stale exactly by comparing versions (handlers.go:69).  When
\* the versions agree, the result on the table is one the roster on the screen
\* could have given: the same entrants and total, and every winner still
\* there under the printed name and with the printed count.
StaleIsHonest ==
    \A d \in DOMAIN draws :
        LET roster == Roster(draws[d].event) IN
        draws[d].version = events[draws[d].event].version =>
            /\ draws[d].entrants = Cardinality(Eligible(roster))
            /\ draws[d].total = DiaperTotal(roster)
            /\ \A i \in DOMAIN draws[d].stubs :
                  LET stub == draws[d].stubs[i] IN
                  /\ stub.guest \in Eligible(roster)
                  /\ roster[stub.guest].name = stub.name
                  /\ roster[stub.guest].count = stub.count

\* "Nobody can take home two prizes" (draw.go:33): the slips of a draw name
\* different people, by the identity the roster merges on.
NobodyWinsTwice ==
    \A d \in DOMAIN draws : \A i, j \in DOMAIN draws[d].stubs :
        NameKey(draws[d].stubs[i].name) = NameKey(draws[d].stubs[j].name) => i = j

\* The textarea and the guest rows say the same, merge flags included, as long
\* as no name on the roster ends in punctuation and no sum has wrapped.
RowsMatchText(e) ==
    \E list \in Listings(guests, e) :
        ParseRoster(events[e].text) = [i \in DOMAIN list |-> EntryOf(guests[list[i]])]
RosterInStep ==
    \A e \in DOMAIN events :
        (\A g \in GuestsOf(guests, e) : Plain(guests[g].name) /\ guests[g].count >= 0)
            => RowsMatchText(e)

\* "Regenerating means the two representations cannot drift" (guests.go:259).
NeverDrifts == \A e \in DOMAIN events : RowsMatchText(e)

\* "Guests are matched by name key rather than deleted and re-inserted, so ids
\* stay stable" (guests.go:28-30): whoever is on a roster before and after a
\* step has the same id.
IdsFollowPeople ==
    [][\A g \in DOMAIN guests, h \in DOMAIN guests' :
         guests[g].event = guests'[h].event /\ guests[g].key = guests'[h].key => g = h]_vars

\* "Bumped on every roster change" (001_initial.sql:13): the version never goes
\* back, and while it stands neither the rows nor the text move.
VersionCoversRoster ==
    [][\A e \in DOMAIN events \cap DOMAIN events' :
         /\ events[e].version <= events'[e].version
         /\ events[e].version = events'[e].version =>
               Roster(e)' = Roster(e) /\ events'[e].text = events[e].text]_vars

\* The draws keep the host's promise (SealedDraws): results stand, torn stubs
\* stay torn, and draw numbers are never used again, through every edit of the
\* roster and every change of the prize count.
Slips(draw) ==
    [i \in DOMAIN draw.stubs |-> [key   |-> NameKey(draw.stubs[i].name),
                                  name  |-> draw.stubs[i].name,
                                  count |-> draw.stubs[i].count]]
Promise == INSTANCE SealedDraws WITH
    DrawIds <- 1 .. MaxDraws,
    sealed  <- [d \in DOMAIN draws |-> [prizes   |-> draws[d].prizes,
                                        entrants |-> draws[d].entrants,
                                        slips    |-> Slips(draws[d])]],
    torn    <- UNION {{<<d, i>> : i \in {j \in DOMAIN draws[d].stubs :
                                            draws[d].stubs[j].revealed}} : d \in DOMAIN draws},
    issued  <- 1 .. lastDraw
KeepsPromise == Promise!Spec
=============================================================================
