---------------------------- MODULE StoreProofs ----------------------------
(***************************************************************************)
(* The invariants of Store, for any number of raffles, guests and draws.   *)
(***************************************************************************)
EXTENDS Store, RosterTextProofs

---------------------------------------------------------------------------
\* Tables

LEMMA FiniteIds ==
    ASSUME NEW n \in Nat, NEW S, S \subseteq 1 .. n
    PROVE  IsFiniteSet(S) /\ Cardinality(S) \in Nat
<1>1. IsFiniteSet(1 .. n)
  BY FS_Interval
<1>2. IsFiniteSet(S)
  BY <1>1, FS_Subset
<1> QED
  BY <1>2, FS_CardinalityType

LEMMA WithoutRows ==
    ASSUME NEW table, NEW ids
    PROVE  /\ DOMAIN Without(table, ids) = DOMAIN table \ ids
           /\ \A x \in DOMAIN table \ ids : Without(table, ids)[x] = table[x]
BY DEF Without, Restrict

LEMMA OrElseType ==
    ASSUME NEW S, NEW given \in Optional(S), NEW old
    PROVE  \/ OrElse(given, old) = old /\ given = {}
           \/ OrElse(given, old) \in given /\ given \subseteq S
BY DEF OrElse, Optional

---------------------------------------------------------------------------
\* Types of the guest table and of the text made from it.  A table in the
\* making has ids up to n; n is the next lastGuest.

GuestTable(rows, n) ==
    /\ DOMAIN rows \subseteq 1 .. n
    /\ rows \in [DOMAIN rows -> Guest]
    /\ \A g \in DOMAIN rows : rows[g].count \in -Half .. Half - 1

LEMMA ClearMergedType ==
    ASSUME NEW rows, NEW n \in Nat, GuestTable(rows, n), NEW e
    PROVE  /\ GuestTable(ClearMerged(rows, e), n)
           /\ DOMAIN ClearMerged(rows, e) = DOMAIN rows
           /\ \A g \in DOMAIN rows :
                LET new == ClearMerged(rows, e)[g] IN
                /\ new.event = rows[g].event /\ new.name = rows[g].name
                /\ new.key = rows[g].key /\ new.count = rows[g].count
                /\ new.position = rows[g].position
                /\ rows[g].event # e => new = rows[g]
<1>1. ASSUME NEW row \in Guest
      PROVE  LET new == [row EXCEPT !.merged = FALSE] IN
             /\ new \in Guest /\ new.event = row.event /\ new.name = row.name
             /\ new.key = row.key /\ new.count = row.count /\ new.position = row.position
  BY DEF Guest
<1> QED
  BY <1>1 DEF ClearMerged, GuestTable

LEMMA FormatType ==
    ASSUME NEW rows, NEW n \in Nat, GuestTable(rows, n), NEW e, NEW list \in Listings(rows, e)
    PROVE  FormatRoster([i \in DOMAIN list |-> EntryOf(rows[list[i]])]) \in Seq(Line)
<1>1. GuestsOf(rows, e) \subseteq 1 .. n /\ GuestsOf(rows, e) \subseteq DOMAIN rows
  BY DEF GuestsOf, GuestTable
<1>2. Cardinality(GuestsOf(rows, e)) \in Nat
  BY <1>1, FiniteIds
<1>3. list \in [1 .. Cardinality(GuestsOf(rows, e)) -> GuestsOf(rows, e)]
  BY DEF Listings
<1>4. \A i \in DOMAIN list : rows[list[i]].name \in Name /\ rows[list[i]].count \in Int
  BY <1>1, <1>3 DEF GuestTable, Guest
<1> DEFINE text == FormatRoster([i \in DOMAIN list |-> EntryOf(rows[list[i]])])
<1>5. text = [i \in DOMAIN list |-> [name |-> rows[list[i]].name, tabbed |-> FALSE,
                                     counted |-> TRUE, count |-> rows[list[i]].count]]
  BY DEF FormatRoster, EntryOf
<1> HIDE DEF text
<1>6. \A i \in DOMAIN list : text[i] \in Line
  BY <1>4, <1>5 DEF Line
<1>7. DOMAIN list = 1 .. Cardinality(GuestsOf(rows, e)) /\ DOMAIN text = DOMAIN list
  BY <1>3, <1>5
<1>8. text = [i \in DOMAIN text |-> text[i]]
  BY <1>5
<1> QED
  BY <1>2, <1>6, <1>7, <1>8 DEF text

---------------------------------------------------------------------------
\* Saving a text moves one raffle's text and version, and nothing else.
LEMMA SaveTextEffect ==
    ASSUME TypeOK, NEW e \in DOMAIN events, NEW text \in Seq(Line), SaveText(e, text)
    PROVE  /\ DOMAIN events' = DOMAIN events
           /\ events' \in [DOMAIN events' -> Event]
           /\ events'[e].version = events[e].version + 1
           /\ events'[e].slug = events[e].slug /\ events'[e].text = text
           /\ \A f \in DOMAIN events : f # e => events'[f] = events[f]
<1>1. events[e] \in Event
  BY DEF TypeOK
<1> DEFINE saved == [events[e] EXCEPT !.text = text]
           row   == [saved EXCEPT !.version = NextVersion(@)]
<1>2. /\ saved \in Event /\ saved.version = events[e].version /\ saved.slug = events[e].slug
      /\ saved.text = text
  BY <1>1 DEF Event
<1>3. row = [events[e] EXCEPT !.text = text, !.version = NextVersion(@)]
  BY <1>1 DEF Event
<1>4. events' = [events EXCEPT ![e] = row]
  BY <1>1 DEF SaveText, TypeOK, Event
<1>5. /\ row \in Event /\ row.version = events[e].version + 1 /\ row.slug = events[e].slug
      /\ row.text = text
  <2> HIDE DEF saved
  <2> QED
    BY <1>2 DEF Event, NextVersion
<1> HIDE DEF row
<1> QED
  BY <1>4, <1>5 DEF TypeOK

---------------------------------------------------------------------------
\* Draws under an edit of the roster: all of them stay, with the columns and
\* the slips they had; only the link to a guest who went is cut.
DrawsKept(gone) ==
    /\ DOMAIN draws' = DOMAIN draws
    /\ \A d \in DOMAIN draws :
          /\ draws'[d] \in Draw(draws[d].total)
          /\ draws'[d].event = draws[d].event
          /\ draws'[d].version = draws[d].version
          /\ draws'[d].prizes = draws[d].prizes
          /\ draws'[d].entrants = draws[d].entrants
          /\ DOMAIN draws'[d].stubs = DOMAIN draws[d].stubs
          /\ \A i \in DOMAIN draws[d].stubs :
                /\ draws'[d].stubs[i].name = draws[d].stubs[i].name
                /\ draws'[d].stubs[i].count = draws[d].stubs[i].count
                /\ draws'[d].stubs[i].guest =
                     IF draws[d].stubs[i].guest \in gone
                       THEN NoGuest ELSE draws[d].stubs[i].guest
    /\ draws' = [d \in DOMAIN draws' |-> draws'[d]]

\* No stub is torn open, and none is sealed again.
TornKept ==
    \A d \in DOMAIN draws : \A i \in DOMAIN draws[d].stubs :
        draws'[d].stubs[i].revealed = draws[d].stubs[i].revealed

LEMMA UnlinkType ==
    ASSUME NEW stubs \in Seq(Stub), NEW gone
    PROVE  /\ Unlink(stubs, gone) \in Seq(Stub)
           /\ DOMAIN Unlink(stubs, gone) = DOMAIN stubs
           /\ \A i \in DOMAIN stubs :
                /\ Unlink(stubs, gone)[i].name = stubs[i].name
                /\ Unlink(stubs, gone)[i].count = stubs[i].count
                /\ Unlink(stubs, gone)[i].revealed = stubs[i].revealed
                /\ Unlink(stubs, gone)[i].guest =
                     IF stubs[i].guest \in gone THEN NoGuest ELSE stubs[i].guest
<1> DEFINE new == Unlink(stubs, gone)
<1>1. ASSUME NEW stub \in Stub
      PROVE  LET cut == [stub EXCEPT !.guest = NoGuest] IN
             /\ cut \in Stub /\ cut.name = stub.name /\ cut.count = stub.count
             /\ cut.guest = NoGuest /\ cut.revealed = stub.revealed
  BY DEF Stub, NoGuest
<1>2. \A i \in DOMAIN stubs : stubs[i] \in Stub
  OBVIOUS
<1>3. /\ new = [i \in 1 .. Len(stubs) |-> new[i]]
      /\ DOMAIN stubs = 1 .. Len(stubs) /\ Len(stubs) \in Nat
      /\ \A i \in DOMAIN stubs :
            new[i] = IF stubs[i].guest \in gone THEN [stubs[i] EXCEPT !.guest = NoGuest]
                     ELSE stubs[i]
  BY DEF Unlink
<1> HIDE DEF new
<1>4. \A i \in DOMAIN stubs :
         /\ new[i] \in Stub /\ new[i].name = stubs[i].name /\ new[i].count = stubs[i].count
         /\ new[i].revealed = stubs[i].revealed
         /\ new[i].guest = IF stubs[i].guest \in gone THEN NoGuest ELSE stubs[i].guest
  BY <1>1, <1>2, <1>3
<1> QED
  BY <1>3, <1>4 DEF new

LEMMA UnlinkKeepsDraws ==
    ASSUME TypeOK, NEW gone, draws' = UnlinkAll(gone)
    PROVE  DrawsKept(gone) /\ TornKept
<1>1. /\ draws' = [d \in DOMAIN draws |-> draws'[d]] /\ DOMAIN draws' = DOMAIN draws
      /\ \A d \in DOMAIN draws :
            draws'[d] = [draws[d] EXCEPT !.stubs = Unlink(draws[d].stubs, gone)]
  BY DEF UnlinkAll
<1>2. ASSUME NEW d \in DOMAIN draws
      PROVE  /\ draws'[d] \in Draw(draws[d].total)
             /\ draws'[d].event = draws[d].event
             /\ draws'[d].version = draws[d].version
             /\ draws'[d].prizes = draws[d].prizes
             /\ draws'[d].entrants = draws[d].entrants
             /\ draws'[d].stubs = Unlink(draws[d].stubs, gone)
             /\ draws[d].stubs \in Seq(Stub)
  <2>1. draws[d] \in Draw(draws[d].total) /\ draws[d].stubs \in Seq(Stub)
    BY DEF TypeOK, Draw
  <2>2. Unlink(draws[d].stubs, gone) \in Seq(Stub)
    BY <2>1, UnlinkType
  <2>3. draws'[d] = [draws[d] EXCEPT !.stubs = Unlink(draws[d].stubs, gone)]
    BY <1>1
  <2> QED
    BY <2>1, <2>2, <2>3 DEF Draw
<1> QED
  BY <1>1, <1>2, UnlinkType DEF DrawsKept, TornKept

LEMMA SameDrawsKept ==
    ASSUME TypeOK, UNCHANGED draws
    PROVE  DrawsKept({}) /\ TornKept
BY DEF TypeOK, DrawsKept, TornKept

---------------------------------------------------------------------------
\* A table in which only rows of raffle e differ from the ones there are, and of
\* those that are there only the ones in gone may be missing.
SameElsewhere(rows, e, gone) ==
    /\ \A g \in DOMAIN guests \ gone :
          g \in DOMAIN rows /\ rows[g].event = guests[g].event
    /\ \A g \in DOMAIN guests :
          guests[g].event # e => g \in DOMAIN rows /\ rows[g] = guests[g]
    /\ \A g \in DOMAIN rows :
          rows[g].event # e => g \in DOMAIN guests /\ rows[g] = guests[g]

\* Whoever is in the guest table and in rows, on the same roster, has one id.
SameIds(rows) ==
    \A g \in DOMAIN guests, h \in DOMAIN rows :
        guests[g].event = rows[h].event /\ guests[g].key = rows[h].key => g = h

\* What the four roster operations have in common: raffle e's version moves on,
\* only rows of e change, nobody who stays gets a new id, and draws lose at most
\* links to the guests in gone.
RosterEdit(e, gone) ==
    /\ DOMAIN events' = DOMAIN events
    /\ events' \in [DOMAIN events' -> Event]
    /\ events'[e].version = events[e].version + 1
    /\ events'[e].slug = events[e].slug
    /\ \A f \in DOMAIN events : f # e => events'[f] = events[f]
    /\ lastGuest' \in Nat
    /\ GuestTable(guests', lastGuest')
    /\ gone \subseteq GuestsOf(guests, e)
    /\ SameElsewhere(guests', e, gone)
    /\ SameIds(guests')
    /\ DrawsKept(gone) /\ TornKept
    /\ UNCHANGED <<lastEvent, lastDraw>>

Inv ==
    /\ TypeOK
    /\ OneRowEach
    /\ NothingDangles
    /\ OneRafflePerLink
    /\ StaleIsHonest
    /\ NobodyWinsTwice

LEMMA EditKeepsType ==
    ASSUME Inv, NEW e \in DOMAIN events, NEW gone, RosterEdit(e, gone)
    PROVE  TypeOK'
<1>1. \A d \in DOMAIN draws' : draws'[d] \in Draw(draws'[d].total)
  <2>1. ASSUME NEW total, NEW draw \in Draw(total) PROVE draw.total = total
    BY DEF Draw
  <2> QED
    BY <2>1 DEF RosterEdit, DrawsKept
<1>2. draws' = [d \in DOMAIN draws' |-> draws'[d]] /\ DOMAIN draws' = DOMAIN draws
  BY DEF RosterEdit, DrawsKept
<1>3. /\ lastEvent' = lastEvent /\ lastDraw' = lastDraw /\ lastGuest' \in Nat
      /\ DOMAIN events' = DOMAIN events /\ events' \in [DOMAIN events' -> Event]
      /\ GuestTable(guests', lastGuest')
  BY DEF RosterEdit
<1>4. /\ lastEvent \in Nat /\ lastDraw \in Nat
      /\ DOMAIN events \subseteq 1 .. lastEvent /\ DOMAIN draws \subseteq 1 .. lastDraw
  BY DEF Inv, TypeOK
<1> QED
  BY <1>1, <1>2, <1>3, <1>4 DEF TypeOK, GuestTable

LEMMA EditKeepsLinks ==
    ASSUME Inv, NEW e \in DOMAIN events, NEW gone, RosterEdit(e, gone)
    PROVE  NothingDangles' /\ OneRafflePerLink'
<1>1. ASSUME NEW f \in DOMAIN events
      PROVE  /\ events[f].version \in Nat /\ events'[f].version >= events[f].version
             /\ events'[f].version \in Nat /\ events'[f].slug = events[f].slug
  <2>1. events[f] \in Event /\ events[f].version \in Nat
    BY DEF Inv, TypeOK, Event
  <2>2. CASE f = e
    BY <2>1, <2>2 DEF RosterEdit
  <2>3. CASE f # e
    <3>1. events'[f] = events[f]
      BY <2>3 DEF RosterEdit
    <3> QED
      BY <2>1, <3>1
  <2> QED
    BY <2>2, <2>3
<1>2. OneRafflePerLink'
  BY <1>1 DEF Inv, OneRafflePerLink, RosterEdit
<1>3. \A g \in DOMAIN guests' : guests'[g].event \in DOMAIN events'
  BY DEF Inv, NothingDangles, RosterEdit, SameElsewhere
<1>4. ASSUME NEW d \in DOMAIN draws'
      PROVE  /\ draws'[d].event \in DOMAIN events'
             /\ draws'[d].version <= events'[draws'[d].event].version
             /\ \A i \in DOMAIN draws'[d].stubs :
                  draws'[d].stubs[i].guest
                    \in {NoGuest} \cup GuestsOf(guests', draws'[d].event)
  <2>1. /\ d \in DOMAIN draws /\ draws'[d].event = draws[d].event
        /\ draws'[d].version = draws[d].version
    BY DEF RosterEdit, DrawsKept
  <2>2. /\ draws[d].event \in DOMAIN events
        /\ draws[d].version <= events[draws[d].event].version
    BY <2>1 DEF Inv, NothingDangles
  <2>3. draws[d].version \in Nat
    BY <2>1 DEF Inv, TypeOK, Draw
  <2>4. draws'[d].version <= events'[draws'[d].event].version
    BY <1>1, <2>1, <2>2, <2>3
  <2>5. ASSUME NEW i \in DOMAIN draws'[d].stubs
        PROVE  draws'[d].stubs[i].guest
                 \in {NoGuest} \cup GuestsOf(guests', draws'[d].event)
    <3>1. /\ i \in DOMAIN draws[d].stubs
          /\ draws[d].stubs[i].guest \in {NoGuest} \cup GuestsOf(guests, draws[d].event)
          /\ draws'[d].stubs[i].guest =
                IF draws[d].stubs[i].guest \in gone THEN NoGuest ELSE draws[d].stubs[i].guest
      BY <2>1 DEF Inv, NothingDangles, RosterEdit, DrawsKept
    <3> QED
      BY <2>1, <3>1 DEF RosterEdit, SameElsewhere, GuestsOf
  <2> QED
    BY <2>1, <2>2, <2>4, <2>5 DEF RosterEdit
<1> QED
  BY <1>2, <1>3, <1>4 DEF NothingDangles

LEMMA EditKeepsWinners ==
    ASSUME Inv, NEW e \in DOMAIN events, NEW gone, RosterEdit(e, gone)
    PROVE  NobodyWinsTwice'
BY DEF Inv, NobodyWinsTwice, RosterEdit, DrawsKept

\* The roster of a raffle whose rows did not move.
LEMMA SameRoster ==
    ASSUME NEW f, GuestsOf(guests', f) = GuestsOf(guests, f),
           \A g \in GuestsOf(guests, f) : guests'[g] = guests[g]
    PROVE  Roster(f)' = Roster(f)
BY DEF Roster, Restrict

LEMMA EditKeepsHonesty ==
    ASSUME Inv, NEW e \in DOMAIN events, NEW gone, RosterEdit(e, gone)
    PROVE  StaleIsHonest'
<1> SUFFICES ASSUME NEW d \in DOMAIN draws',
                    draws'[d].version = events'[draws'[d].event].version
             PROVE  LET roster == Roster(draws[d].event)' IN
                    /\ draws'[d].entrants = Cardinality(Eligible(roster))
                    /\ draws'[d].total = DiaperTotal(roster)
                    /\ \A i \in DOMAIN draws'[d].stubs :
                          LET stub == draws'[d].stubs[i] IN
                          /\ stub.guest \in Eligible(roster)
                          /\ roster[stub.guest].name = stub.name
                          /\ roster[stub.guest].count = stub.count
  BY DEF StaleIsHonest
<1> PICK f : f = draws[d].event
  OBVIOUS
<1>1. /\ d \in DOMAIN draws /\ f = draws[d].event /\ draws'[d].event = f /\ draws'[d].version = draws[d].version
      /\ draws'[d].entrants = draws[d].entrants
      /\ DOMAIN draws'[d].stubs = DOMAIN draws[d].stubs
  BY DEF RosterEdit, DrawsKept
<1>2. f \in DOMAIN events /\ draws[d].version <= events[f].version /\ events[f].version \in Nat
  BY <1>1 DEF Inv, NothingDangles, TypeOK, Event
<1>3. draws[d].version \in Nat /\ draws'[d].total = draws[d].total
  BY <1>1 DEF Inv, TypeOK, Draw, RosterEdit, DrawsKept
<1>4. f # e
  BY <1>1, <1>2, <1>3 DEF RosterEdit
<1>5. GuestsOf(guests', f) = GuestsOf(guests, f)
      /\ \A g \in GuestsOf(guests, f) : guests'[g] = guests[g]
  BY <1>4 DEF RosterEdit, SameElsewhere, GuestsOf
<1>6. Roster(f)' = Roster(f)
  BY <1>5, SameRoster
<1>7. draws[d].version = events[f].version
  BY <1>1, <1>2, <1>4 DEF RosterEdit
<1>8. \A i \in DOMAIN draws[d].stubs :
         /\ draws[d].stubs[i].guest \in Eligible(Roster(f))
         /\ Roster(f)[draws[d].stubs[i].guest].name = draws[d].stubs[i].name
         /\ Roster(f)[draws[d].stubs[i].guest].count = draws[d].stubs[i].count
  BY <1>1, <1>7 DEF Inv, StaleIsHonest
<1>9. \A i \in DOMAIN draws[d].stubs :
         /\ draws'[d].stubs[i].name = draws[d].stubs[i].name
         /\ draws'[d].stubs[i].count = draws[d].stubs[i].count
         /\ draws'[d].stubs[i].guest = draws[d].stubs[i].guest
  <2>1. \A i \in DOMAIN draws[d].stubs : draws[d].stubs[i].guest \notin gone
    BY <1>4, <1>8 DEF RosterEdit, Eligible, Roster, Restrict, GuestsOf
  <2> QED
    BY <1>1, <2>1 DEF RosterEdit, DrawsKept
<1>10. draws[d].entrants = Cardinality(Eligible(Roster(f))) /\ draws[d].total = DiaperTotal(Roster(f))
  BY <1>1, <1>7 DEF Inv, StaleIsHonest
<1> QED
  BY <1>1, <1>3, <1>6, <1>8, <1>9, <1>10

---------------------------------------------------------------------------
\* The text of a roster

\* OneRowEach of a table in the making.
RowsApart(rows) ==
    /\ \A g \in DOMAIN rows : rows[g].key = NameKey(rows[g].name) /\ ~Blank(rows[g].name)
    /\ \A g, h \in DOMAIN rows :
          rows[g].event = rows[h].event /\ g # h =>
             rows[g].key # rows[h].key /\ rows[g].position # rows[h].position

\* Raffle e's part of RosterInStep.
TextTells(e) ==
    (\A g \in GuestsOf(guests, e) : Plain(guests[g].name) /\ guests[g].count >= 0)
        => RowsMatchText(e)

\* The entries that a listing makes of the rows of one raffle.
EntriesOf(rows, list) == [i \in DOMAIN list |-> EntryOf(rows[list[i]])]

LEMMA EntryType ==
    ASSUME NEW row \in Guest
    PROVE  /\ EntryOf(row) \in Entry
           /\ EntryOf(row).name = row.name /\ EntryOf(row).key = row.key
           /\ EntryOf(row).count = row.count
           /\ EntryOf([row EXCEPT !.merged = FALSE]) = [EntryOf(row) EXCEPT !.merged = FALSE]
<1>1. /\ EntryOf(row) \in Entry
      /\ EntryOf(row).name = row.name /\ EntryOf(row).key = row.key
      /\ EntryOf(row).count = row.count
  BY DEF EntryOf, Entry, Guest
<1>2. \A m : EntryOf([row EXCEPT !.merged = m]) = [EntryOf(row) EXCEPT !.merged = m]
  BY DEF EntryOf, Guest
<1> QED
  BY <1>1, <1>2, Zenon

\* A listing names every row once.
LEMMA ListingType ==
    ASSUME NEW rows, NEW n \in Nat, GuestTable(rows, n), NEW e, NEW list \in Listings(rows, e)
    PROVE  /\ DOMAIN list = 1 .. Cardinality(GuestsOf(rows, e))
           /\ Cardinality(GuestsOf(rows, e)) \in Nat
           /\ \A i \in DOMAIN list : list[i] \in GuestsOf(rows, e) /\ list[i] \in DOMAIN rows
           /\ \A i, j \in DOMAIN list : list[i] = list[j] => i = j
<1>1. GuestsOf(rows, e) \subseteq 1 .. n /\ GuestsOf(rows, e) \subseteq DOMAIN rows
  BY DEF GuestsOf, GuestTable
<1>2. Cardinality(GuestsOf(rows, e)) \in Nat
  BY <1>1, FiniteIds
<1>3. /\ list \in [1 .. Cardinality(GuestsOf(rows, e)) -> GuestsOf(rows, e)]
      /\ \A i, j \in DOMAIN list : i < j =>
            \/ rows[list[i]].position < rows[list[j]].position
            \/ rows[list[i]].position = rows[list[j]].position /\ list[i] < list[j]
  BY DEF Listings
<1>4. \A i \in DOMAIN list : rows[list[i]].position \in Nat /\ list[i] \in Nat
  BY <1>1, <1>3 DEF GuestTable, Guest
<1>5. ASSUME NEW i \in DOMAIN list, NEW j \in DOMAIN list, i < j
      PROVE  list[i] # list[j]
  BY <1>3, <1>4, <1>5
<1>6. \A i, j \in DOMAIN list : i \in Nat /\ j \in Nat
  BY <1>2, <1>3
<1> QED
  BY <1>1, <1>2, <1>3, <1>5, <1>6

\* What guest-level operations write back is the text of the rows they leave.
LEMMA SyncTells ==
    ASSUME TypeOK, NEW e \in DOMAIN events, NEW rows, NEW n \in Nat, GuestTable(rows, n),
           RowsApart(rows), SyncRosterText(e, rows)
    PROVE  TextTells(e)'
<1>1. PICK list \in Listings(rows, e) : SaveText(e, FormatRoster(EntriesOf(rows, list)))
  BY DEF SyncRosterText, EntriesOf
<1> DEFINE es == EntriesOf(rows, list)
<1>2. FormatRoster(es) \in Seq(Line)
  BY FormatType DEF EntriesOf
<1>3. events'[e].text = FormatRoster(es)
  BY <1>1, <1>2, SaveTextEffect
<1>4. /\ DOMAIN list = 1 .. Cardinality(GuestsOf(rows, e))
      /\ Cardinality(GuestsOf(rows, e)) \in Nat
      /\ \A i \in DOMAIN list : list[i] \in GuestsOf(rows, e) /\ list[i] \in DOMAIN rows
      /\ \A i, j \in DOMAIN list : list[i] = list[j] => i = j
  BY ListingType
<1>5. /\ DOMAIN es = DOMAIN list /\ es = [i \in DOMAIN list |-> es[i]]
      /\ \A i \in DOMAIN list : es[i] = EntryOf(rows[list[i]])
  BY DEF EntriesOf
<1> HIDE DEF es
<1>6. ASSUME NEW i \in DOMAIN list
      PROVE  /\ rows[list[i]] \in Guest /\ rows[list[i]].event = e
             /\ es[i] \in Entry /\ es[i].count = rows[list[i]].count
             /\ es[i].name = rows[list[i]].name /\ es[i].key = rows[list[i]].key
  <2>1. rows[list[i]] \in Guest /\ rows[list[i]].event = e
    BY <1>4 DEF GuestTable, GuestsOf
  <2> QED
    BY <1>5, <2>1, EntryType
<1>7. WellFormed(es)
  <2>1. es \in Seq(Entry)
    BY <1>4, <1>5, <1>6
  <2>2. \A i \in DOMAIN es : es[i].count \in -Half .. Half - 1
    BY <1>4, <1>5, <1>6 DEF GuestTable
  <2>3. \A i \in DOMAIN es : es[i].key = NameKey(es[i].name) /\ ~Blank(es[i].name)
    BY <1>4, <1>5, <1>6 DEF RowsApart
  <2>4. \A i, j \in DOMAIN es : es[i].key = es[j].key => i = j
    BY <1>4, <1>5, <1>6 DEF RowsApart
  <2> QED
    BY <2>1, <2>2, <2>3, <2>4 DEF WellFormed
<1>8. /\ DOMAIN guests' = DOMAIN rows
      /\ \A g \in DOMAIN rows :
            /\ guests'[g].event = rows[g].event /\ guests'[g].name = rows[g].name
            /\ guests'[g].count = rows[g].count /\ guests'[g].position = rows[g].position
            /\ rows[g].event = e => guests'[g] = [rows[g] EXCEPT !.merged = FALSE]
  BY ClearMergedType DEF SyncRosterText, ClearMerged
<1>9. GuestsOf(guests', e) = GuestsOf(rows, e)
  BY <1>8 DEF GuestsOf
<1>10. list \in Listings(guests', e)
  <2>1. \A g \in GuestsOf(rows, e) : guests'[g].position = rows[g].position
    BY <1>8 DEF GuestsOf
  <2> QED
    BY <1>9, <2>1 DEF Listings
<1> SUFFICES ASSUME \A g \in GuestsOf(guests', e) :
                       Plain(guests'[g].name) /\ guests'[g].count >= 0
             PROVE  RowsMatchText(e)'
  BY DEF TextTells
<1>11. \A i \in DOMAIN es : Plain(es[i].name) /\ es[i].count >= 0
  BY <1>4, <1>5, <1>6, <1>8, <1>9
<1>12. ParseRoster(FormatRoster(es)) = Unmerged(es)
  BY <1>7, <1>11, ReadsBack
<1>13. \A i \in DOMAIN list : EntryOf(guests'[list[i]]) = [es[i] EXCEPT !.merged = FALSE]
  <2> TAKE i \in DOMAIN list
  <2>1. guests'[list[i]] = [rows[list[i]] EXCEPT !.merged = FALSE] /\ rows[list[i]] \in Guest
    BY <1>4, <1>6, <1>8
  <2>2. EntryOf([rows[list[i]] EXCEPT !.merged = FALSE])
          = [EntryOf(rows[list[i]]) EXCEPT !.merged = FALSE]
    BY <2>1, EntryType
  <2> QED
    BY <1>5, <2>1, <2>2, Zenon
<1>14. Unmerged(es) = [i \in DOMAIN list |-> EntryOf(guests'[list[i]])]
  <2>1. Unmerged(es) = [i \in DOMAIN list |-> [es[i] EXCEPT !.merged = FALSE]]
    BY <1>5 DEF Unmerged
  <2> QED
    BY <1>13, <2>1, Zenon
<1>15. ParseRoster(events'[e].text) = [i \in DOMAIN list |-> EntryOf(guests'[list[i]])]
  BY <1>3, <1>12, <1>14, Zenon
<1> QED
  BY <1>10, <1>15 DEF RowsMatchText

---------------------------------------------------------------------------
\* The operations that write the text back: all but ReplaceRoster.

LEMMA SyncIsEdit ==
    ASSUME Inv, NEW e \in DOMAIN events, NEW gone, gone \subseteq GuestsOf(guests, e),
           NEW rows, NEW n \in Nat, GuestTable(rows, n), lastGuest' = n,
           RowsApart(rows), SameElsewhere(rows, e, gone), SameIds(rows),
           SyncRosterText(e, rows), DrawsKept(gone), TornKept, UNCHANGED <<lastEvent, lastDraw>>
    PROVE  RosterEdit(e, gone) /\ OneRowEach' /\ TextTells(e)'
<1>1. PICK list \in Listings(rows, e) :
         SaveText(e, FormatRoster([i \in DOMAIN list |-> EntryOf(rows[list[i]])]))
  BY DEF SyncRosterText
<1>2. PICK text \in Seq(Line) : SaveText(e, text)
  BY <1>1, FormatType
<1>3. /\ DOMAIN events' = DOMAIN events
      /\ events' \in [DOMAIN events' -> Event]
      /\ events'[e].version = events[e].version + 1
      /\ events'[e].slug = events[e].slug
      /\ \A f \in DOMAIN events : f # e => events'[f] = events[f]
  BY <1>2, SaveTextEffect DEF Inv
<1>4. guests' = ClearMerged(rows, e)
  BY DEF SyncRosterText
<1>5. /\ GuestTable(guests', n)
      /\ DOMAIN guests' = DOMAIN rows
      /\ \A g \in DOMAIN rows :
            /\ guests'[g].event = rows[g].event /\ guests'[g].name = rows[g].name
            /\ guests'[g].key = rows[g].key /\ guests'[g].position = rows[g].position
            /\ rows[g].event # e => guests'[g] = rows[g]
  BY <1>4, ClearMergedType
<1>6. SameElsewhere(guests', e, gone) /\ SameIds(guests')
  BY <1>5 DEF SameElsewhere, SameIds
<1>7. OneRowEach'
  BY <1>5 DEF OneRowEach, RowsApart
<1>8. RosterEdit(e, gone)
  BY <1>3, <1>5, <1>6 DEF RosterEdit
<1>9. TextTells(e)'
  BY SyncTells DEF Inv
<1> QED
  BY <1>7, <1>8, <1>9

LEMMA DeleteGuestIsEdit ==
    ASSUME Inv, NEW e \in DOMAIN events, NEW g \in GuestsOf(guests, e), DeleteGuest(e, g)
    PROVE  RosterEdit(e, {g}) /\ OneRowEach' /\ TextTells(e)'
<1>1. PICK rows : rows = Without(guests, {g})
  OBVIOUS
<1>2. /\ DOMAIN rows = DOMAIN guests \ {g}
      /\ \A x \in DOMAIN guests \ {g} : rows[x] = guests[x]
      /\ rows = [x \in DOMAIN rows |-> rows[x]]
  BY <1>1, WithoutRows DEF Without, Restrict
<1>3. GuestTable(rows, lastGuest)
  BY <1>2 DEF GuestTable, Inv, TypeOK
<1>4. RowsApart(rows)
  BY <1>2 DEF RowsApart, Inv, OneRowEach
<1>5. SameElsewhere(rows, e, {g}) /\ SameIds(rows)
  BY <1>2 DEF SameElsewhere, GuestsOf, SameIds, Inv, OneRowEach
<1>6. /\ SyncRosterText(e, rows) /\ draws' = UnlinkAll({g}) /\ lastGuest' = lastGuest
      /\ UNCHANGED <<lastEvent, lastDraw>>
  BY <1>1 DEF DeleteGuest
<1>7. DrawsKept({g}) /\ TornKept
  BY <1>6, UnlinkKeepsDraws DEF Inv
<1>8. lastGuest \in Nat /\ {g} \subseteq GuestsOf(guests, e)
  BY DEF Inv, TypeOK
<1> QED
  BY <1>3, <1>4, <1>5, <1>6, <1>7, <1>8, SyncIsEdit

LEMMA UpdateGuestIsEdit ==
    ASSUME Inv, NEW e \in DOMAIN events, NEW g \in GuestsOf(guests, e),
           NEW name \in Optional(Names), NEW count \in Optional(Counts),
           UpdateGuest(e, g, name, count)
    PROVE  RosterEdit(e, {}) /\ OneRowEach' /\ TextTells(e)'
<1> PICK newName : newName = OrElse(name, guests[g].name)
  OBVIOUS
<1> PICK newCount : newCount = OrElse(count, guests[g].count)
  OBVIOUS
<1>1. g \in DOMAIN guests /\ guests[g] \in Guest /\ guests[g].event = e
  BY DEF GuestsOf, Inv, TypeOK
<1>2. newName \in Name /\ ~Blank(newName) /\ NameKey(newName) \in Key
  <2>1. guests[g].name \in Name /\ ~Blank(guests[g].name)
    BY <1>1 DEF Guest, Inv, OneRowEach
  <2>2. \A x \in name : ~Blank(x)
    BY DEF UpdateGuest
  <2>3. newName \in Name /\ ~Blank(newName)
    BY <2>1, <2>2, OrElseType, InputsAssumption
  <2> QED
    BY <2>3 DEF NameKey, Key, Name
<1>3. newCount \in -Half .. Half - 1 /\ newCount \in Int
  <2>1. guests[g].count \in -Half .. Half - 1
    BY <1>1 DEF Inv, TypeOK
  <2>2. newCount = guests[g].count \/ newCount \in Counts
    BY OrElseType
  <2>3. newCount \in -Half .. Half - 1
    BY <2>1, <2>2, InputsAssumption
  <2> QED
    BY <2>3, WidthAssumption
<1> DEFINE renamed == [guests[g] EXCEPT !.name = newName]
           keyed   == [renamed EXCEPT !.key = NameKey(newName)]
           row     == [keyed EXCEPT !.count = newCount]
<1>4. /\ renamed \in Guest /\ renamed.name = newName /\ renamed.event = e
      /\ renamed.position = guests[g].position
  BY <1>1, <1>2 DEF Guest
<1>5. /\ keyed \in Guest /\ keyed.name = newName /\ keyed.event = e
      /\ keyed.key = NameKey(newName) /\ keyed.position = guests[g].position
  <2> HIDE DEF renamed
  <2> QED
    BY <1>2, <1>4 DEF Guest
<1>6. /\ row \in Guest /\ row.name = newName /\ row.event = e /\ row.count = newCount
      /\ row.key = NameKey(newName) /\ row.position = guests[g].position
  <2> HIDE DEF keyed
  <2> QED
    BY <1>3, <1>5 DEF Guest
<1>7. PICK rows : rows = [guests EXCEPT ![g].name  = newName,
                                        ![g].key   = NameKey(newName),
                                        ![g].count = OrElse(count, @)]
  OBVIOUS
<1>8. rows = [guests EXCEPT ![g] = row]
  BY <1>1, <1>7 DEF Guest, Inv, TypeOK
<1> HIDE DEF row
<1>9. /\ DOMAIN rows = DOMAIN guests /\ rows[g] = row
      /\ \A x \in DOMAIN guests : x # g => rows[x] = guests[x]
      /\ rows = [x \in DOMAIN rows |-> rows[x]]
  BY <1>1, <1>8 DEF Inv, TypeOK
<1>10. GuestTable(rows, lastGuest)
  BY <1>3, <1>6, <1>9 DEF GuestTable, Inv, TypeOK
<1>11. \A x \in DOMAIN guests :
          guests[x].event = e /\ x # g => guests[x].key # NameKey(newName)
  BY DEF UpdateGuest, KeyIsFree, Found, GuestsOf
<1>12. RowsApart(rows)
  <2>1. \A x \in DOMAIN rows : rows[x].key = NameKey(rows[x].name) /\ ~Blank(rows[x].name)
    BY <1>2, <1>6, <1>9 DEF Inv, OneRowEach
  <2>2. ASSUME NEW x \in DOMAIN rows, NEW y \in DOMAIN rows,
               rows[x].event = rows[y].event, x # y
        PROVE  rows[x].key # rows[y].key /\ rows[x].position # rows[y].position
    <3>1. \A z \in DOMAIN rows : rows[z].event = guests[z].event
                                  /\ rows[z].position = guests[z].position
      BY <1>1, <1>6, <1>9
    <3>2. guests[x].event = guests[y].event /\ x \in DOMAIN guests /\ y \in DOMAIN guests
      BY <2>2, <3>1, <1>9
    <3>3. guests[x].key # guests[y].key /\ guests[x].position # guests[y].position
      BY <2>2, <3>2 DEF Inv, OneRowEach
    <3>4. CASE x = g
      BY <1>1, <1>6, <1>9, <1>11, <2>2, <3>1, <3>2, <3>3, <3>4
    <3>5. CASE y = g
      BY <1>1, <1>6, <1>9, <1>11, <2>2, <3>1, <3>2, <3>3, <3>5
    <3>6. CASE x # g /\ y # g
      BY <1>9, <3>2, <3>3, <3>6
    <3> QED
      BY <3>4, <3>5, <3>6
  <2> QED
    BY <2>1, <2>2 DEF RowsApart
<1>13. SameElsewhere(rows, e, {}) /\ SameIds(rows)
  <2>1. SameElsewhere(rows, e, {})
    BY <1>1, <1>6, <1>9 DEF SameElsewhere
  <2>2. ASSUME NEW x \in DOMAIN guests, NEW h \in DOMAIN rows,
               guests[x].event = rows[h].event, guests[x].key = rows[h].key
        PROVE  x = h
    <3>1. CASE h = g
      BY <1>6, <1>9, <1>11, <2>2, <3>1
    <3>2. CASE h # g
      BY <1>9, <2>2, <3>2 DEF Inv, OneRowEach
    <3> QED
      BY <3>1, <3>2
  <2> QED
    BY <2>1, <2>2 DEF SameIds
<1>14. /\ SyncRosterText(e, rows) /\ lastGuest' = lastGuest
       /\ UNCHANGED <<draws, lastEvent, lastDraw>>
  BY <1>7 DEF UpdateGuest
<1>15. DrawsKept({}) /\ TornKept /\ lastGuest \in Nat
  BY <1>14, SameDrawsKept DEF Inv, TypeOK
<1> QED
  BY <1>10, <1>12, <1>13, <1>14, <1>15, SyncIsEdit

LEMMA AddToGuestIsEdit ==
    ASSUME Inv, NEW e \in DOMAIN events, NEW g \in GuestsOf(guests, e), NEW count \in Counts,
           AddDiapersToGuest(e, g, count), UNCHANGED <<draws, lastEvent, lastDraw>>
    PROVE  RosterEdit(e, {}) /\ OneRowEach' /\ TextTells(e)'
<1>1. g \in DOMAIN guests /\ guests[g] \in Guest /\ guests[g].event = e
  BY DEF GuestsOf, Inv, TypeOK
<1>2. PICK sum : sum = guests[g].count + count
  OBVIOUS
<1>3. sum \in -Half .. Half - 1 /\ sum \in Int
  BY <1>2, WidthAssumption DEF AddDiapersToGuest, Fits
<1>4. PICK rows : rows = [guests EXCEPT ![g].count = @ + count]
  OBVIOUS
<1> DEFINE row == [guests[g] EXCEPT !.count = sum]
<1>5. /\ row \in Guest /\ row.name = guests[g].name /\ row.event = e /\ row.count = sum
      /\ row.key = guests[g].key /\ row.position = guests[g].position
  BY <1>1, <1>3 DEF Guest
<1>6. rows = [guests EXCEPT ![g] = row]
  BY <1>1, <1>2, <1>4 DEF Guest, Inv, TypeOK
<1> HIDE DEF row
<1>7. /\ DOMAIN rows = DOMAIN guests /\ rows[g] = row
      /\ \A x \in DOMAIN guests : x # g => rows[x] = guests[x]
      /\ rows = [x \in DOMAIN rows |-> rows[x]]
  BY <1>1, <1>6 DEF Inv, TypeOK
<1>8. \A x \in DOMAIN guests :
         /\ rows[x].name = guests[x].name /\ rows[x].key = guests[x].key
         /\ rows[x].event = guests[x].event /\ rows[x].position = guests[x].position
  BY <1>1, <1>5, <1>7
<1>9. GuestTable(rows, lastGuest)
  BY <1>3, <1>5, <1>7 DEF GuestTable, Inv, TypeOK
<1>10. RowsApart(rows)
  BY <1>7, <1>8 DEF RowsApart, Inv, OneRowEach
<1>11. SameElsewhere(rows, e, {}) /\ SameIds(rows)
  BY <1>1, <1>5, <1>7, <1>8 DEF SameElsewhere, SameIds, Inv, OneRowEach
<1>12. SyncRosterText(e, rows) /\ lastGuest' = lastGuest
  BY <1>4 DEF AddDiapersToGuest
<1>13. DrawsKept({}) /\ TornKept /\ lastGuest \in Nat
  BY SameDrawsKept DEF Inv, TypeOK
<1> QED
  BY <1>9, <1>10, <1>11, <1>12, <1>13, SyncIsEdit

LEMMA AddNewIsEdit ==
    ASSUME Inv, NEW e \in DOMAIN events, NEW name \in Names, NEW count \in Counts,
           ~Blank(name), Found(e, NameKey(name)) = {},
           AddNewGuest(e, name, count), UNCHANGED <<draws, lastEvent, lastDraw>>
    PROVE  RosterEdit(e, {}) /\ OneRowEach' /\ TextTells(e)'
<1>1. PICK n \in Nat : n = lastGuest + 1
  BY DEF Inv, TypeOK
<1>2. PICK position \in EndPosition(e) :
         SyncRosterText(e, With(guests, lastGuest + 1,
             [event |-> e, name |-> name, key |-> NameKey(name), count |-> count,
              position |-> position, merged |-> FALSE]))
  BY DEF AddNewGuest
<1> DEFINE row == [event |-> e, name |-> name, key |-> NameKey(name), count |-> count,
                   position |-> position, merged |-> FALSE]
<1>3. PICK rows : rows = With(guests, n, row)
  OBVIOUS
<1>4. SyncRosterText(e, rows) /\ lastGuest' = n
  BY <1>1, <1>2, <1>3 DEF AddNewGuest
<1>5. position \in Nat /\ \A g \in GuestsOf(guests, e) : guests[g].position < position
  <2>1. \A g \in GuestsOf(guests, e) : guests[g].position \in Nat
    BY DEF GuestsOf, Inv, TypeOK, Guest
  <2> QED
    BY <2>1 DEF EndPosition
<1>6. row \in Guest /\ count \in -Half .. Half - 1
  <2>1. name \in Name /\ NameKey(name) \in Key
    BY InputsAssumption DEF NameKey, Key, Name
  <2>2. count \in -Half .. Half - 1 /\ count \in Int
    BY InputsAssumption, WidthAssumption
  <2>3. e \in Nat
    BY DEF Inv, TypeOK
  <2> QED
    BY <1>5, <2>1, <2>2, <2>3 DEF Guest
<1>7. /\ row.event = e /\ row.name = name /\ row.key = NameKey(name)
      /\ row.count = count /\ row.position = position
  OBVIOUS
<1> HIDE DEF row
<1>8. n \notin DOMAIN guests
  BY <1>1 DEF Inv, TypeOK
<1>9. /\ DOMAIN rows = DOMAIN guests \cup {n} /\ rows[n] = row
      /\ \A x \in DOMAIN guests : rows[x] = guests[x]
      /\ rows = [x \in DOMAIN rows |-> rows[x]]
  BY <1>3, <1>8 DEF With
<1>10. GuestTable(rows, n)
  BY <1>1, <1>6, <1>7, <1>9 DEF GuestTable, Inv, TypeOK
<1>11. \A x \in DOMAIN guests : guests[x].event = e =>
          guests[x].key # NameKey(name) /\ guests[x].position # position
  <2>1. \A x \in DOMAIN guests : guests[x].event = e => guests[x].key # NameKey(name)
    BY DEF Found, GuestsOf
  <2>2. \A x \in DOMAIN guests : guests[x].event = e =>
           guests[x].position < position /\ guests[x].position \in Nat
    BY <1>5 DEF GuestsOf, Inv, TypeOK, Guest
  <2> QED
    BY <1>5, <2>1, <2>2
<1>12. RowsApart(rows)
  <2>1. \A x \in DOMAIN rows : rows[x].key = NameKey(rows[x].name) /\ ~Blank(rows[x].name)
    BY <1>7, <1>9 DEF Inv, OneRowEach
  <2>2. \A x, y \in DOMAIN rows : rows[x].event = rows[y].event /\ x # y =>
           rows[x].key # rows[y].key /\ rows[x].position # rows[y].position
    <3>1. \A x \in DOMAIN guests : rows[x].event = e =>
             rows[x].key # rows[n].key /\ rows[x].position # rows[n].position
      BY <1>7, <1>9, <1>11
    <3>2. \A x, y \in DOMAIN guests : rows[x].event = rows[y].event /\ x # y =>
             rows[x].key # rows[y].key /\ rows[x].position # rows[y].position
      BY <1>9 DEF Inv, OneRowEach
    <3> QED
      BY <1>7, <1>9, <3>1, <3>2
  <2> QED
    BY <2>1, <2>2 DEF RowsApart
<1>13. SameElsewhere(rows, e, {}) /\ SameIds(rows)
  <2>1. \A x, y \in DOMAIN guests :
           guests[x].event = guests[y].event /\ guests[x].key = guests[y].key => x = y
    BY DEF Inv, OneRowEach
  <2> QED
    BY <1>7, <1>9, <1>11, <2>1 DEF SameElsewhere, SameIds
<1>14. DrawsKept({}) /\ TornKept
  BY SameDrawsKept DEF Inv
<1> QED
  BY <1>4, <1>10, <1>12, <1>13, <1>14, SyncIsEdit

LEMMA AddDiapersIsEdit ==
    ASSUME Inv, NEW e \in DOMAIN events, NEW name \in Names, NEW count \in Counts,
           AddDiapers(e, name, count)
    PROVE  RosterEdit(e, {}) /\ OneRowEach' /\ TextTells(e)'
<1>1. CASE Found(e, NameKey(name)) = {}
  BY <1>1, AddNewIsEdit DEF AddDiapers
<1>2. CASE Found(e, NameKey(name)) # {}
  <2>1. PICK g \in Found(e, NameKey(name)) : AddDiapersToGuest(e, g, count)
    BY <1>2 DEF AddDiapers
  <2>2. g \in GuestsOf(guests, e)
    BY DEF Found
  <2> QED
    BY <2>1, <2>2, AddToGuestIsEdit DEF AddDiapers
<1> QED
  BY <1>1, <1>2

---------------------------------------------------------------------------
\* ReplaceRoster

\* The new rows get consecutive ids: the rank of an entry among the fresh ones.
LEMMA Rank ==
    ASSUME NEW m \in Nat, NEW S, S \subseteq 1 .. m,
           NEW rank, rank = [i \in S |-> Cardinality({j \in S : j <= i})]
    PROVE  /\ \A i \in S : rank[i] \in 1 .. Cardinality(S)
           /\ \A i, k \in S : i < k => rank[i] < rank[k]
<1>1. PICK upTo : upTo = [i \in S |-> {j \in S : j <= i}]
  OBVIOUS
<1>2. IsFiniteSet(S) /\ Cardinality(S) \in Nat
  BY FiniteIds
<1>3. ASSUME NEW i \in S
      PROVE  /\ rank[i] = Cardinality(upTo[i]) /\ rank[i] \in Nat
             /\ rank[i] <= Cardinality(S) /\ rank[i] # 0 /\ IsFiniteSet(upTo[i])
  <2>1. rank[i] = Cardinality(upTo[i])
    BY <1>1
  <2>2. upTo[i] \in SUBSET S /\ i \in upTo[i] /\ upTo[i] # {}
    BY <1>1
  <2>3. IsFiniteSet(upTo[i]) /\ Cardinality(upTo[i]) <= Cardinality(S)
    BY <1>2, <2>2, FS_Subset
  <2>4. Cardinality(upTo[i]) \in Nat /\ Cardinality(upTo[i]) # 0
    BY <2>2, <2>3, FS_CardinalityType, FS_EmptySet
  <2> QED
    BY <2>1, <2>3, <2>4, Zenon
<1>4. ASSUME NEW i \in S, NEW k \in S, i < k
      PROVE  rank[i] < rank[k]
  <2>1. i \in Int /\ k \in Int /\ S \subseteq Int
    OBVIOUS
  <2>2. upTo[i] \in SUBSET upTo[k]
    <3>1. /\ upTo[i] = {j \in S : j <= i} /\ upTo[k] = {j \in S : j <= k}
      BY <1>1
    <3>2. \A j \in S : j <= i => j <= k
      BY <1>4, <2>1
    <3> QED
      BY <3>1, <3>2, Zenon
  <2>3. k \in upTo[k] /\ k \notin upTo[i]
    BY <1>1, <1>4
  <2>4. Cardinality(upTo[i]) <= Cardinality(upTo[k])
    BY <1>3, <2>2, FS_Subset
  <2>5. Cardinality(upTo[k]) # Cardinality(upTo[i])
    BY <1>3, <2>2, <2>3, FS_Subset
  <2>6. Cardinality(upTo[i]) \in Nat /\ Cardinality(upTo[k]) \in Nat
    BY <1>3, FS_CardinalityType
  <2>7. Cardinality(upTo[i]) < Cardinality(upTo[k])
    BY <2>4, <2>5, <2>6
  <2> QED
    BY <1>3, <2>7, Zenon
<1> QED
  BY <1>2, <1>3, <1>4

LEMMA ReplaceRosterIsEdit ==
    ASSUME Inv, NEW e \in DOMAIN events, NEW text \in RosterTexts, ReplaceRoster(e, text)
    PROVE  (\E gone : RosterEdit(e, gone)) /\ OneRowEach' /\ TextTells(e)'
<1> DEFINE entries == ParseRoster(text)
           fresh == {i \in DOMAIN entries : Matching(e, entries[i]) = {}}
           rowOf == [i \in DOMAIN entries |->
                       IF i \in fresh
                         THEN lastGuest + Cardinality({j \in fresh : j <= i})
                         ELSE CHOOSE g \in Matching(e, entries[i]) : TRUE]
           kept == {rowOf[i] : i \in DOMAIN entries}
           gone == GuestsOf(guests, e) \ kept
           entryOf(g) == CHOOSE i \in DOMAIN entries : rowOf[i] = g
           row == [i \in DOMAIN entries |->
                     [event |-> e, name |-> entries[i].name, key |-> entries[i].key,
                      count |-> entries[i].count, position |-> i - 1,
                      merged |-> entries[i].merged]]
<1>1. guests' = [g \in (DOMAIN guests \ gone) \cup kept |->
                   IF g \in kept
                     THEN [event |-> e, name |-> entries[entryOf(g)].name,
                           key |-> entries[entryOf(g)].key,
                           count |-> entries[entryOf(g)].count,
                           position |-> entryOf(g) - 1,
                           merged |-> entries[entryOf(g)].merged]
                     ELSE guests[g]]
  BY DEF ReplaceRoster
<1>2. /\ lastGuest' = lastGuest + Cardinality(fresh)
       /\ draws' = UnlinkAll(gone)
       /\ SaveText(e, text)
       /\ UNCHANGED <<lastEvent, lastDraw>>
  BY DEF ReplaceRoster
<1>3. /\ entries \in Seq(Entry)
      /\ \A i \in DOMAIN entries :
            /\ entries[i].count \in -Half .. Half - 1
            /\ entries[i].key = NameKey(entries[i].name) /\ ~Blank(entries[i].name)
      /\ \A i, j \in DOMAIN entries : entries[i].key = entries[j].key => i = j
  <2>1. Describes(text, entries)
    BY InputsAssumption, TextsAreDescribed
  <2> QED
    BY <2>1 DEF Describes, WellFormed
<1> HIDE DEF entries, fresh, rowOf, kept, gone, row
<1>4. PICK m \in Nat : DOMAIN entries = 1 .. m
  BY <1>3
<1>5. \A i \in DOMAIN entries : entries[i] \in Entry
  BY <1>3
<1>6. \A i \in DOMAIN entries :
         /\ row[i] \in Guest /\ row[i].event = e /\ row[i].count = entries[i].count
         /\ row[i].name = entries[i].name /\ row[i].key = entries[i].key
         /\ row[i].position = i - 1
  <2>1. e \in Nat
    BY DEF Inv, TypeOK
  <2> QED
    BY <1>4, <1>5, <2>1 DEF row, Entry, Guest
<1>7. /\ lastGuest \in Nat /\ DOMAIN guests \subseteq 1 .. lastGuest
      /\ guests \in [DOMAIN guests -> Guest]
      /\ \A g \in DOMAIN guests : guests[g].count \in -Half .. Half - 1
  BY DEF Inv, TypeOK
<1>8. fresh \subseteq 1 .. m
  BY <1>4 DEF fresh
<1>9. Cardinality(fresh) \in Nat
  BY <1>8, FiniteIds
<1>10. PICK rank : rank = [i \in fresh |-> Cardinality({j \in fresh : j <= i})]
  OBVIOUS
<1>11. /\ \A i \in fresh : rank[i] \in 1 .. Cardinality(fresh)
      /\ \A i, k \in fresh : i < k => rank[i] < rank[k]
  BY <1>10, <1>8, Rank
<1>12. \A i \in fresh : rowOf[i] = lastGuest + rank[i]
  BY <1>4, <1>8, <1>10 DEF rowOf
<1>13. \A i \in fresh : rowOf[i] \in lastGuest + 1 .. lastGuest + Cardinality(fresh)
  BY <1>7, <1>9, <1>11, <1>12
<1>14. \A i \in DOMAIN entries \ fresh :
          /\ rowOf[i] \in GuestsOf(guests, e) /\ rowOf[i] \in DOMAIN guests
          /\ guests[rowOf[i]].event = e /\ guests[rowOf[i]].key = entries[i].key
  BY DEF fresh, rowOf, Matching, GuestsOf
<1>15. \A i \in DOMAIN entries : rowOf[i] \in DOMAIN guests => i \notin fresh
  BY <1>7, <1>9, <1>13
<1>16. \A i, k \in DOMAIN entries : rowOf[i] = rowOf[k] => i = k
  <2> SUFFICES ASSUME NEW i \in DOMAIN entries, NEW k \in DOMAIN entries, rowOf[i] = rowOf[k]
               PROVE  i = k
    OBVIOUS
  <2>1. CASE i \in fresh /\ k \in fresh
    <3>1. rank[i] = rank[k] /\ rank[i] \in Nat /\ rank[k] \in Nat
      BY <1>7, <1>9, <1>11, <1>12, <2>1
    <3>2. i \in Nat /\ k \in Nat
      BY <1>4
    <3> QED
      BY <1>11, <2>1, <3>1, <3>2
  <2>2. CASE i \notin fresh /\ k \notin fresh
    BY <1>3, <1>14, <2>2
  <2>3. CASE ~(i \in fresh <=> k \in fresh)
    BY <1>14, <1>15, <2>3
  <2> QED
    BY <2>1, <2>2, <2>3
<1>17. /\ DOMAIN guests' = (DOMAIN guests \ gone) \cup kept
       /\ guests' = [g \in DOMAIN guests' |-> guests'[g]]
       /\ \A g \in DOMAIN guests' \ kept : guests'[g] = guests[g]
  BY <1>1
<1>18. \A i \in DOMAIN entries : rowOf[i] \in kept /\ guests'[rowOf[i]] = row[i]
  <2> TAKE i \in DOMAIN entries
  <2>1. rowOf[i] \in kept
    BY DEF kept
  <2>2. entryOf(rowOf[i]) = i
    BY <1>16
  <2> QED
    BY <1>1, <2>1, <2>2 DEF row
<1>19. \A g \in kept : \E i \in DOMAIN entries : g = rowOf[i] /\ guests'[g] = row[i]
  BY <1>18 DEF kept
<1>20. \A g \in DOMAIN guests' \ kept : g \in DOMAIN guests /\ guests[g].event # e
  BY <1>17 DEF gone, GuestsOf
<1>21. \A g \in kept : guests'[g].event = e
  BY <1>6, <1>19
<1>22. \A g \in kept : g \in DOMAIN guests => guests[g].event = e
  BY <1>14, <1>15, <1>19
<1>23. GuestTable(guests', lastGuest')
  <2>1. \A g \in kept : g \in 1 .. lastGuest' /\ guests'[g] \in Guest
                        /\ guests'[g].count \in -Half .. Half - 1
    BY <1>3, <1>2, <1>6, <1>7, <1>9, <1>13, <1>14, <1>19
  <2>2. \A g \in DOMAIN guests' \ kept : g \in 1 .. lastGuest' /\ guests'[g] \in Guest
                                         /\ guests'[g].count \in -Half .. Half - 1
    BY <1>2, <1>7, <1>9, <1>17, <1>20
  <2> QED
    BY <1>17, <2>1, <2>2 DEF GuestTable
<1>24. SameElsewhere(guests', e, gone)
  <2>1. \A g \in gone : g \in DOMAIN guests /\ guests[g].event = e
    BY DEF gone, GuestsOf
  <2> QED
    BY <1>17, <1>20, <1>21, <1>22, <2>1 DEF SameElsewhere
<1>25. OneRowEach'
  <2>1. ASSUME NEW g \in DOMAIN guests'
        PROVE  guests'[g].key = NameKey(guests'[g].name) /\ ~Blank(guests'[g].name)
    <3>1. CASE g \in kept
      BY <1>3, <1>6, <1>19, <3>1
    <3>2. CASE g \notin kept
      BY <1>17, <1>20, <3>2 DEF Inv, OneRowEach
    <3> QED
      BY <3>1, <3>2
  <2>2. ASSUME NEW g \in DOMAIN guests', NEW h \in DOMAIN guests',
               guests'[g].event = guests'[h].event, g # h
        PROVE  guests'[g].key # guests'[h].key /\ guests'[g].position # guests'[h].position
    <3>1. CASE g \in kept /\ h \in kept
      <4>1. PICK i \in DOMAIN entries, k \in DOMAIN entries :
               g = rowOf[i] /\ h = rowOf[k] /\ guests'[g] = row[i] /\ guests'[h] = row[k]
        BY <1>19, <3>1
      <4>2. i # k /\ i \in Nat /\ k \in Nat
        BY <1>4, <2>2, <4>1
      <4> QED
        BY <1>3, <1>6, <4>1, <4>2
    <3>2. CASE g \notin kept /\ h \notin kept
      BY <1>17, <1>20, <2>2, <3>2 DEF Inv, OneRowEach
    <3>3. CASE ~(g \in kept <=> h \in kept)
      BY <1>17, <1>20, <1>21, <2>2, <3>3
    <3> QED
      BY <3>1, <3>2, <3>3
  <2> QED
    BY <2>1, <2>2 DEF OneRowEach
<1>26. DrawsKept(gone) /\ TornKept
  BY <1>2, UnlinkKeepsDraws DEF Inv
<1>27. text \in Seq(Line) /\ TypeOK
  BY InputsAssumption DEF Inv
<1>28. /\ DOMAIN events' = DOMAIN events
       /\ events' \in [DOMAIN events' -> Event]
       /\ events'[e].version = events[e].version + 1
       /\ events'[e].slug = events[e].slug /\ events'[e].text = text
       /\ \A f \in DOMAIN events : f # e => events'[f] = events[f]
  BY <1>2, <1>27, SaveTextEffect
<1>29. SameIds(guests')
  <2> SUFFICES ASSUME NEW g \in DOMAIN guests, NEW h \in DOMAIN guests',
                      guests[g].event = guests'[h].event, guests[g].key = guests'[h].key
               PROVE  g = h
    BY DEF SameIds
  <2>1. CASE h \in kept
    <3>1. PICK i \in DOMAIN entries : h = rowOf[i] /\ guests'[h] = row[i]
      BY <1>19, <2>1
    <3>2. g \in Matching(e, entries[i])
      BY <1>6, <3>1 DEF Matching, GuestsOf
    <3>3. i \notin fresh
      BY <3>2 DEF fresh
    <3>4. /\ h \in DOMAIN guests /\ guests[h].event = e /\ guests[h].key = entries[i].key
      BY <1>14, <3>1, <3>3
    <3> QED
      BY <3>2, <3>4 DEF Matching, GuestsOf, Inv, OneRowEach
  <2>2. CASE h \notin kept
    BY <1>17, <1>20, <2>2 DEF Inv, OneRowEach
  <2> QED
    BY <2>1, <2>2
<1>30. RosterEdit(e, gone)
  <2>1. gone \subseteq GuestsOf(guests, e)
    BY DEF gone
  <2> QED
    BY <1>2, <1>7, <1>9, <1>23, <1>24, <1>26, <1>28, <1>29, <2>1 DEF RosterEdit
<1>31. \A i \in DOMAIN entries : EntryOf(row[i]) = entries[i]
  <2> TAKE i \in DOMAIN entries
  <2>1. \A b : EntryOf([event |-> e, name |-> entries[i].name, key |-> entries[i].key,
                       count |-> entries[i].count, position |-> i - 1, merged |-> b])
                = [name |-> entries[i].name, key |-> entries[i].key,
                   count |-> entries[i].count, merged |-> b]
    BY DEF EntryOf
  <2>2. entries[i] = [name |-> entries[i].name, key |-> entries[i].key,
                      count |-> entries[i].count, merged |-> entries[i].merged]
    <3>1. \A entry \in Entry : entry = [name |-> entry.name, key |-> entry.key,
                                       count |-> entry.count, merged |-> entry.merged]
      <4>1. \A M : \A entry \in [name : Name, key : Key, count : Int, merged : M] :
               entry = [name |-> entry.name, key |-> entry.key,
                        count |-> entry.count, merged |-> entry.merged]
        OBVIOUS
      <4> QED
        BY <4>1, Zenon DEF Entry
    <3> QED
      BY <1>5, <3>1, Zenon
  <2>3. row[i] = [event |-> e, name |-> entries[i].name, key |-> entries[i].key,
                  count |-> entries[i].count, position |-> i - 1,
                  merged |-> entries[i].merged]
    BY Zenon DEF row
  <2> QED
    BY <2>1, <2>2, <2>3, Zenon
<1>32. GuestsOf(guests', e) = kept
  BY <1>17, <1>20, <1>21 DEF GuestsOf
<1>33. rowOf \in Listings(guests', e)
  <2>1. DOMAIN rowOf = 1 .. m /\ rowOf = [i \in 1 .. m |-> rowOf[i]]
    BY <1>4 DEF rowOf
  <2>2. rowOf \in [1 .. m -> kept]
    BY <1>4, <1>18, <2>1
  <2>3. Cardinality(kept) = m
    <3>1. IsFiniteSet(1 .. m) /\ Cardinality(1 .. m) = m
      BY FS_Interval
    <3>2. ExistsBijection(1 .. m, kept)
      BY <1>4, <1>16, <1>19, <2>2 DEF ExistsBijection, Bijection, Injection, Surjection, IsInjective
    <3> QED
      BY <3>1, <3>2, FS_Bijection
  <2>4. ASSUME NEW i \in 1 .. m, NEW j \in 1 .. m, i < j
        PROVE  guests'[rowOf[i]].position < guests'[rowOf[j]].position
    <3>1. guests'[rowOf[i]].position = i - 1 /\ guests'[rowOf[j]].position = j - 1
      BY <1>4, <1>6, <1>18
    <3> QED
      BY <2>4, <3>1
  <2> QED
    BY <1>32, <2>1, <2>2, <2>3, <2>4 DEF Listings
<1>34. ParseRoster(events'[e].text) = [i \in DOMAIN rowOf |-> EntryOf(guests'[rowOf[i]])]
  <2>1. DOMAIN rowOf = DOMAIN entries
    BY DEF rowOf
  <2>2. entries = [i \in DOMAIN entries |-> entries[i]]
    BY <1>3
  <2>3. ParseRoster(events'[e].text) = entries
    BY <1>28 DEF entries
  <2> QED
    BY <1>18, <1>31, <2>1, <2>2, <2>3, Zenon
<1>35. TextTells(e)'
  BY <1>33, <1>34 DEF TextTells, RowsMatchText
<1> QED
  BY <1>25, <1>30, <1>35

---------------------------------------------------------------------------
\* Raffles

\* What CreateEvent, UpdateEvent and DeleteEvent have in common: the raffles in
\* dead go with their rosters and draws, texts and versions of the others stand,
\* and a raffle that is new has no text.
RaffleEdit(dead) ==
    /\ lastEvent' \in Nat
    /\ DOMAIN events' \subseteq 1 .. lastEvent'
    /\ events' \in [DOMAIN events' -> Event]
    /\ dead \cap DOMAIN events' = {}
    /\ \A f \in DOMAIN events \ dead :
          /\ f \in DOMAIN events'
          /\ events'[f].version = events[f].version /\ events'[f].text = events[f].text
    /\ \A f \in DOMAIN events' : f \notin DOMAIN events => events'[f].text = <<>>
    /\ DOMAIN guests' = {g \in DOMAIN guests : guests[g].event \notin dead}
    /\ guests' = [g \in DOMAIN guests' |-> guests[g]]
    /\ DOMAIN draws' = {d \in DOMAIN draws : draws[d].event \notin dead}
    /\ draws' = [d \in DOMAIN draws' |-> draws[d]]
    /\ UNCHANGED <<lastGuest, lastDraw>>

LEMMA RaffleEditKeepsInv ==
    ASSUME Inv, NEW dead, RaffleEdit(dead), OneRafflePerLink'
    PROVE  Inv'
<1>1. /\ DOMAIN guests' \subseteq DOMAIN guests
      /\ \A g \in DOMAIN guests' : guests'[g] = guests[g]
      /\ DOMAIN draws' \subseteq DOMAIN draws
      /\ \A d \in DOMAIN draws' : draws'[d] = draws[d]
  BY DEF RaffleEdit
<1>2. TypeOK'
  <2>1. /\ lastEvent' \in Nat /\ lastGuest' \in Nat /\ lastDraw' \in Nat
        /\ DOMAIN events' \subseteq 1 .. lastEvent' /\ events' \in [DOMAIN events' -> Event]
        /\ DOMAIN guests' \subseteq 1 .. lastGuest' /\ DOMAIN draws' \subseteq 1 .. lastDraw'
    BY <1>1 DEF RaffleEdit, Inv, TypeOK
  <2>2. guests' \in [DOMAIN guests' -> Guest]
    BY <1>1 DEF RaffleEdit, Inv, TypeOK
  <2>3. \A g \in DOMAIN guests' : guests'[g].count \in -Half .. Half - 1
    BY <1>1 DEF Inv, TypeOK
  <2>4. \A d \in DOMAIN draws' : draws'[d] \in Draw(draws'[d].total)
    BY <1>1 DEF Inv, TypeOK
  <2>5. draws' = [d \in DOMAIN draws' |-> draws'[d]]
    BY <1>1 DEF RaffleEdit
  <2> QED
    BY <2>1, <2>2, <2>3, <2>4, <2>5 DEF TypeOK
<1>3. OneRowEach'
  BY <1>1 DEF Inv, OneRowEach
<1>4. \A d \in DOMAIN draws' :
         /\ draws[d].event \in DOMAIN events /\ draws[d].event \in DOMAIN events'
         /\ events'[draws[d].event].version = events[draws[d].event].version
  BY DEF RaffleEdit, Inv, NothingDangles
<1>5. \A d \in DOMAIN draws' :
         GuestsOf(guests', draws[d].event) = GuestsOf(guests, draws[d].event)
  BY <1>1 DEF RaffleEdit, GuestsOf
<1>6. NothingDangles'
  <2>1. \A g \in DOMAIN guests' : guests'[g].event \in DOMAIN events'
    BY <1>1 DEF RaffleEdit, Inv, NothingDangles
  <2> QED
    BY <1>1, <1>4, <1>5, <2>1 DEF Inv, NothingDangles
<1>7. NobodyWinsTwice'
  BY <1>1 DEF Inv, NobodyWinsTwice
<1>8. StaleIsHonest'
  <2> SUFFICES ASSUME NEW d \in DOMAIN draws',
                      draws'[d].version = events'[draws'[d].event].version
               PROVE  LET roster == Roster(draws[d].event)' IN
                      /\ draws'[d].entrants = Cardinality(Eligible(roster))
                      /\ draws'[d].total = DiaperTotal(roster)
                      /\ \A i \in DOMAIN draws'[d].stubs :
                            LET stub == draws'[d].stubs[i] IN
                            /\ stub.guest \in Eligible(roster)
                            /\ roster[stub.guest].name = stub.name
                            /\ roster[stub.guest].count = stub.count
    BY DEF StaleIsHonest
  <2>1. PICK f : f = draws[d].event
    OBVIOUS
  <2>2. d \in DOMAIN draws /\ draws'[d] = draws[d] /\ draws'[d].event = f
    BY <1>1, <2>1
  <2>3. draws[d].version = events[draws[d].event].version
    BY <1>4, <2>2
  <2>4. GuestsOf(guests', f) = GuestsOf(guests, f)
    BY <1>5, <2>1
  <2>5. Roster(f)' = Roster(f)
    <3>1. \A g \in GuestsOf(guests, f) : guests'[g] = guests[g]
      BY <1>1, <2>4 DEF GuestsOf
    <3> QED
      BY <2>4, <3>1, SameRoster
  <2>6. /\ draws[d].entrants = Cardinality(Eligible(Roster(f)))
        /\ draws[d].total = DiaperTotal(Roster(f))
        /\ \A i \in DOMAIN draws[d].stubs :
              /\ draws[d].stubs[i].guest \in Eligible(Roster(f))
              /\ Roster(f)[draws[d].stubs[i].guest].name = draws[d].stubs[i].name
              /\ Roster(f)[draws[d].stubs[i].guest].count = draws[d].stubs[i].count
    BY <2>1, <2>2, <2>3 DEF Inv, StaleIsHonest
  <2> QED
    BY <2>1, <2>2, <2>5, <2>6
<1> QED
  BY <1>2, <1>3, <1>6, <1>7, <1>8 DEF Inv

\* uniqueSlug answers a link that no raffle has.
LEMMA UniqueSlugIsFree ==
    ASSUME NEW base \in Slug, NEW slug \in uniqueSlug(base)
    PROVE  slug \in Slug /\ IsFree(slug)
<1>1. PICK n \in 1 .. MaxSuffix : slug = Candidate(base, n) /\ IsFree(slug)
  BY DEF uniqueSlug
<1>2. n \in Nat
  BY InputsAssumption
<1>3. Append(base.suffix, n) \in Seq(Nat)
  BY <1>2 DEF Slug
<1>4. [base EXCEPT !.suffix = Append(@, n)] \in Slug
  BY <1>3 DEF Slug
<1> QED
  BY <1>1, <1>4 DEF Candidate

LEMMA CreateEventIsEdit ==
    ASSUME Inv, NEW title \in Titles, NEW link \in Titles, NEW n \in PrizeRequests,
           CreateEvent(title, link, n)
    PROVE  RaffleEdit({}) /\ OneRafflePerLink'
<1> DEFINE prizes == IF n <= 0 THEN DefaultPrizeCount ELSE n
           slug == CASE Slugify[link] # NoSlug  -> Slugify[link]
                     [] Slugify[title] # NoSlug -> Slugify[title]
                     [] OTHER                   -> RaffleSlug
<1>1. prizes \in 1 .. MaxPrizeCount
  <2>1. n \in Int
    BY InputsAssumption
  <2>2. prizes <= MaxPrizeCount
    BY DEF CreateEvent
  <2> QED
    BY <2>1, <2>2 DEF DefaultPrizeCount, MaxPrizeCount
<1>2. slug \in Slug
  <2>1. Slugify[link] \in Slug /\ Slugify[title] \in Slug
    BY InputsAssumption
  <2>2. RaffleSlug \in Slug
    <3>1. <<>> \in Seq(Nat)
      OBVIOUS
    <3> QED
      BY <3>1, RootsAssumption DEF RaffleSlug, Slug
  <2> QED
    BY <2>1, <2>2
<1>3. PICK free \in uniqueSlug(slug) :
         events' = With(events, lastEvent + 1,
                        [slug |-> free, name |-> title, prizes |-> prizes,
                         version |-> 0, text |-> <<>>])
  BY DEF CreateEvent
<1> HIDE DEF prizes, slug
<1>4. free \in Slug /\ IsFree(free)
  BY <1>2, <1>3, UniqueSlugIsFree
<1>5. PICK row : row = [slug |-> free, name |-> title, prizes |-> prizes,
                        version |-> 0, text |-> <<>>]
  OBVIOUS
<1>6. row \in Event /\ row.slug = free /\ row.text = <<>>
  BY <1>1, <1>4, <1>5 DEF Event
<1>7. PICK e : e = lastEvent + 1
  OBVIOUS
<1>8. /\ lastEvent \in Nat /\ DOMAIN events \subseteq 1 .. lastEvent
      /\ lastGuest \in Nat /\ events \in [DOMAIN events -> Event]
      /\ guests = [g \in DOMAIN guests |-> guests[g]]
      /\ draws = [d \in DOMAIN draws |-> draws[d]]
  BY DEF Inv, TypeOK
<1>9. e \notin DOMAIN events
  BY <1>7, <1>8
<1>10. /\ DOMAIN events' = DOMAIN events \cup {e} /\ events'[e] = row
       /\ \A f \in DOMAIN events : events'[f] = events[f]
       /\ events' = [f \in DOMAIN events' |-> events'[f]]
  BY <1>3, <1>5, <1>7, <1>9 DEF With
<1>11. events' \in [DOMAIN events' -> Event]
  BY <1>6, <1>8, <1>10
<1>12. lastEvent' = lastEvent + 1 /\ UNCHANGED <<guests, draws, lastGuest, lastDraw>>
  BY DEF CreateEvent
<1>13. RaffleEdit({})
  <2>1. lastEvent' \in Nat /\ DOMAIN events' \subseteq 1 .. lastEvent'
    BY <1>7, <1>8, <1>10, <1>12
  <2>2. \A f \in DOMAIN events' : f \notin DOMAIN events => events'[f].text = <<>>
    BY <1>6, <1>10
  <2> QED
    BY <1>8, <1>10, <1>11, <1>12, <2>1, <2>2 DEF RaffleEdit
<1>14. OneRafflePerLink'
  BY <1>4, <1>6, <1>9, <1>10 DEF Inv, OneRafflePerLink, IsFree
<1> QED
  BY <1>13, <1>14

LEMMA UpdateEventIsEdit ==
    ASSUME Inv, NEW e \in DOMAIN events, NEW title \in Optional(Titles),
           NEW link \in Optional(Titles), NEW n \in Optional(PrizeRequests),
           UpdateEvent(e, title, link, n)
    PROVE  RaffleEdit({}) /\ OneRafflePerLink'
<1> DEFINE wanted == Slugify[OrElse(link, "")]
           moves  == link # {} /\ wanted # events[e].slug
<1>1. PICK slug \in IF moves THEN uniqueSlug(wanted) ELSE {events[e].slug} :
         events' = [events EXCEPT ![e].name   = OrElse(title, @),
                                  ![e].prizes = OrElse(n, @),
                                  ![e].slug   = slug]
  BY DEF UpdateEvent
<1>2. events[e] \in Event /\ events \in [DOMAIN events -> Event]
  BY DEF Inv, TypeOK
<1>3. slug \in Slug /\ (slug = events[e].slug \/ IsFree(slug))
  <2>1. CASE moves
    <3>1. OrElse(link, "") \in Titles
      BY <2>1, OrElseType
    <3>2. wanted \in Slug
      BY <3>1, InputsAssumption
    <3> QED
      BY <1>1, <2>1, <3>2, UniqueSlugIsFree
  <2>2. CASE ~moves
    BY <1>1, <1>2, <2>2 DEF Event
  <2> QED
    BY <2>1, <2>2
<1> PICK newName : newName = OrElse(title, events[e].name)
  OBVIOUS
<1> PICK newPrizes : newPrizes = OrElse(n, events[e].prizes)
  OBVIOUS
<1>4. newName \in Titles
  <2>1. events[e].name \in Titles
    BY <1>2 DEF Event
  <2>2. newName = events[e].name \/ newName \in title
    BY OrElseType
  <2>3. title \subseteq Titles
    BY DEF Optional
  <2> QED
    BY <2>1, <2>2, <2>3
<1>5. newPrizes \in 1 .. MaxPrizeCount
  <2>1. events[e].prizes \in 1 .. MaxPrizeCount /\ n \subseteq 1 .. MaxPrizeCount
    BY <1>2 DEF Event, UpdateEvent
  <2>2. newPrizes = events[e].prizes \/ newPrizes \in n
    BY OrElseType
  <2> QED
    BY <2>1, <2>2
<1> DEFINE named == [events[e] EXCEPT !.name = newName]
           sized == [named EXCEPT !.prizes = newPrizes]
           row   == [sized EXCEPT !.slug = slug]
<1>6. named \in Event /\ named.version = events[e].version
      /\ named.text = events[e].text
  BY <1>2, <1>4 DEF Event
<1>7. sized \in Event /\ sized.version = events[e].version
      /\ sized.text = events[e].text
  <2> HIDE DEF named
  <2> QED
    BY <1>5, <1>6 DEF Event
<1>8. row \in Event /\ row.version = events[e].version /\ row.slug = slug
      /\ row.text = events[e].text
  <2> HIDE DEF sized
  <2> QED
    BY <1>3, <1>7 DEF Event
<1>9. events' = [events EXCEPT ![e] = row]
  BY <1>1, <1>2 DEF Event
<1> HIDE DEF row
<1>10. /\ DOMAIN events' = DOMAIN events /\ events'[e] = row
       /\ \A f \in DOMAIN events : f # e => events'[f] = events[f]
       /\ events' \in [DOMAIN events' -> Event]
  BY <1>2, <1>8, <1>9
<1>11. UNCHANGED <<guests, draws, lastEvent, lastGuest, lastDraw>>
  BY DEF UpdateEvent
<1>12. RaffleEdit({})
  <2>1. /\ lastEvent \in Nat /\ DOMAIN events \subseteq 1 .. lastEvent
        /\ guests = [g \in DOMAIN guests |-> guests[g]]
        /\ draws = [d \in DOMAIN draws |-> draws[d]]
    BY DEF Inv, TypeOK
  <2>2. \A f \in DOMAIN events :
           events'[f].version = events[f].version /\ events'[f].text = events[f].text
    BY <1>8, <1>10
  <2> QED
    BY <1>10, <1>11, <2>1, <2>2 DEF RaffleEdit
<1>13. OneRafflePerLink'
  <2>1. row.slug = slug
    BY <1>8
  <2>2. \A f \in DOMAIN events : f # e => events[f].slug # slug
    BY <1>3 DEF Inv, OneRafflePerLink, IsFree
  <2>3. \A f, h \in DOMAIN events : f # h => events'[f].slug # events'[h].slug
    BY <1>10, <2>1, <2>2 DEF Inv, OneRafflePerLink
  <2> QED
    BY <1>10, <2>3 DEF OneRafflePerLink
<1> QED
  BY <1>12, <1>13

LEMMA DeleteEventIsEdit ==
    ASSUME Inv, NEW e \in DOMAIN events, DeleteEvent(e)
    PROVE  RaffleEdit({e}) /\ OneRafflePerLink'
<1>1. /\ events' = Without(events, {e})
      /\ guests' = Without(guests, GuestsOf(guests, e))
      /\ draws' = Without(draws, DrawsOf(e))
      /\ UNCHANGED <<lastEvent, lastGuest, lastDraw>>
  BY DEF DeleteEvent
<1>2. /\ DOMAIN events' = DOMAIN events \ {e}
      /\ events' = [f \in DOMAIN events' |-> events[f]]
  BY <1>1 DEF Without, Restrict
<1>3. /\ DOMAIN guests' = {g \in DOMAIN guests : guests[g].event \notin {e}}
      /\ guests' = [g \in DOMAIN guests' |-> guests[g]]
  BY <1>1 DEF Without, Restrict, GuestsOf
<1>4. /\ DOMAIN draws' = {d \in DOMAIN draws : draws[d].event \notin {e}}
      /\ draws' = [d \in DOMAIN draws' |-> draws[d]]
  BY <1>1 DEF Without, Restrict, DrawsOf
<1>5. /\ lastEvent \in Nat /\ DOMAIN events \subseteq 1 .. lastEvent
      /\ events \in [DOMAIN events -> Event]
  BY DEF Inv, TypeOK
<1>6. RaffleEdit({e})
  <2>1. \A f \in DOMAIN events' : f \in DOMAIN events /\ events'[f] = events[f]
    BY <1>2
  <2>2. DOMAIN events' \subseteq 1 .. lastEvent'
    BY <1>1, <1>2, <1>5
  <2>3. events' \in [DOMAIN events' -> Event]
    BY <1>2, <1>5
  <2>4. \A f \in DOMAIN events \ {e} :
           /\ f \in DOMAIN events'
           /\ events'[f].version = events[f].version /\ events'[f].text = events[f].text
    BY <1>2, <2>1
  <2>5. {e} \cap DOMAIN events' = {} /\ lastEvent' \in Nat
    BY <1>1, <1>2, <1>5
  <2>6. UNCHANGED <<lastGuest, lastDraw>>
    BY <1>1
  <2> QED
    BY <1>2, <1>3, <1>4, <2>2, <2>3, <2>4, <2>5, <2>6 DEF RaffleEdit
<1>7. OneRafflePerLink'
  BY <1>2 DEF Inv, OneRafflePerLink
<1> QED
  BY <1>6, <1>7

---------------------------------------------------------------------------
\* Draws

\* Tearing a stub open changes no column that is compared later.
LEMMA RevealKeepsDraws ==
    ASSUME Inv, NEW d \in DOMAIN draws, NEW i \in DOMAIN draws[d].stubs, RevealWinner(d, i)
    PROVE  DrawsKept({})
<1>1. draws = [x \in DOMAIN draws |-> draws[x]]
  BY DEF Inv, TypeOK
<1>2. draws[d] \in Draw(draws[d].total)
  BY DEF Inv, TypeOK
<1>3. draws[d].stubs \in Seq(Stub) /\ draws[d].stubs[i] \in Stub
  BY <1>2 DEF Draw
<1> PICK stub : stub = draws[d].stubs[i]
  OBVIOUS
<1> DEFINE torn  == [stub EXCEPT !.revealed = TRUE]
           stubs == [draws[d].stubs EXCEPT ![i] = torn]
           draw  == [draws[d] EXCEPT !.stubs = stubs]
<1>4. /\ torn \in Stub /\ torn.name = stub.name /\ torn.count = stub.count
      /\ torn.guest = stub.guest
  BY <1>3 DEF Stub
<1>5. draws' = [draws EXCEPT ![d] = draw]
  BY <1>1, <1>2, <1>3 DEF RevealWinner, Draw, Stub
<1> HIDE DEF torn
<1>6. /\ stubs \in Seq(Stub) /\ DOMAIN stubs = DOMAIN draws[d].stubs
      /\ \A k \in DOMAIN draws[d].stubs :
            /\ stubs[k].name = draws[d].stubs[k].name
            /\ stubs[k].count = draws[d].stubs[k].count
            /\ stubs[k].guest = draws[d].stubs[k].guest
  BY <1>3, <1>4
<1> HIDE DEF stubs
<1>7. /\ draw \in Draw(draws[d].total) /\ draw.stubs = stubs
      /\ draw.event = draws[d].event /\ draw.version = draws[d].version
      /\ draw.entrants = draws[d].entrants /\ draw.prizes = draws[d].prizes
  BY <1>2, <1>6 DEF Draw
<1> HIDE DEF draw
<1>8. /\ DOMAIN draws' = DOMAIN draws /\ draws'[d] = draw
      /\ \A x \in DOMAIN draws : x # d => draws'[x] = draws[x]
      /\ draws' = [x \in DOMAIN draws' |-> draws'[x]]
  BY <1>1, <1>5
<1>9. \A x \in DOMAIN draws : draws[x] \in Draw(draws[x].total)
  BY DEF Inv, TypeOK
<1> QED
  BY <1>6, <1>7, <1>8, <1>9 DEF DrawsKept

LEMMA RevealWinnerKeepsInv ==
    ASSUME Inv, NEW d \in DOMAIN draws, NEW i \in DOMAIN draws[d].stubs, RevealWinner(d, i)
    PROVE  Inv'
<1>1. UNCHANGED <<events, guests, lastEvent, lastGuest, lastDraw>>
  BY DEF RevealWinner
<1>2. DrawsKept({})
  BY RevealKeepsDraws
<1>3. /\ DOMAIN draws' = DOMAIN draws
      /\ draws' = [x \in DOMAIN draws' |-> draws'[x]]
      /\ \A x \in DOMAIN draws :
            /\ draws'[x] \in Draw(draws[x].total) /\ draws'[x].total = draws[x].total
            /\ draws'[x].event = draws[x].event /\ draws'[x].version = draws[x].version
            /\ draws'[x].entrants = draws[x].entrants
            /\ DOMAIN draws'[x].stubs = DOMAIN draws[x].stubs
            /\ \A k \in DOMAIN draws[x].stubs :
                  /\ draws'[x].stubs[k].name = draws[x].stubs[k].name
                  /\ draws'[x].stubs[k].count = draws[x].stubs[k].count
                  /\ draws'[x].stubs[k].guest = draws[x].stubs[k].guest
  <2>1. ASSUME NEW total, NEW draw \in Draw(total) PROVE draw.total = total
    BY DEF Draw
  <2> QED
    BY <1>2, <2>1 DEF DrawsKept
<1>4. TypeOK'
  BY <1>1, <1>3 DEF Inv, TypeOK
<1>5. OneRowEach' /\ OneRafflePerLink'
  BY <1>1 DEF Inv, OneRowEach, OneRafflePerLink
<1>6. \A f : GuestsOf(guests', f) = GuestsOf(guests, f)
  BY <1>1
<1>7. NothingDangles'
  BY <1>1, <1>3, <1>6 DEF Inv, NothingDangles
<1>8. NobodyWinsTwice'
  BY <1>3 DEF Inv, NobodyWinsTwice
<1>9. StaleIsHonest'
  <2> SUFFICES ASSUME NEW x \in DOMAIN draws',
                      draws'[x].version = events'[draws'[x].event].version
               PROVE  LET roster == Roster(draws[x].event)' IN
                      /\ draws'[x].entrants = Cardinality(Eligible(roster))
                      /\ draws'[x].total = DiaperTotal(roster)
                      /\ \A k \in DOMAIN draws'[x].stubs :
                            LET stub == draws'[x].stubs[k] IN
                            /\ stub.guest \in Eligible(roster)
                            /\ roster[stub.guest].name = stub.name
                            /\ roster[stub.guest].count = stub.count
    BY DEF StaleIsHonest
  <2>1. PICK f : f = draws[x].event
    OBVIOUS
  <2>2. x \in DOMAIN draws /\ draws'[x].event = f
    BY <1>3, <2>1
  <2>3. draws[x].version = events[draws[x].event].version
    BY <1>1, <1>3, <2>1, <2>2
  <2>4. Roster(f)' = Roster(f)
    BY <1>1, <1>6, SameRoster
  <2>5. /\ draws[x].entrants = Cardinality(Eligible(Roster(f)))
        /\ draws[x].total = DiaperTotal(Roster(f))
        /\ \A k \in DOMAIN draws[x].stubs :
              /\ draws[x].stubs[k].guest \in Eligible(Roster(f))
              /\ Roster(f)[draws[x].stubs[k].guest].name = draws[x].stubs[k].name
              /\ Roster(f)[draws[x].stubs[k].guest].count = draws[x].stubs[k].count
    BY <2>1, <2>2, <2>3 DEF Inv, StaleIsHonest
  <2> QED
    BY <1>3, <2>1, <2>2, <2>4, <2>5
<1> QED
  BY <1>4, <1>5, <1>7, <1>8, <1>9 DEF Inv

LEMMA RunDrawKeepsInv ==
    ASSUME Inv, NEW e \in DOMAIN events, RunDraw(e)
    PROVE  Inv'
<1> DEFINE pool == Eligible(Roster(e))
           n    == Min({events[e].prizes, Cardinality(pool)})
           total == DiaperTotal(Roster(e))
           entrants == Cardinality(pool)
<1>1. PICK picks \in Picks(pool, n) :
        draws' = With(draws, lastDraw + 1,
                [event |-> e, prizes |-> events[e].prizes,
                 entrants |-> entrants, total |-> total,
                 version |-> events[e].version,
                 stubs |-> [i \in 1 .. n |-> SealedStub(guests[picks[i]], picks[i])]])
  BY DEF RunDraw
<1>2. lastDraw' = lastDraw + 1 /\ UNCHANGED <<events, guests, lastEvent, lastGuest>>
  BY DEF RunDraw
<1>3. pool \subseteq GuestsOf(guests, e) /\ pool \subseteq DOMAIN guests
  BY DEF Eligible, Roster, Restrict, GuestsOf
<1>4. entrants \in Nat
  <2>1. lastGuest \in Nat /\ pool \subseteq 1 .. lastGuest
    BY <1>3 DEF Inv, TypeOK
  <2> QED
    BY <2>1, FiniteIds
<1>5. n \in Nat
  <2>1. events[e].prizes \in 1 .. MaxPrizeCount
    BY DEF Inv, TypeOK, Event
  <2> QED
    BY <1>4, <2>1 DEF Min, MaxPrizeCount
<1> HIDE DEF n
<1>6. picks \in [1 .. n -> pool] /\ \A i, j \in 1 .. n : picks[i] = picks[j] => i = j
  BY DEF Picks, IsInjective
<1>7. \A g \in pool : /\ guests[g] \in Guest /\ g \in Nat
                      /\ Roster(e)[g] = guests[g]
  BY <1>3 DEF Inv, TypeOK, Roster, Restrict
<1> HIDE DEF pool, total, entrants
<1>8. PICK stubs : stubs = [i \in 1 .. n |-> SealedStub(guests[picks[i]], picks[i])]
  OBVIOUS
<1>9. DOMAIN stubs = 1 .. n /\ stubs = [i \in 1 .. n |-> stubs[i]]
      /\ \A i \in 1 .. n : /\ stubs[i] \in Stub /\ stubs[i].guest = picks[i]
                           /\ stubs[i].name = guests[picks[i]].name
                           /\ stubs[i].count = guests[picks[i]].count
  BY <1>6, <1>7, <1>8 DEF SealedStub, Stub, Guest
<1>10. stubs \in Seq(Stub)
  BY <1>5, <1>9
<1>11. PICK draw : draw = [event |-> e, prizes |-> events[e].prizes,
                           entrants |-> entrants, total |-> total,
                           version |-> events[e].version, stubs |-> stubs]
  OBVIOUS
<1>12. /\ draw \in Draw(total) /\ draw.event = e /\ draw.version = events[e].version
       /\ draw.entrants = entrants /\ draw.total = total /\ draw.stubs = stubs
  <2>1. /\ e \in Nat /\ events[e].prizes \in 1 .. MaxPrizeCount
        /\ events[e].version \in Nat
    BY DEF Inv, TypeOK, Event
  <2> QED
    BY <1>4, <1>10, <1>11, <2>1 DEF Draw
<1>13. PICK d : d = lastDraw + 1
  OBVIOUS
<1>14. draws' = With(draws, d, draw)
  BY <1>1, <1>8, <1>11, <1>13
<1>15. lastDraw \in Nat /\ d \notin DOMAIN draws /\ DOMAIN draws \subseteq 1 .. lastDraw
  BY <1>13 DEF Inv, TypeOK
<1>16. /\ DOMAIN draws' = DOMAIN draws \cup {d} /\ draws'[d] = draw
       /\ \A x \in DOMAIN draws : draws'[x] = draws[x]
       /\ draws' = [x \in DOMAIN draws' |-> draws'[x]]
  BY <1>14, <1>15 DEF With
<1>17. TypeOK'
  <2>1. \A x \in DOMAIN draws' : draws'[x] \in Draw(draws'[x].total)
    BY <1>12, <1>16 DEF Inv, TypeOK
  <2>2. lastDraw' \in Nat /\ DOMAIN draws' \subseteq 1 .. lastDraw'
    BY <1>2, <1>13, <1>15, <1>16
  <2> QED
    BY <1>2, <1>16, <2>1, <2>2 DEF Inv, TypeOK
<1>18. OneRowEach' /\ OneRafflePerLink'
  BY <1>2 DEF Inv, OneRowEach, OneRafflePerLink
<1>19. \A f : GuestsOf(guests', f) = GuestsOf(guests, f)
  BY <1>2
<1>20. NothingDangles'
  <2>1. /\ draw.event \in DOMAIN events' /\ draw.version <= events'[draw.event].version
        /\ \A i \in DOMAIN draw.stubs :
              draw.stubs[i].guest \in {NoGuest} \cup GuestsOf(guests', draw.event)
    <3>1. events[e].version \in Nat
      BY DEF Inv, TypeOK, Event
    <3> QED
      BY <1>2, <1>3, <1>6, <1>9, <1>12, <1>19, <3>1
  <2> QED
    BY <1>2, <1>16, <1>19, <2>1 DEF Inv, NothingDangles
<1>21. NobodyWinsTwice'
  <2>1. \A i, j \in DOMAIN draw.stubs :
           NameKey(draw.stubs[i].name) = NameKey(draw.stubs[j].name) => i = j
    <3>1. \A g, h \in pool : guests[g].event = guests[h].event
      BY <1>3 DEF GuestsOf
    <3>2. \A g, h \in pool : NameKey(guests[g].name) = NameKey(guests[h].name) => g = h
      BY <1>3, <3>1 DEF Inv, OneRowEach
    <3> QED
      BY <1>6, <1>9, <1>12, <3>2
  <2> QED
    BY <1>16, <2>1 DEF Inv, NobodyWinsTwice
<1>22. StaleIsHonest'
  <2>1. \A f : Roster(f)' = Roster(f)
    BY <1>2, <1>19, SameRoster
  <2>2. /\ draw.entrants = Cardinality(Eligible(Roster(e)))
        /\ draw.total = DiaperTotal(Roster(e))
        /\ \A i \in DOMAIN draw.stubs :
              /\ draw.stubs[i].guest \in Eligible(Roster(e))
              /\ Roster(e)[draw.stubs[i].guest].name = draw.stubs[i].name
              /\ Roster(e)[draw.stubs[i].guest].count = draw.stubs[i].count
    BY <1>6, <1>7, <1>9, <1>12 DEF pool, total, entrants
  <2> SUFFICES ASSUME NEW x \in DOMAIN draws',
                      draws'[x].version = events'[draws'[x].event].version
               PROVE  LET roster == Roster(draws'[x].event) IN
                      /\ draws'[x].entrants = Cardinality(Eligible(roster))
                      /\ draws'[x].total = DiaperTotal(roster)
                      /\ \A k \in DOMAIN draws'[x].stubs :
                            LET stub == draws'[x].stubs[k] IN
                            /\ stub.guest \in Eligible(roster)
                            /\ roster[stub.guest].name = stub.name
                            /\ roster[stub.guest].count = stub.count
    BY <2>1 DEF StaleIsHonest
  <2>3. CASE x = d
    BY <1>12, <1>16, <2>2, <2>3
  <2>4. CASE x # d
    BY <1>2, <1>16, <2>4 DEF Inv, StaleIsHonest
  <2> QED
    BY <2>3, <2>4
<1> QED
  BY <1>17, <1>18, <1>20, <1>21, <1>22 DEF Inv

---------------------------------------------------------------------------
\* The invariant

LEMMA RosterEditKeepsInv ==
    ASSUME Inv, NEW e \in DOMAIN events, NEW gone, RosterEdit(e, gone), OneRowEach'
    PROVE  Inv'
<1>1. TypeOK'
  BY EditKeepsType
<1>2. NothingDangles' /\ OneRafflePerLink'
  BY EditKeepsLinks
<1>3. NobodyWinsTwice'
  BY EditKeepsWinners
<1>4. StaleIsHonest'
  BY EditKeepsHonesty
<1> QED
  BY <1>1, <1>2, <1>3, <1>4 DEF Inv

LEMMA InitInv == Init => Inv
<1> SUFFICES ASSUME Init PROVE Inv
  OBVIOUS
<1>1. /\ DOMAIN events = {} /\ DOMAIN guests = {} /\ DOMAIN draws = {}
      /\ events = [e \in {} |-> {}] /\ guests = [g \in {} |-> {}] /\ draws = [d \in {} |-> {}]
      /\ lastEvent = 0 /\ lastGuest = 0 /\ lastDraw = 0
  BY DEF Init
<1>2. TypeOK
  BY <1>1 DEF TypeOK
<1>3. OneRowEach /\ NothingDangles /\ OneRafflePerLink /\ StaleIsHonest /\ NobodyWinsTwice
  BY <1>1 DEF OneRowEach, NothingDangles, OneRafflePerLink, StaleIsHonest, NobodyWinsTwice
<1> QED
  BY <1>2, <1>3 DEF Inv

\* Every step is an edit of a roster, a change to the raffles, a draw, or a stub
\* torn open.
LEMMA StepKinds ==
    ASSUME Inv, [Next]_vars
    PROVE  \/ \E e \in DOMAIN events :
                 \E gone : RosterEdit(e, gone) /\ OneRowEach' /\ TextTells(e)'
           \/ \E dead : RaffleEdit(dead) /\ OneRafflePerLink'
           \/ \E e \in DOMAIN events : RunDraw(e)
           \/ \E d \in DOMAIN draws : \E i \in DOMAIN draws[d].stubs : RevealWinner(d, i)
<1> DEFINE Edits   == \E e \in DOMAIN events :
                         \E gone : RosterEdit(e, gone) /\ OneRowEach' /\ TextTells(e)'
           Raffles == \E dead : RaffleEdit(dead) /\ OneRafflePerLink'
<1>1. CASE \E title, link \in Titles, n \in PrizeRequests : CreateEvent(title, link, n)
  BY <1>1, CreateEventIsEdit
<1>2. ASSUME NEW e \in DOMAIN events,
             \E title, link \in Optional(Titles), n \in Optional(PrizeRequests) :
                UpdateEvent(e, title, link, n)
      PROVE  Raffles
  BY <1>2, UpdateEventIsEdit
<1>3. ASSUME NEW e \in DOMAIN events, DeleteEvent(e)
      PROVE  Raffles
  BY <1>3, DeleteEventIsEdit
<1>4. ASSUME NEW e \in DOMAIN events, NEW text \in RosterTexts, ReplaceRoster(e, text)
      PROVE  Edits
  BY <1>4, ReplaceRosterIsEdit
<1>5. ASSUME NEW e \in DOMAIN events, NEW name \in Names, NEW count \in Counts,
             AddDiapers(e, name, count)
      PROVE  Edits
  BY <1>5, AddDiapersIsEdit
<1>6. ASSUME NEW e \in DOMAIN events, NEW g \in GuestsOf(guests, e),
             NEW name \in Optional(Names), NEW count \in Optional(Counts),
             UpdateGuest(e, g, name, count)
      PROVE  Edits
  BY <1>6, UpdateGuestIsEdit
<1>7. ASSUME NEW e \in DOMAIN events, NEW g \in GuestsOf(guests, e), DeleteGuest(e, g)
      PROVE  Edits
  BY <1>7, DeleteGuestIsEdit
<1>8. CASE UNCHANGED vars
  <2>1. UNCHANGED <<events, guests, draws, lastEvent, lastGuest, lastDraw>>
    BY <1>8 DEF vars
  <2>2. RaffleEdit({})
    BY <2>1 DEF RaffleEdit, Inv, TypeOK
  <2>3. OneRafflePerLink'
    BY <2>1 DEF Inv, OneRafflePerLink
  <2> QED
    BY <2>2, <2>3
<1> QED
  BY <1>1, <1>2, <1>3, <1>4, <1>5, <1>6, <1>7, <1>8 DEF Next

LEMMA StepKeepsInv == Inv /\ [Next]_vars => Inv'
<1> SUFFICES ASSUME Inv, [Next]_vars PROVE Inv'
  OBVIOUS
<1> QED
  BY StepKinds, RosterEditKeepsInv, RaffleEditKeepsInv, RunDrawKeepsInv, RevealWinnerKeepsInv

\* The six invariants support each other: an edit keeps StaleIsHonest because
\* versions of draws do not run ahead of their raffles (NothingDangles), a draw
\* keeps NobodyWinsTwice because rows do not share a key (OneRowEach).
THEOREM Invariance == Spec => []Inv
<1> QED
  BY InitInv, StepKeepsInv, PTL DEF Spec

\* Ids, columns and stored counts have their types whatever the host does.
THEOREM TypeCorrect == Spec => []TypeOK
<1>1. Inv => TypeOK
  BY DEF Inv
<1> QED
  BY <1>1, Invariance, PTL

\* Within a raffle no two rows share a key or a position, and the key of a row
\* is its name's: what the unique index and the matching by key are for.
THEOREM OneRowPerPerson == Spec => []OneRowEach
<1>1. Inv => OneRowEach
  BY DEF Inv
<1> QED
  BY <1>1, Invariance, PTL

\* No roster, draw or ticket stub outlives what it belongs to.
THEOREM ReferencesHold == Spec => []NothingDangles
<1>1. Inv => NothingDangles
  BY DEF Inv
<1> QED
  BY <1>1, Invariance, PTL

\* No two raffles have the same link.
THEOREM LinksAreUnique == Spec => []OneRafflePerLink
<1>1. Inv => OneRafflePerLink
  BY DEF Inv
<1> QED
  BY <1>1, Invariance, PTL

\* A draw the page does not call stale agrees with the roster on the page.
THEOREM StalenessIsSound == Spec => []StaleIsHonest
<1>1. Inv => StaleIsHonest
  BY DEF Inv
<1> QED
  BY <1>1, Invariance, PTL

\* No draw has two stubs for one person.
THEOREM WinnersDiffer == Spec => []NobodyWinsTwice
<1>1. Inv => NobodyWinsTwice
  BY DEF Inv
<1> QED
  BY <1>1, Invariance, PTL

---------------------------------------------------------------------------
\* The text and the rows

\* A raffle whose text and rows did not move.
LEMMA StillTells ==
    ASSUME NEW f, TextTells(f), events'[f].text = events[f].text,
           GuestsOf(guests', f) = GuestsOf(guests, f),
           \A g \in GuestsOf(guests, f) : guests'[g] = guests[g]
    PROVE  TextTells(f)'
<1> SUFFICES ASSUME \A g \in GuestsOf(guests', f) :
                       Plain(guests'[g].name) /\ guests'[g].count >= 0
             PROVE  RowsMatchText(f)'
  BY DEF TextTells
<1>1. RowsMatchText(f)
  BY DEF TextTells
<1>2. PICK list \in Listings(guests, f) :
         ParseRoster(events[f].text) = [i \in DOMAIN list |-> EntryOf(guests[list[i]])]
  BY <1>1 DEF RowsMatchText
<1>3. list \in [1 .. Cardinality(GuestsOf(guests, f)) -> GuestsOf(guests, f)]
  BY DEF Listings
<1>4. \A i \in DOMAIN list : guests'[list[i]] = guests[list[i]]
  BY <1>3
<1>5. list \in Listings(guests', f)
  BY <1>3, <1>4 DEF Listings
<1>6. [i \in DOMAIN list |-> EntryOf(guests'[list[i]])]
        = [i \in DOMAIN list |-> EntryOf(guests[list[i]])]
  BY <1>4, Zenon
<1> QED
  BY <1>2, <1>5, <1>6 DEF RowsMatchText

\* A raffle with an empty text and no rows.
LEMMA NothingTells ==
    ASSUME NEW f, events'[f].text = <<>>, GuestsOf(guests', f) = {}
    PROVE  TextTells(f)'
<1>1. Cardinality(GuestsOf(guests', f)) = 0
  BY FS_EmptySet
<1>2. <<>> \in Listings(guests', f)
  <2>1. <<>> \in [1 .. 0 -> {}] /\ DOMAIN <<>> = {}
    OBVIOUS
  <2> QED
    BY <1>1, <2>1 DEF Listings
<1>3. ParseRoster(events'[f].text) = [i \in DOMAIN <<>> |-> EntryOf(guests'[<<>>[i]])]
  <2>1. [i \in DOMAIN <<>> |-> EntryOf(guests'[<<>>[i]])] = <<>>
    OBVIOUS
  <2> QED
    BY <2>1, ParseNothing
<1> QED
  BY <1>2, <1>3 DEF TextTells, RowsMatchText

\* An edit's own raffle has a text made from its rows, or rows made from its
\* text; the other raffles keep both, or are new and have neither.
LEMMA StepKeepsTexts ==
    ASSUME Inv, RosterInStep, [Next]_vars
    PROVE  RosterInStep'
<1> SUFFICES ASSUME NEW f \in DOMAIN events' PROVE TextTells(f)'
  BY DEF RosterInStep, TextTells
<1>1. f \in DOMAIN events => TextTells(f)
  BY DEF RosterInStep, TextTells
<1>2. ASSUME NEW e \in DOMAIN events, NEW gone, RosterEdit(e, gone), TextTells(e)'
      PROVE  TextTells(f)'
  <2>1. CASE f = e
    BY <1>2, <2>1
  <2>2. CASE f # e
    <3>1. f \in DOMAIN events /\ events'[f].text = events[f].text
      BY <1>2, <2>2 DEF RosterEdit
    <3>2. GuestsOf(guests', f) = GuestsOf(guests, f)
      BY <1>2, <2>2 DEF RosterEdit, SameElsewhere, GuestsOf
    <3>3. \A g \in GuestsOf(guests, f) : guests'[g] = guests[g]
      BY <1>2, <2>2 DEF RosterEdit, SameElsewhere, GuestsOf
    <3> QED
      BY <1>1, <3>1, <3>2, <3>3, StillTells
  <2> QED
    BY <2>1, <2>2
<1>3. ASSUME NEW dead, RaffleEdit(dead)
      PROVE  TextTells(f)'
  <2>1. f \notin dead
    BY <1>3 DEF RaffleEdit
  <2>2. /\ GuestsOf(guests', f) = GuestsOf(guests, f)
        /\ \A g \in GuestsOf(guests, f) : guests'[g] = guests[g]
    BY <1>3, <2>1 DEF RaffleEdit, GuestsOf
  <2>3. CASE f \in DOMAIN events
    <3>1. events'[f].text = events[f].text
      BY <1>3, <2>1, <2>3 DEF RaffleEdit
    <3> QED
      BY <1>1, <2>2, <2>3, <3>1, StillTells
  <2>4. CASE f \notin DOMAIN events
    <3>1. events'[f].text = <<>>
      BY <1>3, <2>4 DEF RaffleEdit
    <3>2. GuestsOf(guests', f) = {}
      BY <2>2, <2>4 DEF GuestsOf, Inv, NothingDangles
    <3> QED
      BY <3>1, <3>2, NothingTells
  <2> QED
    BY <2>3, <2>4
<1>4. ASSUME UNCHANGED <<events, guests>>
      PROVE  TextTells(f)'
  BY <1>1, <1>4, StillTells
<1>5. ASSUME NEW e \in DOMAIN events, RunDraw(e)
      PROVE  UNCHANGED <<events, guests>>
  BY <1>5 DEF RunDraw
<1>6. ASSUME NEW d \in DOMAIN draws, NEW i \in DOMAIN draws[d].stubs, RevealWinner(d, i)
      PROVE  UNCHANGED <<events, guests>>
  BY <1>6 DEF RevealWinner
<1> QED
  BY <1>2, <1>3, <1>4, <1>5, <1>6, StepKinds

\* The textarea and the rows say the same after any sequence of saves, guest
\* calls, renames and deletions, for texts of any length: "the two
\* representations cannot drift" (guests.go:259), as far as it is true.
THEOREM TextStaysInStep == Spec => []RosterInStep
<1>1. Init => RosterInStep
  BY DEF Init, RosterInStep
<1> QED
  BY <1>1, InitInv, StepKeepsInv, StepKeepsTexts, PTL DEF Spec

---------------------------------------------------------------------------
\* What a step may do

\* An edit gives nobody a new id; every other step leaves rows alone or takes
\* whole rosters away, and before and after it no two rows share a key.
LEMMA StepKeepsIds ==
    ASSUME Inv, [Next]_vars
    PROVE  \A g \in DOMAIN guests, h \in DOMAIN guests' :
              guests[g].event = guests'[h].event /\ guests[g].key = guests'[h].key => g = h
<1>1. ASSUME NEW e \in DOMAIN events, NEW gone, RosterEdit(e, gone)
      PROVE  SameIds(guests')
  BY <1>1 DEF RosterEdit
<1>2. ASSUME DOMAIN guests' \subseteq DOMAIN guests,
             \A h \in DOMAIN guests' : guests'[h] = guests[h]
      PROVE  SameIds(guests')
  BY <1>2 DEF SameIds, Inv, OneRowEach
<1>3. ASSUME NEW dead, RaffleEdit(dead)
      PROVE  SameIds(guests')
  BY <1>2, <1>3 DEF RaffleEdit
<1>4. ASSUME NEW e \in DOMAIN events, RunDraw(e)
      PROVE  SameIds(guests')
  BY <1>2, <1>4 DEF RunDraw
<1>5. ASSUME NEW d \in DOMAIN draws, NEW i \in DOMAIN draws[d].stubs, RevealWinner(d, i)
      PROVE  SameIds(guests')
  BY <1>2, <1>5 DEF RevealWinner
<1> QED
  BY StepKinds, <1>1, <1>3, <1>4, <1>5 DEF SameIds

\* The raffle that is edited moves to the next version; of every other raffle
\* that stays, version, text and roster stand.
LEMMA StepKeepsVersions ==
    ASSUME Inv, [Next]_vars, NEW f \in DOMAIN events \cap DOMAIN events'
    PROVE  /\ events[f].version <= events'[f].version
           /\ events[f].version = events'[f].version =>
                 Roster(f)' = Roster(f) /\ events'[f].text = events[f].text
<1> DEFINE Stands == /\ events'[f].version = events[f].version
                     /\ events'[f].text = events[f].text
                     /\ Roster(f)' = Roster(f)
<1>1. events[f].version \in Nat
  BY DEF Inv, TypeOK, Event
<1>2. ASSUME NEW e \in DOMAIN events, NEW gone, RosterEdit(e, gone), f = e
      PROVE  events'[f].version = events[f].version + 1
  BY <1>2 DEF RosterEdit
<1>3. ASSUME NEW e \in DOMAIN events, NEW gone, RosterEdit(e, gone), f # e
      PROVE  Stands
  <2>1. events'[f] = events[f] /\ SameElsewhere(guests', e, gone)
    BY <1>3 DEF RosterEdit
  <2>2. /\ GuestsOf(guests', f) = GuestsOf(guests, f)
        /\ \A g \in GuestsOf(guests, f) : guests'[g] = guests[g]
    BY <1>3, <2>1 DEF SameElsewhere, GuestsOf
  <2> QED
    BY <2>1, <2>2, SameRoster
<1>4. ASSUME NEW dead, RaffleEdit(dead)
      PROVE  Stands
  <2>1. f \notin dead
    BY <1>4 DEF RaffleEdit
  <2>2. events'[f].version = events[f].version /\ events'[f].text = events[f].text
    BY <1>4, <2>1 DEF RaffleEdit
  <2>3. /\ GuestsOf(guests', f) = GuestsOf(guests, f)
        /\ \A g \in GuestsOf(guests, f) : guests'[g] = guests[g]
    BY <1>4, <2>1 DEF RaffleEdit, GuestsOf
  <2> QED
    BY <2>2, <2>3, SameRoster
<1>5. ASSUME UNCHANGED <<events, guests>>
      PROVE  Stands
  <2>1. GuestsOf(guests', f) = GuestsOf(guests, f)
    BY <1>5
  <2> QED
    BY <1>5, <2>1, SameRoster
<1>6. ASSUME NEW e \in DOMAIN events, RunDraw(e)
      PROVE  Stands
  BY <1>5, <1>6 DEF RunDraw
<1>7. ASSUME NEW d \in DOMAIN draws, NEW i \in DOMAIN draws[d].stubs, RevealWinner(d, i)
      PROVE  Stands
  BY <1>5, <1>7 DEF RevealWinner
<1>8. Stands \/ events'[f].version = events[f].version + 1
  BY StepKinds, <1>2, <1>3, <1>4, <1>6, <1>7
<1> QED
  BY <1>1, <1>8

\* Whoever is on a roster before and after a step has the same id, however the
\* host edits it: the draws' stubs and the page keep pointing at the same person.
THEOREM IdsStayStable == Spec => IdsFollowPeople
<1>1. Inv /\ [Next]_vars =>
        [\A g \in DOMAIN guests, h \in DOMAIN guests' :
            guests[g].event = guests'[h].event /\ guests[g].key = guests'[h].key => g = h]_vars
  BY StepKeepsIds
<1> QED
  BY <1>1, Invariance, PTL DEF Spec, IdsFollowPeople

\* A version never goes back, and while it stands neither rows nor text move:
\* what makes comparing versions enough to tell whether a draw is stale.
THEOREM VersionsTell == Spec => VersionCoversRoster
<1>1. Inv /\ [Next]_vars =>
        [\A e \in DOMAIN events \cap DOMAIN events' :
            /\ events[e].version <= events'[e].version
            /\ events[e].version = events'[e].version =>
                  Roster(e)' = Roster(e) /\ events'[e].text = events[e].text]_vars
  BY StepKeepsVersions
<1> QED
  BY <1>1, Invariance, PTL DEF Spec, VersionCoversRoster

---------------------------------------------------------------------------
\* The refinement of SealedDraws

\* What SealedDraws sees of the draws.
Sealed == [d \in DOMAIN draws |-> [prizes   |-> draws[d].prizes,
                                   entrants |-> draws[d].entrants,
                                   slips    |-> Slips(draws[d])]]
Torn == UNION {{<<d, i>> : i \in {j \in DOMAIN draws[d].stubs :
                                     draws[d].stubs[j].revealed}} : d \in DOMAIN draws}

LEMMA InTorn ==
    /\ \A stub : stub \in Torn <=>
          \E d \in DOMAIN draws : \E i \in DOMAIN draws[d].stubs :
             draws[d].stubs[i].revealed /\ stub = <<d, i>>
    /\ \A stub : stub \in Torn' <=>
          \E d \in DOMAIN draws' : \E i \in DOMAIN draws'[d].stubs :
             draws'[d].stubs[i].revealed /\ stub = <<d, i>>
<1>1. ASSUME NEW table
      PROVE  \A stub : stub \in UNION {{<<d, i>> : i \in {j \in DOMAIN table[d].stubs :
                                           table[d].stubs[j].revealed}} : d \in DOMAIN table}
                <=> \E d \in DOMAIN table : \E i \in DOMAIN table[d].stubs :
                       table[d].stubs[i].revealed /\ stub = <<d, i>>
  <2> DEFINE Open(d)  == {j \in DOMAIN table[d].stubs : table[d].stubs[j].revealed}
             Stubs(d) == {<<d, i>> : i \in Open(d)}
  <2>1. \A stub, d : stub \in Stubs(d) <=>
           \E i \in DOMAIN table[d].stubs : table[d].stubs[i].revealed /\ stub = <<d, i>>
    OBVIOUS
  <2> HIDE DEF Stubs
  <2>2. \A stub : stub \in UNION {Stubs(d) : d \in DOMAIN table} <=>
           \E d \in DOMAIN table : stub \in Stubs(d)
    OBVIOUS
  <2> QED
    BY <2>1, <2>2 DEF Stubs
<1> QED
  BY <1>1 DEF Torn

\* Slips depend on the names and counts of the stubs, and on nothing else.
LEMMA SameSlips ==
    ASSUME NEW draw, NEW other, DOMAIN other.stubs = DOMAIN draw.stubs,
           \A i \in DOMAIN draw.stubs : /\ other.stubs[i].name = draw.stubs[i].name
                                        /\ other.stubs[i].count = draw.stubs[i].count
    PROVE  Slips(other) = Slips(draw)
BY DEF Slips

\* A draw whose prizes, entrants, names and counts stand is sealed as it was.
LEMMA SealedStands ==
    ASSUME NEW gone, DrawsKept(gone)
    PROVE  Sealed' = Sealed
<1>1. DOMAIN draws' = DOMAIN draws
  BY DEF DrawsKept
<1>2. ASSUME NEW d \in DOMAIN draws
      PROVE  /\ draws'[d].prizes = draws[d].prizes /\ draws'[d].entrants = draws[d].entrants
             /\ Slips(draws'[d]) = Slips(draws[d])
  BY SameSlips DEF DrawsKept
<1> QED
  BY <1>1, <1>2 DEF Sealed

\* An edit of a roster is no step of the promise.
LEMMA EditStutters ==
    ASSUME NEW e \in DOMAIN events, NEW gone, RosterEdit(e, gone)
    PROVE  Sealed' = Sealed /\ Torn' = Torn /\ (1 .. lastDraw)' = 1 .. lastDraw
<1>1. DrawsKept(gone) /\ TornKept /\ lastDraw' = lastDraw
  BY DEF RosterEdit
<1>2. Sealed' = Sealed
  BY <1>1, SealedStands
<1>3. \A stub : stub \in Torn' <=> stub \in Torn
  BY <1>1, InTorn DEF DrawsKept, TornKept
<1> QED
  BY <1>1, <1>2, <1>3

\* A change to the raffles erases the draws of those that are deleted.
LEMMA RaffleEditErases ==
    ASSUME NEW dead, RaffleEdit(dead)
    PROVE  \E gone \in SUBSET DOMAIN Sealed :
              /\ Sealed' = [d \in DOMAIN Sealed \ gone |-> Sealed[d]]
              /\ Torn' = {stub \in Torn : stub[1] \notin gone}
              /\ (1 .. lastDraw)' = 1 .. lastDraw
<1> DEFINE gone == {d \in DOMAIN draws : draws[d].event \in dead}
<1>1. /\ DOMAIN draws' = DOMAIN draws \ gone
      /\ \A d \in DOMAIN draws' : draws'[d] = draws[d]
      /\ lastDraw' = lastDraw
  BY DEF RaffleEdit
<1>2. gone \subseteq DOMAIN draws /\ DOMAIN Sealed = DOMAIN draws
  BY DEF Sealed
<1> HIDE DEF gone
<1>3. Sealed' = [d \in DOMAIN Sealed \ gone |-> Sealed[d]]
  BY <1>1, <1>2 DEF Sealed
<1>4. ASSUME NEW stub
      PROVE  stub \in Torn' <=> stub \in Torn /\ stub[1] \notin gone
  BY <1>1, InTorn
<1>5. Torn' = {stub \in Torn : stub[1] \notin gone}
  BY <1>4
<1> QED
  BY <1>1, <1>2, <1>3, <1>5

\* Tearing a stub open tears it, and seals nothing again.
LEMMA RevealTears ==
    ASSUME Inv, NEW d \in DOMAIN draws, NEW i \in DOMAIN draws[d].stubs, RevealWinner(d, i)
    PROVE  /\ d \in DOMAIN Sealed /\ i \in DOMAIN Sealed[d].slips
           /\ Torn' = Torn \cup {<<d, i>>}
           /\ Sealed' = Sealed /\ (1 .. lastDraw)' = 1 .. lastDraw
<1>1. DrawsKept({})
  BY RevealKeepsDraws
<1>2. Sealed' = Sealed
  BY <1>1, SealedStands
<1>3. d \in DOMAIN Sealed /\ i \in DOMAIN Sealed[d].slips
  BY DEF Sealed, Slips
<1>4. \A x \in DOMAIN draws : \A k \in DOMAIN draws[x].stubs :
         draws'[x].stubs[k].revealed =
            IF x = d /\ k = i THEN TRUE ELSE draws[x].stubs[k].revealed
  <2>1. draws = [x \in DOMAIN draws |-> draws[x]]
    BY DEF Inv, TypeOK
  <2>2. draws[d] \in Draw(draws[d].total) /\ draws[d].stubs \in Seq(Stub)
    BY DEF Inv, TypeOK, Draw
  <2>3. draws[d].stubs[i] \in Stub
    BY <2>2
  <2>4. \A x \in DOMAIN draws : x # d => draws'[x] = draws[x]
    BY <2>1 DEF RevealWinner
  <2>5. draws'[d].stubs = [draws[d].stubs EXCEPT ![i].revealed = TRUE]
    BY <2>1, <2>2 DEF RevealWinner, Draw
  <2>6. draws'[d].stubs[i].revealed = TRUE
    BY <2>2, <2>3, <2>5 DEF Stub
  <2>7. \A k \in DOMAIN draws[d].stubs : k # i => draws'[d].stubs[k] = draws[d].stubs[k]
    BY <2>2, <2>5
  <2> QED
    BY <2>4, <2>6, <2>7
<1>5. \A stub : stub \in Torn' <=> stub \in Torn \cup {<<d, i>>}
  <2>1. /\ DOMAIN draws' = DOMAIN draws
        /\ \A x \in DOMAIN draws : DOMAIN draws'[x].stubs = DOMAIN draws[x].stubs
    BY <1>1 DEF DrawsKept
  <2>2. ASSUME NEW x \in DOMAIN draws, NEW k \in DOMAIN draws[x].stubs
        PROVE  draws'[x].stubs[k].revealed <=>
                  draws[x].stubs[k].revealed \/ <<x, k>> = <<d, i>>
    BY <1>4
  <2> QED
    BY <2>1, <2>2, InTorn, Zenon
<1>6. lastDraw' = lastDraw
  BY DEF RevealWinner
<1> QED
  BY <1>2, <1>3, <1>5, <1>6

\* A draw seals a fair result under a number that was never handed out.
LEMMA RunDrawSeals ==
    ASSUME Inv, NEW e \in DOMAIN events, RunDraw(e), NEW d, d = lastDraw + 1
    PROVE  /\ d \in 1 .. MaxDraws /\ d \notin 1 .. lastDraw
           /\ (1 .. lastDraw)' = 1 .. lastDraw \cup {d}
           /\ DOMAIN Sealed' = DOMAIN Sealed \cup {d}
           /\ \A old \in DOMAIN Sealed : Sealed'[old] = Sealed[old]
           /\ Promise!Fair(Sealed'[d])
           /\ Torn' = Torn
<1> DEFINE pool == Eligible(Roster(e))
           prizes == events[e].prizes
           entrants == Cardinality(pool)
           n == Min({prizes, entrants})
<1>1. PICK picks \in Picks(pool, n) :
        draws' = With(draws, lastDraw + 1,
                [event |-> e, prizes |-> prizes,
                 entrants |-> entrants, total |-> DiaperTotal(Roster(e)),
                 version |-> events[e].version,
                 stubs |-> [i \in 1 .. n |-> SealedStub(guests[picks[i]], picks[i])]])
  BY DEF RunDraw
<1>2. lastDraw' = lastDraw + 1 /\ lastDraw < MaxDraws /\ pool # {}
  BY DEF RunDraw
<1>3. pool \subseteq GuestsOf(guests, e) /\ pool \subseteq DOMAIN guests
  BY DEF Eligible, Roster, Restrict, GuestsOf
<1>4. \A g \in pool : guests[g].count > 0
  BY DEF Eligible, Roster, Restrict, GuestsOf
<1>5. \A g, h \in pool : NameKey(guests[g].name) = NameKey(guests[h].name) => g = h
  <2>1. \A g, h \in pool : guests[g].event = guests[h].event
    BY <1>3 DEF GuestsOf
  <2> HIDE DEF pool
  <2> QED
    BY <1>3, <2>1 DEF Inv, OneRowEach
<1>6. entrants \in Nat /\ entrants # 0
  <2>1. lastGuest \in Nat /\ pool \subseteq 1 .. lastGuest
    BY <1>3 DEF Inv, TypeOK
  <2>2. IsFiniteSet(pool) /\ entrants \in Nat
    BY <2>1, FiniteIds
  <2> QED
    BY <1>2, <2>2, FS_EmptySet
<1>7. prizes \in 1 .. MaxPrizeCount
  BY DEF Inv, TypeOK, Event
<1>8. n \in Nat /\ n # 0 /\ n <= prizes /\ n <= entrants /\ n \in {prizes, entrants}
  BY <1>6, <1>7 DEF Min, MaxPrizeCount
<1> HIDE DEF n
<1>9. picks \in [1 .. n -> pool] /\ \A i, j \in 1 .. n : picks[i] = picks[j] => i = j
  BY DEF Picks, IsInjective
<1> HIDE DEF pool, entrants, prizes
<1>10. PICK stubs : stubs = [i \in 1 .. n |-> SealedStub(guests[picks[i]], picks[i])]
  OBVIOUS
<1>11. DOMAIN stubs = 1 .. n
       /\ \A i \in 1 .. n : /\ stubs[i].name = guests[picks[i]].name
                            /\ stubs[i].count = guests[picks[i]].count
                            /\ stubs[i].revealed = FALSE
  BY <1>10 DEF SealedStub
<1>12. PICK draw : draw = [event |-> e, prizes |-> prizes, entrants |-> entrants,
                           total |-> DiaperTotal(Roster(e)),
                           version |-> events[e].version, stubs |-> stubs]
  OBVIOUS
<1>13. draw.prizes = prizes /\ draw.entrants = entrants /\ draw.stubs = stubs
  BY <1>12
<1>14. draws' = With(draws, d, draw)
  BY <1>1, <1>10, <1>12
<1>15. lastDraw \in Nat /\ d \notin DOMAIN draws /\ DOMAIN draws \subseteq 1 .. lastDraw
  BY DEF Inv, TypeOK
<1>16. /\ DOMAIN draws' = DOMAIN draws \cup {d} /\ draws'[d] = draw
       /\ \A x \in DOMAIN draws : draws'[x] = draws[x]
  BY <1>14, <1>15 DEF With
<1>17. d \in 1 .. MaxDraws /\ d \notin 1 .. lastDraw
       /\ (1 .. lastDraw)' = 1 .. lastDraw \cup {d}
  BY <1>2, <1>15, BoundsAssumption
<1>18. DOMAIN Sealed = DOMAIN draws /\ DOMAIN Sealed' = DOMAIN draws'
  BY DEF Sealed
<1>19. \A old \in DOMAIN draws : Sealed'[old] = Sealed[old]
  BY <1>16 DEF Sealed
<1>20. Torn' = Torn
  <2>1. \A i \in DOMAIN draw.stubs : ~draw.stubs[i].revealed
    BY <1>11, <1>13
  <2>2. \A stub : stub \in Torn' <=> stub \in Torn
    BY <1>15, <1>16, <2>1, InTorn
  <2> QED
    BY <2>2
<1>21. Promise!Fair(Sealed'[d])
  <2>1. PICK slips : slips = Slips(draw)
    OBVIOUS
  <2>2. PICK result : result = [prizes |-> prizes, entrants |-> entrants, slips |-> slips]
    OBVIOUS
  <2>3. Sealed'[d] = result
    BY <1>13, <1>16, <2>1, <2>2 DEF Sealed
  <2>4. /\ slips = [i \in 1 .. n |-> slips[i]] /\ DOMAIN slips = 1 .. n
        /\ \A i \in 1 .. n : /\ slips[i].key = NameKey(guests[picks[i]].name)
                             /\ slips[i].count = guests[picks[i]].count
    BY <1>11, <1>13, <2>1 DEF Slips
  <2>5. Len(slips) = n /\ slips # <<>>
    BY <1>8, <2>4
  <2>6. \A i \in 1 .. n : picks[i] \in pool
    BY <1>9
  <2>7. \A i \in DOMAIN slips : slips[i].count > 0
    BY <1>4, <2>4, <2>6
  <2>8. \A i, j \in DOMAIN slips : slips[i].key = slips[j].key => i = j
    BY <1>5, <1>9, <2>4, <2>6
  <2>9. result.slips = slips /\ result.prizes = prizes /\ result.entrants = entrants
    BY <2>2
  <2> QED
    BY <1>8, <2>3, <2>5, <2>7, <2>8, <2>9 DEF Promise!Fair
<1> QED
  BY <1>16, <1>17, <1>18, <1>19, <1>20, <1>21

LEMMA StepKeepsPromise ==
    ASSUME Inv, [Next]_vars
    PROVE  [Promise!Next]_(Promise!vars)
<1>1. ASSUME NEW e \in DOMAIN events, NEW gone, RosterEdit(e, gone)
      PROVE  UNCHANGED Promise!vars
  BY <1>1, EditStutters DEF Promise!vars, Sealed, Torn
<1>2. ASSUME NEW dead, RaffleEdit(dead)
      PROVE  Promise!Next
  BY <1>2, RaffleEditErases DEF Promise!Next, Promise!Erase, Sealed, Torn
<1>3. ASSUME NEW e \in DOMAIN events, RunDraw(e)
      PROVE  Promise!Next
  <2>1. PICK d : d = lastDraw + 1
    OBVIOUS
  <2> QED
    BY <1>3, <2>1, RunDrawSeals DEF Promise!Next, Promise!Seal, Sealed, Torn
<1>4. ASSUME NEW d \in DOMAIN draws, NEW i \in DOMAIN draws[d].stubs, RevealWinner(d, i)
      PROVE  Promise!Next
  BY <1>4, RevealTears DEF Promise!Next, Promise!Tear, Sealed, Torn
<1> QED
  BY StepKinds, <1>1, <1>2, <1>3, <1>4

\* The draws keep the host's promise: results are fair when they are sealed and
\* stand, torn stubs stay torn and numbers do not come back, through every
\* sequence of operations of the store.
THEOREM DrawsKeepPromise == Spec => KeepsPromise
<1>1. Init => Promise!Init
  BY DEF Init, Promise!Init
<1>2. Inv /\ [Next]_vars => [Promise!Next]_(Promise!vars)
  BY StepKeepsPromise
<1> QED
  BY <1>1, <1>2, Invariance, PTL DEF Spec, KeepsPromise, Promise!Spec
=============================================================================
