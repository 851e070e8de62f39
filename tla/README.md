# Diaper raffle: specification, model checking and proofs

The program is the web server of a baby-shower raffle (Go, SQLite, one page of
JavaScript). A host pastes a roster of guests and the diapers each has brought,
presses a button, and the server draws the winners, one ticket per diaper and
no second prize for anybody. The winners' stubs are torn open one at a time.

This directory holds TLA+ modules translated from that code, TLC configurations
that check them on small instances, and theorems that TLAPS checks for every
value of the constants. `PROJECT.json` says which lines each definition stands
for.

## 1. Inventory

| Part | Code | State | Operations |
|---|---|---|---|
| Roster text | `internal/raffle/roster.go` | none (pure) | `ParseRoster`, `parseLine`, `parseCount`, `NameKey`, `FormatRoster` |
| Weighted draw, odds | `internal/raffle/draw.go` | arrays of one call | `Draw`, `Odds` |
| Randomness, serials | `internal/raffle/random.go` | none | `CryptoFloat`, `Serials` |
| Raffles | `internal/store/events.go` | table `events` | create, update, delete, look up, list |
| Rosters | `internal/store/guests.go` | table `guests`, `events.roster_text`, `roster_version` | save a text, add diapers, change a guest, remove a guest, list |
| Draws | `internal/store/draws.go` | tables `draws`, `draw_winners` | draw, reveal, latest, list, look up |
| Database | `internal/store/store.go`, `migrations/` | schema, `user_version`, the one connection | open, migrate, transactions, `now` |
| Settings | `internal/store/settings.go` | table `settings` | password hash, session key |
| Odds endpoint | `internal/httpapi/odds.go` | the cache, its mutex | `GET .../odds` |
| Handlers and views | `internal/httpapi/handlers.go`, `server.go`, `respond.go` | none | one per route; a view is put together from several reads |
| Sign-in gate | `internal/httpapi/gate.go`, `internal/auth` | the attempt limiter | sign in, sign out, who may pass |
| Page | `internal/webui/assets/app.js` | the textarea, save sequence numbers, the draw shown | autosave, draw, reveal, prize count, rename, odds, history |
| Process | `cmd/server/main.go` | none | serve, shut down, set or clear the password |
| Deployment | `scripts/`, `Dockerfile`, `fly.toml`, `Makefile` | none | build and start |

How they interact. The page sends HTTP requests and orders their answers itself.
Each handler calls the store, then often the store again to put a view together.
The store's operations are transactions on one connection, so they never overlap
with each other, but two calls of one handler can have other requests between
them. The roster exists twice in the database, as the text the host typed and as
one row per guest: saving a text rewrites the rows (`ReplaceRoster`), a change to
a row rewrites the text (`syncRosterTextTx`). Draws copy what they need from the
roster, and a page tells whether a draw is out of date by comparing roster
versions. The odds cache is keyed by that version, too.

What is hard here, and what makes each part correct:

- **Roster text.** Merging by a folded key, sums in a fixed width, and a writer
  whose output the reader must understand. Correct: everyone named has one entry,
  in order, with their sum; writing and reading back changes nothing.
- **Rosters.** Long sequences of merges, renames and removals, on two
  representations. Correct: one row per person, ids that stay with the person,
  rows and text in step, and a version that moves whenever either does.
- **Raffles.** Suffixes that collide with slugs somebody typed. Correct: a link
  leads to one raffle; nothing outlives its raffle.
- **Draws.** Results survive every later edit. Correct: fair when made, frozen
  afterwards, never torn and then untorn, ids never reused, and a draw that is
  not called stale matches the roster on the screen.
- **Weighted draw.** Two different algorithms for one idea. Correct: the
  simulation's selection is the one the draw makes.
- **Odds.** Two reads that are not one, and a lock that is released in between.
  Correct: no answer is older than the request, no hit is out of date, the cache
  is bounded.
- **Page and its handlers.** Saves, draws, reveals and prize steps that overlap; a
  view that is three reads; answers out of order or lost. Correct: what was typed
  last is stored or known as unsaved, a draw uses the text on the screen, a name
  shows on its own stub after it was torn and never before, nothing stays
  blocked, and the draw and the stale flag on the screen are the database's.
- **Answers of several queries.** A view is an event, its guests, its latest draw
  and that draw's stubs, read one after the other over the one connection.
  Correct: no answer is older than its request, none has lost a draw or a stub,
  the stale flag was right at some moment of the request, and rows that are
  still open never keep the connection for good.
- **Opening and migrating.** Server, command and updates open one file side by
  side and read the version outside the transaction. Correct: the schema is what
  the version says, and who is past `Open` has its tables.
- **Settings, gate, process.** The password and the key are two writes, the key is
  read and made in two steps, a sign-in takes seconds between them. Correct: old
  passwords stop working, sessions survive every restart, and whoever knows the
  password gets in.
- **Attempt limiter.** Asked before the password is checked and told afterwards.
  Correct: the budget can be overdrawn only by the sign-ins side by side, nobody
  is locked out early, and a lockout ends.

## 2. Modules

| Module | What it is |
|---|---|
| `RosterText` | the operators of `roster.go`: reading and writing rosters |
| `RosterParser` | `ParseRoster`'s loop, one line a step, against definitions that never look at the loop |
| `RosterTextProofs` | what reading a text does, line by line and as a whole; sums, remainders, induction over texts |
| `Store` | raffles, rosters and draws: one action per operation of `internal/store` |
| `SealedDraws` | abstract specification: what a host is promised of draws; `Store` implements it |
| `StoreProofs` | theorems about `Store` |
| `OddsCache` | the odds endpoint: requests, cache, edits in between, restarts |
| `OddsCacheProofs` | theorems about it |
| `WeightedDraw` | `Draw`, and `Odds` one candidate a step |
| `RaffleProofs` | theorems about `RosterParser` and `WeightedDraw` |
| `Timestamps` | `now` and the order in which draws are listed |
| `Autosave` | the roster box: typing, debounced saves, the draw button's flush, closing the page |
| `AutosaveProofs` | theorems about it |
| `DrawPage` | the draw on the page: saves, prize steps, draws and reveals, and the handlers' separate reads |
| `DrawPageProofs` | theorems about it |
| `Views` | the handlers that answer from several queries, against edits, draws, reveals and a deletion, over the one connection |
| `ViewsProofs` | theorems about it |
| `Limiter` | the attempt limiter and the order in which a sign-in uses it |
| `Migrate` | opening the database by several processes of different builds |
| `Gate` | sign-in, cookie, session key, and the command that sets the password |
| `System` | server and command on one database: `Migrate` and `Gate` composed, with crashes, updates and restarts |
| `SystemProofs` | theorems about `Migrate` for any set of processes; that `System` implements both parts; theorems about it; theorems about `Limiter` |
| `MCRosterParser`, `MCStore`, `MCOddsCache`, `MCWeightedDraw` | instances for TLC |

`RosterText` is extended by `RosterParser` and by `Store`, so the store's saves
run the very parser that is checked on its own. `Store` takes from
`WeightedDraw` that any sequence of different candidates with diapers can win
(`Picks`; the run `WeightedDraw` checks it as `AnyoneCanWin`), and `OddsCache`
takes from `Store` that a roster is determined by its version (checked as
`VersionCoversRoster`). `System` instantiates `Migrate` and `Gate` side by side:
a step of the server is a step of `Gate` only while its process is past `Open`,
and a crash or an update is one step of both. `Views` and `Limiter` stand alone;
what `Views` knows of a draw (its stubs, its version) is what `Store` says of it.

Two components whose theorems stand in one module cannot both call their parts
`Init`, `Next` and `Spec`; those of `RosterParser` and `Limiter` carry their
module's name.

A definition with an underscore in its name is a mutant: the definition after it
with a plausible bug. Nothing uses it except the table `mutants` of
`PROJECT.json`, which says for each property a bug it notices.

### RosterText and RosterParser

A name keeps what the parser can tell apart: the person (what `NameKey` leaves
of it), whether it is in capitals (folded by `NameKey`), and whether it ends in
one of `,;:`. The last matters because `parseLine` trims that punctuation from
`name, 3` and keeps it on a line with a tab or without a number. The name of a
line that holds nothing else is `Nobody`. A line keeps its name, whether it has
a tab, whether it has a number, and the number. `Int64` wraps to `Half`, which
stands for 2^63; `parseCount` has the three outcomes of `ParseInt`, `ParseFloat`
and the conversion, and the constant `TooBig` is whatever the processor makes of
a float that is too large. The map from keys to entries and the order beside it
are one sequence of entries.

### Store

A table is a function from ids to rows; the three `last` variables are SQLite's
AUTOINCREMENT counters. Stubs live and die with their draw, so a draw holds them
as a sequence. `events[e].text` is a sequence of lines. An operation is one
action: the pool has one connection (`store.go:63`) and everything runs inside a
transaction, so nothing overlaps, and an operation that returns an error rolls
back and is no step. Guards are the negations of the early returns:

- `CreateEvent`, `UpdateEvent`, `DeleteEvent`: `events.go`. `uniqueSlug` yields
  the set with the first free candidate, or no candidate at all. A slug is a root
  and the suffixes added to it, so `Raffle 2` typed by a host and `raffle` with
  the suffix 2 are one slug. `DeleteEvent` includes the cascades.
- `ReplaceRoster`: parses, updates matches in place, inserts, deletes the rest
  (and unlinks their stubs, ON DELETE SET NULL), saves text and version.
- `AddDiapers`, `UpdateGuest`, `DeleteGuest`: each ends in `SyncRosterText`, which
  lists the rows, writes them out, bumps the version and clears the merge flags.
  `Fits` is the failure of a sum that SQLite turned into a float.
- `RunDraw`, `RevealWinner`: `draws.go`. A second reveal changes nothing.

`SealedDraws` knows nothing of rosters: `Seal` adds a fair result under a fresh
number, `Tear` opens a stub, `Erase` forgets whole draws. `KeepsPromise` maps
`draws` onto it and asks that every step of `Store` is one of these or a stutter.

### OddsCache

A handler is idle, has read the event row, has read the guests, is computing, or
is done. A roster is identified with its version, and odds with the roster,
prize count and seed they came from. Edits, prize changes and deletions commit
between any two steps of a handler; `Restart` empties the memory and keeps the
database. The lookup and the insertion are separate steps because the mutex is
released between them.

### WeightedDraw

Keys are `log(U)/weight` in the code; here any numbers, because U can be
anything and only the order of keys is looked at. `Consider` is one iteration of
the inner loop, its three disjuncts the three ways through it; `Score` is the end
of a simulated draw. The arrays keep their contents from one draw to the next, as
in the code. `Draw` is the set of results that sorting may leave, since
`sort.Slice` does not say what it does with equal keys. Eligible candidates are a
set: `Draw` sorts them all, and `Odds` numbers them in the order of the pool.

### Timestamps

A fraction of a second has `Digits` digits in base `Base` and loses its trailing
zeros, dot included, as RFC3339Nano does; texts compare character by character
with the dot before the digits and `Z` after them. Everything down to the second
has a fixed width and is one character.

### Autosave

Save 0 is the text the page was loaded with, and the n-th save is `saves[n]`:
`saveSeq` is the length of `saves`. `pendingText` is a set, empty where the code
has `null` (before boot has finished the box is disabled, so null then does not
matter). A save is `sent`, `applied` by the server, `done`; it may fail for the page
before or after it was applied. A save that has failed before is `lost`: `fetch`
rejects when the connection breaks, and the server may carry the save out all the
same, at any later time, or never. Saves overtake each other, because the browser
opens several connections and the server runs every request on its own. `stored` is
the number of the save whose text the server has. `SaveRoster` is the function,
called from the timer, from blur and from the draw button.

`draws` are the presses of the button whose draw is not yet answered or may yet run:
waiting for the flush, posted, or ran, and whether the page still waits. The draw is
posted when the flush is answered, well or not, since `saveRoster` catches its own
error; a draw that has failed for the page may run later, too, beside the next press.
Each press remembers, for the properties, the number of the newest save and whether
it was calm: no save could reach the server any more (`Landable`, lost ones included),
the newest that did is the one it has, and the flush, if there was one, went well.
`Close` is pagehide; a request without `keepalive` may be cancelled afterwards.

### DrawPage

The draws of one raffle are the sequence of the roster versions they ran on, so a
draw's id is its place in it; a face is the draw whose winner is printed on a
stub. Who won is left to `Store`: here it only matters whose draw a name is from.
Requests pass through the steps of their handler: a save or a prize step commits
(`ReplaceRoster`, `UpdateEvent`), reads the latest draw, reads its stubs, and is
ready to be answered; a draw and a reveal are one transaction. `hidden` is
`models.go`'s. A press of the draw button blocks it at once; if there is text to
send, `flush` is the save it waits for, and `Settle`, the end of every request, posts
the draw when that save is answered or fails. A request may fail at any step, before
or after it was carried out, and one that fails while it is under way may be `lost`
for the page alone and still be carried out (`CommitLate`). The record `met` is no part of the program: it remembers whether requests of
different kinds have overlapped and whether an answer was lost after the deed, so
that the properties can say under which overlaps the screen is right. The latest draw
is the one made last: draws within one second, which `LatestDraw` may confuse, are
`Timestamps`' subject. The tally,
the guest list and the prize count on the page are left out.

### Views

The other side of the same handlers: what the answers say, not what a page makes
of them. Every statement or transaction is one step that needs the connection
(`Query`); reading the rows of a history is two, because the connection stays
taken from `ReadDraws` to `EndOfRows`, and the stubs are looked up after that
(`winners`). A request is a record: what it is for, what it has to do next, and
what it has read so far. A view takes the raffle's version from its first query
(for a saved roster that is the version it has just written, `Answered`), so
`Stale` compares values of different moments, as in the code. `RunDraw`,
`RevealWinner`, `Unheard` (an edit whose page has gone) and `DeleteEvent` are
whole handlers of other pages. The newest draws are those made last (`Newest`); the
code sorts by the text of `created_at`, and what `Views` says of latest draws and of
histories is for timestamps that sort as the draws were made (finding 1 says when they
do not). `Fail` is a page that goes away or a query that fails. `past` is no part of
the program: it remembers what was so when a request began and, for a view, every pair
of draw and flag that was true since.

### Limiter

A record's time is its age, which stops one tick beyond the window, since nothing
tells older ages apart. `signIn` says whose password each handler is checking:
`Allow` and `Refuse` are the question, `Wrong`, `Right` and `GiveUp` (no password
set, or the request ends) the ways out. `fail` includes the sweep. `tries`
remembers, for the properties, the wrong guesses of each age since the last right
one. Callers are whatever `clientIP` returns.

### Migrate, Gate and System

`Migrate`: a process is down, started, migrating, recording (its transaction is
open and holds SQLite's write lock) or open. The tables of migration `i` are the
number `i` in `schema`. `Exists` is why a second run of a migration fails: the
tables are created without IF NOT EXISTS. `busy_timeout` waits are the steps that
do not happen; giving up is `Fail`, which ends the process, as `run` does.
`known` is the number of migrations in a process's build, and `Update` replaces
the build.

`Gate`: a hash stands for the password it was made from, a signature for the key
that made it, and keys are numbered as they are made. A sign-in reads the hash
(`SignIn`; one that the limiter turns away reads and changes nothing and is no step),
derives a key for seconds (`VerifyPassword`), then reads the session
key (`ReadKey`) and makes one if there was none (`MakeKey`); a visit reads the
hash (`Visit`) and the key. `WriteHash` and `RotateSessionKey` are the two writes
of the command. `Strangers` come with a cookie signed by some other database's
key. `torn` (the command has ended between its writes) and `rotated` (the key was
changed during this sign-in) are history, for the properties.

`System`: `Open`, `Serve`, `WriteHash`, `RotateSessionKey`, `Crash` and `Update`
are steps of the parts under the conditions of the other part. The command ends
when it is done; the server is started again whenever it is down.

## 3. Runs

| Run | Checks | Shows |
|---|---|---|
| `RosterParser` | `ParserTypeOK`, `OneEntryEach`, `EntriesAreSums`, `RoundTrip` | the parser does what its comment says, for every text of up to three lines |
| `StoreRoster` | `TypeOK`, `OneRowEach`, `RosterInStep`, `IdsFollowPeople`, `VersionCoversRoster` | rows stay one per person, keep their ids, and agree with the text, and every edit moves the version, through every mixture of edits, overflowing ones included |
| `StoreDraws` | `StaleIsHonest`, `NothingDangles`, `KeepsPromise` | draws are fair, frozen, and never wrongly called current; a stub forgets a guest who is gone |
| `StoreRaffles` | `OneRafflePerLink`, `VersionCoversRoster` | links stay unique, and versions cover the roster, with three raffles about |
| `OddsCache` | `Bounded`, `HitsAreFresh`, `AnswersAreFresh` | three requests side by side with edits never answer with the past |
| `WeightedDraw` | `TypeOK`, `SimulationIsDraw`, `AnyoneCanWin` | the simulation selects what the draw would, and the draw repeats nobody |
| `Autosave` | `NothingForgotten`, `CalmDrawSeesScreen`, `EndsUp` | no failure or overlap makes the page forget that it has something to send; a draw pressed when no save can land any more uses the screen's text; typing that stops ends up on the server or known as unsaved |
| `DrawPage` | `SealedTillTorn`, `NothingStuck`, `ScreenIsCurrent` | no name before its stub is torn; the button blocked exactly while its flush or its draw is under way, a stub only while its reveal is; which overlaps leave the screen right |
| `Views` | `TypeOK`, `FlagWasRight`, `NoAnswerIsOlder`, `NothingIsMissing`, `EveryoneIsAnswered` | what an answer of several queries is right about; two requests that compete for one connection both come to their end |
| `Limiter` | `KeepsToBudget`, `BudgetPerWindow`, `LetInAgain` | how far sign-ins side by side overdraw the budget; nobody locked out early; a lockout ends |
| `System` | `VersionIsSchema`, `OpenHasTables`, `OldPasswordsOut`, `KeysComeFromCommand`, `SignedInStays`, `GuestsGetIn` | two programs on one file: the schema and the key survive every order of starts, crashes and updates, and guests get in |
| `TimestampsOrder` | `LatestIsNewest` (violated) | finding 1 |

Some properties are conjunctions of parts with names of their own:
`EntriesAreSums` of `FirstSpellingFirst` and `CountsAreSums`, `SimulationIsDraw`
of `ListIsDraw` and `HitsAddUp`, `ScreenIsCurrent` of `DrawIsCurrent` and
`FacesAreCurrent`, `NothingIsMissing` of `StubsAreWhole` and `HistoryIsWhole`,
`BudgetPerWindow` of `NobodyLockedOutEarly` and `SpanHasTwoBudgets`. The type
invariants of `OddsCache`, `Autosave`, `DrawPage`, `Limiter` and `System` are
proved rather than checked.

Bounds, and why they are enough to meet the interesting cases:

- `Half = 4` makes an int64 three bits wide: counts of 2 and 3 wrap when added
  once, `-6` and `7` are out of range on either side. `MaxLines = 3` gives a name,
  its repetition, and somebody in between or after.
- Store: two people, one of them with two spellings of one key and a third that
  ends in a comma. `MaxVersion` bounds the number of roster changes to one raffle
  (4 without draws, 3 with them, 1 for the raffles' run), `MaxDraws` the draws,
  `MaxEvents` the raffles ever created, `MaxSuffix` the suffixes tried (999 in the
  code, 2 here, so that running out of them happens). Three raffles are needed
  for one to sit on the slug another's suffix would make while a third asks for
  it. The prize requests include 0 and -1 (the default of 3, more prizes than
  guests), and 21, which is refused.
- OddsCache: three requests and a limit of 2, so two insertions can find the
  cache one below its limit; `MaxVersion = 2` gives an edit before and after every
  read. Requests are interchangeable, and the run uses that symmetry; it checks
  invariants only. One raffle is enough for the races, since different raffles
  share only the cache and its limit; prize counts fill the cache as well.
- WeightedDraw: pools of up to four candidates, four keys (ties and all orders),
  up to five prizes, two simulated draws, since the second is the first to meet
  somebody else's arrays.
- Timestamps: base 3, two digits, three seconds, three draws.
- Autosave: three saves, so that one can be overtaken by both a failure and a
  success; two texts, so that typing can go back to one that was sent; two draws, so
  that one the page has given up can run beside the next. Two saves are enough for
  finding 4.
- DrawPage: four requests (a flush and its draw, a tap, and a save, prize step or second
  draw among them) and two stubs, so that one can be torn while the other waits.
  Three requests are enough for finding 5.
- Views: two requests put together side by side while everything else happens between
  their queries, each taking the one connection from the other again and again; with
  weak fairness instead of strong, TLC finds the request that is passed over for ever.
  Two draws and two edits, before and after each of them; rosters of nobody and of one,
  so that a draw can have more stubs than the raffle would give it now; a limit larger
  than allowed, which becomes the default of two, so that a history looks up the stubs
  of two draws one after the other. One prize count, so changes of it are requests that
  change nothing; more of them, and limits that cut a history off, are left to the
  theorems, since with two requests the graph grows beyond what liveness can be
  checked on in minutes.
- Limiter: a budget of three, a window of two ticks, two callers and two sign-ins
  side by side, and a sweep that sets in at two records. The budget is met, is
  overdrawn, expires, and starts again in between.
- System: two migrations, the second of which brings the settings, as in the code;
  a server that may be of the older build; two passwords, two guests (one with a
  foreign cookie), two runs of the command, one crash anywhere.

The models of the store, the odds, the page and the views stop at their bounds or
when the raffle is gone, and a real server simply has nothing to do when no
request comes in, so deadlock is not checked there. `Limiter` is checked for it.
`System` can rest with everybody signed in and nothing to do; its liveness
property says more than the absence of deadlock would.

Fairness, and why the code justifies it:

- `Autosave`: a timer that is due fires (the browser's event loop), and a request
  under way is answered or fails (the connection ends, or the timeouts of
  `main.go:80-84` end it). The host is never obliged to type, blur, press or close,
  and `EndsUp` asks for the end only if the host stops typing, because every
  keystroke restarts the timer.
- `Limiter`: weak fairness of `Tick`: time passes.
- `Views`: strong fairness of a request's next step. The step needs the one
  connection, which others take again and again; `database/sql` hands a connection
  that is given back to one of those who wait for it, picked at random, so nobody
  is passed over for ever.
- `System`: weak fairness of `Open` (launchd's KeepAlive, and a process that runs
  goes on) and of `Answer` (a handler goes on), and strong fairness of `Knock`: a
  guest who sees the sign-in form types the right password again and again, while
  the command changes it at most `MaxCommands` times. The limiter may turn a guest away
  for a while (`gate.go:107-112`), which `Gate` leaves out; that it does not do so every
  time is what `LetInAgain` says of it in its own module, for a guest who types the right
  password: they add no failures to a record.

## 4. Findings

Places where TLC refutes what a comment or the documentation says. The first has
a run of its own.

1. **Texts do not sort like times** (`TimestampsOrder`). RFC3339Nano drops
   trailing zeros, so of two draws within a second the older can sort as the
   newer. `store.go:152-153`: "stored as RFC 3339 in UTC so they sort lexically".

The others are definitions beside the properties of their module. Naming one as
the only INVARIANT of the configuration given shows its counterexample.

2. **Rows and text drift** (`NeverDrifts`, `MCStoreRoster.cfg`). A name pasted
   from a spreadsheet as `Ann,<tab>1` keeps its comma in the rows; the regenerated text `Ann,, 1`
   reads back as `Ann`. `guests.go:259`: "Regenerating means the two
   representations cannot drift." `RosterInStep` says when they do not: no name
   ends in `,;:` and no sum has wrapped.
3. **A sum that wraps** (`NoNegativeCount`, `MCRosterParser.cfg`). Repeated lines
   are added in int64 without a check, so a guest can end up with a negative count.
   `roster.go:42`: "Negative counts are treated as zero."
4. **The draw runs ahead of a save** (`DrawSeesScreen`, `Autosave.cfg`). The button
   waits only for a save of its own; one that is under way, or has failed, does not
   hold it back.
   `app.js:328-329`: "so the draw runs against what is on screen rather than what
   was last saved". `CalmDrawSeesScreen` says when it does: a save that the page was told
   has failed can land after it, so calm is what the server, not the page, knows.
5. **A name on the wrong stub** (`FacesAreWinners`, `DrawPage.cfg`). A reveal's
   answer is put into whatever draw the page shows by then. `draws.go:144-145`: "two people tapping
   the same stub should both see the same name". `FacesAreCurrent` says when the
   faces are right.
6. **Odds that wobble** (`SameRosterSameOdds`, `MCOddsCache.cfg`). With an edit
   between a handler's two reads the new roster is simulated with the old version's
   seed, and the next request with another one. `odds.go:56-57`: "so the same
   roster always reports the same percentages". The answer itself is about the
   newer roster, which `AnswersAreFresh` shows is the worst that can happen.
7. **"Saved" over a failure** (`SavedMeansSaved`, `Autosave.cfg`). `savedSeq` moves
   only when a save succeeds: a newer save fails, an older one then succeeds, and
   "Not saved" becomes "Saved". `app.js:284`: "A slower earlier save must not
   overwrite a newer one's result."
8. **The older text stays** (`RefreshKeepsText`, `Autosave.cfg`). Two overlapping
   saves carried out the wrong way round leave the older text stored under a page
   that says "Saved". `README.md:28`: "**Everything is saved.** Refresh the page".
   `NothingForgotten` is what remains true: the newest text did reach the server.
9. **Closing during a save** (`ClosedLands`, `Autosave.cfg`). A text whose ordinary
   save is under way is not repeated with `keepalive`. `app.js:309`: "A roster
   typed and then immediately closed should still land."
10. **A stale flag that is wrong** (`EditMarksStale`, `DrawPage.cfg`). A draw's
   answer clears it whatever happened since the draw, and a view compares two
   moments. `README.md:50`: "and the page says so when they no longer match".
11. **A draw that vanishes** (`LatestIsShown`, `DrawPage.cfg`). A late answer of
   the prize stepper puts the previous draw back. `handlers.go:297-298`: "return
   the whole page state so the browser never has to guess what changed".
   `ScreenIsCurrent` says which overlaps are harmless for 10 and 11.
12. **Sweeps that do not come** (`FailureSweeps`, a PROPERTY of `Limiter.cfg`). A
   first failure returns before the sweep, and a first failure is what adds a
   record, so a table fed by one-time guessers is never swept. `gate.go:254-255`:
   "so a long-running server does not accumulate an entry per guesser forever".

Four more are not refuted but are weaker than a reader would expect; the
properties say exactly what is true.

- **Sessions of an old password.** `README.md` and `settings.go:103-104` say that
  changing the password signs everybody out. It does, unless the command ends
  between its two writes, or a sign-in that overlaps it has verified the old
  password and signs with the new key. `OldPasswordsOut` is the statement with
  these two exceptions, and TLC finds both if they are left out.
- **Two first keys.** Two requests that both find no session key make one each, and
  the first cookie stops working. `SignedInStays` and `KeysComeFromCommand` confine
  this to an installation whose command has not been run to its end.
- **More tries than promised.** `README.md:256` of the program says "8 tries per caller
  per 15 minutes". The window starts with the first failure of a record, and the
  limiter is asked before the password is checked, so 15 minutes can reach into two
  windows, each overdrawn by the sign-ins side by side: `SpanHasTwoBudgets` has the
  bound, `2 * (8 - 1 + n)` for `n` sign-ins side by side, not reached.
- **A stale flag for a draw nobody outran.** A view that read the raffle, then
  waited while an edit and a draw on the edited roster went by, calls that draw out
  of date. `FlagWasRight` has this as its one exception.

## 5. Proofs

Every theorem is checked by TLAPS to its last leaf, with Z3, Zenon and LS4.

**RosterTextProofs.** `TextsAreDescribed`: for a text of any length, an int64 of any
width (`Half`) and any `TooBig`, `ParseRoster` is well formed, has one entry for each
person the text names and nobody else, in the order of first mention, with the
spelling of the first line, the wrapped sum of all that person's lines, and `merged`
exactly where there were several. The parser is a fold over the text and the
description a sum over its lines, so this is an induction over data, three times.
An induction rule with a predicate as a parameter is of no use to the provers;
`NatSetInduction` is one for a *set* of numbers, from the well-foundedness of `<`.
The folds of the community modules are a `CHOOSE` among the functions that satisfy a
recursion; `FoldExists` and `SumExists` build such a function from the smaller ones,
`FoldsAgree` and `SumsAgree` say that its value does not depend on the domain it was
chosen for, and then `ParseOneMore` (a text with one more line is read as the text
and then the line) and `TotalAdd` can be used like definitions. That wrapped sums may
be wrapped at any time is `Int64Adds`, from the uniqueness of remainders.

**RaffleProofs, reading.** `ParserReads`: the loop's entries are at all times
`ParseRoster` of the lines read. With the description above, all four properties of
`RosterParser` follow for every text: `ParserTypeCorrect`, `EveryoneOnce`,
`RepeatsAreSummed` and `TextSurvives`.

**RaffleProofs, drawing.** For any pool, any number of prizes, any keys and any
number of simulated draws. The invariant `SimInv` says of the short list what an
insertion must not break (`Best`): it has the largest keys so far, best first, each
with its own candidate; a key that is not on it is no larger than the last of a full
list; and only its first `filled` places say anything, which is what makes it safe
for draws to share the arrays. `BestAfterInsert` is the step, `LandingFits` that there
is one place for a new key. To get from there to `Draw`
(`SimulationSelectsLikeDraw`), a list of the best has to be the beginning of a sorted
order of everybody: `SortExists` sorts any finite set, `BestFirst` puts the rest
behind the list. The hits
(`HitsAddUp`) are a sum over candidates, one more for everybody on the list
(`TotalMore`), and the list's candidates differ. `AnyoneCanBeDrawn` uses the same
`BestFirst`: give everybody the same key, and any sequence is the beginning of a
sorted one. `DrawTypeCorrect` is a part of `SimInv`.

**StoreProofs.** The inductive invariant is

    Inv == TypeOK /\ OneRowEach /\ NothingDangles /\ OneRafflePerLink
           /\ StaleIsHonest /\ NobodyWinsTwice

and the theorems `TypeCorrect`, `OneRowPerPerson`, `ReferencesHold`,
`LinksAreUnique`, `StalenessIsSound` and `WinnersDiffer` are its parts. Neither
of the last two is inductive alone. `StaleIsHonest` needs `draws[d].version <=
events[...].version` from `NothingDangles`: an edit moves the version past every
draw's, so all draws of that raffle turn stale, while draws of other raffles see
neither their roster nor their version move. `NobodyWinsTwice` speaks of names
and the draw picks ids, so it needs `OneRowEach`: different rows have different
keys.

The step properties rest on the same invariant. `IdsStayStable` (`IdsFollowPeople`)
needs `OneRowEach` and that ids are never used again: a row of a person who had one
is that row. `VersionsTell` (`VersionCoversRoster`): a step that leaves a raffle's
version alone is none of its edits, and touches neither its rows nor its text.
`DrawsKeepPromise` is the refinement of `SealedDraws` (`KeepsPromise`): the initial
state maps to an initial state, `RunDraw` to a sealing, `RevealWinner` to a tearing
or a stutter, `DeleteEvent` to an erasure of that raffle's draws, and every edit of a
roster to a stutter. The last is the hard one, since a deleted guest is unlinked from
the stubs of the raffle: the slips keep name, count and serial of the day of the draw.

The proof treats the actions in three groups: operations on a roster
(each is shown to be a `RosterEdit(e, gone)`: guests of other raffles untouched,
version up by one, stubs of `gone` unlinked), operations on raffles (each a
`RaffleEdit(dead)`), and draws. One lemma for each group then preserves each part.

What the store's saves read is what `TextsAreDescribed` says, so nothing is assumed
of the parser. `TextStaysInStep` (`RosterInStep`) needs more of it: where the names
of a raffle's rows are plain and their counts not negative, the rows are what the
text reads as. It is inductive together with `Inv`, raffle by raffle (`TextTells`). A
saved text names exactly the rows it leaves, in their order; an operation on one
guest writes the rows out, and `ReadsBack` says that they come back. No length of text or
number of rows is assumed.

Assumptions, all evaluated by TLC on every run: `InputsAssumption` (inputs have
their types; a count in a request is an int64, since JSON decoding refuses
others), `RootsAssumption`, `BoundsAssumption`, `WidthAssumption`,
`TooBigAssumption`, `PeopleAssumption` fix the constants' types.

**OddsCacheProofs.** `HitsAreFresh` is not inductive: what an insertion will put
in the cache is decided by the two reads of a request that started before. `IInv`
adds to `TypeOK` that every entry is filed under the raffle and prize count it is
about, with a roster no older than the key's version and no newer than the
raffle's version now (or is the empty roster of a raffle that is gone), and the
same of what each request carries. `HitsFresh` follows:
for a live raffle a key with the current version leaves only the current roster.
`AnswersFresh`, `StaysBounded` and `TypeCorrect` are parts of it, for any number
of raffles and requests and any limit.

**SystemProofs.** First `Migrate` by itself, for any set `P` of processes
(`Db(P)`), builds and migrations: `VersionTellsSchema` and `OpenersFindTables`.
`VersionIsSchema` is not inductive, since a process may have read the version long
before it runs a migration; the invariant adds for each process that what it has
read is not ahead of the version and that a process in a transaction holds the lock
and stands exactly at the version; an older migration finds its tables and fails.
`ImplementsParts`: the specification of the system implies those of `Migrate` (for
the processes `server` and `command`) and of `Gate`, step by step, so that the two
theorems carry over (`SchemaFollowsVersion`, `OpenIsComplete`). For the gate, `GateInv`
states of every cookie and of every handler that has verified a password: the
password is the present one, or the command was torn, or the handler overlapped
the rotation; a handler about to make a key found none, and no command has been
completed since. From it follow `OldSessionsEnd`, `CommandMakesKeys` and
`SessionsSurvive`, the last an action property, for any number of guests,
passwords, command runs and crashes.

**SystemProofs, the limiter.** `KeepsToBudget` counts together what is on a record and
who is still checking. It is inductive together with the types: `Allow` adds a checker
below the budget, `Wrong` turns one checker into one count, and everything else only
takes away. `BudgetIsPerWindow` (`BudgetPerWindow`) compares a record, which knows the
age of its first failure alone, with the failures themselves. The history `tries`
therefore counts for each age how many are no older, and `WindowInv` says of each
caller: a record that has not expired counts the failures that are no older than
itself, and the older ones still in the span are fewer than one record can hold;
without such a record, all of the span's are. `FailWindow` (one more failure) and
`TickWindow` (time passes) are the steps that disturb it. For any number of callers
and sign-ins, any budget, window and sweep size; of `Requests` it is assumed that they are finite and that there is one.

**DrawPageProofs.** `SealedTillTorn` and `NothingStuck` are about what the page
shows and waits for, and neither is inductive: an answer is read long before it
is taken. `IInv` says of every request under way what its answer will be true of:
a stub it names was torn open when it was read (`Told`; tearing is for good, so it
still is), and for everyone who waits there is the one request that will end the
waiting (`Waits`): for the button the save it has sent ahead or its draw, and when the
one ends the other begins in the same step. Requests that the page has given up are
not among these, and may still tear stubs and make draws. `NamesStaySealed` and `NobodyWaitsInVain` follow, and
`TypeCorrect`, for any prizes and any number of requests.

`ScreenTellsTruth` (`ScreenIsCurrent`) is about pages at rest, and nearly all of its
invariant, `ScreenInv`, is about pages that are not. `DrawRight`: while no two kinds of
view overlap, either a draw's answer is on its way, or the page shows the latest
draw; its flag is right unless a save is under way that the page will heed. An answer
read of an older roster still carries the right flag, because every draw ran before
all of the saves under way (`Behind`): any two versions past every draw make it
equally stale. That is also why a save that comes back overtaken may be ignored.
`FacesRight`: while reveals overlap only reveals, every tap under way is on the draw
shown, and a stub is open on the page exactly where it is on the server unless its
own answer is on the way. A draw that overlaps no reveal has no stub torn when its
answer turns all of them face down.

**ViewsProofs.** What an answer says cannot be compared with the database when it
goes out: others have moved it on. `Inv` ties each handler to what it has lived
through (`past`): the present is the last of a view's truths and every draw made since was
right when it was made (`LivedOK`), a stub that was torn when it began is not sealed
in it and all its draws still exist while the raffle does (`StubsOK`), its history is
that of one moment (`HistoryOK`), and its guests, its draw and its flag are right or
the one exception (`ViewOK`). Operations on the database preserve this for every
handler by one lemma for each kind (`DbStep`); a step of one handler leaves the others
alone. `FlagsWereRight`, `AnswersAreFresh`, `NothingIsLost` and `TypeCorrect` follow,
for any number of requests, any limits and any number of draws and edits.

**AutosaveProofs.** `NothingForgotten` speaks of a page at rest. Before that, a
text that has not been sent has the timer running (`TimerWatches`) and one that
has been sent is the last save, under way or carried out (`LastIsPending`); a
failure the page does not heed is never the last save's, since `savedSeq` is at
most the number of saves. For draws, `CalmDraw`: nothing older than a calm draw's
own save can reach the server any more, requests the page has given up included, so
whatever still does is at least as new; and a calm draw is posted only when what the
server has is at least as new as well. `NothingIsForgotten`, `CalmDrawsAreRight` and
`TypeCorrect` follow, for any texts and any number of saves and draws.

So every invariant and every action property of the passing runs is a theorem, and the
refinement of `SealedDraws` too. Model-checked only: the liveness of `EndsUp`,
`EveryoneIsAnswered`, `LetInAgain` and `GuestsGetIn`, which is out of the prover's
reach (fairness is stated with ENABLED). `LatestIsNewest` is refuted (finding 1).

## 6. Not modelled, and why

- Probabilities: which outcomes are possible is modelled, how likely they are is
  not. Serial numbers and `random.go` are random values without state.
- Timestamps inside `Store`: nothing but the order of listings depends on them,
  and that is `Timestamps`.
- A name sent to a guest endpoint with a tab or newline inside, and a spreadsheet
  field of `NaN` or `Inf`: text the parser would take apart differently.
- `Slugify` is a parameter: the store cares only about whether slugs are equal or
  empty.
- Errors of the disk or of SQLite itself: they roll back and are no step.
- HTTP decoding, routing, status codes, rendering, styles, scripts: I/O.
- The page's renaming, odds and history panels, and a reload while requests are
  under way.
- Several pages that write one roster. The program promises nothing there: a roster
  has one text, the last save wins, and no request carries an identity by which a
  repeated `AddDiapers` or draw could be told from a second one.
- The gate's arithmetic: how long a cookie lasts, how a hash is derived and
  compared, how a caller's address and HTTPS are told from headers. A stored key
  that cannot be decoded, which the code treats as if there were none.
- Flags, logging, embedded files, the tunnel and status scripts: no state.

## 7. Plan

1. Proofs: that `Store` implements the databases that `OddsCache`, `Views` and
   `DrawPage` keep for themselves (what a version determines, what a draw's stubs are,
   which edits can happen), each a refinement like that of `SealedDraws`; the safety
   half of `LetInAgain`, that nothing a caller does lengthens a lockout.
2. Renaming: a link that moves while a page's saves are under way, and another
   raffle that takes the old one.
