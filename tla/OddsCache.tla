----------------------------- MODULE OddsCache -----------------------------
(***************************************************************************)
(* GET /odds: src/internal/httpapi/odds.go.  A request reads the raffle,   *)
(* then its guests, in two queries; looks the odds up in the cache; and    *)
(* computes and stores them if they are not there.  The lock is held for   *)
(* the lookup and for the insertion, not in between, and edits commit at   *)
(* any time.                                                               *)
(*                                                                         *)
(* The roster a raffle has at version v is written v: Store's              *)
(* VersionCoversRoster is what makes that sound.  Odds are the roster and  *)
(* prize count they were computed for and the seed they were simulated     *)
(* with.                                                                   *)
(***************************************************************************)
EXTENDS Integers, FiniteSets, Functions

CONSTANTS
    Raffles,        \* event ids
    Requests,       \* handlers in flight at once
    Prizes,         \* prize counts a raffle may have
    Runs,           \* ?runs= of a request
    Limit,          \* oddsCacheLimit: 64
    MaxVersion      \* bound: the last roster version

VARIABLES
    live,           \* raffles that have not been deleted
    version,        \* events.roster_version
    prizes,         \* events.prize_count
    cache,          \* key -> odds
    request         \* handler -> where it is and what it has read

vars == <<live, version, prizes, cache, request>>
database == <<live, version, prizes>>

ASSUME LimitAssumption == Limit \in Nat \ {0}
ASSUME MaxVersionAssumption == MaxVersion \in Nat

Gone == -1          \* the guests of a deleted raffle: none
Rosters == (0 .. MaxVersion) \cup {Gone}

Row == [event : Raffles, version : 0 .. MaxVersion, prizes : Prizes]
Key == [event : Raffles, version : 0 .. MaxVersion, prizes : Prizes, runs : Runs]
Odds == [event : Raffles, roster : Rosters, prizes : Prizes, seed : Key]

EventRow(e) == [event |-> e, version |-> version[e], prizes |-> prizes[e]]

cacheKey_NoPrizes(row, runs) ==
    [event |-> row.event, version |-> row.version,
     prizes |-> CHOOSE n \in Prizes : TRUE, runs |-> runs]
cacheKey_NoVersion(row, runs) ==
    [event |-> row.event, version |-> 0, prizes |-> row.prizes, runs |-> runs]
cacheKey(row, runs) ==
    [event |-> row.event, version |-> row.version, prizes |-> row.prizes, runs |-> runs]

Idle == [at |-> "idle"]

Init ==
    /\ live = Raffles
    /\ version = [e \in Raffles |-> 0]
    /\ prizes \in [Raffles -> Prizes]
    /\ cache = <<>>
    /\ request = [r \in Requests |-> Idle]

---------------------------------------------------------------------------
\* Commits of other requests

EditRoster(e) ==
    /\ e \in live
    /\ version[e] < MaxVersion
    /\ version' = [version EXCEPT ![e] = @ + 1]
    /\ UNCHANGED <<live, prizes, cache, request>>

SetPrizes(e, n) ==
    /\ e \in live
    /\ prizes' = [prizes EXCEPT ![e] = n]
    /\ UNCHANGED <<live, version, cache, request>>

DeleteRaffle(e) ==
    /\ e \in live
    /\ live' = live \ {e}
    /\ UNCHANGED <<version, prizes, cache, request>>

---------------------------------------------------------------------------
\* One request

ReadEvent(r, e, runs) ==
    /\ request[r].at = "idle"
    /\ e \in live
    /\ request' = [request EXCEPT ![r] =
                     [at |-> "event", row |-> EventRow(e), runs |-> runs]]
    /\ UNCHANGED <<database, cache>>

ReadGuests(r) ==
    LET e == request[r].row.event IN
    /\ request[r].at = "event"
    /\ request' = [request EXCEPT ![r] =
                     [at |-> "guests", row |-> @.row, runs |-> @.runs,
                      roster |-> IF e \in live THEN version[e] ELSE Gone]]
    /\ UNCHANGED <<database, cache>>

Answer(r, odds) ==
    request' = [request EXCEPT ![r] =
                  [at |-> "done", row |-> @.row, runs |-> @.runs, odds |-> odds]]

Hit(r) ==
    LET key == cacheKey(request[r].row, request[r].runs) IN
    /\ request[r].at = "guests"
    /\ key \in DOMAIN cache
    /\ Answer(r, cache[key])
    /\ UNCHANGED <<database, cache>>

Miss(r) ==
    /\ request[r].at = "guests"
    /\ cacheKey(request[r].row, request[r].runs) \notin DOMAIN cache
    /\ request' = [request EXCEPT ![r].at = "computing"]
    /\ UNCHANGED <<database, cache>>

IsFull_Late(entries) == Cardinality(DOMAIN entries) > Limit
IsFull(entries) == Cardinality(DOMAIN entries) >= Limit

\* The simulation, and the insertion that empties a full cache first.
Insert(r) ==
    LET key  == cacheKey(request[r].row, request[r].runs)
        odds == [event  |-> request[r].row.event, roster |-> request[r].roster,
                 prizes |-> request[r].row.prizes, seed |-> key]
        kept == IF IsFull(cache) THEN {} ELSE DOMAIN cache
    IN  /\ request[r].at = "computing"
        /\ cache' = [k \in kept \cup {key} |-> IF k = key THEN odds ELSE cache[k]]
        /\ Answer(r, odds)
        /\ UNCHANGED database

Finish(r) ==
    /\ request[r].at = "done"
    /\ request' = [request EXCEPT ![r] = Idle]
    /\ UNCHANGED <<database, cache>>

\* The cache is in memory only, and so are the requests.
Restart ==
    /\ cache' = <<>>
    /\ request' = [r \in Requests |-> Idle]
    /\ UNCHANGED database

Next ==
    \/ \E e \in Raffles :
        \/ EditRoster(e)
        \/ \E n \in Prizes : SetPrizes(e, n)
        \/ DeleteRaffle(e)
    \/ \E r \in Requests :
        \/ \E e \in Raffles, runs \in Runs : ReadEvent(r, e, runs)
        \/ ReadGuests(r)
        \/ Hit(r)
        \/ Miss(r)
        \/ Insert(r)
        \/ Finish(r)
    \/ Restart

Spec == Init /\ [][Next]_vars

---------------------------------------------------------------------------
Request ==
    [at : {"idle"}]
    \cup [at : {"event"}, row : Row, runs : Runs]
    \cup [at : {"guests", "computing"}, row : Row, runs : Runs, roster : Rosters]
    \cup [at : {"done"}, row : Row, runs : Runs, odds : Odds]

\* Type correctness: cached rows and answers are odds, filed under whole keys.
TypeOK ==
    /\ live \subseteq Raffles
    /\ version \in [Raffles -> 0 .. MaxVersion]
    /\ prizes \in [Raffles -> Prizes]
    /\ cache \in [DOMAIN cache -> Odds]
    /\ DOMAIN cache \subseteq Key
    /\ request \in [Requests -> Request]

\* "Keeps the cache from growing without bound": insertions that were computed
\* side by side never take it past its limit (odds.go:24-27, 83-91).
Bounded == Cardinality(DOMAIN cache) <= Limit

\* A request that comes in now and finds its odds in the cache gets the odds of
\* the roster and prize count as they are now, although the entry may have
\* been put there from two reads with an edit between them.
HitsAreFresh ==
    \A e \in live, runs \in Runs :
        LET key == cacheKey(EventRow(e), runs) IN
        key \in DOMAIN cache =>
            /\ cache[key].event = e
            /\ cache[key].roster = version[e]
            /\ cache[key].prizes = prizes[e]

\* No answer is out of date: it is about the raffle and prize count the request
\* read, and about a roster no older than the one it found when it started.
AnswersAreFresh ==
    \A r \in Requests : request[r].at = "done" =>
        LET row == request[r].row  odds == request[r].odds IN
        /\ odds.event = row.event /\ odds.prizes = row.prizes
        /\ odds.roster = Gone \/ odds.roster \in row.version .. version[row.event]

\* "The same roster always reports the same percentages" (odds.go:56-57): two
\* answers about one roster, prize count and number of runs had one seed.
SameRosterSameOdds ==
    \A r, s \in Requests :
        /\ request[r].at = "done" /\ request[s].at = "done"
        /\ request[r].runs = request[s].runs
        /\ request[r].odds.event = request[s].odds.event
        /\ request[r].odds.roster = request[s].odds.roster
        /\ request[r].odds.prizes = request[s].odds.prizes
        => request[r].odds.seed = request[s].odds.seed
=============================================================================
