------------------------------- MODULE Views -------------------------------
(***************************************************************************)
(* The answers of the API that take more than one query,                   *)
(* src/internal/httpapi/handlers.go: a view of a raffle, its history of    *)
(* draws, one draw by its id.  Each query waits for the one connection of  *)
(* the pool (src/internal/store/store.go:63) and gives it back, and other  *)
(* requests, edits, draws, reveals and the deletion of the raffle come in  *)
(* between.                                                                *)
(*                                                                         *)
(* One raffle.  Its roster is its version and the number of guests who can *)
(* win; a draw's id is its place in the sequence of draws, its stubs are   *)
(* the prizes 1 to Stubs(draw).  Which names are on them is Store's.       *)
(*                                                                         *)
(* The latest draw is here the one made last.  The code orders draws by    *)
(* the text created_at first and by id only then (draws.go:80, 103), and   *)
(* Timestamps shows that two draws of one second can be the other way      *)
(* round: what is said of latest and newest draws is for draws whose       *)
(* timestamps sort as they were made.                                      *)
(***************************************************************************)
EXTENDS Integers, SequencesExt

CONSTANTS
    Requests,       \* the requests that may be under way side by side
    Nobody,         \* who has the connection while no query runs
    PrizeCounts, EntrantCounts,     \* what raffles and rosters may have
    Limits,         \* ?limit= of a history, 0 when it is absent or no number
    DefaultLimit, MaxLimit,         \* 50 and 200
    MaxVersion, MaxDraws            \* bounds

ASSUME NobodyAssumption == Nobody \notin Requests
ASSUME CountsAssumption ==
    PrizeCounts \subseteq Nat \ {0} /\ EntrantCounts \subseteq Nat /\ 0 \in EntrantCounts
ASSUME LimitsAssumption ==
    Limits \subseteq Int /\ DefaultLimit \in 1 .. MaxLimit /\ MaxLimit \in Nat

VARIABLES
    raffle,     \* "none" before it is created, "live", "gone"
    prizes,     \* events.prize_count
    version,    \* events.roster_version
    entrants,   \* the guests with diapers
    draws,      \* the table draws
    torn,       \* the stubs with a revealed_at: pairs of a draw and a prize
    conn,       \* the request that holds the connection
    work,       \* the handlers
    past        \* history: what each request has lived through

database == <<raffle, prizes, version, entrants, draws, torn>>
vars == <<database, conn, work, past>>

Draw == [id: Nat, prizes: PrizeCounts, entrants: EntrantCounts \ {0}, version: Nat]

\* min(number of prizes, number of entrants): the stubs a draw was made with.
Stubs_OfToday(draw) == 1 .. Min({prizes, entrants})
Stubs(draw) == 1 .. Min({draw.prizes, draw.entrants})

NoGuests == -1      \* the listing of a raffle that is gone
Idle == [op |-> "none", at |-> "idle", version |-> 0, guests |-> 0,
         limit |-> 0, rows |-> <<>>, winners |-> <<>>]

IsView(job) == job.op \in {"view", "put"}

\* What a page that asks at this moment is to be told: the latest draw and
\* whether the roster has changed since.
Truth == <<Len(draws), draws # <<>> /\ Last(draws).version # version>>

NoPast == [draws |-> 0, torn |-> {}, truths |-> {}]
Present == [draws |-> Len(draws), torn |-> torn, truths |-> {Truth}]

Init ==
    /\ raffle = "none" /\ prizes \in PrizeCounts /\ version = 0 /\ entrants = 0
    /\ draws = <<>> /\ torn = {}
    /\ conn = Nobody
    /\ work = [r \in Requests |-> Idle]
    /\ past = [r \in Requests |-> NoPast]

Underway == {r \in Requests : work[r].at # "idle"}

\* A view under way lives through what the database becomes.
Lived(r) ==
    IF IsView(work[r]) THEN [past[r] EXCEPT !.truths = @ \cup {Truth'}] ELSE past[r]

\* r begins here.
Begin(r, job) ==
    /\ work[r] = Idle
    /\ work' = [work EXCEPT ![r] = job]
    /\ past' = [q \in Requests |->
          IF q # r THEN Lived(q)
          ELSE IF IsView(job) THEN Present'
          ELSE [Present' EXCEPT !.truths = {}]]

Continue(r, job) ==
    /\ work' = [work EXCEPT ![r] = job]
    /\ UNCHANGED <<database, past>>

\* One statement or transaction: the connection must be free, and is free again
\* when it is over.
Query == conn = Nobody /\ UNCHANGED conn

---------------------------------------------------------------------------
\* The first query of a request

CreateEvent(r, n) ==
    /\ Query
    /\ raffle = "none"
    /\ raffle' = "live" /\ prizes' = n
    /\ UNCHANGED <<version, entrants, draws, torn>>
    /\ Begin(r, [Idle EXCEPT !.op = "view", !.at = "draw"])

\* ReplaceRoster answers with the event it has written and the guests of its
\* own transaction.
Answered_Read == version
Answered == version'

Edit(n) ==
    /\ Query
    /\ raffle = "live"
    /\ version < MaxVersion
    /\ version' = version + 1 /\ entrants' = n
    /\ UNCHANGED <<raffle, prizes, draws, torn>>

PutRoster(r, n) ==
    /\ Edit(n)
    /\ Begin(r, [Idle EXCEPT !.op = "put", !.at = "draw",
                             !.version = Answered, !.guests = version'])

\* AddDiapers, UpdateGuest and DeleteGuest.
EditGuest(r, n) ==
    /\ Edit(n)
    /\ Begin(r, [Idle EXCEPT !.op = "view", !.at = "guests", !.version = Answered])

SetPrizes(n) ==
    /\ Query
    /\ raffle = "live"
    /\ prizes' = n
    /\ UNCHANGED <<raffle, version, entrants, draws, torn>>

UpdateEvent(r, n) ==
    /\ SetPrizes(n)
    /\ Begin(r, [Idle EXCEPT !.op = "view", !.at = "guests", !.version = version])

GetEvent(r) ==
    /\ Query
    /\ raffle = "live"
    /\ UNCHANGED database
    /\ Begin(r, [Idle EXCEPT !.op = "view", !.at = "guests", !.version = version])

\* A limit that makes no sense is the default one.
LimitOf(wanted) == IF wanted <= 0 \/ wanted > MaxLimit THEN DefaultLimit ELSE wanted

ListDraws(r, wanted) ==
    /\ Query
    /\ raffle = "live"
    /\ UNCHANGED database
    /\ Begin(r, [Idle EXCEPT !.op = "list", !.at = "draws", !.limit = LimitOf(wanted)])

GetDraw(r, d) ==
    /\ Query
    /\ UNCHANGED database
    /\ Begin(r, [Idle EXCEPT !.op = "one", !.at = "stubs", !.rows = <<draws[d]>>])

---------------------------------------------------------------------------
\* One transaction is all there is to these

Others == past' = [q \in Requests |-> Lived(q)]

RunDraw ==
    /\ Query
    /\ raffle = "live" /\ entrants > 0
    /\ Len(draws) < MaxDraws
    /\ draws' = Append(draws, [id |-> Len(draws) + 1, prizes |-> prizes,
                               entrants |-> entrants, version |-> version])
    /\ UNCHANGED <<raffle, prizes, version, entrants, torn, work>>
    /\ Others

RevealWinner(d, i) ==
    /\ Query
    /\ torn' = torn \cup {<<d, i>>}
    /\ UNCHANGED <<raffle, prizes, version, entrants, draws, work>>
    /\ Others

\* A handler that has committed its change and reads nothing after it, because
\* its page has gone or the next query fails (handlers.go:133-145, 164-169,
\* 182-187, 206-211, 221-226, and 300-304).
Unheard ==
    /\ \/ \E n \in EntrantCounts : Edit(n)
       \/ \E n \in PrizeCounts : SetPrizes(n)
    /\ UNCHANGED work
    /\ Others

DeleteEvent ==
    /\ Query
    /\ raffle = "live"
    /\ raffle' = "gone" /\ draws' = <<>> /\ torn' = {}
    /\ UNCHANGED <<prizes, version, entrants, work>>
    /\ Others

---------------------------------------------------------------------------
\* The queries that follow

ReadGuests(r) ==
    /\ Query
    /\ work[r].at = "guests"
    /\ Continue(r, [work[r] EXCEPT !.at = "draw",
                      !.guests = IF raffle = "live" THEN version ELSE NoGuests])

\* ORDER BY created_at DESC, id DESC LIMIT n, with created_at in the order of id.
Newest_First(n) == SubSeq(draws, 1, Min({n, Len(draws)}))
Newest(n) == SubSeq(Reverse(draws), 1, Min({n, Len(draws)}))

\* Where a request goes once it knows its draws.
WithStubs(job) ==
    [job EXCEPT !.at = IF Len(job.winners) = Len(job.rows) THEN "done" ELSE "stubs"]

LatestDraw(r) ==
    /\ Query
    /\ work[r].at = "draw"
    /\ Continue(r, WithStubs([work[r] EXCEPT !.rows = Newest(1)]))

\* The rows of a history are read one by one; the connection is back when the
\* last of them has been read, and the stubs are looked up after that.
ReadDraws(r) ==
    /\ conn = Nobody
    /\ work[r].at = "draws"
    /\ conn' = r
    /\ Continue(r, [work[r] EXCEPT !.at = "rows", !.rows = Newest(work[r].limit)])

Returned_Later(r) == conn
Returned(r) == Nobody

EndOfRows(r) ==
    /\ work[r].at = "rows"
    /\ conn' = Returned(r)
    /\ Continue(r, WithStubs(work[r]))

hidden(draw) == [i \in Stubs(draw) |-> <<draw.id, i>> \in torn]

winners(r) ==
    /\ Query
    /\ work[r].at = "stubs"
    /\ LET draw  == work[r].rows[Len(work[r].winners) + 1]
           stubs == IF draw.id \in DOMAIN draws THEN hidden(draw) ELSE <<>>
       IN  Continue(r, WithStubs([work[r] EXCEPT !.winners = Append(@, stubs)]))

Leave(r) ==
    /\ work' = [work EXCEPT ![r] = Idle]
    /\ past' = [past EXCEPT ![r] = NoPast]
    /\ UNCHANGED database

Answer(r) ==
    /\ work[r].at = "done"
    /\ Leave(r)
    /\ UNCHANGED conn

\* The page that asked has gone, or a query has failed: rows are closed on the
\* way out.
Fail(r) ==
    /\ work[r].at \notin {"idle", "done"}
    /\ Leave(r)
    /\ conn' = IF conn = r THEN Nobody ELSE conn

Ask(r) ==
    \/ \E n \in PrizeCounts : CreateEvent(r, n) \/ UpdateEvent(r, n)
    \/ \E n \in EntrantCounts : PutRoster(r, n) \/ EditGuest(r, n)
    \/ GetEvent(r)
    \/ \E n \in Limits : ListDraws(r, n)
    \/ \E d \in DOMAIN draws : GetDraw(r, d)

Proceed(r) ==
    ReadGuests(r) \/ LatestDraw(r) \/ ReadDraws(r) \/ EndOfRows(r) \/ winners(r) \/ Answer(r)

Next ==
    \/ \E r \in Requests : Ask(r) \/ Proceed(r) \/ Fail(r)
    \/ RunDraw \/ Unheard
    \/ \E d \in DOMAIN draws : \E i \in Stubs(draws[d]) : RevealWinner(d, i)
    \/ DeleteEvent

\* A connection that is given back goes to one of those who wait for it.
Spec == Init /\ [][Next]_vars /\ \A r \in Requests : SF_vars(Proceed(r))

---------------------------------------------------------------------------

\* Only a history that is reading its rows keeps the connection from others.
TypeOK ==
    /\ raffle \in {"none", "live", "gone"}
    /\ prizes \in PrizeCounts /\ version \in Nat /\ entrants \in EntrantCounts
    /\ draws \in Seq(Draw)
    /\ \A stub \in torn : stub[1] \in DOMAIN draws /\ stub[2] \in Stubs(draws[stub[1]])
    /\ conn \in {Nobody} \cup {r \in Requests : work[r].at = "rows"}
    /\ \A r \in Requests :
          /\ work[r].rows \in Seq(Draw)
          /\ Len(work[r].winners) <= Len(work[r].rows)

Done == {r \in Requests : work[r].at = "done"}

Stale(job) == job.rows # <<>> /\ job.rows[1].version # job.version
Told(job) == <<IF job.rows = <<>> THEN 0 ELSE job.rows[1].id, Stale(job)>>

\* "Stale is true when the roster changed after the draw on screen was run"
\* (handlers.go:17): the raffle and the draw of a view are from different
\* moments, and still it tells a draw and a flag that were right at one moment
\* of the request; but for a flag set on a draw that was made meanwhile on a
\* roster newer than the one the request saw first (handlers.go:59-69).
FlagWasRight ==
    \A r \in Done : IsView(work[r]) =>
        \/ Told(work[r]) \in past[r].truths
        \/ /\ Stale(work[r])
           /\ work[r].rows[1].id > past[r].draws
           /\ work[r].rows[1].version > work[r].version

\* An answer goes back behind nothing that was so when its request began, its
\* own edit included: not its guests, not its latest draw, and no stub that was
\* torn then is sealed in it.  Only the deletion of the raffle may empty it.
\* Later draws have later timestamps here (see the head of the module).
NoAnswerIsOlder ==
    \A r \in Done :
        LET job == work[r] IN
        /\ IsView(job) => job.guests >= job.version \/ raffle = "gone"
        /\ job.op = "put" => job.guests = job.version
        /\ IsView(job) /\ past[r].draws > 0 /\ raffle = "live" =>
              job.rows # <<>> /\ job.rows[1].id >= past[r].draws
        /\ \A k \in DOMAIN job.rows : \A i \in DOMAIN job.winners[k] :
              <<job.rows[k].id, i>> \in past[r].torn => job.winners[k][i]

\* The draws are read before their stubs (draws.go:88, 121, 135), and a change
\* of the prizes may come in between: a draw in an answer has all the stubs it
\* was made with, unless the raffle is gone by then.
StubsAreWhole ==
    \A r \in Done : \A k \in DOMAIN work[r].rows :
        LET draw == work[r].rows[k] IN
        raffle = "live" =>
            DOMAIN work[r].winners[k] = 1 .. Min({draw.prizes, draw.entrants})

\* "newest first" (draws.go:96): a history is the newest draws of one moment
\* of the request, with none left out, in spite of draws made meanwhile, if
\* timestamps sort as the draws were made.
HistoryIsWhole ==
    \A r \in Done : work[r].op = "list" /\ raffle = "live" =>
        \E n \in past[r].draws .. Len(draws) :
            [k \in DOMAIN work[r].rows |-> work[r].rows[k].id] =
                [k \in 1 .. Min({n, work[r].limit}) |-> n + 1 - k]

\* No answer has lost a draw or a stub between two of its queries.
NothingIsMissing == StubsAreWhole /\ HistoryIsWhole

\* "turns what would be SQLITE_BUSY errors ... into a short wait"
\* (store.go:61-62): with one connection for everybody, and others taking it
\* again and again and keeping it while they read, nobody waits for good: every
\* request that has begun comes to its end.
EveryoneIsAnswered == \A r \in Requests : []<>(r \notin Underway)
=============================================================================
