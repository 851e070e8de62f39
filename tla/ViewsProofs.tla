----------------------------- MODULE ViewsProofs -----------------------------
(***************************************************************************)
(* The answers of Views, for any number of requests side by side, draws    *)
(* and edits.                                                              *)
(*                                                                         *)
(* What an answer says cannot be compared with the database as it is when  *)
(* the answer goes out: other requests have moved it on, or have deleted   *)
(* the raffle.  The invariant ties each handler to what it has lived       *)
(* through instead, and no step of one request disturbs another's.         *)
(***************************************************************************)
EXTENDS Views, TLAPS

---------------------------------------------------------------------------
\* The invariant

\* The database by itself.  Nothing was drawn before the raffle was created,
\* nothing is left when it is gone, and a draw is never of a later roster.
DatabaseOK ==
    /\ raffle \in {"none", "live", "gone"}
    /\ prizes \in PrizeCounts /\ version \in Nat /\ entrants \in EntrantCounts
    /\ raffle = "none" => version = 0
    /\ raffle # "live" => draws = <<>>
    /\ draws \in Seq(Draw)
    /\ \A d \in DOMAIN draws : draws[d].id = d /\ draws[d].version <= version
    /\ torn \subseteq Nat \X Nat
    /\ \A stub \in torn : stub[1] \in DOMAIN draws /\ stub[2] \in Stubs(draws[stub[1]])

\* What a handler has in hand at each of its stages.
Jobs == [op: {"none", "view", "put", "list", "one"},
         at: {"idle", "guests", "draw", "draws", "rows", "stubs", "done"},
         version: Nat, guests: Int, limit: Nat, rows: Seq(Draw), winners: Seq(Seq(BOOLEAN))]
JobOK(job) ==
    /\ job \in Jobs
    /\ job.at = "idle" => job = Idle
    /\ job.at = "guests" => job.op = "view"
    /\ job.at = "draw" => IsView(job)
    /\ job.at \in {"draws", "rows"} => job.op = "list"
    /\ job.at \in {"idle", "guests", "draw", "draws"} => job.rows = <<>> /\ job.winners = <<>>
    /\ job.at = "rows" => job.winners = <<>>
    /\ job.at = "stubs" => Len(job.winners) < Len(job.rows)
    /\ job.at = "done" => Len(job.winners) = Len(job.rows)

Pasts == [draws: Nat, torn: SUBSET (Nat \X Nat), truths: SUBSET (Nat \X BOOLEAN)]

\* What a request under way has lived through: what it found is still there
\* unless the raffle is gone, and draws made since are of no older roster.  The
\* present is the last of a view's truths, and every draw made since was right
\* when it was made.
LivedOK(job, was) ==
    /\ raffle # "none"
    /\ IsView(job) => Truth \in was.truths
    /\ job.version <= version
    /\ raffle = "live" => was.draws <= Len(draws) /\ was.torn \subseteq torn
    /\ \A d \in DOMAIN draws : d > was.draws =>
          /\ IsView(job) => <<d, FALSE>> \in was.truths
          /\ draws[d].version >= job.version
    /\ raffle = "live" /\ IsView(job) =>
          <<was.draws, was.draws > 0 /\ draws[was.draws].version # job.version>> \in was.truths

\* What it has read: stubs that were torn when it began are not sealed in it,
\* and its draws are those of one moment.
StubsOK(job, was) ==
    /\ \A k \in DOMAIN job.winners : \A i \in DOMAIN job.winners[k] :
          <<job.rows[k].id, i>> \in was.torn => job.winners[k][i]
    /\ raffle = "live" =>
          /\ \A k \in DOMAIN job.rows : job.rows[k].id \in DOMAIN draws
          /\ \A k \in DOMAIN job.winners : DOMAIN job.winners[k] = Stubs(job.rows[k])
HistoryOK(job, was) ==
    job.op = "list" /\ job.at # "draws" /\ raffle = "live" =>
        \E n \in was.draws .. Len(draws) :
            /\ Len(job.rows) = Min({n, job.limit})
            /\ \A k \in DOMAIN job.rows : job.rows[k].id = n + 1 - k
ViewOK(job, was) ==
    /\ job.op = "put" => job.guests = job.version
    /\ IsView(job) /\ job.at # "guests" => job.guests >= job.version \/ raffle = "gone"
    /\ IsView(job) /\ job.at \in {"stubs", "done"} =>
          /\ was.draws > 0 /\ raffle = "live" => job.rows # <<>> /\ job.rows[1].id >= was.draws
          /\ \/ Told(job) \in was.truths
             \/ /\ Stale(job)
                /\ job.rows[1].id > was.draws
                /\ job.rows[1].version > job.version

Sound(job, was) ==
    /\ JobOK(job) /\ was \in Pasts
    /\ job.at # "idle" =>
          LivedOK(job, was) /\ StubsOK(job, was) /\ HistoryOK(job, was) /\ ViewOK(job, was)

Inv ==
    /\ DatabaseOK
    /\ conn \in {Nobody} \cup {r \in Requests : work[r].at = "rows"}
    /\ work = [r \in Requests |-> work[r]] /\ past = [r \in Requests |-> past[r]]
    /\ \A r \in Requests : Sound(work[r], past[r])

---------------------------------------------------------------------------
\* Sequences

LEMMA AppendOne ==
    ASSUME NEW S, NEW s \in Seq(S), NEW x \in S
    PROVE  /\ Append(s, x) \in Seq(S) /\ Len(Append(s, x)) = Len(s) + 1
           /\ DOMAIN Append(s, x) = DOMAIN s \cup {Len(s) + 1}
           /\ Len(s) + 1 \notin DOMAIN s
           /\ \A i \in DOMAIN s : Append(s, x)[i] = s[i]
           /\ Append(s, x)[Len(s) + 1] = x
OBVIOUS

LEMMA AppendDraw ==
    ASSUME NEW s \in Seq(Draw), NEW row \in Draw
    PROVE  /\ Append(s, row) \in Seq(Draw) /\ Len(Append(s, row)) = Len(s) + 1
           /\ DOMAIN Append(s, row) = DOMAIN s \cup {Len(s) + 1}
           /\ DOMAIN s = 1 .. Len(s) /\ Len(s) \in Nat
           /\ \A d \in DOMAIN s : Append(s, row)[d] = s[d]
           /\ Append(s, row)[Len(s) + 1] = row /\ Append(s, row) # <<>>
           /\ Last(Append(s, row)) = row
BY DEF Last

\* The newest draws of a table are its last rows, in reverse.
LEMMA NewestRows ==
    ASSUME draws \in Seq(Draw), NEW n \in Nat
    PROVE  /\ Newest(n) \in Seq(Draw)
           /\ Len(Newest(n)) = Min({n, Len(draws)})
           /\ DOMAIN Newest(n) = 1 .. Len(Newest(n))
           /\ \A k \in DOMAIN Newest(n) :
                 /\ Len(draws) + 1 - k \in DOMAIN draws
                 /\ Newest(n)[k] = draws[Len(draws) + 1 - k]
<1> DEFINE s == Reverse(draws)
           m == Min({n, Len(draws)})
<1>1. /\ s \in Seq(Draw) /\ Len(s) = Len(draws)
      /\ \A i \in 1 .. Len(draws) : s[i] = draws[Len(draws) + 1 - i]
  BY DEF Reverse
<1>2. m \in Nat /\ m <= Len(draws)
  BY DEF Min
<1> HIDE DEF s, m
<1>3. /\ SubSeq(s, 1, m) \in Seq(Draw) /\ Len(SubSeq(s, 1, m)) = m
      /\ DOMAIN SubSeq(s, 1, m) = 1 .. m
      /\ \A k \in 1 .. m : SubSeq(s, 1, m)[k] = s[k]
  BY <1>1, <1>2
<1>4. Newest(n) = SubSeq(s, 1, m)
  BY DEF Newest, s, m
<1>5. \A k \in 1 .. m : Len(draws) + 1 - k \in DOMAIN draws /\ k \in 1 .. Len(draws)
  BY <1>2
<1> QED
  BY <1>1, <1>3, <1>4, <1>5 DEF m

---------------------------------------------------------------------------
\* The database

LEMMA TruthType ==
    ASSUME DatabaseOK'
    PROVE  Truth' \in Nat \X BOOLEAN
<1>1. Len(draws') \in Nat
  BY DEF DatabaseOK
<1>2. (draws' # <<>> /\ Last(draws').version # version') \in BOOLEAN
  OBVIOUS
<1> QED
  BY <1>1, <1>2 DEF Truth

\* What a statement may do to the database while requests are under way: the
\* version does not fall, draws are added at the end or all go with the raffle.
DbStep ==
    /\ DatabaseOK'
    /\ raffle # "none" => raffle' # "none"
    /\ raffle = "gone" => raffle' = "gone"
    /\ version <= version'
    /\ raffle' = "live" => torn \subseteq torn'
    /\ \/ draws' = draws
       \/ /\ DOMAIN draws' = DOMAIN draws \cup {Len(draws) + 1}
          /\ Len(draws') = Len(draws) + 1
          /\ \A d \in DOMAIN draws : draws'[d] = draws[d]
          /\ Last(draws') = draws'[Len(draws')]
          /\ draws'[Len(draws) + 1].version = version'
       \/ raffle' = "gone" /\ draws' = <<>>

LEMMA DrawsStand ==
    ASSUME DatabaseOK, UNCHANGED <<draws, torn>>,
           raffle' = raffle \/ (raffle = "none" /\ raffle' = "live"),
           prizes' \in PrizeCounts, entrants' \in EntrantCounts,
           version' \in Nat, version <= version', raffle' = "none" => version' = version
    PROVE  DbStep
<1>1. \A d \in DOMAIN draws' : draws'[d].id = d /\ draws'[d].version <= version'
  <2> SUFFICES ASSUME NEW d \in DOMAIN draws
               PROVE  draws[d].id = d /\ draws[d].version <= version'
    OBVIOUS
  <2>1. draws[d] \in Draw
    BY DEF DatabaseOK
  <2>2. draws[d].version \in Nat
    BY <2>1 DEF Draw
  <2>3. draws[d].id = d /\ draws[d].version <= version /\ version \in Nat
    BY DEF DatabaseOK
  <2> QED
    BY <2>2, <2>3
<1>2. \A stub \in torn' : stub[1] \in DOMAIN draws' /\ stub[2] \in Stubs(draws'[stub[1]])
  BY DEF DatabaseOK
<1>3. DatabaseOK'
  BY <1>1, <1>2 DEF DatabaseOK, Stubs
<1> QED
  BY <1>3 DEF DbStep, DatabaseOK

LEMMA CreateEventStep ==
    ASSUME DatabaseOK, NEW r, NEW n \in PrizeCounts, CreateEvent(r, n)
    PROVE  DbStep
BY DrawsStand DEF CreateEvent, DatabaseOK

LEMMA EditStep ==
    ASSUME DatabaseOK, NEW n \in EntrantCounts, Edit(n)
    PROVE  DbStep
BY DrawsStand DEF Edit, DatabaseOK

LEMMA SetPrizesStep ==
    ASSUME DatabaseOK, NEW n \in PrizeCounts, SetPrizes(n)
    PROVE  DbStep
BY DrawsStand DEF SetPrizes, DatabaseOK

LEMMA SameDatabaseStep ==
    ASSUME DatabaseOK, UNCHANGED database
    PROVE  DbStep
<1>1. UNCHANGED <<raffle, prizes, version, entrants, draws, torn>>
  BY DEF database
<1>2. prizes \in PrizeCounts /\ entrants \in EntrantCounts /\ version \in Nat
  BY DEF DatabaseOK
<1>3. /\ prizes' \in PrizeCounts /\ entrants' \in EntrantCounts
      /\ version' \in Nat /\ version <= version'
  BY <1>1, <1>2
<1> QED
  BY <1>1, <1>3, DrawsStand

LEMMA RunDrawStep ==
    ASSUME DatabaseOK, RunDraw
    PROVE  DbStep
<1> PICK row : row = [id |-> Len(draws) + 1, prizes |-> prizes,
                      entrants |-> entrants, version |-> version]
  OBVIOUS
<1>1. /\ raffle = "live" /\ draws' = Append(draws, row)
      /\ UNCHANGED <<raffle, prizes, version, entrants, torn>>
  BY DEF RunDraw
<1>2. draws \in Seq(Draw) /\ Len(draws) \in Nat
  BY DEF DatabaseOK
<1>3. row \in Draw /\ row.id = Len(draws) + 1 /\ row.version = version
  BY <1>2 DEF RunDraw, DatabaseOK, Draw
<1>4. /\ draws' \in Seq(Draw) /\ Len(draws') = Len(draws) + 1
      /\ DOMAIN draws' = DOMAIN draws \cup {Len(draws) + 1}
      /\ \A d \in DOMAIN draws : draws'[d] = draws[d]
      /\ draws'[Len(draws) + 1] = row /\ Last(draws') = row
  BY <1>1, <1>2, <1>3, AppendDraw
<1>5. \A d \in DOMAIN draws' : draws'[d].id = d /\ draws'[d].version <= version'
  BY <1>1, <1>3, <1>4 DEF DatabaseOK
<1>6. \A stub \in torn' : stub[1] \in DOMAIN draws' /\ stub[2] \in Stubs(draws'[stub[1]])
  BY <1>1, <1>4 DEF DatabaseOK
<1>7. DatabaseOK'
  BY <1>1, <1>4, <1>5, <1>6 DEF DatabaseOK, Stubs
<1> QED
  BY <1>1, <1>2, <1>3, <1>4, <1>7 DEF DbStep, DatabaseOK

LEMMA RevealWinnerStep ==
    ASSUME DatabaseOK, NEW d \in DOMAIN draws, NEW i \in Stubs(draws[d]), RevealWinner(d, i)
    PROVE  DbStep
<1>1. d \in Nat /\ i \in Nat
  BY DEF DatabaseOK, Stubs
<1>2. torn' \subseteq Nat \X Nat
  BY <1>1 DEF RevealWinner, DatabaseOK
<1>3. \A stub \in torn' : stub[1] \in DOMAIN draws /\ stub[2] \in Stubs(draws[stub[1]])
  BY DEF RevealWinner, DatabaseOK
<1>4. DatabaseOK'
  BY <1>2, <1>3 DEF RevealWinner, DatabaseOK, Stubs
<1> QED
  BY <1>4 DEF RevealWinner, DbStep, DatabaseOK

LEMMA DeleteEventStep ==
    ASSUME DatabaseOK, DeleteEvent
    PROVE  DbStep
BY DEF DeleteEvent, DatabaseOK, DbStep, Stubs

---------------------------------------------------------------------------
\* The requests under way

\* Whatever the database becomes, the draws a request knew of when it began are
\* there as they were as long as the raffle is.
LEMMA DrawsStay ==
    ASSUME DatabaseOK, DbStep, raffle' = "live", raffle # "none"
    PROVE  /\ raffle = "live" /\ Len(draws) <= Len(draws')
           /\ DOMAIN draws \subseteq DOMAIN draws'
           /\ \A d \in DOMAIN draws : draws'[d] = draws[d]
           /\ torn \subseteq torn'
           /\ DOMAIN draws = 1 .. Len(draws) /\ Len(draws) \in Nat
<1>1. Len(draws) \in Nat /\ DOMAIN draws = 1 .. Len(draws)
  BY DEF DatabaseOK
<1>2. raffle = "live" /\ torn \subseteq torn'
  BY DEF DatabaseOK, DbStep
<1> QED
  BY <1>1, <1>2 DEF DbStep

\* And a draw that is made now is right about the present roster.
LEMMA NewDraw ==
    ASSUME DatabaseOK, DbStep, NEW d \in DOMAIN draws', d \notin DOMAIN draws
    PROVE  Truth' = <<d, FALSE>> /\ draws'[d].version = version'
<1>1. Len(draws) \in Nat /\ DOMAIN draws = 1 .. Len(draws)
  BY DEF DatabaseOK
<1>2. d = Len(draws) + 1 /\ d = Len(draws')
  BY <1>1 DEF DbStep
<1>3. Last(draws') = draws'[d] /\ draws'[d].version = version'
  BY <1>1, <1>2 DEF DbStep
<1> QED
  BY <1>2, <1>3 DEF Truth

LEMMA PassingKeepsLived ==
    ASSUME DatabaseOK, DbStep, NEW job \in Jobs, NEW was \in Pasts,
           LivedOK(job, was), NEW now \in Pasts,
           now.draws = was.draws, now.torn = was.torn,
           IsView(job) => now.truths = was.truths \cup {Truth'}
    PROVE  LivedOK(job, now)'
<1>1. job.version \in Nat /\ version \in Nat /\ version' \in Nat /\ was.draws \in Nat
  BY DEF DatabaseOK, DbStep, Jobs, Pasts
<1>2. raffle' # "none" /\ job.version <= version' /\ (IsView(job) => Truth' \in now.truths)
  BY <1>1 DEF DbStep, LivedOK
<1>3. ASSUME raffle' = "live"
      PROVE  /\ now.draws <= Len(draws') /\ now.torn \subseteq torn'
             /\ was.draws <= Len(draws) /\ raffle = "live"
             /\ DOMAIN draws = 1 .. Len(draws)
             /\ \A d \in DOMAIN draws : draws'[d] = draws[d]
  <2>1. Len(draws') \in Nat
    BY DEF DbStep, DatabaseOK
  <2> QED
    BY <1>1, <1>3, <2>1, DrawsStay DEF LivedOK
<1>4. ASSUME NEW d \in DOMAIN draws', d > now.draws
      PROVE  /\ IsView(job) => <<d, FALSE>> \in now.truths
             /\ draws'[d].version >= job.version
  <2>1. raffle' = "live"
    BY <1>4 DEF DbStep, DatabaseOK
  <2>2. CASE d \in DOMAIN draws
    BY <1>3, <1>4, <2>1, <2>2 DEF LivedOK
  <2>3. CASE d \notin DOMAIN draws
    BY <1>1, <1>2, <2>3, NewDraw
  <2> QED
    BY <2>2, <2>3
<1>5. ASSUME raffle' = "live", IsView(job)
      PROVE  <<now.draws, now.draws > 0 /\ draws'[now.draws].version # job.version>>
                \in now.truths
  <2>1. <<was.draws, was.draws > 0 /\ draws[was.draws].version # job.version>> \in was.truths
    BY <1>3, <1>5 DEF LivedOK
  <2>2. was.draws > 0 => draws'[was.draws] = draws[was.draws]
    BY <1>1, <1>3, <1>5
  <2>3. (was.draws > 0 /\ draws'[was.draws].version # job.version)
           = (was.draws > 0 /\ draws[was.draws].version # job.version)
    BY <2>2
  <2> QED
    BY <1>5, <2>1, <2>3
<1> QED
  BY <1>2, <1>3, <1>4, <1>5 DEF LivedOK

LEMMA PassingKeepsRead ==
    ASSUME DatabaseOK, DbStep, NEW job \in Jobs, NEW was \in Pasts,
           LivedOK(job, was), StubsOK(job, was), HistoryOK(job, was), ViewOK(job, was),
           NEW now \in Pasts,
           now.draws = was.draws, now.torn = was.torn, was.truths \subseteq now.truths
    PROVE  StubsOK(job, now)' /\ HistoryOK(job, now)' /\ ViewOK(job, now)'
<1>1. raffle # "none" /\ (raffle = "gone" => raffle' = "gone")
  BY DEF LivedOK, DbStep
<1>2. ASSUME raffle' = "live"
      PROVE  /\ raffle = "live" /\ DOMAIN draws \subseteq DOMAIN draws'
             /\ Len(draws) \in Nat /\ Len(draws') \in Nat /\ Len(draws) <= Len(draws')
  <2>1. Len(draws') \in Nat
    BY DEF DbStep, DatabaseOK
  <2> QED
    BY <1>1, <1>2, <2>1, DrawsStay
<1>3. StubsOK(job, now)'
  BY <1>2 DEF StubsOK, Stubs
<1>4. HistoryOK(job, now)'
  <2> SUFFICES ASSUME job.op = "list", job.at # "draws", raffle' = "live"
               PROVE  \E n \in was.draws .. Len(draws') :
                         /\ Len(job.rows) = Min({n, job.limit})
                         /\ \A k \in DOMAIN job.rows : job.rows[k].id = n + 1 - k
    BY DEF HistoryOK, Min
  <2>1. PICK n \in was.draws .. Len(draws) :
           /\ Len(job.rows) = Min({n, job.limit})
           /\ \A k \in DOMAIN job.rows : job.rows[k].id = n + 1 - k
    BY <1>2 DEF HistoryOK
  <2>2. was.draws \in Nat
    BY DEF Pasts
  <2>3. n \in was.draws .. Len(draws')
    BY <1>2, <2>2
  <2> QED
    BY <2>1, <2>3
<1>5. ViewOK(job, now)'
  <2>1. raffle = "gone" => raffle' = "gone"
    BY <1>1
  <2>2. raffle' = "live" => raffle = "live"
    BY <1>2
  <2>3. /\ job.op = "put" => job.guests = job.version
        /\ IsView(job) /\ job.at # "guests" => job.guests >= job.version \/ raffle' = "gone"
    BY <2>1 DEF ViewOK
  <2>4. ASSUME IsView(job), job.at \in {"stubs", "done"}
        PROVE  /\ now.draws > 0 /\ raffle' = "live" =>
                      job.rows # <<>> /\ job.rows[1].id >= now.draws
               /\ \/ Told(job) \in now.truths
                  \/ /\ Stale(job)
                     /\ job.rows[1].id > now.draws
                     /\ job.rows[1].version > job.version
    BY <2>2, <2>4 DEF ViewOK
  <2> QED
    BY <2>3, <2>4 DEF ViewOK, IsView, Told, Stale
<1> QED
  BY <1>3, <1>4, <1>5

\* A request that is under way stays sound while others use the database.
LEMMA PassingKeepsSound ==
    ASSUME DatabaseOK, DbStep, NEW job, NEW was, Sound(job, was), job.at # "idle",
           NEW now, now = IF IsView(job) THEN [was EXCEPT !.truths = @ \cup {Truth'}] ELSE was
    PROVE  Sound(job, now)'
<1>1. job \in Jobs /\ was \in Pasts
  BY DEF Sound, JobOK
<1>2. Truth' \in Nat \X BOOLEAN
  BY TruthType DEF DbStep
<1>3. /\ now \in Pasts /\ now.draws = was.draws /\ now.torn = was.torn
      /\ was.truths \subseteq now.truths
      /\ IsView(job) => now.truths = was.truths \cup {Truth'}
  <2>1. CASE IsView(job)
    BY <1>1, <1>2, <2>1 DEF Pasts
  <2>2. CASE ~IsView(job)
    BY <1>1, <2>2
  <2> QED
    BY <2>1, <2>2
<1>4. LivedOK(job, was) /\ StubsOK(job, was) /\ HistoryOK(job, was) /\ ViewOK(job, was)
  BY DEF Sound
<1>5. LivedOK(job, now)'
  BY <1>1, <1>3, <1>4, PassingKeepsLived
<1>6. StubsOK(job, now)' /\ HistoryOK(job, now)' /\ ViewOK(job, now)'
  BY <1>1, <1>3, <1>4, PassingKeepsRead
<1>7. JobOK(job)
  BY DEF Sound
<1> QED
  BY <1>3, <1>5, <1>6, <1>7 DEF Sound

\* A request that begins: the guests and the draw of a view are still to be
\* read, or are those that its own statement has written.
Begins(job) ==
    /\ JobOK(job) /\ job.at # "idle" /\ job.winners = <<>>
    /\ raffle' # "none" /\ job.version <= version'
    /\ IsView(job) =>
          /\ job.at \in {"guests", "draw"} /\ job.version = version'
          /\ job.op = "put" => job.guests = job.version
          /\ job.at = "draw" => job.guests = job.version
    /\ job.op = "list" => job.at = "draws"
    /\ \A k \in DOMAIN job.rows : job.rows[k].id \in DOMAIN draws'

LEMMA BeginningIsSound ==
    ASSUME DbStep, NEW job, Begins(job), NEW now,
           now = IF IsView(job) THEN Present' ELSE [Present' EXCEPT !.truths = {}]
    PROVE  Sound(job, now)'
<1>1. /\ draws' \in Seq(Draw) /\ Len(draws') \in Nat /\ DOMAIN draws' = 1 .. Len(draws')
      /\ torn' \subseteq Nat \X Nat /\ version' \in Nat
      /\ Truth' \in Nat \X BOOLEAN
  BY TruthType DEF DbStep, DatabaseOK
<1>2. /\ now.draws = Len(draws') /\ now.torn = torn' /\ now \in Pasts
      /\ IsView(job) => now.truths = {Truth'}
  <2>1. CASE IsView(job)
    BY <1>1, <2>1 DEF Present, Pasts
  <2>2. CASE ~IsView(job)
    BY <1>1, <2>2 DEF Present, Pasts
  <2> QED
    BY <2>1, <2>2
<1>3. LivedOK(job, now)'
  <2>1. ASSUME IsView(job)
        PROVE  <<now.draws, now.draws > 0 /\ draws'[now.draws].version # job.version>> = Truth'
    <3>1. job.version = version'
      BY <2>1 DEF Begins
    <3>2. now.draws > 0 <=> draws' # <<>>
      BY <1>1, <1>2
    <3>3. Last(draws') = draws'[now.draws]
      BY <1>2 DEF Last
    <3>4. (now.draws > 0 /\ draws'[now.draws].version # job.version)
             = (draws' # <<>> /\ Last(draws').version # version')
      BY <3>1, <3>2, <3>3
    <3> QED
      BY <1>2, <3>4 DEF Truth
  <2>2. \A d \in DOMAIN draws' : ~(d > now.draws)
    BY <1>1, <1>2
  <2>3. raffle' # "none" /\ job.version <= version' /\ (IsView(job) => Truth' \in now.truths)
    BY <1>2 DEF Begins
  <2>4. now.draws <= Len(draws') /\ now.torn \subseteq torn'
    BY <1>1, <1>2
  <2> QED
    BY <1>2, <2>1, <2>2, <2>3, <2>4 DEF LivedOK
<1>4. job.winners = <<>> /\ (job.op = "list" => job.at = "draws")
  BY DEF Begins
<1>5. StubsOK(job, now)'
  BY <1>4 DEF StubsOK, Begins
<1>6. HistoryOK(job, now)'
  BY <1>4 DEF HistoryOK
<1>7. ViewOK(job, now)'
  BY <1>1 DEF ViewOK, Begins, IsView, JobOK
<1>8. JobOK(job)
  BY DEF Begins
<1> QED
  BY <1>2, <1>3, <1>5, <1>6, <1>7, <1>8 DEF Sound

---------------------------------------------------------------------------
\* Steps

LEMMA OtherStaysSound ==
    ASSUME Inv, DbStep, NEW q \in Requests, work'[q] = work[q],
           past'[q] = Lived(q)
    PROVE  Sound(work[q], past[q])'
<1> PICK job, was, now : job = work[q] /\ was = past[q] /\ now = past'[q]
  OBVIOUS
<1>1. DatabaseOK /\ Sound(job, was)
  BY DEF Inv
<1>2. CASE job.at = "idle"
  <2>1. now = was
    BY <1>1, <1>2 DEF Sound, JobOK, Idle, IsView, Lived
  <2>2. JobOK(job) /\ was \in Pasts
    BY <1>1 DEF Sound
  <2> QED
    BY <1>2, <2>1, <2>2 DEF Sound
<1>3. CASE job.at # "idle"
  <2>1. now = IF IsView(job) THEN [was EXCEPT !.truths = @ \cup {Truth'}] ELSE was
    BY DEF Lived
  <2>2. Sound(job, now)'
    BY <1>1, <1>3, <2>1, PassingKeepsSound
  <2> QED
    BY <2>2
<1> QED
  BY <1>2, <1>3

\* A statement that is all of its request.
LEMMA QuietStep ==
    ASSUME Inv, DbStep, Others, UNCHANGED <<work, conn>>
    PROVE  Inv'
<1>1. \A q \in Requests : past'[q] = Lived(q)
  BY DEF Others
<1>2. \A q \in Requests : Sound(work[q], past[q])'
  BY <1>1, OtherStaysSound
<1>3. /\ conn' \in {Nobody} \cup {r \in Requests : work'[r].at = "rows"}
      /\ work' = [r \in Requests |-> work'[r]]
  BY DEF Inv
<1>4. past' = [r \in Requests |-> past'[r]]
  BY DEF Others
<1>5. DatabaseOK'
  BY DEF DbStep
<1> QED
  BY <1>2, <1>3, <1>4, <1>5 DEF Inv

\* The statement with which a request begins.
LEMMA BeginStep ==
    ASSUME Inv, DbStep, NEW r \in Requests, NEW job, Begins(job), Begin(r, job), Query
    PROVE  Inv'
<1>1. /\ work[r].at = "idle" /\ work' = [work EXCEPT ![r] = job]
      /\ conn = Nobody /\ conn' = Nobody
      /\ past' = [q \in Requests |->
            IF q # r THEN Lived(q)
            ELSE IF IsView(job) THEN Present'
            ELSE [Present' EXCEPT !.truths = {}]]
  BY DEF Begin, Query, Idle
<1>2. /\ work'[r] = job /\ \A q \in Requests \ {r} : work'[q] = work[q]
      /\ work' = [q \in Requests |-> work'[q]]
  BY <1>1 DEF Inv
<1>3. Sound(work[r], past[r])'
  <2> PICK now : now = IF IsView(job) THEN Present' ELSE [Present' EXCEPT !.truths = {}]
    OBVIOUS
  <2>1. Sound(job, now)'
    BY BeginningIsSound
  <2>2. past'[r] = now
    BY <1>1
  <2> QED
    BY <1>2, <2>1, <2>2
<1>4. ASSUME NEW q \in Requests \ {r}
      PROVE  Sound(work[q], past[q])'
  <2>1. past'[q] = Lived(q)
    BY <1>1
  <2> QED
    BY <1>2, <2>1, OtherStaysSound
<1>5. past' = [q \in Requests |-> past'[q]]
  BY <1>1
<1>6. DatabaseOK'
  BY DEF DbStep
<1> QED
  BY <1>1, <1>2, <1>3, <1>4, <1>5, <1>6 DEF Inv

\* Nothing that is said of a handler depends on anything but the database.
LEMMA SameDatabaseSound ==
    ASSUME UNCHANGED database, NEW job, NEW was, Sound(job, was)
    PROVE  Sound(job, was)'
<1>1. UNCHANGED <<raffle, prizes, version, entrants, draws, torn>>
  BY DEF database
<1>2. UNCHANGED Truth
  BY <1>1 DEF Truth
<1> QED
  BY <1>1, <1>2 DEF Sound, LivedOK, StubsOK, HistoryOK, ViewOK

LEMMA HandlerStep ==
    ASSUME Inv, NEW r \in Requests, UNCHANGED database,
           NEW job, work' = [work EXCEPT ![r] = job],
           NEW was, past' = [past EXCEPT ![r] = was],
           Sound(job, was),
           conn' = Nobody \/ (conn' = r /\ job.at = "rows")
                          \/ (conn' = conn /\ conn # r)
    PROVE  Inv'
<1>1. /\ work'[r] = job /\ past'[r] = was
      /\ \A q \in Requests \ {r} : work'[q] = work[q] /\ past'[q] = past[q]
      /\ work' = [q \in Requests |-> work'[q]] /\ past' = [q \in Requests |-> past'[q]]
  BY DEF Inv
<1>2. DatabaseOK'
  <2>1. DbStep
    BY SameDatabaseStep DEF Inv
  <2> QED
    BY <2>1 DEF DbStep
<1>3. conn' \in {Nobody} \cup {q \in Requests : work'[q].at = "rows"}
  BY <1>1 DEF Inv
<1>4. Sound(work[r], past[r])'
  BY <1>1, SameDatabaseSound
<1>5. ASSUME NEW q \in Requests \ {r}
      PROVE  Sound(work[q], past[q])'
  <2> PICK other, lived : other = work[q] /\ lived = past[q]
    OBVIOUS
  <2>1. Sound(other, lived)
    BY DEF Inv
  <2>2. Sound(other, lived)'
    BY <2>1, SameDatabaseSound
  <2> QED
    BY <1>1, <2>2
<1> QED
  BY <1>1, <1>2, <1>3, <1>4, <1>5 DEF Inv

\* A handler that goes on to its next query.
LEMMA ContinueStep ==
    ASSUME Inv, NEW r \in Requests, NEW job, Continue(r, job), Sound(job, past[r]),
           conn' = Nobody \/ (conn' = r /\ job.at = "rows")
    PROVE  Inv'
<1> PICK was : was = past[r]
  OBVIOUS
<1>1. UNCHANGED database /\ work' = [work EXCEPT ![r] = job] /\ past' = past
  BY DEF Continue
<1>2. past' = [past EXCEPT ![r] = was]
  BY <1>1 DEF Inv
<1> QED
  BY <1>1, <1>2, HandlerStep

LEMMA LeaveStep ==
    ASSUME Inv, NEW r \in Requests, Leave(r),
           conn' = Nobody \/ (conn' = conn /\ conn # r)
    PROVE  Inv'
<1> PICK was : was = NoPast
  OBVIOUS
<1>1. Sound(Idle, was)
  <2>1. <<>> \in Seq(Draw) /\ <<>> \in Seq(Seq(BOOLEAN))
    OBVIOUS
  <2>2. Idle \in Jobs /\ was \in Pasts
    BY <2>1 DEF Idle, Jobs, NoPast, Pasts
  <2> QED
    BY <2>2 DEF Sound, JobOK, Idle
<1>2. UNCHANGED database /\ work' = [work EXCEPT ![r] = Idle] /\ past' = [past EXCEPT ![r] = was]
  BY DEF Leave
<1> QED
  BY <1>1, <1>2, HandlerStep

LEMMA IdleType == Idle \in Jobs
<1>1. <<>> \in Seq(Draw) /\ <<>> \in Seq(Seq(BOOLEAN))
  OBVIOUS
<1> QED
  BY <1>1 DEF Idle, Jobs

LEMMA CreateEventKeepsInv ==
    ASSUME Inv, NEW r \in Requests, NEW n \in PrizeCounts, CreateEvent(r, n)
    PROVE  Inv'
<1> PICK job : job = [Idle EXCEPT !.op = "view", !.at = "draw"]
  OBVIOUS
<1>1. DbStep
  BY CreateEventStep DEF Inv
<1>2. version' = 0 /\ raffle' = "live" /\ Begin(r, job) /\ Query
  BY DEF CreateEvent, Inv, DatabaseOK
<1>3. job \in Jobs
  BY IdleType DEF Jobs
<1>4. Begins(job)
  BY <1>2, <1>3 DEF Begins, JobOK, Idle, IsView
<1> QED
  BY <1>1, <1>2, <1>4, BeginStep

LEMMA PutRosterKeepsInv ==
    ASSUME Inv, NEW r \in Requests, NEW n \in EntrantCounts, PutRoster(r, n)
    PROVE  Inv'
<1> PICK job : job = [Idle EXCEPT !.op = "put", !.at = "draw",
                                  !.version = version', !.guests = version']
  OBVIOUS
<1>1. DbStep
  BY EditStep DEF Inv, PutRoster
<1>2. raffle' = "live" /\ Begin(r, job) /\ Query
  BY DEF PutRoster, Edit, Answered
<1>3. version' \in Nat
  BY <1>1 DEF DbStep, DatabaseOK
<1>4. job \in Jobs
  <2> PICK mid : mid = [Idle EXCEPT !.op = "put", !.at = "draw"]
    OBVIOUS
  <2> PICK last : last = [mid EXCEPT !.version = version']
    OBVIOUS
  <2>1. mid \in Jobs
    BY IdleType DEF Jobs
  <2>2. last \in Jobs
    BY <1>3, <2>1 DEF Jobs
  <2>3. job = [last EXCEPT !.guests = version'] /\ version' \in Int
    BY <1>3 DEF Idle
  <2> QED
    BY <2>2, <2>3 DEF Jobs
<1>5. /\ job.op = "put" /\ job.at = "draw" /\ job.version = version'
      /\ job.guests = version' /\ job.rows = <<>> /\ job.winners = <<>>
  BY DEF Idle
<1>6. JobOK(job)
  BY <1>4, <1>5 DEF JobOK, IsView
<1>7. Begins(job)
  BY <1>2, <1>3, <1>5, <1>6 DEF Begins, IsView
<1> QED
  BY <1>1, <1>2, <1>7, BeginStep

\* The views that read their guests in a query of their own.
LEMMA ViewBeginKeepsInv ==
    ASSUME Inv, DbStep, NEW r \in Requests, raffle' = "live", Query,
           Begin(r, [Idle EXCEPT !.op = "view", !.at = "guests", !.version = version'])
    PROVE  Inv'
<1> PICK job : job = [Idle EXCEPT !.op = "view", !.at = "guests", !.version = version']
  OBVIOUS
<1>1. Begin(r, job)
  OBVIOUS
<1>2. version' \in Nat
  BY DEF DbStep, DatabaseOK
<1>3. job \in Jobs
  BY <1>2, IdleType DEF Jobs
<1>4. Begins(job)
  BY <1>2, <1>3 DEF Begins, JobOK, Idle, IsView
<1> QED
  BY <1>1, <1>4, BeginStep

LEMMA EditGuestKeepsInv ==
    ASSUME Inv, NEW r \in Requests, NEW n \in EntrantCounts, EditGuest(r, n)
    PROVE  Inv'
<1>1. DbStep
  BY EditStep DEF Inv, EditGuest
<1>2. raffle' = "live" /\ Query
  BY DEF EditGuest, Edit
<1>3. Begin(r, [Idle EXCEPT !.op = "view", !.at = "guests", !.version = version'])
  BY DEF EditGuest, Answered
<1> QED
  BY <1>1, <1>2, <1>3, ViewBeginKeepsInv

LEMMA UpdateEventKeepsInv ==
    ASSUME Inv, NEW r \in Requests, NEW n \in PrizeCounts, UpdateEvent(r, n)
    PROVE  Inv'
<1>1. DbStep
  BY SetPrizesStep DEF Inv, UpdateEvent
<1>2. raffle' = "live" /\ Query /\ version' = version
  BY DEF UpdateEvent, SetPrizes
<1>3. Begin(r, [Idle EXCEPT !.op = "view", !.at = "guests", !.version = version'])
  BY <1>2 DEF UpdateEvent
<1> QED
  BY <1>1, <1>2, <1>3, ViewBeginKeepsInv

LEMMA GetEventKeepsInv ==
    ASSUME Inv, NEW r \in Requests, GetEvent(r)
    PROVE  Inv'
<1>1. UNCHANGED database
  BY DEF GetEvent
<1>2. DbStep
  BY <1>1, SameDatabaseStep DEF Inv
<1>3. raffle' = "live" /\ Query /\ version' = version
  BY <1>1 DEF GetEvent, database
<1>4. Begin(r, [Idle EXCEPT !.op = "view", !.at = "guests", !.version = version'])
  BY <1>3 DEF GetEvent
<1> QED
  BY <1>2, <1>3, <1>4, ViewBeginKeepsInv

LEMMA ListDrawsKeepsInv ==
    ASSUME Inv, NEW r \in Requests, NEW n \in Limits, ListDraws(r, n)
    PROVE  Inv'
<1> PICK job : job = [Idle EXCEPT !.op = "list", !.at = "draws", !.limit = LimitOf(n)]
  OBVIOUS
<1>1. UNCHANGED database
  BY DEF ListDraws
<1>2. DbStep
  BY <1>1, SameDatabaseStep DEF Inv
<1>3. raffle' = "live" /\ Query /\ Begin(r, job)
  BY <1>1 DEF ListDraws, database
<1>4. LimitOf(n) \in Nat
  BY LimitsAssumption DEF LimitOf
<1>5. job \in Jobs
  BY <1>4, IdleType DEF Jobs
<1>6. version' \in Nat
  BY <1>2 DEF DbStep, DatabaseOK
<1>7. Begins(job)
  BY <1>3, <1>5, <1>6 DEF Begins, JobOK, Idle, IsView
<1> QED
  BY <1>2, <1>3, <1>7, BeginStep

LEMMA GetDrawKeepsInv ==
    ASSUME Inv, NEW r \in Requests, NEW d \in DOMAIN draws, GetDraw(r, d)
    PROVE  Inv'
<1> PICK rows : rows = <<draws[d]>>
  OBVIOUS
<1> PICK job : job = [Idle EXCEPT !.op = "one", !.at = "stubs", !.rows = rows]
  OBVIOUS
<1>1. UNCHANGED database /\ Query /\ Begin(r, job)
  BY DEF GetDraw
<1>2. DbStep
  BY <1>1, SameDatabaseStep DEF Inv
<1>3. draws[d] \in Draw /\ draws[d].id = d /\ raffle = "live"
  BY DEF Inv, DatabaseOK
<1>4. rows \in Seq(Draw) /\ Len(rows) = 1 /\ \A k \in DOMAIN rows : rows[k].id = d
  BY <1>3
<1>5. job \in Jobs
  BY <1>4, IdleType DEF Jobs
<1>6. version' \in Nat /\ raffle' = "live" /\ d \in DOMAIN draws'
  BY <1>1, <1>2, <1>3 DEF DbStep, DatabaseOK, database
<1>7. /\ job.op = "one" /\ job.at = "stubs" /\ job.version = 0
      /\ job.rows = rows /\ job.winners = <<>>
  BY DEF Idle
<1>8. JobOK(job)
  BY <1>4, <1>5, <1>7 DEF JobOK, IsView
<1>9. Begins(job)
  BY <1>4, <1>6, <1>7, <1>8 DEF Begins, IsView
<1> QED
  BY <1>1, <1>2, <1>9, BeginStep

LEMMA ReadGuestsKeepsInv ==
    ASSUME Inv, NEW r \in Requests, ReadGuests(r)
    PROVE  Inv'
<1> PICK old, was : old = work[r] /\ was = past[r]
  OBVIOUS
<1> PICK guests : guests = IF raffle = "live" THEN version ELSE NoGuests
  OBVIOUS
<1> PICK job : job = [old EXCEPT !.at = "draw", !.guests = guests]
  OBVIOUS
<1>1. Continue(r, job) /\ conn' = Nobody /\ old.at = "guests"
  BY DEF ReadGuests, Query
<1>2. Sound(old, was) /\ version \in Nat /\ raffle \in {"none", "live", "gone"}
  BY DEF Inv, DatabaseOK
<1>3. old \in Jobs /\ was \in Pasts /\ old.op = "view" /\ old.rows = <<>> /\ old.winners = <<>>
  BY <1>1, <1>2 DEF Sound, JobOK
<1>4. guests \in Int
  BY <1>2 DEF NoGuests
<1>5. /\ job \in Jobs /\ job.at = "draw" /\ job.op = "view" /\ job.guests = guests
      /\ job.rows = old.rows /\ job.winners = old.winners
      /\ job.version = old.version /\ job.limit = old.limit
  BY <1>3, <1>4 DEF Jobs
<1>6. LivedOK(old, was) /\ StubsOK(old, was)
  BY <1>1, <1>2 DEF Sound
<1>7. LivedOK(job, was) /\ StubsOK(job, was) /\ HistoryOK(job, was)
  <2>1. LivedOK(job, was)
    BY <1>3, <1>5, <1>6 DEF LivedOK, IsView
  <2>2. StubsOK(job, was)
    BY <1>5, <1>6 DEF StubsOK
  <2>3. HistoryOK(job, was)
    BY <1>5 DEF HistoryOK
  <2> QED
    BY <2>1, <2>2, <2>3
<1>8. ViewOK(job, was)
  <2>1. raffle = "live" => job.guests >= job.version
    BY <1>2, <1>3, <1>5, <1>6 DEF LivedOK, Jobs
  <2>2. raffle # "none"
    BY <1>6 DEF LivedOK
  <2> QED
    BY <1>2, <1>5, <2>1, <2>2 DEF ViewOK
<1>9. JobOK(job)
  BY <1>3, <1>5 DEF JobOK, IsView
<1>10. Sound(job, was)
  BY <1>3, <1>7, <1>8, <1>9 DEF Sound
<1> QED
  BY <1>1, <1>10, ContinueStep

\* What a handler has read stands while it goes on.
LEMMA HistoryStands ==
    ASSUME NEW old, NEW was, HistoryOK(old, was), old.at # "draws",
           NEW next, next.op = old.op, next.rows = old.rows, next.limit = old.limit
    PROVE  HistoryOK(next, was)
<1> SUFFICES ASSUME next.op = "list", next.at # "draws", raffle = "live"
             PROVE  \E n \in was.draws .. Len(draws) :
                       /\ Len(next.rows) = Min({n, next.limit})
                       /\ \A k \in DOMAIN next.rows : next.rows[k].id = n + 1 - k
  BY DEF HistoryOK
<1>1. \E n \in was.draws .. Len(draws) :
         /\ Len(old.rows) = Min({n, old.limit})
         /\ \A k \in DOMAIN old.rows : old.rows[k].id = n + 1 - k
  BY DEF HistoryOK
<1> QED
  BY <1>1

LEMMA ViewStands ==
    ASSUME NEW old, NEW was, ViewOK(old, was), old.at \in {"stubs", "done"},
           NEW next, next.op = old.op, next.rows = old.rows, next.version = old.version,
           next.guests = old.guests
    PROVE  ViewOK(next, was)
<1>1. /\ Stale(next) = Stale(old) /\ Told(next) = Told(old)
      /\ IsView(next) <=> IsView(old)
  BY DEF Stale, Told, IsView
<1>2. /\ next.op = "put" => next.guests = next.version
      /\ IsView(next) => next.guests >= next.version \/ raffle = "gone"
  BY <1>1 DEF ViewOK
<1>3. IsView(next) =>
         /\ was.draws > 0 /\ raffle = "live" => next.rows # <<>> /\ next.rows[1].id >= was.draws
         /\ \/ Told(next) \in was.truths
            \/ /\ Stale(next)
               /\ next.rows[1].id > was.draws
               /\ next.rows[1].version > next.version
  BY <1>1 DEF ViewOK
<1> QED
  BY <1>2, <1>3 DEF ViewOK

\* A handler that knows its draws goes on to their stubs, or is done.
LEMMA WithStubsIsSound ==
    ASSUME NEW job \in Jobs, Len(job.winners) <= Len(job.rows), NEW was \in Pasts,
           LivedOK(job, was), StubsOK(job, was),
           NEW next, next = WithStubs(job), HistoryOK(next, was), ViewOK(next, was)
    PROVE  Sound(next, was)
<1>1. Len(job.winners) \in Nat /\ Len(job.rows) \in Nat
  BY DEF Jobs
<1>2. /\ next \in Jobs /\ next.at \in {"stubs", "done"}
      /\ next.at = "done" <=> Len(job.winners) = Len(job.rows)
      /\ next.op = job.op /\ next.version = job.version
      /\ next.rows = job.rows /\ next.winners = job.winners
  BY DEF WithStubs, Jobs
<1>3. JobOK(next)
  BY <1>1, <1>2 DEF JobOK
<1>4. LivedOK(next, was) /\ StubsOK(next, was)
  BY <1>2 DEF LivedOK, StubsOK, IsView
<1> QED
  BY <1>3, <1>4 DEF Sound

\* The latest draw is the one the request found, or was made since; with the
\* version that the request saw first, it makes a flag that was right when the
\* request began or when the draw was made, if it was ever right.
LEMMA LatestDrawKeepsInv ==
    ASSUME Inv, NEW r \in Requests, LatestDraw(r)
    PROVE  Inv'
<1> PICK old, was, rows : old = work[r] /\ was = past[r] /\ rows = Newest(1)
  OBVIOUS
<1> PICK job : job = [old EXCEPT !.rows = rows]
  OBVIOUS
<1> PICK next : next = WithStubs(job)
  OBVIOUS
<1>1. Continue(r, next) /\ conn' = Nobody /\ old.at = "draw"
  BY DEF LatestDraw, Query
<1>2. Sound(old, was) /\ DatabaseOK
  BY DEF Inv
<1>3. /\ old \in Jobs /\ was \in Pasts /\ IsView(old) /\ old.winners = <<>>
      /\ LivedOK(old, was) /\ ViewOK(old, was)
  BY <1>1, <1>2 DEF Sound, JobOK
<1>4. draws \in Seq(Draw) /\ Len(draws) \in Nat /\ DOMAIN draws = 1 .. Len(draws)
  BY <1>2 DEF DatabaseOK
<1>5. /\ rows \in Seq(Draw) /\ Len(rows) \in {0, 1} /\ (Len(rows) = 0 <=> Len(draws) = 0)
      /\ DOMAIN rows = 1 .. Len(rows)
      /\ \A k \in DOMAIN rows : Len(draws) + 1 - k \in DOMAIN draws
                               /\ rows[k] = draws[Len(draws) + 1 - k]
  <2>1. Min({1, Len(draws)}) = IF Len(draws) = 0 THEN 0 ELSE 1
    BY <1>4 DEF Min
  <2>2. /\ rows \in Seq(Draw) /\ Len(rows) = Min({1, Len(draws)})
        /\ DOMAIN rows = 1 .. Len(rows)
        /\ \A k \in DOMAIN rows :
              /\ Len(draws) + 1 - k \in DOMAIN draws
              /\ rows[k] = draws[Len(draws) + 1 - k]
    BY <1>4, NewestRows
  <2>3. Len(rows) = IF Len(draws) = 0 THEN 0 ELSE 1
    BY <2>1, <2>2
  <2> QED
    BY <1>4, <2>2, <2>3
<1>6. /\ job \in Jobs /\ job.rows = rows /\ job.winners = <<>> /\ job.op = old.op
      /\ job.version = old.version /\ job.guests = old.guests
  BY <1>3, <1>5 DEF Jobs
<1>7. /\ next.rows = rows /\ next.op = old.op /\ next.version = old.version
      /\ next.guests = old.guests /\ next.at \in {"stubs", "done"}
  BY <1>6 DEF WithStubs, Jobs
<1>8. LivedOK(job, was)
  BY <1>3, <1>6 DEF LivedOK, IsView
<1>9. StubsOK(job, was)
  BY <1>2, <1>5, <1>6 DEF StubsOK, DatabaseOK
<1>10. HistoryOK(next, was)
  BY <1>3, <1>7 DEF HistoryOK, IsView
<1>11. \/ Told(next) \in was.truths
       \/ /\ Stale(next)
          /\ rows[1].id > was.draws
          /\ rows[1].version > next.version
  <2>1. CASE Len(draws) = 0
    <3>1. draws = <<>> /\ rows = <<>>
      BY <1>4, <1>5, <2>1
    <3>2. Told(next) = <<0, FALSE>> /\ Truth = <<0, FALSE>>
      BY <1>7, <3>1 DEF Told, Stale, Truth
    <3> QED
      BY <1>3, <3>2 DEF LivedOK
  <2>2. CASE Len(draws) # 0
    <3> PICK n : n = Len(draws)
      OBVIOUS
    <3>1. n \in DOMAIN draws /\ n > 0 /\ raffle = "live" /\ draws[n].id = n
      BY <1>2, <1>4, <2>2 DEF DatabaseOK
    <3>2. rows # <<>> /\ rows[1] = draws[n]
      BY <1>4, <1>5, <2>2
    <3>3. Stale(next) <=> draws[n].version # next.version
      BY <1>7, <3>2 DEF Stale
    <3>4. Told(next) = <<n, draws[n].version # next.version>>
      BY <1>7, <3>1, <3>2, <3>3 DEF Told, Stale
    <3>5. was.draws \in Nat /\ was.draws <= n /\ next.version \in Nat /\ draws[n].version \in Nat
      <4>1. draws[n] \in Draw
        BY <1>4, <3>1
      <4> QED
        BY <1>3, <1>7, <3>1, <4>1 DEF LivedOK, Pasts, Jobs, Draw
    <3>6. CASE was.draws = n
      <4>1. <<n, n > 0 /\ draws[n].version # next.version>> \in was.truths
        BY <1>3, <1>7, <3>1, <3>6 DEF LivedOK
      <4>2. (n > 0 /\ draws[n].version # next.version) = (draws[n].version # next.version)
        BY <3>1
      <4> QED
        BY <3>4, <4>1, <4>2
    <3>7. CASE was.draws < n
      <4>1. <<n, FALSE>> \in was.truths /\ draws[n].version >= next.version
        BY <1>3, <1>7, <3>1, <3>7 DEF LivedOK
      <4>2. CASE draws[n].version = next.version
        BY <3>4, <4>1, <4>2
      <4>3. CASE draws[n].version # next.version
        BY <3>1, <3>2, <3>3, <3>5, <3>7, <4>1, <4>3
      <4> QED
        BY <4>2, <4>3
    <3> QED
      BY <3>5, <3>6, <3>7
  <2> QED
    BY <2>1, <2>2
<1>12. was.draws > 0 /\ raffle = "live" => rows # <<>> /\ rows[1].id >= was.draws
  <2> SUFFICES ASSUME was.draws > 0, raffle = "live"
               PROVE  rows # <<>> /\ rows[1].id >= was.draws
    OBVIOUS
  <2>1. was.draws \in Nat /\ was.draws <= Len(draws)
    BY <1>3 DEF LivedOK, Pasts
  <2>2. Len(draws) # 0 /\ Len(draws) \in DOMAIN draws
    BY <1>4, <2>1
  <2>3. rows # <<>> /\ rows[1] = draws[Len(draws)]
    BY <1>4, <1>5, <2>2
  <2> QED
    BY <1>2, <2>1, <2>2, <2>3 DEF DatabaseOK
<1>13. ViewOK(next, was)
  BY <1>1, <1>3, <1>7, <1>11, <1>12 DEF ViewOK, IsView
<1>14. Len(job.winners) <= Len(job.rows)
  BY <1>5, <1>6
<1>15. Sound(next, was)
  BY <1>3, <1>6, <1>8, <1>9, <1>10, <1>13, <1>14, WithStubsIsSound
<1> QED
  BY <1>1, <1>15, ContinueStep

LEMMA ReadDrawsKeepsInv ==
    ASSUME Inv, NEW r \in Requests, ReadDraws(r)
    PROVE  Inv'
<1> PICK old, was : old = work[r] /\ was = past[r]
  OBVIOUS
<1> PICK rows : rows = Newest(old.limit)
  OBVIOUS
<1> PICK job : job = [old EXCEPT !.at = "rows", !.rows = rows]
  OBVIOUS
<1>1. Continue(r, job) /\ conn' = r /\ old.at = "draws"
  BY DEF ReadDraws
<1>2. Sound(old, was) /\ DatabaseOK
  BY DEF Inv
<1>3. /\ old \in Jobs /\ was \in Pasts /\ old.op = "list" /\ old.winners = <<>>
      /\ LivedOK(old, was) /\ old.limit \in Nat
  BY <1>1, <1>2 DEF Sound, JobOK, Jobs
<1>4. draws \in Seq(Draw) /\ Len(draws) \in Nat /\ DOMAIN draws = 1 .. Len(draws)
  BY <1>2 DEF DatabaseOK
<1>5. /\ rows \in Seq(Draw) /\ Len(rows) = Min({Len(draws), old.limit})
      /\ \A k \in DOMAIN rows : /\ Len(draws) + 1 - k \in DOMAIN draws
                               /\ rows[k] = draws[Len(draws) + 1 - k]
  <2>1. {old.limit, Len(draws)} = {Len(draws), old.limit}
    OBVIOUS
  <2> QED
    BY <1>3, <1>4, <2>1, NewestRows
<1>6. \A k \in DOMAIN rows : rows[k].id = Len(draws) + 1 - k /\ rows[k].id \in DOMAIN draws
  BY <1>2, <1>5 DEF DatabaseOK
<1>7. /\ job \in Jobs /\ job.at = "rows" /\ job.op = "list" /\ job.rows = rows
      /\ job.winners = <<>> /\ job.version = old.version /\ job.limit = old.limit
  BY <1>3, <1>5 DEF Jobs
<1>8. JobOK(job)
  BY <1>7 DEF JobOK
<1>9. LivedOK(job, was)
  BY <1>3, <1>7 DEF LivedOK, IsView
<1>10. StubsOK(job, was)
  BY <1>6, <1>7 DEF StubsOK
<1>11. HistoryOK(job, was)
  <2>1. raffle = "live" => Len(draws) \in was.draws .. Len(draws)
    BY <1>3, <1>4 DEF LivedOK, Pasts
  <2> QED
    BY <1>5, <1>6, <1>7, <2>1 DEF HistoryOK
<1>12. ViewOK(job, was)
  BY <1>7 DEF ViewOK, IsView
<1>13. Sound(job, was)
  BY <1>3, <1>8, <1>9, <1>10, <1>11, <1>12 DEF Sound
<1> QED
  BY <1>1, <1>7, <1>13, ContinueStep

LEMMA EndOfRowsKeepsInv ==
    ASSUME Inv, NEW r \in Requests, EndOfRows(r)
    PROVE  Inv'
<1> PICK old, was : old = work[r] /\ was = past[r]
  OBVIOUS
<1> PICK next : next = WithStubs(old)
  OBVIOUS
<1>1. Continue(r, next) /\ conn' = Nobody /\ old.at = "rows"
  BY DEF EndOfRows, Returned
<1>2. Sound(old, was)
  BY DEF Inv
<1>3. /\ old \in Jobs /\ was \in Pasts /\ old.op = "list" /\ old.winners = <<>>
      /\ LivedOK(old, was) /\ StubsOK(old, was) /\ HistoryOK(old, was)
  BY <1>1, <1>2 DEF Sound, JobOK
<1>4. /\ next.rows = old.rows /\ next.op = "list" /\ next.limit = old.limit
  BY <1>3 DEF WithStubs, Jobs
<1>5. HistoryOK(next, was)
  BY <1>1, <1>3, <1>4, HistoryStands
<1>6. ViewOK(next, was)
  BY <1>4 DEF ViewOK, IsView
<1>7. Len(old.winners) <= Len(old.rows)
  BY <1>3 DEF Jobs
<1>8. Sound(next, was)
  BY <1>3, <1>5, <1>6, <1>7, WithStubsIsSound
<1> QED
  BY <1>1, <1>8, ContinueStep

LEMMA RowIsSequence ==
    ASSUME NEW S, NEW n \in Nat, NEW f \in [1 .. n -> S]
    PROVE  f \in Seq(S)
OBVIOUS

\* A stub is hidden, or it is not, for each prize a draw was made with.
LEMMA HiddenStubs ==
    ASSUME NEW draw \in Draw
    PROVE  /\ hidden(draw) \in Seq(BOOLEAN) /\ DOMAIN hidden(draw) = Stubs(draw)
           /\ \A i \in DOMAIN hidden(draw) : hidden(draw)[i] = (<<draw.id, i>> \in torn)
<1>1. draw.prizes \in Nat /\ draw.entrants \in Nat
  BY CountsAssumption DEF Draw
<1> PICK m : m = Min({draw.prizes, draw.entrants})
  OBVIOUS
<1>2. m \in Nat
  BY <1>1 DEF Min
<1>3. Stubs(draw) = 1 .. m
  BY DEF Stubs
<1> PICK open : open = [i \in 1 .. m |-> <<draw.id, i>> \in torn]
  OBVIOUS
<1>4. hidden(draw) = open
  BY <1>3 DEF hidden
<1>5. DOMAIN open = 1 .. m /\ \A i \in 1 .. m : open[i] = (<<draw.id, i>> \in torn)
  BY Zenon
<1>6. ASSUME NEW i
      PROVE  (<<draw.id, i>> \in torn) \in BOOLEAN
  <2>1. CASE <<draw.id, i>> \in torn
    BY <2>1, Zenon
  <2>2. CASE <<draw.id, i>> \notin torn
    <3>1. (<<draw.id, i>> \in torn) = FALSE
      BY <2>2
    <3> QED
      BY <3>1
  <2> QED
    BY <2>1, <2>2, Zenon
<1>7. open \in [1 .. m -> BOOLEAN]
  BY <1>6, Zenon
<1>8. open \in Seq(BOOLEAN)
  BY <1>2, <1>7, RowIsSequence, Zenon
<1> QED
  BY <1>3, <1>4, <1>5, <1>8, Zenon

\* The stubs of one more draw: all of them, and sealed only if they were sealed
\* when the request began; or none, of a draw that is gone with its raffle.
LEMMA WinnersKeepsInv ==
    ASSUME Inv, NEW r \in Requests, winners(r)
    PROVE  Inv'
<1> PICK old, was : old = work[r] /\ was = past[r]
  OBVIOUS
<1> PICK k : k = Len(old.winners) + 1
  OBVIOUS
<1> PICK draw : draw = old.rows[k]
  OBVIOUS
<1> PICK stubs : stubs = IF draw.id \in DOMAIN draws THEN hidden(draw) ELSE <<>>
  OBVIOUS
<1> PICK all : all = Append(old.winners, stubs)
  OBVIOUS
<1> PICK job : job = [old EXCEPT !.winners = all]
  OBVIOUS
<1> PICK next : next = WithStubs(job)
  OBVIOUS
<1>1. Continue(r, next) /\ conn' = Nobody /\ old.at = "stubs"
  BY DEF winners, Query
<1>2. Sound(old, was) /\ DatabaseOK
  BY DEF Inv
<1>3. /\ old \in Jobs /\ was \in Pasts /\ Len(old.winners) < Len(old.rows)
      /\ LivedOK(old, was) /\ StubsOK(old, was) /\ HistoryOK(old, was) /\ ViewOK(old, was)
  BY <1>1, <1>2 DEF Sound, JobOK
<1>4. /\ old.winners \in Seq(Seq(BOOLEAN)) /\ old.rows \in Seq(Draw)
      /\ k \in DOMAIN old.rows /\ draw \in Draw
  BY <1>3 DEF Jobs
<1>5. /\ stubs \in Seq(BOOLEAN)
      /\ draw.id \in DOMAIN draws => DOMAIN stubs = Stubs(draw)
      /\ \A i \in DOMAIN stubs : stubs[i] = (<<draw.id, i>> \in torn) /\ raffle = "live"
  <2>1. CASE draw.id \in DOMAIN draws
    <3>1. raffle = "live"
      BY <1>2, <2>1 DEF DatabaseOK
    <3>2. stubs = hidden(draw)
      BY <2>1
    <3>3. /\ hidden(draw) \in Seq(BOOLEAN) /\ DOMAIN hidden(draw) = Stubs(draw)
          /\ \A i \in DOMAIN hidden(draw) : hidden(draw)[i] = (<<draw.id, i>> \in torn)
      BY <1>4, HiddenStubs, Zenon
    <3>4. /\ stubs \in Seq(BOOLEAN) /\ DOMAIN stubs = Stubs(draw)
          /\ \A i \in DOMAIN stubs : stubs[i] = (<<draw.id, i>> \in torn)
      BY <3>2, <3>3, Zenon
    <3> QED
      BY <3>1, <3>4, Zenon
  <2>2. CASE draw.id \notin DOMAIN draws
    BY <2>2
  <2> QED
    BY <2>1, <2>2
<1>6. /\ all \in Seq(Seq(BOOLEAN)) /\ Len(all) = k
      /\ DOMAIN all = DOMAIN old.winners \cup {k}
      /\ \A i \in DOMAIN old.winners : all[i] = old.winners[i]
      /\ all[k] = stubs /\ k \notin DOMAIN old.winners
  <2> PICK S : S = Seq(BOOLEAN)
    OBVIOUS
  <2>1. old.winners \in Seq(S) /\ stubs \in S
    BY <1>4, <1>5
  <2> PICK w : w = old.winners
    OBVIOUS
  <2>2. /\ Append(w, stubs) \in Seq(S) /\ Len(Append(w, stubs)) = Len(w) + 1
        /\ DOMAIN Append(w, stubs) = DOMAIN w \cup {Len(w) + 1}
        /\ Len(w) + 1 \notin DOMAIN w
        /\ \A i \in DOMAIN w : Append(w, stubs)[i] = w[i]
        /\ Append(w, stubs)[Len(w) + 1] = stubs
    BY <2>1, AppendOne
  <2>3. /\ Append(old.winners, stubs) \in Seq(S) /\ Len(Append(old.winners, stubs)) = k
        /\ DOMAIN Append(old.winners, stubs) = DOMAIN old.winners \cup {k}
        /\ k \notin DOMAIN old.winners
        /\ \A i \in DOMAIN old.winners : Append(old.winners, stubs)[i] = old.winners[i]
        /\ Append(old.winners, stubs)[k] = stubs
    BY <2>2, Zenon
  <2> QED
    BY <2>3, Zenon
<1>7. /\ job \in Jobs /\ job.winners = all /\ job.rows = old.rows /\ job.op = old.op
      /\ job.version = old.version /\ job.guests = old.guests /\ job.limit = old.limit
  BY <1>3, <1>6 DEF Jobs
<1>8. /\ next.rows = old.rows /\ next.op = old.op /\ next.version = old.version
      /\ next.guests = old.guests /\ next.limit = old.limit /\ next.at \in {"stubs", "done"}
  BY <1>7 DEF WithStubs, Jobs
<1>9. LivedOK(job, was)
  BY <1>3, <1>7 DEF LivedOK, IsView
<1>10. StubsOK(job, was)
  <2>1. \A i \in DOMAIN stubs : <<draw.id, i>> \in was.torn => stubs[i]
    BY <1>3, <1>5 DEF LivedOK
  <2>2. raffle = "live" => draw.id \in DOMAIN draws
    BY <1>3, <1>4 DEF StubsOK
  <2>3. ASSUME NEW j \in DOMAIN all, NEW i \in DOMAIN all[j],
               <<old.rows[j].id, i>> \in was.torn
        PROVE  all[j][i]
    <3>1. CASE j = k
      BY <1>6, <2>1, <2>3, <3>1
    <3>2. CASE j # k
      BY <1>3, <1>6, <2>3, <3>2 DEF StubsOK
    <3> QED
      BY <3>1, <3>2
  <2>4. ASSUME NEW j \in DOMAIN all, raffle = "live"
        PROVE  DOMAIN all[j] = Stubs(old.rows[j])
    <3>1. CASE j = k
      BY <1>5, <1>6, <2>2, <2>4, <3>1
    <3>2. CASE j # k
      <4>1. j \in DOMAIN old.winners /\ all[j] = old.winners[j]
        BY <1>6, <3>2
      <4>2. \A i \in DOMAIN old.winners : DOMAIN old.winners[i] = Stubs(old.rows[i])
        BY <1>3, <2>4 DEF StubsOK
      <4> QED
        BY <4>1, <4>2
    <3> QED
      BY <3>1, <3>2
  <2>5. raffle = "live" => \A j \in DOMAIN old.rows : old.rows[j].id \in DOMAIN draws
    BY <1>3 DEF StubsOK
  <2> QED
    BY <1>7, <2>3, <2>4, <2>5 DEF StubsOK
<1>11. HistoryOK(next, was)
  BY <1>1, <1>3, <1>8, HistoryStands
<1>12. ViewOK(next, was)
  BY <1>1, <1>3, <1>8, ViewStands
<1>13. Len(job.winners) <= Len(job.rows)
  <2>1. Len(old.winners) \in Nat /\ Len(old.rows) \in Nat
    BY <1>4
  <2>2. Len(old.winners) + 1 <= Len(old.rows)
    BY <1>3, <2>1
  <2>3. Len(job.winners) = Len(old.winners) + 1 /\ Len(job.rows) = Len(old.rows)
    BY <1>6, <1>7, Zenon
  <2> QED
    BY <2>2, <2>3, Zenon
<1>14. Sound(next, was)
  BY <1>3, <1>7, <1>9, <1>10, <1>11, <1>12, <1>13, WithStubsIsSound
<1> QED
  BY <1>1, <1>14, ContinueStep

LEMMA AnswerKeepsInv ==
    ASSUME Inv, NEW r \in Requests, Answer(r)
    PROVE  Inv'
<1>1. conn # r \/ conn = Nobody
  BY NobodyAssumption DEF Answer, Inv
<1>2. conn' = Nobody \/ (conn' = conn /\ conn # r)
  BY <1>1 DEF Answer
<1> QED
  BY <1>2, LeaveStep DEF Answer

LEMMA FailKeepsInv ==
    ASSUME Inv, NEW r \in Requests, Fail(r)
    PROVE  Inv'
<1>1. conn' = Nobody \/ (conn' = conn /\ conn # r)
  BY DEF Fail
<1> QED
  BY <1>1, LeaveStep DEF Fail

---------------------------------------------------------------------------
\* Theorems

LEMMA InitInv == Init => Inv
<1> SUFFICES ASSUME Init PROVE Inv
  OBVIOUS
<1>1. /\ raffle = "none" /\ prizes \in PrizeCounts /\ version = 0 /\ entrants = 0
      /\ draws = <<>> /\ torn = {} /\ conn = Nobody
  BY DEF Init
<1>2. DatabaseOK
  BY <1>1, CountsAssumption DEF DatabaseOK
<1>3. work = [r \in Requests |-> Idle] /\ past = [r \in Requests |-> NoPast]
  BY DEF Init
<1>4. Sound(Idle, NoPast)
  BY IdleType DEF Sound, JobOK, Idle, NoPast, Pasts
<1> QED
  BY <1>1, <1>2, <1>3, <1>4 DEF Inv

LEMMA StepKeepsInv == Inv /\ [Next]_vars => Inv'
<1> SUFFICES ASSUME Inv, [Next]_vars PROVE Inv'
  OBVIOUS
<1>1. ASSUME NEW r \in Requests, Ask(r) PROVE Inv'
  BY <1>1, CreateEventKeepsInv, UpdateEventKeepsInv, PutRosterKeepsInv, EditGuestKeepsInv,
     GetEventKeepsInv, ListDrawsKeepsInv, GetDrawKeepsInv DEF Ask
<1>2. ASSUME NEW r \in Requests, Proceed(r) PROVE Inv'
  BY <1>2, ReadGuestsKeepsInv, LatestDrawKeepsInv, ReadDrawsKeepsInv, EndOfRowsKeepsInv,
     WinnersKeepsInv, AnswerKeepsInv DEF Proceed
<1>3. ASSUME NEW r \in Requests, Fail(r) PROVE Inv'
  BY <1>3, FailKeepsInv
<1>4. DatabaseOK
  BY DEF Inv
<1>5. ASSUME RunDraw PROVE Inv'
  <2>1. Others /\ UNCHANGED <<work, conn>>
    BY <1>5 DEF RunDraw, Query
  <2> QED
    BY <1>4, <1>5, <2>1, RunDrawStep, QuietStep
<1>6. ASSUME Unheard PROVE Inv'
  <2>1. Others /\ UNCHANGED <<work, conn>>
    BY <1>6 DEF Unheard, Edit, SetPrizes, Query
  <2>2. DbStep
    BY <1>4, <1>6, EditStep, SetPrizesStep DEF Unheard
  <2> QED
    BY <2>1, <2>2, QuietStep
<1>7. ASSUME NEW d \in DOMAIN draws, NEW i \in Stubs(draws[d]), RevealWinner(d, i) PROVE Inv'
  <2>1. Others /\ UNCHANGED <<work, conn>>
    BY <1>7 DEF RevealWinner, Query
  <2> QED
    BY <1>4, <1>7, <2>1, RevealWinnerStep, QuietStep
<1>8. ASSUME DeleteEvent PROVE Inv'
  <2>1. Others /\ UNCHANGED <<work, conn>>
    BY <1>8 DEF DeleteEvent, Query
  <2> QED
    BY <1>4, <1>8, <2>1, DeleteEventStep, QuietStep
<1>9. CASE UNCHANGED vars
  <2>1. UNCHANGED <<database, conn, work, past>>
    BY <1>9 DEF vars
  <2>2. DatabaseOK'
    BY <1>4, <2>1, SameDatabaseStep DEF DbStep
  <2>3. ASSUME NEW q \in Requests PROVE Sound(work[q], past[q])'
    <3> PICK job, was : job = work[q] /\ was = past[q]
      OBVIOUS
    <3>1. Sound(job, was)
      BY DEF Inv
    <3>2. Sound(job, was)'
      BY <2>1, <3>1, SameDatabaseSound
    <3> QED
      BY <2>1, <3>2
  <2> QED
    BY <2>1, <2>2, <2>3 DEF Inv
<1> QED
  BY <1>1, <1>2, <1>3, <1>5, <1>6, <1>7, <1>8, <1>9 DEF Next

\* The invariant holds in every state, whatever the number of requests, draws
\* and edits.
THEOREM Invariance == Spec => []Inv
<1> QED
  BY InitInv, StepKeepsInv, PTL DEF Spec

\* What an answer that is done has in hand.
LEMMA DoneIsSound ==
    ASSUME Inv, NEW r \in Done
    PROVE  /\ r \in Requests /\ work[r].at = "done"
           /\ JobOK(work[r])
           /\ LivedOK(work[r], past[r]) /\ StubsOK(work[r], past[r])
           /\ HistoryOK(work[r], past[r]) /\ ViewOK(work[r], past[r])
<1> PICK job, was : job = work[r] /\ was = past[r]
  OBVIOUS
<1>1. r \in Requests /\ job.at = "done"
  BY DEF Done
<1>2. Sound(job, was)
  BY <1>1 DEF Inv
<1>3. /\ JobOK(job) /\ LivedOK(job, was) /\ StubsOK(job, was)
      /\ HistoryOK(job, was) /\ ViewOK(job, was)
  BY <1>1, <1>2 DEF Sound
<1> QED
  BY <1>1, <1>3

\* Every variable has its type; only a history that is reading its rows holds
\* the connection (ListDraws, draws.go:97-127), and no handler looks up the
\* stubs of more draws than it has read.
THEOREM TypeCorrect == Spec => []TypeOK
<1>1. Inv => TypeOK
  <2> SUFFICES ASSUME Inv PROVE TypeOK
    OBVIOUS
  <2>1. ASSUME NEW r \in Requests
        PROVE  work[r].rows \in Seq(Draw) /\ Len(work[r].winners) <= Len(work[r].rows)
    <3> PICK job : job = work[r]
      OBVIOUS
    <3>1. JobOK(job)
      BY DEF Inv, Sound
    <3>2. job \in Jobs
      BY <3>1 DEF JobOK
    <3>3. /\ job.rows \in Seq(Draw) /\ job.winners \in Seq(Seq(BOOLEAN))
          /\ job.at \in {"idle", "guests", "draw", "draws", "rows", "stubs", "done"}
      BY <3>2 DEF Jobs
    <3>4. Len(job.rows) \in Nat /\ Len(job.winners) \in Nat
      BY <3>3
    <3>5. job.winners = <<>> \/ Len(job.winners) < Len(job.rows)
             \/ Len(job.winners) = Len(job.rows)
      BY <3>1, <3>3 DEF JobOK
    <3>6. job.winners = <<>> => Len(job.winners) = 0
      OBVIOUS
    <3>7. Len(job.winners) <= Len(job.rows)
      BY <3>4, <3>5, <3>6
    <3> QED
      BY <3>3, <3>7
  <2> QED
    BY <2>1 DEF TypeOK, Inv, DatabaseOK
<1> QED
  BY <1>1, Invariance, PTL

\* A view is put together from two or three moments of the raffle, and the draw
\* and the flag it tells were right together at one moment of its request; or
\* the flag is set on a draw that was made meanwhile, on a later roster than the
\* first query saw (view, handlers.go:49-72).
THEOREM FlagsWereRight == Spec => []FlagWasRight
<1>1. Inv => FlagWasRight
  <2> SUFFICES ASSUME Inv, NEW r \in Done, IsView(work[r])
               PROVE  \/ Told(work[r]) \in past[r].truths
                      \/ /\ Stale(work[r])
                         /\ work[r].rows[1].id > past[r].draws
                         /\ work[r].rows[1].version > work[r].version
    BY DEF FlagWasRight
  <2> QED
    BY DoneIsSound DEF ViewOK
<1> QED
  BY <1>1, Invariance, PTL

\* An answer goes back behind nothing that was so when its request began: its
\* guests, its latest draw and its torn stubs are of then or later, whatever
\* came in between its queries.
THEOREM AnswersAreFresh == Spec => []NoAnswerIsOlder
<1>1. Inv => NoAnswerIsOlder
  <2> SUFFICES ASSUME Inv, NEW r \in Done
      PROVE  /\ IsView(work[r]) => work[r].guests >= work[r].version \/ raffle = "gone"
             /\ work[r].op = "put" => work[r].guests = work[r].version
             /\ IsView(work[r]) /\ past[r].draws > 0 /\ raffle = "live" =>
                   work[r].rows # <<>> /\ work[r].rows[1].id >= past[r].draws
             /\ \A k \in DOMAIN work[r].rows : \A i \in DOMAIN work[r].winners[k] :
                   <<work[r].rows[k].id, i>> \in past[r].torn => work[r].winners[k][i]
    BY DEF NoAnswerIsOlder
  <2> PICK job, was : job = work[r] /\ was = past[r]
    OBVIOUS
  <2>1. job.at = "done" /\ JobOK(job) /\ StubsOK(job, was) /\ ViewOK(job, was)
    BY DoneIsSound
  <2>2. DOMAIN job.rows = DOMAIN job.winners
    <3>1. job.rows \in Seq(Draw) /\ job.winners \in Seq(Seq(BOOLEAN))
      BY <2>1 DEF JobOK, Jobs
    <3>2. Len(job.winners) = Len(job.rows)
      BY <2>1 DEF JobOK
    <3> QED
      BY <3>1, <3>2
  <2>3. \A k \in DOMAIN job.rows : \A i \in DOMAIN job.winners[k] :
            <<job.rows[k].id, i>> \in was.torn => job.winners[k][i]
    BY <2>1, <2>2 DEF StubsOK
  <2>4. /\ IsView(job) => job.guests >= job.version \/ raffle = "gone"
        /\ job.op = "put" => job.guests = job.version
        /\ IsView(job) /\ was.draws > 0 /\ raffle = "live" =>
              job.rows # <<>> /\ job.rows[1].id >= was.draws
    BY <2>1 DEF ViewOK
  <2> QED
    BY <2>3, <2>4
<1> QED
  BY <1>1, Invariance, PTL

\* While the raffle lives, an answer has every stub of the draws in it, and a
\* history is the newest draws of one moment with none left out (ListDraws and
\* winners, draws.go:97-127 and 178-197).
THEOREM NothingIsLost == Spec => []NothingIsMissing
<1>1. Inv => StubsAreWhole
  <2> SUFFICES ASSUME Inv, NEW r \in Done, NEW k \in DOMAIN work[r].rows, raffle = "live"
               PROVE  DOMAIN work[r].winners[k]
                          = 1 .. Min({work[r].rows[k].prizes, work[r].rows[k].entrants})
    BY DEF StubsAreWhole
  <2> PICK job, was : job = work[r] /\ was = past[r]
    OBVIOUS
  <2>1. job.at = "done" /\ JobOK(job) /\ StubsOK(job, was)
    BY DoneIsSound
  <2>2. k \in DOMAIN job.winners
    <3>1. job.rows \in Seq(Draw) /\ job.winners \in Seq(Seq(BOOLEAN))
      BY <2>1 DEF JobOK, Jobs
    <3>2. Len(job.winners) = Len(job.rows) /\ k \in DOMAIN job.rows
      BY <2>1 DEF JobOK
    <3> QED
      BY <3>1, <3>2
  <2>3. DOMAIN job.winners[k] = Stubs(job.rows[k])
    BY <2>1, <2>2 DEF StubsOK
  <2> QED
    BY <2>3 DEF Stubs
<1>2. Inv => HistoryIsWhole
  <2> SUFFICES ASSUME Inv, NEW r \in Done, work[r].op = "list", raffle = "live"
      PROVE  \E n \in past[r].draws .. Len(draws) :
                 [k \in DOMAIN work[r].rows |-> work[r].rows[k].id] =
                     [k \in 1 .. Min({n, work[r].limit}) |-> n + 1 - k]
    BY DEF HistoryIsWhole
  <2> PICK job, was : job = work[r] /\ was = past[r]
    OBVIOUS
  <2>1. job.at = "done" /\ JobOK(job) /\ HistoryOK(job, was)
    BY DoneIsSound
  <2>2. PICK n \in was.draws .. Len(draws) :
            /\ Len(job.rows) = Min({n, job.limit})
            /\ \A k \in DOMAIN job.rows : job.rows[k].id = n + 1 - k
    BY <2>1 DEF HistoryOK
  <2>3. job.rows \in Seq(Draw)
    BY <2>1 DEF JobOK, Jobs
  <2>4. DOMAIN job.rows = 1 .. Min({n, job.limit})
    BY <2>2, <2>3
  <2>5. [k \in DOMAIN job.rows |-> job.rows[k].id] =
            [k \in 1 .. Min({n, job.limit}) |-> n + 1 - k]
    BY <2>2, <2>4
  <2> QED
    BY <2>5
<1> QED
  BY <1>1, <1>2, Invariance, PTL DEF NothingIsMissing
=============================================================================
