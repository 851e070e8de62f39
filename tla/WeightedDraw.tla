---------------------------- MODULE WeightedDraw ----------------------------
(***************************************************************************)
(* src/internal/raffle/draw.go: Draw, which decides who wins, and Odds,    *)
(* which predicts it.  Both give every candidate with diapers a random key *)
(* and take the n largest, but Draw sorts the whole pool and Odds keeps a   *)
(* short list of the best so far, in arrays that all its simulated draws   *)
(* share.                                                                  *)
(*                                                                         *)
(* A key is log(U)/weight: the weight decides how likely a key is and, U   *)
(* being anything in (0,1), rules none out.  Keys are therefore any        *)
(* numbers, ties included, and only their order is looked at.              *)
(***************************************************************************)
EXTENDS Integers, SequencesExt

CONSTANTS
    Pools,      \* sequences of diaper counts; a candidate is an index
    Prizes,     \* n of a call
    Keys,       \* the keys a candidate may draw
    Runs        \* simulated draws of a call; 4000 unless asked otherwise

ASSUME PoolsAssumption == Pools \subseteq Seq(Int)
ASSUME NumbersAssumption ==
    Prizes \subseteq Int /\ Keys \subseteq Int /\ Keys # {} /\ Runs \in Nat

\* Draw sorts them all, and Odds numbers them in the order of the pool, so a set
\* says enough.
Eligible_Everyone(pool) == DOMAIN pool
Eligible(pool) == {i \in DOMAIN pool : pool[i] > 0}

Take(pool, n) == LET most == Cardinality(Eligible(pool)) IN IF n > most THEN most ELSE n

\* Draw: the winners it may return for these keys, one for each order that
\* sort.Slice may leave equal keys in.
Draw(pool, n, key) ==
    IF n <= 0 THEN {<<>>}
    ELSE {SubSeq(order, 1, Take(pool, n)) :
            order \in {s \in SetToSeqs(Eligible(pool)) :
                         \A i, j \in DOMAIN s : i < j => key[s[i]] >= key[s[j]]}}

---------------------------------------------------------------------------
\* Odds

VARIABLES
    pool, prizes,   \* the arguments
    run, next,      \* simulated draws finished; the next eligible candidate's number
    drawn,          \* the keys of this simulated draw so far
    filled,         \* how much of the two arrays is this draw's
    topIdx, topKey, \* the best so far and their keys, best first
    hits            \* in how many draws each candidate placed

vars == <<pool, prizes, run, next, drawn, filled, topIdx, topKey, hits>>

entrants == Cardinality(Eligible(pool))
take == Take(pool, prizes)

Init ==
    /\ pool \in Pools /\ prizes \in Prizes
    /\ run = 0 /\ next = 1 /\ drawn = <<>> /\ filled = 0
    /\ topIdx = [k \in 1 .. take |-> 0] /\ topKey = [k \in 1 .. take |-> 0]
    /\ hits = [i \in 1 .. entrants |-> 0]

\* Where the new key lands: entries in 1 .. last are shifted down for as long as
\* they are smaller.
Landing_First(key, last) == 0
Landing(key, last) ==
    CHOOSE p \in 0 .. last :
        /\ p = 0 \/ topKey[p] >= key
        /\ \A q \in p + 1 .. last : topKey[q] < key

Inserted_Longer(array, value, p, last) == InsertAt(array, p + 1, value)
Inserted(array, value, p, last) ==
    [k \in DOMAIN array |->
        CASE k = p + 1              -> value
          [] k > p + 1 /\ k <= last -> array[k - 1]
          [] OTHER                  -> array[k]]

\* The new key joins a list that ends up with last entries.
Insert(key, last) ==
    LET p == Landing(key, last - 1) IN
    /\ topKey' = Inserted(topKey, key, p, last)
    /\ topIdx' = Inserted(topIdx, next, p, last)

Consider(key) ==
    /\ run < Runs /\ take > 0 /\ next <= entrants
    /\ drawn' = Append(drawn, key)
    /\ next' = next + 1
    /\ \/ /\ filled < take
          /\ Insert(key, filled + 1)
          /\ filled' = filled + 1
       \/ /\ filled = take
          /\ key > topKey[take]
          /\ Insert(key, take)
          /\ UNCHANGED filled
       \/ /\ filled = take
          /\ key <= topKey[take]
          /\ UNCHANGED <<filled, topIdx, topKey>>
    /\ UNCHANGED <<pool, prizes, run, hits>>

Hit(i) == \E k \in 1 .. filled : topIdx[k] = i

\* The draw is over: everybody on the list scores.  The arrays keep their
\* contents, and the next draw starts to write over them.
Score ==
    /\ run < Runs /\ take > 0 /\ next > entrants
    /\ hits' = [i \in DOMAIN hits |-> IF Hit(i) THEN hits[i] + 1 ELSE hits[i]]
    /\ run' = run + 1
    /\ next' = 1 /\ drawn' = <<>> /\ filled' = 0
    /\ UNCHANGED <<pool, prizes, topIdx, topKey>>

Next == (\E key \in Keys : Consider(key)) \/ Score

Spec == Init /\ [][Next]_vars

---------------------------------------------------------------------------
\* Type correctness; the list never holds more than take candidates.
TypeOK ==
    /\ pool \in Pools /\ prizes \in Prizes
    /\ run \in 0 .. Runs /\ next \in 1 .. entrants + 1
    /\ drawn \in Seq(Keys) /\ Len(drawn) = next - 1
    /\ topKey \in [1 .. take -> Int] /\ topIdx \in [1 .. take -> 0 .. entrants]
    /\ filled \in 0 .. Len(topKey)
    /\ hits \in Seq(0 .. Runs)

\* At any point of a simulated draw the list is what Draw would return if the
\* pool ended here: the largest keys so far, in order, each with its own
\* candidate, whatever an earlier draw left in the arrays.
ListIsDraw ==
    take > 0 =>
        SubSeq(topIdx, 1, filled)
            \in Draw([i \in DOMAIN drawn |-> 1], prizes, drawn)

\* The chances add up to the number of stubs: every finished draw scored for
\* take different candidates, and nobody's chance is above one.
HitsAddUp ==
    /\ FoldSeq(+, 0, hits) = run * take
    /\ \A i \in DOMAIN hits : hits[i] <= run

\* The percentages are those of the draw itself: each simulated draw selects
\* what Draw would, and scores for it once (draw.go:64-74, 99-135).
SimulationIsDraw == ListIsDraw /\ HitsAddUp

\* Whatever the weights, Draw can return any sequence of different candidates
\* with diapers, as many as there are prizes or candidates, and nothing else:
\* "nobody can take home two prizes" (draw.go:33), and a guest without diapers
\* takes none.  It is what Store's Picks takes for granted.
AnyoneCanWin ==
    LET withDiapers == {i \in DOMAIN pool : pool[i] > 0}
        n == IF prizes > Cardinality(withDiapers) THEN Cardinality(withDiapers) ELSE prizes
    IN  run = 0 /\ next = 1 /\ prizes > 0 =>
          UNION {Draw(pool, prizes, key) : key \in [DOMAIN pool -> Keys]}
            = {s \in [1 .. n -> withDiapers] : \A i, j \in 1 .. n : s[i] = s[j] => i = j}
=============================================================================
