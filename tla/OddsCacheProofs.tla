-------------------------- MODULE OddsCacheProofs --------------------------
(***************************************************************************)
(* The invariants of OddsCache, for any number of raffles and requests.    *)
(*                                                                         *)
(* HitsAreFresh is not inductive: what an insertion will put in the cache  *)
(* is decided by the two reads of a request that may have started long     *)
(* before.  Sound says what those reads, and therefore every entry, can    *)
(* be: about the key's raffle and prize count, and a roster no older than  *)
(* the version in the key and no newer than the one there is now.          *)
(***************************************************************************)
EXTENDS OddsCache, FiniteSetTheorems, TLAPS

\* rows read after the version v of raffle e
ReadSince(roster, e, v) ==
    \/ roster \in v .. version[e]
    \/ roster = Gone /\ e \notin live

\* Odds that may stand under a key.
About(odds, key) ==
    /\ odds.event = key.event
    /\ odds.prizes = key.prizes
    /\ ReadSince(odds.roster, key.event, key.version)

\* A request in flight, by what it has read so far.
SoundRequest(q) ==
    q.at # "idle" =>
        /\ q.row.version <= version[q.row.event]
        /\ q.at \in {"guests", "computing"} => ReadSince(q.roster, q.row.event, q.row.version)
        /\ q.at = "done" => About(q.odds, cacheKey(q.row, q.runs))

Sound ==
    /\ \A key \in DOMAIN cache :
          key.version <= version[key.event] /\ About(cache[key], key)
    /\ \A r \in Requests : SoundRequest(request[r])

IInv == TypeOK /\ Sound

---------------------------------------------------------------------------
\* What each place of a request has read so far.
LEMMA RequestFields ==
    ASSUME TypeOK, NEW r \in Requests
    PROVE  /\ request[r] \in Request
           /\ request[r].at \in {"idle", "event", "guests", "computing", "done"}
           /\ request[r].at # "idle" => request[r].row \in Row /\ request[r].runs \in Runs
           /\ request[r].at \in {"guests", "computing"} => request[r].roster \in Rosters
           /\ request[r].at = "done" => request[r].odds \in Odds
BY DEF TypeOK, Request

LEMMA KeyType ==
    ASSUME NEW row \in Row, NEW runs \in Runs
    PROVE  cacheKey(row, runs) \in Key
BY DEF cacheKey, Row, Key

\* Type correctness of the cache and its requests.
THEOREM TypeCorrect == Spec => []TypeOK
<1>1. Init => TypeOK
  BY MaxVersionAssumption DEF Init, TypeOK, Idle, Request
<1>2. TypeOK /\ [Next]_vars => TypeOK'
  <2> SUFFICES ASSUME TypeOK, [Next]_vars PROVE TypeOK'
    OBVIOUS
  <2> USE MaxVersionAssumption
  <2>1. ASSUME NEW e \in Raffles, EditRoster(e) PROVE TypeOK'
    BY <2>1 DEF TypeOK, EditRoster
  <2>2. ASSUME NEW e \in Raffles, NEW n \in Prizes, SetPrizes(e, n) PROVE TypeOK'
    BY <2>2 DEF TypeOK, SetPrizes
  <2>3. ASSUME NEW e \in Raffles, DeleteRaffle(e) PROVE TypeOK'
    BY <2>3 DEF TypeOK, DeleteRaffle
  <2>4. ASSUME NEW r \in Requests, NEW e \in Raffles, NEW runs \in Runs, ReadEvent(r, e, runs)
        PROVE  TypeOK'
    <3>1. EventRow(e) \in Row
      BY DEF TypeOK, EventRow, Row
    <3>2. [at |-> "event", row |-> EventRow(e), runs |-> runs] \in Request
      BY <3>1 DEF Request
    <3> QED
      BY <2>4, <3>2 DEF TypeOK, ReadEvent, database
  <2>5. ASSUME NEW r \in Requests, ReadGuests(r) PROVE TypeOK'
    <3>1. request[r].row \in Row /\ request[r].runs \in Runs
      BY <2>5, RequestFields DEF ReadGuests
    <3>2. (IF request[r].row.event \in live THEN version[request[r].row.event] ELSE Gone) \in Rosters
      BY <3>1 DEF TypeOK, Row, Rosters
    <3>3. [at |-> "guests", row |-> request[r].row, runs |-> request[r].runs,
           roster |-> IF request[r].row.event \in live
                        THEN version[request[r].row.event] ELSE Gone] \in Request
      BY <3>1, <3>2 DEF Request
    <3> QED
      BY <2>5, <3>3 DEF TypeOK, ReadGuests, database
  <2>6. ASSUME NEW r \in Requests, NEW odds \in Odds, request[r].at # "idle", Answer(r, odds)
        PROVE  request' \in [Requests -> Request]
    <3>1. [at |-> "done", row |-> request[r].row, runs |-> request[r].runs, odds |-> odds]
             \in Request
      BY <2>6, RequestFields DEF Request
    <3> QED
      BY <2>6, <3>1 DEF TypeOK, Answer
  <2>7. ASSUME NEW r \in Requests, Hit(r) PROVE TypeOK'
    BY <2>6, <2>7 DEF TypeOK, Hit, database
  <2>8. ASSUME NEW r \in Requests, Miss(r) PROVE TypeOK'
    <3>1. [request[r] EXCEPT !.at = "computing"] \in Request
      BY <2>8 DEF TypeOK, Miss, Request
    <3> QED
      BY <2>8, <3>1 DEF TypeOK, Miss, database
  <2>9. ASSUME NEW r \in Requests, Insert(r) PROVE TypeOK'
    <3> DEFINE key  == cacheKey(request[r].row, request[r].runs)
               odds == [event  |-> request[r].row.event, roster |-> request[r].roster,
                        prizes |-> request[r].row.prizes, seed |-> key]
    <3>1. key \in Key /\ odds \in Odds
      BY <2>9, RequestFields, KeyType DEF Insert, Odds, Row
    <3>2. request' \in [Requests -> Request]
      BY <2>6, <2>9, <3>1 DEF Insert
    <3>3. cache' \in [DOMAIN cache' -> Odds] /\ DOMAIN cache' \subseteq Key
      BY <2>9, <3>1 DEF Insert, TypeOK
    <3> QED
      BY <2>9, <3>2, <3>3 DEF Insert, TypeOK, database
  <2>10. ASSUME NEW r \in Requests, Finish(r) PROVE TypeOK'
    BY <2>10 DEF TypeOK, Finish, Idle, Request, database
  <2>11. CASE Restart
    BY <2>11 DEF TypeOK, Restart, Idle, Request, database
  <2>12. CASE UNCHANGED vars
    BY <2>12 DEF TypeOK, vars
  <2> QED
    BY <2>1, <2>2, <2>3, <2>4, <2>5, <2>7, <2>8, <2>9, <2>10, <2>11, <2>12 DEF Next
<1> QED
  BY <1>1, <1>2, PTL DEF Spec

---------------------------------------------------------------------------
\* A roster read since v stays one while versions only grow and a raffle that
\* is gone stays gone.
LEMMA ReadSinceStable ==
    ASSUME TypeOK, TypeOK', live' \subseteq live,
           \A e \in Raffles : version[e] <= version'[e],
           NEW e \in Raffles, NEW v \in Nat, NEW roster \in Rosters,
           ReadSince(roster, e, v)
    PROVE  ReadSince(roster, e, v)'
BY MaxVersionAssumption DEF ReadSince, TypeOK, Rosters, Gone

\* Commits do not disturb Sound.
LEMMA SoundThroughCommit ==
    ASSUME IInv, TypeOK', live' \subseteq live,
           \A e \in Raffles : version[e] <= version'[e],
           UNCHANGED <<cache, request>>
    PROVE  Sound'
<1>1. ASSUME NEW key \in DOMAIN cache
      PROVE  key.version <= version'[key.event] /\ About(cache[key], key)'
  <2>1. key \in Key /\ cache[key] \in Odds
    BY DEF IInv, TypeOK
  <2>2. key.event \in Raffles /\ key.version \in Nat /\ cache[key].roster \in Rosters
    BY <2>1, MaxVersionAssumption DEF Key, Odds
  <2>3. key.version <= version[key.event] /\ About(cache[key], key)
    BY DEF IInv, Sound
  <2>4. ReadSince(cache[key].roster, key.event, key.version)'
    BY <2>2, <2>3, ReadSinceStable DEF IInv, About
  <2>5. version[key.event] \in Nat /\ version'[key.event] \in Nat
    BY <2>2, MaxVersionAssumption DEF IInv, TypeOK
  <2> QED
    BY <2>2, <2>3, <2>4, <2>5 DEF About
<1>2. ASSUME NEW q \in Request, SoundRequest(q), q.at # "idle"
      PROVE  SoundRequest(q)'
  <2>1. q.row \in Row
    BY <1>2 DEF Request
  <2>2. q.row.event \in Raffles /\ q.row.version \in Nat
    BY <2>1, MaxVersionAssumption DEF Row
  <2>3. version[q.row.event] \in Nat /\ version'[q.row.event] \in Nat
    BY <2>2, MaxVersionAssumption DEF IInv, TypeOK
  <2>4. q.row.version <= version'[q.row.event]
    BY <1>2, <2>2, <2>3 DEF SoundRequest
  <2>5. ASSUME q.at \in {"guests", "computing"}
        PROVE  ReadSince(q.roster, q.row.event, q.row.version)'
    <3>1. q.roster \in Rosters
      BY <2>5 DEF Request
    <3> QED
      BY <1>2, <2>2, <2>5, <3>1, ReadSinceStable DEF IInv, SoundRequest
  <2>6. ASSUME q.at = "done"
        PROVE  About(q.odds, cacheKey(q.row, q.runs))'
    <3>1. q.odds.roster \in Rosters
      BY <2>6 DEF Request, Odds
    <3>2. About(q.odds, cacheKey(q.row, q.runs))
      BY <1>2, <2>6 DEF SoundRequest
    <3>3. ReadSince(q.odds.roster, q.row.event, q.row.version)'
      BY <2>2, <3>1, <3>2, ReadSinceStable DEF IInv, About, cacheKey
    <3> QED
      BY <3>2, <3>3 DEF About, cacheKey
  <2> QED
    BY <2>4, <2>5, <2>6 DEF SoundRequest
<1>3. ASSUME NEW r \in Requests PROVE SoundRequest(request[r])'
  <2>1. request[r] \in Request /\ SoundRequest(request[r]) /\ request'[r] = request[r]
    BY DEF IInv, TypeOK, Sound
  <2>2. PICK q \in Request : q = request[r]
    BY <2>1
  <2>3. SoundRequest(q)'
    <3>1. CASE q.at = "idle"
      BY <3>1 DEF SoundRequest
    <3>2. CASE q.at # "idle"
      BY <1>2, <2>1, <2>2, <3>2
    <3> QED
      BY <3>1, <3>2
  <2> QED
    BY <2>1, <2>2, <2>3
<1> QED
  BY <1>1, <1>3 DEF Sound

\* A request that moves on keeps Sound if what it has is sound.
LEMMA SoundThroughRequest ==
    ASSUME IInv, UNCHANGED <<database, cache>>, NEW r \in Requests, NEW new \in Request,
           request' = [request EXCEPT ![r] = new], SoundRequest(new)
    PROVE  Sound'
BY DEF IInv, Sound, SoundRequest, TypeOK, database, About, ReadSince, cacheKey

LEMMA Inductive == IInv /\ [Next]_vars /\ TypeOK' => Sound'
<1> SUFFICES ASSUME IInv, [Next]_vars, TypeOK' PROVE Sound'
  OBVIOUS
<1> USE MaxVersionAssumption
<1>1. ASSUME NEW e \in Raffles, EditRoster(e) PROVE Sound'
  <2>1. \A f \in Raffles : version[f] <= version'[f]
    BY <1>1 DEF IInv, TypeOK, EditRoster
  <2> QED
    BY <1>1, <2>1, SoundThroughCommit DEF EditRoster
<1>2. ASSUME NEW e \in Raffles, NEW n \in Prizes, SetPrizes(e, n) PROVE Sound'
  BY <1>2, SoundThroughCommit DEF IInv, TypeOK, SetPrizes
<1>3. ASSUME NEW e \in Raffles, DeleteRaffle(e) PROVE Sound'
  BY <1>3, SoundThroughCommit DEF IInv, TypeOK, DeleteRaffle
<1>4. ASSUME NEW r \in Requests, NEW e \in Raffles, NEW runs \in Runs, ReadEvent(r, e, runs)
      PROVE  Sound'
  <2> DEFINE new == [at |-> "event", row |-> EventRow(e), runs |-> runs]
  <2>1. new \in Request /\ SoundRequest(new)
    BY DEF IInv, TypeOK, EventRow, Row, Request, SoundRequest
  <2> QED
    BY <1>4, <2>1, SoundThroughRequest DEF ReadEvent
<1>5. ASSUME NEW r \in Requests, ReadGuests(r) PROVE Sound'
  <2> DEFINE row == request[r].row
             read == IF row.event \in live THEN version[row.event] ELSE Gone
             new == [at |-> "guests", row |-> row, runs |-> request[r].runs, roster |-> read]
  <2>1. row \in Row /\ request[r].runs \in Runs
    BY <1>5, RequestFields DEF IInv, ReadGuests
  <2>2. row.version <= version[row.event]
    BY <1>5 DEF IInv, Sound, SoundRequest, ReadGuests
  <2>3. read \in Rosters /\ ReadSince(read, row.event, row.version)
    BY <2>1, <2>2 DEF IInv, TypeOK, Row, Rosters, ReadSince
  <2>4. new \in Request /\ SoundRequest(new)
    BY <2>1, <2>2, <2>3 DEF Request, SoundRequest
  <2> HIDE DEF read
  <2> QED
    BY <1>5, <2>2, <2>3, <2>4, SoundThroughRequest DEF ReadGuests, read
<1>6. ASSUME NEW r \in Requests, Hit(r) PROVE Sound'
  <2> DEFINE row == request[r].row
             key == cacheKey(row, request[r].runs)
             new == [at |-> "done", row |-> row, runs |-> request[r].runs, odds |-> cache[key]]
  <2>1. row \in Row /\ request[r].runs \in Runs
    BY <1>6, RequestFields DEF IInv, Hit
  <2>2. row.version <= version[row.event]
    BY <1>6 DEF IInv, Sound, SoundRequest, Hit
  <2>3. cache[key] \in Odds /\ About(cache[key], key)
    BY <1>6 DEF IInv, TypeOK, Sound, SoundRequest, Hit
  <2>4. new \in Request /\ SoundRequest(new)
    BY <2>1, <2>2, <2>3 DEF Request, SoundRequest
  <2> HIDE DEF key
  <2> QED
    BY <1>6, <2>2, <2>3, <2>4, SoundThroughRequest DEF Hit, Answer, key
<1>7. ASSUME NEW r \in Requests, Miss(r) PROVE Sound'
  <2> DEFINE new == [request[r] EXCEPT !.at = "computing"]
  <2>1. request[r] \in [at : {"guests", "computing"}, row : Row, runs : Runs, roster : Rosters]
    BY <1>7 DEF IInv, TypeOK, Request, Miss
  <2>2. /\ new \in Request /\ new.at = "computing" /\ new.row = request[r].row
        /\ new.roster = request[r].roster
    BY <2>1 DEF Request
  <2>3. /\ request[r].row.version <= version[request[r].row.event]
        /\ ReadSince(request[r].roster, request[r].row.event, request[r].row.version)
    BY <1>7 DEF IInv, Sound, SoundRequest, Miss
  <2>4. request' = [request EXCEPT ![r] = new]
    BY <1>7 DEF Miss
  <2>5. SoundRequest(new)
    BY <2>2, <2>3 DEF SoundRequest
  <2> HIDE DEF new
  <2> QED
    BY <1>7, <2>2, <2>4, <2>5, SoundThroughRequest DEF Miss
<1>8. ASSUME NEW r \in Requests, Insert(r) PROVE Sound'
  <2>1. PICK q \in Request : q = request[r]
    BY DEF IInv, TypeOK
  <2>2. PICK key : key = cacheKey(q.row, q.runs)
    OBVIOUS
  <2>3. PICK odds : odds = [event  |-> q.row.event, roster |-> q.roster,
                            prizes |-> q.row.prizes, seed |-> key]
    OBVIOUS
  <2>4. PICK new : new = [at |-> "done", row |-> q.row, runs |-> q.runs, odds |-> odds]
    OBVIOUS
  <2>5. /\ q.row.version <= version[q.row.event]
        /\ ReadSince(q.roster, q.row.event, q.row.version)
    BY <1>8, <2>1 DEF IInv, Sound, SoundRequest, Insert
  <2>6. About(odds, key) /\ key.version <= version[key.event]
    BY <2>2, <2>3, <2>5 DEF About, cacheKey
  <2>7. live' = live /\ version' = version
    BY <1>8 DEF Insert, database
  <2>8. About(odds, key)'
    BY <2>6, <2>7 DEF About, ReadSince
  <2>9. \A k \in DOMAIN cache' :
           (cache'[k] = odds /\ k = key) \/ (k \in DOMAIN cache /\ cache'[k] = cache[k])
    BY <1>8, <2>1, <2>2, <2>3 DEF Insert
  <2>10. ASSUME NEW k \in DOMAIN cache'
         PROVE  (k.version <= version[k.event] /\ About(cache[k], k))'
    <3>1. CASE cache'[k] = odds /\ k = key
      BY <2>6, <2>7, <2>8, <3>1 DEF About, ReadSince
    <3>2. CASE k \in DOMAIN cache /\ cache'[k] = cache[k]
      BY <2>7, <3>2 DEF IInv, Sound, About, ReadSince
    <3> QED
      BY <2>9, <3>1, <3>2
  <2>11. request' = [request EXCEPT ![r] = new]
    BY <1>8, <2>1, <2>2, <2>3, <2>4 DEF Insert, Answer
  <2>12. SoundRequest(new)'
    BY <2>2, <2>4, <2>5, <2>7, <2>8 DEF SoundRequest, cacheKey
  <2>13. ASSUME NEW s \in Requests PROVE SoundRequest(request[s])'
    <3>1. CASE s = r
      BY <2>11, <2>12, <3>1 DEF IInv, TypeOK
    <3>2. CASE s # r
      BY <2>7, <2>11, <3>2 DEF IInv, TypeOK, Sound, SoundRequest, About, ReadSince, cacheKey
    <3> QED
      BY <3>1, <3>2
  <2> QED
    BY <2>10, <2>13 DEF Sound
<1>9. ASSUME NEW r \in Requests, Finish(r) PROVE Sound'
  <2>1. Idle \in Request /\ SoundRequest(Idle)
    BY DEF Idle, Request, SoundRequest
  <2> QED
    BY <1>9, <2>1, SoundThroughRequest DEF Finish
<1>10. CASE Restart
  BY <1>10 DEF Sound, SoundRequest, Restart, Idle
<1>11. CASE UNCHANGED vars
  BY <1>11 DEF IInv, Sound, SoundRequest, vars, About, ReadSince, cacheKey
<1> QED
  BY <1>1, <1>2, <1>3, <1>4, <1>5, <1>6, <1>7, <1>8, <1>9, <1>10, <1>11 DEF Next

\* The inductive invariant holds of every run.
THEOREM AlwaysSound == Spec => []IInv
<1>1. Init => Sound
  BY DEF Init, Sound, SoundRequest, Idle
<1>2. IInv /\ [Next]_vars /\ TypeOK' => IInv'
  BY Inductive DEF IInv
<1>3. Init /\ TypeOK => IInv
  BY <1>1 DEF IInv
<1> QED
  BY <1>2, <1>3, TypeCorrect, PTL DEF Spec

\* A request that hits the cache is told the odds of the current roster and
\* prize count, however the entry got there.
THEOREM HitsFresh == Spec => []HitsAreFresh
<1>1. IInv => HitsAreFresh
  <2> SUFFICES ASSUME IInv, NEW e \in live, NEW runs \in Runs,
                      cacheKey(EventRow(e), runs) \in DOMAIN cache
               PROVE  LET key == cacheKey(EventRow(e), runs) IN
                      /\ cache[key].event = e
                      /\ cache[key].roster = version[e]
                      /\ cache[key].prizes = prizes[e]
    BY DEF HitsAreFresh
  <2> DEFINE key == cacheKey(EventRow(e), runs)
  <2>1. key.event = e /\ key.version = version[e] /\ key.prizes = prizes[e]
    BY DEF cacheKey, EventRow
  <2>2. About(cache[key], key)
    BY DEF IInv, Sound
  <2>3. version[e] \in Nat
    BY MaxVersionAssumption DEF IInv, TypeOK
  <2> HIDE DEF key
  <2> QED
    BY <2>1, <2>2, <2>3 DEF About, ReadSince, key
<1> QED
  BY <1>1, AlwaysSound, PTL

\* No answer is older than the request that got it.
THEOREM AnswersFresh == Spec => []AnswersAreFresh
<1>1. IInv => AnswersAreFresh
  BY DEF IInv, Sound, SoundRequest, AnswersAreFresh, About, ReadSince, cacheKey
<1> QED
  BY <1>1, AlwaysSound, PTL

\* The cache stays within its limit.
THEOREM StaysBounded == Spec => []Bounded
<1> DEFINE Inv == IsFiniteSet(DOMAIN cache) /\ Bounded
<1>1. Init => Inv
  BY FS_EmptySet, LimitAssumption DEF Init, Bounded
<1>2. Inv /\ [Next]_vars => Inv'
  <2> SUFFICES ASSUME Inv, [Next]_vars PROVE Inv'
    OBVIOUS
  <2>1. ASSUME NEW r \in Requests, Insert(r) PROVE Inv'
    <3> DEFINE key == cacheKey(request[r].row, request[r].runs)
    <3>1. PICK kept : /\ DOMAIN cache' = kept \cup {key}
                      /\ IsFiniteSet(kept) /\ Cardinality(kept) < Limit
      <4>1. CASE IsFull(cache)
        <5>1. DOMAIN cache' = {} \cup {key}
          BY <2>1, <4>1 DEF Insert
        <5> QED
          BY <5>1, FS_EmptySet, LimitAssumption
      <4>2. CASE ~IsFull(cache)
        <5>1. DOMAIN cache' = DOMAIN cache \cup {key}
          BY <2>1, <4>2 DEF Insert
        <5>2. Cardinality(DOMAIN cache) \in Nat
          BY FS_CardinalityType
        <5> QED
          BY <4>2, <5>1, <5>2, LimitAssumption DEF IsFull
      <4> QED
        BY <4>1, <4>2
    <3>2. IsFiniteSet(DOMAIN cache') /\ Cardinality(DOMAIN cache') <= Cardinality(kept) + 1
      <4>1. /\ IsFiniteSet(kept \cup {key})
            /\ Cardinality(kept \cup {key}) \in {Cardinality(kept), Cardinality(kept) + 1}
        BY <3>1, FS_AddElement
      <4>2. Cardinality(kept) \in Nat
        BY <3>1, FS_CardinalityType
      <4> HIDE DEF key
      <4> QED
        BY <3>1, <4>1, <4>2
    <3>3. Cardinality(DOMAIN cache') \in Nat /\ Cardinality(kept) \in Nat
      BY <3>1, <3>2, FS_CardinalityType
    <3> QED
      BY <3>1, <3>2, <3>3, LimitAssumption DEF Bounded
  <2>2. ASSUME UNCHANGED cache PROVE Inv'
    BY <2>2 DEF Bounded
  <2>3. CASE Restart
    BY <2>3, FS_EmptySet, LimitAssumption DEF Restart, Bounded
  <2> QED
    BY <2>1, <2>2, <2>3 DEF Next, vars, EditRoster, SetPrizes, DeleteRaffle, ReadEvent,
       ReadGuests, Hit, Miss, Finish
<1>3. Inv => Bounded
  OBVIOUS
<1> QED
  BY <1>1, <1>2, <1>3, PTL DEF Spec
=============================================================================
