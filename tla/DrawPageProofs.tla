--------------------------- MODULE DrawPageProofs ---------------------------
(***************************************************************************)
(* DrawPage, for any number of prizes and of requests.                     *)
(*                                                                         *)
(* What the page shows is what some answer has said, and an answer is read *)
(* long before it is taken.  So the invariants speak of the requests under *)
(* way as much as of the page: a name that is on its way was torn open     *)
(* when it was read, and stays so; and who waits, waits for one of them.   *)
(***************************************************************************)
EXTENDS DrawPage, FiniteSetTheorems, TLAPS

View == [version : Nat, draw : Nat, faces : [Stubs -> Nat]]
Saves == [kind : {"save"}, at : {"sent", "committed", "found", "ready"},
          seq : Nat \ {0}, view : View]
Steps == [kind : {"prizes"}, at : {"sent", "committed", "found", "ready"}, view : View]
Draws == [kind : {"draw"}, at : {"sent", "ready"}, draw : Nat]
Taps == [kind : {"tap"}, at : {"sent", "ready"}, draw : Nat \ {0}, stub : Stubs]
Live == Saves \cup Steps \cup Draws \cup Taps
Losts == [kind : {"lost"}, at : {"lost"}, request : Live]
Request == {Over} \cup Losts \cup Live

\* What an answer says that is under way has happened: of n draws, the stubs t
\* torn open, and the saves up to s.
Torn(d, i, t) == d # 0 => <<d, i>> \in t
Happened(q, s, n, t) ==
    /\ q.kind = "save" => q.seq <= s
    /\ q.kind \in {"save", "prizes"} =>
          q.view.draw <= n /\ \A i \in Stubs : Torn(q.view.faces[i], i, t)
    /\ q.kind \in {"draw", "tap"} => q.draw <= n
    /\ q.kind = "tap" /\ q.at = "ready" => Torn(q.draw, q.stub, t)
    /\ q.kind = "lost" => (q.request.kind = "tap" => q.request.draw <= n)

Types ==
    /\ requests \in Seq(Request) /\ Len(requests) <= Room
    /\ version \in Nat /\ draws \in Seq(Nat)
    /\ \A d \in DOMAIN draws : draws[d] <= version
    /\ torn \subseteq (DOMAIN draws) \X Stubs
    /\ shown \in Nat /\ shown <= Len(draws) /\ faces \in [Stubs -> Nat]
    /\ stale \in BOOLEAN /\ drawing \in BOOLEAN /\ revealing \subseteq Stubs
    /\ saveSeq \in Nat /\ savedSeq \in Nat
    /\ savedSeq <= saveSeq /\ saveSeq <= Len(requests)
    /\ flush \in Nat

Told ==
    /\ \A i \in Stubs : Torn(faces[i], i, torn)
    /\ \A r \in DOMAIN requests : Happened(requests[r], saveSeq, Len(draws), torn)

\* The requests somebody on the page waits for.
Awaited(r) == r \in DOMAIN requests /\ (requests[r].kind = "draw" \/ r = flush)
IsTap(r, i) == r \in DOMAIN requests /\ requests[r].kind = "tap" /\ requests[r].stub = i

Waits ==
    /\ flush # 0 => flush \in DOMAIN requests /\ requests[flush].kind = "save"
    /\ \A r, q : Awaited(r) /\ Awaited(q) => r = q
    /\ drawing <=> \E r : Awaited(r)
    /\ \A i \in revealing : \E r : IsTap(r, i)

IInv == Types /\ Told /\ Waits

---------------------------------------------------------------------------
\* What a request that is read, or changed, is.
LEMMA RequestShape ==
    ASSUME NEW q \in Request
    PROVE  /\ q = Over <=> q.kind = "over"
           /\ q.kind \in {"over", "lost", "save", "prizes", "draw", "tap"}
           /\ q.kind = "lost" => q \in Losts /\ q.at = "lost"
           /\ q.kind = "save" => q \in Saves
           /\ q.kind = "prizes" => q \in Steps
           /\ q.kind = "draw" => q \in Draws
           /\ q.kind = "tap" => q \in Taps
BY DEF Request, Live, Over, Losts, Saves, Steps, Draws, Taps

\* The invariants as the module states them.
LEMMA IInvImplies == IInv => TypeOK /\ SealedTillTorn /\ NothingStuck
<1> SUFFICES ASSUME IInv PROVE TypeOK /\ SealedTillTorn /\ NothingStuck
  OBVIOUS
<1> USE MaxRequestsAssumption
<1>0. Types /\ Told /\ Waits
  BY DEF IInv
<1>1. \A r \in DOMAIN requests : requests[r] \in Request
  BY <1>0 DEF Types
<1>2. \A r \in InFlight : r \in DOMAIN requests /\ requests[r] \in Request
  BY <1>1 DEF InFlight
<1>3. TypeOK
  <2>1. torn \subseteq (1 .. Len(draws)) \X Stubs
    BY <1>0 DEF Types
  <2>2. \A i \in Stubs : faces[i] \in 0 .. Len(draws)
    <3> SUFFICES ASSUME NEW i \in Stubs PROVE faces[i] \in 0 .. Len(draws)
      OBVIOUS
    <3>1. faces[i] \in Nat /\ Len(draws) \in Nat
      BY <1>0 DEF Types
    <3>2. faces[i] = 0 \/ <<faces[i], i>> \in (1 .. Len(draws)) \X Stubs
      BY <1>0, <2>1 DEF Told, Torn
    <3> QED
      BY <3>1, <3>2
  <2>3. draws \in Seq(0 .. version)
    BY <1>0 DEF Types
  <2>4. \A r \in InFlight : requests[r].kind = "save" => requests[r].seq \in 1 .. saveSeq
    BY <1>0, <1>2, RequestShape DEF Types, Told, Happened, Saves
  <2>5. saveSeq \in 0 .. MaxRequests
    <3>1. Len(requests) \in Nat /\ Room <= MaxRequests
      BY <1>0 DEF Types, Room
    <3> QED
      BY <1>0, <3>1 DEF Types, Room
  <2> QED
    BY <1>0, <2>1, <2>2, <2>3, <2>4, <2>5 DEF TypeOK, Types
<1>4. SealedTillTorn
  BY <1>0 DEF SealedTillTorn, Told, Torn
<1>5. NothingStuck
  <2> DEFINE D == {r \in InFlight : requests[r].kind = "draw" \/ r = flush}
  <2>1. \A r : r \in D <=> Awaited(r)
    <3>1. 0 \notin DOMAIN requests
      BY <1>0 DEF Types
    <3> QED
      BY <1>0, <1>1, <3>1, RequestShape DEF InFlight, Awaited, Waits
  <2>2. ASSUME drawing PROVE Cardinality(D) = 1
    <3>1. PICK r : Awaited(r)
      BY <1>0, <2>2 DEF Waits
    <3>2. D = {r}
      BY <1>0, <2>1, <3>1 DEF Waits
    <3> QED
      BY <3>2, FS_Singleton
  <2>3. ASSUME ~drawing PROVE Cardinality(D) = 0
    <3>1. D = {}
      BY <1>0, <2>1, <2>3 DEF Waits
    <3> QED
      BY <3>1, FS_EmptySet
  <2>4. ASSUME NEW i \in revealing
        PROVE  \E r \in InFlight : requests[r].kind = "tap" /\ requests[r].stub = i
    BY <1>0, <1>1, RequestShape DEF Waits, IsTap, InFlight
  <2> HIDE DEF D
  <2>5. Cardinality(D) = IF drawing THEN 1 ELSE 0
    BY <2>2, <2>3
  <2> QED
    BY <2>4, <2>5 DEF NothingStuck, D
<1> QED
  BY <1>3, <1>4, <1>5

LEMMA InitIInv == Init => IInv
<1> SUFFICES ASSUME Init PROVE IInv
  OBVIOUS
<1>1. Types
  <2>1. requests \in Seq(Request) /\ Len(requests) = 0
    BY DEF Init
  <2>2. draws \in Seq(Nat) /\ Len(draws) = 0 /\ DOMAIN draws = {}
    BY DEF Init
  <2>3. torn = {} /\ faces \in [Stubs -> Nat] /\ revealing \subseteq Stubs
    BY DEF Init
  <2>4. /\ version = 0 /\ shown = 0 /\ saveSeq = 0 /\ savedSeq = 0
        /\ ~stale /\ stale \in BOOLEAN /\ ~drawing /\ drawing \in BOOLEAN /\ flush = 0
    BY DEF Init
  <2> QED
    BY <2>1, <2>2, <2>3, <2>4, MaxRequestsAssumption DEF Types, Room
<1>2. Told
  BY DEF Init, Told, Torn
<1>3. Waits
  <2>1. DOMAIN requests = {} /\ revealing = {} /\ ~drawing /\ flush = 0
    BY DEF Init
  <2> QED
    BY <2>1 DEF Waits, Awaited
<1> QED
  BY <1>1, <1>2, <1>3 DEF IInv

---------------------------------------------------------------------------
\* What has happened stays so.
LEMMA HappenedStays ==
    ASSUME NEW q \in Request, NEW s, NEW n, NEW t, NEW s2, NEW n2, NEW t2,
           s \in Nat, n \in Nat, s2 \in Nat, n2 \in Nat,
           s <= s2, n <= n2, t \subseteq t2,
           Happened(q, s, n, t)
    PROVE  Happened(q, s2, n2, t2)
<1>1. q.kind = "save" => q.seq \in Nat /\ q.seq <= s2
  BY RequestShape DEF Happened, Saves
<1>2. q.kind \in {"save", "prizes"} =>
        q.view.draw \in Nat /\ q.view.draw <= n2
          /\ \A i \in Stubs : Torn(q.view.faces[i], i, t2)
  BY RequestShape DEF Happened, Saves, Steps, View, Torn
<1>3. q.kind \in {"draw", "tap"} => q.draw \in Nat /\ q.draw <= n2
  BY RequestShape DEF Happened, Draws, Taps
<1>4. q.kind = "tap" /\ q.at = "ready" => Torn(q.draw, q.stub, t2)
  BY DEF Happened, Torn
<1>5. q.kind = "lost" /\ q.request.kind = "tap" => q.request.draw <= n2
  <2> SUFFICES ASSUME q.kind = "lost", q.request.kind = "tap" PROVE q.request.draw <= n2
    OBVIOUS
  <2>1. q.request \in Live
    BY RequestShape DEF Losts
  <2>2. q.request \in Taps
    BY <2>1 DEF Live, Saves, Steps, Draws, Taps
  <2>3. q.request.draw \in Nat /\ q.request.draw <= n
    BY <2>2 DEF Happened, Taps
  <2> QED
    BY <2>3
<1> QED
  BY <1>1, <1>2, <1>3, <1>4, <1>5 DEF Happened

\* Nothing is undone on the server.
Onwards ==
    /\ version' \in Nat /\ version <= version'
    /\ draws' \in Seq(Nat) /\ Len(draws) <= Len(draws')
    /\ \A d \in DOMAIN draws' : draws'[d] <= version'
    /\ torn \subseteq torn' /\ torn' \subseteq (DOMAIN draws') \X Stubs

\* One request becomes another; it keeps its kind or is over.
Becomes(r, q) ==
    /\ requests' = [requests EXCEPT ![r] = q]
    /\ q \in Request
    /\ Happened(q, saveSeq', Len(draws'), torn')

LEMMA ToldStays ==
    ASSUME Types, Told, Onwards, saveSeq' \in Nat, saveSeq <= saveSeq',
           NEW x \in DOMAIN requests
    PROVE  Happened(requests[x], saveSeq', Len(draws'), torn')
<1>1. requests[x] \in Request /\ Happened(requests[x], saveSeq, Len(draws), torn)
  BY DEF Types, Told
<1>2. saveSeq \in Nat /\ Len(draws) \in Nat /\ Len(draws') \in Nat
  BY DEF Types, Onwards
<1> QED
  BY <1>1, <1>2, HappenedStays DEF Onwards

LEMMA OneBecomes ==
    ASSUME Types, Told, Onwards, saveSeq' = saveSeq,
           NEW r \in DOMAIN requests, NEW q, Becomes(r, q)
    PROVE  /\ requests' \in Seq(Request) /\ Len(requests') = Len(requests)
           /\ DOMAIN requests' = DOMAIN requests
           /\ requests'[r] = q
           /\ \A x \in DOMAIN requests \ {r} : requests'[x] = requests[x]
           /\ \A x \in DOMAIN requests' :
                 Happened(requests'[x], saveSeq', Len(draws'), torn')
<1>1. /\ requests' \in Seq(Request) /\ Len(requests') = Len(requests)
      /\ DOMAIN requests' = DOMAIN requests
      /\ requests'[r] = q
      /\ \A x \in DOMAIN requests \ {r} : requests'[x] = requests[x]
  BY DEF Types, Becomes
<1>2. ASSUME NEW x \in DOMAIN requests'
      PROVE  Happened(requests'[x], saveSeq', Len(draws'), torn')
  <2>1. CASE x = r
    BY <1>1, <2>1 DEF Becomes
  <2>2. CASE x # r
    <3>1. x \in DOMAIN requests /\ requests'[x] = requests[x]
      BY <1>1, <1>2, <2>2
    <3>2. saveSeq' \in Nat /\ saveSeq <= saveSeq'
      BY DEF Types
    <3> QED
      BY <3>1, <3>2, ToldStays
  <2> QED
    BY <2>1, <2>2
<1> QED
  BY <1>1, <1>2

---------------------------------------------------------------------------
\* A request that is carried out, or read on: the page does not change.
LEMMA ServerWorks ==
    ASSUME IInv, Onwards, UNCHANGED page,
           NEW r \in DOMAIN requests, NEW q, Becomes(r, q),
           q.kind = requests[r].kind \/ (requests[r].kind = "lost" /\ q.kind = "over"),
           q.kind = "tap" => q.stub = requests[r].stub
    PROVE  IInv'
<1>0. Types /\ Told /\ Waits /\ saveSeq' = saveSeq
  BY DEF IInv, page
<1>1. /\ requests' \in Seq(Request) /\ Len(requests') = Len(requests)
      /\ DOMAIN requests' = DOMAIN requests
      /\ requests'[r] = q
      /\ \A x \in DOMAIN requests \ {r} : requests'[x] = requests[x]
      /\ \A x \in DOMAIN requests' :
            Happened(requests'[x], saveSeq', Len(draws'), torn')
  BY <1>0, OneBecomes
<1>2. Types'
  <2>1. shown' \in Nat /\ shown' <= Len(draws')
    <3>1. Len(draws) \in Nat /\ Len(draws') \in Nat
      BY <1>0 DEF Types, Onwards
    <3> QED
      BY <1>0, <3>1 DEF Types, Onwards, page
  <2> QED
    BY <1>0, <1>1, <2>1 DEF Types, Onwards, page, Room
<1>3. Told'
  <2>1. \A i \in Stubs : Torn(faces'[i], i, torn')
    BY <1>0 DEF Told, Torn, Onwards, page
  <2> QED
    BY <1>1, <2>1 DEF Told
<1>4. Waits'
  <2>1. \A x : Awaited(x)' <=> Awaited(x)
    BY <1>1 DEF Awaited, page
  <2>2. \A x, i : IsTap(x, i)' <=> IsTap(x, i)
    <3> SUFFICES ASSUME NEW x, NEW i PROVE IsTap(x, i)' <=> IsTap(x, i)
      OBVIOUS
    <3> QED
      BY <1>1 DEF IsTap
  <2>3. flush' # 0 => flush' \in DOMAIN requests' /\ requests'[flush'].kind = "save"
    BY <1>0, <1>1 DEF Waits, page
  <2> QED
    BY <1>0, <2>1, <2>2, <2>3 DEF Waits, page
<1> QED
  BY <1>2, <1>3, <1>4 DEF IInv

\* What settling a request leaves of the requests.
LEMMA SettleDoes ==
    ASSUME requests \in Seq(Request), NEW r \in DOMAIN requests,
           NEW end \in Request, NEW missed, Settle(r, end, missed)
    PROVE  /\ requests' \in Seq(Request) /\ r \in DOMAIN requests'
           /\ requests'[r] = end
           /\ \A x \in DOMAIN requests \ {r} : requests'[x] = requests[x]
           /\ \/ /\ flush # r /\ flush' = flush
                 /\ Len(requests') = Len(requests) /\ DOMAIN requests' = DOMAIN requests
              \/ /\ flush = r /\ flush' = 0
                 /\ Len(requests') = Len(requests) + 1
                 /\ DOMAIN requests' = DOMAIN requests \cup {Len(requests) + 1}
                 /\ Len(requests) + 1 \notin DOMAIN requests
                 /\ requests'[Len(requests) + 1] = DrawRequest
<1> DEFINE left == [requests EXCEPT ![r] = end]
<1>0. DrawRequest \in Request
  BY DEF DrawRequest, Request, Live, Draws
<1>1. /\ left \in Seq(Request) /\ Len(left) = Len(requests)
      /\ DOMAIN left = DOMAIN requests /\ DOMAIN requests = 1 .. Len(requests)
      /\ left[r] = end /\ \A x \in DOMAIN requests \ {r} : left[x] = requests[x]
      /\ Len(requests) \in Nat
  OBVIOUS
<1>2. \/ flush # r /\ requests' = left /\ flush' = flush
      \/ flush = r /\ requests' = Append(left, DrawRequest) /\ flush' = 0
  BY DEF Settle
<1> HIDE DEF left
<1>3. CASE flush # r /\ requests' = left /\ flush' = flush
  BY <1>1, <1>3
<1>4. CASE flush = r /\ requests' = Append(left, DrawRequest) /\ flush' = 0
  <2>1. /\ requests' \in Seq(Request) /\ Len(requests') = Len(requests) + 1
        /\ requests'[Len(requests) + 1] = DrawRequest
        /\ \A x \in 1 .. Len(requests) : requests'[x] = left[x]
    BY <1>0, <1>1, <1>4
  <2>2. DOMAIN requests' = 1 .. (Len(requests) + 1)
    BY <2>1
  <2>3. DOMAIN requests' = DOMAIN requests \cup {Len(requests) + 1}
        /\ Len(requests) + 1 \notin DOMAIN requests
    BY <1>1, <2>2
  <2> QED
    BY <1>1, <1>4, <2>1, <2>3
<1> QED
  BY <1>2, <1>3, <1>4

\* A request that is over for the page, whatever its answer has done there; the
\* draw may follow that has waited for it.
LEMMA RequestEnds ==
    ASSUME IInv, UNCHANGED server, saveSeq' = saveSeq,
           NEW r \in InFlight, NEW end \in Request, NEW missed, Settle(r, end, missed),
           end.kind \in {"over", "lost"}, Happened(end, saveSeq, Len(draws), torn),
           shown' \in Nat, shown' <= Len(draws), faces' \in [Stubs -> Nat],
           \A i \in Stubs : Torn(faces'[i], i, torn),
           stale' \in BOOLEAN, savedSeq' \in Nat, savedSeq' <= saveSeq,
           drawing' = (drawing /\ requests[r].kind # "draw"),
           revealing' \subseteq revealing,
           requests[r].kind = "tap" => requests[r].stub \notin revealing'
    PROVE  IInv'
<1> DEFINE n == Len(requests) + 1
<1>0. Types /\ Told /\ Waits /\ r \in DOMAIN requests
  BY DEF IInv, InFlight
<1>1. /\ requests' \in Seq(Request) /\ r \in DOMAIN requests' /\ requests'[r] = end
      /\ \A x \in DOMAIN requests \ {r} : requests'[x] = requests[x]
      /\ \/ /\ flush # r /\ flush' = flush
            /\ Len(requests') = Len(requests) /\ DOMAIN requests' = DOMAIN requests
         \/ /\ flush = r /\ flush' = 0
            /\ Len(requests') = Len(requests) + 1
            /\ DOMAIN requests' = DOMAIN requests \cup {n} /\ n \notin DOMAIN requests
            /\ requests'[n] = DrawRequest
  BY <1>0, SettleDoes DEF Types
<1>2. DrawRequest.kind = "draw" /\ DrawRequest.draw = 0
  BY DEF DrawRequest
<1>3. Types'
  <2>1. Len(requests') <= Room'
    <3>1. 0 \notin DOMAIN requests /\ Len(requests) \in Nat /\ Len(requests) <= Room
      BY <1>0 DEF Types
    <3> QED
      BY <1>0, <1>1, <3>1, MaxRequestsAssumption DEF Room
  <2>2. saveSeq' <= Len(requests') /\ flush' \in Nat
    BY <1>0, <1>1 DEF Types
  <2>3. savedSeq' <= saveSeq' /\ saveSeq' \in Nat
    BY <1>0 DEF Types
  <2>4. drawing' \in BOOLEAN /\ revealing' \subseteq Stubs
    BY <1>0 DEF Types
  <2> QED
    BY <1>0, <1>1, <2>1, <2>2, <2>3, <2>4 DEF Types, server
<1> HIDE DEF n
<1>4. Told'
  <2>1. ASSUME NEW x \in DOMAIN requests'
        PROVE  Happened(requests'[x], saveSeq, Len(draws), torn)
    <3>1. CASE x = r
      BY <1>1, <3>1
    <3>2. CASE x \in DOMAIN requests \ {r}
      BY <1>0, <1>1, <3>2 DEF Told
    <3>3. CASE x = n /\ requests'[n] = DrawRequest
      <4>1. Len(draws) \in Nat
        BY <1>0 DEF Types
      <4> QED
        BY <1>2, <3>3, <4>1 DEF Happened
    <3> QED
      BY <1>1, <3>1, <3>2, <3>3
  <2> QED
    BY <2>1 DEF Told, server
<1>5. Waits'
  <2>1. \A x, i : IsTap(x, i)' <=> IsTap(x, i) /\ x # r
    <3> SUFFICES ASSUME NEW x, NEW i PROVE IsTap(x, i)' <=> IsTap(x, i) /\ x # r
      OBVIOUS
    <3> QED
      BY <1>1, <1>2 DEF IsTap
  <2>2. ASSUME NEW i \in revealing' PROVE \E x : IsTap(x, i)'
    <3>1. PICK x : IsTap(x, i)
      BY <1>0, <2>2 DEF Waits
    <3>2. x # r
      BY <3>1, <2>2 DEF IsTap
    <3> QED
      BY <2>1, <3>1, <3>2
  <2>3. CASE flush # r /\ flush' = flush /\ DOMAIN requests' = DOMAIN requests
    <3>1. \A x : Awaited(x)' <=> Awaited(x) /\ x # r
      BY <1>1, <2>3 DEF Awaited
    <3>2. Awaited(r) <=> requests[r].kind = "draw"
      BY <1>0, <2>3 DEF Awaited
    <3>3. drawing' <=> \E x : Awaited(x)'
      BY <1>0, <3>1, <3>2 DEF Waits
    <3>4. flush' # 0 => flush' \in DOMAIN requests' /\ requests'[flush'].kind = "save"
      BY <1>0, <1>1, <2>3 DEF Waits
    <3>5. \A x, y : Awaited(x)' /\ Awaited(y)' => x = y
      BY <1>0, <3>1 DEF Waits
    <3> QED
      BY <2>2, <3>3, <3>4, <3>5 DEF Waits
  <2>4. CASE /\ flush = r /\ flush' = 0
             /\ DOMAIN requests' = DOMAIN requests \cup {n} /\ n \notin DOMAIN requests
             /\ requests'[n] = DrawRequest
    <3>0. 0 \notin DOMAIN requests'
      BY <1>1
    <3>1. Awaited(r)
      BY <1>0, <2>4 DEF Awaited
    <3>2. requests[r].kind = "save" /\ drawing
      <4>1. r # 0
        BY <1>0 DEF Types
      <4> QED
        BY <1>0, <2>4, <3>1, <4>1 DEF Waits
    <3>3. \A x \in DOMAIN requests \ {r} : requests[x].kind # "draw"
      <4>1. \A x \in DOMAIN requests : requests[x].kind = "draw" => Awaited(x)
        BY DEF Awaited
      <4> QED
        BY <1>0, <3>1, <4>1 DEF Waits
    <3>4. \A x : Awaited(x)' <=> x = n
      BY <1>1, <1>2, <2>4, <3>0, <3>3 DEF Awaited
    <3>5. drawing'
      BY <3>2
    <3> QED
      BY <2>2, <2>4, <3>4, <3>5 DEF Waits
  <2> QED
    BY <1>1, <2>3, <2>4
<1> QED
  BY <1>3, <1>4, <1>5 DEF IInv

\* A request that is sent, perhaps as the one the draw button waits for.
LEMMA RequestStarts ==
    ASSUME IInv, UNCHANGED <<server, shown, faces, stale, savedSeq>>,
           NEW q \in Request, Send(q),
           saveSeq' \in {saveSeq, saveSeq + 1},
           Happened(q, saveSeq', Len(draws), torn),
           q.kind = "draw" => ~drawing,
           \/ flush' = flush
           \/ /\ flush' = Len(requests) + 1 /\ Len(requests) + 1 < Room
              /\ q.kind = "save" /\ ~drawing,
           drawing' = (drawing \/ q.kind = "draw" \/ flush' # flush),
           \A i \in revealing' \ revealing : q.kind = "tap" /\ q.stub = i,
           revealing' \subseteq Stubs
    PROVE  IInv'
<1>0. Types /\ Told /\ Waits
  BY DEF IInv
<1>a. /\ saveSeq \in Nat /\ saveSeq' \in Nat /\ saveSeq <= saveSeq'
      /\ Len(requests) \in Nat /\ flush \in Nat
  BY <1>0 DEF Types
<1>b. Onwards
  BY <1>0 DEF Types, Onwards, server
<1>1. /\ requests' \in Seq(Request) /\ Len(requests') = Len(requests) + 1
      /\ DOMAIN requests' = DOMAIN requests \cup {Len(requests) + 1}
      /\ Len(requests) + 1 \notin DOMAIN requests
      /\ requests'[Len(requests) + 1] = q
      /\ \A x \in DOMAIN requests : requests'[x] = requests[x]
      /\ Len(requests) < Room
  BY <1>0 DEF Types, Send
<1>c. ~drawing => flush = 0 /\ \A x : ~Awaited(x)
  BY <1>0 DEF Waits, Awaited
<1>2. Types'
  <2>1. Len(requests') <= Room'
    <3>1. Room \in Int
      BY MaxRequestsAssumption DEF Room
    <3>2. CASE flush' = flush
      BY <1>1, <1>a, <3>1, <3>2 DEF Room
    <3>3. CASE flush' = Len(requests) + 1 /\ Len(requests) + 1 < Room /\ ~drawing
      BY <1>1, <1>a, <1>c, <3>3, MaxRequestsAssumption DEF Room
    <3> QED
      BY <3>2, <3>3
  <2>2. flush' \in Nat /\ saveSeq' <= Len(requests') /\ savedSeq' <= saveSeq'
    BY <1>0, <1>1, <1>a DEF Types
  <2>3. drawing' \in BOOLEAN
    BY <1>0 DEF Types
  <2> QED
    BY <1>0, <1>1, <1>a, <2>1, <2>2, <2>3 DEF Types, server
<1>3. Told'
  <2>1. ASSUME NEW x \in DOMAIN requests'
        PROVE  Happened(requests'[x], saveSeq', Len(draws'), torn')
    <3>1. CASE x \in DOMAIN requests
      BY <1>0, <1>1, <1>a, <1>b, <3>1, ToldStays
    <3>2. CASE x = Len(requests) + 1
      BY <1>1, <3>2 DEF server
    <3> QED
      BY <1>1, <3>1, <3>2
  <2> QED
    BY <1>0, <2>1 DEF Told, server
<1>4. Waits'
  <2> DEFINE n == Len(requests) + 1
  <2>0. n # 0 /\ 0 \notin DOMAIN requests
    BY <1>0, <1>a DEF Types
  <2>1. ASSUME NEW x, NEW i, IsTap(x, i) PROVE IsTap(x, i)'
    BY <1>1, <2>1 DEF IsTap
  <2>2. ASSUME NEW i \in revealing' PROVE \E x : IsTap(x, i)'
    <3>1. CASE i \in revealing
      BY <1>0, <2>1, <3>1 DEF Waits
    <3>2. CASE i \notin revealing
      <4>1. q.kind = "tap" /\ q.stub = i
        BY <2>2, <3>2
      <4>2. PICK x : x = n
        OBVIOUS
      <4>3. IsTap(x, i)'
        BY <1>1, <4>1, <4>2 DEF IsTap
      <4> QED
        BY <4>3
    <3> QED
      BY <3>1, <3>2
  <2>a. /\ DOMAIN requests' = DOMAIN requests \cup {n} /\ n \notin DOMAIN requests
        /\ requests'[n] = q
        /\ \A x \in DOMAIN requests : requests'[x] = requests[x]
    BY <1>1
  <2>b. \/ flush' = flush
        \/ flush' = n /\ q.kind = "save" /\ ~drawing
    OBVIOUS
  <2> HIDE DEF n
  <2>3. CASE flush' = flush
    <3>1. flush # n
      BY <1>0, <2>0, <2>a DEF Waits
    <3>2. \A x : Awaited(x)' <=> Awaited(x) \/ (x = n /\ q.kind = "draw")
      BY <2>3, <2>a, <3>1 DEF Awaited
    <3>3. drawing' <=> \E x : Awaited(x)'
      BY <1>0, <2>3, <3>2 DEF Waits
    <3>4. \A x, y : Awaited(x)' /\ Awaited(y)' => x = y
      BY <1>0, <1>c, <3>2 DEF Waits
    <3>5. flush' # 0 => flush' \in DOMAIN requests' /\ requests'[flush'].kind = "save"
      BY <1>0, <2>3, <2>a DEF Waits
    <3> QED
      BY <2>2, <3>3, <3>4, <3>5 DEF Waits
  <2>4. CASE flush' = n /\ q.kind = "save" /\ ~drawing
    <3>1. \A x : ~Awaited(x) /\ flush = 0
      BY <1>c, <2>4
    <3>2. \A x : Awaited(x)' <=> x = n
      BY <2>4, <2>a, <3>1 DEF Awaited
    <3>3. drawing'
      BY <2>0, <2>4, <3>1
    <3> QED
      BY <2>2, <2>4, <2>a, <3>2, <3>3 DEF Waits
  <2> QED
    BY <2>3, <2>4, <2>b
<1> QED
  BY <1>2, <1>3, <1>4 DEF IInv

---------------------------------------------------------------------------
LEMMA RequestsMade ==
    ASSUME Types
    PROVE  /\ SaveRequest \in Request /\ SaveRequest.kind = "save" /\ SaveRequest.at = "sent"
           /\ SaveRequest.seq = saveSeq + 1
           /\ Happened(SaveRequest, saveSeq + 1, Len(draws), torn)
           /\ DrawRequest \in Request /\ DrawRequest.kind = "draw" /\ DrawRequest.at = "sent"
           /\ Happened(DrawRequest, saveSeq, Len(draws), torn)
<1>1. NoView \in View /\ NoView.draw = 0 /\ \A i \in Stubs : NoView.faces[i] = 0
  BY DEF NoView, View
<1>2. saveSeq \in Nat /\ Len(draws) \in Nat
  BY DEF Types
<1>3. SaveRequest \in Saves
  BY <1>1, <1>2 DEF SaveRequest, NextSeq, Saves
<1>4. SaveRequest.kind = "save" /\ SaveRequest.at = "sent" /\ SaveRequest.seq = saveSeq + 1
      /\ SaveRequest.view = NoView
  BY DEF SaveRequest, NextSeq
<1>5. DrawRequest \in Draws /\ DrawRequest.kind = "draw" /\ DrawRequest.at = "sent"
      /\ DrawRequest.draw = 0
  BY DEF DrawRequest, Draws
<1>6. Happened(SaveRequest, saveSeq + 1, Len(draws), torn)
  BY <1>1, <1>2, <1>4 DEF Happened, Torn
<1>7. Happened(DrawRequest, saveSeq, Len(draws), torn)
  BY <1>2, <1>5 DEF Happened
<1> QED
  BY <1>3, <1>4, <1>5, <1>6, <1>7 DEF Request, Live

LEMMA SendsKeep ==
    ASSUME IInv, SaveRoster \/ StepPrizes \/ PressDraw \/ \E i \in Stubs : TapStub(i)
    PROVE  IInv'
<1>0. Types /\ Told /\ Len(draws) \in Nat /\ drawing \in BOOLEAN /\ revealing \subseteq Stubs
      /\ requests \in Seq(Request) /\ flush \in Nat
  BY DEF IInv, Types
<1>a. NoView \in View /\ NoView.draw = 0 /\ \A i \in Stubs : NoView.faces[i] = 0
  BY DEF NoView, View
<1>1. CASE SaveRoster
  <2>1. /\ Send(SaveRequest) /\ saveSeq' = saveSeq + 1
        /\ UNCHANGED <<server, shown, faces, stale, savedSeq, drawing, revealing, flush>>
    BY <1>1 DEF SaveRoster
  <2>2. drawing' = (drawing \/ SaveRequest.kind = "draw" \/ flush' # flush)
    BY <1>0, <2>1, RequestsMade
  <2> QED
    BY <1>0, <2>1, <2>2, RequestsMade, RequestStarts
<1>2. CASE StepPrizes
  <2> DEFINE q == [kind |-> "prizes", at |-> "sent", view |-> NoView]
  <2>1. q \in Request
    BY <1>a DEF Request, Live, Steps
  <2>2. Happened(q, saveSeq, Len(draws), torn)
    BY <1>0, <1>a DEF Happened, Torn
  <2>3. Send(q) /\ saveSeq' = saveSeq /\ drawing' = drawing /\ revealing' = revealing
        /\ flush' = flush /\ UNCHANGED <<server, shown, faces, stale, savedSeq>>
    BY <1>2 DEF StepPrizes, page
  <2>4. q.kind = "prizes" /\ drawing' = (drawing \/ q.kind = "draw" \/ flush' # flush)
    BY <1>0, <2>3
  <2> HIDE DEF q
  <2> QED
    BY <1>0, <2>1, <2>2, <2>3, <2>4, RequestStarts
<1>3. CASE PressDraw
  <2>1. ~drawing /\ drawing' = TRUE /\ revealing' = revealing
        /\ UNCHANGED <<server, shown, faces, stale, savedSeq>>
    BY <1>3 DEF PressDraw
  <2>2. CASE Send(DrawRequest) /\ UNCHANGED <<flush, saveSeq>>
    <3>1. drawing' = (drawing \/ DrawRequest.kind = "draw" \/ flush' # flush)
      BY <1>0, <2>1, RequestsMade
    <3> QED
      BY <1>0, <2>1, <2>2, <3>1, RequestsMade, RequestStarts
  <2>3. CASE /\ Len(requests) + 1 < Room /\ Send(SaveRequest)
             /\ saveSeq' = saveSeq + 1 /\ flush' = Len(requests')
    <3>1. flush' = Len(requests) + 1
      BY <1>0, <2>3 DEF Send
    <3>2. flush = 0
      BY <2>1 DEF IInv, Waits, Awaited
    <3>3. flush' # flush
      BY <1>0, <3>1, <3>2
    <3>4. drawing' = (drawing \/ SaveRequest.kind = "draw" \/ flush' # flush)
      BY <2>1, <3>3
    <3> QED
      BY <1>0, <2>1, <2>3, <3>1, <3>4, RequestsMade, RequestStarts
  <2> QED
    BY <1>3, <2>2, <2>3 DEF PressDraw
<1>4. ASSUME NEW i \in Stubs, TapStub(i) PROVE IInv'
  <2> DEFINE q == [kind |-> "tap", at |-> "sent", draw |-> shown, stub |-> i]
  <2>1. q \in Request
    BY <1>0, <1>4 DEF Request, Live, Taps, TapStub, Types
  <2>2. Happened(q, saveSeq, Len(draws), torn)
    BY <1>0 DEF Happened, Types
  <2>3. Send(q) /\ saveSeq' = saveSeq /\ drawing' = drawing /\ flush' = flush
        /\ revealing' = revealing \cup {i}
        /\ UNCHANGED <<server, shown, faces, stale, savedSeq>>
    BY <1>4 DEF TapStub
  <2>4. q.kind = "tap" /\ q.stub = i
        /\ drawing' = (drawing \/ q.kind = "draw" \/ flush' # flush)
    BY <1>0, <2>3
  <2> HIDE DEF q
  <2> QED
    BY <1>0, <2>1, <2>2, <2>3, <2>4, RequestStarts
<1> QED
  BY <1>1, <1>2, <1>3, <1>4

\* What the server does for a request, and what it returns.
LEMMA ServerCarriesOut ==
    ASSUME Types, NEW q \in Live, CarryOut(q), Happened(q, saveSeq, Len(draws), torn),
           UNCHANGED page
    PROVE  /\ Onwards
           /\ Returned(q) \in Request /\ Returned(q).kind = q.kind
           /\ q.kind = "tap" => Returned(q).stub = q.stub
           /\ Happened(Returned(q), saveSeq', Len(draws'), torn')
<1>0. /\ Len(draws) \in Nat /\ DOMAIN draws = 1 .. Len(draws) /\ saveSeq' = saveSeq
      /\ q \in Request
  BY DEF Types, page, Request
<1>1. CASE ReplaceRoster(q)
  <2> DEFINE p == [q EXCEPT !.at = "committed", !.view.version = version']
  <2>1. q \in Saves /\ q.kind = "save"
    BY <1>0, <1>1, RequestShape DEF ReplaceRoster
  <2>2. Onwards
    BY <1>0, <1>1 DEF ReplaceRoster, Onwards, Types
  <2>3. p \in Saves /\ p.seq = q.seq /\ p.view.draw = q.view.draw /\ p.view.faces = q.view.faces
    BY <2>1, <2>2 DEF Saves, View, Onwards
  <2>4. Returned(q) = p
    BY <2>1 DEF Returned
  <2>5. p \in Request /\ p.kind = "save"
    BY <2>3 DEF Request, Live, Saves
  <2> HIDE DEF p
  <2>6. Happened(p, saveSeq', Len(draws'), torn')
    BY <1>0, <1>1, <2>1, <2>3, <2>5 DEF Happened, ReplaceRoster
  <2> QED
    BY <2>1, <2>2, <2>4, <2>5, <2>6
<1>2. CASE UpdateEvent(q)
  <2> DEFINE p == [q EXCEPT !.at = "committed", !.view.version = version']
  <2>1. q \in Steps /\ q.kind = "prizes"
    BY <1>0, <1>2, RequestShape DEF UpdateEvent
  <2>2. Onwards
    BY <1>0, <1>2 DEF UpdateEvent, Onwards, Types, server
  <2>3. p \in Steps /\ p.view.draw = q.view.draw /\ p.view.faces = q.view.faces
    BY <2>1, <2>2 DEF Steps, View, Onwards
  <2>4. Returned(q) = p
    BY <2>1 DEF Returned
  <2>5. p \in Request /\ p.kind = "prizes"
    BY <2>3 DEF Request, Live, Steps
  <2> HIDE DEF p
  <2>6. Happened(p, saveSeq', Len(draws'), torn')
    BY <1>0, <1>2, <2>1, <2>3, <2>5 DEF Happened, UpdateEvent, server
  <2> QED
    BY <2>1, <2>2, <2>4, <2>5, <2>6
<1>3. CASE RunDraw(q)
  <2> DEFINE p == [q EXCEPT !.at = "ready", !.draw = Len(draws')]
  <2>1. q \in Draws /\ q.kind = "draw"
    BY <1>0, <1>3, RequestShape DEF RunDraw
  <2>2. Onwards /\ Len(draws') \in Nat
    BY <1>0, <1>3 DEF RunDraw, Onwards, Types
  <2>3. p \in Draws /\ p.draw = Len(draws')
    BY <2>1, <2>2 DEF Draws
  <2>4. Returned(q) = p
    BY <2>1 DEF Returned
  <2>5. p \in Request /\ p.kind = "draw"
    BY <2>3 DEF Request, Live, Draws
  <2> HIDE DEF p
  <2>6. Happened(p, saveSeq', Len(draws'), torn')
    BY <2>2, <2>3, <2>5 DEF Happened
  <2> QED
    BY <2>1, <2>2, <2>4, <2>5, <2>6
<1>4. CASE RevealWinner(q)
  <2> DEFINE p == [q EXCEPT !.at = "ready"]
  <2>1. q \in Taps /\ q.kind = "tap"
    BY <1>0, <1>4, RequestShape DEF RevealWinner
  <2>2. /\ q.draw \in 1 .. Len(draws) /\ q.stub \in Stubs
        /\ torn' = torn \cup {<<q.draw, q.stub>>}
    BY <1>0, <1>4, <2>1 DEF RevealWinner, Happened, Taps
  <2>3. Onwards
    BY <1>0, <1>4, <2>2 DEF RevealWinner, Onwards, Types
  <2>4. Returned(q) = p
    BY <2>1 DEF Returned
  <2>5. p \in Taps /\ p.draw = q.draw /\ p.stub = q.stub
    BY <2>1 DEF Taps
  <2>6. p \in Request /\ p.kind = "tap"
    BY <2>5 DEF Request, Live, Taps
  <2> HIDE DEF p
  <2>7. Happened(p, saveSeq', Len(draws'), torn')
    BY <1>4, <2>2, <2>5, <2>6 DEF Happened, Torn, RevealWinner
  <2> QED
    BY <2>1, <2>3, <2>4, <2>5, <2>6, <2>7
<1> QED
  BY <1>1, <1>2, <1>3, <1>4 DEF CarryOut

LEMMA CommitsKeep ==
    ASSUME IInv, NEW r \in InFlight, Commit(r) PROVE IInv'
<1>1. /\ Types /\ r \in DOMAIN requests /\ requests[r] \in Request
      /\ Happened(requests[r], saveSeq, Len(draws), torn)
  BY DEF IInv, InFlight, Types, Told
<1>2. requests[r] \in Live
  BY <1>1, RequestShape DEF InFlight, Live
<1>3. CarryOut(requests[r]) /\ UNCHANGED page
      /\ requests' = [requests EXCEPT ![r] = Returned(requests[r])]
  BY DEF Commit
<1> PICK q : q = Returned(requests[r])
  OBVIOUS
<1>4. /\ Onwards /\ q \in Request /\ q.kind = requests[r].kind
      /\ requests[r].kind = "tap" => q.stub = requests[r].stub
      /\ Happened(q, saveSeq', Len(draws'), torn')
  BY <1>1, <1>2, <1>3, ServerCarriesOut
<1>5. Becomes(r, q)
  BY <1>3, <1>4 DEF Becomes
<1> QED
  BY <1>1, <1>3, <1>4, <1>5, ServerWorks

\* What is carried out for nobody.
LEMMA LateCommitsKeep ==
    ASSUME IInv, NEW r \in DOMAIN requests, CommitLate(r) PROVE IInv'
<1>1. /\ Types /\ requests[r] \in Request
      /\ Happened(requests[r], saveSeq, Len(draws), torn)
      /\ requests[r].kind = "lost"
  BY DEF IInv, Types, Told, CommitLate
<1>2. CarryOut(requests[r].request) /\ UNCHANGED page
      /\ requests' = [requests EXCEPT ![r] = Over]
  BY DEF CommitLate
<1> PICK q : q = requests[r].request
  OBVIOUS
<1>3. q \in Live /\ (q.kind = "tap" => q.draw <= Len(draws))
  BY <1>1, RequestShape DEF Losts, Happened
<1>4. Onwards
  <2>1. /\ Len(draws) \in Nat /\ DOMAIN draws = 1 .. Len(draws)
        /\ q \in Request
    BY <1>1, <1>3 DEF Types, Request
  <2>2. CASE ReplaceRoster(q)
    BY <1>1, <2>1, <2>2 DEF ReplaceRoster, Onwards, Types
  <2>5. CASE UpdateEvent(q)
    BY <1>1, <2>1, <2>5 DEF UpdateEvent, server, Onwards, Types
  <2>3. CASE RunDraw(q)
    BY <1>1, <2>1, <2>3 DEF RunDraw, Onwards, Types
  <2>4. CASE RevealWinner(q)
    <3>1. q.kind = "tap" /\ torn' = torn \cup {<<q.draw, q.stub>>}
          /\ UNCHANGED <<version, draws>>
      BY <2>4 DEF RevealWinner
    <3>2. q.draw \in 1 .. Len(draws) /\ q.stub \in Stubs
      BY <1>3, <2>1, <3>1, RequestShape DEF Taps
    <3> QED
      BY <1>1, <2>1, <3>1, <3>2 DEF Onwards, Types
  <2> QED
    BY <1>2, <2>2, <2>3, <2>4, <2>5 DEF CarryOut
<1>5. Over \in Request /\ Over.kind = "over"
  BY DEF Request, Over
<1>6. Becomes(r, Over)
  BY <1>2, <1>5 DEF Becomes, Happened
<1> QED
  BY <1>1, <1>2, <1>4, <1>5, <1>6, ServerWorks

LEMMA ReadsKeep ==
    ASSUME IInv, NEW r \in InFlight, LatestDraw(r) \/ winners(r) PROVE IInv'
<1>0. Types /\ Told /\ r \in DOMAIN requests /\ requests[r] \in Request
      /\ Happened(requests[r], saveSeq, Len(draws), torn) /\ Len(draws) \in Nat
  BY DEF IInv, InFlight, Types, Told
<1>a. UNCHANGED <<server, page>>
  BY DEF LatestDraw, winners
<1>b. Onwards
  BY <1>0, <1>a DEF Onwards, Types, server
<1>c. requests[r].kind \in {"save", "prizes"} /\ requests[r] \in Saves \cup Steps
  <2>1. requests[r].at \in {"committed", "found"}
    BY DEF LatestDraw, winners
  <2>2. requests[r].kind \notin {"over", "lost"}
    BY DEF InFlight
  <2> QED
    BY <1>0, <2>1, <2>2, RequestShape DEF Draws, Taps
<1>d. ASSUME NEW q, requests' = [requests EXCEPT ![r] = q],
             q \in Saves \cup Steps, q.kind = requests[r].kind,
             q.kind = "save" => q.seq = requests[r].seq,
             q.view.draw <= Len(draws),
             \A i \in Stubs : Torn(q.view.faces[i], i, torn)
      PROVE  IInv'
  <2>1. Happened(q, saveSeq', Len(draws'), torn')
    BY <1>0, <1>a, <1>c, <1>d DEF Happened, server, page
  <2>2. q \in Request
    BY <1>d DEF Request, Live
  <2> QED
    BY <1>0, <1>a, <1>b, <1>c, <1>d, <2>1, <2>2, ServerWorks DEF Becomes
<1>1. CASE LatestDraw(r)
  <2> DEFINE q == [requests[r] EXCEPT !.at = "found", !.view.draw = Len(draws)]
  <2>1. requests' = [requests EXCEPT ![r] = q]
    BY <1>1 DEF LatestDraw
  <2>2. /\ q \in Saves \cup Steps /\ q.kind = requests[r].kind
        /\ q.kind = "save" => q.seq = requests[r].seq
        /\ q.view.draw = Len(draws) /\ q.view.faces = requests[r].view.faces
    <3>1. CASE requests[r] \in Saves
      BY <1>0, <3>1 DEF Saves, View
    <3>2. CASE requests[r] \in Steps
      BY <1>0, <3>2 DEF Steps, View
    <3> QED
      BY <1>c, <3>1, <3>2
  <2>3. \A i \in Stubs : Torn(q.view.faces[i], i, torn)
    BY <1>0, <1>c, <2>2 DEF Happened
  <2>4. q.view.draw <= Len(draws)
    BY <1>0, <2>2
  <2> HIDE DEF q
  <2> QED
    BY <1>d, <2>1, <2>2, <2>3, <2>4
<1>2. CASE winners(r)
  <2> DEFINE f == [i \in Stubs |-> hidden(requests[r].view.draw, i)]
             q == [requests[r] EXCEPT !.at = "ready", !.view.faces = f]
  <2>1. requests' = [requests EXCEPT ![r] = q]
    BY <1>2 DEF winners
  <2>2. requests[r].view.draw \in Nat
    BY <1>c DEF Saves, Steps, View
  <2>3. f \in [Stubs -> Nat] /\ \A i \in Stubs : Torn(f[i], i, torn)
    BY <2>2 DEF hidden, Torn
  <2> HIDE DEF f
  <2>4. /\ q \in Saves \cup Steps /\ q.kind = requests[r].kind
        /\ q.kind = "save" => q.seq = requests[r].seq
        /\ q.view.draw = requests[r].view.draw /\ q.view.faces = f
    <3>1. CASE requests[r] \in Saves
      BY <2>3, <3>1 DEF Saves, View
    <3>2. CASE requests[r] \in Steps
      BY <2>3, <3>2 DEF Steps, View
    <3> QED
      BY <1>c, <3>1, <3>2
  <2>5. q.view.draw <= Len(draws)
    BY <1>0, <1>c, <2>4 DEF Happened
  <2> HIDE DEF q
  <2> QED
    BY <1>d, <2>1, <2>3, <2>4, <2>5
<1> QED
  BY <1>1, <1>2

LEMMA AnswersKeep ==
    ASSUME IInv, NEW r \in InFlight, Answer(r) PROVE IInv'
<1>0. Types /\ Told /\ Waits /\ r \in DOMAIN requests /\ requests[r] \in Request
      /\ Happened(requests[r], saveSeq, Len(draws), torn)
  BY DEF IInv, InFlight, Types, Told
<1>a. /\ UNCHANGED server /\ Settle(r, Over, FALSE) /\ requests[r].at = "ready"
      /\ Over \in Request /\ Over.kind \in {"over", "lost"}
      /\ Happened(Over, saveSeq, Len(draws), torn)
  BY DEF Answer, Over, Request, Happened
<1>b. /\ shown \in Nat /\ shown <= Len(draws) /\ faces \in [Stubs -> Nat]
      /\ \A i \in Stubs : Torn(faces[i], i, torn)
      /\ stale \in BOOLEAN /\ drawing \in BOOLEAN
      /\ saveSeq \in Nat /\ savedSeq \in Nat /\ savedSeq <= saveSeq
  BY <1>0 DEF Types, Told
\* What applyView puts on the page.
<1>c. ASSUME requests[r] \in Saves \cup Steps, applyView(requests[r].view)
      PROVE  /\ shown' \in Nat /\ shown' <= Len(draws) /\ faces' \in [Stubs -> Nat]
             /\ \A i \in Stubs : Torn(faces'[i], i, torn)
             /\ stale' \in BOOLEAN
  <2>1. requests[r].kind \in {"save", "prizes"} /\ requests[r].view \in View
    BY <1>c DEF Saves, Steps
  <2>2. requests[r].view.draw \in Nat /\ requests[r].view.faces \in [Stubs -> Nat]
    BY <2>1 DEF View
  <2> QED
    BY <1>0, <1>c, <2>1, <2>2 DEF applyView, Stale, Happened
<1>1. CASE SaveAnswered(requests[r])
  <2>1. requests[r] \in Saves /\ requests[r].kind = "save"
        /\ requests[r].seq \in Nat /\ requests[r].seq <= saveSeq
    BY <1>0, <1>1, RequestShape DEF SaveAnswered, Saves, Happened
  <2>2. UNCHANGED <<drawing, revealing, saveSeq>>
    BY <1>1 DEF SaveAnswered
  <2>3. CASE UNCHANGED <<savedSeq, shown, faces, stale>>
    BY <1>0, <1>a, <1>b, <2>1, <2>2, <2>3, RequestEnds
  <2>4. CASE savedSeq' = requests[r].seq /\ applyView(requests[r].view)
    BY <1>0, <1>a, <1>b, <1>c, <2>1, <2>2, <2>4, RequestEnds
  <2> QED
    BY <1>1, <2>3, <2>4 DEF SaveAnswered
<1>2. CASE PrizesAnswered(requests[r])
  <2>1. requests[r] \in Steps /\ requests[r].kind = "prizes"
    BY <1>0, <1>2, RequestShape DEF PrizesAnswered
  <2>2. UNCHANGED <<drawing, revealing, saveSeq, savedSeq>> /\ applyView(requests[r].view)
    BY <1>2 DEF PrizesAnswered
  <2> QED
    BY <1>0, <1>a, <1>b, <1>c, <2>1, <2>2, RequestEnds
<1>3. CASE DrawAnswered(requests[r])
  <2>1. requests[r] \in Draws /\ requests[r].kind = "draw"
    BY <1>0, <1>3, RequestShape DEF DrawAnswered
  <2>2. requests[r].draw \in Nat /\ requests[r].draw <= Len(draws)
    BY <1>0, <2>1 DEF Draws, Happened
  <2>3. /\ shown' = requests[r].draw /\ faces' = [i \in Stubs |-> 0] /\ stale' = FALSE
        /\ drawing' = FALSE /\ revealing' = {}
        /\ UNCHANGED <<saveSeq, savedSeq>>
    BY <1>3 DEF DrawAnswered, FaceDown, AfterDraw
  <2>4. faces' \in [Stubs -> Nat] /\ \A i \in Stubs : Torn(faces'[i], i, torn)
    BY <2>3 DEF Torn
  <2> QED
    BY <1>a, <1>b, <2>1, <2>2, <2>3, <2>4, RequestEnds
<1>4. CASE TapAnswered(requests[r])
  <2>1. requests[r] \in Taps /\ requests[r].kind = "tap"
    BY <1>0, <1>4, RequestShape DEF TapAnswered
  <2>2. requests[r].stub \in Stubs /\ requests[r].draw \in Nat
        /\ Torn(requests[r].draw, requests[r].stub, torn)
    BY <1>0, <1>a, <2>1 DEF Taps, Happened
  <2>3. /\ revealing' = revealing \ {requests[r].stub}
        /\ UNCHANGED <<shown, stale, drawing, saveSeq, savedSeq>>
    BY <1>4 DEF TapAnswered
  <2>4. faces' \in [Stubs -> Nat] /\ \A i \in Stubs : Torn(faces'[i], i, torn)
    BY <1>b, <1>4, <2>2 DEF TapAnswered
  <2> QED
    BY <1>a, <1>b, <2>1, <2>3, <2>4, RequestEnds
<1> QED
  BY <1>1, <1>2, <1>3, <1>4 DEF Answer

LEMMA FailuresKeep ==
    ASSUME IInv, NEW r \in InFlight, Fail(r) PROVE IInv'
<1>0. Types /\ Told /\ r \in DOMAIN requests /\ requests[r] \in Live
      /\ Happened(requests[r], saveSeq, Len(draws), torn)
  <2>1. Types /\ Told /\ r \in DOMAIN requests /\ requests[r] \in Request
    BY DEF IInv, InFlight, Types
  <2>2. requests[r] \in Live
    BY <2>1, RequestShape DEF InFlight, Live
  <2> QED
    BY <2>1, <2>2 DEF Told
<1>1. UNCHANGED <<server, shown, faces, stale, saveSeq, savedSeq>>
  BY DEF Fail
<1>2. /\ drawing' = (drawing /\ requests[r].kind # "draw")
      /\ revealing' \subseteq revealing
      /\ requests[r].kind = "tap" => requests[r].stub \notin revealing'
  BY DEF Fail, Unblock
<1>3. ASSUME NEW end \in Request, NEW missed, Settle(r, end, missed),
             end.kind \in {"over", "lost"}, Happened(end, saveSeq, Len(draws), torn)
      PROVE  IInv'
  BY <1>0, <1>1, <1>2, <1>3, RequestEnds DEF Types, Told
<1>4. Over \in Request /\ Over.kind = "over" /\ Happened(Over, saveSeq, Len(draws), torn)
  BY DEF Over, Request, Happened
<1>5. CASE Settle(r, Over, requests[r].at # "sent")
  BY <1>3, <1>4, <1>5
<1>6. CASE requests[r].at = "sent" /\ Settle(r, Lost(requests[r]), FALSE)
  <2> PICK end : end = Lost(requests[r])
    OBVIOUS
  <2>1. end.kind = "lost" /\ end.request = requests[r] /\ end \in Request
    BY <1>0 DEF Lost, Request, Losts
  <2>2. Happened(end, saveSeq, Len(draws), torn)
    BY <1>0, <2>1 DEF Happened
  <2> QED
    BY <1>3, <1>6, <2>1, <2>2
<1> QED
  BY <1>5, <1>6 DEF Fail

LEMMA StepIInv == IInv /\ [Next]_vars => IInv'
<1> SUFFICES ASSUME IInv, [Next]_vars PROVE IInv'
  OBVIOUS
<1>1. CASE SaveRoster \/ StepPrizes \/ PressDraw \/ \E i \in Stubs : TapStub(i)
  BY <1>1, SendsKeep
<1>2. ASSUME NEW r \in InFlight,
             Commit(r) \/ LatestDraw(r) \/ winners(r) \/ Answer(r) \/ Fail(r)
      PROVE  IInv'
  BY <1>2, CommitsKeep, ReadsKeep, AnswersKeep, FailuresKeep
<1>3. ASSUME NEW r \in DOMAIN requests, CommitLate(r) PROVE IInv'
  BY <1>3, LateCommitsKeep
<1>4. CASE UNCHANGED vars
  BY <1>4 DEF IInv, Types, Told, Waits, Awaited, IsTap, Room, vars, server, page
<1> QED
  BY <1>1, <1>2, <1>3, <1>4 DEF Next

LEMMA AlwaysIInv == Spec => []IInv
BY InitIInv, StepIInv, PTL DEF Spec

---------------------------------------------------------------------------
\* What is on the page when the requests have not got in each other's way.  An
\* answer is right when it is read; what must not happen until it is taken is
\* that a request of another kind moves the server on.

\* Every draw ran on an older roster than v.
Behind(v, dr) == dr = <<>> \/ dr[Len(dr)] < v

\* What requests on their way say of the latest draw, of those in dr, and of the
\* roster, now v; the page has taken the save s.
DrawFits(q, v, dr, s) ==
    /\ q.kind = "save" => q.seq >= s \/ Behind(v, dr)
    /\ q.kind = "save" /\ q.at # "sent" => Behind(q.view.version, dr) /\ q.view.version <= v
    /\ q.kind = "prizes" /\ q.at # "sent" => q.view.version = v
    /\ q.kind \in {"save", "prizes"} /\ q.at \in {"found", "ready"} => q.view.draw = Len(dr)
    /\ q.kind = "draw" /\ q.at = "ready" => q.draw = Len(dr) /\ dr[Len(dr)] = v

Views == {"save", "prizes", "draw"}
OneView ==
    \A r, q \in DOMAIN requests :
        requests[r].kind \in Views /\ requests[q].kind \in Views =>
            requests[r].kind = requests[q].kind

\* The answers that will put right what is not on the page yet.
Drawn(r) == r \in DOMAIN requests /\ requests[r].kind = "draw" /\ requests[r].at = "ready"
Newer(r) == /\ r \in DOMAIN requests /\ requests[r].kind = "save" /\ requests[r].at # "sent"
            /\ requests[r].seq >= savedSeq

DrawRight ==
    ~met.missed /\ ~met.tangled =>
        /\ OneView
        /\ \A r \in DOMAIN requests : DrawFits(requests[r], version, draws, savedSeq)
        /\ (\E r : Drawn(r)) \/ shown = Len(draws)
        /\ (\E r : Drawn(r)) \/ (\E r : Newer(r)) \/ (stale <=> Stale(shown, version))

\* The same for the stubs of the draw s on the page, where t are torn.
Face(d, i, t) == IF <<d, i>> \in t THEN d ELSE 0
FaceFits(q, s, t) ==
    /\ q.kind = "tap" => q.draw = s
    /\ q.kind \in {"save", "prizes"} /\ q.at = "ready" =>
          \A i \in Stubs : q.view.faces[i] = Face(q.view.draw, i, t)
    /\ q.kind = "draw" /\ q.at = "ready" => \A i \in Stubs : <<q.draw, i>> \notin t

OneSide ==
    \A r, q \in DOMAIN requests :
        requests[r].kind \notin {"over", "lost"} /\ requests[q].kind \notin {"over", "lost"} =>
            (requests[r].kind = "tap" <=> requests[q].kind = "tap")
Tears(r, i) == IsTap(r, i) /\ requests[r].at = "ready"

FacesRight ==
    ~met.missed /\ ~met.crossed =>
        /\ OneSide
        /\ \A r \in DOMAIN requests : FaceFits(requests[r], shown, torn)
        /\ \A i \in Stubs : faces[i] = Face(shown, i, torn) \/ \E r : Tears(r, i)

MetOK == met \in [tangled : BOOLEAN, crossed : BOOLEAN, missed : BOOLEAN]

ScreenInv == IInv /\ MetOK /\ DrawRight /\ FacesRight

LEMMA ScreenInvImplies == ScreenInv => ScreenIsCurrent
<1> SUFFICES ASSUME ScreenInv, Quiet, ~met.missed
             PROVE  /\ ~met.tangled => shown = Len(draws) /\ stale = Stale(shown, version)
                    /\ ~met.crossed => \A i \in Stubs : faces[i] = hidden(shown, i)
  BY DEF ScreenIsCurrent, DrawIsCurrent, FacesAreCurrent
<1>1. \A r \in DOMAIN requests : requests[r].kind \in {"over", "lost"}
  BY DEF Quiet, InFlight
<1>2. \A r : ~Drawn(r) /\ ~Newer(r) /\ \A i \in Stubs : ~Tears(r, i)
  BY <1>1 DEF Drawn, Newer, Tears, IsTap
<1>3. ~met.tangled => shown = Len(draws) /\ (stale <=> Stale(shown, version))
  BY <1>2 DEF ScreenInv, DrawRight
<1>4. stale \in BOOLEAN
  BY DEF ScreenInv, IInv, Types
<1>5. ~met.crossed => \A i \in Stubs : faces[i] = hidden(shown, i)
  BY <1>2 DEF ScreenInv, FacesRight, Face, hidden
<1>6. (stale <=> Stale(shown, version)) => stale = Stale(shown, version)
  BY <1>4, Zenon DEF Stale
<1> QED
  BY <1>3, <1>5, <1>6, Zenon

LEMMA InitScreenInv == Init => ScreenInv
<1> SUFFICES ASSUME Init PROVE ScreenInv
  OBVIOUS
<1>1. DOMAIN requests = {} /\ Len(draws) = 0 /\ shown = 0 /\ stale = FALSE
  BY DEF Init
<1>2. DrawRight
  BY <1>1 DEF DrawRight, OneView, Stale
<1>3. FacesRight
  <2>1. torn = {} /\ shown = 0 /\ \A i \in Stubs : faces[i] = 0
    BY DEF Init
  <2> QED
    BY <1>1, <2>1 DEF FacesRight, OneSide, Face
<1>4. MetOK
  BY DEF Init, MetOK
<1> QED
  BY <1>2, <1>3, <1>4, InitIInv DEF ScreenInv

---------------------------------------------------------------------------
\* A request that is sent changes nothing that is shown, and says nothing yet.
LEMMA ScreenSends ==
    ASSUME ScreenInv, UNCHANGED <<server, shown, faces, stale, savedSeq>>,
           NEW q \in Request, Send(q), q.at = "sent",
           q.kind = "save" => q.seq >= savedSeq, q.kind = "tap" => q.draw = shown
    PROVE  MetOK' /\ DrawRight' /\ FacesRight'
<1> DEFINE others == Kinds(InFlight)
           n == Len(requests) + 1
<1>0. Types /\ MetOK /\ DrawRight /\ FacesRight
  BY DEF ScreenInv, IInv
<1>1. met' = [met EXCEPT
        !.tangled = @ \/ (q.kind # "tap" /\ others \ {"tap", q.kind} # {}),
        !.crossed = @ \/ \E kind \in others : (kind = "tap") # (q.kind = "tap")]
  BY DEF Send, Meets
<1> HIDE DEF others
<1>2. /\ MetOK' /\ met'.missed = met.missed
      /\ met'.tangled = (met.tangled \/ (q.kind # "tap" /\ others \ {"tap", q.kind} # {}))
      /\ met'.crossed = (met.crossed \/ \E kind \in others : (kind = "tap") # (q.kind = "tap"))
  BY <1>0, <1>1 DEF MetOK
<1>3. /\ DOMAIN requests' = DOMAIN requests \cup {n} /\ n \notin DOMAIN requests
      /\ requests'[n] = q
      /\ \A x \in DOMAIN requests : requests'[x] = requests[x]
  BY <1>0 DEF Types, Send
<1> HIDE DEF n
<1>4. \A x \in DOMAIN requests :
          requests[x].kind \notin {"over", "lost"} => requests[x].kind \in others
  BY DEF others, Kinds, InFlight
<1>5. DrawRight'
  <2> SUFFICES ASSUME ~met'.missed, ~met'.tangled
      PROVE  /\ OneView'
             /\ (\A r \in DOMAIN requests : DrawFits(requests[r], version, draws, savedSeq))'
             /\ ((\E r : Drawn(r)) \/ shown = Len(draws))'
             /\ ((\E r : Drawn(r)) \/ (\E r : Newer(r)) \/ (stale <=> Stale(shown, version)))'
    BY DEF DrawRight
  <2>1. ~met.missed /\ ~met.tangled /\ (q.kind = "tap" \/ others \ {"tap", q.kind} = {})
    BY <1>2
  <2>2. \A x \in DOMAIN requests :
            q.kind \in Views /\ requests[x].kind \in Views => requests[x].kind = q.kind
    BY <1>4, <2>1 DEF Views
  <2>3. OneView'
    BY <1>0, <1>3, <2>1, <2>2 DEF DrawRight, OneView
  <2>4. DrawFits(q, version, draws, savedSeq)
    BY DEF DrawFits
  <2>5. \A x \in DOMAIN requests' : DrawFits(requests'[x], version, draws, savedSeq)
    BY <1>0, <1>3, <2>1, <2>4 DEF DrawRight
  <2>6. \A r : (Drawn(r) => Drawn(r)') /\ (Newer(r) => Newer(r)')
    BY <1>3 DEF Drawn, Newer
  <2> QED
    BY <1>0, <2>1, <2>3, <2>5, <2>6 DEF DrawRight, Stale, server
<1>6. FacesRight'
  <2> SUFFICES ASSUME ~met'.missed, ~met'.crossed
      PROVE  /\ OneSide'
             /\ (\A r \in DOMAIN requests : FaceFits(requests[r], shown, torn))'
             /\ (\A i \in Stubs : faces[i] = Face(shown, i, torn) \/ \E r : Tears(r, i))'
    BY DEF FacesRight
  <2>1. ~met.missed /\ ~met.crossed
        /\ ~ \E kind \in others : (kind = "tap") # (q.kind = "tap")
    BY <1>2
  <2>2. \A x \in DOMAIN requests :
            requests[x].kind \notin {"over", "lost"} =>
                (requests[x].kind = "tap" <=> q.kind = "tap")
    BY <1>4, <2>1, Zenon
  <2>3. OneSide'
    BY <1>0, <1>3, <2>1, <2>2 DEF FacesRight, OneSide
  <2>4. FaceFits(q, shown, torn)
    BY DEF FaceFits
  <2>5. \A x \in DOMAIN requests' : FaceFits(requests'[x], shown, torn)
    BY <1>0, <1>3, <2>1, <2>4 DEF FacesRight
  <2>6. \A r, i : Tears(r, i) => Tears(r, i)'
    <3> SUFFICES ASSUME NEW r, NEW i, Tears(r, i) PROVE Tears(r, i)'
      OBVIOUS
    <3> QED
      BY <1>3 DEF Tears, IsTap
  <2> QED
    BY <1>0, <2>1, <2>3, <2>5, <2>6 DEF FacesRight, server
<1> QED
  BY <1>2, <1>5, <1>6

---------------------------------------------------------------------------
\* A request r moves on to q; a draw may follow that has waited for it, and if it
\* does, met has taken note of what it meets.
Moves(r, q) ==
    /\ r \in DOMAIN requests /\ r \in DOMAIN requests' /\ requests'[r] = q
    /\ \A x \in DOMAIN requests \ {r} : x \in DOMAIN requests' /\ requests'[x] = requests[x]
    /\ ~met'.missed => ~met.missed
    /\ ~met'.tangled => ~met.tangled
    /\ ~met'.crossed => ~met.crossed
    /\ \A x \in DOMAIN requests' \ DOMAIN requests :
         /\ requests'[x] = DrawRequest /\ q.kind \in {"over", "lost"}
         /\ ~met'.tangled => \A y \in DOMAIN requests \ {r} :
                               requests[y].kind \notin {"save", "prizes"}
         /\ ~met'.crossed => \A y \in DOMAIN requests \ {r} : requests[y].kind # "tap"

LEMMA OneMoves ==
    ASSUME Types, NEW r \in DOMAIN requests, NEW q,
           requests' = [requests EXCEPT ![r] = q], met' = met
    PROVE  Moves(r, q)
<1>1. /\ DOMAIN requests' = DOMAIN requests /\ requests'[r] = q
      /\ \A x \in DOMAIN requests \ {r} : requests'[x] = requests[x]
  BY DEF Types
<1> QED
  BY <1>1 DEF Moves

LEMMA SettleMoves ==
    ASSUME Types, MetOK, NEW r \in InFlight, NEW end \in Request, NEW missed \in BOOLEAN,
           end.kind \in {"over", "lost"}, Settle(r, end, missed)
    PROVE  Moves(r, end) /\ MetOK' /\ (met'.missed <=> met.missed \/ missed)
<1> DEFINE history == [met EXCEPT !.missed = @ \/ missed]
           others == Kinds(InFlight \ {r})
<1>0. r \in DOMAIN requests /\ requests \in Seq(Request)
  BY DEF InFlight, Types
<1>1. /\ r \in DOMAIN requests' /\ requests'[r] = end
      /\ \A x \in DOMAIN requests \ {r} : requests'[x] = requests[x]
      /\ \/ /\ flush # r /\ DOMAIN requests' = DOMAIN requests
         \/ /\ flush = r /\ DOMAIN requests' = DOMAIN requests \cup {Len(requests) + 1}
            /\ requests'[Len(requests) + 1] = DrawRequest
  BY <1>0, SettleDoes
<1>2. /\ history \in [tangled : BOOLEAN, crossed : BOOLEAN, missed : BOOLEAN]
      /\ history.tangled = met.tangled /\ history.crossed = met.crossed
      /\ history.missed = (met.missed \/ missed)
  BY DEF MetOK
<1>3. \A y \in DOMAIN requests \ {r} :
          requests[y].kind \notin {"over", "lost"} => requests[y].kind \in others
  BY DEF Kinds, InFlight
<1>4. \/ flush # r /\ met' = history
      \/ flush = r /\ met' = Meets(history, others, DrawRequest)
  BY DEF Settle
<1> HIDE DEF history, others
<1>5. CASE flush # r /\ met' = history
  <2>1. DOMAIN requests' = DOMAIN requests
    BY <1>1, <1>5
  <2> QED
    BY <1>0, <1>1, <1>2, <1>5, <2>1 DEF Moves, MetOK
<1>6. CASE flush = r /\ met' = Meets(history, others, DrawRequest)
  <2>1. met' = [history EXCEPT
                  !.tangled = @ \/ others \ {"tap", "draw"} # {},
                  !.crossed = @ \/ \E kind \in others : kind = "tap"]
    <3>1. DrawRequest.kind = "draw"
      BY DEF DrawRequest
    <3>2. /\ (DrawRequest.kind # "tap" /\ others \ {"tap", DrawRequest.kind} # {})
                = (others \ {"tap", "draw"} # {})
          /\ (\E kind \in others : (kind = "tap") # (DrawRequest.kind = "tap"))
                = (\E kind \in others : kind = "tap")
      BY <3>1
    <3> QED
      BY <1>6, <3>2 DEF Meets
  <2>2. /\ MetOK' /\ met'.missed = (met.missed \/ missed)
        /\ met'.tangled = (met.tangled \/ others \ {"tap", "draw"} # {})
        /\ met'.crossed = (met.crossed \/ \E kind \in others : kind = "tap")
    BY <1>2, <2>1 DEF MetOK
  <2>3. ASSUME NEW x \in DOMAIN requests' \ DOMAIN requests
        PROVE  /\ requests'[x] = DrawRequest
               /\ ~met'.tangled => \A y \in DOMAIN requests \ {r} :
                                     requests[y].kind \notin {"save", "prizes"}
               /\ ~met'.crossed => \A y \in DOMAIN requests \ {r} : requests[y].kind # "tap"
    BY <1>1, <1>3, <2>2
  <2>4. \A x \in DOMAIN requests : x \in DOMAIN requests'
    BY <1>1
  <2> QED
    BY <1>0, <1>1, <2>2, <2>3, <2>4 DEF Moves
<1> QED
  BY <1>4, <1>5, <1>6

\* How the page comes to be right again, from what is true of q and of the page
\* alone.

LEMMA DrawMoves ==
    ASSUME ScreenInv, NEW r \in InFlight, NEW q,
           Moves(r, q), q.kind \in {requests[r].kind, "over", "lost"},
           version' \in Nat, version <= version', draws' \in Seq(Nat),
           requests[r].kind # "save" => version' = version /\ savedSeq' = savedSeq,
           requests[r].kind # "draw" => draws' = draws,
           ~met'.missed /\ ~met.tangled =>
               /\ savedSeq' # savedSeq => Behind(version, draws)
               /\ DrawFits(q, version', draws', savedSeq')
               /\ (\E x : Drawn(x)') \/ shown' = Len(draws')
               /\ (\E x : Drawn(x)') \/ (\E x : Newer(x)') \/ (stale' <=> Stale(shown, version)')
    PROVE  DrawRight'
<1>0. Types /\ Waits /\ DrawRight /\ r \in DOMAIN requests /\ requests[r] \in Request
      /\ requests[r].kind \notin {"over", "lost"}
  BY DEF ScreenInv, IInv, Types, InFlight
<1>1. /\ r \in DOMAIN requests' /\ requests'[r] = q
      /\ \A x \in DOMAIN requests \ {r} : x \in DOMAIN requests' /\ requests'[x] = requests[x]
      /\ \A x \in DOMAIN requests' \ DOMAIN requests :
           /\ requests'[x].kind = "draw" /\ requests'[x].at = "sent"
           /\ q.kind \in {"over", "lost"}
           /\ ~met'.tangled => \A y \in DOMAIN requests \ {r} :
                                 requests[y].kind \notin {"save", "prizes"}
  BY DEF Moves, DrawRequest
<1> SUFFICES ASSUME ~met'.missed, ~met'.tangled
    PROVE  OneView' /\ (\A x \in DOMAIN requests : DrawFits(requests[x], version, draws, savedSeq))'
  BY DEF DrawRight, Moves
<1>a. ~met.missed /\ ~met.tangled
  BY DEF Moves
<1>2. /\ OneView
      /\ \A x \in DOMAIN requests : DrawFits(requests[x], version, draws, savedSeq)
  BY <1>0, <1>a DEF DrawRight
<1>3. OneView'
  <2> SUFFICES ASSUME NEW x \in DOMAIN requests', NEW y \in DOMAIN requests',
                      requests'[x].kind \in Views, requests'[y].kind \in Views
               PROVE  requests'[x].kind = requests'[y].kind
    BY DEF OneView
  <2>1. CASE x \in DOMAIN requests /\ y \in DOMAIN requests
    BY <1>0, <1>1, <1>2, <2>1 DEF OneView, Views
  <2>2. CASE x \notin DOMAIN requests \/ y \notin DOMAIN requests
    BY <1>1, <2>2 DEF Views
  <2> QED
    BY <2>1, <2>2
<1>4. ASSUME NEW x \in DOMAIN requests, x # r
      PROVE  DrawFits(requests[x], version', draws', savedSeq')
  <2> PICK p : p = requests[x]
    OBVIOUS
  <2>1. DrawFits(p, version, draws, savedSeq) /\ p \in Request
    BY <1>0, <1>2 DEF Types
  <2>2. CASE p.kind \notin Views
    BY <2>2 DEF DrawFits, Views
  <2>3. CASE p.kind \in Views /\ requests[r].kind = "save"
    <3>1. p.kind = "save" /\ draws' = draws
      BY <1>0, <1>2, <2>3 DEF OneView, Views
    <3>2. version \in Nat /\ p.seq \in Nat /\ p.view.version \in Nat
      BY <1>0, <2>1, <3>1, RequestShape DEF Types, Saves, View
    <3>3. draws \in Seq(Nat)
      BY <1>0 DEF Types
    <3>4. Behind(version, draws) => Behind(version', draws)
      <4> SUFFICES ASSUME draws # <<>>, draws[Len(draws)] < version
                   PROVE  draws[Len(draws)] < version'
        BY DEF Behind
      <4>1. draws[Len(draws)] \in Nat
        BY <3>3
      <4> QED
        BY <3>2, <4>1
    <3>5. p.seq >= savedSeq' \/ Behind(version', draws)
      BY <1>a, <2>1, <3>1, <3>4 DEF DrawFits
    <3>6. p.at # "sent" => Behind(p.view.version, draws) /\ p.view.version <= version'
      BY <2>1, <3>1, <3>2 DEF DrawFits
    <3>7. p.at \in {"found", "ready"} => p.view.draw = Len(draws)
      BY <2>1, <3>1 DEF DrawFits
    <3>8. DrawFits(p, version', draws, savedSeq')
      BY <3>1, <3>5, <3>6, <3>7 DEF DrawFits
    <3> QED
      BY <3>1, <3>8
  <2>4. CASE p.kind \in Views /\ requests[r].kind = "draw"
    <3>1. p.kind = "draw"
      BY <1>0, <1>2, <2>4 DEF OneView, Views
    <3> QED
      BY <1>0, <1>4, <2>4, <3>1 DEF Waits, Awaited
  <2>5. CASE requests[r].kind \notin {"save", "draw"}
    BY <2>1, <2>5
  <2> QED
    BY <2>2, <2>3, <2>4, <2>5
<1>5. ASSUME NEW x \in DOMAIN requests' \ DOMAIN requests
      PROVE  DrawFits(requests'[x], version', draws', savedSeq')
  BY <1>1, <1>5 DEF DrawFits
<1>6. DrawFits(requests'[r], version', draws', savedSeq')
  BY <1>1, <1>a
<1> QED
  BY <1>1, <1>3, <1>4, <1>5, <1>6

LEMMA FacesMove ==
    ASSUME ScreenInv, NEW r \in InFlight, NEW q,
           Moves(r, q), q.kind \in {requests[r].kind, "over", "lost"},
           requests[r].kind = "tap" => shown' = shown,
           requests[r].kind # "tap" => torn' = torn,
           ~met'.missed /\ ~met.crossed =>
               /\ FaceFits(q, shown', torn')
               /\ \A i \in Stubs : faces'[i] = Face(shown', i, torn') \/ \E x : Tears(x, i)'
    PROVE  FacesRight'
<1>0. Types /\ FacesRight /\ r \in DOMAIN requests /\ requests[r] \in Request
      /\ requests[r].kind \notin {"over", "lost"}
  BY DEF ScreenInv, IInv, Types, InFlight
<1>1. /\ r \in DOMAIN requests' /\ requests'[r] = q
      /\ \A x \in DOMAIN requests \ {r} : x \in DOMAIN requests' /\ requests'[x] = requests[x]
      /\ \A x \in DOMAIN requests' \ DOMAIN requests :
           /\ requests'[x].kind = "draw" /\ requests'[x].at = "sent"
           /\ q.kind \in {"over", "lost"}
           /\ ~met'.crossed => \A y \in DOMAIN requests \ {r} : requests[y].kind # "tap"
  BY DEF Moves, DrawRequest
<1> SUFFICES ASSUME ~met'.missed, ~met'.crossed
    PROVE  OneSide' /\ (\A x \in DOMAIN requests : FaceFits(requests[x], shown, torn))'
  BY DEF FacesRight, Moves
<1>a. ~met.missed /\ ~met.crossed
  BY DEF Moves
<1>2. OneSide /\ \A x \in DOMAIN requests : FaceFits(requests[x], shown, torn)
  BY <1>0, <1>a DEF FacesRight
<1>3. OneSide'
  <2> SUFFICES ASSUME NEW x \in DOMAIN requests', NEW y \in DOMAIN requests',
                      requests'[x].kind \notin {"over", "lost"},
                      requests'[y].kind \notin {"over", "lost"}
               PROVE  requests'[x].kind = "tap" <=> requests'[y].kind = "tap"
    BY DEF OneSide
  <2>1. CASE x \in DOMAIN requests /\ y \in DOMAIN requests
    BY <1>0, <1>1, <1>2, <2>1 DEF OneSide
  <2>2. CASE x \notin DOMAIN requests \/ y \notin DOMAIN requests
    BY <1>1, <2>2
  <2> QED
    BY <2>1, <2>2
<1>4. ASSUME NEW x \in DOMAIN requests, x # r
      PROVE  FaceFits(requests[x], shown', torn')
  <2>1. FaceFits(requests[x], shown, torn)
    BY <1>2
  <2>2. CASE requests[x].kind \in {"over", "lost"}
    BY <2>2 DEF FaceFits
  <2>3. CASE requests[x].kind \notin {"over", "lost"} /\ requests[r].kind = "tap"
    BY <1>0, <1>2, <2>1, <2>3 DEF FaceFits, OneSide
  <2>4. CASE requests[x].kind \notin {"over", "lost"} /\ requests[r].kind # "tap"
    BY <1>0, <1>2, <2>1, <2>4 DEF FaceFits, OneSide
  <2> QED
    BY <2>2, <2>3, <2>4
<1>5. ASSUME NEW x \in DOMAIN requests' \ DOMAIN requests
      PROVE  FaceFits(requests'[x], shown', torn')
  BY <1>1, <1>5 DEF FaceFits
<1>6. FaceFits(requests'[r], shown', torn')
  BY <1>1, <1>a
<1> QED
  BY <1>1, <1>3, <1>4, <1>5, <1>6

\* When the page is right, and who may still be on the way to put it right.
LEMMA NoTapMeansRight ==
    ASSUME ScreenInv, NEW r \in InFlight, requests[r].kind # "tap",
           ~met.missed, ~met.crossed
    PROVE  \A i \in Stubs : faces[i] = Face(shown, i, torn)
<1>1. /\ requests[r] \in Request /\ r \in DOMAIN requests
      /\ requests[r].kind \notin {"over", "lost"}
  BY DEF ScreenInv, IInv, Types, InFlight
<1>2. \A x, i : ~Tears(x, i)
  BY <1>1, RequestShape DEF ScreenInv, FacesRight, OneSide, Tears, IsTap
<1> QED
  BY <1>2 DEF ScreenInv, FacesRight

LEMMA NoDrawMeansShown ==
    ASSUME ScreenInv, NEW r \in InFlight, requests[r].kind \in {"save", "prizes"},
           ~met.missed, ~met.tangled
    PROVE  /\ shown = Len(draws)
           /\ \A x : ~Drawn(x)
           /\ (\E x : Newer(x)) \/ (stale <=> Stale(shown, version))
           /\ requests[r].kind = "prizes" => \A x : ~Newer(x)
<1>1. r \in DOMAIN requests
  BY DEF InFlight
<1>2. \A x : ~Drawn(x)
  BY <1>1 DEF ScreenInv, DrawRight, OneView, Views, Drawn
<1>3. requests[r].kind = "prizes" => \A x : ~Newer(x)
  BY <1>1 DEF ScreenInv, DrawRight, OneView, Views, Newer
<1> QED
  BY <1>2, <1>3 DEF ScreenInv, DrawRight

\* Two rosters that are both newer than every draw make it equally stale.
LEMMA BehindIsStale ==
    ASSUME draws \in Seq(Nat), NEW v \in Nat, Behind(v, draws)
    PROVE  Stale(Len(draws), v) <=> Len(draws) # 0
<1>1. CASE draws = <<>>
  BY <1>1 DEF Stale
<1>2. CASE draws # <<>> /\ draws[Len(draws)] < v
  <2>1. Len(draws) # 0 /\ draws[Len(draws)] \in Nat
    BY <1>2
  <2> QED
    BY <1>2, <2>1 DEF Stale
<1> QED
  BY <1>1, <1>2 DEF Behind

\* The other requests are as they were.
LEMMA OthersStay ==
    ASSUME NEW r, NEW q, Moves(r, q)
    PROVE  /\ requests'[r] = q
           /\ \A x : x # r => (Drawn(x)' <=> Drawn(x))
           /\ \A x : x # r /\ savedSeq' = savedSeq => (Newer(x)' <=> Newer(x))
           /\ \A x, i : x # r => (Tears(x, i)' <=> Tears(x, i))
           /\ r \in DOMAIN requests' /\ r \in DOMAIN requests
<1>1. /\ r \in DOMAIN requests' /\ r \in DOMAIN requests /\ requests'[r] = q
      /\ \A x \in DOMAIN requests \ {r} : x \in DOMAIN requests' /\ requests'[x] = requests[x]
      /\ \A x \in DOMAIN requests' \ DOMAIN requests :
           requests'[x].kind = "draw" /\ requests'[x].at = "sent"
  BY DEF Moves, DrawRequest
<1>2. \A x : x # r => (Drawn(x)' <=> Drawn(x))
  BY <1>1 DEF Drawn
<1>3. \A x : x # r /\ savedSeq' = savedSeq => (Newer(x)' <=> Newer(x))
  BY <1>1 DEF Newer
<1>4. ASSUME NEW x, NEW i, x # r PROVE Tears(x, i)' <=> Tears(x, i)
  BY <1>1, <1>4 DEF Tears, IsTap
<1> QED
  BY <1>1, <1>2, <1>3, <1>4

\* Whatever happens to a request that has no say in it, the draw on the page is
\* as right as it was.
LEMMA DrawStays ==
    ASSUME ScreenInv, NEW r \in InFlight, NEW q, Moves(r, q),
           UNCHANGED <<version, draws, shown, stale, savedSeq>>,
           ~met.tangled, ~met'.missed,
           Drawn(r) => Drawn(r)', Newer(r) => Newer(r)'
    PROVE  /\ (\E x : Drawn(x)') \/ shown' = Len(draws')
           /\ (\E x : Drawn(x)') \/ (\E x : Newer(x)') \/ (stale' <=> Stale(shown, version)')
<1>1. \A x : (Drawn(x) => Drawn(x)') /\ (Newer(x) => Newer(x)')
  BY OthersStay
<1>2. ~met.missed
  BY DEF Moves
<1> QED
  BY <1>1, <1>2 DEF ScreenInv, DrawRight, Stale

---------------------------------------------------------------------------
LEMMA SaveCommits ==
    ASSUME ScreenInv, NEW r \in InFlight, ReplaceRoster(requests[r]), requests[r].at = "sent",
           UNCHANGED <<page, met>>,
           requests' = [requests EXCEPT ![r] = Returned(requests[r])]
    PROVE  DrawRight' /\ FacesRight'
<1> PICK q : q = [requests[r] EXCEPT !.at = "committed", !.view.version = version']
  OBVIOUS
<1>0. Types /\ r \in DOMAIN requests /\ requests[r] \in Request
  BY DEF ScreenInv, IInv, Types, InFlight
<1>1. requests[r] \in Saves /\ requests[r].kind = "save"
  BY <1>0, RequestShape DEF ReplaceRoster
<1>m. Moves(r, q)
  <2>1. Returned(requests[r]) = q
    BY <1>1 DEF Returned
  <2> QED
    BY <1>0, <2>1, OneMoves
<1>2. /\ version \in Nat /\ version' = version + 1 /\ UNCHANGED <<draws, torn>>
      /\ draws \in Seq(Nat)
  BY <1>0 DEF ReplaceRoster, Types
<1>3. /\ q.kind = "save" /\ q.at = "committed" /\ q.seq = requests[r].seq
      /\ q.view.version = version'
  BY <1>1 DEF Saves, View
<1>4. UNCHANGED <<shown, faces, stale, savedSeq>>
  BY DEF page
<1>5. Behind(version', draws)
  <2>1. \A d \in DOMAIN draws : draws[d] <= version
    BY <1>0 DEF Types
  <2>2. draws # <<>> => Len(draws) \in DOMAIN draws /\ draws[Len(draws)] \in Nat
    BY <1>2
  <2> QED
    BY <1>2, <2>1, <2>2 DEF Behind
<1>6. DrawRight'
  <2>1. DrawFits(q, version', draws', savedSeq')
    BY <1>2, <1>3, <1>5 DEF DrawFits
  <2>2. ASSUME ~met.missed, ~met.tangled
        PROVE  shown' = Len(draws')
               /\ ((\E x : Newer(x)') \/ (stale' <=> Stale(shown, version)'))
    <3>1. shown = Len(draws) /\ ((\E x : Newer(x)) \/ (stale <=> Stale(shown, version)))
      BY <1>1, <2>2, NoDrawMeansShown
    <3>2. CASE q.seq >= savedSeq
      <4>1. Newer(r)'
        BY <1>2, <1>3, <1>4, <3>2, <1>m, OthersStay DEF Newer
      <4> QED
        BY <1>2, <1>4, <3>1, <4>1
    <3>3. CASE ~(q.seq >= savedSeq)
      <4>1. Behind(version, draws)
        BY <1>0, <1>1, <1>3, <2>2, <3>3 DEF ScreenInv, DrawRight, DrawFits
      <4>2. Stale(shown, version) <=> Len(draws) # 0
        BY <1>2, <3>1, <4>1, BehindIsStale
      <4>3. Stale(shown, version)' <=> Stale(shown, version')
        BY <1>2, <1>4 DEF Stale
      <4>4. version' \in Nat
        BY <1>2
      <4>5. Stale(shown, version') <=> Len(draws) # 0
        BY <1>2, <1>5, <3>1, <4>4, BehindIsStale
      <4>6. \A x : Newer(x) => Newer(x)'
        <5>1. ~Newer(r)
          BY DEF Newer
        <5> QED
          BY <1>2, <1>4, <5>1, <1>m, OthersStay
      <4>7. CASE \E x : Newer(x)
        BY <1>2, <1>4, <3>1, <4>6, <4>7
      <4>8. CASE stale <=> Stale(shown, version)
        BY <1>2, <1>4, <3>1, <4>2, <4>3, <4>5, <4>8
      <4> QED
        BY <3>1, <4>7, <4>8
    <3> QED
      BY <3>2, <3>3
  <2>3. ~met'.missed /\ ~met.tangled =>
          /\ savedSeq' # savedSeq => Behind(version, draws)
          /\ DrawFits(q, version', draws', savedSeq')
          /\ (\E x : Drawn(x)') \/ shown' = Len(draws')
          /\ (\E x : Drawn(x)') \/ (\E x : Newer(x)') \/ (stale' <=> Stale(shown, version)')
    BY <1>4, <2>1, <2>2, Zenon
  <2>4. version' \in Nat /\ version <= version' /\ draws' \in Seq(Nat)
    BY <1>2
  <2> QED
    BY <1>1, <1>2, <1>3, <1>4, <2>3, <2>4, <1>m, DrawMoves, Zenon
<1>7. FacesRight'
  <2>1. FaceFits(q, shown', torn')
    BY <1>3 DEF FaceFits
  <2>2. ~met.missed /\ ~met.crossed => \A i \in Stubs : faces'[i] = Face(shown', i, torn')
    BY <1>1, <1>2, <1>4, NoTapMeansRight
  <2> QED
    BY <1>1, <1>2, <1>3, <1>4, <2>1, <2>2, <1>m, FacesMove
<1> QED
  BY <1>6, <1>7

LEMMA PrizesCommit ==
    ASSUME ScreenInv, NEW r \in InFlight, UpdateEvent(requests[r]), UNCHANGED <<page, met>>,
           requests' = [requests EXCEPT ![r] = Returned(requests[r])]
    PROVE  DrawRight' /\ FacesRight'
<1> PICK q : q = [requests[r] EXCEPT !.at = "committed", !.view.version = version']
  OBVIOUS
<1>0. Types /\ r \in DOMAIN requests /\ requests[r] \in Request
  BY DEF ScreenInv, IInv, Types, InFlight
<1>1. requests[r] \in Steps /\ requests[r].kind = "prizes"
  BY <1>0, RequestShape DEF UpdateEvent
<1>m. Moves(r, q)
  <2>1. Returned(requests[r]) = q
    BY <1>1 DEF Returned
  <2> QED
    BY <1>0, <2>1, OneMoves
<1>2. /\ version \in Nat /\ UNCHANGED <<version, draws, torn>> /\ draws \in Seq(Nat)
  BY <1>0 DEF UpdateEvent, Types, server
<1>3. q.kind = "prizes" /\ q.at = "committed" /\ q.view.version = version
  BY <1>1, <1>2 DEF Steps, View
<1>4. UNCHANGED <<shown, faces, stale, savedSeq>>
  BY DEF page
<1>5. ~Drawn(r) /\ ~Newer(r)
  BY <1>1 DEF Drawn, Newer
<1>6. DrawFits(q, version', draws', savedSeq') /\ FaceFits(q, shown', torn')
  BY <1>2, <1>3 DEF DrawFits, FaceFits
<1>7. DrawRight'
  <2>1. ~met'.missed /\ ~met.tangled =>
          /\ (\E x : Drawn(x)') \/ shown' = Len(draws')
          /\ (\E x : Drawn(x)') \/ (\E x : Newer(x)') \/ (stale' <=> Stale(shown, version)')
    BY <1>2, <1>4, <1>5, <1>m, DrawStays, Zenon
  <2>2. version' \in Nat /\ version <= version' /\ draws' \in Seq(Nat)
    BY <1>2
  <2> QED
    BY <1>1, <1>2, <1>3, <1>4, <1>6, <2>1, <2>2, <1>m, DrawMoves, Zenon
<1>8. ~met.missed /\ ~met.crossed => \A i \in Stubs : faces'[i] = Face(shown', i, torn')
  BY <1>1, <1>2, <1>4, NoTapMeansRight
<1>9. FacesRight'
  BY <1>1, <1>2, <1>3, <1>4, <1>6, <1>8, <1>m, FacesMove
<1> QED
  BY <1>7, <1>9

LEMMA DrawCommits ==
    ASSUME ScreenInv, NEW r \in InFlight, RunDraw(requests[r]), UNCHANGED <<page, met>>,
           requests' = [requests EXCEPT ![r] = Returned(requests[r])]
    PROVE  DrawRight' /\ FacesRight'
<1> PICK q : q = [requests[r] EXCEPT !.at = "ready", !.draw = Len(draws')]
  OBVIOUS
<1>0. Types /\ r \in DOMAIN requests /\ requests[r] \in Request
  BY DEF ScreenInv, IInv, Types, InFlight
<1>1. requests[r] \in Draws /\ requests[r].kind = "draw"
  BY <1>0, RequestShape DEF RunDraw
<1>m. Moves(r, q)
  <2>1. Returned(requests[r]) = q
    BY <1>1 DEF Returned
  <2> QED
    BY <1>0, <2>1, OneMoves
<1>2. /\ version \in Nat /\ UNCHANGED <<version, torn>> /\ draws \in Seq(Nat)
      /\ draws' = Append(draws, version) /\ torn \subseteq (DOMAIN draws) \X Stubs
  BY <1>0 DEF RunDraw, Types
<1>3. /\ draws' \in Seq(Nat) /\ Len(draws') = Len(draws) + 1
      /\ draws'[Len(draws')] = version /\ Len(draws') \notin DOMAIN draws
  BY <1>2
<1>4. q.kind = "draw" /\ q.at = "ready" /\ q.draw = Len(draws')
  BY <1>1 DEF Draws
<1>5. UNCHANGED <<shown, faces, stale, savedSeq>>
  BY DEF page
<1>6. Drawn(r)'
  BY <1>2, <1>4, <1>m, OthersStay DEF Drawn
<1>7. DrawFits(q, version', draws', savedSeq')
  BY <1>2, <1>3, <1>4 DEF DrawFits
<1>8. DrawRight'
  <2>1. version' \in Nat /\ version <= version' /\ draws' \in Seq(Nat)
    BY <1>2, <1>3
  <2> QED
    BY <1>1, <1>2, <1>4, <1>5, <1>6, <1>7, <2>1, <1>m, DrawMoves, Zenon
<1>9. FaceFits(q, shown', torn')
  BY <1>2, <1>3, <1>4 DEF FaceFits
<1>10. ~met.missed /\ ~met.crossed => \A i \in Stubs : faces'[i] = Face(shown', i, torn')
  BY <1>1, <1>2, <1>5, NoTapMeansRight
<1>11. FacesRight'
  BY <1>1, <1>2, <1>4, <1>5, <1>9, <1>10, <1>m, FacesMove
<1> QED
  BY <1>8, <1>11

LEMMA TapCommits ==
    ASSUME ScreenInv, NEW r \in InFlight, RevealWinner(requests[r]), requests[r].at = "sent",
           UNCHANGED <<page, met>>,
           requests' = [requests EXCEPT ![r] = Returned(requests[r])]
    PROVE  DrawRight' /\ FacesRight'
<1> PICK q : q = [requests[r] EXCEPT !.at = "ready"]
  OBVIOUS
<1>0. Types /\ r \in DOMAIN requests /\ requests[r] \in Request
  BY DEF ScreenInv, IInv, Types, InFlight
<1>1. requests[r] \in Taps /\ requests[r].kind = "tap"
  BY <1>0, RequestShape DEF RevealWinner
<1>m. Moves(r, q)
  <2>1. Returned(requests[r]) = q
    BY <1>1 DEF Returned
  <2> QED
    BY <1>0, <2>1, OneMoves
<1>2. /\ version \in Nat /\ UNCHANGED <<version, draws>> /\ draws \in Seq(Nat)
      /\ torn' = torn \cup {<<requests[r].draw, requests[r].stub>>}
  BY <1>0 DEF RevealWinner, Types
<1>3. /\ q.kind = "tap" /\ q.at = "ready"
      /\ q.draw = requests[r].draw /\ q.stub = requests[r].stub
  BY <1>1 DEF Taps
<1>4. UNCHANGED <<shown, faces, stale, savedSeq>>
  BY DEF page
<1>5. ~Drawn(r) /\ ~Newer(r)
  BY <1>1 DEF Drawn, Newer
<1>6. DrawFits(q, version', draws', savedSeq')
  BY <1>3 DEF DrawFits
<1>7. DrawRight'
  <2>1. ~met'.missed /\ ~met.tangled =>
          /\ (\E x : Drawn(x)') \/ shown' = Len(draws')
          /\ (\E x : Drawn(x)') \/ (\E x : Newer(x)') \/ (stale' <=> Stale(shown, version)')
    BY <1>2, <1>4, <1>5, <1>m, DrawStays, Zenon
  <2>2. version' \in Nat /\ version <= version' /\ draws' \in Seq(Nat)
    BY <1>2
  <2> QED
    BY <1>1, <1>2, <1>3, <1>4, <1>6, <2>1, <2>2, <1>m, DrawMoves, Zenon
<1>8. ASSUME ~met.missed, ~met.crossed
      PROVE  /\ FaceFits(q, shown', torn')
             /\ \A i \in Stubs : faces'[i] = Face(shown', i, torn') \/ \E x : Tears(x, i)'
  <2>1. requests[r].draw = shown
    BY <1>0, <1>1, <1>8 DEF ScreenInv, FacesRight, FaceFits
  <2>2. ASSUME NEW i \in Stubs
        PROVE  faces'[i] = Face(shown', i, torn') \/ \E x : Tears(x, i)'
    <3>1. CASE i = q.stub
      <4>1. Tears(r, i)'
        BY <1>2, <1>3, <3>1, <1>m, OthersStay DEF Tears, IsTap
      <4> QED
        BY <4>1
    <3>2. CASE i # q.stub
      <4>1. Face(shown', i, torn') = Face(shown, i, torn)
        BY <1>2, <1>3, <1>4, <3>2 DEF Face
      <4>2. ~Tears(r, i)
        BY DEF Tears
      <4>3. \A x : Tears(x, i) => Tears(x, i)'
        BY <1>2, <4>2, <1>m, OthersStay
      <4> QED
        BY <1>4, <1>8, <4>1, <4>3 DEF ScreenInv, FacesRight
    <3> QED
      BY <3>1, <3>2
  <2>3. FaceFits(q, shown', torn')
    BY <1>3, <1>4, <2>1 DEF FaceFits
  <2> QED
    BY <2>2, <2>3
<1>9. FacesRight'
  BY <1>1, <1>2, <1>3, <1>4, <1>8, <1>m, FacesMove
<1> QED
  BY <1>7, <1>9

---------------------------------------------------------------------------
LEMMA ScreenReads ==
    ASSUME ScreenInv, NEW r \in InFlight, LatestDraw(r) \/ winners(r)
    PROVE  DrawRight' /\ FacesRight'
<1>0. /\ Types /\ r \in DOMAIN requests /\ requests[r] \in Request
      /\ requests[r].kind \notin {"over", "lost"}
      /\ draws \in Seq(Nat) /\ Len(draws) \in Nat
  BY DEF ScreenInv, IInv, Types, InFlight
<1>1. UNCHANGED <<server, page, met>> /\ requests[r].at \in {"committed", "found"}
  BY DEF LatestDraw, winners
<1>2. requests[r].kind \in {"save", "prizes"} /\ requests[r] \in Saves \cup Steps
  BY <1>0, <1>1, RequestShape DEF Draws, Taps
<1>3. UNCHANGED <<version, draws, torn, shown, faces, stale, savedSeq>>
  BY <1>1 DEF server, page
<1>4. version' \in Nat /\ version <= version' /\ draws' \in Seq(Nat)
  BY <1>0, <1>3 DEF Types
<1>5. ASSUME NEW q, requests' = [requests EXCEPT ![r] = q],
             q.kind = requests[r].kind, q.at # "sent",
             q.kind = "save" => q.seq = requests[r].seq,
             q.view.version = requests[r].view.version,
             ~met.missed /\ ~met.tangled => q.view.draw = Len(draws),
             FaceFits(q, shown, torn)
      PROVE  DrawRight' /\ FacesRight'
  <2>1. q.kind \in {"save", "prizes"}
    BY <1>2, <1>5
  <2>a. met' = met /\ Moves(r, q)
    BY <1>0, <1>1, <1>5, OneMoves
  <2>2. ASSUME ~met.missed, ~met.tangled PROVE DrawFits(q, version', draws', savedSeq')
    <3>1. DrawFits(requests[r], version, draws, savedSeq)
      BY <1>0, <2>2 DEF ScreenInv, DrawRight
    <3> QED
      BY <1>1, <1>2, <1>3, <1>5, <2>1, <2>2, <3>1 DEF DrawFits
  <2>3. (Drawn(r) => Drawn(r)') /\ (Newer(r) => Newer(r)')
    BY <1>2, <1>3, <1>5, <2>a, OthersStay DEF Drawn, Newer
  <2>4. ~met'.missed /\ ~met.tangled =>
          /\ (\E x : Drawn(x)') \/ shown' = Len(draws')
          /\ (\E x : Drawn(x)') \/ (\E x : Newer(x)') \/ (stale' <=> Stale(shown, version)')
    BY <1>1, <1>3, <2>3, <2>a, DrawStays, Zenon
  <2>5. q.kind \in {requests[r].kind, "over", "lost"}
    BY <1>5
  <2>6. DrawRight'
    BY <1>3, <1>4, <2>2, <2>4, <2>5, <2>a, DrawMoves, Zenon
  <2>7. ~met.missed /\ ~met.crossed => \A i \in Stubs : faces'[i] = Face(shown', i, torn')
    BY <1>2, <1>3, NoTapMeansRight
  <2>8. FacesRight'
    BY <1>2, <1>3, <1>5, <2>5, <2>7, <2>a, FacesMove
  <2> QED
    BY <2>6, <2>8
<1>6. CASE LatestDraw(r)
  <2> PICK q : q = [requests[r] EXCEPT !.at = "found", !.view.draw = Len(draws)]
    OBVIOUS
  <2>1. requests' = [requests EXCEPT ![r] = q]
    BY <1>6 DEF LatestDraw
  <2>2. /\ q.kind = requests[r].kind /\ q.at = "found"
        /\ q.kind = "save" => q.seq = requests[r].seq
        /\ q.view.draw = Len(draws) /\ q.view.version = requests[r].view.version
    <3>1. CASE requests[r] \in Saves
      BY <3>1 DEF Saves, View
    <3>2. CASE requests[r] \in Steps
      BY <3>2 DEF Steps, View
    <3> QED
      BY <1>2, <3>1, <3>2
  <2>3. FaceFits(q, shown, torn)
    BY <1>2, <2>2 DEF FaceFits
  <2> QED
    BY <1>5, <2>1, <2>2, <2>3
<1>7. CASE winners(r)
  <2> PICK f : f = [i \in Stubs |-> hidden(requests[r].view.draw, i)]
    OBVIOUS
  <2> PICK q : q = [requests[r] EXCEPT !.at = "ready", !.view.faces = f]
    OBVIOUS
  <2>1. requests' = [requests EXCEPT ![r] = q] /\ requests[r].at = "found"
    BY <1>7 DEF winners
  <2>2. /\ q.kind = requests[r].kind /\ q.at = "ready"
        /\ q.kind = "save" => q.seq = requests[r].seq
        /\ q.view.draw = requests[r].view.draw /\ q.view.faces = f
        /\ q.view.version = requests[r].view.version
    <3>1. CASE requests[r] \in Saves
      BY <3>1 DEF Saves, View
    <3>2. CASE requests[r] \in Steps
      BY <3>2 DEF Steps, View
    <3> QED
      BY <1>2, <3>1, <3>2
  <2>3. ~met.missed /\ ~met.tangled => q.view.draw = Len(draws)
    BY <1>0, <1>2, <2>1, <2>2 DEF ScreenInv, DrawRight, DrawFits
  <2>4. \A i \in Stubs : f[i] = Face(requests[r].view.draw, i, torn)
    BY DEF hidden, Face
  <2>5. FaceFits(q, shown, torn)
    BY <1>2, <2>2, <2>4 DEF FaceFits
  <2> QED
    BY <1>5, <2>1, <2>2, <2>3, <2>5
<1> QED
  BY <1>6, <1>7

---------------------------------------------------------------------------
\* A view that is taken is right by what it was read of.
LEMMA ViewTaken ==
    ASSUME ScreenInv, NEW r \in InFlight, requests[r].kind \in {"save", "prizes"},
           requests[r].at = "ready", applyView(requests[r].view), UNCHANGED server,
           Moves(r, Over),
           requests[r].kind = "prizes" => savedSeq' = savedSeq
    PROVE  DrawRight' /\ FacesRight'
<1> PICK q : q = requests[r]
  OBVIOUS
<1>0. /\ Types /\ r \in DOMAIN requests /\ q \in Request
      /\ version \in Nat /\ draws \in Seq(Nat) /\ Len(draws) \in Nat
  BY DEF ScreenInv, IInv, Types, InFlight
<1>1. Over.kind = "over" /\ (~met'.missed => ~met.missed)
  BY DEF Over, Moves
<1>2. /\ UNCHANGED <<version, draws, torn>>
      /\ q.kind \in {"save", "prizes"} /\ q.at = "ready"
      /\ shown' = q.view.draw /\ faces' = q.view.faces
      /\ stale' = Stale(q.view.draw, q.view.version)
  BY DEF server, applyView
<1>3. version' \in Nat /\ version <= version' /\ draws' \in Seq(Nat)
  BY <1>0, <1>2
<1>4. q.view.version \in Nat
  <2>1. q \in Saves \cup Steps
    BY <1>0, <1>2, RequestShape
  <2> QED
    BY <2>1 DEF Saves, Steps, View
<1>5. ASSUME ~met.missed, ~met.tangled
      PROVE  /\ shown' = Len(draws')
             /\ savedSeq' # savedSeq => Behind(version, draws)
             /\ stale' <=> Stale(shown', version')
  <2>1. DrawFits(q, version, draws, savedSeq)
    BY <1>0, <1>5 DEF ScreenInv, DrawRight
  <2>2. q.view.draw = Len(draws)
    BY <1>2, <2>1 DEF DrawFits
  <2>3. CASE q.kind = "prizes"
    <3>1. q.view.version = version /\ savedSeq' = savedSeq
      BY <1>2, <2>1, <2>3 DEF DrawFits
    <3>2. stale' <=> Stale(Len(draws), version)
      BY <1>2, <2>2, <3>1, Zenon
    <3>3. Stale(shown', version') <=> Stale(Len(draws), version)
      BY <1>2, <2>2 DEF Stale
    <3> QED
      BY <1>2, <2>2, <3>1, <3>2, <3>3, Zenon
  <2>4. CASE q.kind = "save"
    <3>1. Behind(q.view.version, draws) /\ q.view.version <= version
      BY <1>2, <2>1, <2>4 DEF DrawFits
    <3>2. Behind(version, draws)
      <4>1. draws # <<>> => draws[Len(draws)] \in Nat
        BY <1>0
      <4> QED
        BY <1>0, <1>4, <3>1, <4>1 DEF Behind
    <3>3. Stale(Len(draws), q.view.version) <=> Len(draws) # 0
      BY <1>0, <1>4, <3>1, BehindIsStale
    <3>4. Stale(Len(draws), version) <=> Len(draws) # 0
      BY <1>0, <3>2, BehindIsStale
    <3>5. stale' <=> Stale(Len(draws), q.view.version)
      BY <1>2, <2>2, Zenon
    <3>6. Stale(shown', version') <=> Stale(Len(draws), version)
      BY <1>2, <2>2 DEF Stale
    <3> QED
      BY <1>2, <2>2, <3>2, <3>3, <3>4, <3>5, <3>6, Zenon
  <2> QED
    BY <1>2, <2>3, <2>4
<1>6. Stale(shown, version)' <=> Stale(shown', version')
  BY <1>2 DEF Stale
<1>7. DrawFits(Over, version', draws', savedSeq') /\ FaceFits(Over, shown', torn')
  BY <1>1 DEF DrawFits, FaceFits
<1>8. DrawRight'
  <2>1. ~met'.missed /\ ~met.tangled =>
          /\ savedSeq' # savedSeq => Behind(version, draws)
          /\ DrawFits(Over, version', draws', savedSeq')
          /\ (\E x : Drawn(x)') \/ shown' = Len(draws')
          /\ (\E x : Drawn(x)') \/ (\E x : Newer(x)') \/ (stale' <=> Stale(shown, version)')
    BY <1>1, <1>2, <1>5, <1>6, <1>7, Zenon
  <2>2. /\ requests[r].kind # "save" => version' = version /\ savedSeq' = savedSeq
        /\ requests[r].kind # "draw" => draws' = draws
        /\ Over.kind \in {requests[r].kind, "over", "lost"}
    BY <1>1, <1>2
  <2> QED
    BY <1>2, <1>3, <2>1, <2>2, DrawMoves, Zenon
<1>9. ~met.missed /\ ~met.crossed => \A i \in Stubs : faces'[i] = Face(shown', i, torn')
  BY <1>0, <1>2 DEF ScreenInv, FacesRight, FaceFits
<1>10. FacesRight'
  BY <1>1, <1>2, <1>7, <1>9, FacesMove
<1> QED
  BY <1>8, <1>10

\* A save that a later one has overtaken leaves the page as it is.
LEMMA SaveIgnored ==
    ASSUME ScreenInv, NEW r \in InFlight, requests[r].kind = "save",
           ~(requests[r].seq >= savedSeq), UNCHANGED <<server, savedSeq, shown, faces, stale>>,
           Moves(r, Over)
    PROVE  DrawRight' /\ FacesRight'
<1>0. Types /\ version \in Nat /\ draws \in Seq(Nat)
  BY DEF ScreenInv, IInv, Types
<1>1. Over.kind = "over" /\ (~met'.missed => ~met.missed)
  BY DEF Over, Moves
<1>2. /\ UNCHANGED <<version, draws, torn, shown, faces, stale, savedSeq>>
      /\ version' \in Nat /\ version <= version' /\ draws' \in Seq(Nat)
  BY <1>0 DEF server
<1>3. ~Drawn(r) /\ ~Newer(r)
  BY DEF Drawn, Newer
<1>4. DrawFits(Over, version', draws', savedSeq') /\ FaceFits(Over, shown', torn')
  BY <1>1 DEF DrawFits, FaceFits
<1>5. DrawRight'
  <2>1. ~met'.missed /\ ~met.tangled =>
          /\ (\E x : Drawn(x)') \/ shown' = Len(draws')
          /\ (\E x : Drawn(x)') \/ (\E x : Newer(x)') \/ (stale' <=> Stale(shown, version)')
    BY <1>2, <1>3, DrawStays, Zenon
  <2>2. Over.kind \in {requests[r].kind, "over", "lost"}
    BY <1>1
  <2> QED
    BY <1>2, <1>4, <2>1, <2>2, DrawMoves, Zenon
<1>6. ~met.missed /\ ~met.crossed => \A i \in Stubs : faces'[i] = Face(shown', i, torn')
  BY <1>2, NoTapMeansRight
<1>7. FacesRight'
  BY <1>1, <1>2, <1>4, <1>6, FacesMove
<1> QED
  BY <1>5, <1>7

LEMMA DrawTaken ==
    ASSUME ScreenInv, NEW r \in InFlight, DrawAnswered(requests[r]),
           requests[r].at = "ready", UNCHANGED server,
           Moves(r, Over)
    PROVE  DrawRight' /\ FacesRight'
<1>0. Types /\ version \in Nat /\ draws \in Seq(Nat) /\ r \in DOMAIN requests
  BY DEF ScreenInv, IInv, Types, InFlight
<1>1. Over.kind = "over" /\ (~met'.missed => ~met.missed)
  BY DEF Over, Moves
<1>2. /\ requests[r].kind = "draw"
      /\ UNCHANGED <<version, draws, torn, savedSeq>>
      /\ shown' = requests[r].draw /\ faces' = [i \in Stubs |-> 0] /\ stale' = FALSE
      /\ version' \in Nat /\ version <= version' /\ draws' \in Seq(Nat)
  BY <1>0 DEF server, DrawAnswered, FaceDown, AfterDraw
<1>3. DrawFits(Over, version', draws', savedSeq') /\ FaceFits(Over, shown', torn')
  BY <1>1 DEF DrawFits, FaceFits
<1>4. ~met.missed /\ ~met.tangled =>
          shown' = Len(draws') /\ (stale' <=> Stale(shown, version)')
  <2> SUFFICES ASSUME ~met.missed, ~met.tangled
               PROVE  shown' = Len(draws') /\ (stale' <=> Stale(shown, version)')
    OBVIOUS
  <2>1. requests[r].draw = Len(draws) /\ draws[Len(draws)] = version
    BY <1>0, <1>2 DEF ScreenInv, DrawRight, DrawFits
  <2>2. ~Stale(shown, version)'
    BY <1>2, <2>1 DEF Stale
  <2>3. ~stale'
    BY <1>2
  <2> QED
    BY <1>2, <2>1, <2>2, <2>3, Zenon
<1>5. DrawRight'
  <2>1. Over.kind \in {requests[r].kind, "over", "lost"} /\ requests[r].kind # "save"
    BY <1>1, <1>2
  <2> QED
    BY <1>1, <1>2, <1>3, <1>4, <2>1, DrawMoves, Zenon
<1>6. ~met.missed /\ ~met.crossed => \A i \in Stubs : faces'[i] = Face(shown', i, torn')
  BY <1>0, <1>2 DEF ScreenInv, FacesRight, FaceFits, Face
<1>7. FacesRight'
  BY <1>1, <1>2, <1>3, <1>6, FacesMove
<1> QED
  BY <1>5, <1>7

LEMMA TapTaken ==
    ASSUME ScreenInv, NEW r \in InFlight, TapAnswered(requests[r]),
           requests[r].at = "ready", UNCHANGED server,
           Moves(r, Over)
    PROVE  DrawRight' /\ FacesRight'
<1> PICK q : q = requests[r]
  OBVIOUS
<1>0. /\ Types /\ version \in Nat /\ draws \in Seq(Nat) /\ faces \in [Stubs -> Nat]
      /\ r \in DOMAIN requests /\ q \in Request
      /\ Happened(q, saveSeq, Len(draws), torn)
  BY DEF ScreenInv, IInv, Types, Told, InFlight
<1>1. Over.kind = "over" /\ (~met'.missed => ~met.missed)
  BY DEF Over, Moves
<1>2. /\ q.kind = "tap" /\ q.at = "ready"
      /\ UNCHANGED <<version, draws, torn, shown, stale, savedSeq>>
      /\ faces' = IF shown = 0 THEN faces ELSE [faces EXCEPT ![q.stub] = q.draw]
      /\ version' \in Nat /\ version <= version' /\ draws' \in Seq(Nat)
  BY <1>0 DEF server, TapAnswered
<1>3. DrawFits(Over, version', draws', savedSeq') /\ FaceFits(Over, shown', torn')
  BY <1>1 DEF DrawFits, FaceFits
<1>4. ~Drawn(r) /\ ~Newer(r)
  BY <1>2 DEF Drawn, Newer
<1>5. DrawRight'
  <2>1. ~met'.missed /\ ~met.tangled =>
          /\ (\E x : Drawn(x)') \/ shown' = Len(draws')
          /\ (\E x : Drawn(x)') \/ (\E x : Newer(x)') \/ (stale' <=> Stale(shown, version)')
    BY <1>2, <1>4, DrawStays, Zenon
  <2>2. Over.kind \in {requests[r].kind, "over", "lost"}
    BY <1>1
  <2> QED
    BY <1>2, <1>3, <2>1, <2>2, DrawMoves, Zenon
<1>6. ASSUME ~met.missed, ~met.crossed, NEW i \in Stubs
      PROVE  faces'[i] = Face(shown', i, torn') \/ \E x : Tears(x, i)'
  <2>1. q \in Taps /\ q.draw = shown
    BY <1>0, <1>2, <1>6, RequestShape DEF ScreenInv, FacesRight, FaceFits
  <2>2. q.stub \in Stubs /\ shown # 0 /\ <<shown, q.stub>> \in torn
    BY <1>0, <1>2, <2>1 DEF Taps, Happened, Torn
  <2>3. CASE i = q.stub
    BY <1>0, <1>2, <2>1, <2>2, <2>3 DEF Face
  <2>4. CASE i # q.stub
    <3>1. faces'[i] = faces[i]
      BY <1>0, <1>2, <2>2, <2>4
    <3>2. ~Tears(r, i)
      BY <2>4 DEF Tears, IsTap
    <3>3. \A x : Tears(x, i) => Tears(x, i)'
      BY <3>2, OthersStay
    <3>4. faces[i] = Face(shown, i, torn) \/ \E x : Tears(x, i)
      BY <1>6 DEF ScreenInv, FacesRight
    <3> QED
      BY <1>2, <3>1, <3>3, <3>4
  <2> QED
    BY <2>3, <2>4
<1>7. FacesRight'
  BY <1>1, <1>2, <1>3, <1>6, FacesMove
<1> QED
  BY <1>5, <1>7

\* A failure that nothing has come of on the server, or is missed.
LEMMA ScreenFails ==
    ASSUME ScreenInv, NEW r \in InFlight, Fail(r)
    PROVE  MetOK' /\ DrawRight' /\ FacesRight'
<1>0. /\ Types /\ MetOK /\ version \in Nat /\ draws \in Seq(Nat)
      /\ r \in DOMAIN requests /\ requests[r] \in Live
  <2>1. Types /\ MetOK /\ r \in DOMAIN requests /\ requests[r] \in Request
    BY DEF ScreenInv, IInv, InFlight, Types
  <2>2. requests[r] \in Live
    BY <2>1, RequestShape DEF InFlight, Live
  <2> QED
    BY <2>1, <2>2 DEF Types
<1>1. PICK end, missed : /\ end \in Request /\ end.kind \in {"over", "lost"}
                         /\ missed \in BOOLEAN /\ Settle(r, end, missed)
                         /\ ~missed => requests[r].at = "sent"
  <2>1. Over \in Request /\ Over.kind = "over"
    BY DEF Over, Request
  <2>2. Lost(requests[r]) \in Request /\ Lost(requests[r]).kind = "lost"
    BY <1>0 DEF Lost, Request, Losts
  <2>3. CASE Settle(r, Over, requests[r].at # "sent")
    BY <2>1, <2>3
  <2>4. CASE requests[r].at = "sent" /\ Settle(r, Lost(requests[r]), FALSE)
    BY <2>2, <2>4
  <2> QED
    BY <2>3, <2>4 DEF Fail
<1>2. /\ UNCHANGED <<version, draws, torn, shown, faces, stale, savedSeq>>
      /\ version' \in Nat /\ version <= version' /\ draws' \in Seq(Nat)
  BY <1>0 DEF Fail, server
<1>3. Moves(r, end) /\ MetOK' /\ (met'.missed <=> met.missed \/ missed)
  BY <1>0, <1>1, SettleMoves
<1>4. ~met'.missed => ~met.missed /\ requests[r].at = "sent"
  BY <1>1, <1>3
<1>5. DrawFits(end, version', draws', savedSeq') /\ FaceFits(end, shown', torn')
  BY <1>1 DEF DrawFits, FaceFits
<1>6. requests[r].at = "sent" => ~Drawn(r) /\ ~Newer(r) /\ \A i : ~Tears(r, i)
  BY DEF Drawn, Newer, Tears
<1>a. end.kind \in {requests[r].kind, "over", "lost"}
  BY <1>1
<1>7. DrawRight'
  <2>1. ~met'.missed /\ ~met.tangled =>
          /\ (\E x : Drawn(x)') \/ shown' = Len(draws')
          /\ (\E x : Drawn(x)') \/ (\E x : Newer(x)') \/ (stale' <=> Stale(shown, version)')
    BY <1>2, <1>3, <1>4, <1>6, DrawStays, Zenon
  <2> QED
    BY <1>2, <1>3, <1>5, <1>a, <2>1, DrawMoves, Zenon
<1>8. ASSUME ~met'.missed, ~met.crossed, NEW i \in Stubs
      PROVE  faces'[i] = Face(shown', i, torn') \/ \E x : Tears(x, i)'
  <2>1. \A x : Tears(x, i) => Tears(x, i)'
    BY <1>3, <1>4, <1>6, <1>8, OthersStay
  <2> QED
    BY <1>2, <1>4, <1>8, <2>1 DEF ScreenInv, FacesRight
<1>9. FacesRight'
  BY <1>2, <1>3, <1>5, <1>8, <1>a, FacesMove
<1> QED
  BY <1>3, <1>7, <1>9

LEMMA AnswersKeepScreen ==
    ASSUME ScreenInv, NEW r \in InFlight, Answer(r)
    PROVE  MetOK' /\ DrawRight' /\ FacesRight'
<1>1. UNCHANGED server /\ Moves(r, Over) /\ requests[r].at = "ready" /\ MetOK'
  <2>1. Types /\ MetOK /\ Over \in Request /\ Over.kind = "over" /\ Settle(r, Over, FALSE)
    BY DEF Answer, ScreenInv, IInv, Over, Request
  <2>2. Moves(r, Over) /\ MetOK'
    BY <2>1, SettleMoves
  <2> QED
    BY <2>2 DEF Answer
<1>2. CASE SaveAnswered(requests[r])
  <2>1. requests[r].kind = "save" /\ savedSeq \in Nat /\ requests[r].seq \in Nat
    <3>1. requests[r] \in Request /\ savedSeq \in Nat
      BY DEF ScreenInv, IInv, Types, InFlight
    <3> QED
      BY <1>2, <3>1, RequestShape DEF SaveAnswered, Saves
  <2>2. CASE requests[r].seq < savedSeq
    <3>1. ~(requests[r].seq >= savedSeq)
      BY <2>1, <2>2
    <3> QED
      BY <1>1, <1>2, <2>1, <2>2, <3>1, SaveIgnored DEF SaveAnswered
  <2>3. CASE ~(requests[r].seq < savedSeq)
    BY <1>1, <1>2, <2>1, <2>3, ViewTaken DEF SaveAnswered
  <2> QED
    BY <2>2, <2>3
<1>3. CASE PrizesAnswered(requests[r])
  BY <1>1, <1>3, ViewTaken DEF PrizesAnswered
<1>4. CASE DrawAnswered(requests[r])
  BY <1>1, <1>4, DrawTaken
<1>5. CASE TapAnswered(requests[r])
  BY <1>1, <1>5, TapTaken
<1> QED
  BY <1>2, <1>3, <1>4, <1>5 DEF Answer

LEMMA SendsKeepScreen ==
    ASSUME ScreenInv, SaveRoster \/ StepPrizes \/ PressDraw \/ \E i \in Stubs : TapStub(i)
    PROVE  MetOK' /\ DrawRight' /\ FacesRight'
<1>0. Types /\ saveSeq \in Nat /\ savedSeq \in Nat /\ savedSeq <= saveSeq /\ shown \in Nat
  BY DEF ScreenInv, IInv, Types
<1>a. NoView \in View
  BY DEF NoView, View
<1>b. ASSUME Send(SaveRequest), UNCHANGED <<server, shown, faces, stale, savedSeq>>
      PROVE  MetOK' /\ DrawRight' /\ FacesRight'
  <2> PICK q : q = SaveRequest
    OBVIOUS
  <2>1. q \in Request /\ q.kind = "save" /\ q.at = "sent" /\ q.seq >= savedSeq
    BY <1>0, RequestsMade
  <2>2. Send(q)
    BY <1>b
  <2> QED
    BY <1>b, <2>1, <2>2, ScreenSends
<1>1. CASE SaveRoster
  BY <1>1, <1>b DEF SaveRoster
<1>2. CASE StepPrizes
  <2> PICK q : q = [kind |-> "prizes", at |-> "sent", view |-> NoView]
    OBVIOUS
  <2>1. q \in Request /\ q.kind = "prizes" /\ q.at = "sent"
    BY <1>a DEF Request, Live, Steps
  <2>2. Send(q) /\ UNCHANGED <<server, shown, faces, stale, savedSeq>>
    BY <1>2 DEF StepPrizes, page
  <2> QED
    BY <2>1, <2>2, ScreenSends
<1>3. CASE PressDraw
  <2>1. UNCHANGED <<server, shown, faces, stale, savedSeq>>
    BY <1>3 DEF PressDraw
  <2>2. CASE Send(DrawRequest)
    <3> PICK q : q = DrawRequest
      OBVIOUS
    <3>1. q \in Request /\ q.kind = "draw" /\ q.at = "sent" /\ Send(q)
      BY <1>0, <2>2, RequestsMade
    <3> QED
      BY <2>1, <3>1, ScreenSends
  <2>3. CASE Send(SaveRequest)
    BY <1>b, <2>1, <2>3
  <2> QED
    BY <1>3, <2>2, <2>3 DEF PressDraw
<1>4. ASSUME NEW i \in Stubs, TapStub(i) PROVE MetOK' /\ DrawRight' /\ FacesRight'
  <2> PICK q : q = [kind |-> "tap", at |-> "sent", draw |-> shown, stub |-> i]
    OBVIOUS
  <2>1. q \in Request /\ q.kind = "tap" /\ q.at = "sent" /\ q.draw = shown
    BY <1>0, <1>4 DEF TapStub, Request, Live, Taps
  <2>2. Send(q) /\ UNCHANGED <<server, shown, faces, stale, savedSeq>>
    BY <1>4 DEF TapStub
  <2> QED
    BY <2>1, <2>2, ScreenSends
<1> QED
  BY <1>1, <1>2, <1>3, <1>4

LEMMA StepScreenInv == ScreenInv /\ [Next]_vars => ScreenInv'
<1> SUFFICES ASSUME ScreenInv, [Next]_vars PROVE MetOK' /\ DrawRight' /\ FacesRight'
  BY StepIInv DEF ScreenInv
<1>1. CASE SaveRoster \/ StepPrizes \/ PressDraw \/ \E i \in Stubs : TapStub(i)
  BY <1>1, SendsKeepScreen
<1>2. ASSUME NEW r \in InFlight, Commit(r) PROVE DrawRight' /\ FacesRight'
  <2>1. /\ requests[r].at = "sent" /\ UNCHANGED <<page, met>> /\ CarryOut(requests[r])
        /\ requests' = [requests EXCEPT ![r] = Returned(requests[r])]
    BY <1>2 DEF Commit
  <2> QED
    BY <2>1, SaveCommits, PrizesCommit, DrawCommits, TapCommits DEF CarryOut
<1>3. ASSUME NEW r \in InFlight, LatestDraw(r) \/ winners(r)
      PROVE  DrawRight' /\ FacesRight'
  BY <1>3, ScreenReads
<1>4. ASSUME NEW r \in InFlight, Fail(r) PROVE MetOK' /\ DrawRight' /\ FacesRight'
  BY <1>4, ScreenFails
<1>5. ASSUME NEW r \in InFlight, Commit(r) \/ LatestDraw(r) \/ winners(r)
      PROVE  MetOK'
  BY <1>5 DEF Commit, LatestDraw, winners, ScreenInv, MetOK
<1>7. ASSUME NEW r \in InFlight, Answer(r) PROVE MetOK' /\ DrawRight' /\ FacesRight'
  BY <1>7, AnswersKeepScreen
\* An answer that is missed excuses the page from all of it.
<1>8. ASSUME NEW r \in DOMAIN requests, CommitLate(r)
      PROVE  MetOK' /\ DrawRight' /\ FacesRight'
  <2>1. met' = [met EXCEPT !.missed = TRUE]
    BY <1>8 DEF CommitLate
  <2>2. MetOK' /\ met'.missed
    BY <2>1 DEF ScreenInv, MetOK
  <2> QED
    BY <2>2 DEF DrawRight, FacesRight
<1>6. CASE UNCHANGED vars
  <2>1. UNCHANGED <<version, draws, torn, shown, faces, stale, savedSeq, requests, met>>
    BY <1>6 DEF vars, server, page
  <2>2. MetOK' /\ FacesRight'
    BY <2>1 DEF ScreenInv, MetOK, FacesRight, OneSide, Tears, IsTap
  <2>3. DrawRight'
    BY <2>1 DEF ScreenInv, DrawRight, OneView, Drawn, Newer, Stale
  <2> QED
    BY <2>2, <2>3
<1> QED
  BY <1>1, <1>2, <1>3, <1>4, <1>5, <1>6, <1>7, <1>8 DEF Next

---------------------------------------------------------------------------
\* THEOREM: what is on the page, and on its way there, has happened on the
\* server, and the saves are numbered as they were sent.
THEOREM TypeCorrect == Spec => []TypeOK
<1>1. IInv => TypeOK
  BY IInvImplies
<1> QED
  BY <1>1, AlwaysIInv, PTL

\* THEOREM: no name reaches the page before its stub is torn open, whatever is
\* read, answered, overtaken or lost in between.
THEOREM NamesStaySealed == Spec => []SealedTillTorn
<1>1. IInv => SealedTillTorn
  BY IInvImplies
<1> QED
  BY <1>1, AlwaysIInv, PTL

\* THEOREM: a button that is blocked waits for the one save it has sent ahead or
\* for the one draw that has followed it, a free one for neither, and a stub that
\* waits does so for a reveal under way, whatever fails or is lost on the way
\* (app.js:326-350, 374-394).
THEOREM NobodyWaitsInVain == Spec => []NothingStuck
<1>1. IInv => NothingStuck
  BY IInvImplies
<1> QED
  BY <1>1, AlwaysIInv, PTL

\* THEOREM: a page at rest that has missed no answer shows the latest draw, says
\* rightly whether the roster has changed since and has its stubs open where they
\* are on the server, as long as its requests have overlapped only in the ways
\* that ScreenIsCurrent names (applyView, saveNow, draw and reveal in app.js).
THEOREM ScreenTellsTruth == Spec => []ScreenIsCurrent
<1>1. Spec => []ScreenInv
  BY InitScreenInv, StepScreenInv, PTL DEF Spec
<1> QED
  BY <1>1, ScreenInvImplies, PTL
=============================================================================
