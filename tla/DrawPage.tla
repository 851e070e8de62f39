------------------------------ MODULE DrawPage ------------------------------
(***************************************************************************)
(* The draw on the page, src/internal/webui/assets/app.js:111-123 and      *)
(* 325-414, and the answers it is made of, src/internal/httpapi/           *)
(* handlers.go.  One page of one raffle sends saves of the roster, changes *)
(* of the number of prizes, draws and reveals, without waiting for the     *)
(* answers, which come in any order or not at all.                         *)
(*                                                                         *)
(* A save and a change of the prizes are answered with the whole page: the *)
(* transaction that changes the raffle, the latest draw and its stubs are  *)
(* three reads, with other requests between them.  A draw is the version   *)
(* of the roster it ran on; draws are told apart by their place in the     *)
(* history, and the latest is the one made last (draws.go:102-103 order by *)
(* created_at before id, which Timestamps shows is not always the same).   *)
(* A face is the draw whose winner is printed on a stub, 0 while it is     *)
(* face down.                                                              *)
(*                                                                         *)
(* A request that the page is told has failed may have been carried out,   *)
(* may never be, or is lost to the page alone: the server may yet carry it *)
(* out.                                                                    *)
(***************************************************************************)
EXTENDS Integers, SequencesExt

CONSTANTS
    Stubs,          \* the prizes
    MaxRequests     \* bound: the requests one page sends

ASSUME MaxRequestsAssumption == MaxRequests \in Nat

VARIABLES
    version,    \* events.roster_version
    draws,      \* the draws: the roster_version of each
    torn,       \* the stubs with a revealed_at: pairs of a draw and a prize
    shown,      \* state.draw.id, 0 for none
    faces,      \* state.draw.winners
    stale,      \* state.stale
    drawing,    \* state.drawing
    flush,      \* the save that the draw button waits for, 0 for none
    revealing,  \* state.revealing
    saveSeq,    \* the saves sent
    savedSeq,   \* the newest save whose answer was taken
    requests,   \* what the page has sent
    met         \* what has happened to the requests so far, for the properties

server == <<version, draws, torn>>
page == <<shown, faces, stale, drawing, flush, revealing, saveSeq, savedSeq>>
vars == <<server, page, requests, met>>

Over == [kind |-> "over", at |-> "over"]
Lost(request) == [kind |-> "lost", at |-> "lost", request |-> request]

\* What the page waits for.
InFlight == {r \in DOMAIN requests : requests[r].kind \notin {"over", "lost"}}
Kinds(sent) == {requests[r].kind : r \in sent}
NoView == [version |-> 0, draw |-> 0, faces |-> [i \in Stubs |-> 0]]

Init ==
    /\ version = 0 /\ draws = <<>> /\ torn = {}
    /\ shown = 0 /\ faces = [i \in Stubs |-> 0] /\ stale = FALSE
    /\ drawing = FALSE /\ flush = 0 /\ revealing = {}
    /\ saveSeq = 0 /\ savedSeq = 0 /\ requests = <<>>
    /\ met = [tangled |-> FALSE, crossed |-> FALSE, missed |-> FALSE]

---------------------------------------------------------------------------
\* The host

\* Views and draws tangle with requests of another kind; taps cross whatever is
\* not a tap.
Meets(history, others, request) ==
    [history EXCEPT
        !.tangled = @ \/ (request.kind # "tap" /\ others \ {"tap", request.kind} # {}),
        !.crossed = @ \/ \E kind \in others : (kind = "tap") # (request.kind = "tap")]

\* Room is left for the draw that is to follow a save.
Room == MaxRequests - (IF flush = 0 THEN 0 ELSE 1)

\* api: a request joins those under way.
Send(request) ==
    /\ Len(requests) < Room
    /\ requests' = Append(requests, request)
    /\ met' = Meets(met, Kinds(InFlight), request)

NextSeq == saveSeq + 1
SaveRequest == [kind |-> "save", at |-> "sent", seq |-> NextSeq, view |-> NoView]
DrawRequest == [kind |-> "draw", at |-> "sent", draw |-> 0]

SaveRoster ==
    /\ Send(SaveRequest)
    /\ saveSeq' = saveSeq + 1
    /\ UNCHANGED <<server, shown, faces, stale, drawing, flush, revealing, savedSeq>>

StepPrizes ==
    /\ Send([kind |-> "prizes", at |-> "sent", view |-> NoView])
    /\ UNCHANGED <<server, page>>

\* The button is blocked at once.  What is on the screen and has not been sent
\* is saved first, and the draw waits for the answer; otherwise it is posted.
PressDraw ==
    /\ ~drawing /\ drawing' = TRUE
    /\ \/ Send(DrawRequest) /\ UNCHANGED <<flush, saveSeq>>
       \/ /\ Len(requests) + 1 < Room
          /\ Send(SaveRequest)
          /\ saveSeq' = saveSeq + 1 /\ flush' = Len(requests')
    /\ UNCHANGED <<server, shown, faces, stale, revealing, savedSeq>>

TapStub(i) ==
    /\ shown # 0 /\ faces[i] = 0 /\ i \notin revealing
    /\ Send([kind |-> "tap", at |-> "sent", draw |-> shown, stub |-> i])
    /\ revealing' = revealing \cup {i}
    /\ UNCHANGED <<server, shown, faces, stale, drawing, flush, saveSeq, savedSeq>>

---------------------------------------------------------------------------
\* The server

ReplaceRoster(request) ==
    /\ request.kind = "save"
    /\ version' = version + 1
    /\ UNCHANGED <<draws, torn>>

UpdateEvent(request) ==
    /\ request.kind = "prizes"
    /\ UNCHANGED server

RunDraw(request) ==
    /\ request.kind = "draw"
    /\ draws' = Append(draws, version)
    /\ UNCHANGED <<version, torn>>

RevealWinner(request) ==
    /\ request.kind = "tap"
    /\ torn' = torn \cup {<<request.draw, request.stub>>}
    /\ UNCHANGED <<version, draws>>

CarryOut(request) ==
    \/ ReplaceRoster(request) \/ UpdateEvent(request)
    \/ RunDraw(request) \/ RevealWinner(request)

\* What the transaction returns: a whole page has two reads to come.
Returned(request) ==
    CASE request.kind \in {"save", "prizes"} ->
            [request EXCEPT !.at = "committed", !.view.version = version']
      [] request.kind = "draw" -> [request EXCEPT !.at = "ready", !.draw = Len(draws')]
      [] request.kind = "tap" -> [request EXCEPT !.at = "ready"]

Commit(r) ==
    /\ requests[r].at = "sent"
    /\ CarryOut(requests[r])
    /\ requests' = [requests EXCEPT ![r] = Returned(@)]
    /\ UNCHANGED <<page, met>>

\* For a page that has given it up already.
CommitLate(r) ==
    /\ requests[r].kind = "lost"
    /\ CarryOut(requests[r].request)
    /\ requests' = [requests EXCEPT ![r] = Over]
    /\ met' = [met EXCEPT !.missed = TRUE]
    /\ UNCHANGED page

LatestDraw(r) ==
    /\ requests[r].at = "committed"
    /\ requests' = [requests EXCEPT ![r].at = "found", ![r].view.draw = Len(draws)]
    /\ UNCHANGED <<server, page, met>>

hidden_Never(d, i) == d
hidden(d, i) == IF <<d, i>> \in torn THEN d ELSE 0

winners(r) ==
    /\ requests[r].at = "found"
    /\ requests' = [requests EXCEPT
         ![r].at = "ready",
         ![r].view.faces = [i \in Stubs |-> hidden(requests[r].view.draw, i)]]
    /\ UNCHANGED <<server, page, met>>

Stale(draw, current) == draw # 0 /\ draws[draw] # current

---------------------------------------------------------------------------
\* The answers

\* A request is over for the page.  If the draw button waits for it, the draw is
\* posted, however it went.
Settle(r, end, missed) ==
    LET history == [met EXCEPT !.missed = @ \/ missed]
        left    == [requests EXCEPT ![r] = end]
    IN
    \/ /\ flush # r
       /\ requests' = left /\ met' = history /\ flush' = flush
    \/ /\ flush = r
       /\ requests' = Append(left, DrawRequest)
       /\ met' = Meets(history, Kinds(InFlight \ {r}), DrawRequest)
       /\ flush' = 0

applyView(view) ==
    /\ shown' = view.draw /\ faces' = view.faces
    /\ stale' = Stale(view.draw, view.version)

SaveAnswered(request) ==
    /\ request.kind = "save"
    /\ IF request.seq < savedSeq
         THEN UNCHANGED <<savedSeq, shown, faces, stale>>
         ELSE savedSeq' = request.seq /\ applyView(request.view)
    /\ UNCHANGED <<drawing, revealing, saveSeq>>

PrizesAnswered(request) ==
    /\ request.kind = "prizes"
    /\ applyView(request.view)
    /\ UNCHANGED <<drawing, revealing, saveSeq, savedSeq>>

AfterDraw == FALSE

FaceDown_Kept == faces
FaceDown == [i \in Stubs |-> 0]

DrawAnswered(request) ==
    /\ request.kind = "draw"
    /\ shown' = request.draw /\ faces' = FaceDown /\ stale' = AfterDraw
    /\ drawing' = FALSE /\ revealing' = {}
    /\ UNCHANGED <<saveSeq, savedSeq>>

\* The winner goes to wherever its prize is on the page by now; if the draw has
\* gone from it, that throws, and there is nothing left for catch to undo.
TapAnswered(request) ==
    /\ request.kind = "tap"
    /\ revealing' = revealing \ {request.stub}
    /\ faces' = IF shown = 0 THEN faces
                ELSE [faces EXCEPT ![request.stub] = request.draw]
    /\ UNCHANGED <<shown, stale, drawing, saveSeq, savedSeq>>

Answer(r) ==
    LET request == requests[r] IN
    /\ request.at = "ready"
    /\ \/ SaveAnswered(request) \/ PrizesAnswered(request)
       \/ DrawAnswered(request) \/ TapAnswered(request)
    /\ Settle(r, Over, FALSE)
    /\ UNCHANGED server

\* catch: what the failed request had blocked is open again.
Unblock_Drawing(request) ==
    /\ revealing' = IF request.kind = "tap" THEN revealing \ {request.stub} ELSE revealing
    /\ UNCHANGED drawing
Unblock(request) ==
    /\ drawing' = (drawing /\ request.kind # "draw")
    /\ revealing' = IF request.kind = "tap" THEN revealing \ {request.stub} ELSE revealing

Fail(r) ==
    /\ Unblock(requests[r])
    /\ \/ Settle(r, Over, requests[r].at # "sent")
       \/ requests[r].at = "sent" /\ Settle(r, Lost(requests[r]), FALSE)
    /\ UNCHANGED <<server, shown, faces, stale, saveSeq, savedSeq>>

Next ==
    \/ SaveRoster
    \/ StepPrizes
    \/ PressDraw
    \/ \E i \in Stubs : TapStub(i)
    \/ \E r \in InFlight :
         Commit(r) \/ LatestDraw(r) \/ winners(r) \/ Answer(r) \/ Fail(r)
    \/ \E r \in DOMAIN requests : CommitLate(r)

Spec == Init /\ [][Next]_vars

---------------------------------------------------------------------------
\* Type correctness: the saves are numbered from 1, and what is on the page has
\* happened on the server.
TypeOK ==
    /\ version \in Nat
    /\ draws \in Seq(0 .. version) /\ torn \subseteq (DOMAIN draws) \X Stubs
    /\ shown \in 0 .. Len(draws) /\ faces \in [Stubs -> 0 .. Len(draws)]
    /\ stale \in BOOLEAN /\ drawing \in BOOLEAN /\ revealing \subseteq Stubs
    /\ saveSeq \in 0 .. MaxRequests /\ savedSeq \in 0 .. saveSeq
    /\ \A r \in InFlight : requests[r].kind = "save" => requests[r].seq \in 1 .. saveSeq

\* No name reaches the page before its stub is torn open on the server, however
\* reads and reveals interleave ("The API never fills them in before the stub
\* is torn open", models.go:43-44).
SealedTillTorn == \A i \in Stubs : faces[i] # 0 => <<faces[i], i>> \in torn

\* The button waits for the save it has sent ahead or for the draw that is under
\* way, never for both or for two draws, and it is free when neither is; a stub
\* waits ("Tearing...") only while some answer about it is still to come
\* (app.js:326-350, 374, 382, 394).
NothingStuck ==
    /\ Cardinality({r \in InFlight : requests[r].kind = "draw" \/ r = flush})
          = IF drawing THEN 1 ELSE 0
    /\ \A i \in revealing : \E r \in InFlight :
         requests[r].kind = "tap" /\ requests[r].stub = i

Quiet == InFlight = {}

\* A page at rest that has missed no answer shows the latest draw and says
\* rightly whether the roster has changed since, as long as no draw and no two
\* kinds of view overlap.
DrawIsCurrent ==
    Quiet /\ ~met.missed /\ ~met.tangled =>
        shown = Len(draws) /\ stale = Stale(shown, version)

\* Its stubs are open exactly where they are on the server, with the winners of
\* that draw, if no reveal overlaps anything but reveals.
FacesAreCurrent ==
    Quiet /\ ~met.missed /\ ~met.crossed =>
        \A i \in Stubs : faces[i] = hidden(shown, i)

\* Which overlaps leave the screen right: saves may overlap saves, steps of the
\* prizes each other, and reveals reveals; for the draw and its flag, reveals
\* may overlap anything (app.js:283-290, 340-348, 380-391, 409-412).
ScreenIsCurrent == DrawIsCurrent /\ FacesAreCurrent

\* "Two people tapping the same stub should both see the same name"
\* (draws.go:144-145): a name on a stub is that of the winner of the draw shown.
FacesAreWinners == \A i \in Stubs : faces[i] \in {0, shown}

\* A draw records the roster it ran on "and the page says so when they no longer
\* match" (README.md:50): so does a page at rest that shows the latest draw and
\* has missed no answer.
EditMarksStale ==
    Quiet /\ ~met.missed /\ shown = Len(draws) => stale = Stale(shown, version)

\* "Return the whole page state so the browser never has to guess what changed"
\* (handlers.go:297-298): a page at rest that has missed no answer shows the
\* latest draw.
LatestIsShown == Quiet /\ ~met.missed => shown = Len(draws)
=============================================================================
