------------------------------ MODULE Autosave ------------------------------
(***************************************************************************)
(* The roster box of the page, src/internal/webui/assets/app.js:245-354:   *)
(* what is typed is saved after a pause, saves are sent without waiting    *)
(* for each other, and the draw button saves first what has not been sent. *)
(*                                                                         *)
(* The page numbers its saves 1, 2, ...; save 0 is the text it was loaded  *)
(* with.  Requests reach the server in any order, or not at all, and so do *)
(* the answers: net/http runs every request on its own, and nothing in a   *)
(* save says which one it is.  A request that the page is told has failed, *)
(* a save or a draw, may have been carried out, or may yet be: fetch       *)
(* rejects when the connection breaks (app.js:54), which ends no handler.  *)
(***************************************************************************)
EXTENDS Integers, FiniteSets, SequencesExt

CONSTANTS
    Texts,      \* what the box may hold
    Boot,       \* the text the page was loaded with
    MaxSaves,   \* bound: the saves one page sends
    MaxDraws    \* bound: the draw requests not yet answered, late ones too

ASSUME BootAssumption == Boot \in Texts
ASSUME MaxSavesAssumption == MaxSaves \in Nat
ASSUME MaxDrawsAssumption == MaxDraws \in Nat

VARIABLES
    open,           \* the tab is there
    text,           \* el.roster.value
    pendingText,    \* the text of the last save, {} after a failed one
    timer,          \* saveTimer is running
    savedSeq,       \* the last save whose answer was taken
    flag,           \* what the page says about saving
    saves,          \* what was sent: a sequence of [text, at, landed]
    stored,         \* the save whose text the server has
    draws           \* presses of the button: a set of [at, waits, seq, calm, roster]

vars == <<open, text, pendingText, timer, savedSeq, flag, saves, stored, draws>>

TextOf(s) == IF s = 0 THEN Boot ELSE saves[s].text

\* What the page waits for, and what the server may yet carry out.
InFlight == {s \in DOMAIN saves : saves[s].at \notin {"lost", "done"}}
Landable == {s \in DOMAIN saves : saves[s].at \in {"sent", "keepalive", "lost"}}

Unsent == pendingText # {text}
drawing == \E d \in draws : d.waits
Made == {d \in draws : d.at = "ran"}

Init ==
    /\ open = TRUE /\ text = Boot /\ pendingText = {Boot} /\ timer = FALSE
    /\ savedSeq = 0 /\ flag = "none" /\ saves = <<>> /\ stored = 0
    /\ draws = {}

---------------------------------------------------------------------------
\* The host

\* saveRoster: nothing to do for a text that has been sent already.
SaveRoster ==
    /\ timer' = FALSE
    /\ \/ /\ Unsent
          /\ pendingText' = {text} /\ flag' = "saving"
          /\ saves' = Append(saves, [text |-> text, at |-> "sent", landed |-> FALSE])
       \/ /\ ~Unsent
          /\ UNCHANGED <<pendingText, flag, saves>>

scheduleSave_Not == timer' = timer
scheduleSave == timer' = TRUE

Type(typed) ==
    /\ open /\ typed # text /\ Len(saves) < MaxSaves
    /\ text' = typed /\ flag' = "unsaved"
    /\ scheduleSave
    /\ UNCHANGED <<open, pendingText, savedSeq, saves, stored, draws>>

Blur ==
    /\ open /\ Unsent /\ Len(saves) < MaxSaves
    /\ SaveRoster
    /\ UNCHANGED <<open, text, savedSeq, stored, draws>>

\* Between two keystrokes there is a pause long enough, sooner or later.
TimerFires ==
    /\ open /\ timer
    /\ SaveRoster
    /\ UNCHANGED <<open, text, savedSeq, stored, draws>>

\* Whether the server is done with all that was ever sent: no save can reach
\* its database any more, and what it has is the newest that did.  Answers may
\* be outstanding.
Calm == Landable = {} /\ \A s \in DOMAIN saves : saves[s].landed => s <= stored

\* The draw is posted once the save that the press has sent, if any, is
\* answered.
Press_AtOnce(flushed) ==
    [at |-> "posted", waits |-> TRUE, seq |-> Len(saves'), calm |-> Calm, roster |-> 0]
Press(flushed) ==
    [at |-> IF flushed THEN "flushing" ELSE "posted", waits |-> TRUE,
     seq |-> Len(saves'), calm |-> Calm, roster |-> 0]

ClickDraw ==
    /\ open /\ ~drawing /\ Cardinality(draws) < MaxDraws
    /\ \/ /\ Unsent /\ Len(saves) < MaxSaves
          /\ SaveRoster
       \/ /\ ~Unsent
          /\ UNCHANGED <<timer, pendingText, flag, saves>>
    /\ draws' = draws \cup {Press(Unsent)}
    /\ UNCHANGED <<open, text, savedSeq, stored>>

\* pagehide: what has not been sent goes out in a request that survives the
\* page; what is under way may be cancelled.
Close ==
    /\ open
    /\ open' = FALSE /\ timer' = FALSE
    /\ saves' = IF Unsent
                  THEN Append(saves, [text |-> text, at |-> "keepalive", landed |-> FALSE])
                  ELSE saves
    /\ UNCHANGED <<text, pendingText, savedSeq, flag, stored, draws>>

---------------------------------------------------------------------------
\* The network and the server

\* PUT .../roster: the whole text replaces the one that is there.
Apply(s) ==
    /\ s \in Landable
    /\ stored' = s
    /\ saves' = [saves EXCEPT ![s].at = IF open /\ @ = "sent" THEN "applied" ELSE "done",
                              ![s].landed = TRUE]
    /\ UNCHANGED <<open, text, pendingText, timer, savedSeq, flag, draws>>

\* The browser drops a request whose page is gone.
Cancel(s) ==
    /\ ~open /\ saves[s].at \in {"sent", "applied"}
    /\ saves' = [saves EXCEPT ![s].at = "done"]
    /\ UNCHANGED <<open, text, pendingText, timer, savedSeq, flag, stored, draws>>

\* Waiting for this save is over, however it went.
Flushed(s, well) ==
    draws' = {IF d.at = "flushing" /\ d.seq = s
                THEN [d EXCEPT !.at = "posted", !.calm = @ /\ well]
                ELSE d : d \in draws}

Outdated(s) == s < savedSeq

Taken(s) == s

Succeed(s) ==
    /\ open /\ saves[s].at = "applied"
    /\ saves' = [saves EXCEPT ![s].at = "done"]
    /\ IF Outdated(s) THEN UNCHANGED <<savedSeq, flag>>
       ELSE savedSeq' = Taken(s) /\ flag' = "saved"
    /\ Flushed(s, TRUE)
    /\ UNCHANGED <<open, text, pendingText, timer, stored>>

AfterFailure_Kept == pendingText
AfterFailure == {}

\* The page is told that its request has failed.  Where the server has not
\* carried it out so far, it may still do so, or never hear of it.
Fail(s) ==
    /\ open /\ saves[s].at \in {"sent", "applied"}
    /\ \E left \in {"lost", "done"} :
          /\ left = "lost" => s \in Landable
          /\ saves' = [saves EXCEPT ![s].at = left]
    /\ IF Outdated(s) THEN UNCHANGED <<pendingText, flag>>
       ELSE pendingText' = AfterFailure /\ flag' = "failed"
    /\ Flushed(s, FALSE)
    /\ UNCHANGED <<open, text, timer, savedSeq, stored>>

\* POST .../draws, whether the page still waits for it or not.
RunDraw(d) ==
    /\ d.at = "posted"
    /\ draws' = (draws \ {d}) \cup {[d EXCEPT !.at = "ran", !.roster = stored]}
    /\ UNCHANGED <<open, text, pendingText, timer, savedSeq, flag, saves, stored>>

\* Its answer, or an error: the button is free again.  A request whose answer is
\* an error may still run; late requests that are alike count as one.
DrawAnswered(d) ==
    /\ open /\ d.waits /\ d.at # "flushing"
    /\ draws' = (draws \ {d}) \cup (IF d \in Made THEN {} ELSE {[d EXCEPT !.waits = FALSE]})
    /\ UNCHANGED <<open, text, pendingText, timer, savedSeq, flag, saves, stored>>

Answered == \E s \in DOMAIN saves : Succeed(s) \/ Fail(s)

Next ==
    \/ \E typed \in Texts : Type(typed)
    \/ Blur
    \/ TimerFires
    \/ ClickDraw
    \/ Close
    \/ \E s \in DOMAIN saves : Apply(s) \/ Cancel(s)
    \/ Answered
    \/ \E d \in draws : RunDraw(d) \/ DrawAnswered(d)

\* The browser runs timers that are due, and a fetch ends: with an answer, or
\* when the connection does (main.go:80-84).
Fairness == WF_vars(TimerFires) /\ WF_vars(Answered)

Spec == Init /\ [][Next]_vars /\ Fairness

---------------------------------------------------------------------------
\* Type correctness: an answer is taken for a save that was sent, and a timer
\* runs only where a save may follow.
TypeOK ==
    /\ open \in BOOLEAN /\ timer \in BOOLEAN
    /\ text \in Texts /\ pendingText \in {{}} \cup {{t} : t \in Texts}
    /\ flag \in {"none", "unsaved", "saving", "saved", "failed"}
    /\ saves \in Seq([text : Texts, landed : BOOLEAN,
                      at : {"sent", "keepalive", "applied", "lost", "done"}])
    /\ savedSeq \in 0 .. Len(saves) /\ stored \in 0 .. Len(saves)
    /\ timer => Len(saves) < MaxSaves
    /\ draws \subseteq [at : {"flushing", "posted", "ran"}, waits : BOOLEAN,
                       seq : 0 .. Len(saves), calm : BOOLEAN, roster : 0 .. Len(saves)]

Quiet == open /\ ~timer /\ InFlight = {}

\* The newest text reached the server: the last save sent holds it and was
\* carried out, if there was one.
NewestLanded ==
    saves # <<>> => Last(saves).landed /\ Last(saves).text = text

\* A page at rest that believes itself saved is right that the server has seen
\* the text on the screen, whatever failed, and in whatever order, before.
NothingForgotten == Quiet /\ pendingText # {} => ~Unsent /\ NewestLanded

\* A draw pressed when no save could reach the server any more, whose own save
\* went well, is made from the text that was on the screen at the press, or from
\* one typed after that (app.js:328-330) -- answers outstanding then, saves
\* failed before, and presses whose requests the page has given up included.
CalmDrawSeesScreen ==
    \A d \in Made : d.calm => d.roster >= d.seq

\* Once the host stops typing, the page is closed, or knows that it has
\* something to send again, or has had the text on the screen carried out, and
\* stays so.
EndsUp ==
    <>[][UNCHANGED text]_vars
        => <>[](~open \/ pendingText = {} \/ (~Unsent /\ NewestLanded))

\* "A slower earlier save must not overwrite a newer one's result"
\* (app.js:284): when everything is answered, "Saved" is said of the text on
\* the screen.
SavedMeansSaved == Quiet /\ flag = "saved" => TextOf(stored) = text

\* "Everything is saved. Refresh the page" (README.md:28): where no save has
\* failed since, a page at rest shows the text that a refresh would bring back.
RefreshKeepsText == Quiet /\ pendingText # {} => TextOf(stored) = text

\* "The draw runs against what is on screen rather than what was last saved"
\* (app.js:328-329).
DrawSeesScreen ==
    \A d \in Made : d.roster >= d.seq \/ TextOf(d.roster) = TextOf(d.seq)

\* "A roster typed and then immediately closed should still land"
\* (app.js:309).
ClosedLands == ~open /\ Landable = {} => TextOf(stored) = text
=============================================================================
