--------------------------- MODULE AutosaveProofs ---------------------------
(***************************************************************************)
(* Autosave, for any texts and any number of saves.                        *)
(*                                                                         *)
(* NothingForgotten speaks of a page at rest; before that, the text is     *)
(* either waiting for the timer, or in the last save, which is under way   *)
(* or has been carried out.  CalmDrawSeesScreen rests on order: when the   *)
(* button was pressed no save could reach the server any more, not even    *)
(* one the page had given up, so nothing older than the draw's own save    *)
(* comes after it.                                                         *)
(***************************************************************************)
EXTENDS Autosave, TLAPS

Save == [text : Texts, at : {"sent", "keepalive", "applied", "lost", "done"}, landed : BOOLEAN]
Drawn == [at : {"flushing", "posted", "ran"}, waits : BOOLEAN,
          seq : Nat, calm : BOOLEAN, roster : Nat]

Types ==
    /\ open \in BOOLEAN /\ timer \in BOOLEAN
    /\ text \in Texts /\ pendingText \in {{}} \cup {{t} : t \in Texts}
    /\ flag \in {"none", "unsaved", "saving", "saved", "failed"}
    /\ saves \in Seq(Save)
    /\ savedSeq \in Nat /\ savedSeq <= Len(saves)
    /\ stored \in Nat /\ stored <= Len(saves)
    /\ timer => Len(saves) < MaxSaves
    /\ draws \subseteq Drawn
    /\ \A d \in draws : d.seq <= Len(saves) /\ d.roster <= Len(saves)

\* What has been answered well was carried out.
AppliedLanded == \A s \in DOMAIN saves : saves[s].at = "applied" => saves[s].landed

\* What the page takes for sent is the last save, under way or carried out.
LastIsPending ==
    open /\ pendingText # {} /\ saves # <<>> =>
        /\ pendingText = {saves[Len(saves)].text}
        /\ saves[Len(saves)].landed \/ saves[Len(saves)].at \notin {"lost", "done"}

\* What is on the screen and not sent will be, when the timer fires.
TimerWatches == open /\ pendingText # {} /\ text \notin pendingText => timer

\* Nothing older than a calm draw's save can reach the server.
CalmDraw ==
    \A d \in draws : d.calm =>
        /\ \A s \in Landable : d.seq <= s
        /\ d.at = "flushing" => d.seq > 0 /\ (saves[d.seq].landed => d.seq <= stored)
        /\ d.at = "posted" => d.seq <= stored
        /\ d.at = "ran" => d.seq <= d.roster

IInv == Types /\ AppliedLanded /\ LastIsPending /\ TimerWatches /\ CalmDraw

---------------------------------------------------------------------------
LEMMA IInvImplies == IInv => TypeOK /\ NothingForgotten /\ CalmDrawSeesScreen
<1> SUFFICES ASSUME IInv PROVE TypeOK /\ NothingForgotten /\ CalmDrawSeesScreen
  OBVIOUS
<1>0. Types /\ LastIsPending /\ TimerWatches /\ CalmDraw /\ Len(saves) \in Nat
  BY DEF IInv, Types
<1>1. TypeOK
  <2>1. draws \subseteq [at : {"flushing", "posted", "ran"}, waits : BOOLEAN,
                        seq : 0 .. Len(saves), calm : BOOLEAN, roster : 0 .. Len(saves)]
    BY <1>0 DEF Types, Drawn
  <2>2. savedSeq \in 0 .. Len(saves) /\ stored \in 0 .. Len(saves)
    BY <1>0 DEF Types
  <2> QED
    BY <1>0, <2>1, <2>2 DEF Types, TypeOK, Save
<1>2. NothingForgotten
  <2> SUFFICES ASSUME Quiet, pendingText # {} PROVE ~Unsent /\ NewestLanded
    BY DEF NothingForgotten
  <2>1. text \in pendingText
    BY <1>0 DEF Quiet, TimerWatches
  <2>2. pendingText = {text}
    BY <1>0, <2>1 DEF Types
  <2>3. ASSUME saves # <<>>
        PROVE  saves[Len(saves)].landed /\ saves[Len(saves)].text = text
    <3>1. Len(saves) \in DOMAIN saves
      BY <1>0, <2>3 DEF Types
    <3>2. saves[Len(saves)].at \in {"lost", "done"}
      BY <3>1 DEF Quiet, InFlight
    <3> QED
      BY <1>0, <2>2, <2>3, <3>2 DEF LastIsPending, Quiet
  <2> QED
    BY <2>2, <2>3 DEF Unsent, NewestLanded, Last
<1>3. CalmDrawSeesScreen
  <2> SUFFICES ASSUME NEW d \in Made, d.calm PROVE d.roster >= d.seq
    BY DEF CalmDrawSeesScreen
  <2>1. d \in draws /\ d.at = "ran" /\ d.seq \in Nat /\ d.roster \in Nat
    BY <1>0 DEF Types, Drawn, Made
  <2> QED
    BY <1>0, <2>1 DEF CalmDraw
<1> QED
  BY <1>1, <1>2, <1>3

LEMMA InitIInv == Init => IInv
<1> SUFFICES ASSUME Init PROVE IInv
  OBVIOUS
<1>1. saves \in Seq(Save) /\ Len(saves) = 0 /\ DOMAIN saves = {}
  BY DEF Init
<1>2. /\ open /\ text = Boot /\ pendingText = {Boot} /\ ~timer /\ timer \in BOOLEAN
      /\ open \in BOOLEAN
      /\ savedSeq = 0 /\ flag = "none" /\ saves = <<>> /\ stored = 0 /\ draws = {}
  BY DEF Init
<1>3. Types
  BY <1>1, <1>2, BootAssumption, MaxSavesAssumption DEF Types, Drawn
<1>4. CalmDraw
  BY <1>2 DEF CalmDraw
<1> QED
  BY <1>1, <1>2, <1>3, <1>4 DEF IInv, AppliedLanded, LastIsPending, TimerWatches

---------------------------------------------------------------------------
\* Saving from the timer, from blur or from the button: what it does to the
\* saves and to what is pending.
LEMMA SaveRosterDoes ==
    ASSUME Types, AppliedLanded, LastIsPending, open, SaveRoster,
           Len(saves) < MaxSaves, UNCHANGED <<open, text>>
    PROVE  /\ saves' \in Seq(Save) /\ pendingText' = {text} /\ timer' = FALSE
           /\ flag' \in {"none", "unsaved", "saving", "saved", "failed"}
           /\ \/ /\ Len(saves') = Len(saves) + 1
                 /\ DOMAIN saves' = DOMAIN saves \cup {Len(saves')}
                 /\ Len(saves') \notin DOMAIN saves
                 /\ \A s \in DOMAIN saves : saves'[s] = saves[s]
                 /\ saves'[Len(saves')] = [text |-> text, at |-> "sent", landed |-> FALSE]
              \/ saves' = saves /\ ~Unsent
           /\ AppliedLanded' /\ LastIsPending' /\ TimerWatches'
<1>0. Len(saves) \in Nat
  BY DEF Types
<1>1. CASE ~Unsent
  <2>1. UNCHANGED <<pendingText, flag, saves>> /\ timer' = FALSE /\ pendingText = {text}
    BY <1>1 DEF SaveRoster, Unsent
  <2> QED
    BY <1>1, <2>1 DEF Types, AppliedLanded, LastIsPending, TimerWatches
<1>2. CASE Unsent
  <2>1. PICK new \in Save : new = [text |-> text, at |-> "sent", landed |-> FALSE]
    BY DEF Types, Save
  <2>2. pendingText' = {text} /\ flag' = "saving" /\ saves' = Append(saves, new)
        /\ timer' = FALSE
    BY <1>2, <2>1 DEF SaveRoster
  <2>3. /\ saves' \in Seq(Save)
        /\ Len(saves') = Len(saves) + 1
        /\ DOMAIN saves' = DOMAIN saves \cup {Len(saves')}
        /\ Len(saves') \notin DOMAIN saves
        /\ \A s \in DOMAIN saves : saves'[s] = saves[s]
        /\ saves'[Len(saves')] = new
    BY <1>0, <2>2 DEF Types
  <2>4. AppliedLanded'
    BY <2>1, <2>3 DEF AppliedLanded
  <2>5. LastIsPending' /\ TimerWatches'
    BY <2>1, <2>2, <2>3 DEF LastIsPending, TimerWatches
  <2> QED
    BY <2>1, <2>2, <2>3, <2>4, <2>5
<1> QED
  BY <1>1, <1>2

\* A draw that is under way does not mind a save that is sent.
LEMMA CalmDrawStays ==
    ASSUME Types, CalmDraw, UNCHANGED <<draws, stored>>,
           Len(saves) <= Len(saves'), Len(saves') \in Nat,
           DOMAIN saves = 1 .. Len(saves), DOMAIN saves' = 1 .. Len(saves'),
           \A s \in DOMAIN saves : saves'[s].landed = saves[s].landed
              /\ (s \in Landable' => s \in Landable)
    PROVE  CalmDraw'
<1> SUFFICES ASSUME NEW d \in draws, d.calm
             PROVE  /\ \A s \in Landable' : d.seq <= s
                    /\ d.at = "flushing" => d.seq > 0 /\ (saves'[d.seq].landed => d.seq <= stored)
                    /\ d.at = "posted" => d.seq <= stored
                    /\ d.at = "ran" => d.seq <= d.roster
  BY DEF CalmDraw
<1>1. d.seq \in Nat /\ d.seq <= Len(saves) /\ Len(saves) \in Nat
  BY DEF Types, Drawn
<1>2. ASSUME NEW s \in Landable' PROVE d.seq <= s
  <2>1. s \in 1 .. Len(saves')
    BY <1>2 DEF Landable
  <2>2. CASE s \in DOMAIN saves
    BY <1>2, <2>2 DEF CalmDraw
  <2>3. CASE s \notin DOMAIN saves
    BY <1>1, <2>1, <2>3
  <2> QED
    BY <2>2, <2>3
<1>3. d.at = "flushing" => d.seq > 0 /\ (saves[d.seq].landed => d.seq <= stored)
  BY DEF CalmDraw
<1>4. d.at = "flushing" => d.seq > 0 /\ (saves'[d.seq].landed => d.seq <= stored)
  BY <1>1, <1>3
<1> QED
  BY <1>2, <1>4 DEF CalmDraw

\* One save changes, and all the others stay.
LEMMA OneSaveChanges ==
    ASSUME Types, NEW s \in DOMAIN saves, NEW x \in Save, saves' = [saves EXCEPT ![s] = x]
    PROVE  /\ saves' \in Seq(Save) /\ Len(saves') = Len(saves) /\ DOMAIN saves' = DOMAIN saves
           /\ saves'[s] = x /\ \A q \in DOMAIN saves : q # s => saves'[q] = saves[q]
           /\ DOMAIN saves = 1 .. Len(saves) /\ Len(saves) \in Nat
BY DEF Types

---------------------------------------------------------------------------
LEMMA TypeKeeps == ASSUME IInv, NEW typed \in Texts, Type(typed) PROVE IInv'
<1>1. Types' /\ TimerWatches'
  BY DEF Type, IInv, Types, TimerWatches, scheduleSave
<1>2. AppliedLanded' /\ LastIsPending' /\ CalmDraw'
  BY DEF Type, IInv, AppliedLanded, LastIsPending, CalmDraw, Landable
<1> QED
  BY <1>1, <1>2 DEF IInv

\* The timer and the blur save alike.
LEMMA SavingKeeps ==
    ASSUME IInv, open, Len(saves) < MaxSaves, SaveRoster,
           UNCHANGED <<open, text, savedSeq, stored, draws>>
    PROVE  IInv'
<1>0. Types /\ AppliedLanded /\ LastIsPending /\ CalmDraw
  BY DEF IInv
<1>1. /\ saves' \in Seq(Save) /\ pendingText' = {text} /\ timer' = FALSE
      /\ flag' \in {"none", "unsaved", "saving", "saved", "failed"}
      /\ AppliedLanded' /\ LastIsPending' /\ TimerWatches'
      /\ \/ /\ Len(saves') = Len(saves) + 1
            /\ DOMAIN saves' = DOMAIN saves \cup {Len(saves')}
            /\ Len(saves') \notin DOMAIN saves
            /\ \A s \in DOMAIN saves : saves'[s] = saves[s]
            /\ saves'[Len(saves')] = [text |-> text, at |-> "sent", landed |-> FALSE]
         \/ saves' = saves /\ ~Unsent
  BY <1>0, SaveRosterDoes
<1>2. /\ Len(saves) \in Nat /\ Len(saves') \in Nat /\ Len(saves) <= Len(saves')
      /\ DOMAIN saves = 1 .. Len(saves) /\ DOMAIN saves' = 1 .. Len(saves')
  BY <1>0, <1>1 DEF Types
<1>3. Types'
  <2>1. pendingText' \in {{}} \cup {{t} : t \in Texts} /\ text' \in Texts
    BY <1>0, <1>1 DEF Types
  <2>2. savedSeq' <= Len(saves') /\ stored' <= Len(saves')
    BY <1>0, <1>2 DEF Types
  <2>3. draws' \subseteq Drawn
        /\ \A d \in draws' : d.seq <= Len(saves') /\ d.roster <= Len(saves')
    BY <1>0, <1>2 DEF Types, Drawn
  <2> QED
    BY <1>0, <1>1, <2>1, <2>2, <2>3 DEF Types
<1>4. CalmDraw'
  <2>1. \A s \in DOMAIN saves : saves'[s] = saves[s]
    BY <1>1
  <2>2. \A s \in DOMAIN saves : s \in Landable' => s \in Landable
    BY <2>1 DEF Landable
  <2> QED
    BY <1>0, <1>2, <2>1, <2>2, CalmDrawStays
<1> QED
  BY <1>1, <1>3, <1>4 DEF IInv

LEMMA BlurKeeps == ASSUME IInv, Blur PROVE IInv'
BY SavingKeeps DEF Blur

LEMMA TimerFiresKeeps == ASSUME IInv, TimerFires PROVE IInv'
<1>1. Len(saves) < MaxSaves
  BY DEF TimerFires, IInv, Types
<1> QED
  BY <1>1, SavingKeeps DEF TimerFires

\* With nothing unsent and nothing that can still be carried out, the last save
\* has been, and is the one the server has; otherwise the draw waits for its own
\* save.
LEMMA ClickDrawKeeps == ASSUME IInv, ClickDraw PROVE IInv'
<1>0. Types /\ AppliedLanded /\ LastIsPending /\ TimerWatches /\ Len(saves) \in Nat
      /\ DOMAIN saves = 1 .. Len(saves)
  BY DEF IInv, Types
<1>1. CASE Unsent
  <2>1. /\ saves' \in Seq(Save) /\ pendingText' = {text} /\ timer' = FALSE
        /\ flag' \in {"none", "unsaved", "saving", "saved", "failed"}
        /\ AppliedLanded' /\ LastIsPending' /\ TimerWatches'
        /\ Len(saves') = Len(saves) + 1
        /\ DOMAIN saves' = DOMAIN saves \cup {Len(saves')}
        /\ \A s \in DOMAIN saves : saves'[s] = saves[s]
        /\ saves'[Len(saves')] = [text |-> text, at |-> "sent", landed |-> FALSE]
    BY <1>0, <1>1, SaveRosterDoes DEF ClickDraw
  <2> DEFINE new == [at |-> "flushing", waits |-> TRUE, seq |-> Len(saves'),
                     calm |-> Calm, roster |-> 0]
  <2>2. draws' = draws \cup {new} /\ UNCHANGED <<open, text, savedSeq, stored>>
    BY <1>1 DEF ClickDraw, Press
  <2>3. new \in Drawn /\ new.seq <= Len(saves') /\ new.roster <= Len(saves')
    BY <1>0, <2>1 DEF Drawn, Calm
  <2>4. \A d \in draws : d \in Drawn /\ d.seq <= Len(saves') /\ d.roster <= Len(saves')
    BY <1>0, <2>1 DEF Types, Drawn
  <2>5. Types'
    <3>1. pendingText' \in {{}} \cup {{t} : t \in Texts}
      BY <1>0, <2>1 DEF Types
    <3>2. savedSeq' <= Len(saves') /\ stored' <= Len(saves')
      BY <1>0, <2>1, <2>2 DEF Types
    <3>3. draws' \subseteq Drawn
          /\ \A d \in draws' : d.seq <= Len(saves') /\ d.roster <= Len(saves')
      BY <2>2, <2>3, <2>4
    <3> HIDE DEF new
    <3> QED
      BY <1>0, <2>1, <2>2, <3>1, <3>2, <3>3 DEF Types
  <2>6. Landable' \subseteq Landable \cup {Len(saves')}
    BY <2>1 DEF Landable
  <2>7. ASSUME NEW d \in draws', d.calm
        PROVE  /\ \A s \in Landable' : d.seq <= s
               /\ d.at = "flushing" => d.seq > 0 /\ (saves'[d.seq].landed => d.seq <= stored')
               /\ d.at = "posted" => d.seq <= stored'
               /\ d.at = "ran" => d.seq <= d.roster
    <3>1. CASE d = new
      <4>1. d.calm = Calm /\ d.seq = Len(saves') /\ d.at = "flushing"
        BY <3>1
      <4>2. Landable = {}
        BY <2>7, <4>1 DEF Calm
      <4>3. \A s \in Landable' : d.seq <= s
        BY <1>0, <2>1, <2>6, <4>1, <4>2
      <4>4. d.seq > 0 /\ ~saves'[d.seq].landed
        BY <1>0, <2>1, <4>1
      <4> QED
        BY <4>1, <4>3, <4>4
    <3>2. CASE d \in draws
      <4>1. d.seq \in Nat /\ d.seq <= Len(saves)
        BY <1>0, <3>2 DEF Types, Drawn
      <4>2. /\ \A s \in Landable : d.seq <= s
            /\ d.at = "flushing" => d.seq > 0 /\ (saves[d.seq].landed => d.seq <= stored)
            /\ d.at = "posted" => d.seq <= stored
            /\ d.at = "ran" => d.seq <= d.roster
        BY <2>7, <3>2 DEF CalmDraw, IInv
      <4>3. \A s \in Landable' : d.seq <= s
        BY <1>0, <2>1, <2>6, <4>1, <4>2
      <4>4. d.at = "flushing" => saves'[d.seq] = saves[d.seq]
        BY <1>0, <2>1, <4>1, <4>2
      <4> QED
        BY <2>2, <4>2, <4>3, <4>4
    <3> QED
      BY <2>2, <2>7, <3>1, <3>2
  <2>8. CalmDraw'
    BY <2>7 DEF CalmDraw
  <2> QED
    BY <2>1, <2>5, <2>8 DEF IInv
<1>2. CASE ~Unsent
  <2>1. UNCHANGED <<open, text, pendingText, timer, savedSeq, flag, saves, stored>>
    BY <1>2 DEF ClickDraw
  <2> DEFINE new == [at |-> "posted", waits |-> TRUE, seq |-> Len(saves),
                     calm |-> Calm, roster |-> 0]
  <2>2. draws' = draws \cup {new}
    BY <1>2, <2>1 DEF ClickDraw, Press
  <2>3. new \in Drawn /\ new.seq <= Len(saves) /\ new.roster <= Len(saves)
    BY <1>0 DEF Drawn, Calm
  <2>4. draws' \subseteq Drawn
        /\ \A d \in draws' : d.seq <= Len(saves') /\ d.roster <= Len(saves')
    BY <1>0, <2>1, <2>2, <2>3 DEF Types
  <2>5. ASSUME Calm PROVE Len(saves) <= stored
    <3>1. CASE saves = <<>>
      BY <1>0, <3>1 DEF Types
    <3>2. CASE saves # <<>>
      <4>1. Len(saves) \in DOMAIN saves
        BY <1>0, <3>2 DEF Types
      <4>2. saves[Len(saves)].at # "lost"
        BY <2>5, <4>1 DEF Calm, Landable
      <4>3. saves[Len(saves)].at \notin {"sent", "keepalive"}
        BY <2>5, <4>1 DEF Calm, Landable
      <4>4. saves[Len(saves)].landed \/ saves[Len(saves)].at \notin {"lost", "done"}
        BY <1>0, <1>2, <3>2 DEF LastIsPending, Unsent, ClickDraw
      <4>5. saves[Len(saves)].at \in {"sent", "keepalive", "applied", "lost", "done"}
        <5>1. saves[Len(saves)] \in Save
          BY <1>0, <4>1 DEF Types
        <5> QED
          BY <5>1 DEF Save
      <4>6. saves[Len(saves)].landed
        BY <1>0, <4>1, <4>2, <4>3, <4>4, <4>5 DEF AppliedLanded
      <4> QED
        BY <2>5, <4>1, <4>6 DEF Calm
    <3> QED
      BY <3>1, <3>2
  <2>6. ASSUME NEW d \in draws', d.calm
        PROVE  /\ \A s \in Landable : d.seq <= s
               /\ d.at = "flushing" => d.seq > 0 /\ (saves[d.seq].landed => d.seq <= stored)
               /\ d.at = "posted" => d.seq <= stored
               /\ d.at = "ran" => d.seq <= d.roster
    <3>1. CASE d = new
      <4>1. d.calm = Calm /\ d.seq = Len(saves) /\ d.at = "posted"
        BY <3>1
      <4>2. Landable = {} /\ Len(saves) <= stored
        BY <2>5, <2>6, <4>1 DEF Calm
      <4> QED
        BY <4>1, <4>2
    <3>2. CASE d \in draws
      BY <2>6, <3>2 DEF CalmDraw, IInv
    <3> QED
      BY <2>2, <2>6, <3>1, <3>2
  <2> HIDE DEF new
  <2>7. Types' /\ AppliedLanded' /\ LastIsPending' /\ TimerWatches'
    BY <1>0, <2>1, <2>4 DEF Types, AppliedLanded, LastIsPending, TimerWatches
  <2>8. CalmDraw'
    BY <2>1, <2>6 DEF CalmDraw, Landable
  <2> QED
    BY <2>7, <2>8 DEF IInv
<1> QED
  BY <1>1, <1>2

LEMMA CloseKeeps == ASSUME IInv, Close PROVE IInv'
<1>0. Types /\ AppliedLanded /\ CalmDraw /\ Len(saves) \in Nat
      /\ DOMAIN saves = 1 .. Len(saves)
  BY DEF IInv, Types
<1>1. PICK new \in Save : new = [text |-> text, at |-> "keepalive", landed |-> FALSE]
  BY <1>0 DEF Types, Save
<1>2. /\ open' = FALSE /\ timer' = FALSE
      /\ UNCHANGED <<text, pendingText, savedSeq, flag, stored, draws>>
      /\ saves' = Append(saves, new) \/ saves' = saves
  BY <1>1 DEF Close
<1>3. /\ saves' \in Seq(Save) /\ Len(saves') \in Nat /\ Len(saves) <= Len(saves')
      /\ DOMAIN saves' = 1 .. Len(saves')
      /\ \A s \in DOMAIN saves : saves'[s] = saves[s]
      /\ \A s \in DOMAIN saves' \ DOMAIN saves : saves'[s] = new
  BY <1>0, <1>2 DEF Types
<1>4. Types'
  <2>1. UNCHANGED <<text, pendingText, savedSeq, flag, stored, draws>>
    BY <1>2
  <2>2. savedSeq' <= Len(saves') /\ stored' <= Len(saves')
    BY <1>0, <1>3, <2>1 DEF Types
  <2>3. open' \in BOOLEAN /\ timer' \in BOOLEAN /\ ~timer'
    BY <1>2
  <2>4. \A d \in draws' : d \in Drawn /\ d.seq <= Len(saves') /\ d.roster <= Len(saves')
    BY <1>0, <1>3, <2>1 DEF Types, Drawn
  <2> QED
    BY <1>0, <1>3, <2>1, <2>2, <2>3, <2>4 DEF Types
<1>5. CalmDraw'
  <2>1. \A s \in DOMAIN saves : s \in Landable' => s \in Landable
    BY <1>3 DEF Landable
  <2> QED
    BY <1>0, <1>2, <1>3, <2>1, CalmDrawStays
<1>6. LastIsPending' /\ TimerWatches'
  BY <1>2 DEF LastIsPending, TimerWatches
<1>7. AppliedLanded'
  BY <1>0, <1>1, <1>3 DEF AppliedLanded
<1> QED
  BY <1>4, <1>5, <1>6, <1>7 DEF IInv

\* What reaches the server after a calm press is at least as new as the draw's
\* own save.
LEMMA ApplyKeeps == ASSUME IInv, NEW s \in DOMAIN saves, Apply(s) PROVE IInv'
<1>0. Types /\ AppliedLanded /\ LastIsPending /\ TimerWatches /\ CalmDraw
  BY DEF IInv
<1>1. PICK x \in Save : x = [saves[s] EXCEPT !.at = IF open /\ @ = "sent" THEN "applied" ELSE "done",
                                           !.landed = TRUE]
  <2>1. saves[s] \in Save
    BY <1>0 DEF Types
  <2> QED
    BY <2>1 DEF Save
<1>2. /\ saves' = [saves EXCEPT ![s] = x] /\ stored' = s
      /\ UNCHANGED <<open, text, pendingText, timer, savedSeq, flag, draws>>
      /\ s \in Landable
  BY <1>0, <1>1 DEF Apply, Types
<1>3. x.landed /\ x.text = saves[s].text /\ x.at \in {"applied", "done"}
  BY <1>0, <1>1 DEF Types, Save
<1>4. /\ saves' \in Seq(Save) /\ Len(saves') = Len(saves) /\ DOMAIN saves' = DOMAIN saves
      /\ saves'[s] = x /\ \A q \in DOMAIN saves : q # s => saves'[q] = saves[q]
      /\ DOMAIN saves = 1 .. Len(saves) /\ Len(saves) \in Nat
  BY <1>0, <1>2, OneSaveChanges
<1>5. Types'
  BY <1>0, <1>2, <1>4 DEF Types
<1>6. AppliedLanded' /\ LastIsPending' /\ TimerWatches'
  BY <1>0, <1>2, <1>3, <1>4 DEF AppliedLanded, LastIsPending, TimerWatches
<1>7. CalmDraw'
  <2>1. Landable' \subseteq Landable
    BY <1>3, <1>4 DEF Landable
  <2>2. ASSUME NEW d \in draws, d.calm
        PROVE  /\ \A q \in Landable' : d.seq <= q
               /\ d.seq <= s
               /\ d.at = "flushing" => d.seq > 0
               /\ d.at = "ran" => d.seq <= d.roster
    BY <1>0, <1>2, <2>1, <2>2 DEF CalmDraw
  <2> QED
    BY <1>2, <2>2 DEF CalmDraw
<1> QED
  BY <1>5, <1>6, <1>7 DEF IInv

\* A save that is over for the page: what is left to show is what the page makes
\* of it.
LEMMA OverKeeps ==
    ASSUME IInv, NEW s \in DOMAIN saves, NEW left \in {"lost", "done"},
           saves' = [saves EXCEPT ![s].at = left], left = "lost" => s \in Landable,
           UNCHANGED <<open, text, timer, stored>>
    PROVE  /\ saves' \in Seq(Save) /\ Len(saves') = Len(saves) /\ DOMAIN saves' = DOMAIN saves
           /\ \A q \in DOMAIN saves : /\ saves'[q].text = saves[q].text
                                      /\ saves'[q].landed = saves[q].landed
                                      /\ q # s => saves'[q] = saves[q]
           /\ AppliedLanded' /\ Landable' \subseteq Landable
           /\ UNCHANGED draws => CalmDraw'
           /\ Len(saves) \in Nat /\ DOMAIN saves = 1 .. Len(saves)
<1>0. Types /\ AppliedLanded /\ CalmDraw
  BY DEF IInv
<1>1. PICK x \in Save : x = [saves[s] EXCEPT !.at = left]
  <2>1. saves[s] \in Save
    BY <1>0 DEF Types
  <2> QED
    BY <2>1 DEF Save
<1>2. saves' = [saves EXCEPT ![s] = x]
  BY <1>0, <1>1 DEF Types
<1>3. x.at = left /\ x.text = saves[s].text /\ x.landed = saves[s].landed
  BY <1>0, <1>1 DEF Types, Save
<1>4. /\ saves' \in Seq(Save) /\ Len(saves') = Len(saves) /\ DOMAIN saves' = DOMAIN saves
      /\ saves'[s] = x /\ \A q \in DOMAIN saves : q # s => saves'[q] = saves[q]
      /\ DOMAIN saves = 1 .. Len(saves) /\ Len(saves) \in Nat
  BY <1>0, <1>2, OneSaveChanges
<1>5. AppliedLanded' /\ Landable' \subseteq Landable
  BY <1>0, <1>3, <1>4 DEF AppliedLanded, Landable
<1>6. ASSUME UNCHANGED draws PROVE CalmDraw'
  <2>1. \A q \in DOMAIN saves : saves'[q].landed = saves[q].landed
                                /\ (q \in Landable' => q \in Landable)
    BY <1>3, <1>4, <1>5
  <2> QED
    BY <1>0, <1>4, <1>6, <2>1, CalmDrawStays
<1> QED
  BY <1>3, <1>4, <1>5, <1>6

LEMMA CancelKeeps == ASSUME IInv, NEW s \in DOMAIN saves, Cancel(s) PROVE IInv'
<1>0. Types /\ ~open
  BY DEF IInv, Cancel
<1>1. saves' = [saves EXCEPT ![s].at = "done"]
      /\ UNCHANGED <<open, text, pendingText, timer, savedSeq, flag, stored, draws>>
  BY DEF Cancel
<1>2. /\ saves' \in Seq(Save) /\ Len(saves') = Len(saves)
      /\ AppliedLanded' /\ CalmDraw'
  BY <1>1, OverKeeps
<1>3. Types'
  BY <1>0, <1>1, <1>2 DEF Types
<1>4. LastIsPending' /\ TimerWatches'
  BY <1>0, <1>1 DEF LastIsPending, TimerWatches
<1> QED
  BY <1>2, <1>3, <1>4 DEF IInv

\* The draw that waited for this save is posted, and is calm only where the
\* save went well, that is, was carried out.
LEMMA FlushedKeeps ==
    ASSUME IInv, NEW s \in DOMAIN saves, NEW well \in BOOLEAN, Flushed(s, well),
           NEW left \in {"lost", "done"},
           saves' = [saves EXCEPT ![s].at = left], left = "lost" => s \in Landable,
           UNCHANGED <<open, text, timer, stored>>,
           well => saves[s].landed
    PROVE  /\ draws' \subseteq Drawn
           /\ \A d \in draws' : d.seq <= Len(saves') /\ d.roster <= Len(saves')
           /\ CalmDraw'
<1>0. Types /\ CalmDraw
  BY DEF IInv
<1>1. /\ Len(saves') = Len(saves) /\ Landable' \subseteq Landable
      /\ DOMAIN saves = 1 .. Len(saves) /\ Len(saves) \in Nat
      /\ \A q \in DOMAIN saves : saves'[q].landed = saves[q].landed
  BY OverKeeps
<1>2. ASSUME NEW e \in draws'
      PROVE  /\ e \in Drawn /\ e.seq <= Len(saves) /\ e.roster <= Len(saves)
             /\ e.calm => /\ \A q \in Landable' : e.seq <= q
                          /\ e.at = "flushing" =>
                                e.seq > 0 /\ (saves'[e.seq].landed => e.seq <= stored')
                          /\ e.at = "posted" => e.seq <= stored'
                          /\ e.at = "ran" => e.seq <= e.roster
  <2>1. PICK d \in draws : e = IF d.at = "flushing" /\ d.seq = s
                                THEN [d EXCEPT !.at = "posted", !.calm = @ /\ well] ELSE d
    BY <1>2 DEF Flushed
  <2>2. d \in Drawn /\ d.seq <= Len(saves) /\ d.roster <= Len(saves)
    BY <1>0 DEF Types
  <2>3. d.calm => /\ \A q \in Landable : d.seq <= q
                  /\ d.at = "flushing" =>
                        d.seq > 0 /\ (saves[d.seq].landed => d.seq <= stored)
                  /\ d.at = "posted" => d.seq <= stored
                  /\ d.at = "ran" => d.seq <= d.roster
    BY <1>0 DEF CalmDraw
  <2>4. CASE d.at = "flushing" /\ d.seq = s
    <3>1. /\ e \in Drawn /\ e.at = "posted" /\ e.seq = s /\ e.roster = d.roster
          /\ e.calm => d.calm /\ well
      BY <2>1, <2>2, <2>4 DEF Drawn
    <3>2. e.calm => s <= stored' /\ \A q \in Landable' : s <= q
      BY <1>1, <2>3, <2>4, <3>1
    <3> QED
      BY <2>2, <2>4, <3>1, <3>2
  <2>5. CASE ~(d.at = "flushing" /\ d.seq = s)
    <3>1. e = d
      BY <2>1, <2>5
    <3>2. e.calm /\ e.at = "flushing" => saves'[e.seq].landed = saves[e.seq].landed
      BY <1>1, <2>2, <2>3, <3>1 DEF Drawn
    <3> QED
      BY <1>1, <2>2, <2>3, <3>1, <3>2
  <2> QED
    BY <2>4, <2>5
<1> QED
  BY <1>1, <1>2 DEF CalmDraw

LEMMA SucceedKeeps == ASSUME IInv, NEW s \in DOMAIN saves, Succeed(s) PROVE IInv'
<1>0. Types /\ AppliedLanded /\ LastIsPending /\ TimerWatches
  BY DEF IInv
<1>1. /\ saves' = [saves EXCEPT ![s].at = "done"] /\ saves[s].landed
      /\ UNCHANGED <<open, text, pendingText, timer, stored>> /\ Flushed(s, TRUE)
      /\ savedSeq' = savedSeq \/ savedSeq' = s
      /\ flag' \in {flag, "saved"}
  BY <1>0 DEF Succeed, AppliedLanded, Taken
<1>2. /\ draws' \subseteq Drawn /\ CalmDraw'
      /\ \A d \in draws' : d.seq <= Len(saves') /\ d.roster <= Len(saves')
  BY <1>1, FlushedKeeps
<1>3. /\ saves' \in Seq(Save) /\ Len(saves') = Len(saves) /\ DOMAIN saves' = DOMAIN saves
      /\ \A q \in DOMAIN saves : /\ saves'[q].text = saves[q].text
                                 /\ saves'[q].landed = saves[q].landed
                                 /\ q # s => saves'[q] = saves[q]
      /\ AppliedLanded' /\ Len(saves) \in Nat /\ DOMAIN saves = 1 .. Len(saves)
  BY <1>1, OverKeeps
<1>4. savedSeq' \in Nat /\ savedSeq' <= Len(saves')
  BY <1>0, <1>1, <1>3 DEF Types
<1>5. Types'
  BY <1>0, <1>1, <1>2, <1>3, <1>4 DEF Types
<1>6. LastIsPending' /\ TimerWatches'
  BY <1>0, <1>1, <1>3 DEF LastIsPending, TimerWatches
<1> QED
  BY <1>2, <1>3, <1>5, <1>6 DEF IInv

\* A failure the page heeds leaves nothing pending; one it does not heed is not
\* the last save's.
LEMMA FailKeeps == ASSUME IInv, NEW s \in DOMAIN saves, Fail(s) PROVE IInv'
<1>0. Types /\ AppliedLanded /\ LastIsPending /\ TimerWatches
  BY DEF IInv
<1>1. PICK left \in {"lost", "done"} :
      /\ saves' = [saves EXCEPT ![s].at = left]
      /\ left = "lost" => s \in Landable
  BY DEF Fail
<1>2. /\ UNCHANGED <<open, text, timer, savedSeq, stored>> /\ Flushed(s, FALSE)
      /\ (s < savedSeq /\ pendingText' = pendingText) \/ pendingText' = {}
      /\ flag' \in {flag, "failed"}
  BY <1>0 DEF Fail, Outdated, AfterFailure
<1>3. /\ draws' \subseteq Drawn /\ CalmDraw'
      /\ \A d \in draws' : d.seq <= Len(saves') /\ d.roster <= Len(saves')
  BY <1>1, <1>2, FlushedKeeps
<1>4. /\ saves' \in Seq(Save) /\ Len(saves') = Len(saves) /\ DOMAIN saves' = DOMAIN saves
      /\ \A q \in DOMAIN saves : /\ saves'[q].text = saves[q].text
                                 /\ saves'[q].landed = saves[q].landed
                                 /\ q # s => saves'[q] = saves[q]
      /\ AppliedLanded' /\ Len(saves) \in Nat /\ DOMAIN saves = 1 .. Len(saves)
  BY <1>1, <1>2, OverKeeps
<1>5. pendingText' \in {{}} \cup {{t} : t \in Texts}
  BY <1>0, <1>2 DEF Types
<1>6. Types'
  BY <1>0, <1>2, <1>3, <1>4, <1>5 DEF Types
<1>7. LastIsPending' /\ TimerWatches'
  <2>1. CASE pendingText' = {}
    BY <2>1 DEF LastIsPending, TimerWatches
  <2>2. CASE s < savedSeq /\ pendingText' = pendingText
    <3>1. s # Len(saves)
      BY <1>0, <1>4, <2>2 DEF Types
    <3>2. saves # <<>> /\ Len(saves) \in DOMAIN saves
      BY <1>0, <1>4 DEF Types
    <3>3. saves'[Len(saves)] = saves[Len(saves)]
      BY <1>4, <3>1, <3>2
    <3> QED
      BY <1>0, <1>2, <1>4, <2>2, <3>2, <3>3 DEF LastIsPending, TimerWatches
  <2> QED
    BY <1>2, <2>1, <2>2
<1> QED
  BY <1>3, <1>4, <1>6, <1>7 DEF IInv

LEMMA RunDrawKeeps == ASSUME IInv, NEW d \in draws, RunDraw(d) PROVE IInv'
<1>0. Types /\ AppliedLanded /\ LastIsPending /\ TimerWatches /\ CalmDraw
  BY DEF IInv
<1> DEFINE new == [d EXCEPT !.at = "ran", !.roster = stored]
<1>1. /\ d.at = "posted" /\ draws' = (draws \ {d}) \cup {new}
      /\ UNCHANGED <<open, text, pendingText, timer, savedSeq, flag, saves, stored>>
  BY DEF RunDraw
<1>2. d \in Drawn /\ d.seq <= Len(saves) /\ stored \in Nat /\ stored <= Len(saves)
  BY <1>0 DEF Types
<1>3. /\ new \in Drawn /\ new.at = "ran" /\ new.roster = stored /\ new.seq = d.seq
      /\ new.calm = d.calm
  BY <1>2 DEF Drawn
<1>4. new.calm => d.seq <= stored /\ \A s \in Landable : d.seq <= s
  BY <1>0, <1>1, <1>3 DEF CalmDraw
<1> HIDE DEF new
<1>5. Types'
  <2>1. \A e \in draws' : e \in Drawn /\ e.seq <= Len(saves) /\ e.roster <= Len(saves)
    BY <1>0, <1>1, <1>2, <1>3 DEF Types
  <2> QED
    BY <1>0, <1>1, <2>1 DEF Types
<1>6. AppliedLanded' /\ LastIsPending' /\ TimerWatches'
  BY <1>0, <1>1 DEF AppliedLanded, LastIsPending, TimerWatches
<1>7. CalmDraw'
  <2>1. Landable' = Landable
    BY <1>1 DEF Landable
  <2> QED
    BY <1>0, <1>1, <1>3, <1>4, <2>1 DEF CalmDraw
<1> QED
  BY <1>5, <1>6, <1>7 DEF IInv

LEMMA DrawAnsweredKeeps == ASSUME IInv, NEW d \in draws, DrawAnswered(d) PROVE IInv'
<1>0. Types /\ AppliedLanded /\ LastIsPending /\ TimerWatches /\ CalmDraw
  BY DEF IInv
<1> DEFINE new == [d EXCEPT !.waits = FALSE]
<1>1. /\ draws' \subseteq draws \cup {new}
      /\ UNCHANGED <<open, text, pendingText, timer, savedSeq, flag, saves, stored>>
  BY DEF DrawAnswered
<1>2. d \in Drawn /\ d.seq <= Len(saves) /\ d.roster <= Len(saves)
  BY <1>0 DEF Types
<1>3. /\ new \in Drawn /\ new.at = d.at /\ new.roster = d.roster /\ new.seq = d.seq
      /\ new.calm = d.calm
  BY <1>2 DEF Drawn
<1> HIDE DEF new
<1>4. Types'
  <2>1. \A e \in draws' : e \in Drawn /\ e.seq <= Len(saves) /\ e.roster <= Len(saves)
    BY <1>0, <1>1, <1>2, <1>3 DEF Types
  <2> QED
    BY <1>0, <1>1, <2>1 DEF Types
<1>5. AppliedLanded' /\ LastIsPending' /\ TimerWatches'
  BY <1>0, <1>1 DEF AppliedLanded, LastIsPending, TimerWatches
<1>6. CalmDraw'
  <2>1. Landable' = Landable
    BY <1>1 DEF Landable
  <2> QED
    BY <1>0, <1>1, <1>3, <2>1 DEF CalmDraw
<1> QED
  BY <1>4, <1>5, <1>6 DEF IInv

LEMMA StepIInv == IInv /\ [Next]_vars => IInv'
<1> SUFFICES ASSUME IInv, [Next]_vars PROVE IInv'
  OBVIOUS
<1>1. ASSUME NEW typed \in Texts, Type(typed) PROVE IInv'
  BY <1>1, TypeKeeps
<1>2. CASE Blur
  BY <1>2, BlurKeeps
<1>3. CASE TimerFires
  BY <1>3, TimerFiresKeeps
<1>4. CASE ClickDraw
  BY <1>4, ClickDrawKeeps
<1>5. CASE Close
  BY <1>5, CloseKeeps
<1>6. ASSUME NEW s \in DOMAIN saves, Apply(s) \/ Cancel(s) PROVE IInv'
  BY <1>6, ApplyKeeps, CancelKeeps
<1>7. ASSUME NEW s \in DOMAIN saves, Succeed(s) \/ Fail(s) PROVE IInv'
  BY <1>7, SucceedKeeps, FailKeeps
<1>8. ASSUME NEW d \in draws, RunDraw(d) PROVE IInv'
  BY <1>8, RunDrawKeeps
<1>9. ASSUME NEW d \in draws, DrawAnswered(d) PROVE IInv'
  BY <1>9, DrawAnsweredKeeps
<1>10. CASE UNCHANGED vars
  <2>1. UNCHANGED <<open, text, pendingText, timer, savedSeq, flag, saves, stored, draws>>
    BY <1>10 DEF vars
  <2> QED
    BY <2>1 DEF IInv, Types, AppliedLanded, LastIsPending, TimerWatches, CalmDraw, Landable
<1> QED
  BY <1>1, <1>2, <1>3, <1>4, <1>5, <1>6, <1>7, <1>8, <1>9, <1>10 DEF Next, Answered

LEMMA AlwaysIInv == Spec => []IInv
BY InitIInv, StepIInv, PTL DEF Spec

\* The variables keep their types: no answer is taken for a save that was not
\* sent, and the timer runs only where a save may follow.
THEOREM TypeCorrect == Spec => []TypeOK
<1>1. IInv => TypeOK
  BY IInvImplies
<1> QED
  BY <1>1, AlwaysIInv, PTL

\* However many saves were sent, and in whatever order they were carried out,
\* answered or lost (app.js:264-304): a page at rest that has no failure to
\* make good knows its text sent, and the server has carried it out.
THEOREM NothingIsForgotten == Spec => []NothingForgotten
<1>1. IInv => NothingForgotten
  BY IInvImplies
<1> QED
  BY <1>1, AlwaysIInv, PTL

\* Waiting for its own save is enough for a draw (app.js:328-335), if no older
\* save could still be carried out when the button was pressed, be it one that
\* the page was told had failed.
THEOREM CalmDrawsAreRight == Spec => []CalmDrawSeesScreen
<1>1. IInv => CalmDrawSeesScreen
  BY IInvImplies
<1> QED
  BY <1>1, AlwaysIInv, PTL
=============================================================================
