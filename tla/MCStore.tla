------------------------------ MODULE MCStore ------------------------------
(***************************************************************************)
(* Store on small instances: MCStoreRoster.cfg takes one raffle through    *)
(* edits of its roster, MCStoreDraws.cfg through edits, draws and reveals, *)
(* MCStoreRaffles.cfg up to three raffles that want the same link.         *)
(***************************************************************************)
EXTENDS Store

Ann == [who |-> "ann", caps |-> FALSE, mark |-> FALSE]
AnnLoud == [who |-> "ann", caps |-> TRUE, mark |-> FALSE]
AnnMarked == [who |-> "ann", caps |-> FALSE, mark |-> TRUE]
Bob == [who |-> "bob", caps |-> FALSE, mark |-> FALSE]

Typed(name, n) == [name |-> name, tabbed |-> FALSE, counted |-> TRUE, count |-> n]
Pasted(name, n) == [name |-> name, tabbed |-> TRUE, counted |-> TRUE, count |-> n]

\* Roster edits: empty, swapped, merged, and pasted from a spreadsheet with a
\* stray comma.
EditTexts ==
    {<<>>,
     <<Typed(Ann, 1), Typed(Bob, 2)>>,
     <<Typed(Bob, 2), Typed(AnnLoud, 1), Typed(Ann, 1)>>,
     <<Pasted(AnnMarked, 1), Typed(Bob, 1)>>}
EditNames == {AnnLoud, AnnMarked, Bob}
EditCounts == {-1, 0, 2}

\* Draws: a roster of two, and one on which the order is swapped and Ann is
\* merged from two lines.
DrawTexts ==
    {<<Typed(Ann, 1), Typed(Bob, 2)>>,
     <<Typed(Bob, 2), Typed(AnnLoud, 1), Typed(Ann, 1)>>}
DrawNames == {AnnLoud}
DrawCounts == {2}

Link(root, suffix) == [root |-> root, suffix |-> suffix]

\* "" is blank, "!!!" leaves nothing usable in a link, "Raffle 2" makes a slug
\* that a suffix could have made as well.
RaffleTitles == {"", "!!!", "Raffle 2"}
RaffleSlugify ==
    [title \in RaffleTitles |-> IF title = "Raffle 2" THEN Link("raffle", <<2>>) ELSE NoSlug]
OneTitle == {"Shower"}
OneSlugify == [title \in OneTitle |-> Link("shower", <<>>)]

RaffleTexts == {<<Typed(Ann, 2)>>}
RaffleNames == {Ann}
RaffleCounts == {1}
RafflePrizes == {-1, 21}
=============================================================================
