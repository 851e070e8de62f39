---------------------------- MODULE SealedDraws ----------------------------
(***************************************************************************)
(* What a host is promised of draws: a press of the button seals a fair    *)
(* result, nothing that happens to the roster afterwards rewrites it, a    *)
(* stub once torn stays torn, and no draw's number is ever handed out      *)
(* again, so a page that is still open cannot tear a later draw's stub.    *)
(* The only way out is for the whole raffle to be deleted.                 *)
(*                                                                         *)
(* After src/internal/store/draws.go:14-18 and 142-145, guests.go:75-76    *)
(* and migrations/001_initial.sql:51-81.                                   *)
(***************************************************************************)
EXTENDS Integers, Sequences

CONSTANT DrawIds

VARIABLES
    sealed,     \* draw -> [prizes, entrants, slips]; a slip is [key, name, count]
    torn,       \* the stubs torn open: a set of <<draw, i>>
    issued      \* every draw number handed out so far

vars == <<sealed, torn, issued>>

\* Nobody wins twice, nobody without diapers wins, and there are as many slips
\* as prizes or, if that is fewer, as entrants.
Fair(result) ==
    LET slips == result.slips IN
    /\ slips # <<>>
    /\ Len(slips) <= result.prizes
    /\ Len(slips) <= result.entrants
    /\ Len(slips) \in {result.prizes, result.entrants}
    /\ \A i \in DOMAIN slips : slips[i].count > 0
    /\ \A i, j \in DOMAIN slips : slips[i].key = slips[j].key => i = j

Init == sealed = <<>> /\ torn = {} /\ issued = {}

Seal(d) ==
    /\ d \notin issued
    /\ issued' = issued \cup {d}
    /\ DOMAIN sealed' = DOMAIN sealed \cup {d}
    /\ \A old \in DOMAIN sealed : sealed'[old] = sealed[old]
    /\ Fair(sealed'[d])
    /\ torn' = torn

Tear(d, i) ==
    /\ i \in DOMAIN sealed[d].slips
    /\ torn' = torn \cup {<<d, i>>}
    /\ UNCHANGED <<sealed, issued>>

Erase(gone) ==
    /\ sealed' = [d \in DOMAIN sealed \ gone |-> sealed[d]]
    /\ torn' = {stub \in torn : stub[1] \notin gone}
    /\ issued' = issued

Next ==
    \/ \E d \in DrawIds : Seal(d)
    \/ \E d \in DOMAIN sealed : \E i \in DOMAIN sealed[d].slips : Tear(d, i)
    \/ \E gone \in SUBSET DOMAIN sealed : Erase(gone)

Spec == Init /\ [][Next]_vars
=============================================================================
