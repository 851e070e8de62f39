----------------------------- MODULE Timestamps -----------------------------
(***************************************************************************)
(* The order of draws: now() (src/internal/store/store.go:152-156) writes  *)
(* RFC 3339 with the fraction of the second cut off after its last digit    *)
(* that is not zero, and LatestDraw (draws.go:76-94) sorts these texts as   *)
(* texts, the larger id first among equals.                                *)
(*                                                                         *)
(* A time is a number of ticks; a second has Base^Digits of them.  The date *)
(* and the clock down to the second have a fixed width and compare as one   *)
(* character.  The clock does not go backwards.                            *)
(***************************************************************************)
EXTENDS Integers, SequencesExt

CONSTANTS
    Base, Digits,           \* how a fraction is written: 10 and 9
    MaxTime, MaxDraws       \* bounds

VARIABLES
    clock,
    pressed     \* when draw 1, 2, ... was made, in ticks
vars == <<clock, pressed>>

Second(t) == t \div Base^Digits
Digit(t, k) == (t \div Base^(Digits - k)) % Base      \* the k-th of the fraction

\* Characters by their order in ASCII: the dot, the digits, the Z.
Dot == -1
Zed == 1000000
Fraction(t) ==
    LET kept == {k \in 1 .. Digits : \E j \in k .. Digits : Digit(t, j) # 0}
    IN  IF kept = {} THEN <<>> ELSE <<Dot>> \o [k \in kept |-> Digit(t, k)]
now(t) == <<Second(t)>> \o Fraction(t) \o <<Zed>>

Less(s, t) ==
    \E k \in DOMAIN s \cap DOMAIN t :
        s[k] < t[k] /\ \A j \in 1 .. k - 1 : s[j] = t[j]

\* ORDER BY created_at DESC, id DESC LIMIT 1
LatestDraw(times) ==
    CHOOSE d \in DOMAIN times : \A other \in DOMAIN times \ {d} :
        \/ Less(now(times[other]), now(times[d]))
        \/ now(times[other]) = now(times[d]) /\ other < d

Init == clock = 0 /\ pressed = <<>>

Pass(ticks) ==
    /\ clock + ticks <= MaxTime
    /\ clock' = clock + ticks
    /\ UNCHANGED pressed

RunDraw ==
    /\ Len(pressed) < MaxDraws
    /\ pressed' = Append(pressed, clock)
    /\ UNCHANGED clock

Next == (\E ticks \in 1 .. MaxTime : Pass(ticks)) \/ RunDraw

Spec == Init /\ [][Next]_vars

---------------------------------------------------------------------------
\* "Stored as RFC 3339 in UTC so they sort lexically" (store.go:152-153): the
\* draw a page loads is the newest one.
LatestIsNewest == pressed # <<>> => LatestDraw(pressed) = Len(pressed)
=============================================================================
