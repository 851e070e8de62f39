------------------------------ MODULE Limiter ------------------------------
(***************************************************************************)
(* The attempt limiter of the sign-in endpoint,                            *)
(* src/internal/httpapi/gate.go:212-269, and the order in which            *)
(* handleLogin (gate.go:98-160) uses it.  A handler asks the limiter, then *)
(* derives a key for a long while without holding its lock, and only then  *)
(* reports what came of it: several sign-ins of one caller are between the *)
(* two at once.                                                            *)
(*                                                                         *)
(* Time is the age of what is kept.  Nothing tells ages beyond the window  *)
(* apart, so that they stop at Window + 1.                                 *)
(***************************************************************************)
EXTENDS Integers, FiniteSets, Functions

CONSTANTS
    Callers,        \* what clientIP returns
    Requests,       \* bound: the sign-ins under way side by side
    NoCaller,       \* the caller of a handler that is not at work
    MaxAttempts,    \* maxAttempts, 8
    Window,         \* attemptWindow, 15 minutes, in ticks of the clock
    SweepAbove      \* the table size that asks for a sweep, 1024

ASSUME RequestsAssumption == IsFiniteSet(Requests) /\ Requests # {}
ASSUME NoCallerAssumption == NoCaller \notin Callers
ASSUME MaxAttemptsAssumption == MaxAttempts \in Nat \ {0}
ASSUME WindowAssumption == Window \in Nat
ASSUME SweepAboveAssumption == SweepAbove \in Nat

VARIABLES
    entries,    \* the table: caller -> [count, age of first]
    signIn,     \* the caller whose password a handler is checking
    tries       \* history: caller -> for each age, how many of its wrong
                \* tries, since the last right one, are no older

limiterVars == <<entries, signIn, tries>>

NoTries == [age \in 0 .. Window |-> 0]

Record == [count: Nat \ {0}, age: 0 .. Window + 1]

newAttemptLimiter == <<>>

LimiterInit ==
    /\ entries = newAttemptLimiter
    /\ signIn = [r \in Requests |-> NoCaller]
    /\ tries = [c \in Callers |-> NoTries]

Expired(rec) == rec.age > Window

---------------------------------------------------------------------------
\* allow: an expired record is dropped and the caller starts afresh.

Spent_Late(rec) == rec.count > MaxAttempts
Spent(rec) == rec.count >= MaxAttempts

Refused(c) == c \in DOMAIN entries /\ ~Expired(entries[c]) /\ Spent(entries[c])

Without(table, gone) == Restrict(table, DOMAIN table \ gone)

Allow(r, c) ==
    /\ signIn[r] = NoCaller
    /\ ~Refused(c)
    /\ entries' = Without(entries, {d \in DOMAIN entries \cap {c} : Expired(entries[d])})
    /\ signIn' = [signIn EXCEPT ![r] = c]
    /\ UNCHANGED tries

\* The sign-in is answered "rate_limited", and not counted.
Refuse_Prolongs(c) ==
    /\ Refused(c)
    /\ entries' = [entries EXCEPT ![c].age = 0]
    /\ UNCHANGED <<signIn, tries>>
Refuse(c) ==
    /\ Refused(c)
    /\ UNCHANGED limiterVars

---------------------------------------------------------------------------
\* fail

Swept_All(table) ==
    IF Cardinality(DOMAIN table) > SweepAbove THEN <<>> ELSE table
Swept(table) ==
    IF Cardinality(DOMAIN table) > SweepAbove
    THEN Without(table, {c \in DOMAIN table : Expired(table[c])})
    ELSE table

FirstFailure(c) == [d \in DOMAIN entries \cup {c} |->
    IF d = c THEN [count |-> 1, age |-> 0] ELSE entries[d]]

OneMoreFailure(c) == Swept([entries EXCEPT ![c].count = @ + 1])

fail(c) ==
    \/ /\ c \in DOMAIN entries => Expired(entries[c])
       /\ entries' = FirstFailure(c)
    \/ /\ c \in DOMAIN entries /\ ~Expired(entries[c])
       /\ entries' = OneMoreFailure(c)

Wrong(r) ==
    /\ signIn[r] # NoCaller
    /\ fail(signIn[r])
    /\ signIn' = [signIn EXCEPT ![r] = NoCaller]
    /\ tries' = [tries EXCEPT ![signIn[r]] = [age \in 0 .. Window |-> @[age] + 1]]

---------------------------------------------------------------------------
\* succeed, and the other ends of a sign-in

succeed(c) == entries' = Without(entries, {c})

Right(r) ==
    /\ signIn[r] # NoCaller
    /\ succeed(signIn[r])
    /\ signIn' = [signIn EXCEPT ![r] = NoCaller]
    /\ tries' = [tries EXCEPT ![signIn[r]] = NoTries]

\* There is no password, or the store or the stored hash is of no use.
GiveUp(r) ==
    /\ signIn[r] # NoCaller
    /\ signIn' = [signIn EXCEPT ![r] = NoCaller]
    /\ UNCHANGED <<entries, tries>>

\* The table is in memory only.
Restart ==
    /\ entries' = newAttemptLimiter
    /\ signIn' = [r \in Requests |-> NoCaller]
    /\ tries' = [c \in Callers |-> NoTries]

Older(age) == IF age > Window THEN age ELSE age + 1

Tick ==
    /\ entries' = [c \in DOMAIN entries |-> [entries[c] EXCEPT !.age = Older(@)]]
    /\ tries' = [c \in Callers |->
          [age \in 0 .. Window |-> IF age = 0 THEN 0 ELSE tries[c][age - 1]]]
    /\ UNCHANGED signIn

LimiterNext ==
    \/ \E r \in Requests, c \in Callers : Allow(r, c)
    \/ \E c \in Callers : Refuse(c)
    \/ \E r \in Requests : Wrong(r) \/ Right(r) \/ GiveUp(r)
    \/ Restart
    \/ Tick

\* Time passes; nobody has to sign in.
LimiterSpec == LimiterInit /\ [][LimiterNext]_limiterVars /\ WF_limiterVars(Tick)

---------------------------------------------------------------------------

\* Every record has at least one failure in it and an age; handlers check
\* the password of a caller.
LimiterTypeOK ==
    /\ DOMAIN entries \subseteq Callers
    /\ \A c \in DOMAIN entries : entries[c] \in Record
    /\ signIn \in [Requests -> Callers \cup {NoCaller}]
    /\ tries \in [Callers -> [0 .. Window -> Nat]]

Checking(c) == {r \in Requests : signIn[r] = c}

\* The check comes long before the count, so that sign-ins side by side all
\* pass on one count; what they add up to is one try short of the budget and
\* one for each of them, never more (gate.go:108, 133, 240, 252).
KeepsToBudget ==
    \A c \in DOMAIN entries : ~Expired(entries[c]) =>
        entries[c].count + Cardinality(Checking(c)) <= MaxAttempts - 1 + Cardinality(Requests)

Recent(c) == tries[c][Window]

\* Who is turned away has given MaxAttempts wrong answers within the window,
\* and no right one after the first of them (gate.go:236-240, 268).
NobodyLockedOutEarly ==
    \A c \in Callers : Refused(c) => Recent(c) >= MaxAttempts

\* The window starts with a failure and not with the question, so that a span
\* as long as it can reach into two of them; that, and sign-ins side by side,
\* is all that a caller can have beyond the budget (gate.go:236, 248).
SpanHasTwoBudgets ==
    \A c \in Callers :
        Recent(c) < 2 * (MaxAttempts - 1 + Cardinality(Requests))

\* The budget a comment on maxAttempts gives, of MaxAttempts tries for each
\* window (gate.go:20-25): nobody gets less, and what somebody can get more is
\* a second window and the sign-ins side by side.
BudgetPerWindow == NobodyLockedOutEarly /\ SpanHasTwoBudgets

\* Whoever is turned away, and keeps trying meanwhile, is let in again once
\* the window has passed (gate.go:25, 236).
LetInAgain == \A c \in Callers : Refused(c) ~> ~Refused(c)

\* "so a long-running server does not accumulate an entry per guesser
\* forever" (gate.go:254-255): a failure that leaves more records than the
\* limit leaves none that has expired.
FailureSweeps ==
    [][(\E r \in Requests : Wrong(r)) /\ Cardinality(DOMAIN entries') > SweepAbove
          => \A c \in DOMAIN entries' : entries'[c].age <= Window]_limiterVars
=============================================================================
