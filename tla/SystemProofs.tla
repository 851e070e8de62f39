---------------------------- MODULE SystemProofs ----------------------------
(***************************************************************************)
(* System is Migrate and Gate side by side: each of its steps is a step,   *)
(* or none, of either.  So what is proved of Migrate, for any number of    *)
(* processes, holds of the whole installation, and what is proved of Gate  *)
(* needs no look at how the database was opened.                           *)
(* The limiter, which the server keeps in memory beside them, comes last.  *)
(***************************************************************************)
EXTENDS System, Limiter, FiniteSetTheorems, TLAPS

---------------------------------------------------------------------------
\* Opening the database, for any set of processes P.
\*
\* VersionIsSchema is not inductive, since a process may have read the version
\* long before it runs a migration.  What saves it is the order of things:
\* nothing a process has read is ahead of the version, and a migration that is
\* older than the version finds its tables and fails, so that the one process
\* in a transaction stands exactly at the version.

Db(P) == INSTANCE Migrate WITH Processes <- P

InStep(p) ==
    /\ stage[p] \in {"migrating", "recording"} => next[p] <= version /\ next[p] < known[p]
    /\ stage[p] = "recording" => lock = p /\ next[p] = version
    /\ stage[p] = "open" => known[p] <= version

Migrated(P) ==
    /\ Db(P)!TypeOK
    /\ Db(P)!VersionIsSchema
    /\ \A p \in P : InStep(p)

LEMMA InitMigrated == ASSUME NEW P, Db(P)!ConstantsOK PROVE Db(P)!Init => Migrated(P)
BY DEF Db!ConstantsOK, Db!Init, Migrated, Db!TypeOK, Db!VersionIsSchema, InStep

\* A step changes one process only; the others are in step as they were, if
\* the version has not fallen and nobody else is in a transaction.
LEMMA OthersInStep ==
    ASSUME NEW P, Db(P)!TypeOK, Db(P)!TypeOK', NEW p \in P,
           \A q \in P : InStep(q),
           \A q \in P \ {p} :
              stage'[q] = stage[q] /\ next'[q] = next[q] /\ known'[q] = known[q],
           version <= version',
           version' # version => lock = p,
           \A q \in P \ {p} : lock = q => lock' = q
    PROVE  \A q \in P \ {p} : InStep(q)'
<1> SUFFICES ASSUME NEW q \in P \ {p} PROVE InStep(q)'
  OBVIOUS
<1>1. InStep(q)
  OBVIOUS
<1>2. /\ version \in Nat /\ version' \in Nat
      /\ next[q] \in Nat /\ known[q] \in Nat
  BY DEF Db!TypeOK
<1> QED
  BY <1>1, <1>2 DEF InStep

LEMMA StepMigrated ==
    ASSUME NEW P, Db(P)!ConstantsOK
    PROVE  Migrated(P) /\ [Db(P)!Next]_(Db(P)!vars) => Migrated(P)'
<1> USE DEF Db!ConstantsOK
<1> SUFFICES ASSUME Migrated(P), [Db(P)!Next]_(Db(P)!vars) PROVE Migrated(P)'
  OBVIOUS
<1>0. Db(P)!TypeOK /\ Db(P)!VersionIsSchema /\ \A p \in P : InStep(p)
  BY DEF Migrated
<1>1. ASSUME NEW p \in P, Db(P)!Start(p) PROVE Migrated(P)'
  <2>1. Db(P)!TypeOK' /\ Db(P)!VersionIsSchema'
    BY <1>0, <1>1 DEF Db!Start, Db!TypeOK, Db!VersionIsSchema
  <2>2. InStep(p)'
    BY <1>0, <1>1 DEF Db!Start, Db!TypeOK, InStep
  <2> QED
    BY <1>0, <1>1, <2>1, <2>2, OthersInStep DEF Db!Start, Db!TypeOK, Migrated
<1>2. ASSUME NEW p \in P, Db(P)!ReadVersion(p) PROVE Migrated(P)'
  <2>1. Db(P)!TypeOK' /\ Db(P)!VersionIsSchema'
    BY <1>0, <1>2 DEF Db!ReadVersion, Db!Continue, Db!HasAll, Db!TypeOK, Db!VersionIsSchema
  <2>2. InStep(p)'
    BY <1>0, <1>2 DEF Db!ReadVersion, Db!Continue, Db!HasAll, Db!TypeOK, InStep
  <2> QED
    BY <1>0, <1>2, <2>1, <2>2, OthersInStep DEF Db!ReadVersion, Db!Continue, Db!HasAll, Db!TypeOK, Migrated
<1>3. ASSUME NEW p \in P, Db(P)!Begin(p) PROVE Migrated(P)'
  <2>1. Db(P)!TypeOK' /\ Db(P)!VersionIsSchema'
    BY <1>0, <1>3 DEF Db!Begin, Db!TypeOK, Db!VersionIsSchema
  <2>2. next[p] = version
    BY <1>0, <1>3 DEF Db!Begin, Db!Exists, Db!TypeOK, Db!VersionIsSchema, InStep
  <2>3. InStep(p)'
    BY <1>0, <1>3, <2>2 DEF Db!Begin, Db!TypeOK, InStep
  <2> QED
    BY <1>0, <1>3, <2>1, <2>3, OthersInStep DEF Db!Begin, Db!TypeOK, Migrated
<1>4. ASSUME NEW p \in P, Db(P)!Commit(p) PROVE Migrated(P)'
  <2>1. lock = p /\ next[p] = version /\ next[p] < known[p] /\ version \in Nat /\ known[p] \in Nat
    BY <1>0, <1>4 DEF Db!Commit, InStep, Db!TypeOK
  <2>2. version' = version + 1 /\ schema' = schema \cup {version + 1}
    BY <1>4, <2>1 DEF Db!Commit, Db!Recorded
  <2>3. Db(P)!TypeOK'
    BY <1>0, <1>4, <2>1, <2>2 DEF Db!Commit, Db!Continue, Db!HasAll, Db!TypeOK
  <2>4. Db(P)!VersionIsSchema'
    BY <1>0, <2>1, <2>2 DEF Db!VersionIsSchema
  <2>5. InStep(p)'
    BY <1>0, <1>4, <2>1, <2>2 DEF Db!Commit, Db!Continue, Db!HasAll, Db!TypeOK, InStep
  <2>6. \A q \in P \ {p} :
           stage'[q] = stage[q] /\ next'[q] = next[q] /\ known'[q] = known[q]
    BY <1>0, <1>4 DEF Db!Commit, Db!Continue, Db!HasAll, Db!TypeOK
  <2> QED
    BY <1>0, <2>1, <2>2, <2>3, <2>4, <2>5, <2>6, OthersInStep DEF Migrated
<1>5. ASSUME NEW p \in P, Db(P)!End(p),
             known' = [known EXCEPT ![p] = known'[p]], known'[p] \in 1 .. Newest
      PROVE  Migrated(P)'
  <2>1. Db(P)!TypeOK' /\ Db(P)!VersionIsSchema'
    BY <1>0, <1>5 DEF Db!End, Db!Released, Db!TypeOK, Db!VersionIsSchema
  <2>2. InStep(p)'
    BY <1>0, <1>5 DEF Db!End, Db!TypeOK, InStep
  <2>3. /\ version' = version
        /\ \A q \in P \ {p} : lock = q => lock' = q
        /\ \A q \in P \ {p} :
              stage'[q] = stage[q] /\ next'[q] = next[q] /\ known'[q] = known[q]
    BY <1>0, <1>5 DEF Db!End, Db!Released, Db!TypeOK
  <2> QED
    BY <1>0, <2>1, <2>2, <2>3, OthersInStep DEF Db!TypeOK, Migrated
<1>6. ASSUME NEW p \in P, Db(P)!Fail(p) \/ Db(P)!Crash(p) PROVE Migrated(P)'
  BY <1>0, <1>5, <1>6 DEF Db!Fail, Db!Crash, Db!Leave, Db!TypeOK
<1>7. ASSUME NEW p \in P, Db(P)!Update(p) PROVE Migrated(P)'
  <2>1. known' = [known EXCEPT ![p] = known'[p]] /\ known'[p] \in 1 .. Newest
    BY <1>0, <1>7 DEF Db!Update, Db!TypeOK
  <2> QED
    BY <1>5, <1>7, <2>1 DEF Db!Update
<1>8. CASE UNCHANGED Db(P)!vars
  BY <1>0, <1>8 DEF Db!vars, Migrated, Db!TypeOK, Db!VersionIsSchema, InStep
<1> QED
  BY <1>1, <1>2, <1>3, <1>4, <1>6, <1>7, <1>8 DEF Db!Next

LEMMA MigratedSuffices ==
    ASSUME NEW P
    PROVE  Migrated(P) => Db(P)!TypeOK /\ Db(P)!VersionIsSchema /\ Db(P)!OpenHasTables
BY DEF Migrated, Db!TypeOK, Db!VersionIsSchema, Db!OpenHasTables, Db!Opened, InStep

LEMMA AlwaysMigratedAny == ASSUME NEW P, Db(P)!ConstantsOK PROVE Db(P)!Spec => []Migrated(P)
<1>1. Db(P)!Init => Migrated(P)
  BY InitMigrated
<1>2. Migrated(P) /\ [Db(P)!Next]_(Db(P)!vars) => Migrated(P)'
  BY StepMigrated
<1> QED
  BY <1>1, <1>2, PTL DEF Db!Spec

\* THEOREM: with any number of processes that start, crash and update, the
\* version tells exactly which migrations the database has.
THEOREM VersionTellsSchema ==
    ASSUME NEW P, Db(P)!ConstantsOK
    PROVE  Db(P)!Spec => []Db(P)!VersionIsSchema
<1>1. Db(P)!Spec => []Migrated(P)
  BY AlwaysMigratedAny
<1>2. Migrated(P) => Db(P)!VersionIsSchema
  BY MigratedSuffices
<1> QED
  BY <1>1, <1>2, PTL

\* THEOREM: and whoever has opened the database finds every table of the build
\* that opened it, whichever process made them.
THEOREM OpenersFindTables ==
    ASSUME NEW P, Db(P)!ConstantsOK
    PROVE  Db(P)!Spec => []Db(P)!OpenHasTables
<1>1. Db(P)!Spec => []Migrated(P)
  BY AlwaysMigratedAny
<1>2. Migrated(P) => Db(P)!OpenHasTables
  BY MigratedSuffices
<1> QED
  BY <1>1, <1>2, PTL

---------------------------------------------------------------------------
\* The server and the command

\* The bounds of System leave every step a step of its parts.
LEMMA StepsOfParts ==
    ASSUME [Next]_vars
    PROVE  [M!Next]_(M!vars) /\ [G!Next]_(G!vars)
<1>1. ASSUME NEW p \in Processes, Open(p) PROVE M!Next /\ UNCHANGED gate
  BY <1>1 DEF Open, M!Next
<1>2. ASSUME NEW g \in Guests, Serve(g) PROVE G!Next /\ UNCHANGED database
  BY <1>2 DEF Serve, G!Next
<1>3. CASE WriteHash
  BY <1>3 DEF WriteHash, G!Next, M!vars, database
<1>4. CASE RotateSessionKey
  <2>1. M!Crash(Command)
    BY <1>4 DEF RotateSessionKey, M!Crash, M!Opened
  <2> QED
    BY <1>4, <2>1 DEF RotateSessionKey, G!Next, M!Next, Processes
<1>5. ASSUME NEW p \in Processes, Crash(p) PROVE M!Next /\ G!Next
  BY <1>5 DEF Crash, M!Next, G!Next
<1>6. CASE Update
  BY <1>6 DEF Update, M!Next, G!Next, Processes
<1>7. CASE UNCHANGED vars
  BY <1>7 DEF vars, database, gate, M!vars, G!vars
<1>8. /\ UNCHANGED gate => UNCHANGED G!vars
      /\ UNCHANGED database => UNCHANGED M!vars
  BY DEF gate, database, G!vars, M!vars
<1> QED
  BY <1>1, <1>2, <1>3, <1>4, <1>5, <1>6, <1>7, <1>8 DEF Next

\* THEOREM: the installation implements the specification of opening a
\* database and that of the gate.
THEOREM ImplementsParts == Spec => M!Spec /\ G!Spec
<1>1. Init => M!Init /\ G!Init
  BY DEF Init
<1> QED
  BY <1>1, StepsOfParts, PTL DEF Spec, M!Spec, G!Spec

\* The database that the two programs open is one that any processes open.
LEMMA SameMigrate ==
    /\ M!Init = Db(Processes)!Init
    /\ M!Next = Db(Processes)!Next
    /\ M!vars = Db(Processes)!vars
    /\ M!ConstantsOK = Db(Processes)!ConstantsOK
    /\ M!VersionIsSchema = Db(Processes)!VersionIsSchema
    /\ M!OpenHasTables = Db(Processes)!OpenHasTables
BY DEF M!Init, Db!Init, M!Next, Db!Next, M!vars, Db!vars, M!ConstantsOK, Db!ConstantsOK,
       M!Start, Db!Start, M!ReadVersion, Db!ReadVersion, M!Begin, Db!Begin,
       M!Commit, Db!Commit, M!Fail, Db!Fail, M!Crash, Db!Crash, M!Update, Db!Update,
       M!Continue, Db!Continue, M!HasAll, Db!HasAll, M!Exists, Db!Exists, M!Recorded, Db!Recorded,
       M!Leave, Db!Leave, M!End, Db!End, M!Released, Db!Released,
       M!Opened, Db!Opened, M!VersionIsSchema, Db!VersionIsSchema,
       M!OpenHasTables, Db!OpenHasTables

LEMMA AlwaysMigrated == Spec => []Migrated(Processes)
<1>1. Db(Processes)!ConstantsOK
  BY SameMigrate, DatabaseAssumption
<1>2. Init => Migrated(Processes)
  BY <1>1, SameMigrate, InitMigrated DEF Init
<1>3. [Next]_vars => [Db(Processes)!Next]_(Db(Processes)!vars)
  BY SameMigrate, StepsOfParts DEF M!vars, Db!vars
<1>4. Migrated(Processes) /\ [Db(Processes)!Next]_(Db(Processes)!vars) => Migrated(Processes)'
  BY <1>1, StepMigrated
<1> QED
  BY <1>2, <1>3, <1>4, PTL DEF Spec

\* THEOREM: while the server and the command start, crash and update, the
\* version tells which migrations the database has.
THEOREM SchemaFollowsVersion == Spec => []VersionIsSchema
<1>1. Migrated(Processes) => VersionIsSchema
  BY SameMigrate, MigratedSuffices DEF VersionIsSchema
<1> QED
  BY <1>1, AlwaysMigrated, PTL

\* THEOREM: the server and the command find the tables of their build.
THEOREM OpenIsComplete == Spec => []OpenHasTables
<1>1. Migrated(Processes) => OpenHasTables
  BY SameMigrate, MigratedSuffices DEF OpenHasTables
<1> QED
  BY <1>1, AlwaysMigrated, PTL
---------------------------------------------------------------------------
\* The gate.  OldPasswordsOut is about cookies, but what a cookie may be is
\* decided while it is still a sign-in; and a rotation puts out cookies only
\* because no key was ever made before.

\* The exceptions that OldPasswordsOut makes, for what was typed then.
Excused(typed, rotated) == typed = hash \/ torn \/ rotated

SoundGuest(g) ==
    /\ request[g].at \in {"signing", "signingNew"} => request[g].typed = request[g].saw
    /\ request[g].at \in {"verify", "signing", "signingNew"} =>
          Excused(request[g].saw, request[g].rotated)
    /\ G!Valid(g) => Excused(cookie[g].typed, cookie[g].rotated)
    /\ request[g].at # "idle" /\ key = G!NoKey => torn
    /\ request[g].at \in {"signingNew", "checkingNew"} => torn \/ request[g].rotated

GateInv ==
    /\ G!TypeOK
    /\ key = G!NoKey /\ hash # NoPassword => torn
    /\ \A g \in Guests : SoundGuest(g)

LEMMA HandlerType ==
    ASSUME NEW at \in {"idle", "verify", "signing", "signingNew", "checking", "checkingNew"},
           NEW typed \in G!Typed, NEW saw \in G!Typed
    PROVE  G!Handler(at, typed, saw) \in G!Handlers
BY DEF G!Handler, G!Handlers

LEMMA IdleType == G!Idle \in G!Handlers
BY HandlerType DEF G!Idle, G!Typed

LEMMA CookieType ==
    ASSUME made \in Nat
    PROVE  {G!NoCookie, G!Foreign} \subseteq G!Cookies
BY DEF G!NoCookie, G!Foreign, G!Cookie, G!Cookies, G!NoKey, G!Typed

LEMMA InitGateInv == G!Init => GateInv
<1> SUFFICES ASSUME G!Init PROVE GateInv
  OBVIOUS
<1> USE DEF G!Init, G!NoKey, G!Idle, G!Handler, G!Cookie, G!NoCookie, G!Foreign
<1>1. G!TypeOK
  <2>1. made \in Nat /\ key \in 0 .. made /\ hash \in G!Typed
    BY DEF G!Typed
  <2>2. request \in [Guests -> G!Handlers]
    BY IdleType
  <2>3. cookie \in [Guests -> G!Cookies]
    BY <2>1, CookieType
  <2> QED
    BY <2>1, <2>2, <2>3 DEF G!TypeOK
<1>2. ASSUME NEW g \in Guests PROVE SoundGuest(g)
  BY <1>2 DEF SoundGuest, G!Valid, G!Signed
<1> QED
  BY <1>1, <1>2 DEF GateInv

\* What a guest's own step leaves of the others: the key may change, but only
\* to one that no cookie is signed with.
LEMMA OthersSound ==
    ASSUME GateInv, NEW g \in Guests,
           UNCHANGED <<hash, torn>>,
           key' = key \/ key' = made + 1,
           \A h \in Guests \ {g} : request'[h] = request[h] /\ cookie'[h] = cookie[h]
    PROVE  \A h \in Guests \ {g} : SoundGuest(h)'
<1> SUFFICES ASSUME NEW h \in Guests \ {g} PROVE SoundGuest(h)'
  OBVIOUS
<1>1. SoundGuest(h) /\ cookie[h].key \in -1 .. made /\ made \in Nat /\ key \in Nat
  BY DEF GateInv, G!TypeOK, G!Cookies
<1>2. key' = G!NoKey => key = G!NoKey
  BY <1>1 DEF G!NoKey
<1>3. G!Valid(h)' => G!Valid(h)
  BY <1>1 DEF G!Valid, G!Signed, G!NoCookie, G!Cookie, G!NoKey
<1> QED
  BY <1>1, <1>2, <1>3 DEF SoundGuest, Excused

LEMMA StepGateInv == GateInv /\ [G!Next]_(G!vars) => GateInv'
<1> USE GateAssumption DEF G!NoKey, G!settings, G!browsers
<1> SUFFICES ASSUME GateInv, [G!Next]_(G!vars) PROVE GateInv'
  OBVIOUS
<1>0. G!TypeOK /\ (key = G!NoKey /\ hash # NoPassword => torn) /\ \A g \in Guests : SoundGuest(g)
  BY DEF GateInv
<1>1. ASSUME NEW g \in Guests, NEW password \in Passwords, G!SignIn(g, password)
      PROVE  GateInv'
  <2>1. G!TypeOK'
    <3>1. hash # NoPassword => G!Handler("verify", password, hash) \in G!Handlers
      BY <1>0, HandlerType DEF G!TypeOK, G!Typed
    <3> QED
      BY <1>0, <1>1, <3>1 DEF G!SignIn, G!Await, G!Show, G!TypeOK, G!Cookies
  <2>2. SoundGuest(g)'
    <3>1. SoundGuest(g) /\ UNCHANGED <<hash, key, made, torn, cookie>> /\ G!Valid(g)' = G!Valid(g)
      BY <1>0, <1>1 DEF G!SignIn, G!Valid, G!Signed, G!NoCookie, G!Cookie
    <3>2. CASE hash = NoPassword
      <4>1. request' = request
        BY <1>1, <3>2 DEF G!SignIn
      <4> QED
        BY <3>1, <4>1 DEF SoundGuest, Excused
    <3>3. CASE hash # NoPassword
      <4>1. request'[g] = G!Handler("verify", password, hash)
        BY <1>0, <1>1, <3>3 DEF G!SignIn, G!Await, G!TypeOK
      <4>2. request'[g].at = "verify" /\ request'[g].saw = hash
        BY <4>1 DEF G!Handler
      <4> QED
        BY <1>0, <3>1, <3>3, <4>2 DEF SoundGuest, Excused
    <3> QED
      BY <3>2, <3>3
  <2> QED
    BY <1>0, <1>1, <2>1, <2>2, OthersSound DEF G!SignIn, G!Await, G!TypeOK, GateInv
<1>2. ASSUME NEW g \in Guests, G!VerifyPassword(g) PROVE GateInv'
  <2>1. G!TypeOK'
    <3>1. [request[g] EXCEPT !.at = "signing"] \in G!Handlers
      BY <1>0 DEF G!TypeOK, G!Handlers
    <3> QED
      BY <1>0, <1>2, <3>1, IdleType DEF G!VerifyPassword, G!Await, G!TypeOK, G!Cookies
  <2>2. SoundGuest(g)'
    <3>1. SoundGuest(g) /\ UNCHANGED <<hash, key, made, torn, cookie>> /\ G!Valid(g)' = G!Valid(g)
      BY <1>0, <1>2 DEF G!VerifyPassword, G!Valid, G!Signed, G!NoCookie, G!Cookie
    <3>2. request[g] \in G!Handlers /\ request[g].at = "verify"
      BY <1>0, <1>2 DEF G!VerifyPassword, G!TypeOK
    <3>3. CASE request[g].typed = request[g].saw
      <4>1. request'[g] = [request[g] EXCEPT !.at = "signing"]
        BY <1>0, <1>2, <3>3 DEF G!VerifyPassword, G!Await, G!TypeOK
      <4>2. /\ request'[g].at = "signing" /\ request'[g].typed = request[g].typed
            /\ request'[g].saw = request[g].saw /\ request'[g].rotated = request[g].rotated
        BY <3>2, <4>1 DEF G!Handlers
      <4> QED
        BY <3>1, <3>2, <3>3, <4>2 DEF SoundGuest, Excused
    <3>4. CASE request[g].typed # request[g].saw
      <4>1. request'[g].at = "idle"
        BY <1>0, <1>2, <3>4 DEF G!VerifyPassword, G!Await, G!Idle, G!Handler, G!TypeOK
      <4> QED
        BY <3>1, <4>1 DEF SoundGuest, Excused
    <3> QED
      BY <3>3, <3>4
  <2> QED
    BY <1>0, <1>2, <2>1, <2>2, OthersSound DEF G!VerifyPassword, G!Await, G!TypeOK, GateInv
<1>3. ASSUME NEW g \in Guests, G!Visit(g) PROVE GateInv'
  <2>1. G!TypeOK'
    <3>1. G!Handler("checking", NoPassword, NoPassword) \in G!Handlers
      BY HandlerType DEF G!Typed
    <3> QED
      BY <1>0, <1>3, <3>1 DEF G!Visit, G!Await, G!Show, G!TypeOK, G!Cookies
  <2>2. SoundGuest(g)'
    BY <1>0, <1>3 DEF G!Visit, G!Await, G!Handler, G!TypeOK, SoundGuest, Excused,
                      G!Valid, G!Signed, G!NoCookie, G!Cookie
  <2> QED
    BY <1>0, <1>3, <2>1, <2>2, OthersSound DEF G!Visit, G!Await, G!TypeOK, GateInv
<1>4. ASSUME NEW g \in Guests, NEW k \in 1 .. made', made' \in Nat, made <= made', G!UseKey(g, k)
      PROVE  /\ request' \in [Guests -> G!Handlers]
             /\ cookie' \in [Guests -> [key: -1 .. made', typed: G!Typed, rotated: BOOLEAN]]
             /\ shown' \in [Guests -> {"page", "login"}]
             /\ request'[g].at = "idle"
             /\ \A h \in Guests \ {g} : request'[h] = request[h] /\ cookie'[h] = cookie[h]
             /\ \/ cookie'[g] = cookie[g]
                \/ /\ request[g].at \in {"signing", "signingNew"}
                   /\ cookie'[g].typed = request[g].typed
                   /\ cookie'[g].rotated = request[g].rotated
  <2>1. /\ made \in Nat
        /\ cookie \in [Guests -> [key: -1 .. made, typed: G!Typed, rotated: BOOLEAN]]
    BY <1>0 DEF G!TypeOK, G!Cookies
  <2>2. cookie \in [Guests -> [key: -1 .. made', typed: G!Typed, rotated: BOOLEAN]]
    <3>1. -1 .. made \subseteq -1 .. made'
      BY <1>4, <2>1
    <3> QED
      BY <2>1, <3>1
  <2>3. k \in -1 .. made'
    BY <1>4
  <2> QED
    <3> DEFINE new == [key |-> k, typed |-> request[g].typed, rotated |-> request[g].rotated]
    <3>1. new \in [key: -1 .. made', typed: G!Typed, rotated: BOOLEAN]
      BY <1>0, <2>3 DEF G!TypeOK, G!Handlers
    <3>2. request' \in [Guests -> G!Handlers] /\ shown' \in [Guests -> {"page", "login"}]
      BY <1>0, <1>4, IdleType DEF G!UseKey, G!Await, G!Show, G!TypeOK
    <3>3. request'[g].at = "idle" /\ \A h \in Guests \ {g} : request'[h] = request[h]
      BY <1>0, <1>4 DEF G!UseKey, G!Await, G!Idle, G!Handler, G!TypeOK
    <3>4. \/ cookie' = cookie
          \/ /\ request[g].at \in {"signing", "signingNew"}
             /\ cookie' = [cookie EXCEPT ![g] = new]
      BY <1>4 DEF G!UseKey
    <3> HIDE DEF new
    <3>5. cookie' \in [Guests -> [key: -1 .. made', typed: G!Typed, rotated: BOOLEAN]]
      BY <2>2, <3>1, <3>4
    <3>6. /\ \A h \in Guests \ {g} : cookie'[h] = cookie[h]
          /\ cookie'[g] = cookie[g] \/ (request[g].at \in {"signing", "signingNew"} /\ cookie'[g] = new)
      BY <2>2, <3>4
    <3> QED
      BY <3>2, <3>3, <3>5, <3>6 DEF new
<1>5. ASSUME NEW g \in Guests, G!ReadKey(g) PROVE GateInv'
  <2>1. CASE key # G!NoKey /\ G!UseKey(g, key)
    <3>1. key \in 1 .. made' /\ made' \in Nat /\ made <= made'
      BY <1>0, <1>5, <2>1 DEF G!ReadKey, G!TypeOK
    <3>2. G!TypeOK'
      BY <1>0, <1>4, <1>5, <2>1, <3>1 DEF G!ReadKey, G!TypeOK, G!Cookies
    <3>3. SoundGuest(g)'
      BY <1>0, <1>4, <1>5, <2>1, <3>1 DEF G!ReadKey, SoundGuest, Excused,
                                         G!Valid, G!Signed, G!NoCookie, G!Cookie
    <3> QED
      BY <1>0, <1>4, <1>5, <2>1, <3>1, <3>2, <3>3, OthersSound DEF G!ReadKey, GateInv
  <2>2. CASE key = G!NoKey
    <3>1. G!TypeOK'
      <4>1. [request[g] EXCEPT !.at = G!MakingOne(@)] \in G!Handlers
        BY <1>0 DEF G!TypeOK, G!Handlers, G!MakingOne
      <4> QED
        BY <1>0, <1>5, <2>2, <4>1 DEF G!ReadKey, G!Await, G!TypeOK, G!Cookies
    <3>2. SoundGuest(g)'
      <4>1. /\ SoundGuest(g) /\ UNCHANGED <<hash, key, made, torn, cookie>>
            /\ G!Valid(g)' = G!Valid(g)
        BY <1>0, <1>5, <2>2 DEF G!ReadKey, G!Valid, G!Signed, G!NoCookie, G!Cookie
      <4>2. request[g] \in G!Handlers /\ request[g].at \in {"signing", "checking"}
        BY <1>0, <1>5 DEF G!ReadKey, G!TypeOK
      <4>3. request'[g] = [request[g] EXCEPT !.at = G!MakingOne(@)]
        BY <1>0, <1>5, <2>2 DEF G!ReadKey, G!Await, G!TypeOK
      <4>4. /\ request'[g].typed = request[g].typed /\ request'[g].saw = request[g].saw
            /\ request'[g].rotated = request[g].rotated
            /\ request'[g].at = G!MakingOne(request[g].at)
        BY <4>2, <4>3 DEF G!Handlers
      <4>5. \/ request'[g].at = "signingNew" /\ request[g].at = "signing"
            \/ request'[g].at = "checkingNew" /\ request[g].at = "checking"
        BY <4>2, <4>4 DEF G!MakingOne
      <4> QED
        BY <2>2, <4>1, <4>4, <4>5 DEF SoundGuest, Excused
    <3> QED
      BY <1>0, <1>5, <2>2, <3>1, <3>2, OthersSound DEF G!ReadKey, G!Await, G!TypeOK, GateInv
  <2> QED
    BY <1>5, <2>1, <2>2 DEF G!ReadKey
<1>6. ASSUME NEW g \in Guests, G!MakeKey(g) PROVE GateInv'
  <2>1. /\ made \in Nat /\ made' = made + 1 /\ key' = made + 1
        /\ made + 1 \in 1 .. made' /\ made' \in Nat /\ made <= made'
        /\ G!UseKey(g, made + 1)
    BY <1>0, <1>6 DEF G!MakeKey, G!Store, G!TypeOK
  <2>2. G!TypeOK'
    BY <1>0, <1>4, <1>6, <2>1 DEF G!MakeKey, G!TypeOK, G!Cookies
  <2>3. cookie[g].key # key'
    BY <1>0, <2>1 DEF G!TypeOK, G!Cookies
  <2>4. SoundGuest(g)'
    BY <1>0, <1>4, <1>6, <2>1, <2>3 DEF G!MakeKey, SoundGuest, Excused,
                                       G!Valid, G!Signed, G!NoCookie, G!Cookie
  <2> QED
    BY <1>0, <1>4, <1>6, <2>1, <2>2, <2>4, OthersSound DEF G!MakeKey, GateInv
<1>7. ASSUME NEW g \in Guests, G!Forget(g) PROVE GateInv'
  <2>1. G!TypeOK'
    BY <1>0, <1>7, CookieType DEF G!Forget, G!TypeOK, G!Cookies
  <2>2. SoundGuest(g)'
    BY <1>0, <1>7 DEF G!Forget, G!TypeOK, SoundGuest, Excused,
                      G!Valid, G!Signed, G!NoCookie, G!Cookie
  <2> QED
    BY <1>0, <1>7, <2>1, <2>2, OthersSound DEF G!Forget, G!TypeOK, GateInv
<1>8. ASSUME NEW h \in G!Typed, G!WriteHash(h) PROVE GateInv'
  <2>1. G!TypeOK'
    BY <1>0, <1>8 DEF G!WriteHash, G!TypeOK, G!Cookies
  <2>2. ASSUME NEW g \in Guests PROVE SoundGuest(g)'
    BY <1>0, <1>8, <2>2 DEF G!WriteHash, SoundGuest, Excused
  <2> QED
    BY <1>8, <2>1, <2>2 DEF G!WriteHash, GateInv
<1>9. CASE G!RotateSessionKey
  <2>1. G!TypeOK'
    <3>1. made \in Nat /\ made' = made + 1 /\ key' = made + 1
      BY <1>0, <1>9 DEF G!RotateSessionKey, G!Rotate, G!TypeOK
    <3>2. \A g \in Guests : G!Rotated(request[g]) \in G!Handlers
      BY <1>0 DEF G!Rotated, G!TypeOK, G!Handlers
    <3>3. G!Cookies \subseteq G!Cookies'
      BY <3>1 DEF G!Cookies
    <3>4. cookie' \in [Guests -> G!Cookies'] /\ shown' \in [Guests -> {"page", "login"}]
      BY <1>0, <1>9, <3>3 DEF G!RotateSessionKey, G!TypeOK
    <3>5. request' \in [Guests -> G!Handlers]
      BY <1>9, <3>2 DEF G!RotateSessionKey
    <3>6. hash' \in G!Typed /\ made' \in Nat /\ key' \in 0 .. made'
      BY <1>0, <1>9, <3>1 DEF G!RotateSessionKey, G!TypeOK
    <3> QED
      BY <1>9, <3>4, <3>5, <3>6 DEF G!RotateSessionKey, G!TypeOK, G!Handlers, G!Typed
  <2>2. ASSUME NEW g \in Guests PROVE SoundGuest(g)'
    <3>1. cookie'[g].key # key' /\ key' # 0
      BY <1>0, <1>9, <2>2 DEF G!RotateSessionKey, G!Rotate, G!TypeOK, G!Cookies
    <3>2. /\ request'[g].at = request[g].at
          /\ request'[g].typed = request[g].typed /\ request'[g].saw = request[g].saw
          /\ request[g].at # "idle" => request'[g].rotated
      BY <1>0, <1>9, <2>2 DEF G!RotateSessionKey, G!Rotated, G!Idle, G!Handler, G!TypeOK, G!Handlers
    <3> QED
      BY <1>0, <2>2, <3>1, <3>2 DEF SoundGuest, Excused, G!Valid
  <2>3. key' # G!NoKey
    BY <1>0, <1>9 DEF G!RotateSessionKey, G!Rotate, G!TypeOK
  <2> QED
    BY <2>1, <2>2, <2>3 DEF GateInv
<1>10. CASE G!CommandDies \/ G!ServerDies \/ UNCHANGED G!vars
  <2>1. G!TypeOK'
    BY <1>0, <1>10, IdleType DEF G!CommandDies, G!ServerDies, G!vars, G!TypeOK, G!Cookies
  <2>2. ASSUME NEW g \in Guests PROVE SoundGuest(g)'
    BY <1>0, <1>10, <2>2 DEF G!CommandDies, G!ServerDies, G!vars, G!Idle, G!Handler,
                             SoundGuest, Excused, G!Valid, G!Signed, G!NoCookie, G!Cookie
  <2> QED
    BY <1>0, <1>10, <2>1, <2>2 DEF G!CommandDies, G!ServerDies, G!vars, GateInv
<1> QED
  BY <1>1, <1>2, <1>3, <1>5, <1>6, <1>7, <1>8, <1>9, <1>10
     DEF G!Next, G!Handle, G!SetPassword, G!ClearPassword, G!Typed

LEMMA AlwaysGateInv == Spec => []GateInv
<1>1. Init => GateInv
  BY InitGateInv DEF Init
<1>2. GateInv /\ [Next]_vars => GateInv'
  BY StepGateInv, StepsOfParts
<1> QED
  BY <1>1, <1>2, PTL DEF Spec

\* THEOREM: whoever is signed in typed the present password, unless the
\* command was cut short or the sign-in overlapped a change of the password.
THEOREM OldSessionsEnd == Spec => []OldPasswordsOut
<1>1. GateInv => OldPasswordsOut
  BY DEF GateInv, SoundGuest, Excused, OldPasswordsOut, G!OldPasswordsOut
<1> QED
  BY <1>1, AlwaysGateInv, PTL

\* THEOREM: no handler makes a session key in an installation whose password
\* was set by a command that ran to its end.
THEOREM CommandMakesKeys == Spec => []KeysComeFromCommand
<1>1. GateInv => KeysComeFromCommand
  BY DEF GateInv, SoundGuest, KeysComeFromCommand, G!KeysComeFromCommand
<1> QED
  BY <1>1, AlwaysGateInv, PTL

\* THEOREM: a browser that is signed in is signed out by logout or the end of
\* its week, by the command, or by a handler that makes a key.
THEOREM SessionsSurvive == Spec => SignedInStays
<1> DEFINE Kept == \A g \in Guests : G!Valid(g) =>
                      \/ G!Valid(g)'
                      \/ G!Forget(g)
                      \/ G!RotateSessionKey
                      \/ \E h \in Guests : G!MakeKey(h)
<1>1. GateInv /\ [G!Next]_(G!vars) => [Kept]_(G!vars)
  <2> SUFFICES ASSUME GateInv, G!Next, NEW g \in Guests, G!Valid(g), ~G!Valid(g)'
               PROVE  G!Forget(g) \/ G!RotateSessionKey \/ \E h \in Guests : G!MakeKey(h)
    OBVIOUS
  <2> USE DEF G!settings, G!browsers, G!Valid, G!Signed, G!NoCookie, G!Cookie
  <2>1. ~(UNCHANGED <<key, cookie>>)
    OBVIOUS
  <2>2. cookie \in [Guests -> G!Cookies]
    BY DEF GateInv, G!TypeOK
  <2>3. ASSUME NEW h \in Guests, NEW password \in Passwords, G!SignIn(h, password) PROVE FALSE
    BY <2>1, <2>3 DEF G!SignIn
  <2>4. ASSUME NEW h \in Guests, G!VerifyPassword(h) \/ G!Visit(h) PROVE FALSE
    BY <2>1, <2>4 DEF G!VerifyPassword, G!Visit
  <2>5. ASSUME NEW h \in Guests, G!ReadKey(h) PROVE FALSE
    <3>1. key # G!NoKey /\ G!UseKey(h, key) /\ UNCHANGED key
      BY <2>1, <2>5 DEF G!ReadKey
    <3>2. /\ cookie'[h].key = key
          /\ cookie' = [cookie EXCEPT ![h] = cookie'[h]]
      BY <2>1, <2>2, <3>1 DEF G!UseKey
    <3>3. cookie'[g] # G!NoCookie /\ cookie'[g].key = key
      BY <2>2, <3>1, <3>2 DEF G!NoKey
    <3> QED
      BY <3>1, <3>3
  <2>6. ASSUME NEW h \in Guests, G!Forget(h) PROVE h = g
    BY <2>2, <2>6 DEF G!Forget
  <2>7. ASSUME NEW h \in G!Typed, G!WriteHash(h) PROVE FALSE
    BY <2>1, <2>7 DEF G!WriteHash
  <2>8. ~G!CommandDies /\ ~G!ServerDies
    BY <2>1 DEF G!CommandDies, G!ServerDies
  <2> QED
    BY <2>3, <2>4, <2>5, <2>6, <2>7, <2>8
       DEF G!Next, G!Handle, G!SetPassword, G!ClearPassword, G!Typed
<1>2. GateInv /\ [Next]_vars => [Kept]_(G!vars)
  BY <1>1, StepsOfParts
<1>3. []GateInv /\ [][Next]_vars => [][Kept]_(G!vars)
  BY <1>2, PTL
<1> QED
  BY <1>3, AlwaysGateInv, PTL DEF Spec, SignedInStays, G!SignedInStays

\* THEOREM: the parts' variables and the counters keep their types.
THEOREM TypeCorrect == Spec => []TypeOK
<1> DEFINE Counted == commands \in 0 .. MaxCommands /\ crashes \in 0 .. MaxCrashes
<1>1. Init => Counted
  BY BoundsAssumption DEF Init
<1>2. Counted /\ [Next]_vars => Counted'
  BY BoundsAssumption
     DEF Next, Open, Serve, WriteHash, RotateSessionKey, Crash, Update, vars, counted
<1>3. Migrated(Processes) => M!TypeOK
  BY DEF Migrated, Db!TypeOK, M!TypeOK
<1>4. Migrated(Processes) /\ GateInv /\ Counted => TypeOK
  BY <1>3 DEF GateInv, TypeOK
<1> QED
  BY <1>1, <1>2, <1>4, AlwaysMigrated, AlwaysGateInv, PTL DEF Spec

---------------------------------------------------------------------------
\* The attempt limiter
\*
\* KeepsToBudget is inductive together with the types: a sign-in is let through
\* while the count is short of the budget, and moves from the handlers that
\* check to the count when it fails.

\* THEOREM: records, handlers and the history are well formed.
THEOREM LimiterTypeCorrect == LimiterSpec => []LimiterTypeOK
<1> USE MaxAttemptsAssumption, WindowAssumption
<1>1. LimiterInit => LimiterTypeOK
  BY DEF LimiterInit, LimiterTypeOK, newAttemptLimiter, NoTries
<1>2. LimiterTypeOK /\ [LimiterNext]_limiterVars => LimiterTypeOK'
  <2> SUFFICES ASSUME LimiterTypeOK, [LimiterNext]_limiterVars PROVE LimiterTypeOK'
    OBVIOUS
  <2>1. ASSUME NEW r \in Requests, NEW c \in Callers, Allow(r, c) PROVE LimiterTypeOK'
    BY <2>1 DEF LimiterTypeOK, Allow, Without, Restrict
  <2>2. ASSUME NEW r \in Requests, Wrong(r) PROVE LimiterTypeOK'
    <3> DEFINE c == signIn[r]
    <3>1. c \in Callers
      BY <2>2 DEF Wrong, LimiterTypeOK
    <3>2. DOMAIN entries' \subseteq Callers /\ \A d \in DOMAIN entries' : entries'[d] \in Record
      <4>1. CASE entries' = FirstFailure(c)
        BY <3>1, <4>1 DEF LimiterTypeOK, FirstFailure, Record
      <4>2. CASE c \in DOMAIN entries /\ entries' = OneMoreFailure(c)
        BY <3>1, <4>2 DEF LimiterTypeOK, OneMoreFailure, Swept, Without, Restrict, Record
      <4> QED
        BY <2>2, <4>1, <4>2 DEF Wrong, fail
    <3>3. tries' \in [Callers -> [0 .. Window -> Nat]]
      BY <2>2, <3>1 DEF Wrong, LimiterTypeOK
    <3> QED
      BY <2>2, <3>2, <3>3 DEF Wrong, LimiterTypeOK
  <2>3. ASSUME NEW r \in Requests, Right(r) PROVE LimiterTypeOK'
    BY <2>3 DEF LimiterTypeOK, Right, succeed, Without, Restrict, NoTries
  <2>4. ASSUME NEW r \in Requests, GiveUp(r) PROVE LimiterTypeOK'
    BY <2>4 DEF LimiterTypeOK, GiveUp
  <2>5. CASE Restart
    BY <2>5 DEF LimiterTypeOK, Restart, newAttemptLimiter, NoTries
  <2>6. CASE Tick
    <3>1. \A c \in DOMAIN entries : Older(entries[c].age) \in 0 .. Window + 1
      BY DEF LimiterTypeOK, Record, Older
    <3>2. \A c \in DOMAIN entries : [entries[c] EXCEPT !.age = Older(@)] \in Record
      BY <3>1 DEF LimiterTypeOK, Record
    <3>3. tries' \in [Callers -> [0 .. Window -> Nat]]
      BY <2>6 DEF LimiterTypeOK, Tick
    <3> QED
      BY <2>6, <3>2, <3>3 DEF LimiterTypeOK, Tick
  <2>7. CASE UNCHANGED limiterVars
    BY <2>7 DEF LimiterTypeOK, limiterVars
  <2> QED
    BY <2>1, <2>2, <2>3, <2>4, <2>5, <2>6, <2>7 DEF LimiterNext, Refuse
<1> QED
  BY <1>1, <1>2, PTL DEF LimiterSpec

\* How many sign-ins of one caller are under way, and how a handler that
\* starts or ends changes it.
LEMMA CheckingCounts ==
    ASSUME NEW c, NEW r \in Requests
    PROVE  /\ Cardinality(Checking(c)) \in 0 .. Cardinality(Requests)
           /\ signIn[r] = c =>
                 Cardinality(Checking(c) \ {r}) = Cardinality(Checking(c)) - 1
<1>1. Checking(c) \subseteq Requests
  BY DEF Checking
<1>2. IsFiniteSet(Checking(c)) /\ Cardinality(Checking(c)) <= Cardinality(Requests)
  BY <1>1, RequestsAssumption, FS_Subset
<1>3. Cardinality(Checking(c)) \in Nat /\ Cardinality(Requests) \in Nat
  BY <1>2, RequestsAssumption, FS_CardinalityType
<1>4. ASSUME signIn[r] = c
      PROVE  Cardinality(Checking(c) \ {r}) = Cardinality(Checking(c)) - 1
  <2>1. r \in Checking(c)
    BY <1>4 DEF Checking
  <2> QED
    BY <1>2, <2>1, FS_RemoveElement
<1> QED
  BY <1>2, <1>3, <1>4

\* THEOREM: however many sign-ins of a caller overlap, the failures of its
\* record and those still to come stay one short of the budget and one each.
THEOREM BudgetHolds == LimiterSpec => []KeepsToBudget
<1> USE MaxAttemptsAssumption, WindowAssumption
<1> DEFINE Size == Cardinality(Requests)
<1>0. Size \in Nat
  BY RequestsAssumption, FS_CardinalityType
<1>1. LimiterInit => KeepsToBudget
  BY DEF LimiterInit, KeepsToBudget, newAttemptLimiter
<1>2. LimiterTypeOK /\ LimiterTypeOK' /\ KeepsToBudget /\ [LimiterNext]_limiterVars => KeepsToBudget'
  <2> SUFFICES ASSUME LimiterTypeOK, LimiterTypeOK', KeepsToBudget, [LimiterNext]_limiterVars,
                      NEW c \in DOMAIN entries', ~Expired(entries'[c])
               PROVE  entries'[c].count + Cardinality(Checking(c)')
                         <= MaxAttempts - 1 + Size
    BY DEF KeepsToBudget, Expired, Checking
  <2> DEFINE Before == Cardinality(Checking(c))
             After  == Cardinality(Checking(c)')
  <2>1. c \in Callers /\ entries'[c].count \in Nat \ {0}
    BY DEF LimiterTypeOK, Record
  <2>2. /\ Before \in Nat /\ After \in Nat /\ Before <= Size /\ After <= Size
    <3>1. Checking(c) \subseteq Requests /\ Checking(c)' \subseteq Requests
      BY DEF Checking
    <3> QED
      BY <3>1, RequestsAssumption, FS_Subset, FS_CardinalityType
  <2>3. ASSUME c \in DOMAIN entries, ~Expired(entries[c]),
               entries'[c].count + After <= entries[c].count + Before
        PROVE  entries'[c].count + After <= MaxAttempts - 1 + Size
    <3>1. entries[c].count \in Nat /\ entries[c].count + Before <= MaxAttempts - 1 + Size
      BY <2>3 DEF KeepsToBudget, LimiterTypeOK, Record
    <3> QED
      BY <1>0, <2>1, <2>2, <2>3, <3>1
  <2>4. ASSUME NEW r \in Requests, signIn'[r] = NoCaller, signIn' = [signIn EXCEPT ![r] = NoCaller]
        PROVE  /\ signIn[r] = c => After = Before - 1
               /\ signIn[r] # c => After = Before
    <3>1. Checking(c)' = Checking(c) \ {r}
      BY <2>1, <2>4, NoCallerAssumption DEF Checking, LimiterTypeOK
    <3>2. signIn[r] # c => Checking(c)' = Checking(c)
      BY <3>1 DEF Checking
    <3> QED
      BY <3>1, <3>2, CheckingCounts
  <2>5. ASSUME NEW r \in Requests, NEW d \in Callers, Allow(r, d)
        PROVE  entries'[c].count + After <= MaxAttempts - 1 + Size
    <3>1. c \in DOMAIN entries /\ entries'[c] = entries[c]
      BY <2>5 DEF Allow, Without, Restrict
    <3>2. CASE c = d
      <4>1. entries[c].count < MaxAttempts
        BY <2>1, <2>5, <3>1, <3>2 DEF Allow, Refused, Spent
      <4> QED
        BY <1>0, <2>1, <2>2, <3>1, <4>1
    <3>3. CASE c # d
      <4>1. Checking(c)' = Checking(c)
        BY <2>1, <2>5, <3>3, NoCallerAssumption DEF Allow, Checking, LimiterTypeOK
      <4> QED
        BY <2>1, <2>2, <2>3, <3>1, <4>1 DEF Expired
    <3> QED
      BY <3>2, <3>3
  <2>6. ASSUME NEW r \in Requests, Wrong(r)
        PROVE  entries'[c].count + After <= MaxAttempts - 1 + Size
    <3> DEFINE d == signIn[r]
    <3>1. /\ signIn' = [signIn EXCEPT ![r] = NoCaller] /\ signIn'[r] = NoCaller
          /\ d \in Callers
      BY <2>6 DEF Wrong, LimiterTypeOK
    <3>2. /\ d = c => After = Before - 1
          /\ d # c => After = Before
      BY <2>4, <3>1
    <3>4. CASE entries' = FirstFailure(d) /\ c = d
      <4>1. entries'[c].count = 1
        BY <3>4 DEF FirstFailure
      <4> QED
        BY <1>0, <2>2, <3>2, <3>4, <4>1
    <3>5. CASE entries' = FirstFailure(d) /\ c # d
      <4>1. c \in DOMAIN entries /\ entries'[c] = entries[c]
        BY <3>5 DEF FirstFailure
      <4> QED
        BY <2>1, <2>2, <2>3, <3>2, <3>5, <4>1
    <3>6. CASE d \in DOMAIN entries /\ entries' = OneMoreFailure(d)
      <4>1. /\ c \in DOMAIN entries
            /\ entries'[c] = [entries EXCEPT ![d].count = @ + 1][c]
        BY <3>6 DEF OneMoreFailure, Swept, Without, Restrict
      <4>2. entries[c] \in Record /\ entries[c].count \in Nat
        BY <4>1 DEF LimiterTypeOK, Record
      <4>3. /\ ~Expired(entries[c])
            /\ c = d => entries'[c].count = entries[c].count + 1
            /\ c # d => entries'[c].count = entries[c].count
        BY <4>1, <4>2 DEF Expired, Record
      <4> QED
        BY <2>1, <2>2, <2>3, <3>2, <4>1, <4>2, <4>3
    <3> QED
      BY <2>6, <3>4, <3>5, <3>6 DEF Wrong, fail
  <2>7. ASSUME NEW r \in Requests, Right(r) \/ GiveUp(r)
        PROVE  entries'[c].count + After <= MaxAttempts - 1 + Size
    <3>1. signIn' = [signIn EXCEPT ![r] = NoCaller] /\ signIn'[r] = NoCaller
      BY <2>7 DEF Right, GiveUp, LimiterTypeOK
    <3>2. After = Before - 1 \/ After = Before
      BY <2>4, <3>1
    <3>3. c \in DOMAIN entries /\ entries'[c] = entries[c]
      BY <2>7 DEF Right, GiveUp, succeed, Without, Restrict
    <3> QED
      BY <2>1, <2>2, <2>3, <3>2, <3>3
  <2>8. CASE Restart
    BY <2>8 DEF Restart, newAttemptLimiter
  <2>9. CASE Tick
    <3>1. c \in DOMAIN entries /\ entries[c] \in Record
      BY <2>9 DEF Tick, LimiterTypeOK
    <3>2. entries'[c].count = entries[c].count /\ entries'[c].age = Older(entries[c].age)
      BY <2>9, <3>1 DEF Tick, Record
    <3>3. ~Expired(entries[c])
      BY <3>1, <3>2 DEF Expired, Older, Record
    <3>4. Checking(c)' = Checking(c)
      BY <2>9 DEF Tick, Checking
    <3> QED
      BY <2>1, <2>2, <2>3, <3>1, <3>2, <3>3, <3>4
  <2>10. CASE UNCHANGED limiterVars
    BY <2>1, <2>2, <2>3, <2>10 DEF limiterVars, Checking
  <2> QED
    BY <2>5, <2>6, <2>7, <2>8, <2>9, <2>10 DEF LimiterNext, Refuse
<1> QED
  BY <1>1, <1>2, LimiterTypeCorrect, PTL DEF LimiterSpec

---------------------------------------------------------------------------
\* The budget
\*
\* A record that has not expired counts exactly the failures of its own window,
\* from the one that opened it to now, and whatever older failures the span
\* still reaches belong to the one window before, whose first failure has left
\* the span: otherwise that window would not have ended.

Most == MaxAttempts - 1 + Cardinality(Requests)
Live(c) == c \in DOMAIN entries /\ ~Expired(entries[c])

History == [0 .. Window -> Nat]
Growing(f) == \A i, j \in 0 .. Window : i <= j => f[i] <= f[j]

InWindow(c) ==
    LET f == tries[c]  rec == entries[c] IN
    /\ rec.count = f[rec.age]
    /\ rec.age > 0 => f[rec.age - 1] < rec.count
    /\ f[Window] - rec.count < Most
Between(c) == tries[c][0] = 0 /\ tries[c][Window] < Most

\* What a step has to restore for each caller.
WindowOK(c) ==
    /\ Growing(tries[c])
    /\ Live(c) => InWindow(c)
    /\ ~Live(c) => Between(c)

WindowInv == \A c \in Callers : WindowOK(c)

LEMMA MostType == Most \in Nat /\ Most > 0
<1>1. Cardinality(Requests) \in Nat /\ Cardinality(Requests) # 0
  BY RequestsAssumption, FS_CardinalityType, FS_EmptySet
<1> QED
  BY <1>1, MaxAttemptsAssumption DEF Most

\* KeepsToBudget, of one record.
LEMMA LiveCounts ==
    ASSUME LimiterTypeOK, KeepsToBudget, NEW c \in Callers, Live(c)
    PROVE  /\ entries[c].count \in Nat \ {0} /\ entries[c].count <= Most
           /\ entries[c].age \in 0 .. Window
<1>1. entries[c] \in Record
  BY DEF LimiterTypeOK, Live
<1>2. Checking(c) \subseteq Requests
  BY DEF Checking
<1>3. Cardinality(Checking(c)) \in Nat
  BY <1>2, RequestsAssumption, FS_Subset, FS_CardinalityType
<1>4. entries[c].count + Cardinality(Checking(c)) <= Most
  BY DEF KeepsToBudget, Live, Most
<1> QED
  BY <1>1, <1>3, <1>4, MostType, WindowAssumption DEF Record, Live, Expired

LEMMA HistoryOf == ASSUME LimiterTypeOK, NEW c \in Callers PROVE tries[c] \in History
BY DEF LimiterTypeOK, History

\* Nothing happens to a caller.
LEMMA SameWindow ==
    ASSUME NEW c \in Callers, WindowInv, tries'[c] = tries[c],
           Live(c)' <=> Live(c), Live(c) => entries'[c] = entries[c]
    PROVE  WindowOK(c)'
BY DEF WindowInv, WindowOK, Growing, InWindow, Between

\* All is forgotten.
LEMMA FreshWindow ==
    ASSUME NEW c \in Callers, ~Live(c)', tries'[c] = NoTries
    PROVE  WindowOK(c)'
<1>1. Window \in 0 .. Window /\ 0 \in 0 .. Window
  BY WindowAssumption
<1>2. Between(c)'
  BY <1>1, MostType DEF Between, NoTries
<1>3. Growing(tries'[c])
  BY DEF Growing, NoTries
<1> QED
  BY <1>2, <1>3 DEF WindowOK, Growing

\* One more failure.
LEMMA FailWindow ==
    ASSUME LimiterTypeOK, WindowInv, NEW c \in Callers,
           tries'[c] = [age \in 0 .. Window |-> tries[c][age] + 1],
           c \in DOMAIN entries',
           \/ ~Live(c) /\ entries'[c] = [count |-> 1, age |-> 0]
           \/ /\ Live(c) /\ entries'[c].count = entries[c].count + 1
              /\ entries'[c].age = entries[c].age
              /\ entries[c] \in Record
    PROVE  WindowOK(c)'
<1> DEFINE f == tries[c]
           h == [age \in 0 .. Window |-> f[age] + 1]
<1>1. f \in History /\ Window \in Nat /\ Window \in 0 .. Window /\ 0 \in 0 .. Window
  BY HistoryOf, WindowAssumption
<1>2. \A k \in 0 .. Window : f[k] \in Nat /\ h[k] = f[k] + 1
  BY <1>1 DEF History
<1>3. tries'[c] = h
  OBVIOUS
<1> HIDE DEF h, f
<1>4. Growing(tries[c])'
  <2>1. \A i, j \in 0 .. Window : i <= j => f[i] <= f[j]
    BY DEF WindowInv, WindowOK, Growing, f
  <2>2. \A i, j \in 0 .. Window : i <= j => h[i] <= h[j]
    BY <1>2, <2>1
  <2> QED
    BY <1>3, <2>2 DEF Growing
<1>5. CASE ~Live(c) /\ entries'[c] = [count |-> 1, age |-> 0]
  <2>1. f[0] = 0 /\ f[Window] < Most
    BY <1>5 DEF WindowInv, WindowOK, Between, f
  <2>2. entries'[c].count = 1 /\ entries'[c].age = 0
    BY <1>5
  <2>3. h[0] = 1 /\ h[Window] - 1 < Most
    BY <1>1, <1>2, <2>1, MostType
  <2>4. Live(c)'
    BY <1>1, <2>2 DEF Live, Expired
  <2>5. InWindow(c)'
    <3>1. ~(0 > 0)
      OBVIOUS
    <3> QED
      BY <1>3, <2>2, <2>3, <3>1 DEF InWindow
  <2> QED
    BY <1>4, <2>4, <2>5 DEF WindowOK
<1>6. CASE /\ Live(c) /\ entries'[c].count = entries[c].count + 1
           /\ entries'[c].age = entries[c].age /\ entries[c] \in Record
  <2> DEFINE g == entries[c].age
             n == entries[c].count
  <2>1. g \in 0 .. Window /\ n \in Nat
    BY <1>1, <1>6 DEF Live, Expired, Record
  <2>2. n = f[g] /\ (g > 0 => f[g - 1] < n) /\ f[Window] - n < Most
    BY <1>6 DEF WindowInv, WindowOK, InWindow, f
  <2> HIDE DEF g, n
  <2>3. /\ n + 1 = h[g] /\ h[Window] - (n + 1) < Most
        /\ g > 0 => h[g - 1] < n + 1
    <3>1. n + 1 = h[g]
      BY <1>2, <2>1, <2>2
    <3>2. h[Window] - (n + 1) < Most
      BY <1>1, <1>2, <2>1, <2>2, MostType
    <3>3. ASSUME g > 0 PROVE h[g - 1] < n + 1
      <4>1. g - 1 \in 0 .. Window
        BY <1>1, <2>1, <3>3
      <4> QED
        BY <1>2, <2>1, <2>2, <3>3, <4>1
    <3> QED
      BY <3>1, <3>2, <3>3
  <2>4. entries'[c].age = g /\ entries'[c].count = n + 1
    BY <1>6 DEF g, n
  <2>5. Live(c)'
    BY <1>1, <2>1, <2>4 DEF Live, Expired
  <2>6. InWindow(c)'
    BY <1>3, <2>3, <2>4 DEF InWindow
  <2> QED
    BY <1>4, <2>5, <2>6 DEF WindowOK
<1> QED
  BY <1>5, <1>6

\* A tick: a window that ends leaves only what came after its first failure.
LEMMA TickWindow ==
    ASSUME LimiterTypeOK, KeepsToBudget, WindowInv, NEW c \in Callers, Tick
    PROVE  WindowOK(c)'
<1> DEFINE f == tries[c]
           h == [age \in 0 .. Window |-> IF age = 0 THEN 0 ELSE f[age - 1]]
<1>1. f \in History /\ Window \in Nat /\ Window \in 0 .. Window /\ 0 \in 0 .. Window
  BY HistoryOf, WindowAssumption
<1>2. tries'[c] = h
  BY DEF Tick
<1>3. /\ h[0] = 0
      /\ \A k \in 0 .. Window : f[k] \in Nat
      /\ \A k \in 0 .. Window : k # 0 => k - 1 \in 0 .. Window /\ h[k] = f[k - 1]
  BY <1>1 DEF History
<1> HIDE DEF f, h
<1>4. Growing(f)
  BY DEF WindowInv, WindowOK, f
<1>5. Growing(tries[c])'
  <2> SUFFICES ASSUME NEW i \in 0 .. Window, NEW j \in 0 .. Window, i <= j PROVE h[i] <= h[j]
    BY <1>2 DEF Growing
  <2>1. CASE j = 0
    BY <1>3, <2>1
  <2>2. CASE j # 0 /\ i = 0
    BY <1>3, <2>2
  <2>3. CASE i # 0 /\ j # 0
    <3>1. i - 1 \in 0 .. Window /\ j - 1 \in 0 .. Window /\ i - 1 <= j - 1
      BY <1>3, <2>3
    <3> QED
      BY <1>3, <1>4, <2>3, <3>1 DEF Growing
  <2> QED
    BY <2>1, <2>2, <2>3
<1>6. c \in DOMAIN entries => entries[c] \in Record
  BY DEF LimiterTypeOK
<1>7. /\ DOMAIN entries' = DOMAIN entries
      /\ c \in DOMAIN entries => /\ entries'[c].count = entries[c].count
                                 /\ entries'[c].age = Older(entries[c].age)
  BY <1>6 DEF Tick, Record
<1>8. h[Window] \in Nat /\ f[Window] \in Nat /\ h[Window] <= f[Window]
  <2>1. CASE Window = 0
    BY <1>1, <1>3, <2>1
  <2>2. CASE Window # 0
    <3>1. Window - 1 \in 0 .. Window /\ h[Window] = f[Window - 1] /\ Window - 1 <= Window
      BY <1>1, <1>3, <2>2
    <3> QED
      BY <1>1, <1>3, <1>4, <3>1 DEF Growing
  <2> QED
    BY <2>1, <2>2
<1>9. ASSUME Live(c)' PROVE InWindow(c)'
  <2> DEFINE g == entries[c].age
             n == entries[c].count
  <2>1. c \in DOMAIN entries /\ ~(Older(g) > Window)
    BY <1>7, <1>9 DEF Live, Expired
  <2>2. g \in Nat /\ g < Window /\ entries'[c].age = g + 1 /\ entries'[c].count = n /\ n \in Nat \ {0}
    BY <1>1, <1>6, <1>7, <2>1 DEF Older, Record
  <2>3. Live(c)
    BY <1>1, <2>1, <2>2 DEF Live, Expired
  <2>4. n = f[g] /\ (g > 0 => f[g - 1] < n) /\ f[Window] - n < Most
    BY <2>3 DEF WindowInv, WindowOK, InWindow, f
  <2> HIDE DEF g, n
  <2>5. h[g + 1] = n
    <3>1. g + 1 \in 0 .. Window /\ g + 1 # 0 /\ (g + 1) - 1 = g
      BY <1>1, <2>2
    <3> QED
      BY <1>3, <2>4, <3>1
  <2>6. h[g] < n
    <3>1. CASE g = 0
      BY <1>3, <2>2, <3>1
    <3>2. CASE g # 0
      BY <1>1, <1>3, <2>2, <2>4, <3>2
    <3> QED
      BY <3>1, <3>2
  <2>7. h[Window] - n < Most
    BY <1>8, <2>2, <2>4, MostType
  <2>8. (g + 1) - 1 = g
    BY <2>2
  <2> QED
    BY <1>2, <2>2, <2>5, <2>6, <2>7, <2>8 DEF InWindow
<1>10. ASSUME ~Live(c)' PROVE Between(c)'
  <2>1. CASE Live(c)
    <3> DEFINE g == entries[c].age
               n == entries[c].count
    <3>1. n \in Nat \ {0} /\ n <= Most /\ g \in 0 .. Window /\ c \in DOMAIN entries
      BY <2>1, LiveCounts DEF Live
    <3>2. Older(g) > Window
      BY <1>7, <1>10, <3>1 DEF Live, Expired
    <3>3. g = Window
      BY <1>1, <3>1, <3>2 DEF Older
    <3>4. g > 0 => f[g - 1] < n
      BY <2>1 DEF WindowInv, WindowOK, InWindow, f
    <3> HIDE DEF g, n
    <3>5. h[Window] < Most
      <4>1. CASE Window = 0
        BY <1>3, <4>1, MostType
      <4>2. CASE Window # 0
        <5>1. h[Window] = f[Window - 1] /\ f[Window - 1] < n /\ f[Window - 1] \in Nat
          BY <1>1, <1>3, <3>3, <3>4, <4>2
        <5> QED
          BY <3>1, <5>1, MostType
      <4> QED
        BY <4>1, <4>2
    <3> QED
      BY <1>2, <1>3, <3>5 DEF Between
  <2>2. CASE ~Live(c)
    <3>1. f[Window] < Most
      BY <2>2 DEF WindowInv, WindowOK, Between, f
    <3> QED
      BY <1>2, <1>3, <1>8, <3>1, MostType DEF Between
  <2> QED
    BY <2>1, <2>2
<1> QED
  BY <1>5, <1>9, <1>10 DEF WindowOK

\* Every step.
LEMMA StepWindow ==
    ASSUME LimiterTypeOK, KeepsToBudget, WindowInv, [LimiterNext]_limiterVars
    PROVE  WindowInv'
<1> SUFFICES ASSUME NEW c \in Callers
             PROVE  WindowOK(c)'
  BY DEF WindowInv
<1>0. c \in DOMAIN entries => entries[c] \in Record
  BY DEF LimiterTypeOK
<1>1. ASSUME NEW r \in Requests, NEW d \in Callers, Allow(r, d)
      PROVE  WindowOK(c)'
  <2>1. tries'[c] = tries[c]
    BY <1>1 DEF Allow
  <2>2. Live(c)' <=> Live(c)
    BY <1>1 DEF Allow, Without, Restrict, Live
  <2>3. Live(c) => entries'[c] = entries[c]
    BY <1>1 DEF Allow, Without, Restrict, Live
  <2> QED
    BY <2>1, <2>2, <2>3, SameWindow
<1>2. ASSUME NEW r \in Requests, Wrong(r)
      PROVE  WindowOK(c)'
  <2> DEFINE d == signIn[r]
  <2>1. d \in Callers /\ fail(d) /\ tries' = [tries EXCEPT ![d] = [age \in 0 .. Window |-> @[age] + 1]]
    BY <1>2 DEF Wrong, LimiterTypeOK
  <2> HIDE DEF d
  <2>2. CASE c = d
    <3>1. tries'[c] = [age \in 0 .. Window |-> tries[c][age] + 1]
      BY <2>1, <2>2 DEF LimiterTypeOK
    <3>2. CASE (d \in DOMAIN entries => Expired(entries[d])) /\ entries' = FirstFailure(d)
      <4>1. ~Live(c) /\ c \in DOMAIN entries' /\ entries'[c] = [count |-> 1, age |-> 0]
        BY <2>2, <3>2 DEF Live, FirstFailure
      <4> QED
        BY <3>1, <4>1, FailWindow
    <3>3. CASE d \in DOMAIN entries /\ ~Expired(entries[d]) /\ entries' = OneMoreFailure(d)
      <4>1. Live(c)
        BY <2>2, <3>3 DEF Live
      <4> DEFINE table == [entries EXCEPT ![d].count = @ + 1]
      <4>2. /\ DOMAIN table = DOMAIN entries
            /\ table[c].count = entries[c].count + 1 /\ table[c].age = entries[c].age
        BY <1>0, <2>2, <3>3 DEF Record
      <4>3. ~Expired(table[c])
        BY <2>2, <3>3, <4>2 DEF Expired
      <4> HIDE DEF table
      <4>4. c \in DOMAIN Swept(table) /\ Swept(table)[c] = table[c]
        BY <2>2, <3>3, <4>2, <4>3 DEF Swept, Without, Restrict
      <4>5. entries' = Swept(table)
        BY <3>3 DEF OneMoreFailure, table
      <4> QED
        BY <1>0, <3>1, <4>1, <4>2, <4>4, <4>5, FailWindow DEF Live
    <3> QED
      BY <2>1, <3>2, <3>3 DEF fail
  <2>3. CASE c # d
    <3>1. tries'[c] = tries[c]
      BY <2>1, <2>3 DEF LimiterTypeOK
    <3>2. (Live(c)' <=> Live(c)) /\ (Live(c) => entries'[c] = entries[c])
      <4>1. CASE entries' = FirstFailure(d)
        BY <2>3, <4>1 DEF Live, FirstFailure
      <4>2. CASE d \in DOMAIN entries /\ entries' = OneMoreFailure(d)
        <5> DEFINE table == [entries EXCEPT ![d].count = @ + 1]
        <5>1. DOMAIN table = DOMAIN entries /\ (c \in DOMAIN entries => table[c] = entries[c])
          BY <2>3
        <5> HIDE DEF table
        <5>2. entries' = Swept(table)
          BY <4>2 DEF OneMoreFailure, table
        <5> QED
          BY <5>1, <5>2 DEF Live, Swept, Without, Restrict
      <4> QED
        BY <2>1, <4>1, <4>2 DEF fail
    <3> QED
      BY <3>1, <3>2, SameWindow
  <2> QED
    BY <2>2, <2>3
<1>3. ASSUME NEW r \in Requests, Right(r)
      PROVE  WindowOK(c)'
  <2> DEFINE d == signIn[r]
  <2>1. /\ d \in Callers /\ entries' = Without(entries, {d})
        /\ tries' = [tries EXCEPT ![d] = NoTries]
    BY <1>3 DEF Right, succeed, LimiterTypeOK
  <2> HIDE DEF d
  <2>2. CASE c = d
    <3>1. ~Live(c)' /\ tries'[c] = NoTries
      BY <2>1, <2>2 DEF Live, Without, Restrict, LimiterTypeOK
    <3> QED
      BY <3>1, FreshWindow
  <2>3. CASE c # d
    <3>1. tries'[c] = tries[c]
      BY <2>1, <2>3 DEF LimiterTypeOK
    <3>2. (Live(c)' <=> Live(c)) /\ (Live(c) => entries'[c] = entries[c])
      BY <2>1, <2>3 DEF Live, Without, Restrict
    <3> QED
      BY <3>1, <3>2, SameWindow
  <2> QED
    BY <2>2, <2>3
<1>4. ASSUME NEW r \in Requests, GiveUp(r)
      PROVE  WindowOK(c)'
  BY <1>4, SameWindow DEF GiveUp, Live
<1>5. CASE Restart
  <2>1. ~Live(c)' /\ tries'[c] = NoTries
    BY <1>5 DEF Restart, newAttemptLimiter, Live
  <2> QED
    BY <2>1, FreshWindow
<1>6. CASE Tick
  BY <1>6, TickWindow
<1>7. CASE UNCHANGED limiterVars
  BY <1>7, SameWindow DEF limiterVars, Live
<1> QED
  BY <1>1, <1>2, <1>3, <1>4, <1>5, <1>6, <1>7 DEF LimiterNext, Refuse

\* THEOREM: whoever is turned away has given MaxAttempts wrong answers in the
\* window, and nobody gives as many as two budgets of them in one span,
\* whatever the window, the budget and the number of sign-ins side by side.
THEOREM BudgetIsPerWindow == LimiterSpec => []BudgetPerWindow
<1>1. LimiterInit => WindowInv
  <2> SUFFICES ASSUME LimiterInit, NEW c \in Callers PROVE WindowOK(c)
    BY DEF WindowInv
  <2>1. ~Live(c) /\ tries[c] = NoTries
    BY DEF LimiterInit, Live, newAttemptLimiter
  <2>2. Window \in 0 .. Window /\ 0 \in 0 .. Window
    BY WindowAssumption
  <2>3. Between(c)
    BY <2>1, <2>2, MostType DEF Between, NoTries
  <2>4. Growing(tries[c])
    BY <2>1 DEF Growing, NoTries
  <2> QED
    BY <2>1, <2>3, <2>4 DEF WindowOK
<1>2. LimiterTypeOK /\ KeepsToBudget /\ WindowInv /\ [LimiterNext]_limiterVars => WindowInv'
  BY StepWindow
<1>3. LimiterTypeOK /\ KeepsToBudget /\ WindowInv => BudgetPerWindow
  <2> SUFFICES ASSUME LimiterTypeOK, KeepsToBudget, WindowInv, NEW c \in Callers
               PROVE  /\ Refused(c) => Recent(c) >= MaxAttempts
                      /\ Recent(c) < 2 * Most
    BY DEF BudgetPerWindow, NobodyLockedOutEarly, SpanHasTwoBudgets, Most
  <2>1. tries[c] \in History /\ Window \in 0 .. Window
    BY HistoryOf, WindowAssumption
  <2>2. Recent(c) = tries[c][Window] /\ tries[c][Window] \in Nat
    BY <2>1 DEF Recent, History
  <2>3. CASE Live(c)
    <3>1. /\ entries[c].count \in Nat /\ entries[c].count <= Most
          /\ entries[c].age \in 0 .. Window
      BY <2>3, LiveCounts
    <3>2. /\ entries[c].count = tries[c][entries[c].age]
          /\ tries[c][Window] - entries[c].count < Most
          /\ Growing(tries[c])
      BY <2>3 DEF WindowInv, WindowOK, InWindow
    <3>3. entries[c].count <= tries[c][Window]
      BY <2>1, <3>1, <3>2, WindowAssumption DEF Growing
    <3>4. Refused(c) => entries[c].count >= MaxAttempts
      BY DEF Refused, Spent
    <3> QED
      BY <2>2, <3>1, <3>2, <3>3, <3>4, MostType, MaxAttemptsAssumption
  <2>4. CASE ~Live(c)
    <3>1. ~Refused(c)
      BY <2>4 DEF Refused, Live
    <3>2. tries[c][Window] < Most
      BY <2>4 DEF WindowInv, WindowOK, Between
    <3> QED
      BY <2>2, <3>1, <3>2, MostType
  <2> QED
    BY <2>3, <2>4
<1> QED
  BY <1>1, <1>2, <1>3, LimiterTypeCorrect, BudgetHolds, PTL DEF LimiterSpec
=============================================================================
