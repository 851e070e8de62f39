------------------------------- MODULE System -------------------------------
(***************************************************************************)
(* The two programs of one installation on one database: the server, which *)
(* is started again whenever it ends, and the command that sets or clears  *)
(* the password (src/cmd/server/main.go:31-153).  Both open the database,  *)
(* as in Migrate; then the server answers requests, as in Gate, and the    *)
(* command does its two writes and ends.  The settings came with the       *)
(* newest migration; a server of an earlier build has no gate.             *)
(***************************************************************************)
EXTENDS Integers

CONSTANTS
    Server, Command,
    Nobody, Newest,             \* see Migrate
    Guests, Strangers, Passwords, NoPassword,   \* see Gate
    MaxCommands,                \* bound: how often the password is changed
    MaxCrashes                  \* bound: processes that end without being done

VARIABLES
    version, schema, lock, stage, next, known,
    hash, key, made, request, cookie, shown, command, torn,
    commands, crashes           \* counted for the bounds

Processes == {Server, Command}
Settings == Newest

M == INSTANCE Migrate
G == INSTANCE Gate

database == <<version, schema, lock, stage, next, known>>
gate == <<hash, key, made, request, cookie, shown, command, torn>>
ASSUME ProcessesAssumption == Server # Command
ASSUME DatabaseAssumption == M!ConstantsOK
ASSUME GateAssumption == G!ConstantsOK
ASSUME BoundsAssumption == MaxCommands \in Nat /\ MaxCrashes \in Nat

counted == <<commands, crashes>>
vars == <<database, gate, counted>>

Init ==
    /\ M!Init /\ known[Command] >= Settings
    /\ G!Init
    /\ commands = 0 /\ crashes = 0

\* The command is not started again when it is done.
MayStart(p) == p = Command => commands < MaxCommands

Open(p) ==
    /\ \/ MayStart(p) /\ M!Start(p)
       \/ M!ReadVersion(p)
       \/ M!Begin(p)
       \/ M!Commit(p)
       \/ M!Fail(p)
    /\ UNCHANGED <<gate, counted>>

Gated == M!Opened(Server) /\ known[Server] >= Settings

\* The server at work
Serve(g) ==
    /\ Gated
    /\ G!Handle(g)
    /\ UNCHANGED <<database, counted>>

\* managePassword
WriteHash ==
    /\ M!Opened(Command) /\ commands < MaxCommands
    /\ \/ \E password \in Passwords : G!SetPassword(password)
       \/ G!ClearPassword
    /\ commands' = commands + 1
    /\ UNCHANGED <<database, crashes>>

\* With the second write the command is done.
RotateSessionKey ==
    /\ M!Opened(Command)
    /\ G!RotateSessionKey
    /\ M!Leave(Command)
    /\ UNCHANGED counted

Crash(p) ==
    /\ crashes < MaxCrashes
    /\ crashes' = crashes + 1
    /\ M!Crash(p)
    /\ \/ p = Server /\ G!ServerDies
       \/ p = Command /\ G!CommandDies
    /\ UNCHANGED commands

Update ==
    /\ M!Update(Server)
    /\ G!ServerDies
    /\ UNCHANGED counted

Next ==
    \/ \E p \in Processes : Open(p)
    \/ \E g \in Guests : Serve(g)
    \/ WriteHash
    \/ RotateSessionKey
    \/ \E p \in Processes : Crash(p)
    \/ Update

\* launchd starts the server again; a process that runs goes on; a guest who
\* looks at the sign-in form types the password every now and then, and is not
\* turned away by the limiter every time (a lockout ends: LetInAgain in Limiter).
Answer(g) ==
    /\ Gated
    /\ G!VerifyPassword(g) \/ G!ReadKey(g) \/ G!MakeKey(g)
    /\ UNCHANGED <<database, counted>>
Knock(g) ==
    /\ Gated /\ shown[g] = "login"
    /\ \E password \in Passwords :
          /\ hash \in {password, NoPassword}
          /\ G!SignIn(g, password)
    /\ UNCHANGED <<database, counted>>

Fairness ==
    /\ \A p \in Processes : WF_vars(Open(p))
    /\ \A g \in Guests : WF_vars(Answer(g)) /\ SF_vars(Knock(g))

Spec == Init /\ [][Next]_vars /\ Fairness

---------------------------------------------------------------------------
\* Properties

TypeOK ==
    /\ M!TypeOK /\ G!TypeOK
    /\ commands \in 0 .. MaxCommands /\ crashes \in 0 .. MaxCrashes

VersionIsSchema == M!VersionIsSchema
OpenHasTables == M!OpenHasTables

OldPasswordsOut == G!OldPasswordsOut
SignedInStays == G!SignedInStays
KeysComeFromCommand == G!KeysComeFromCommand

\* However the server, the command and their crashes interleave, the server
\* is up again and again and whoever knows the password gets in: no start is
\* spoilt for good by another process's migration, and a cookie that was
\* handed out is signed with the key that it is checked with.
GuestsGetIn == \A g \in Guests : []<>(M!Opened(Server) /\ shown[g] = "page")
=============================================================================
