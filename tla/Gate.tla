-------------------------------- MODULE Gate --------------------------------
(***************************************************************************)
(* The shared password: sign-in, the cookie and the session key            *)
(* (src/internal/httpapi/gate.go:28-183, src/internal/store/settings.go),  *)
(* and the command that sets or clears the password                        *)
(* (src/cmd/server/main.go:114-153).                                       *)
(*                                                                         *)
(* Every read and every write of a setting is a statement of its own, and  *)
(* so a step: between the hash a sign-in reads, the seconds it takes to    *)
(* verify a password, and the key it signs with, other requests and the    *)
(* command go on.  A hash stands for the password it was made from, a      *)
(* cookie for the key that signed it; keys are numbered as they are made.  *)
(* The attempt limiter (gate.go:107-112) is in Limiter: a sign-in that it  *)
(* turns away reads and changes nothing of what is here, and so is no step *)
(* of this module.                                                         *)
(***************************************************************************)
EXTENDS Integers

CONSTANTS
    Guests,         \* browsers, with one request at a time
    Strangers,      \* those that come with a cookie of another database
    Passwords,
    NoPassword      \* PasswordHash when none is set

\* What a module that instantiates this one assumes of them.
ConstantsOK == Strangers \subseteq Guests /\ NoPassword \notin Passwords

VARIABLES
    hash,       \* auth.password_hash
    key,        \* auth.session_key, NoKey when there is none
    made,       \* the keys made so far
    request,    \* guest -> the handler of its request
    cookie,     \* guest -> the cookie its browser holds
    shown,      \* guest -> whether its browser shows the page or the sign-in
    command,    \* where the command is
    torn        \* history: the hash was written, and no key since

settings == <<hash, key, made>>
browsers == <<cookie, shown>>
vars == <<hash, key, made, request, cookie, shown, command, torn>>

NoKey == 0

Handler(at, typed, saw) == [at |-> at, typed |-> typed, saw |-> saw, rotated |-> FALSE]
Idle == Handler("idle", NoPassword, NoPassword)

Cookie(k) == [key |-> k, typed |-> NoPassword, rotated |-> FALSE]
NoCookie == Cookie(NoKey)
Foreign == Cookie(-1)

Init ==
    /\ hash = NoPassword /\ key = NoKey /\ made = 0
    /\ request = [g \in Guests |-> Idle]
    /\ cookie = [g \in Guests |-> IF g \in Strangers THEN Foreign ELSE NoCookie]
    /\ shown = [g \in Guests |-> "page"]
    /\ command = "idle" /\ torn = FALSE

Signed(g) == cookie[g] # NoCookie

\* ValidSession, for a cookie that is within its week.
Valid(g) == Signed(g) /\ cookie[g].key = key

Await(g, handler) == request' = [request EXCEPT ![g] = handler]
Show(g, what) == shown' = [shown EXCEPT ![g] = what]

---------------------------------------------------------------------------
\* handleLogin.  history: a handler is "rotated" once the command has made a
\* new key meanwhile.

SignIn(g, password) ==
    /\ request[g] = Idle
    /\ \/ /\ hash = NoPassword
          /\ Show(g, "page")
          /\ UNCHANGED request
       \/ /\ hash # NoPassword
          /\ Await(g, Handler("verify", password, hash))
          /\ UNCHANGED shown
    /\ UNCHANGED <<settings, cookie, command, torn>>

VerifyPassword(g) ==
    /\ request[g].at = "verify"
    /\ \/ /\ request[g].typed = request[g].saw
          /\ Await(g, [request[g] EXCEPT !.at = "signing"])
       \/ /\ request[g].typed # request[g].saw
          /\ Await(g, Idle)
    /\ UNCHANGED <<settings, browsers, command, torn>>

---------------------------------------------------------------------------
\* requirePassword

Visit(g) ==
    /\ request[g] = Idle
    /\ \/ /\ hash = NoPassword \/ ~Signed(g)
          /\ Show(g, IF hash = NoPassword THEN "page" ELSE "login")
          /\ UNCHANGED request
       \/ /\ hash # NoPassword /\ Signed(g)
          /\ Await(g, Handler("checking", NoPassword, NoPassword))
          /\ UNCHANGED shown
    /\ UNCHANGED <<settings, cookie, command, torn>>

\* What a handler does with the session key.
UseKey(g, k) ==
    /\ Await(g, Idle)
    /\ \/ /\ request[g].at \in {"signing", "signingNew"}
          /\ cookie' = [cookie EXCEPT ![g] =
                [key |-> k, typed |-> request[g].typed, rotated |-> request[g].rotated]]
          /\ Show(g, "page")
       \/ /\ request[g].at \in {"checking", "checkingNew"}
          /\ Show(g, IF cookie[g].key = k THEN "page" ELSE "login")
          /\ UNCHANGED cookie

---------------------------------------------------------------------------
\* SessionKey: the key is read, and if there is none made and stored.

Store(k) == key' = k

MakingOne(at) == IF at = "signing" THEN "signingNew" ELSE "checkingNew"

ReadKey(g) ==
    /\ request[g].at \in {"signing", "checking"}
    /\ \/ /\ key # NoKey
          /\ UseKey(g, key)
       \/ /\ key = NoKey
          /\ Await(g, [request[g] EXCEPT !.at = MakingOne(@)])
          /\ UNCHANGED browsers
    /\ UNCHANGED <<settings, command, torn>>

MakeKey(g) ==
    /\ request[g].at \in {"signingNew", "checkingNew"}
    /\ made' = made + 1
    /\ Store(made + 1)
    /\ UseKey(g, made + 1)
    /\ UNCHANGED <<hash, command, torn>>

---------------------------------------------------------------------------
\* The browser

\* handleLogout, or a week has passed.
Forget(g) ==
    /\ request[g] = Idle /\ Signed(g)
    /\ cookie' = [cookie EXCEPT ![g] = NoCookie]
    /\ UNCHANGED <<settings, request, shown, command, torn>>

---------------------------------------------------------------------------
\* managePassword

WriteHash(h) ==
    /\ command = "idle"
    /\ hash' = h
    /\ command' = "rotate" /\ torn' = TRUE
    /\ UNCHANGED <<key, made, request, browsers>>

SetPassword(password) == WriteHash(password)
ClearPassword == WriteHash(NoPassword)

Rotated(r) == IF r = Idle THEN r ELSE [r EXCEPT !.rotated = TRUE]

Rotate_Deletes == UNCHANGED made /\ key' = NoKey
Rotate_Not == UNCHANGED <<key, made>>
Rotate ==
    /\ made' = made + 1
    /\ key' = made + 1

RotateSessionKey ==
    /\ command = "rotate"
    /\ Rotate
    /\ request' = [g \in Guests |-> Rotated(request[g])]
    /\ command' = "idle" /\ torn' = FALSE
    /\ UNCHANGED <<hash, browsers>>

\* The command ends before its second write.
CommandDies ==
    /\ command' = "idle"
    /\ UNCHANGED <<settings, request, browsers, torn>>

\* The server ends, and with it what it was about to answer.
ServerDies_WithKey ==
    /\ key' = NoKey
    /\ request' = [g \in Guests |-> Idle]
    /\ UNCHANGED <<hash, made, browsers, command, torn>>
ServerDies ==
    /\ request' = [g \in Guests |-> Idle]
    /\ UNCHANGED <<settings, browsers, command, torn>>

Handle(g) ==
    \/ \E password \in Passwords : SignIn(g, password)
    \/ VerifyPassword(g) \/ Visit(g) \/ ReadKey(g) \/ MakeKey(g) \/ Forget(g)

Next ==
    \/ \E g \in Guests : Handle(g)
    \/ \E password \in Passwords : SetPassword(password)
    \/ ClearPassword
    \/ RotateSessionKey
    \/ CommandDies
    \/ ServerDies

Spec == Init /\ [][Next]_vars

---------------------------------------------------------------------------

Typed == Passwords \cup {NoPassword}
Handlers ==
    [at: {"idle", "verify", "signing", "signingNew", "checking", "checkingNew"},
     typed: Typed, saw: Typed, rotated: BOOLEAN]
Cookies == [key: -1 .. made, typed: Typed, rotated: BOOLEAN]

TypeOK ==
    /\ hash \in Typed
    /\ made \in Nat
    /\ key \in 0 .. made
    /\ request \in [Guests -> Handlers]
    /\ cookie \in [Guests -> Cookies]
    /\ shown \in [Guests -> {"page", "login"}]
    /\ command \in {"idle", "rotate"} /\ torn \in BOOLEAN

\* "Used when the password changes: somebody who signed in with the old
\* password should not stay in" (settings.go:103-104, main.go:124-125, 145).
\* There are two ways to stay in all the same, and no third: the command ended
\* between its two writes, or the sign-in was under way while the key changed,
\* so that it verified against the old hash and was signed with the new key.
OldPasswordsOut ==
    \A g \in Guests : Valid(g) /\ cookie[g].typed # hash =>
        torn \/ cookie[g].rotated

\* A browser that is signed in stays so, whatever is restarted: its cookie
\* goes with logout or its week, with a change of the password, or because a
\* handler that found no key when there was none has made a second one
\* (settings.go:75-77, 92-97).
SignedInStays ==
    [][\A g \in Guests : Valid(g) =>
          \/ Valid(g)'
          \/ Forget(g)
          \/ RotateSessionKey
          \/ \E h \in Guests : MakeKey(h)]_vars

\* A handler makes a key only where the command has not: in an installation
\* that has a password and no key yet, or had when the handler looked
\* (settings.go:72-73, main.go:142-146).  So there is no second key, which
\* would sign everybody out, once the command has been run to its end.
KeysComeFromCommand ==
    \A g \in Guests : request[g].at \in {"signingNew", "checkingNew"} =>
        torn \/ request[g].rotated
=============================================================================
