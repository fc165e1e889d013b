----------------------------- MODULE AdminAuth -----------------------------
(***************************************************************************)
(* Authentication at the admin server (admin/server.go, session.go): the   *)
(* per-source failure limiter whose slot is reserved before bcrypt and     *)
(* given back after it, the remembered credentials, and the sessions.      *)
(*                                                                         *)
(* A source is a limiter key: an IPv4 address or an IPv6 /64. Whether the  *)
(* password is right is known when bcrypt returns. Windows have names, for *)
(* their start times. Times are ages, in ticks, up to their limit.         *)
(***************************************************************************)
EXTENDS Naturals, FiniteSets

CONSTANTS
    Requests,       \* 1..N, named in the order they arrive
    Sources,
    Limit,          \* authFailLimit
    Window,         \* authFailWindow
    MaxIPs,         \* authFailMaxIPs
    CredsTTL,       \* verifiedCredsTTL
    MaxSessions,    \* sessionMax
    IdleTimeout, MaxAge

ConstantsOK ==
    /\ IsFiniteSet(Requests) /\ Requests \subseteq Nat /\ "nobody" \notin Sources
    /\ {Limit, Window, MaxIPs, MaxSessions} \subseteq Nat \ {0}
    /\ {CredsTTL, IdleTimeout, MaxAge} \subseteq Nat

VARIABLES
    req,            \* per request: where it is, its source, its slot, the session it made
    perIP,          \* the limiter's table: source -> entry
    windows,        \* windows started so far
    seen,           \* age of the remembered credential, CredsTTL when it is none
    sessions,       \* live sessions: name -> [age, idle]
    reports, guesses  \* history: login_limited events and wrong passwords per window

vars == <<req, perIP, windows, seen, sessions, reports, guesses>>

NoSlot == 0
Nobody == "nobody"
Names == 1..Cardinality(Requests)
Entry == [start : Names, failures : Nat, denied : BOOLEAN, age : 0..Window]

TypeOK ==
    /\ req \in [Requests -> [pc : {"new", "basic", "login", "passed", "refused", "limited"},
                             source : Sources \cup {Nobody}, slot : Names \cup {NoSlot}]]
    /\ DOMAIN perIP \subseteq Sources /\ \A s \in DOMAIN perIP : perIP[s] \in Entry
    /\ windows \in {NoSlot} \cup Names /\ seen \in 0..CredsTTL
    /\ DOMAIN sessions \subseteq Requests
    /\ \A i \in DOMAIN sessions : sessions[i] \in [age : 0..MaxAge, idle : 0..IdleTimeout]
    /\ reports \in [Names -> Nat] /\ guesses \in [Names -> Nat]

Init ==
    /\ req = [r \in Requests |-> [pc |-> "new", source |-> Nobody, slot |-> NoSlot]]
    /\ perIP = <<>> /\ windows = 0 /\ seen = CredsTTL /\ sessions = <<>>
    /\ reports = [n \in Names |-> 0] /\ guesses = [n \in Names |-> 0]

Only(f, S) == [x \in DOMAIN f \cap S |-> f[x]]
With(f, x, v) == [y \in DOMAIN f \cup {x} |-> IF y = x THEN v ELSE f[y]]

----------------------------------------------------------------------------
(* authLimiter.                                                            *)

Open(table, s) == s \in DOMAIN table /\ table[s].age < Window
Over(table, s) == Open(table, s) /\ table[s].failures >= Limit

\* evictLocked: the fewest failures, the oldest window on a tie.
Victim(table) ==
    CHOOSE s \in DOMAIN table : \A x \in DOMAIN table :
        \/ table[s].failures < table[x].failures
        \/ table[s].failures = table[x].failures /\ table[s].start <= table[x].start

\* A new window: every expired entry goes, and one more when the table is full.
Swept(s) ==
    LET live == Only(perIP, {x \in Sources : Open(perIP, x)})
    IN IF s \notin DOMAIN live /\ Cardinality(DOMAIN live) >= MaxIPs
       THEN Only(live, Sources \ {Victim(live)})
       ELSE live

\* countLocked.
Count(s) ==
    IF Open(perIP, s)
    THEN perIP' = [perIP EXCEPT ![s].failures = @ + 1] /\ UNCHANGED windows
    ELSE /\ windows' = windows + 1
         /\ perIP' = With(Swept(s), s, [start |-> windows + 1, failures |-> 1,
                                        denied |-> FALSE, age |-> 0])

\* reserve: refused once the budget is spent, and reported once per window.
Reserve(r, s, then) ==
    IF Over(perIP, s)
    THEN /\ req' = [req EXCEPT ![r].pc = "limited"]
         /\ perIP' = [perIP EXCEPT ![s].denied = TRUE]
         /\ reports' = [reports EXCEPT ![perIP[s].start] = IF perIP[s].denied THEN @ ELSE @ + 1]
         /\ UNCHANGED windows
    ELSE /\ Count(s)
         /\ req' = [req EXCEPT ![r] = [pc |-> then, source |-> s, slot |-> perIP'[s].start]]
         /\ UNCHANGED reports

\* refund: a slot of a window that is gone is dropped.
Refund(r) ==
    LET s == req[r].source IN
    perIP' = IF s \in DOMAIN perIP /\ perIP[s].start = req[r].slot /\ perIP[s].failures > 0
             THEN [perIP EXCEPT ![s].failures = @ - 1] ELSE perIP

----------------------------------------------------------------------------
(* The handlers.                                                           *)

Arrives(r) == req[r].pc = "new" /\ \A x \in Requests : x < r => req[x].pc # "new"
Live(i) == i \in DOMAIN sessions /\ sessions[i].age < MaxAge /\ sessions[i].idle < IdleTimeout

\* A request with a session cookie: valid touches the session, or removes it.
\* Without a live session and without credentials it is turned away.
Cookie(r, i) ==
    /\ Arrives(r) /\ i \in DOMAIN sessions
    /\ IF Live(i) THEN /\ sessions' = [sessions EXCEPT ![i].idle = 0]
                       /\ req' = [req EXCEPT ![r].pc = "passed"]
                  ELSE /\ sessions' = Only(sessions, Requests \ {i})
                       /\ req' = [req EXCEPT ![r].pc = "refused"]
    /\ UNCHANGED <<perIP, windows, seen, reports, guesses>>

\* requireAuth with Basic credentials. Only right ones can have been seen.
Known(r) ==
    /\ Arrives(r) /\ seen < CredsTTL /\ seen' = 0
    /\ req' = [req EXCEPT ![r].pc = "passed"]
    /\ UNCHANGED <<perIP, windows, sessions, reports, guesses>>

Basic(r) ==
    /\ Arrives(r) /\ \E s \in Sources : Reserve(r, s, "basic")
    /\ UNCHANGED <<seen, sessions, guesses>>

\* handleLogin.
Login(r) ==
    /\ Arrives(r) /\ \E s \in Sources : Reserve(r, s, "login")
    /\ UNCHANGED <<seen, sessions, guesses>>

\* bcrypt says no: the slot stays, it is this failure.
Wrong(r) ==
    /\ req[r].pc \in {"basic", "login"} /\ req' = [req EXCEPT ![r].pc = "refused"]
    /\ guesses' = [guesses EXCEPT ![req[r].slot] = @ + 1]
    /\ UNCHANGED <<perIP, windows, seen, sessions, reports>>

\* create: expired sessions go first, then the oldest by creation.
Oldest(live) == CHOOSE i \in live : \A j \in live : sessions[i].age >= sessions[j].age
Create(r) ==
    LET live == {i \in DOMAIN sessions : Live(i)}
        kept == IF Cardinality(live) >= MaxSessions THEN live \ {Oldest(live)} ELSE live
    IN sessions' = With(Only(sessions, kept), r, [age |-> 0, idle |-> 0])

Right(r) ==
    /\ req[r].pc \in {"basic", "login"} /\ Refund(r)
    /\ req' = [req EXCEPT ![r].pc = "passed"]
    /\ \/ req[r].pc = "basic" /\ seen' = 0 /\ UNCHANGED sessions
       \/ req[r].pc = "login" /\ Create(r) /\ UNCHANGED seen
    /\ UNCHANGED <<windows, reports, guesses>>

\* handleLogout.
Logout(i) ==
    /\ i \in DOMAIN sessions /\ sessions' = Only(sessions, Requests \ {i})
    /\ UNCHANGED <<req, perIP, windows, seen, reports, guesses>>

Older(n, cap) == IF n < cap THEN n + 1 ELSE n
Tick ==
    /\ perIP' = [s \in DOMAIN perIP |-> [perIP[s] EXCEPT !.age = Older(@, Window)]]
    /\ seen' = Older(seen, CredsTTL)
    /\ sessions' = [i \in DOMAIN sessions |->
                      [age |-> Older(sessions[i].age, MaxAge),
                       idle |-> Older(sessions[i].idle, IdleTimeout)]]
    /\ UNCHANGED <<req, windows, reports, guesses>>

Next ==
    \/ \E r \in Requests : \/ Known(r) \/ Basic(r) \/ Login(r) \/ Wrong(r) \/ Right(r)
                           \/ \E i \in Requests : Cookie(r, i)
    \/ (\E i \in Requests : Logout(i)) \/ Tick

Spec == Init /\ [][Next]_vars

----------------------------------------------------------------------------
\* The budget is exact however requests overlap with bcrypt, refunds and the
\* roll of the window: an entry's failures are the requests of its own window
\* that failed or are still in bcrypt, so no more than Limit passwords are
\* tried in a window, and its lockout is reported once (reserve, refund).
BudgetsExact ==
    /\ \A s \in DOMAIN perIP : LET n == perIP[s].start IN
         perIP[s].failures = guesses[n] + Cardinality({r \in Requests :
                               req[r].slot = n /\ req[r].pc \in {"basic", "login"}})
    /\ \A n \in Names : guesses[n] <= Limit /\ reports[n] <= 1
    /\ Cardinality(DOMAIN perIP) <= MaxIPs /\ Cardinality(DOMAIN sessions) <= MaxSessions

\* Fresh sources cannot push a locked-out one from the full table while there
\* is another to evict: it leaves before its window ends only when every
\* entry is locked out (evictLocked).
LockoutsKept ==
    [][\A s \in DOMAIN perIP :
          Over(perIP, s) /\ s \notin DOMAIN perIP' => \A x \in DOMAIN perIP : Open(perIP, x) => Over(perIP, x)]_vars
=============================================================================
