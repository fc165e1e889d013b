------------------------------ MODULE EdgeRun ------------------------------
(***************************************************************************)
(* The life of the edge server (Server.Run): sockets bound in order, one   *)
(* serving and one closing goroutine per socket, the wait for sipgo to     *)
(* pool the UDP ones, the housekeeping goroutines, and shutdown on a       *)
(* cancelled context, a failed bind or a socket that stops serving, while  *)
(* INVITE handlers are in flight.                                          *)
(*                                                                         *)
(* Listeners are 1..N in the order they are bound. The dialog table is     *)
(* open or closed, with the calls it holds; the subscription table goes    *)
(* with it.                                                                *)
(***************************************************************************)
EXTENDS Naturals, FiniteSets

CONSTANTS
    N, Udp,         \* listeners; those that are UDP sockets
    Handlers        \* INVITE handlers

VARIABLES
    rpc,            \* where Run is
    bound,          \* sockets opened so far
    open, pooled,   \* open sockets; UDP sockets in sipgo's pool
    serve,          \* each serving goroutine
    errs,           \* errors in the channel
    helpers,        \* the housekeeping goroutines run
    shutting, cancelled, ready,   \* the caller's context, listenCtx, s.ready
    closed, hpc,    \* the dialog table refuses; each handler
    failed          \* history: Run gave up waiting for its sockets to serve

vars == <<rpc, bound, open, pooled, serve, errs, helpers, shutting, cancelled, ready, closed, hpc, failed>>
sockets == <<bound, open, pooled, serve, errs>>
flags == <<helpers, shutting, cancelled, ready, failed>>

\* Listeners are counted; there may be none.
ConstantsOK == N \in Nat

Listeners == 1..N

TypeOK ==
    /\ rpc \in {"check", "bind", "await", "giveUp", "gaveUp", "announce", "running", "closing",
                "cancel", "wait", "closeAll", "returned"}
    /\ bound \in 0..N /\ open \subseteq Listeners /\ pooled \subseteq Udp /\ errs \in 0..N
    /\ serve \in [Listeners -> {"none", "run", "failed", "ended"}]
    /\ helpers \in BOOLEAN /\ shutting \in BOOLEAN /\ cancelled \in BOOLEAN
    /\ ready \in BOOLEAN /\ closed \in BOOLEAN /\ failed \in BOOLEAN
    /\ hpc \in [Handlers -> {"idle", "arrived", "call", "done"}]

Init ==
    /\ rpc = "check" /\ bound = 0 /\ open = {} /\ pooled = {} /\ errs = 0 /\ helpers = FALSE
    /\ serve = [i \in Listeners |-> "none"]
    /\ shutting = FALSE /\ cancelled = FALSE /\ ready = FALSE /\ closed = FALSE /\ failed = FALSE
    /\ hpc = [h \in Handlers |-> "idle"]

----------------------------------------------------------------------------
(* Startup.                                                                *)

\* The addresses are checked and sipgo is set up.
Check ==
    /\ rpc = "check" /\ rpc' \in {"bind", "returned"}
    /\ UNCHANGED <<sockets, flags, closed, hpc>>

\* openListener; when one fails the others are closed.
Bind ==
    /\ rpc = "bind" /\ bound < N
    /\ \/ bound' = bound + 1 /\ open' = open \cup {bound + 1} /\ UNCHANGED rpc
       \/ open' = {} /\ rpc' = "returned" /\ UNCHANGED bound
    /\ UNCHANGED <<pooled, serve, errs, flags, closed, hpc>>

StartServing ==
    /\ rpc = "bind" /\ bound = N /\ rpc' = "await"
    /\ serve' = [i \in Listeners |-> "run"]
    /\ UNCHANGED <<bound, open, pooled, errs, flags, closed, hpc>>

\* awaitUDPServing: every UDP socket is pooled, one stopped serving, the
\* caller's context ended, or the deadline.
Await ==
    /\ rpc = "await"
    /\ \/ (pooled = Udp \/ shutting) /\ rpc' = "announce" /\ UNCHANGED <<errs, failed>>
       \/ /\ pooled # Udp /\ rpc' = "giveUp" /\ failed' = TRUE
          /\ (errs > 0 /\ errs' = errs - 1) \/ UNCHANGED errs
    /\ UNCHANGED <<bound, open, pooled, serve, helpers, shutting, cancelled, ready, closed, hpc>>

Announce ==
    /\ rpc = "announce" /\ rpc' = "running" /\ ready' = TRUE /\ helpers' = TRUE
    /\ UNCHANGED <<sockets, shutting, cancelled, failed, closed, hpc>>

----------------------------------------------------------------------------
(* The goroutines of a socket.                                             *)

Pool(i) ==
    /\ i \in (Udp \cap open) \ pooled /\ serve[i] = "run" /\ pooled' = pooled \cup {i}
    /\ UNCHANGED <<rpc, bound, open, serve, errs, flags, closed, hpc>>

CloseSocket(i) ==
    /\ cancelled /\ i \in open /\ open' = open \ {i}
    /\ UNCHANGED <<rpc, bound, pooled, serve, errs, flags, closed, hpc>>

\* Serve returns: the socket was closed, or failed. Only then is it an error.
ServeReturns(i) ==
    /\ serve[i] = "run" /\ (i \notin open \/ ~cancelled)
    /\ serve' = [serve EXCEPT ![i] = IF cancelled THEN "ended" ELSE "failed"]
    /\ UNCHANGED <<rpc, bound, open, pooled, errs, flags, closed, hpc>>

RoomForOne == errs < 1

\* The channel has room for every listener's error.
Room == errs < N

Report(i) ==
    /\ serve[i] = "failed" /\ Room /\ errs' = errs + 1
    /\ serve' = [serve EXCEPT ![i] = "ended"]
    /\ UNCHANGED <<rpc, bound, open, pooled, flags, closed, hpc>>

HelpersEnd ==
    /\ helpers /\ cancelled /\ helpers' = FALSE
    /\ UNCHANGED <<rpc, sockets, shutting, cancelled, ready, failed, closed, hpc>>

----------------------------------------------------------------------------
(* Shutdown.                                                               *)

Stop ==
    /\ ~shutting /\ shutting' = TRUE
    /\ UNCHANGED <<rpc, sockets, helpers, cancelled, ready, failed, closed, hpc>>

Wake ==
    /\ rpc = "running" /\ rpc' = "closing"
    /\ \/ shutting /\ UNCHANGED errs
       \/ errs > 0 /\ errs' = errs - 1
    /\ UNCHANGED <<bound, open, pooled, serve, flags, closed, hpc>>

CloseLate == rpc = "closing" /\ rpc' = "cancel" /\ UNCHANGED closed

\* dialogs.close, while the sockets are still up.
Close == rpc = "closing" /\ rpc' = "cancel" /\ closed' = TRUE

CloseTable == Close /\ UNCHANGED <<sockets, flags, hpc>>

Cancel ==
    /\ \/ rpc = "cancel" /\ rpc' = "wait"
       \/ rpc = "giveUp" /\ rpc' = "gaveUp"
    /\ cancelled' = TRUE
    /\ UNCHANGED <<sockets, helpers, shutting, ready, failed, closed, hpc>>

Drained == (\A i \in Listeners : serve[i] \in {"none", "ended"}) /\ ~helpers

\* wg.Wait, then closeAll ends the calls there are.
CloseAll ==
    /\ rpc \in {"wait", "gaveUp"} /\ Drained /\ rpc' = "returned"
    /\ hpc' = [h \in Handlers |-> IF hpc[h] = "call" THEN "done" ELSE hpc[h]]
    /\ UNCHANGED <<sockets, flags, closed>>

----------------------------------------------------------------------------
(* INVITE handlers: sipgo runs each in a goroutine of its own.             *)

Arrive(h) ==
    /\ hpc[h] = "idle" /\ (\E i \in open : serve[i] = "run")
    /\ hpc' = [hpc EXCEPT ![h] = "arrived"]
    /\ UNCHANGED <<rpc, sockets, flags, closed>>

\* begin refuses once the table is closed.
Begin(h) ==
    /\ hpc[h] = "arrived" /\ hpc' = [hpc EXCEPT ![h] = IF closed THEN "done" ELSE "call"]
    /\ UNCHANGED <<rpc, sockets, flags, closed>>

CallEnds(h) ==
    /\ hpc[h] = "call" /\ hpc' = [hpc EXCEPT ![h] = "done"]
    /\ UNCHANGED <<rpc, sockets, flags, closed>>

Main == Check \/ Bind \/ StartServing \/ Await \/ Announce \/ Wake \/ CloseTable \/ Cancel \/ CloseAll
Socket(i) == Pool(i) \/ CloseSocket(i) \/ ServeReturns(i) \/ Report(i)

Next ==
    \/ Main \/ Stop \/ HelpersEnd \/ \E i \in Listeners : Socket(i)
    \/ \E h \in Handlers : Arrive(h) \/ Begin(h) \/ CallEnds(h)

\* Run and the goroutines it starts are scheduled; a socket closed under
\* Serve makes it return.
Background(i) == CloseSocket(i) \/ Report(i) \/ (i \notin open /\ ServeReturns(i))
Fairness ==
    /\ WF_vars(Main) /\ WF_vars(HelpersEnd) /\ \A i \in Listeners : WF_vars(Background(i))

Spec == Init /\ [][Next]_vars /\ Fairness

----------------------------------------------------------------------------
\* When Run has returned nothing of it goes on: no serving or housekeeping
\* goroutine, and no call that a handler in flight opened after the sweep
\* (Run, close, closeAll). A startup that gives up waiting for its sockets
\* does not close the table first, and is excepted. Ready is honest: every
\* UDP socket is in sipgo's pool, unless the process is on its way down
\* (awaitUDPServing).
NothingLeft ==
    /\ rpc = "returned" => Drained /\ (failed \/ \A h \in Handlers : hpc[h] # "call")
    /\ ready => pooled = Udp \/ shutting

\* Shutdown completes: whatever stops, Run returns, and every socket is closed
\* although nobody waits for the goroutines that close them.
RunReturns == (shutting \/ errs > 0) ~> (rpc = "returned" /\ open = {})

\* A startup that gave up leaves no call behind either (closeAll).
FailedStartLeavesNothing == rpc = "returned" => \A h \in Handlers : hpc[h] # "call"
=============================================================================
