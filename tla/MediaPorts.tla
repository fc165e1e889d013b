----------------------------- MODULE MediaPorts -----------------------------
(***************************************************************************)
(* The RTP port pools (internal/media/portpool.go: PlanePool) and the      *)
(* sessions that draw on them (session.go: AllocateAcross, closeWith;      *)
(* relay.go: Start, watchdog). A session takes a pair from the public pool *)
(* (side A), then one from the private pool (side B); both pools cover the *)
(* one rtp range of the boot snapshot (edge/mediapool.go), each on its own *)
(* bind address. A port stands for the pair (port, port + 1).              *)
(***************************************************************************)
EXTENDS Integers, FiniteSets

CONSTANTS
    Sessions,   \* media sessions being set up, relayed and torn down
    MinPort,    \* rtp.min of the boot snapshot
    MaxPort     \* rtp.max

ASSUME RangeAssumption == MinPort \in Nat \ {0} /\ MaxPort \in Nat

Sides == {"A", "B"}
Closers == {"owner", "watchdog"}
NoPort == 0

\* sweep: RTP ports are even, and a pair ends inside the range.
Lo == IF MinPort % 2 # 0 THEN MinPort + 1 ELSE MinPort
Hi == MaxPort
Pairs == (Hi - Lo + 1) \div 2
Ports == {p \in Lo..Hi : p % 2 = 0 /\ p + 1 <= Hi}

VARIABLES
    cursor,   \* PlanePool.cursor of each pool
    inUse,    \* PlanePool.inUse of each pool
    bound,    \* ports of each pool on which this process has sockets open
    pc,       \* program point of each allocation
    side,     \* the pool an allocation is sweeping
    tried,    \* sweep's tried
    port,     \* the pair an allocation or session was given of each pool
    held,     \* history: the sides whose pair it has and has not given back
    seen,     \* history: ports that were in use at some moment of the sweep
    life,     \* Session.state
    closing   \* program point of each caller of closeWith

pool == <<cursor, inUse, bound>>
alloc == <<pc, side, tried, port, held, seen>>
vars == <<pool, alloc, life, closing>>

TypeOK ==
    /\ cursor \in [Sides -> Nat]
    /\ inUse \in [Sides -> SUBSET Ports]
    /\ bound \in [Sides -> SUBSET (Ports \cup {NoPort})]
    /\ pc \in [Sessions -> {"new", "sweep", "bind", "unbind", "undo", "failed", "ready"}]
    /\ side \in [Sessions -> Sides]
    /\ tried \in [Sessions -> Nat]
    /\ port \in [Sessions -> [Sides -> Ports \cup {NoPort}]]
    /\ held \in [Sessions -> SUBSET Sides]
    /\ seen \in [Sessions -> SUBSET Ports]
    /\ life \in [Sessions -> {"none", "allocated", "running", "closed"}]
    /\ closing \in [Sessions -> [Closers -> {"idle", "close", "releaseA", "releaseB", "done"}]]

Init ==
    /\ cursor = [x \in Sides |-> 0]
    /\ inUse = [x \in Sides |-> {}]
    /\ bound = [x \in Sides |-> {}]
    /\ pc = [s \in Sessions |-> "new"]
    /\ side = [s \in Sessions |-> "A"]
    /\ tried = [s \in Sessions |-> 0]
    /\ port = [s \in Sessions |-> [x \in Sides |-> NoPort]]
    /\ held = [s \in Sessions |-> {}]
    /\ seen = [s \in Sessions |-> {}]
    /\ life = [s \in Sessions |-> "none"]
    /\ closing = [s \in Sessions |-> [c \in Closers |-> "idle"]]

At(s, p) == pc[s] = p
Goto(s, p) == pc' = [pc EXCEPT ![s] = p]

----------------------------------------------------------------------------
(* reserveNext: one candidate, under the pool's mutex.                     *)

\* The candidate the cursor stands on, back to Lo when out of the range.
Candidate(c) == IF c < Lo \/ c + 1 > Hi THEN Lo ELSE c

\* Where the cursor is left.
AdvancedStuck(c) == c
Advanced(c) == IF c + 2 + 1 > Hi THEN Lo ELSE c + 2

\* Every allocation sweeping this pool has now seen the port in use: it was
\* already reserved, or it is now.
Witnessed(x, p) ==
    [t \in Sessions |-> IF pc[t] \in {"sweep", "bind"} /\ side[t] = x
                        THEN seen[t] \cup {p} ELSE seen[t]]

\* A new allocation reads the pool parameters, which never change.
Allocate(s) ==
    /\ At(s, "new")
    /\ Goto(s, "sweep")
    /\ UNCHANGED <<pool, side, tried, port, held, seen, life, closing>>

ReserveNext(s) ==
    LET x == side[s]
        p == Candidate(cursor[x])
    IN  /\ At(s, "sweep") /\ tried[s] < Pairs
        /\ cursor' = [cursor EXCEPT ![x] = Advanced(p)]
        /\ seen' = Witnessed(x, p)
        /\ IF p \in inUse[x]
           THEN /\ tried' = [tried EXCEPT ![s] = @ + 1]
                /\ UNCHANGED <<inUse, pc, port, held>>
           ELSE /\ inUse' = [inUse EXCEPT ![x] = @ \cup {p}]
                /\ port' = [port EXCEPT ![s][x] = p]
                /\ held' = [held EXCEPT ![s] = @ \cup {x}]
                /\ Goto(s, "bind")
                /\ UNCHANGED tried
        /\ UNCHANGED <<bound, side, life, closing>>

\* release: the reservation of the port is dropped, whoever has it by now.
Release(s, x) ==
    /\ inUse' = [inUse EXCEPT ![x] = @ \ {port[s][x]}]
    /\ held' = [held EXCEPT ![s] = @ \ {x}]
    /\ UNCHANGED port

\* bindPair succeeds, on a port nothing holds: on to the next pool, or done.
BindPair(s) ==
    LET x == side[s]
    IN  /\ At(s, "bind") /\ port[s][x] \notin bound[x]
        /\ bound' = [bound EXCEPT ![x] = @ \cup {port[s][x]}]
        /\ IF x = "A"
           THEN /\ side' = [side EXCEPT ![s] = "B"]
                /\ tried' = [tried EXCEPT ![s] = 0]
                /\ seen' = [seen EXCEPT ![s] = {}]
                /\ Goto(s, "sweep")
                /\ UNCHANGED life
           ELSE /\ life' = [life EXCEPT ![s] = "allocated"]
                /\ Goto(s, "ready")
                /\ UNCHANGED <<side, tried, seen>>
        /\ UNCHANGED <<cursor, inUse, port, held, closing>>

\* bindPair fails, another process having the port (or this one's sockets
\* still being open): both sockets are closed, the reservation is dropped.
BindFails(s) ==
    /\ At(s, "bind")
    /\ Release(s, side[s])
    /\ tried' = [tried EXCEPT ![s] = @ + 1]
    /\ Goto(s, "sweep")
    /\ UNCHANGED <<cursor, bound, side, seen, life, closing>>

\* A full lap with no free pair. A side A already bound is given back.
Exhausted(s) ==
    /\ At(s, "sweep") /\ tried[s] >= Pairs
    /\ Goto(s, IF side[s] = "A" THEN "failed" ELSE "unbind")
    /\ UNCHANGED <<pool, side, tried, port, held, seen, life, closing>>

UnbindA(s) ==
    /\ At(s, "unbind")
    /\ bound' = [bound EXCEPT !["A"] = @ \ {port[s]["A"]}]
    /\ Goto(s, "undo")
    /\ UNCHANGED <<cursor, inUse, side, tried, port, held, seen, life, closing>>

UndoA(s) ==
    /\ At(s, "undo")
    /\ Release(s, "A")
    /\ Goto(s, "failed")
    /\ UNCHANGED <<cursor, bound, side, tried, seen, life, closing>>

----------------------------------------------------------------------------
(* The session: Start, and closeWith from its owner or its watchdog.       *)

Start(s) ==
    /\ life[s] = "allocated"
    /\ life' = [life EXCEPT ![s] = "running"]
    /\ UNCHANGED <<pool, alloc, closing>>

\* The owner may close any session it was given, more than once in effect;
\* the watchdog (or a relay goroutine that panics) only one that was started
\* and whose Done has not fired, which it may read too early.
MayClose(s, c) ==
    /\ closing[s][c] = "idle"
    /\ life[s] # "none"
    /\ c = "watchdog" => life[s] # "allocated"

\* Session.state.Swap(sessClosed): only the first caller goes on.
CloseWithUnswapped(s, c) ==
    /\ MayClose(s, c)
    /\ life' = [life EXCEPT ![s] = "closed"]
    /\ closing' = [closing EXCEPT ![s][c] = "close"]
    /\ UNCHANGED <<pool, alloc>>

CloseWith(s, c) ==
    /\ MayClose(s, c)
    /\ life' = [life EXCEPT ![s] = "closed"]
    /\ closing' = [closing EXCEPT ![s][c] = IF life[s] = "closed" THEN "done" ELSE "close"]
    /\ UNCHANGED <<pool, alloc>>

\* portPair.Close on both sides, before any port is released.
ClosePairs(s, c) ==
    /\ closing[s][c] = "close"
    /\ bound' = [x \in Sides |-> bound[x] \ {port[s][x]}]
    /\ closing' = [closing EXCEPT ![s][c] = "releaseA"]
    /\ UNCHANGED <<cursor, inUse, alloc, life>>

ReleaseA(s, c) ==
    /\ closing[s][c] = "releaseA"
    /\ Release(s, "A")
    /\ closing' = [closing EXCEPT ![s][c] = "releaseB"]
    /\ UNCHANGED <<cursor, bound, pc, side, tried, seen, life>>

ReleaseB(s, c) ==
    /\ closing[s][c] = "releaseB"
    /\ Release(s, "B")
    /\ closing' = [closing EXCEPT ![s][c] = "done"]
    /\ UNCHANGED <<cursor, bound, pc, side, tried, seen, life>>

----------------------------------------------------------------------------
Allocation(s) ==
    \/ Allocate(s) \/ ReserveNext(s) \/ BindPair(s) \/ BindFails(s) \/ Exhausted(s)
    \/ UnbindA(s) \/ UndoA(s)

Closing(s, c) == ClosePairs(s, c) \/ ReleaseA(s, c) \/ ReleaseB(s, c)

Next ==
    \E s \in Sessions :
        \/ Allocation(s) \/ Start(s)
        \/ \E c \in Closers : CloseWith(s, c) \/ Closing(s, c)

\* The goroutines run. Nobody need start, silence or hang up a call.
Fairness ==
    \A s \in Sessions :
        /\ WF_vars(~At(s, "new") /\ Allocation(s))
        /\ \A c \in Closers : WF_vars(Closing(s, c))

Spec == Init /\ [][Next]_vars /\ Fairness

----------------------------------------------------------------------------
\* A pair is reserved exactly while one allocation or session has it: no two
\* ever have the same pair of a pool, and no reservation is dropped under its
\* holder or kept without one (reserveNext, release, closeWith's Swap).
PairsExclusive ==
    \A x \in Sides :
        /\ inUse[x] = {port[s][x] : s \in {t \in Sessions : x \in held[t]}}
        /\ \A s, t \in Sessions :
              (x \in held[s] /\ x \in held[t] /\ port[s][x] = port[t][x]) => s = t

\* Sockets are closed before their port is released: a port the pool offers
\* is never still bound by this process, so no candidate is wasted on it.
OpenPortsReserved == \A x \in Sides : bound[x] \subseteq inUse[x]

\* A pair always lies inside the configured range, whatever the parity of
\* its ends ("can never be bound outside the configured range").
InsideRange ==
    \A s \in Sessions, x \in Sides :
        x \in held[s] =>
            port[s][x] % 2 = 0 /\ MinPort <= port[s][x] /\ port[s][x] + 1 <= MaxPort

\* A sweep that reports ErrPortsExhausted has found every pair of the range
\* in use at some moment, although other allocations move the same cursor.
ExhaustionTruthful ==
    \A s \in Sessions :
        (At(s, "sweep") /\ tried[s] >= Pairs) => seen[s] = Ports

\* An allocation that fails leaves nothing behind ("a partial allocation
\* never leaks a socket or a port reservation").
FailureLeavesNothing ==
    \A s \in Sessions : At(s, "failed") => held[s] = {}

\* A reserved pair has one holder, which closes its sockets before it gives the
\* pair back and gives it back when it fails, and lies inside the range.
PortsSafe ==
    TypeOK /\ PairsExclusive /\ OpenPortsReserved /\ InsideRange /\ FailureLeavesNothing

\* The ports of a closed session come back to their pools.
PortsComeBack ==
    \A s \in Sessions : (life[s] = "closed") ~> (held[s] = {})

=============================================================================
