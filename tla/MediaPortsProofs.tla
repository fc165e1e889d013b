-------------------------- MODULE MediaPortsProofs --------------------------
(***************************************************************************)
(* The safety of MediaPorts for any number of sessions and any rtp range.  *)
(***************************************************************************)
EXTENDS MediaPorts, TLAPS

\* The first even port of the range is a natural number.
LEMMA LoEven == Lo \in Nat /\ Lo % 2 = 0 /\ MinPort <= Lo /\ Hi \in Nat /\ Lo # 0 /\ Pairs \in Int
BY RangeAssumption DEF Lo, Hi, Pairs

\* A cursor on an even number yields a pair of the range, if there is one,
\* and stays on even numbers.
LEMMA CandidateInRange ==
  ASSUME NEW c \in Nat, c % 2 = 0, Pairs > 0
  PROVE  /\ Candidate(c) \in Ports
         /\ Advanced(Candidate(c)) \in Nat
         /\ Advanced(Candidate(c)) % 2 = 0
<1>1. Lo + 1 <= Hi
  BY LoEven DEF Pairs
<1>2. Candidate(c) \in Nat /\ Candidate(c) % 2 = 0 /\ Lo <= Candidate(c) /\ Candidate(c) + 1 <= Hi
  BY <1>1, LoEven DEF Candidate
<1> QED BY <1>2, LoEven DEF Ports, Advanced

\* No pair is the absent port.
LEMMA PortsNonzero == \A p \in Ports : p \in Nat /\ p # NoPort /\ p % 2 = 0 /\ MinPort <= p /\ p + 1 <= MaxPort
BY LoEven, RangeAssumption DEF Ports, NoPort, Hi

CursorEven == \A x \in Sides : cursor[x] % 2 = 0

\* Every step keeps the types, and the cursors on even ports.
LEMMA TypeStep == TypeOK /\ CursorEven /\ [Next]_vars => TypeOK' /\ CursorEven'
<1> SUFFICES ASSUME TypeOK, CursorEven, [Next]_vars PROVE TypeOK' /\ CursorEven'
  OBVIOUS
<1> USE DEF At, Goto, pool, alloc, Release
<1>1. ASSUME NEW s \in Sessions, Allocation(s) PROVE TypeOK' /\ CursorEven'
  <2>1. CASE Allocate(s) \/ Exhausted(s)
    BY <2>1 DEF TypeOK, CursorEven, Allocate, Exhausted
  <2>2. CASE ReserveNext(s)
    <3> DEFINE x == side[s]
               p == Candidate(cursor[x])
    <3>1. x \in Sides /\ cursor[x] \in Nat /\ cursor[x] % 2 = 0 /\ Pairs > 0
      BY <2>2, LoEven DEF TypeOK, CursorEven, ReserveNext
    <3>2. p \in Ports /\ Advanced(p) \in Nat /\ Advanced(p) % 2 = 0
      BY <3>1, CandidateInRange
    <3> HIDE DEF p
    <3>3. cursor' \in [Sides -> Nat] /\ CursorEven'
      BY <2>2, <3>1, <3>2 DEF TypeOK, CursorEven, ReserveNext, p
    <3>4. seen' \in [Sessions -> SUBSET Ports]
      BY <2>2, <3>2 DEF TypeOK, ReserveNext, Witnessed, p
    <3>5. CASE p \in inUse[x]
      <4>1. tried' = [tried EXCEPT ![s] = @ + 1]
            /\ UNCHANGED <<inUse, pc, port, held, bound, side, life, closing>>
        BY <2>2, <3>5 DEF ReserveNext, p
      <4> QED BY <3>3, <3>4, <4>1 DEF TypeOK
    <3>6. CASE p \notin inUse[x]
      <4>1. /\ inUse' = [inUse EXCEPT ![x] = @ \cup {p}]
            /\ port' = [port EXCEPT ![s][x] = p]
            /\ held' = [held EXCEPT ![s] = @ \cup {x}]
            /\ pc' = [pc EXCEPT ![s] = "bind"]
            /\ UNCHANGED <<tried, bound, side, life, closing>>
        BY <2>2, <3>6 DEF ReserveNext, p
      <4>2. inUse' \in [Sides -> SUBSET Ports]
        BY <3>1, <3>2, <4>1 DEF TypeOK
      <4>3. port' \in [Sessions -> [Sides -> Ports \cup {NoPort}]]
        BY <3>1, <3>2, <4>1 DEF TypeOK
      <4>4. held' \in [Sessions -> SUBSET Sides]
        BY <3>1, <4>1 DEF TypeOK
      <4> QED BY <3>3, <3>4, <4>1, <4>2, <4>3, <4>4 DEF TypeOK
    <3> QED BY <3>5, <3>6
  <2>3. CASE BindPair(s)
    <3>1. side[s] \in Sides /\ port[s][side[s]] \in Ports \cup {NoPort}
      BY DEF TypeOK
    <3>2. bound' \in [Sides -> SUBSET (Ports \cup {NoPort})]
      BY <2>3, <3>1 DEF TypeOK, BindPair
    <3>3. CASE side[s] = "A"
      <4>1. /\ side' = [side EXCEPT ![s] = "B"] /\ tried' = [tried EXCEPT ![s] = 0]
            /\ seen' = [seen EXCEPT ![s] = {}] /\ pc' = [pc EXCEPT ![s] = "sweep"]
            /\ UNCHANGED <<life, cursor, inUse, port, held, closing>>
        BY <2>3, <3>3 DEF BindPair
      <4> QED BY <3>2, <4>1 DEF TypeOK, CursorEven, Sides
    <3>4. CASE side[s] # "A"
      <4>1. /\ life' = [life EXCEPT ![s] = "allocated"] /\ pc' = [pc EXCEPT ![s] = "ready"]
            /\ UNCHANGED <<side, tried, seen, cursor, inUse, port, held, closing>>
        BY <2>3, <3>4 DEF BindPair
      <4> QED BY <3>2, <4>1 DEF TypeOK, CursorEven
    <3> QED BY <3>3, <3>4
  <2>4. CASE BindFails(s)
    <3>1. inUse' \in [Sides -> SUBSET Ports] /\ held' \in [Sessions -> SUBSET Sides]
      BY <2>4 DEF TypeOK, BindFails
    <3>2. tried' \in [Sessions -> Nat]
      BY <2>4 DEF TypeOK, BindFails
    <3> QED BY <2>4, <3>1, <3>2 DEF TypeOK, CursorEven, BindFails
  <2>5. CASE UnbindA(s)
    BY <2>5 DEF TypeOK, CursorEven, UnbindA, Sides
  <2>6. CASE UndoA(s)
    BY <2>6 DEF TypeOK, CursorEven, UndoA, Sides
  <2> QED BY <1>1, <2>1, <2>2, <2>3, <2>4, <2>5, <2>6 DEF Allocation
<1>2. ASSUME NEW s \in Sessions, Start(s) PROVE TypeOK' /\ CursorEven'
  BY <1>2 DEF TypeOK, CursorEven, Start
<1>3. ASSUME NEW s \in Sessions, NEW c \in Closers, CloseWith(s, c) \/ Closing(s, c)
      PROVE  TypeOK' /\ CursorEven'
  <2>1. CASE CloseWith(s, c)
    BY <2>1 DEF TypeOK, CursorEven, CloseWith
  <2>2. CASE ClosePairs(s, c)
    <3>1. bound' \in [Sides -> SUBSET (Ports \cup {NoPort})]
      BY <2>2 DEF TypeOK, ClosePairs
    <3> QED BY <2>2, <3>1 DEF TypeOK, CursorEven, ClosePairs
  <2>3. CASE ReleaseA(s, c)
    BY <2>3 DEF TypeOK, CursorEven, ReleaseA, Sides
  <2>4. CASE ReleaseB(s, c)
    BY <2>4 DEF TypeOK, CursorEven, ReleaseB, Sides
  <2> QED BY <1>3, <2>1, <2>2, <2>3, <2>4 DEF Closing
<1>4. CASE UNCHANGED vars
  BY <1>4 DEF TypeOK, CursorEven, vars
<1> QED BY <1>1, <1>2, <1>3, <1>4 DEF Next

\* MediaPorts keeps its types.
THEOREM TypeCorrect == Spec => [](TypeOK /\ CursorEven)
<1>1. Init => CursorEven /\ cursor \in [Sides -> Nat] /\ tried \in [Sessions -> Nat]
  BY DEF Init, CursorEven
<1>2. Init => /\ closing \in [Sessions -> [Closers -> {"idle", "close", "releaseA", "releaseB", "done"}]]
              /\ port \in [Sessions -> [Sides -> Ports \cup {NoPort}]]
  BY DEF Init
<1>3. Init => TypeOK
  BY <1>1, <1>2 DEF Init, TypeOK, Sides
<1> QED BY <1>1, <1>3, TypeStep, PTL DEF Spec

----------------------------------------------------------------------------
(* Who holds what. An allocation's point says which pairs it has; a live   *)
(* session has both; of the callers of closeWith only the one that swapped *)
(* the state releases, and its point says what it has released already.    *)

Releasing == {"close", "releaseA", "releaseB"}

HeldAt(s) ==
    /\ pc[s] \in {"new", "failed"} => held[s] = {}
    /\ pc[s] = "new" => side[s] = "A"
    /\ pc[s] = "sweep" => held[s] = (IF side[s] = "A" THEN {} ELSE {"A"})
    /\ pc[s] = "bind" => held[s] = (IF side[s] = "A" THEN {"A"} ELSE {"A", "B"})
    /\ pc[s] \in {"unbind", "undo"} => held[s] = {"A"}
    /\ pc[s] # "ready" <=> life[s] = "none"
    /\ life[s] \in {"allocated", "running"} => held[s] = {"A", "B"}
    /\ \A c \in Closers :
          /\ closing[s][c] # "idle" => life[s] = "closed"
          /\ closing[s][c] \in {"close", "releaseA"} => held[s] = {"A", "B"}
          /\ closing[s][c] = "releaseB" => held[s] = {"B"}
    /\ \A c, b \in Closers :
          (closing[s][c] \in Releasing /\ closing[s][b] \in Releasing) => c = b

HeldInv == \A s \in Sessions : HeldAt(s)

\* Points at which a pair is held with its sockets not open.
Unbound(s, x) ==
    \/ pc[s] = "bind" /\ side[s] = x
    \/ pc[s] = "undo" /\ x = "A"
    \/ \E c \in Closers : closing[s][c] = "releaseA" \/ (closing[s][c] = "releaseB" /\ x = "B")

BoundInv ==
    \A s \in Sessions, x \in Sides : Unbound(s, x) => port[s][x] \notin bound[x]

\* Every pair held is a pair of the range.
RealPorts == \A s \in Sessions, x \in Sides : x \in held[s] => port[s][x] \in Ports

PoolInv == HeldInv /\ BoundInv /\ RealPorts /\ PairsExclusive /\ OpenPortsReserved

\* A release by the holder of a pair drops that reservation and no other.
LEMMA ReleaseExclusive ==
  ASSUME TypeOK, PairsExclusive, NEW s \in Sessions, NEW x \in Sides, x \in held[s], Release(s, x)
  PROVE  PairsExclusive'
BY DEF TypeOK, PairsExclusive, Release

\* Reserving a free candidate gives it to one holder.
LEMMA ReserveExclusive ==
  ASSUME TypeOK, PairsExclusive, NEW s \in Sessions, NEW x \in Sides, NEW p \in Ports,
         x \notin held[s], p \notin inUse[x],
         inUse' = [inUse EXCEPT ![x] = @ \cup {p}],
         port' = [port EXCEPT ![s][x] = p],
         held' = [held EXCEPT ![s] = @ \cup {x}]
  PROVE  PairsExclusive'
BY DEF TypeOK, PairsExclusive

\* Every step keeps the account of who holds what.
LEMMA HeldStep == TypeOK /\ HeldInv /\ [Next]_vars => HeldInv'
<1> SUFFICES ASSUME TypeOK, HeldInv, [Next]_vars PROVE HeldInv'
  OBVIOUS
<1> USE DEF At, Goto, pool, alloc, Release, Sides, Closers, Releasing
<1>1. ASSUME NEW s \in Sessions, Allocate(s) \/ Exhausted(s) PROVE HeldInv'
  <2>1. pc[s] \in {"new", "sweep"} /\ UNCHANGED <<side, held, life, closing>>
    BY <1>1 DEF Allocate, Exhausted
  <2>2. CASE Allocate(s)
    <3>1. side[s] = "A"
      BY <2>2 DEF HeldInv, HeldAt, Allocate
    <3> QED BY <2>1, <2>2, <3>1 DEF TypeOK, HeldInv, HeldAt, Allocate
  <2>3. CASE Exhausted(s)
    BY <2>1, <2>3 DEF TypeOK, HeldInv, HeldAt, Exhausted
  <2> QED BY <1>1, <2>2, <2>3
<1>2. ASSUME NEW s \in Sessions, ReserveNext(s) PROVE HeldInv'
  <2>1. CASE UNCHANGED <<pc, held>>
    BY <1>2, <2>1 DEF TypeOK, HeldInv, HeldAt, ReserveNext
  <2>2. CASE pc' = [pc EXCEPT ![s] = "bind"] /\ held' = [held EXCEPT ![s] = @ \cup {side[s]}]
    <3>1. pc[s] = "sweep" /\ UNCHANGED <<side, life, closing>>
      BY <1>2 DEF ReserveNext
    <3>2. \A t \in Sessions : t # s => pc'[t] = pc[t] /\ held'[t] = held[t]
      BY <2>2 DEF TypeOK
    <3>3. \A t \in Sessions : t # s => HeldAt(t)'
      BY <3>1, <3>2 DEF HeldInv, HeldAt
    <3>4. pc'[s] = "bind" /\ held'[s] = held[s] \cup {side[s]} /\ side[s] \in Sides
      BY <2>2 DEF TypeOK
    <3>5. HeldAt(s)'
      BY <3>1, <3>4 DEF HeldInv, HeldAt
    <3> QED BY <3>3, <3>5 DEF HeldInv
  <2> QED BY <1>2, <2>1, <2>2 DEF ReserveNext
<1>3. ASSUME NEW s \in Sessions, BindPair(s) PROVE HeldInv'
  <2>1. CASE side[s] = "A"
    <3>1. /\ pc[s] = "bind" /\ pc'[s] = "sweep" /\ side'[s] = "B"
          /\ UNCHANGED <<held, life, closing>>
          /\ \A t \in Sessions : t # s => pc'[t] = pc[t] /\ side'[t] = side[t]
      BY <1>3, <2>1 DEF BindPair, TypeOK
    <3>2. \A t \in Sessions : t # s => HeldAt(t)'
      BY <3>1 DEF HeldInv, HeldAt
    <3>3. HeldAt(s)'
      BY <2>1, <3>1 DEF HeldInv, HeldAt
    <3> QED BY <3>2, <3>3 DEF HeldInv
  <2>2. CASE side[s] = "B"
    <3>1. /\ pc[s] = "bind" /\ pc'[s] = "ready" /\ life'[s] = "allocated"
          /\ UNCHANGED <<held, side, closing>>
          /\ \A t \in Sessions : t # s => pc'[t] = pc[t] /\ life'[t] = life[t]
      BY <1>3, <2>2 DEF BindPair, TypeOK
    <3>2. \A t \in Sessions : t # s => HeldAt(t)'
      BY <3>1 DEF HeldInv, HeldAt
    <3>3. HeldAt(s)'
      BY <2>2, <3>1 DEF HeldInv, HeldAt
    <3> QED BY <3>2, <3>3 DEF HeldInv
  <2> QED BY <2>1, <2>2 DEF TypeOK
<1>4. ASSUME NEW s \in Sessions, BindFails(s) PROVE HeldInv'
  <2>1. CASE side[s] = "A"
    BY <1>4, <2>1 DEF TypeOK, HeldInv, HeldAt, BindFails
  <2>2. CASE side[s] = "B"
    BY <1>4, <2>2 DEF TypeOK, HeldInv, HeldAt, BindFails
  <2> QED BY <2>1, <2>2 DEF TypeOK
<1>5. ASSUME NEW s \in Sessions, UnbindA(s) \/ UndoA(s) PROVE HeldInv'
  <2>1. CASE UnbindA(s)
    BY <2>1 DEF TypeOK, HeldInv, HeldAt, UnbindA
  <2>2. CASE UndoA(s)
    BY <2>2 DEF TypeOK, HeldInv, HeldAt, UndoA
  <2> QED BY <1>5, <2>1, <2>2
<1>6. ASSUME NEW s \in Sessions, Start(s) PROVE HeldInv'
  BY <1>6 DEF TypeOK, HeldInv, HeldAt, Start
<1>7. ASSUME NEW s \in Sessions, NEW c \in Closers, CloseWith(s, c) PROVE HeldInv'
  <2>1. CASE life[s] = "closed"
    BY <1>7, <2>1 DEF TypeOK, HeldInv, HeldAt, CloseWith, MayClose
  <2>2. CASE life[s] # "closed"
    BY <1>7, <2>2 DEF TypeOK, HeldInv, HeldAt, CloseWith, MayClose
  <2> QED BY <2>1, <2>2
<1>8. ASSUME NEW s \in Sessions, NEW c \in Closers, ClosePairs(s, c) PROVE HeldInv'
  BY <1>8 DEF TypeOK, HeldInv, HeldAt, ClosePairs
<1>9. ASSUME NEW s \in Sessions, NEW c \in Closers, ReleaseA(s, c) PROVE HeldInv'
  <2>1. /\ closing[s][c] = "releaseA" /\ life[s] = "closed" /\ pc[s] = "ready"
        /\ held[s] = {"A", "B"}
    BY <1>9 DEF TypeOK, HeldInv, HeldAt, ReleaseA
  <2>2. \A b \in Closers : b # c => closing[s][b] \notin Releasing
    BY <2>1 DEF HeldInv, HeldAt
  <2>3. /\ held' = [held EXCEPT ![s] = {"B"}]
        /\ closing' = [closing EXCEPT ![s][c] = "releaseB"] /\ UNCHANGED <<pc, side, life>>
    BY <1>9, <2>1 DEF TypeOK, ReleaseA
  <2>4. \A t \in Sessions : t # s => HeldAt(t)'
    BY <2>3 DEF TypeOK, HeldInv, HeldAt
  <2>5. HeldAt(s)'
    BY <2>1, <2>2, <2>3 DEF TypeOK, HeldAt
  <2> QED BY <2>4, <2>5 DEF HeldInv
<1>10. ASSUME NEW s \in Sessions, NEW c \in Closers, ReleaseB(s, c) PROVE HeldInv'
  <2>1. /\ closing[s][c] = "releaseB" /\ life[s] = "closed" /\ pc[s] = "ready"
        /\ held[s] = {"B"}
    BY <1>10 DEF TypeOK, HeldInv, HeldAt, ReleaseB
  <2>2. \A b \in Closers : b # c => closing[s][b] \notin Releasing
    BY <2>1 DEF HeldInv, HeldAt
  <2>3. /\ held' = [held EXCEPT ![s] = {}]
        /\ closing' = [closing EXCEPT ![s][c] = "done"] /\ UNCHANGED <<pc, side, life>>
    BY <1>10, <2>1 DEF TypeOK, ReleaseB
  <2>4. \A t \in Sessions : t # s => HeldAt(t)'
    BY <2>3 DEF TypeOK, HeldInv, HeldAt
  <2>5. HeldAt(s)'
    BY <2>1, <2>2, <2>3 DEF TypeOK, HeldAt
  <2> QED BY <2>4, <2>5 DEF HeldInv
<1>11. CASE UNCHANGED vars
  BY <1>11 DEF HeldInv, HeldAt, vars
<1> QED
  BY <1>1, <1>2, <1>3, <1>4, <1>5, <1>6, <1>7, <1>8, <1>9, <1>10, <1>11
     DEF Next, Allocation, Closing

\* A pair whose sockets are not open is still held.
LEMMA UnboundHeld ==
  ASSUME HeldInv, TypeOK, NEW s \in Sessions, NEW x \in Sides, Unbound(s, x)
  PROVE  x \in held[s]
BY DEF HeldInv, HeldAt, Unbound, TypeOK, Sides, Closers

\* A step that leaves the pool and the holders alone keeps the invariant,
\* if no pair newly counts as not open.
LEMMA PoolFrame ==
  ASSUME TypeOK, PoolInv, HeldInv', UNCHANGED <<inUse, bound, port, held>>,
         \A t \in Sessions, x \in Sides : Unbound(t, x)' => Unbound(t, x)
  PROVE  PoolInv'
BY DEF PoolInv, BoundInv, RealPorts, PairsExclusive, OpenPortsReserved

\* A release by the holder of a pair whose sockets are closed keeps the
\* invariant.
LEMMA PoolRelease ==
  ASSUME TypeOK, PoolInv, HeldInv', NEW s \in Sessions, NEW x \in Sides,
         Unbound(s, x), Release(s, x), bound' = bound,
         \A t \in Sessions, y \in Sides : Unbound(t, y)' => Unbound(t, y)
  PROVE  PoolInv'
<1>1. x \in held[s] /\ port[s][x] \notin bound[x]
  BY UnboundHeld DEF PoolInv, BoundInv
<1>2. PairsExclusive'
  BY <1>1, ReleaseExclusive DEF PoolInv
<1>3. OpenPortsReserved'
  BY <1>1 DEF PoolInv, OpenPortsReserved, Release, TypeOK
<1>4. RealPorts' /\ BoundInv'
  BY DEF PoolInv, RealPorts, BoundInv, Release, TypeOK
<1> QED BY <1>2, <1>3, <1>4 DEF PoolInv

\* Every step of MediaPorts keeps the pool invariant.
LEMMA PoolStep == TypeOK /\ CursorEven /\ PoolInv /\ [Next]_vars => PoolInv'
<1> SUFFICES ASSUME TypeOK, CursorEven, PoolInv, [Next]_vars PROVE PoolInv'
  OBVIOUS
<1>0. HeldInv /\ HeldInv'
  BY HeldStep DEF PoolInv
<1> USE DEF At, Goto, pool, alloc
<1>1. ASSUME NEW s \in Sessions, Allocate(s) \/ Exhausted(s) \/ Start(s) PROVE PoolInv'
  <2>1. \A t \in Sessions, x \in Sides : Unbound(t, x)' => Unbound(t, x)
    BY <1>1 DEF Allocate, Exhausted, Start, Unbound, TypeOK
  <2> QED BY <1>0, <1>1, <2>1, PoolFrame DEF Allocate, Exhausted, Start
<1>2. ASSUME NEW s \in Sessions, ReserveNext(s) PROVE PoolInv'
  <2> DEFINE x == side[s]
             p == Candidate(cursor[x])
  <2>1. x \in Sides /\ p \in Ports
    BY <1>2, CandidateInRange, LoEven DEF ReserveNext, TypeOK, CursorEven
  <2> HIDE DEF p
  <2>2. CASE p \in inUse[x]
    <3>1. \A t \in Sessions, y \in Sides : Unbound(t, y)' => Unbound(t, y)
      BY <1>2, <2>2 DEF ReserveNext, Unbound, p
    <3> QED BY <1>0, <1>2, <2>2, <3>1, PoolFrame DEF ReserveNext, p
  <2>3. CASE p \notin inUse[x]
    <3>1. /\ inUse' = [inUse EXCEPT ![x] = @ \cup {p}]
          /\ port' = [port EXCEPT ![s][x] = p]
          /\ held' = [held EXCEPT ![s] = @ \cup {x}]
          /\ pc' = [pc EXCEPT ![s] = "bind"]
          /\ UNCHANGED <<bound, side, life, closing>>
          /\ pc[s] = "sweep"
      BY <1>2, <2>3 DEF ReserveNext, p
    <3>2. x \notin held[s]
      BY <1>0, <3>1 DEF HeldInv, HeldAt, Sides
    <3>3. PairsExclusive'
      BY <2>1, <2>3, <3>1, <3>2, ReserveExclusive DEF PoolInv
    <3>4. OpenPortsReserved' /\ p \notin bound[x]
      BY <2>1, <2>3, <3>1 DEF PoolInv, OpenPortsReserved, TypeOK
    <3>5. RealPorts'
      BY <2>1, <3>1 DEF PoolInv, RealPorts, TypeOK
    <3>6. BoundInv'
      <4>0. \A c \in Closers : closing[s][c] = "idle"
        BY <1>0, <3>1 DEF HeldInv, HeldAt
      <4>1. \A y \in Sides : y # x => ~Unbound(s, y)'
        <5>1. pc'[s] = "bind" /\ side' = side /\ closing' = closing
          BY <3>1 DEF TypeOK
        <5> QED BY <4>0, <5>1 DEF Unbound
      <4>2. port'[s][x] = p
        BY <2>1, <3>1 DEF TypeOK
      <4>3. \A t \in Sessions, y \in Sides :
              t # s => port'[t][y] = port[t][y] /\ (Unbound(t, y)' => Unbound(t, y))
        BY <3>1 DEF Unbound, TypeOK
      <4> QED BY <3>1, <3>4, <4>1, <4>2, <4>3 DEF PoolInv, BoundInv
    <3> QED BY <1>0, <3>3, <3>4, <3>5, <3>6 DEF PoolInv
  <2> QED BY <2>2, <2>3
<1>3. ASSUME NEW s \in Sessions, BindPair(s) PROVE PoolInv'
  <2> DEFINE x == side[s]
  <2>1. /\ x \in Sides /\ pc[s] = "bind" /\ x \in held[s] /\ port[s][x] \in inUse[x]
        /\ bound' = [bound EXCEPT ![x] = @ \cup {port[s][x]}]
        /\ UNCHANGED <<inUse, port, held, closing>>
    BY <1>0, <1>3 DEF BindPair, TypeOK, PoolInv, PairsExclusive, HeldInv, HeldAt, Sides
  <2>2. PairsExclusive' /\ RealPorts'
    BY <2>1 DEF PoolInv, PairsExclusive, RealPorts
  <2>3. OpenPortsReserved'
    BY <2>1 DEF PoolInv, OpenPortsReserved, TypeOK
  <2>4. \A y \in Sides : ~Unbound(s, y)'
    <3>1. \A c \in Closers : closing[s][c] = "idle"
      BY <1>0, <2>1 DEF HeldInv, HeldAt
    <3>2. pc'[s] \in {"sweep", "ready"}
      BY <1>3 DEF BindPair, TypeOK
    <3> QED BY <2>1, <3>1, <3>2 DEF Unbound
  <2>5. \A t \in Sessions, y \in Sides : t # s => (Unbound(t, y)' => Unbound(t, y))
    BY <1>3, <2>1 DEF BindPair, Unbound, TypeOK
  <2>6. \A t \in Sessions : (t # s /\ Unbound(t, x)) => port[t][x] # port[s][x]
    BY <1>0, <2>1, UnboundHeld DEF PoolInv, PairsExclusive
  <2>7. BoundInv'
    BY <2>1, <2>4, <2>5, <2>6 DEF PoolInv, BoundInv, TypeOK
  <2> QED BY <1>0, <2>2, <2>3, <2>7 DEF PoolInv
<1>4. ASSUME NEW s \in Sessions, BindFails(s) \/ UndoA(s) PROVE PoolInv'
  <2>1. PICK x \in Sides : Unbound(s, x) /\ Release(s, x) /\ bound' = bound
    BY <1>4 DEF BindFails, UndoA, Unbound, TypeOK, Sides
  <2>2. \A t \in Sessions, y \in Sides : Unbound(t, y)' => Unbound(t, y)
    BY <1>4 DEF BindFails, UndoA, Unbound, TypeOK
  <2> QED BY <1>0, <2>1, <2>2, PoolRelease
<1>5. ASSUME NEW s \in Sessions, UnbindA(s) PROVE PoolInv'
  <2>1. PairsExclusive' /\ RealPorts' /\ OpenPortsReserved'
    BY <1>5 DEF UnbindA, PoolInv, PairsExclusive, RealPorts, OpenPortsReserved, TypeOK
  <2>2. BoundInv'
    BY <1>5 DEF UnbindA, PoolInv, BoundInv, Unbound, TypeOK, Sides
  <2> QED BY <1>0, <2>1, <2>2 DEF PoolInv
<1>6. ASSUME NEW s \in Sessions, NEW c \in Closers, CloseWith(s, c) PROVE PoolInv'
  <2>1. \A t \in Sessions, x \in Sides : Unbound(t, x)' => Unbound(t, x)
    BY <1>6 DEF CloseWith, Unbound, TypeOK
  <2> QED BY <1>0, <1>6, <2>1, PoolFrame DEF CloseWith
<1>7. ASSUME NEW s \in Sessions, NEW c \in Closers, ClosePairs(s, c) PROVE PoolInv'
  <2>1. PairsExclusive' /\ RealPorts' /\ OpenPortsReserved'
    BY <1>7 DEF ClosePairs, PoolInv, PairsExclusive, RealPorts, OpenPortsReserved, TypeOK
  <2>2. \A t \in Sessions, x \in Sides : t # s => (Unbound(t, x)' => Unbound(t, x))
    BY <1>7 DEF ClosePairs, Unbound, TypeOK
  <2>3. \A x \in Sides : port'[s][x] \notin bound'[x]
    BY <1>7 DEF ClosePairs
  <2>4. BoundInv'
    BY <1>7, <2>2, <2>3 DEF ClosePairs, PoolInv, BoundInv, TypeOK
  <2> QED BY <1>0, <2>1, <2>4 DEF PoolInv
<1>8. ASSUME NEW s \in Sessions, NEW c \in Closers, ReleaseA(s, c) \/ ReleaseB(s, c) PROVE PoolInv'
  <2>1. PICK x \in Sides : Unbound(s, x) /\ Release(s, x) /\ bound' = bound
    BY <1>8 DEF ReleaseA, ReleaseB, Unbound, Sides
  <2>2. \A t \in Sessions, y \in Sides : Unbound(t, y)' => Unbound(t, y)
    <3>1. pc' = pc /\ side' = side
      BY <1>8 DEF ReleaseA, ReleaseB
    <3>2. CASE ReleaseA(s, c)
      <4>1. closing[s][c] = "releaseA" /\ closing' = [closing EXCEPT ![s][c] = "releaseB"]
        BY <3>2 DEF ReleaseA
      <4> QED BY <3>1, <4>1 DEF Unbound, TypeOK
    <3>3. CASE ReleaseB(s, c)
      <4>1. closing' = [closing EXCEPT ![s][c] = "done"]
        BY <3>3 DEF ReleaseB
      <4> QED BY <3>1, <4>1 DEF Unbound, TypeOK
    <3> QED BY <1>8, <3>2, <3>3
  <2> QED BY <1>0, <2>1, <2>2, PoolRelease
<1>9. CASE UNCHANGED vars
  <2>1. \A t \in Sessions, x \in Sides : Unbound(t, x)' => Unbound(t, x)
    BY <1>9 DEF vars, Unbound
  <2> QED BY <1>0, <1>9, <2>1, PoolFrame DEF vars
<1> QED
  BY <1>1, <1>2, <1>3, <1>4, <1>5, <1>6, <1>7, <1>8, <1>9 DEF Next, Allocation, Closing

\* The pools are untouched when the server starts.
LEMMA PoolInit == Init => PoolInv
<1> SUFFICES ASSUME Init PROVE PoolInv
  OBVIOUS
<1>1. HeldInv
  BY DEF Init, HeldInv, HeldAt, Sides, Closers, Releasing
<1>2. BoundInv /\ RealPorts
  BY DEF Init, BoundInv, RealPorts
<1>3. PairsExclusive /\ OpenPortsReserved
  BY DEF Init, PairsExclusive, OpenPortsReserved
<1> QED BY <1>1, <1>2, <1>3 DEF PoolInv

\* However many calls allocate, fail, relay and are closed by owner and
\* watchdog at once, a port pair never has two holders and never stays
\* reserved without one (reserveNext under the mutex, closeWith's Swap).
THEOREM PairNeverShared == Spec => []PairsExclusive
<1>1. PoolInv => PairsExclusive
  BY DEF PoolInv
<1> QED BY <1>1, PoolInit, PoolStep, TypeCorrect, PTL DEF Spec

\* A free candidate of the pool is never still bound by this process: each
\* path closes a pair's sockets before it releases the port.
THEOREM SocketsClosedFirst == Spec => []OpenPortsReserved
<1>1. PoolInv => OpenPortsReserved
  BY DEF PoolInv
<1> QED BY <1>1, PoolInit, PoolStep, TypeCorrect, PTL DEF Spec

\* No pair outside the configured range is ever given out, for every parity
\* of rtp.min and rtp.max (sweep, reserveNext).
THEOREM AlwaysInsideRange == Spec => []InsideRange
<1>1. PoolInv => InsideRange
  BY PortsNonzero DEF PoolInv, RealPorts, InsideRange
<1> QED BY <1>1, PoolInit, PoolStep, TypeCorrect, PTL DEF Spec

\* A failed allocation has given back everything it took (allocateAcross).
THEOREM FailedAllocationLeaksNothing == Spec => []FailureLeavesNothing
<1>1. PoolInv => FailureLeavesNothing
  BY DEF PoolInv, HeldInv, HeldAt, FailureLeavesNothing, At
<1> QED BY <1>1, PoolInit, PoolStep, TypeCorrect, PTL DEF Spec

----------------------------------------------------------------------------
(* Exhaustion. All sweeps of a pool share its cursor, and a candidate is   *)
(* in use once any of them has been there. Behind(c, p) is how far port p  *)
(* is behind a cursor on c, going round the range; an allocation that has  *)
(* tried k candidates has seen every port at most 2k behind the cursor.    *)

Behind(c, p) == IF p < c THEN c - p ELSE c - p + 2 * Pairs

Visits(s) == tried[s] + IF pc[s] = "bind" THEN 1 ELSE 0

SweepAt(s) ==
    /\ pc[s] = "new" => tried[s] = 0
    /\ pc[s] \in {"sweep", "bind"} =>
          \A p \in Ports : Behind(Candidate(cursor[side[s]]), p) <= 2 * Visits(s) => p \in seen[s]

SweepInv == \A s \in Sessions : SweepAt(s)

\* The ports of the range are Lo, Lo + 2, up to Lo + 2 * Pairs - 2.
LEMMA PortsRange ==
  ASSUME NEW p \in Ports
  PROVE  p \in Nat /\ p % 2 = 0 /\ Lo <= p /\ p <= Lo + 2 * Pairs - 2 /\ Pairs > 0 /\ Pairs \in Nat
BY LoEven DEF Ports, Pairs

\* Every port is behind the cursor, by at most one lap.
LEMMA BehindBounds ==
  ASSUME NEW c \in Ports, NEW p \in Ports
  PROVE  Behind(c, p) \in Int /\ 2 <= Behind(c, p) /\ Behind(c, p) <= 2 * Pairs
<1>1. c \in Nat /\ p \in Nat /\ Pairs \in Nat /\ c % 2 = 0 /\ p % 2 = 0
  BY PortsRange
<1>2. Lo <= p /\ p <= Lo + 2 * Pairs - 2 /\ Lo <= c /\ c <= Lo + 2 * Pairs - 2
  BY PortsRange
<1> QED BY <1>1, <1>2, LoEven DEF Behind

\* Visiting the candidate leaves it right behind the cursor and puts every
\* other port one place further behind.
LEMMA VisitBehind ==
  ASSUME NEW c \in Ports, NEW p \in Ports, p # c
  PROVE  /\ Candidate(Advanced(c)) \in Ports
         /\ Behind(Candidate(Advanced(c)), p) = Behind(c, p) + 2
<1>1. c \in Nat /\ p \in Nat /\ Pairs \in Nat /\ c % 2 = 0 /\ p % 2 = 0 /\ Pairs > 0
  BY PortsRange
<1>2. Lo <= p /\ p <= Lo + 2 * Pairs - 2 /\ Lo <= c /\ c <= Lo + 2 * Pairs - 2
  BY PortsRange
<1>3. c + 1 <= Hi /\ p + 1 <= Hi /\ Lo + 1 <= Hi
  BY <1>1, LoEven DEF Ports, Pairs
<1>4. CASE c + 2 + 1 > Hi
  <2>1. Candidate(Advanced(c)) = Lo
    BY <1>3, <1>4, LoEven DEF Candidate, Advanced
  <2>2. c = Lo + 2 * Pairs - 2
    BY <1>1, <1>2, <1>4, LoEven DEF Pairs
  <2>3. p < c
    BY <1>1, <1>2, <2>2, LoEven
  <2> QED BY <1>1, <1>2, <1>3, <2>1, <2>2, <2>3, LoEven DEF Behind, Ports
<1>5. CASE ~(c + 2 + 1 > Hi)
  <2>1. Candidate(Advanced(c)) = c + 2
    BY <1>1, <1>2, <1>5, LoEven DEF Candidate, Advanced
  <2>2. c + 2 \in Ports
    BY <1>1, <1>2, <1>5, LoEven DEF Ports
  <2>3. p < c \/ p >= c + 2
    BY <1>1
  <2>4. Behind(c + 2, p) = Behind(c, p) + 2
    BY <1>1, <2>3 DEF Behind
  <2> QED BY <2>1, <2>2, <2>4
<1> QED BY <1>4, <1>5, LoEven, <1>1

\* Some allocation visits the candidate of pool x: every allocation sweeping
\* that pool keeps its invariant, having made at most one visit more.
LEMMA VisitKeeps ==
  ASSUME TypeOK, CursorEven, Pairs > 0, NEW t \in Sessions, SweepAt(t),
         pc[t] \in {"sweep", "bind"}, NEW v \in Nat, v <= Visits(t) + 1,
         NEW new \in SUBSET Ports, NEW c, c = Candidate(cursor[side[t]]),
         seen[t] \cup {c} \subseteq new
  PROVE  \A p \in Ports : Behind(Candidate(Advanced(c)), p) <= 2 * v => p \in new
<1>1. c \in Ports
  BY CandidateInRange DEF TypeOK, CursorEven
<1>2. Visits(t) \in Nat
  BY DEF Visits, TypeOK
<1> SUFFICES ASSUME NEW p \in Ports, Behind(Candidate(Advanced(c)), p) <= 2 * v, p # c
             PROVE  p \in seen[t]
  OBVIOUS
<1>3. Behind(c, p) \in Int /\ Behind(Candidate(Advanced(c)), p) = Behind(c, p) + 2
  BY <1>1, VisitBehind, BehindBounds
<1>4. Behind(c, p) <= 2 * Visits(t)
  BY <1>2, <1>3
<1> QED BY <1>4 DEF SweepAt

\* Every step keeps what the sweeps have seen.
LEMMA SweepStep == TypeOK /\ CursorEven /\ SweepInv /\ [Next]_vars => SweepInv'
<1> SUFFICES ASSUME TypeOK, CursorEven, SweepInv, [Next]_vars PROVE SweepInv'
  OBVIOUS
<1> USE DEF At, Goto, pool, alloc
<1>1. ASSUME NEW s \in Sessions, ReserveNext(s) PROVE SweepInv'
  <2> DEFINE x == side[s]
             c == Candidate(cursor[x])
  <2>1. /\ x \in Sides /\ Pairs > 0 /\ pc[s] = "sweep" /\ side' = side
        /\ cursor' = [cursor EXCEPT ![x] = Advanced(c)]
        /\ seen' = Witnessed(x, c)
    BY <1>1, LoEven DEF ReserveNext, TypeOK
  <2>2. c \in Ports
    BY <2>1, CandidateInRange DEF TypeOK, CursorEven
  <2> HIDE DEF c
  <2>3. ASSUME NEW t \in Sessions PROVE SweepAt(t)'
    <3>1. t # s => pc'[t] = pc[t] /\ tried'[t] = tried[t]
      BY <1>1 DEF ReserveNext, TypeOK
    <3>2. Visits(s) \in Nat /\ Visits(t) \in Nat
      BY DEF Visits, TypeOK
    <3>3. pc'[s] \in {"sweep", "bind"} /\ Visits(s)' = Visits(s) + 1
      <4>1. CASE c \in inUse[x]
        BY <1>1, <2>1, <4>1 DEF ReserveNext, Visits, TypeOK, c
      <4>2. CASE c \notin inUse[x]
        BY <1>1, <2>1, <4>2 DEF ReserveNext, Visits, TypeOK, c
      <4> QED BY <4>1, <4>2
    <3>4. Visits(t)' \in Nat /\ Visits(t)' <= Visits(t) + 1
      BY <3>1, <3>2, <3>3 DEF Visits
    <3>5. pc'[t] \in {"sweep", "bind"} => pc[t] \in {"sweep", "bind"}
      BY <2>1, <3>1
    <3>6. pc'[t] = "new" => tried'[t] = 0
      BY <3>1, <3>3 DEF SweepInv, SweepAt
    <3>7. CASE side[t] # x
      <4>1. cursor'[side'[t]] = cursor[side[t]] /\ seen'[t] = seen[t] /\ t # s
        BY <2>1, <3>7 DEF Witnessed, TypeOK
      <4> QED BY <2>1, <3>1, <3>6, <4>1 DEF SweepInv, SweepAt, Visits
    <3>8. CASE side[t] = x /\ pc[t] \in {"sweep", "bind"}
      <4>1. seen'[t] = seen[t] \cup {c} /\ seen'[t] \in SUBSET Ports
        BY <2>1, <2>2, <3>8 DEF Witnessed, TypeOK
      <4>2. c = Candidate(cursor[side[t]])
        BY <3>8 DEF c
      <4>3. \A p \in Ports : Behind(Candidate(Advanced(c)), p) <= 2 * Visits(t)' => p \in seen'[t]
        BY <2>1, <3>4, <3>8, <4>1, <4>2, VisitKeeps DEF SweepInv
      <4>4. cursor'[side'[t]] = Advanced(c)
        BY <2>1, <3>8 DEF TypeOK
      <4> QED BY <3>6, <4>3, <4>4 DEF SweepAt
    <3>9. CASE pc[t] \notin {"sweep", "bind"}
      BY <3>5, <3>6, <3>9 DEF SweepAt
    <3> QED BY <3>7, <3>8, <3>9
  <2> QED BY <2>3 DEF SweepInv
<1>2. ASSUME NEW s \in Sessions, BindPair(s) PROVE SweepInv'
  <2>1. \A t \in Sessions : t # s => SweepAt(t)'
    BY <1>2 DEF BindPair, SweepInv, SweepAt, Visits, TypeOK
  <2>2. CASE side[s] = "A"
    <3>1. /\ pc'[s] = "sweep" /\ Visits(s)' = 0 /\ side'[s] = "B" /\ cursor' = cursor
      BY <1>2, <2>2 DEF BindPair, Visits, TypeOK
    <3>2. ASSUME NEW p \in Ports PROVE 2 <= Behind(Candidate(cursor["B"]), p) /\ Behind(Candidate(cursor["B"]), p) \in Int
      <4>1. Pairs > 0
        BY PortsRange
      <4>2. Candidate(cursor["B"]) \in Ports
        BY <4>1, CandidateInRange DEF TypeOK, CursorEven, Sides
      <4> QED BY <4>2, BehindBounds
    <3>3. SweepAt(s)'
      BY <3>1, <3>2 DEF SweepAt
    <3> QED BY <2>1, <3>3 DEF SweepInv
  <2>3. CASE side[s] # "A"
    <3>1. SweepAt(s)'
      BY <1>2, <2>3 DEF BindPair, SweepAt, TypeOK
    <3> QED BY <2>1, <3>1 DEF SweepInv
  <2> QED BY <2>2, <2>3
<1>3. ASSUME NEW s \in Sessions, BindFails(s) PROVE SweepInv'
  <2>1. \A t \in Sessions : t # s => SweepAt(t)'
    BY <1>3 DEF BindFails, SweepInv, SweepAt, Visits, TypeOK
  <2>2. pc[s] = "bind" /\ pc'[s] = "sweep" /\ Visits(s)' = Visits(s) /\ UNCHANGED <<cursor, side, seen>>
    BY <1>3 DEF BindFails, Visits, TypeOK
  <2>3. SweepAt(s)'
    BY <2>2 DEF SweepInv, SweepAt
  <2> QED BY <2>1, <2>3 DEF SweepInv
<1>4. ASSUME NEW s \in Sessions, Allocate(s) PROVE SweepInv'
  <2>1. \A t \in Sessions : t # s => SweepAt(t)'
    BY <1>4 DEF Allocate, SweepInv, SweepAt, Visits, TypeOK
  <2>2. pc'[s] = "sweep" /\ Visits(s)' = 0 /\ UNCHANGED <<cursor, side, seen>>
    BY <1>4 DEF Allocate, Visits, SweepInv, SweepAt, TypeOK
  <2>3. ASSUME NEW p \in Ports
        PROVE  2 <= Behind(Candidate(cursor[side[s]]), p) /\ Behind(Candidate(cursor[side[s]]), p) \in Int
    <3>1. Pairs > 0
      BY PortsRange
    <3>2. Candidate(cursor[side[s]]) \in Ports
      BY <3>1, CandidateInRange DEF TypeOK, CursorEven
    <3> QED BY <3>2, BehindBounds
  <2>4. SweepAt(s)'
    BY <2>2, <2>3 DEF SweepAt
  <2> QED BY <2>1, <2>4 DEF SweepInv
<1>5. ASSUME NEW s \in Sessions, Exhausted(s) \/ UnbindA(s) \/ UndoA(s) PROVE SweepInv'
  BY <1>5 DEF Exhausted, UnbindA, UndoA, SweepInv, SweepAt, Visits, TypeOK
<1>6. CASE UNCHANGED <<cursor, pc, side, tried, seen>>
  BY <1>6 DEF SweepInv, SweepAt, Visits
<1>7. ASSUME NEW s \in Sessions, NEW c \in Closers, Start(s) \/ CloseWith(s, c) \/ Closing(s, c)
      PROVE  SweepInv'
  BY <1>6, <1>7 DEF Start, CloseWith, Closing, ClosePairs, ReleaseA, ReleaseB
<1>8. CASE UNCHANGED vars
  BY <1>6, <1>8 DEF vars
<1>9. Closers # {}
  BY DEF Closers
<1> QED BY <1>1, <1>2, <1>3, <1>4, <1>5, <1>7, <1>8, <1>9 DEF Next, Allocation

\* ErrPortsExhausted is true: although all allocations share one cursor, one
\* that gives up has found each pair of the range in use at some moment of
\* its own sweep (sweep's single lap).
THEOREM ExhaustionIsTruthful == Spec => []ExhaustionTruthful
<1>1. Init => SweepInv
  BY DEF Init, SweepInv, SweepAt
<1>2. TypeOK /\ CursorEven /\ SweepInv => ExhaustionTruthful
  <2> SUFFICES ASSUME TypeOK, CursorEven, SweepInv, NEW s \in Sessions,
                      pc[s] = "sweep", tried[s] >= Pairs, NEW p \in Ports
               PROVE  p \in seen[s]
    BY DEF ExhaustionTruthful, At, TypeOK
  <2>1. Pairs > 0 /\ Pairs \in Nat /\ tried[s] \in Nat /\ Visits(s) = tried[s]
    BY PortsRange DEF Visits, TypeOK
  <2>2. Candidate(cursor[side[s]]) \in Ports
    BY <2>1, CandidateInRange DEF TypeOK, CursorEven
  <2>3. Behind(Candidate(cursor[side[s]]), p) <= 2 * Visits(s)
    BY <2>1, <2>2, BehindBounds
  <2> QED BY <2>3 DEF SweepInv, SweepAt
<1> QED BY <1>1, <1>2, SweepStep, TypeCorrect, PTL DEF Spec

\* A reserved pair has one holder, is inside the range and comes back unbound,
\* whoever closes the session and whichever allocation fails.
THEOREM PortsAreSafe == Spec => []PortsSafe
<1>1. /\ TypeOK /\ CursorEven /\ PairsExclusive /\ OpenPortsReserved
      /\ InsideRange /\ FailureLeavesNothing
      => PortsSafe
  BY DEF PortsSafe
<1> QED
  BY <1>1, TypeCorrect, PairNeverShared, SocketsClosedFirst, AlwaysInsideRange,
     FailedAllocationLeaksNothing, PTL

=============================================================================
