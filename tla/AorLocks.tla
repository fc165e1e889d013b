------------------------------ MODULE AorLocks ------------------------------
(***************************************************************************)
(* The shield's per-AoR strike table (aorstrikes.go): strikes in a fixed   *)
(* window, a lock once the threshold is crossed, an LRU of bounded size    *)
(* whose eviction spares locked entries near the back, clearing by a       *)
(* successful registration and the pruning sweep. Every method is one      *)
(* critical section of aorTable.mu.                                        *)
(***************************************************************************)
EXTENDS Naturals, FiniteSets, Recency

CONSTANTS
    Aors,
    Cap, Scan,        \* aorCap and aorEvictScan
    N, Window, Ban,   \* shield.register_ban_aor and shield.ban
    MaxNow            \* bounds the instance

\* StrikeAOR counts nothing without a threshold or a window.
ConstantsOK ==
    /\ Cap \in Nat \ {0} /\ Scan \in Nat \ {0} /\ N \in Nat \ {0} /\ Window \in Nat \ {0}
    /\ Ban \in Nat /\ MaxNow \in Nat \ {0}

VARIABLES
    now,
    entries,  \* by AoR; locked = 0 when not locked
    newer,    \* their order in the list, by the last strike
    strikes,  \* per AoR, when it was struck since it was last forgotten
    earned    \* every lock so far was opened by N + 1 strikes within a window

vars == <<now, entries, newer, strikes, earned>>

\* A strike is its time and a number that tells it from others of that time.
TypeOK ==
    /\ now \in 0..MaxNow /\ earned \in BOOLEAN
    /\ DOMAIN entries \subseteq Aors /\ Lists(newer, DOMAIN entries)
    /\ \A a \in DOMAIN entries :
          entries[a] \in [start : 0..MaxNow, count : Nat, locked : 0..(MaxNow + Ban)]
    /\ IsFiniteSet(DOMAIN entries) /\ Cardinality(DOMAIN entries) <= Cap
    /\ strikes \in [Aors -> SUBSET ((0..MaxNow) \X Nat)]

\* A ban of zero ticks from tick zero would read as "not locked".
Init ==
    /\ now = 1 /\ entries = [a \in {} |-> 0] /\ newer = {}
    /\ strikes = [a \in Aors |-> {}] /\ earned = TRUE

Held(a) == a \in DOMAIN entries
LockedAt(e) == e.locked # 0 /\ now < e.locked

\* isLocked.
Locked(a) == Held(a) /\ LockedAt(entries[a])

\* What evictable looks at: the last Scan entries.
NearBack == {a \in DOMAIN entries : Cardinality(Behind(newer, a)) < Scan}

EvictLast == Backmost(newer, DOMAIN entries)

\* evictable: the last entry not locked among the last Scan, else the back.
Evictable ==
    LET spare == {a \in NearBack : ~LockedAt(entries[a])}
    IN Backmost(newer, IF spare = {} THEN DOMAIN entries ELSE spare)

\* The window restarts when it has passed, or with the lock's end.
Rolled(e) ==
    IF (e.locked = 0 /\ now - e.start >= Window) \/ (e.locked # 0 /\ now >= e.locked)
    THEN [start |-> now, count |-> 0, locked |-> 0] ELSE e

Known(a) == IF Held(a) THEN Rolled(entries[a]) ELSE [start |-> now, count |-> 0, locked |-> 0]

Struck(a) == {s \in strikes[a] : now - s[1] < Window}

\* aorTable.strike.
Strike(a) ==
    LET e == [Known(a) EXCEPT !.count = @ + 1]
        opens == e.locked = 0 /\ e.count > N
        full == ~Held(a) /\ Cardinality(DOMAIN entries) >= Cap
    IN \E out \in IF full THEN {{x} : x \in Evictable} ELSE {{}} :
       LET kept == DOMAIN entries \ out IN
       /\ UNCHANGED now
       /\ entries' = [x \in kept \cup {a} |->
                        IF x # a THEN entries[x]
                        ELSE IF opens THEN [e EXCEPT !.locked = now + Ban] ELSE e]
       /\ newer' = ToFront(newer, a, kept)
       /\ strikes' = [strikes EXCEPT ![a] = @ \cup {<<now, Cardinality({s \in @ : s[1] = now})>>}]
       /\ earned' = (earned /\ (opens => Cardinality(Struck(a)') > N))

\* A locked AoR is struck only by attempts that were past the lock already.
Attempt(a) == Cardinality(strikes[a]) <= N + 1 /\ Strike(a)

Keep(kept) == entries' = [a \in kept |-> entries[a]] /\ newer' = Among(newer, kept)

\* ClearAOR, after a 2xx with a credential.
Clear(a) ==
    /\ Held(a) /\ Keep(DOMAIN entries \ {a})
    /\ strikes' = [strikes EXCEPT ![a] = {}]
    /\ UNCHANGED <<now, earned>>

Expired(e) == IF e.locked # 0 THEN now >= e.locked ELSE now - e.start >= Window

\* prune.
Prune ==
    /\ \E a \in DOMAIN entries : Expired(entries[a])
    /\ Keep({a \in DOMAIN entries : ~Expired(entries[a])})
    /\ UNCHANGED <<now, strikes, earned>>

\* Strikes older than a window are of no interest to the property.
Tick ==
    /\ now < MaxNow /\ now' = now + 1
    /\ strikes' = [a \in Aors |-> {s \in strikes[a] : now' - s[1] < Window}]
    /\ UNCHANGED <<entries, newer, earned>>

Next == (\E a \in Aors : Attempt(a) \/ Clear(a)) \/ Prune \/ Tick

Spec == Init /\ [][Next]_vars

----------------------------------------------------------------------------
\* A lock stands for shield.ban: it ends with its time or with a successful
\* registration; a full table gives it up only when all it looks at are locked.
LocksKept ==
    [][\A a \in Aors : Locked(a) /\ ~Locked(a)' =>
          \/ now' >= entries[a].locked
          \/ Clear(a)
          \/ \A x \in NearBack : LockedAt(entries[x])]_vars

\* No AoR is locked for failures spread thinner than the threshold, however
\* the window, a lock's end, eviction and pruning fall between them.
LocksEarned == earned
=============================================================================
