---------------------------- MODULE CarrierConns ----------------------------
(***************************************************************************)
(* The stream connections FreeSBC opens to one carrier address             *)
(* (carrierconn.go): ensure under the destination's lock, dial with its    *)
(* handshake and hand-over, sipgo's serve loop that pools what it is       *)
(* handed, and connections lost at any time. A connection is named after   *)
(* the request that dialed it.                                             *)
(***************************************************************************)
EXTENDS Naturals, FiniteSets

CONSTANTS Requests

VARIABLES
    pc,         \* where each request's ensure is
    lock,       \* requests holding the destination's mutex
    ready,      \* handed over, not yet taken by sipgo
    pool,       \* sipgo's pool for the address
    late,       \* an ensure stopped waiting for its connection to be pooled
    shut        \* the dial listener is shut

vars == <<pc, lock, ready, pool, late, shut>>

States == {"idle", "waiting", "checking", "dialing", "handing", "pooling", "sent", "failed"}

TypeOK ==
    /\ pc \in [Requests -> States] /\ lock \subseteq Requests
    /\ ready \subseteq Requests /\ pool \subseteq Requests /\ {late, shut} \subseteq BOOLEAN

Init ==
    /\ pc = [r \in Requests |-> "idle"] /\ lock = {} /\ ready = {} /\ pool = {}
    /\ late = FALSE /\ shut = FALSE

Goto(r, p) == pc' = [pc EXCEPT ![r] = p]
Return(r, p) == Goto(r, p) /\ lock' = lock \ {r}

----------------------------------------------------------------------------
Ensure(r) ==
    /\ pc[r] = "idle" /\ Goto(r, "waiting") /\ UNCHANGED <<lock, ready, pool, late, shut>>

\* destLock.
Unlocked == lock = {}

Lock(r) ==
    /\ pc[r] = "waiting" /\ Unlocked /\ Goto(r, "checking") /\ lock' = lock \cup {r}
    /\ UNCHANGED <<ready, pool, late, shut>>

\* GetConnection.
Check(r) ==
    /\ pc[r] = "checking"
    /\ IF pool # {} THEN Return(r, "sent") ELSE Goto(r, "dialing") /\ UNCHANGED lock
    /\ UNCHANGED <<ready, pool, late, shut>>

\* dial: no connection, no slot, a failed handshake or the request's end.
Dial(r) ==
    /\ pc[r] = "dialing"
    /\ (Goto(r, "handing") /\ UNCHANGED lock) \/ Return(r, "failed")
    /\ UNCHANGED <<ready, pool, late, shut>>

HandOver(r) ==
    /\ pc[r] = "handing"
    /\ \/ ready' = ready \cup {r} /\ Goto(r, "pooling") /\ UNCHANGED lock
       \/ Return(r, "failed") /\ UNCHANGED ready
    /\ UNCHANGED <<pool, late, shut>>

\* The wait for the pool: 2 s, or less when the request ends.
Pooled(r) ==
    /\ pc[r] = "pooling"
    /\ \/ pool # {} /\ Return(r, "sent") /\ UNCHANGED late
       \/ Return(r, "failed") /\ late' = (late \/ pool = {})
    /\ UNCHANGED <<ready, pool, shut>>

\* sipgo's serve loop takes a connection and pools it under its address.
Serve(r) ==
    /\ r \in ready /\ ~shut /\ ready' = ready \ {r} /\ pool' = pool \cup {r}
    /\ UNCHANGED <<pc, lock, late, shut>>

\* A connection ends and leaves the pool.
Lost(r) ==
    /\ r \in pool /\ pool' = pool \ {r} /\ UNCHANGED <<pc, lock, ready, late, shut>>

\* shut closes what was never taken, sipgo its pool.
Shut ==
    /\ ~shut /\ shut' = TRUE /\ ready' = {} /\ pool' = {} /\ UNCHANGED <<pc, lock, late>>

Next == (\E r \in Requests : \/ Ensure(r) \/ Lock(r) \/ Check(r) \/ Dial(r)
                             \/ HandOver(r) \/ Pooled(r) \/ Serve(r) \/ Lost(r)) \/ Shut

Spec == Init /\ [][Next]_vars

----------------------------------------------------------------------------
\* One connection per carrier address: however many requests find it missing
\* at once, a second one is dialed only after a request gave up waiting for
\* its own to be pooled (ensure).
OneConnection == late \/ Cardinality(ready \cup pool \cup {r \in Requests : pc[r] = "handing"}) <= 1
=============================================================================
