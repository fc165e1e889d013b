----------------------------- MODULE ProvReplay -----------------------------
(***************************************************************************)
(* The provisional responses of one INVITE client transaction (prov.go).   *)
(* sipgo's read loop starts a goroutine per response and then calls        *)
(* observe; the goroutines reach the transaction in any order, and it      *)
(* drops a provisional that comes after the final. pumpInvite replays what *)
(* was recorded ahead of a final and not read from the channel.            *)
(*                                                                         *)
(* Responses are their positions on the wire, which is the order of the    *)
(* record: it is a set here.                                               *)
(***************************************************************************)
EXTENDS Naturals, Sequences, FiniteSets

CONSTANTS Length, Finals, Cap   \* the wire; which of it is final; provCap

\* A transaction with more responses than provCap loses the oldest.
ConstantsOK ==
    /\ Length \in Nat /\ Cap \in Nat \ {0} /\ Length <= Cap /\ Finals \subseteq 1..Length

VARIABLES
    wire, spawned,      \* read so far; whether its goroutine has been started
    flying,             \* goroutines on their way to the transaction
    accepted, chan,     \* the transaction: a final was accepted; Responses()
    resp,               \* provRec
    seen, relayed, ended, \* pumpInvite
    final, todo         \* the final it has read, and what it replays ahead of it

vars == <<wire, spawned, flying, accepted, chan, resp, seen, relayed, ended, final, todo>>

None == 0

TypeOK ==
    /\ wire \in 0..Length /\ {spawned, accepted, ended} \subseteq BOOLEAN
    /\ {flying, resp, seen, todo} \subseteq SUBSET (1..Length) /\ Cardinality(resp) <= Cap
    /\ {chan, relayed} \subseteq Seq(1..Length) /\ final \in Finals \cup {None}

Init ==
    /\ wire = 0 /\ spawned = FALSE /\ flying = {} /\ accepted = FALSE /\ chan = <<>>
    /\ resp = {} /\ seen = {} /\ relayed = <<>> /\ ended = FALSE /\ final = None /\ todo = {}

----------------------------------------------------------------------------
\* The transaction layer's handler runs first.
Spawn ==
    /\ wire < Length /\ ~spawned
    /\ wire' = wire + 1 /\ spawned' = TRUE /\ flying' = flying \cup {wire + 1}
    /\ UNCHANGED <<accepted, chan, resp, seen, relayed, ended, final, todo>>

Oldest == {i \in resp : \A j \in resp : i <= j}
Recorded(i) == (IF Cardinality(resp) >= Cap THEN resp \ Oldest ELSE resp) \cup {i}

\* observe; the record is gone once the pump has returned.
Observe ==
    /\ spawned /\ spawned' = FALSE
    /\ resp' = IF ended THEN resp ELSE Recorded(wire)
    /\ UNCHANGED <<wire, flying, accepted, chan, seen, relayed, ended, final, todo>>

\* The transaction takes a response: a provisional after the final is dropped.
Deliver(i) ==
    /\ i \in flying /\ flying' = flying \ {i}
    /\ chan' = IF accepted THEN chan ELSE Append(chan, i)
    /\ accepted' = (accepted \/ i \in Finals)
    /\ UNCHANGED <<wire, spawned, resp, seen, relayed, ended, final, todo>>

\* before: what is recorded ahead of the final; all of it when the final is
\* not recorded yet.
Before(f) == {i \in resp \ (Finals \cup seen) : f \in resp => i < f}

\* pumpInvite reads a response; what a final overtook is looked up.
Pump ==
    /\ ~ended /\ final = None /\ chan # <<>>
    /\ LET i == Head(chan) IN
       /\ chan' = Tail(chan) /\ seen' = seen \cup {i}
       /\ IF i \in Finals
          THEN final' = i /\ todo' = Before(i) /\ UNCHANGED relayed
          ELSE relayed' = Append(relayed, i) /\ UNCHANGED <<final, todo>>
    /\ UNCHANGED <<wire, spawned, flying, accepted, ended, resp>>

\* and replayed in wire order,
Replay(i) ==
    /\ ~ended /\ i \in todo /\ \A j \in todo : i <= j
    /\ relayed' = Append(relayed, i) /\ todo' = todo \ {i}
    /\ UNCHANGED <<wire, spawned, flying, accepted, chan, seen, resp, ended, final>>

\* and then the final.
Finalise ==
    /\ ~ended /\ final # None /\ todo = {}
    /\ relayed' = Append(relayed, final) /\ ended' = TRUE /\ resp' = {}
    /\ UNCHANGED <<wire, spawned, flying, accepted, chan, seen, final, todo>>

\* The attempt is cancelled, or a response cannot be relayed.
Stop ==
    /\ ~ended /\ ended' = TRUE /\ resp' = {}
    /\ UNCHANGED <<wire, spawned, flying, accepted, chan, seen, relayed, final, todo>>

Next == Spawn \/ Observe \/ (\E i \in 1..Length : Deliver(i) \/ Replay(i))
        \/ Pump \/ Finalise \/ Stop

Spec == Init /\ [][Next]_vars

----------------------------------------------------------------------------
\* The caller sees every provisional that preceded the final on the wire, once
\* and before it, and nothing after it, whatever order sipgo's goroutines ran
\* in and wherever observe was when the final was read (before, pumpInvite).
NothingOvertaken ==
    LET at(i) == {k \in DOMAIN relayed : relayed[k] = i} IN
    \A f \in Finals : \A k \in at(f) :
        /\ k = Len(relayed)
        /\ \A i \in 1..(f - 1) : i \notin Finals => Cardinality(at(i)) = 1
        /\ \A i \in (f + 1)..Length : Cardinality(at(i)) <= 1
=============================================================================
