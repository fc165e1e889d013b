---------------------------- MODULE StreamConns ----------------------------
(***************************************************************************)
(* The accepted stream connections of one listener (stream.go): the        *)
(* admission and preparation goroutine of each, the channel it hands ready *)
(* connections over, sipgo's reader with its deadlines, a Close that may   *)
(* come from anyone and more than once, and the listener's shut.           *)
(*                                                                         *)
(* Time is in ticks; a tick does not pass over a read deadline that is     *)
(* due. Whether a connection is busy (a binding, a dialog or a carrier at  *)
(* its address) is the environment's to change.                            *)
(***************************************************************************)
EXTENDS Integers, FiniteSets

CONSTANTS
    Conns, Ip(_), Carriers,           \* connections; those of carriers
    MaxTotal, MaxCarrier, MaxPerIP,   \* streamLimits
    Idle, Message                     \* idle and message timeouts, in ticks

\* What the constants are assumed to be (60 s and 15 s in the code).
ConstantsOK ==
    /\ IsFiniteSet(Conns) /\ Carriers \subseteq Conns
    /\ MaxPerIP \in Nat /\ Idle \in Nat \ {0} /\ Message \in 1..Idle

VARIABLES
    transport,              \* "sip" (tcp, tls) or "ws" (ws, wss)
    pc,                     \* where each connection is
    total, carrier, perIP,  \* streamTable
    ready, lis,             \* streamListener: prepared connections, its end
    serving,                \* sipgo's accept loop runs
    closed,                 \* closeOnce has run
    partial, since, lastMsg, lastRead,  \* a reader's view; ages in ticks
    silent,                 \* history: age of its last message, or of Accept
    busy, quiet             \* streamBusy, and for how long it has not been

vars == <<transport, pc, total, carrier, perIP, ready, lis, serving, closed,
          partial, since, lastMsg, lastRead, silent, busy, quiet>>
counts == <<total, carrier, perIP>>
listener == <<ready, lis, serving>>
reader == <<partial, since, lastMsg, lastRead, silent>>
env == <<busy, quiet>>

IPs == {Ip(c) : c \in Conns}
Ages == 0..(3 * Idle + 1)
Zero == -1  \* lastMsg's zero value: nothing was read yet

TypeOK ==
    /\ transport \in {"sip", "ws"}
    /\ pc \in [Conns -> {"new", "admitted", "prepared", "ready", "reading", "gone"}]
    /\ total \in Nat /\ carrier \in Nat /\ perIP \in [IPs -> Nat]
    /\ ready \subseteq Conns /\ lis \in {"open", "draining", "shut"} /\ serving \in BOOLEAN /\ closed \subseteq Conns
    /\ partial \subseteq Conns /\ busy \subseteq Conns
    /\ {since, lastRead, silent, quiet} \subseteq [Conns -> Ages]
    /\ lastMsg \in [Conns -> Ages \cup {Zero}]

Init ==
    /\ transport \in {"sip", "ws"}
    /\ pc = [c \in Conns |-> "new"] /\ total = 0 /\ carrier = 0 /\ perIP = [i \in IPs |-> 0]
    /\ ready = {} /\ lis = "open" /\ serving = TRUE /\ closed = {} /\ partial = {} /\ busy = Carriers
    /\ since = [c \in Conns |-> 0] /\ lastRead = since /\ silent = since /\ quiet = since
    /\ lastMsg = [c \in Conns |-> Zero]

Goto(c, p) == pc' = [pc EXCEPT ![c] = p]

----------------------------------------------------------------------------
(* streamTable.                                                            *)

AdmitsOneMore(c) ==
    /\ IF c \in Carriers THEN carrier < MaxCarrier ELSE total - carrier <= MaxTotal
    /\ perIP[Ip(c)] < MaxPerIP

\* acquire's three caps: a carrier counts against its own.
Admits(c) ==
    /\ IF c \in Carriers THEN carrier < MaxCarrier ELSE total - carrier < MaxTotal
    /\ perIP[Ip(c)] < MaxPerIP

One(c) == IF c \in Carriers THEN 1 ELSE 0

Released(c) ==
    /\ total' = total - 1 /\ carrier' = carrier - One(c)
    /\ perIP' = [perIP EXCEPT ![Ip(c)] = IF @ <= 1 THEN 0 ELSE @ - 1]

CloseTwice(c) == Released(c) /\ closed' = closed \cup {c}

\* streamConn.Close.
Close(c) == IF c \in closed THEN UNCHANGED <<counts, closed>>
            ELSE Released(c) /\ closed' = closed \cup {c}

----------------------------------------------------------------------------
(* prepare.                                                                *)

\* A banned source and a full table are refused without a slot.
Acquire(c) ==
    /\ pc[c] = "new"
    /\ \/ Goto(c, "gone") /\ UNCHANGED counts
       \/ /\ Admits(c) /\ Goto(c, "admitted")
          /\ total' = total + 1 /\ carrier' = carrier + One(c)
          /\ perIP' = [perIP EXCEPT ![Ip(c)] = @ + 1]
    /\ UNCHANGED <<listener, closed, reader, env>>

\* An empty bucket, a failed handshake, an upgrade request that does not
\* come or is too long close it; the handshake timeout bounds the rest.
Prepare(c) ==
    /\ pc[c] = "admitted"
    /\ \/ Goto(c, "prepared") /\ UNCHANGED <<counts, closed>>
       \/ Goto(c, "gone") /\ Close(c)
    /\ UNCHANGED <<listener, reader, env>>

\* The hand-over: the channel has room, or the listener is shut; when both
\* hold either may be taken.
HandOver(c) ==
    /\ pc[c] = "prepared"
    /\ \/ /\ Goto(c, "ready") /\ ready' = ready \cup {c}
          /\ UNCHANGED <<counts, closed>>
       \/ lis # "open" /\ Goto(c, "gone") /\ Close(c) /\ UNCHANGED ready
    /\ UNCHANGED <<lis, serving, reader, env>>

\* Accept, and sipgo's read loop starts. A WebSocket's first read, the pending
\* upgrade request, is made at once.
Accept(c) ==
    /\ c \in ready /\ serving
    /\ ready' = ready \ {c} /\ Goto(c, "reading")
    /\ lastMsg' = [lastMsg EXCEPT ![c] = IF transport = "ws" THEN 0 ELSE Zero]
    /\ UNCHANGED <<counts, lis, serving, closed, partial, since, lastRead, silent, env>>

\* Once the listener is shut Accept may say so, and sipgo's loop ends; while a
\* connection is ready either may be taken.
AcceptEnds ==
    /\ serving /\ lis # "open" /\ serving' = FALSE
    /\ UNCHANGED <<pc, counts, ready, lis, closed, reader, env>>

\* shut: once; then the channel is drained, until it is found empty. What is
\* handed over after that is nobody's.
Shut ==
    /\ lis = "open" /\ lis' = "draining"
    /\ UNCHANGED <<pc, counts, ready, serving, closed, reader, env>>

Drain(c) ==
    /\ lis = "draining" /\ c \in ready
    /\ ready' = ready \ {c} /\ Goto(c, "gone") /\ Close(c)
    /\ UNCHANGED <<lis, serving, reader, env>>

Drained ==
    /\ lis = "draining" /\ ready = {} /\ lis' = "shut"
    /\ UNCHANGED <<pc, counts, ready, serving, closed, reader, env>>

----------------------------------------------------------------------------
(* Read and observe. After CloseFor the reader sees EOF, sipgo's loop ends *)
(* and the reader's state goes with it.                                    *)

CloseFor(c) ==
    /\ Goto(c, "gone") /\ Close(c) /\ partial' = partial \ {c} /\ busy' = Carriers \cup (busy \ {c})
    /\ since' = [since EXCEPT ![c] = 0] /\ lastMsg' = [lastMsg EXCEPT ![c] = Zero]
    /\ lastRead' = [lastRead EXCEPT ![c] = 0] /\ silent' = [silent EXCEPT ![c] = 0]
    /\ quiet' = [quiet EXCEPT ![c] = 0]
    /\ UNCHANGED listener

\* Reads that never time out meet the idle bound in observe; the first read
\* starts it.
IdleNow(c) == lastMsg[c] > Idle /\ c \notin busy

\* framer.started and partial after a read: msg, a message (a WebSocket data
\* frame) started in it; began, a unit started in it and is not complete; rest,
\* the read ends within one. A SIP stream's units are its messages; of a
\* WebSocket's frames some are none, and a data frame is known as one when its
\* header is complete.
Framed(c, msg, began, rest) ==
    /\ began => rest
    /\ rest => c \in partial \/ began
    /\ transport = "sip" => began = (msg /\ rest)

\* One read, keep-alives included; a violation or an empty bucket closes, and
\* so does the idle bound where the read does not end within a unit.
Read(c) ==
    /\ pc[c] = "reading"
    /\ \/ CloseFor(c)
       \/ \E msg, began, rest \in BOOLEAN :
            /\ Framed(c, msg, began, rest)
            /\ IF ~rest /\ ~msg /\ IdleNow(c)
               THEN CloseFor(c)
               ELSE /\ lastMsg' = [lastMsg EXCEPT ![c] = IF msg \/ @ = Zero THEN 0 ELSE @]
                    /\ silent' = [silent EXCEPT ![c] = IF msg THEN 0 ELSE @]
                    /\ lastRead' = [lastRead EXCEPT ![c] = 0]
                    /\ since' = [since EXCEPT ![c] = IF rest /\ ~began THEN @ ELSE 0]
                    /\ partial' = IF rest THEN partial \cup {c} ELSE partial \ {c}
                    /\ UNCHANGED <<pc, counts, listener, closed, env>>

\* arm: what is left of the message timeout, or the idle timeout.
Due(c) == /\ pc[c] = "reading"
          /\ IF c \in partial THEN since[c] >= Message ELSE lastRead[c] >= Idle

\* The read times out: a slow message closes, a quiet connection does
\* unless it is busy, which waits another interval.
Timeout(c) ==
    /\ Due(c)
    /\ IF c \notin partial /\ c \in busy
       THEN /\ lastRead' = [lastRead EXCEPT ![c] = 0]
            /\ UNCHANGED <<pc, counts, listener, closed, partial, since, lastMsg, silent, env>>
       ELSE CloseFor(c)

\* sipgo's pool, or the peer, closes; also after a policy close.
PoolClose(c) ==
    /\ pc[c] \in {"reading", "gone"} /\ (c \in closed \/ pc[c] = "reading")
    /\ CloseFor(c)

Use(c) ==
    /\ pc[c] = "reading" /\ c \notin Carriers
    /\ busy' = IF c \in busy THEN busy \ {c} ELSE busy \cup {c}
    /\ quiet' = [quiet EXCEPT ![c] = 0]
    /\ UNCHANGED <<pc, counts, listener, closed, reader>>

\* Intervals a connection may stay without a message: a WebSocket's are two,
\* counted from its upgrade; a SIP stream's first read starts the idle bound
\* anew (lastMsg.IsZero in observe), and may itself take one.
Patience == (IF transport = "sip" THEN 3 ELSE 2) * Idle

\* Bound: how far ages count; a carrier is always busy, and only its read
\* timeout matters.
Oldest(c) == IF c \in Carriers THEN Idle ELSE Patience + 1

Older(age, c) == IF pc[c] # "reading" \/ age = Zero \/ age >= Oldest(c) THEN age ELSE age + 1

Tick ==
    /\ \A c \in Conns : ~Due(c)
    /\ \E c \in Conns : pc[c] = "reading"
    /\ since' = [c \in Conns |-> IF c \in partial THEN Older(since[c], c) ELSE since[c]]
    /\ lastMsg' = [c \in Conns |-> Older(lastMsg[c], c)]
    /\ lastRead' = [c \in Conns |-> Older(lastRead[c], c)]
    /\ silent' = [c \in Conns |-> Older(silent[c], c)]
    /\ quiet' = [c \in Conns |-> IF c \in busy THEN 0 ELSE Older(quiet[c], c)]
    /\ UNCHANGED <<pc, counts, listener, closed, partial, busy>>

Next ==
    /\ UNCHANGED transport
    /\ \/ \E c \in Conns :
             \/ Acquire(c) \/ Prepare(c) \/ HandOver(c) \/ Accept(c) \/ Drain(c)
             \/ Read(c) \/ Timeout(c) \/ PoolClose(c) \/ Use(c)
       \/ AcceptEnds \/ Shut \/ Drained \/ Tick

Spec == Init /\ [][Next]_vars

----------------------------------------------------------------------------
Holds(c) == pc[c] \in {"admitted", "prepared", "ready", "reading"}

\* The counters are the connections that hold a slot, however a failed
\* handshake, a policy close, sipgo's pool and the listener's end fall
\* together: each slot is given back once (acquire, release, Close).
CountsExact ==
    /\ total = Cardinality({c \in Conns : Holds(c)})
    /\ carrier = Cardinality({c \in Carriers : Holds(c)})
    /\ \A i \in IPs : perIP[i] = Cardinality({c \in Conns : Holds(c) /\ Ip(c) = i})

\* Keep-alives do not hold a connection: one whose read has ended between
\* messages, that started none since it was accepted and carried nothing for so
\* many idle intervals, is closed; and no unit takes longer than the message
\* timeout (arm, observe). A WebSocket whose reads keep ending within frames
\* that are no messages is held to the second bound only: observe checks the
\* first between units.
NoSquatting ==
    \A c \in Conns : pc[c] = "reading" =>
        IF c \in partial
        THEN since[c] <= Message /\ (transport = "sip" => silent[c] <= Message)
        ELSE silent[c] <= Patience \/ quiet[c] <= Patience

\* Public connections are admitted as the abstract pool says: carriers take
\* none of their slots, no address has more than its share, and a closed
\* connection is not counted again.
PublicPool == INSTANCE AdmissionPool WITH
    Ids <- Conns \ Carriers, Groups <- IPs, Max <- MaxTotal, MaxPerGroup <- MaxPerIP,
    held <- {<<c, Ip(c)>> : c \in {o \in Conns \ Carriers : Holds(o)}},
    left <- {c \in Conns \ Carriers : c \in closed}

ConnsArePooled == PublicPool!Spec
=============================================================================
