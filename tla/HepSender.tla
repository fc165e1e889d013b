----------------------------- MODULE HepSender -----------------------------
(***************************************************************************)
(* The HEP sender (hep/sender.go): Send calls of the SIP path, the writer  *)
(* goroutine with its connection and backoff, and Close with a deadline.   *)
(* A packet is one Send. Stream transports only: UDP never blocks or       *)
(* backs off.                                                              *)
(***************************************************************************)
EXTENDS Naturals, Sequences, FiniteSets

CONSTANTS Packets, QueueSize

ConstantsOK == IsFiniteSet(Packets) /\ "none" \notin Packets /\ QueueSize \in Nat

VARIABLES
    pc,                      \* each Send
    queue, hand,             \* the channel; the packet in the writer's hand
    closed, stop, abort,     \* Close has begun; the channels it closes
    wpc, draining, conn,     \* the writer: in run or in drain; s.conn
    failed, backing,         \* its last write failed; retryAt is ahead of now
    cpc,                     \* Close
    sent, dropped, writeErrs, encodeErrs,
    stray                    \* queued after Close looked for the last time

vars == <<pc, queue, hand, closed, stop, abort, wpc, draining, conn, failed, backing, cpc,
          sent, dropped, writeErrs, encodeErrs, stray>>
stats == <<sent, dropped, writeErrs, encodeErrs>>
signals == <<closed, stop, abort>>

None == "none"
Elements(s) == {s[i] : i \in DOMAIN s}
WriterStates == {"loop", "write", "dial", "dialed", "send", "exit", "done"}

TypeOK ==
    /\ pc \in [Packets -> {"new", "checked", "queued", "refused"}]
    /\ queue \in Seq(Packets) /\ Len(queue) <= QueueSize /\ hand \in Packets \cup {None}
    /\ {closed, stop, abort, draining, failed, backing} \subseteq BOOLEAN
    /\ wpc \in WriterStates /\ conn \in {"none", "open", "dead"}
    /\ cpc \in {"idle", "wait", "gaveUp", "rest", "conn", "returned"}
    /\ {sent, dropped, writeErrs, encodeErrs} \subseteq 0..Cardinality(Packets)
    /\ stray \subseteq Packets

Init ==
    /\ pc = [p \in Packets |-> "new"] /\ queue = <<>> /\ hand = None
    /\ closed = FALSE /\ stop = FALSE /\ abort = FALSE
    /\ wpc = "loop" /\ draining = FALSE /\ conn = "none" /\ failed = FALSE /\ backing = FALSE /\ cpc = "idle"
    /\ sent = 0 /\ dropped = 0 /\ writeErrs = 0 /\ encodeErrs = 0 /\ stray = {}

----------------------------------------------------------------------------
(* Send: the check of closed, then the queue.                              *)

CheckClosed(p) ==
    /\ pc[p] = "new"
    /\ pc' = [pc EXCEPT ![p] = IF closed THEN "refused" ELSE "checked"]
    /\ dropped' = IF closed THEN dropped + 1 ELSE dropped
    /\ UNCHANGED <<queue, hand, signals, wpc, draining, conn, failed, backing, cpc, sent, writeErrs, encodeErrs, stray>>

Enqueue(p) ==
    /\ pc[p] = "checked"
    /\ IF Len(queue) < QueueSize
       THEN /\ queue' = Append(queue, p) /\ pc' = [pc EXCEPT ![p] = "queued"]
            /\ stray' = IF cpc \in {"conn", "returned"} THEN stray \cup {p} ELSE stray
            /\ UNCHANGED dropped
       ELSE /\ dropped' = dropped + 1 /\ pc' = [pc EXCEPT ![p] = "refused"]
            /\ UNCHANGED <<queue, stray>>
    /\ UNCHANGED <<hand, signals, wpc, draining, conn, failed, backing, cpc, sent, writeErrs, encodeErrs>>

----------------------------------------------------------------------------
(* The writer.                                                             *)

\* run: while backing off without a connection the queue is left alone.
Take ==
    /\ wpc = "loop" /\ ~draining /\ ~(conn = "none" /\ backing) /\ queue # <<>>
    /\ hand' = Head(queue) /\ queue' = Tail(queue) /\ wpc' = "write"
    /\ UNCHANGED <<pc, signals, draining, conn, failed, backing, cpc, stats, stray>>

StopSeen ==
    /\ wpc = "loop" /\ ~draining /\ stop /\ draining' = TRUE /\ failed' = FALSE
    /\ UNCHANGED <<pc, queue, hand, signals, wpc, conn, backing, cpc, stats, stray>>

DropRestUncounted ==
    /\ queue' = <<>> /\ UNCHANGED dropped

\* dropRest: what is queued is counted as dropped.
DropRest ==
    /\ queue' = <<>> /\ dropped' = dropped + Len(queue)

\* drain: until Close gives up, the queue is empty, or a packet could not be
\* sent and there is no connection.
Drain ==
    /\ wpc = "loop" /\ draining
    /\ \/ /\ abort \/ (failed /\ conn = "none")
          /\ DropRest /\ wpc' = "exit" /\ UNCHANGED hand
       \/ /\ ~abort /\ ~(failed /\ conn = "none") /\ queue = <<>>
          /\ wpc' = "exit" /\ UNCHANGED <<queue, hand, dropped>>
       \/ /\ ~abort /\ ~(failed /\ conn = "none") /\ queue # <<>>
          /\ hand' = Head(queue) /\ queue' = Tail(queue) /\ wpc' = "write"
          /\ UNCHANGED dropped
    /\ UNCHANGED <<pc, signals, draining, conn, failed, backing, cpc, sent, writeErrs, encodeErrs, stray>>

\* write: an encoding error leaves the connection as it is.
Write ==
    /\ wpc = "write"
    /\ \/ encodeErrs' = encodeErrs + 1 /\ hand' = None /\ wpc' = "loop" /\ failed' = FALSE
       \/ wpc' = (IF conn = "none" THEN "dial" ELSE "send") /\ UNCHANGED <<encodeErrs, hand, failed>>
    /\ UNCHANGED <<pc, queue, signals, draining, conn, backing, cpc, sent, dropped, writeErrs, stray>>

Fail ==
    /\ writeErrs' = writeErrs + 1 /\ hand' = None /\ wpc' = "loop"
    /\ failed' = TRUE /\ backing' = TRUE

\* dial fails, or has a connection it has not stored yet.
Dial ==
    /\ wpc = "dial"
    /\ \/ wpc' = "dialed" /\ UNCHANGED <<writeErrs, hand, failed, backing>>
       \/ Fail
    /\ UNCHANGED <<pc, queue, signals, draining, conn, cpc, sent, dropped, encodeErrs, stray>>

\* Under the lock: Close may have given up meanwhile.
MayStore == ~abort

Store ==
    /\ wpc = "dialed"
    /\ IF MayStore THEN conn' = "open" /\ wpc' = "send" /\ UNCHANGED <<writeErrs, hand, failed, backing>>
                   ELSE Fail /\ UNCHANGED conn
    /\ UNCHANGED <<pc, queue, signals, draining, cpc, sent, dropped, encodeErrs, stray>>

\* The write succeeds, or fails (a closed connection, the write deadline).
Send ==
    /\ wpc = "send"
    /\ \/ /\ conn = "open" /\ sent' = sent + 1 /\ hand' = None /\ wpc' = "loop"
          /\ failed' = FALSE /\ UNCHANGED <<writeErrs, backing, conn>>
       \/ Fail /\ conn' = "none" /\ UNCHANGED sent
    /\ UNCHANGED <<pc, queue, signals, draining, cpc, dropped, encodeErrs, stray>>

Exit ==
    /\ wpc = "exit" /\ wpc' = "done"
    /\ UNCHANGED <<pc, queue, hand, signals, draining, conn, failed, backing, cpc, stats, stray>>

BackedOff ==
    /\ backing /\ backing' = FALSE
    /\ UNCHANGED <<pc, queue, hand, signals, wpc, draining, conn, failed, cpc, stats, stray>>

\* The collector closes the connection; the next write fails.
PeerClose ==
    /\ conn = "open" /\ conn' = "dead"
    /\ UNCHANGED <<pc, queue, hand, signals, wpc, draining, failed, backing, cpc, stats, stray>>

----------------------------------------------------------------------------
(* Close.                                                                  *)

Close ==
    /\ cpc = "idle" /\ cpc' = "wait" /\ closed' = TRUE /\ stop' = TRUE
    /\ UNCHANGED <<pc, queue, hand, abort, wpc, draining, conn, failed, backing, stats, stray>>

\* The deadline: giveUp.
GiveUp ==
    /\ cpc = "wait" /\ cpc' = "gaveUp" /\ abort' = TRUE /\ conn' = "none"
    /\ UNCHANGED <<pc, queue, hand, closed, stop, wpc, draining, failed, backing, stats, stray>>

WriterDone ==
    /\ cpc \in {"wait", "gaveUp"} /\ wpc = "done" /\ cpc' = "rest"
    /\ UNCHANGED <<pc, queue, hand, signals, wpc, draining, conn, failed, backing, stats, stray>>

\* A Send that had passed the check may have queued since.
Rest ==
    /\ cpc = "rest" /\ cpc' = "conn" /\ DropRest
    /\ UNCHANGED <<pc, hand, signals, wpc, draining, conn, failed, backing, sent, writeErrs, encodeErrs, stray>>

CloseConn ==
    /\ cpc = "conn" /\ cpc' = "returned" /\ conn' = "none"
    /\ UNCHANGED <<pc, queue, hand, signals, wpc, draining, failed, backing, stats, stray>>

Writer == Take \/ StopSeen \/ Drain \/ Write \/ Dial \/ Store \/ Send \/ Exit
Closer == GiveUp \/ WriterDone \/ Rest \/ CloseConn

Next ==
    \/ \E p \in Packets : CheckClosed(p) \/ Enqueue(p)
    \/ Writer \/ BackedOff \/ PeerClose \/ Close \/ Closer

Spec == Init /\ [][Next]_vars

----------------------------------------------------------------------------
\* Every packet is counted once: sent, dropped, or lost to an encoding, dial
\* or write error, or it is still on its way; and once Close has returned
\* nothing is left behind but what a Send in progress queued after Close
\* looked for the last time (Send, drain, dropRest).
PacketsCounted ==
    /\ sent + dropped + writeErrs + encodeErrs + Len(queue) + (IF hand = None THEN 0 ELSE 1)
         = Cardinality({p \in Packets : pc[p] \in {"queued", "refused"}})
    /\ cpc = "returned" => conn = "none" /\ hand = None /\ Elements(queue) \subseteq stray
=============================================================================
