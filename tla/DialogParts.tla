---------------------------- MODULE DialogParts ----------------------------
(***************************************************************************)
(* In-dialog requests beside the dialog table, and the stream connections  *)
(* requests arrive on: what becomes of them, named once for the model      *)
(* checker and for the proofs.                                             *)
(***************************************************************************)
EXTENDS Naturals

CONSTANTS Records, CallerTag, CallerPlane, ForkTags, OfCarrier, Switches, Home, Workers

VARIABLES callState, carriedBy, routed, callee, job, past, astray

Routing == INSTANCE InDialog WITH
    state <- callState, node <- carriedBy, Nodes <- Switches, Requests <- Workers

ASSUME DialogAssumption == Routing!ConstantsOK

\* Nothing reaches a switch past admission whatever happens to the calls
\* meanwhile; what names a dialog goes to the node that carries it, and no other
\* BYE ends it (see InDialog).
RequestsRouted == Routing!RequestsRouted

CONSTANTS Streams, StreamIp(_), CarrierStreams, MaxTotal, MaxCarrier, MaxPerIP, Idle, Message

VARIABLES transport, connPc, total, carrier, perIP, handed, lis, serving, closedConns, partial,
          since, lastMsg, lastRead, silent, busy, quiet

Conns == INSTANCE StreamConns WITH
    Conns <- Streams, Ip <- StreamIp, Carriers <- CarrierStreams, pc <- connPc,
    ready <- handed, closed <- closedConns

ASSUME ConnsAssumption == Conns!ConstantsOK

\* Connection slots are counted exactly and squatters are closed (see
\* StreamConns).
StreamsExact == Conns!TypeOK /\ Conns!CountsExact /\ Conns!NoSquatting

\* Public connections are admitted as the abstract pool says (StreamConns
\* implements AdmissionPool).
ConnsArePooled == Conns!ConnsArePooled
=============================================================================
