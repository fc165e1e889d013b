----------------------------- MODULE MediaParts -----------------------------
(***************************************************************************)
(* What carries the media of one call beside its ports, and the process    *)
(* around it: the offers and answers of its dialog, a WebRTC leg and       *)
(* Server.Run. The three share nothing here; what each promises is named   *)
(* once, for the model checker and for the proofs.                         *)
(***************************************************************************)
EXTENDS Naturals

CONSTANTS Requests, Kind(_), From(_), EarlyAnswers

VARIABLES xpc, ack, timer, slots, owed, callUp, media, keys, view, far, resp, final

Offers == INSTANCE OfferAnswer WITH pc <- xpc, up <- callUp

ASSUME OffersAssumption == Offers!ConstantsOK /\ Offers!OneOfferlessEnd

\* Offers that cross: the slots are counted exactly, one exchange at a time
\* points the media, and in a quiet call whose ends agree the media goes where
\* they agreed; a call is half-renegotiated only by a 2xx FreeSBC did not wait
\* for (see OfferAnswer).
OffersApplied == Offers!OffersApplied

CONSTANTS LegClosers

VARIABLES offerer, signalled, genuine, state, failed, remoteSet, kept, verified, ready, closedCh,
          open, ports, epc, spc, cpc, snap, sess, relays, legMedia

Leg == INSTANCE WebRtcLeg WITH Closers <- LegClosers, media <- legMedia

\* However Close falls into establishment, a WebRTC leg leaves nothing open and
\* gives no port back twice, and carries media of the signalled peer only (see
\* WebRtcLeg).
LegReleases == Leg!TypeOK /\ Leg!LegReleases /\ Leg!OnlyVerified

CONSTANTS N, Udp, Handlers

VARIABLES rpc, listening, sockets, pooled, serve, errs, helpers, shutting, cancelled, announced,
          closed, hpc, gaveUp

Run == INSTANCE EdgeRun WITH
    bound <- listening, open <- sockets, ready <- announced, failed <- gaveUp

ASSUME RunAssumption == Run!ConstantsOK

\* Run leaves nothing behind, and is ready when it says so (see EdgeRun).
NothingLeft == Run!TypeOK /\ Run!NothingLeft
=============================================================================
