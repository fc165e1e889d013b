----------------------------- MODULE WebRtcLeg -----------------------------
(***************************************************************************)
(* The media of one browser call: the WebRTC leg (webrtcleg.go) with its   *)
(* establish goroutine, and the session that pairs it with a private port  *)
(* pair (webrtcsession.go). Close may come from any goroutine, at any      *)
(* point of establishment and more than once.                              *)
(*                                                                         *)
(* ICE, DTLS and SRTP are pion's: a handshake succeeds or fails, and ends  *)
(* early when the leg is closed. Resources are names: those in "open" hold *)
(* a socket, a goroutine or both.                                          *)
(***************************************************************************)
EXTENDS Naturals, FiniteSets

CONSTANTS Closers   \* goroutines that end the session

VARIABLES
    offerer, signalled, genuine,   \* the call: who offers, whether the fingerprint is
                                   \* known before the handshake, who the peer is
    state, failed, remoteSet, kept, verified, ready, closedCh,     \* the leg
    open, ports,                                                   \* what exists; ports held
    epc, spc, cpc, snap,           \* establish, Session.Start, closers and their snapshot
    sess, relays, media            \* the session; its relays run; they carried media

vars == <<offerer, signalled, genuine, state, failed, remoteSet, kept, verified, ready,
          closedCh, open, ports, epc, spc, cpc, snap, sess, relays, media>>
call == <<offerer, signalled, genuine>>
handles == <<kept, open>>

Establisher == "establish"
Starter == "start"
Goroutines == Closers \cup {Establisher, Starter}
Handles == {"mux", "agent", "demux"}

TypeOK ==
    /\ offerer \in BOOLEAN /\ signalled \in BOOLEAN /\ genuine \in BOOLEAN
    /\ failed \in BOOLEAN /\ remoteSet \in BOOLEAN /\ verified \in BOOLEAN /\ ready \in BOOLEAN
    /\ closedCh \in BOOLEAN /\ relays \in BOOLEAN /\ media \in BOOLEAN
    /\ state \in {"allocated", "establishing", "established", "failed", "closed"}
    /\ kept \subseteq Handles /\ open \subseteq Handles \cup {"dtls", "socket", "pair"}
    /\ ports \in [{"public", "private"} -> 0..1]
    /\ epc \in {"idle", "mux", "agent", "ice", "demux", "dtls", "certs", "keys", "publish",
                "ready", "failing", "closing", "done"}
    /\ spc \in {"idle", "wait", "err", "contexts", "failing", "running", "returned"}
    /\ cpc \in [Goroutines -> {"idle", "pair", "leg", "claimed", "released", "done"}]
    /\ snap \in [Goroutines -> SUBSET Handles]
    /\ sess \in {"allocated", "running", "closed"}

\* NewWebRTCLeg and NewWebRTCSession have succeeded.
Init ==
    /\ offerer \in BOOLEAN /\ signalled \in BOOLEAN /\ genuine \in BOOLEAN
    /\ state = "allocated" /\ failed = FALSE /\ remoteSet = ~offerer /\ kept = {}
    /\ verified = FALSE /\ ready = FALSE /\ closedCh = FALSE
    /\ open = {"socket", "pair"} /\ ports = [x \in {"public", "private"} |-> 1]
    /\ epc = "idle" /\ spc = "idle" /\ cpc = [g \in Goroutines |-> "idle"]
    /\ snap = [g \in Goroutines |-> {}] /\ sess = "allocated" /\ relays = FALSE /\ media = FALSE

\* set: closed is terminal, and closes what was not established as failed.
Set(s, err) ==
    IF state = "closed" THEN UNCHANGED <<state, failed>>
    ELSE /\ state' = s
         /\ failed' = (failed \/ err \/ (s = "closed" /\ state # "established"))

----------------------------------------------------------------------------
(* Signalling.                                                             *)

SetRemote ==
    /\ offerer /\ ~remoteSet /\ state = "allocated" /\ remoteSet' = TRUE
    /\ UNCHANGED <<call, state, failed, verified, ready, closedCh, handles, ports, epc, spc, cpc, snap, sess, relays, media>>

\* WebRTCLeg.Start claims the leg; without a remote it fails and closes.
StartLeg ==
    /\ epc = "idle" /\ state = "allocated"
    /\ IF remoteSet THEN Set("establishing", FALSE) /\ epc' = "mux"
                    ELSE Set("failed", TRUE) /\ epc' = "closing"
    /\ UNCHANGED <<call, remoteSet, verified, ready, closedCh, handles, ports, spc, cpc, snap, sess, relays, media>>

\* VerifyFingerprint, once the leg is up.
Verify ==
    /\ ready /\ ~failed /\ state = "established" /\ verified' = genuine
    /\ UNCHANGED <<call, state, failed, remoteSet, ready, closedCh, handles, ports, epc, spc, cpc, snap, sess, relays, media>>

----------------------------------------------------------------------------
(* establish.                                                              *)

KeepClosed(h) == kept' = kept \cup {h} /\ open' = open \cup {h}

\* keep: what Close can no longer see is closed at once.
Keep(h) == IF state = "closed" THEN UNCHANGED handles
           ELSE kept' = kept \cup {h} /\ open' = open \cup {h}

EstablishStays == <<call, remoteSet, ready, closedCh, ports, spc, cpc, snap, sess, relays, media>>

\* The UDP mux, the ICE agent and, once ICE has a pair, the demultiplexer.
Make(at, h, then) ==
    /\ epc = at /\ Keep(h) /\ epc' = IF state = "closed" THEN "failing" ELSE then
    /\ UNCHANGED <<EstablishStays, state, failed, verified>>

\* The agent is not built, gathering or the connectivity checks fail or are
\* cancelled, the handshake fails, nothing can be keyed.
EstablishFails ==
    /\ epc \in {"agent", "ice", "dtls", "certs", "keys"} /\ epc' = "failing"
    /\ UNCHANGED <<EstablishStays, state, failed, verified, handles>>

IceAccept ==
    /\ epc = "ice" /\ "agent" \in open /\ epc' = "demux"
    /\ UNCHANGED <<EstablishStays, state, failed, verified, handles>>

\* VerifyPeerCertificate, when the fingerprint was signalled.
Accepts == signalled => genuine

Handshake ==
    /\ epc = "dtls" /\ "demux" \in open /\ Accepts /\ epc' = "certs"
    /\ open' = open \cup {"dtls"}
    /\ UNCHANGED <<EstablishStays, state, failed, verified, kept>>

\* The goroutine that closes the DTLS connection with the leg.
DtlsReaper ==
    /\ "dtls" \in open /\ closedCh /\ open' = open \ {"dtls"}
    /\ UNCHANGED <<call, state, failed, remoteSet, kept, verified, ready, closedCh, ports, epc, spc, cpc, snap, sess, relays, media>>

Certs ==
    /\ epc = "certs" /\ epc' = IF state = "closed" THEN "failing" ELSE "keys"
    /\ UNCHANGED <<EstablishStays, state, failed, verified, handles>>

Keys ==
    /\ epc = "keys" /\ epc' = "publish" /\ verified' = (verified \/ signalled)
    /\ UNCHANGED <<EstablishStays, state, failed, handles>>

Publish ==
    /\ epc = "publish" /\ epc' = "ready" /\ Set("established", FALSE)
    /\ UNCHANGED <<EstablishStays, verified, handles>>

Ready ==
    /\ epc = "ready" /\ epc' = "done" /\ ready' = TRUE
    /\ UNCHANGED <<call, remoteSet, closedCh, ports, spc, cpc, snap, sess, relays, media, state, failed, verified, handles>>

\* The failure is published, and the leg closed.
Failing ==
    /\ epc = "failing" /\ epc' = "closing" /\ Set("failed", TRUE)
    /\ UNCHANGED <<EstablishStays, verified, handles>>

Establish ==
    \/ Make("mux", "mux", "agent") \/ Make("agent", "agent", "ice") \/ Make("demux", "demux", "dtls")
    \/ EstablishFails \/ IceAccept \/ Handshake \/ Certs \/ Keys \/ Publish \/ Ready \/ Failing

----------------------------------------------------------------------------
(* WebRTCLeg.Close and WebRTCSession.closeWith.                            *)

CloseStays == <<call, remoteSet, verified, epc, relays, media>>

\* The swap elects one closer of the session.
CloseSession(g) ==
    /\ cpc[g] = "idle" /\ (g = Starter => spc = "failing") /\ g # Establisher
    /\ sess' = "closed" /\ cpc' = [cpc EXCEPT ![g] = IF sess = "closed" THEN "done" ELSE "pair"]
    /\ UNCHANGED <<CloseStays, state, failed, ready, closedCh, handles, ports, spc, snap>>

ClosePair(g) ==
    /\ cpc[g] = "pair" /\ cpc' = [cpc EXCEPT ![g] = "leg"]
    /\ open' = open \ {"pair"} /\ ports' = [ports EXCEPT !["private"] = @ - 1]
    /\ UNCHANGED <<CloseStays, state, failed, ready, closedCh, kept, spc, snap, sess>>

\* Close claims the leg and takes its handles in one critical section.
Claim(g) ==
    /\ cpc[g] = "leg" \/ (g = Establisher /\ epc = "closing" /\ cpc[g] = "idle")
    /\ Set("closed", FALSE)
    /\ cpc' = [cpc EXCEPT ![g] = IF state = "closed" THEN "done" ELSE "claimed"]
    /\ snap' = [snap EXCEPT ![g] = kept]
    /\ UNCHANGED <<CloseStays, ready, closedCh, handles, ports, spc, sess>>

CloseHandles(g) ==
    /\ cpc[g] = "claimed" /\ cpc' = [cpc EXCEPT ![g] = "released"] /\ closedCh' = TRUE
    /\ open' = open \ (snap[g] \cup {"socket"}) /\ ports' = [ports EXCEPT !["public"] = @ - 1]
    /\ UNCHANGED <<CloseStays, state, failed, ready, kept, spc, snap, sess>>

CloseReady(g) ==
    /\ cpc[g] = "released" /\ cpc' = [cpc EXCEPT ![g] = "done"] /\ ready' = TRUE
    /\ UNCHANGED <<CloseStays, state, failed, closedCh, handles, ports, spc, snap, sess>>

Close(g) == CloseSession(g) \/ ClosePair(g) \/ Claim(g) \/ CloseHandles(g) \/ CloseReady(g)

----------------------------------------------------------------------------
(* WebRTCSession.Start and the relays.                                     *)

StartStays == <<call, state, failed, remoteSet, verified, ready, closedCh, handles, ports, epc, cpc, snap, media>>

StartSession ==
    /\ spc = "idle"
    /\ IF sess = "allocated" THEN sess' = "running" /\ spc' = "wait"
                             ELSE spc' = "returned" /\ UNCHANGED sess
    /\ UNCHANGED <<StartStays, relays>>

\* The leg is ready, the call's context ends, or the session is closed.
Wait ==
    /\ spc = "wait"
    /\ \/ ready /\ spc' = "err"
       \/ spc' = "failing"
       \/ sess = "closed" /\ spc' = "returned"
    /\ UNCHANGED <<StartStays, sess, relays>>

Err ==
    /\ spc = "err" /\ spc' = IF failed THEN "failing" ELSE "contexts"
    /\ UNCHANGED <<StartStays, sess, relays>>

Contexts ==
    /\ spc = "contexts"
    /\ IF state = "established" THEN spc' = "running" /\ relays' = TRUE
                                ELSE spc' = "failing" /\ UNCHANGED relays
    /\ UNCHANGED <<StartStays, sess>>

\* A packet, either way: only while the peer is the one signalled.
Relay ==
    /\ relays /\ {"pair", "demux"} \subseteq open /\ verified /\ media' = TRUE
    /\ UNCHANGED <<call, state, failed, remoteSet, verified, ready, closedCh, handles, ports, epc, spc, cpc, snap, sess, relays>>

\* The sockets are closed: the relays return.
RelayEnds ==
    /\ relays /\ ~({"pair", "demux"} \subseteq open) /\ relays' = FALSE
    /\ UNCHANGED <<call, state, failed, remoteSet, verified, ready, closedCh, handles, ports, epc, spc, cpc, snap, sess, media>>

Next ==
    \/ SetRemote \/ StartLeg \/ Verify \/ Establish \/ DtlsReaper
    \/ (\E g \in Goroutines : Close(g))
    \/ StartSession \/ Wait \/ Err \/ Contexts \/ Relay \/ RelayEnds

Spec == Init /\ [][Next]_vars

----------------------------------------------------------------------------
Quiet ==
    /\ epc \in {"idle", "done"} \/ cpc[Establisher] = "done"
    /\ \A g \in Goroutines : cpc[g] \in {"idle", "done"}
    /\ spc # "failing" \/ cpc[Starter] = "done"
    /\ ~(closedCh /\ "dtls" \in open)

\* However Close falls into establishment: when a closed leg's goroutines
\* have ended, every socket, agent and connection establish created is
\* closed, and no port is given back twice (keep, Close, closeWith).
LegReleases ==
    /\ state = "closed" /\ Quiet => open \subseteq {"pair"} /\ ports["public"] = 0 /\ ready
    /\ sess = "closed" /\ Quiet => open = {} /\ ports["private"] = 0

\* No media passes to or from a peer that is not the one signalled, also
\* when the fingerprint is checked only after the handshake
\* (VerifyFingerprint, mediaVerified).
OnlyVerified == media => genuine

\* Who wakes on Ready and finds an error finds every resource released
\* (Start, Close).
ReadyAfterRelease == ready /\ failed => ports["public"] = 0
=============================================================================
