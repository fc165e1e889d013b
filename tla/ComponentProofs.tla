-------------------------- MODULE ComponentProofs --------------------------
(***************************************************************************)
(* Proofs about components that have no module of proofs of their own: the *)
(* life of the server (EdgeRun), the WebRTC leg (WebRtcLeg), the REGISTER  *)
(* breaker (RegisterBreaker), the routing of in-dialog requests (InDialog), *)
(* stream connections (StreamConns), carriers (CarrierConns, CarrierRegs,  *)
(* CarrierDirectory), the shield and the other limiters (RateLimit,        *)
(* AorLocks, FrontDoor, AdminAuth), the replay of provisionals             *)
(* (ProvReplay) and the mirror (HepSender); and the invariant of           *)
(* OfferAnswerProofs carried over to the dialog the media run composes.    *)
(* The Parts modules name their state and promises; a theorem is about one *)
(* of them.                                                                *)
(***************************************************************************)
EXTENDS MediaParts, RegisterParts, DialogParts, ServiceParts, Recency, Integers, Sequences,
        FiniteSets, FiniteSetTheorems, WellFoundedInduction, TLAPS

----------------------------------------------------------------------------
(* The life of the server.                                                 *)

\* Until Run serves there is nobody to receive an INVITE, so nothing has
\* begun when a startup fails early; the table is closed before the context
\* is cancelled, so a handler in flight is refused after the sweep; and no
\* UDP socket leaves sipgo's pool.
RunBegins == rpc \in {"check", "bind"} =>
    /\ \A i \in Run!Listeners : serve[i] = "none"
    /\ ~helpers
    /\ \A h \in Handlers : hpc[h] = "idle"
RunCloses == (rpc \in {"cancel", "wait"} => closed) /\ (rpc \in {"giveUp", "gaveUp"} => gaveUp)
RunReturned == rpc = "returned" =>
    /\ Run!Drained
    /\ gaveUp \/ closed \/ \A h \in Handlers : hpc[h] = "idle"
    /\ gaveUp \/ \A h \in Handlers : hpc[h] # "call"
RunAnnounced == rpc = "announce" \/ announced => pooled = Udp \/ shutting

RunInv == Run!TypeOK /\ RunBegins /\ RunCloses /\ RunReturned /\ RunAnnounced

LEMMA RunStarts == ASSUME Run!ConstantsOK, Run!Init PROVE RunInv
<1>1. Run!TypeOK
  <2>1. /\ 0 \in 0..N
        /\ [i \in Run!Listeners |-> "none"] \in [Run!Listeners -> {"none", "run", "failed", "ended"}]
        /\ [h \in Handlers |-> "idle"] \in [Handlers -> {"idle", "arrived", "call", "done"}]
    BY DEF Run!ConstantsOK
  <2> QED
    BY <2>1, Zenon DEF Run!Init, Run!TypeOK
<1>2. RunBegins /\ RunCloses /\ RunReturned /\ RunAnnounced
  BY DEF Run!Init, RunBegins, RunCloses, RunReturned, RunAnnounced
<1> QED
  BY <1>1, <1>2 DEF RunInv

RunFlags ==
    /\ helpers \in BOOLEAN /\ shutting \in BOOLEAN /\ cancelled \in BOOLEAN
    /\ announced \in BOOLEAN /\ closed \in BOOLEAN /\ gaveUp \in BOOLEAN

LEMMA RunFlagsTyped ==
    ASSUME RunFlags, [Run!Next]_(Run!vars)
    PROVE  RunFlags'
<1> USE DEF RunFlags, Run!sockets, Run!flags
<1>1. CASE Run!Main
  <2>1. CASE Run!Check \/ Run!Bind \/ Run!StartServing
    BY <2>1, Zenon DEF Run!Check, Run!Bind, Run!StartServing
  <2>2. CASE Run!Await \/ Run!Announce
    BY <2>2, Zenon DEF Run!Await, Run!Announce
  <2>3. CASE Run!Wake \/ Run!CloseTable \/ Run!Cancel \/ Run!CloseAll
    BY <2>3, Zenon DEF Run!Wake, Run!CloseTable, Run!Close, Run!Cancel, Run!CloseAll
  <2> QED
    BY <1>1, <2>1, <2>2, <2>3 DEF Run!Main
<1>2. CASE Run!Stop \/ Run!HelpersEnd
  BY <1>2, Zenon DEF Run!Stop, Run!HelpersEnd
<1>3. CASE \E i \in Run!Listeners : Run!Socket(i)
  BY <1>3, Zenon DEF Run!Socket, Run!Pool, Run!CloseSocket, Run!ServeReturns, Run!Report
<1>4. CASE \E h \in Handlers : Run!Arrive(h) \/ Run!Begin(h) \/ Run!CallEnds(h)
  BY <1>4, Zenon DEF Run!Arrive, Run!Begin, Run!CallEnds
<1>5. CASE UNCHANGED Run!vars
  BY <1>5, Zenon DEF Run!vars
<1> QED
  BY <1>1, <1>2, <1>3, <1>4, <1>5 DEF Run!Next


RunTyped ==
    /\ rpc \in {"check", "bind", "await", "giveUp", "gaveUp", "announce", "running", "closing",
                "cancel", "wait", "closeAll", "returned"}
    /\ listening \in 0..N /\ sockets \subseteq Run!Listeners /\ pooled \subseteq Udp /\ errs \in 0..N
    /\ serve \in [Run!Listeners -> {"none", "run", "failed", "ended"}]
    /\ hpc \in [Handlers -> {"idle", "arrived", "call", "done"}]

LEMMA RunStaysTyped ==
    ASSUME Run!ConstantsOK, RunTyped, [Run!Next]_(Run!vars)
    PROVE  RunTyped'
<1> USE DEF Run!ConstantsOK, RunTyped, Run!Listeners, Run!sockets, Run!flags
<1>1. CASE Run!Main
  <2>1. CASE Run!Check
    BY <2>1 DEF Run!Check
  <2>2. CASE Run!Bind
    <3>1. listening < N => listening + 1 \in 0..N /\ listening + 1 \in 1..N
      OBVIOUS
    <3>2. listening' \in 0..N /\ sockets' \subseteq Run!Listeners
      BY <2>2, <3>1 DEF Run!Bind
    <3> QED
      BY <2>2, <3>2 DEF Run!Bind
  <2>3. CASE Run!StartServing
    BY <2>3 DEF Run!StartServing
  <2>4. CASE Run!Await
    BY <2>4 DEF Run!Await
  <2>5. CASE Run!Announce
    BY <2>5 DEF Run!Announce
  <2>6. CASE Run!Wake
    BY <2>6 DEF Run!Wake
  <2>7. CASE Run!CloseTable
    BY <2>7 DEF Run!CloseTable, Run!Close
  <2>8. CASE Run!Cancel
    BY <2>8 DEF Run!Cancel
  <2>9. CASE Run!CloseAll
    BY <2>9 DEF Run!CloseAll
  <2> QED
    BY <1>1, <2>1, <2>2, <2>3, <2>4, <2>5, <2>6, <2>7, <2>8, <2>9 DEF Run!Main
<1>2. CASE Run!Stop \/ Run!HelpersEnd
  BY <1>2 DEF Run!Stop, Run!HelpersEnd
<1>3. CASE \E i \in Run!Listeners : Run!Socket(i)
  <2> PICK i \in Run!Listeners : Run!Socket(i)
    BY <1>3
  <2>1. CASE Run!Pool(i) \/ Run!CloseSocket(i)
    BY <2>1 DEF Run!Pool, Run!CloseSocket
  <2>2. CASE Run!ServeReturns(i)
    BY <2>2 DEF Run!ServeReturns
  <2>3. CASE Run!Report(i)
    BY <2>3 DEF Run!Report, Run!Room
  <2> QED
    BY <2>1, <2>2, <2>3 DEF Run!Socket
<1>4. CASE \E h \in Handlers : Run!Arrive(h) \/ Run!Begin(h) \/ Run!CallEnds(h)
  BY <1>4 DEF Run!Arrive, Run!Begin, Run!CallEnds
<1>5. CASE UNCHANGED Run!vars
  BY <1>5 DEF Run!vars
<1> QED
  BY <1>1, <1>2, <1>3, <1>4, <1>5 DEF Run!Next

LEMMA RunBeginsKept ==
    ASSUME RunTyped, RunBegins, [Run!Next]_(Run!vars)
    PROVE  RunBegins'
<1> USE DEF RunTyped, RunBegins, Run!sockets, Run!flags
<1>1. CASE Run!Main
  BY <1>1 DEF Run!Main, Run!Check, Run!Bind, Run!StartServing, Run!Await, Run!Announce,
              Run!Wake, Run!CloseTable, Run!Close, Run!Cancel, Run!CloseAll
<1>2. CASE Run!Stop \/ Run!HelpersEnd
  BY <1>2 DEF Run!Stop, Run!HelpersEnd
<1>3. CASE \E i \in Run!Listeners : Run!Socket(i)
  BY <1>3 DEF Run!Socket, Run!Pool, Run!CloseSocket, Run!ServeReturns, Run!Report
<1>4. CASE \E h \in Handlers : Run!Arrive(h) \/ Run!Begin(h) \/ Run!CallEnds(h)
  BY <1>4 DEF Run!Arrive, Run!Begin, Run!CallEnds, Run!Listeners
<1>5. CASE UNCHANGED Run!vars
  BY <1>5 DEF Run!vars
<1> QED
  BY <1>1, <1>2, <1>3, <1>4, <1>5 DEF Run!Next

LEMMA RunClosesKept ==
    ASSUME RunTyped, RunFlags, RunCloses, RunAnnounced, [Run!Next]_(Run!vars)
    PROVE  RunCloses' /\ RunAnnounced'
<1> USE DEF RunTyped, RunFlags, RunCloses, RunAnnounced, Run!sockets, Run!flags
<1>1. CASE Run!Main
  BY <1>1 DEF Run!Main, Run!Check, Run!Bind, Run!StartServing, Run!Await, Run!Announce,
              Run!Wake, Run!CloseTable, Run!Close, Run!Cancel, Run!CloseAll
<1>2. CASE Run!Stop \/ Run!HelpersEnd
  BY <1>2 DEF Run!Stop, Run!HelpersEnd
<1>3. CASE \E i \in Run!Listeners : Run!Socket(i)
  BY <1>3 DEF Run!Socket, Run!Pool, Run!CloseSocket, Run!ServeReturns, Run!Report
<1>4. CASE \E h \in Handlers : Run!Arrive(h) \/ Run!Begin(h) \/ Run!CallEnds(h)
  BY <1>4 DEF Run!Arrive, Run!Begin, Run!CallEnds
<1>5. CASE UNCHANGED Run!vars
  BY <1>5 DEF Run!vars
<1> QED
  BY <1>1, <1>2, <1>3, <1>4, <1>5 DEF Run!Next

LEMMA RunReturnedKept ==
    ASSUME RunTyped, RunFlags, RunBegins, RunCloses, RunReturned, [Run!Next]_(Run!vars)
    PROVE  RunReturned'
<1> USE DEF RunTyped, RunFlags, RunReturned, Run!Drained, Run!sockets, Run!flags
<1>1. CASE Run!Main
  BY <1>1 DEF RunBegins, RunCloses, Run!Main, Run!Check, Run!Bind, Run!StartServing, Run!Await,
              Run!Announce, Run!Wake, Run!CloseTable, Run!Close, Run!Cancel, Run!CloseAll
<1>2. CASE Run!Stop \/ Run!HelpersEnd
  BY <1>2 DEF Run!Stop, Run!HelpersEnd
<1>3. CASE \E i \in Run!Listeners : Run!Socket(i)
  BY <1>3 DEF Run!Socket, Run!Pool, Run!CloseSocket, Run!ServeReturns, Run!Report
<1>4. CASE \E h \in Handlers : Run!Arrive(h) \/ Run!Begin(h) \/ Run!CallEnds(h)
  <2> PICK h \in Handlers : Run!Arrive(h) \/ Run!Begin(h) \/ Run!CallEnds(h)
    BY <1>4
  <2>1. CASE Run!Arrive(h)
    BY <2>1 DEF Run!Arrive
  <2>2. CASE Run!Begin(h)
    BY <2>2 DEF Run!Begin
  <2>3. CASE Run!CallEnds(h)
    BY <2>3 DEF Run!CallEnds
  <2> QED
    BY <2>1, <2>2, <2>3
<1>5. CASE UNCHANGED Run!vars
  BY <1>5 DEF Run!vars
<1> QED
  BY <1>1, <1>2, <1>3, <1>4, <1>5 DEF Run!Next

\* When Server.Run has returned nothing of it goes on, and it said it was
\* ready only when every UDP socket was pooled: for any number of listeners
\* and INVITE handlers (Run, close, closeAll, awaitUDPServing).
THEOREM RunLeavesNothing == Run!Spec => []NothingLeft
<1>1. Run!Init => RunInv
  BY RunStarts, RunAssumption
<1>2. RunInv /\ [Run!Next]_(Run!vars) => RunInv'
  <2>1. Run!TypeOK <=> RunTyped /\ RunFlags
    BY Zenon DEF Run!TypeOK, RunTyped, RunFlags
  <2>2. (Run!TypeOK <=> RunTyped /\ RunFlags)'
    BY Zenon DEF Run!TypeOK, RunTyped, RunFlags
  <2> QED
    BY <2>1, <2>2, RunAssumption, RunFlagsTyped, RunStaysTyped, RunBeginsKept, RunClosesKept,
       RunReturnedKept DEF RunInv
<1>3. RunInv => NothingLeft
  BY DEF RunInv, RunReturned, RunAnnounced, Run!NothingLeft, NothingLeft
<1> QED
  BY <1>1, <1>2, <1>3, PTL DEF Run!Spec

----------------------------------------------------------------------------
(* The WebRTC leg.                                                         *)

LegFlags ==
    /\ offerer \in BOOLEAN /\ signalled \in BOOLEAN /\ genuine \in BOOLEAN
    /\ failed \in BOOLEAN /\ remoteSet \in BOOLEAN /\ verified \in BOOLEAN /\ ready \in BOOLEAN
    /\ closedCh \in BOOLEAN /\ relays \in BOOLEAN /\ legMedia \in BOOLEAN

LegTyped ==
    /\ state \in {"allocated", "establishing", "established", "failed", "closed"}
    /\ kept \subseteq Leg!Handles /\ open \subseteq Leg!Handles \cup {"dtls", "socket", "pair"}
    /\ ports \in [{"public", "private"} -> Int]
    /\ epc \in {"idle", "mux", "agent", "ice", "demux", "dtls", "certs", "keys", "publish",
                "ready", "failing", "closing", "done"}
    /\ spc \in {"idle", "wait", "err", "contexts", "failing", "running", "returned"}
    /\ cpc \in [Leg!Goroutines -> {"idle", "pair", "leg", "claimed", "released", "done"}]
    /\ snap \in [Leg!Goroutines -> SUBSET Leg!Handles]
    /\ sess \in {"allocated", "running", "closed"}

\* One goroutine claims the leg, and its snapshot is every handle there will
\* be: keep registers none once the leg is closed. Until the claimer has
\* closed them it is still at it, and until it is past Ready as well.
LegClaimed ==
    /\ state # "closed" =>
         ~closedCh /\ \A g \in Leg!Goroutines : cpc[g] \notin {"claimed", "released"}
    /\ \A g, h \in Leg!Goroutines : cpc[g] = "claimed" /\ cpc[h] = "claimed" => g = h
    /\ \A g \in Leg!Goroutines : cpc[g] = "claimed" => snap[g] = kept /\ ~closedCh
    /\ state = "closed" /\ ~closedCh => \E g \in Leg!Goroutines : cpc[g] = "claimed"
    /\ closedCh /\ ~ready => \E g \in Leg!Goroutines : cpc[g] = "released"

\* What the leg holds before and after its handles are closed.
LegHeld ==
    /\ ports["public"] = IF closedCh THEN 0 ELSE 1
    /\ open \cap Leg!Handles \subseteq kept
    /\ closedCh => open \subseteq {"pair", "dtls"}

\* One goroutine closes the session: its private pair, then the leg.
PairClaimed ==
    /\ sess # "closed" =>
         "pair" \in open /\ \A g \in Leg!Goroutines : cpc[g] \notin {"pair", "leg"}
    /\ \A g, h \in Leg!Goroutines : cpc[g] \in {"pair", "leg"} /\ cpc[h] \in {"pair", "leg"} => g = h
    /\ \A g \in Leg!Goroutines : cpc[g] = "pair" => "pair" \in open
    /\ sess = "closed" /\ "pair" \in open => \E g \in Leg!Goroutines : cpc[g] = "pair"
    /\ "pair" \notin open => state = "closed" \/ \E g \in Leg!Goroutines : cpc[g] = "leg"
PairHeld == ports["private"] = IF "pair" \in open THEN 1 ELSE 0

\* Past the handshake a signalled fingerprint is the peer's.
PeerKnown ==
    /\ epc \in {"certs", "keys"} => Leg!Accepts
    /\ verified => genuine
    /\ legMedia => genuine

LegInv == LegFlags /\ LegTyped /\ LegClaimed /\ LegHeld /\ PairClaimed /\ PairHeld /\ PeerKnown

LEMMA LegFlagsTyped ==
    ASSUME LegFlags, [Leg!Next]_(Leg!vars)
    PROVE  LegFlags'
<1> USE DEF LegFlags, Leg!call, Leg!handles, Leg!EstablishStays, Leg!CloseStays,
            Leg!StartStays, Leg!Set
<1>1. CASE Leg!SetRemote
  BY <1>1, Zenon DEF Leg!SetRemote
<1>a. CASE Leg!StartLeg
  BY <1>a, Zenon DEF Leg!StartLeg
<1>b. CASE Leg!Verify
  BY <1>b, Zenon DEF Leg!Verify
<1>2. CASE Leg!Establish
  <2>1. CASE Leg!Make("mux", "mux", "agent")
    BY <2>1, Zenon DEF Leg!Make, Leg!Keep
  <2>2. CASE Leg!Make("agent", "agent", "ice")
    BY <2>2, Zenon DEF Leg!Make, Leg!Keep
  <2>3. CASE Leg!Make("demux", "demux", "dtls")
    BY <2>3, Zenon DEF Leg!Make, Leg!Keep
  <2>4. CASE Leg!EstablishFails
    BY <2>4, Zenon DEF Leg!EstablishFails
  <2>a. CASE Leg!IceAccept
    BY <2>a, Zenon DEF Leg!IceAccept
  <2>b. CASE Leg!Certs
    BY <2>b, Zenon DEF Leg!Certs
  <2>5. CASE Leg!Handshake
    BY <2>5, Zenon DEF Leg!Handshake
  <2>6. CASE Leg!Keys \/ Leg!Ready
    BY <2>6, Zenon DEF Leg!Keys, Leg!Ready
  <2>7. CASE Leg!Publish
    BY <2>7, Zenon DEF Leg!Publish
  <2>8. CASE Leg!Failing
    BY <2>8, Zenon DEF Leg!Failing
  <2> QED
    BY <1>2, <2>1, <2>2, <2>3, <2>4, <2>5, <2>6, <2>7, <2>8, <2>a, <2>b DEF Leg!Establish
<1>3. CASE Leg!DtlsReaper
  BY <1>3, Zenon DEF Leg!DtlsReaper
<1>4. CASE \E g \in Leg!Goroutines : Leg!Close(g)
  <2> PICK g \in Leg!Goroutines : Leg!Close(g)
    BY <1>4
  <2>1. CASE Leg!CloseSession(g)
    BY <2>1, Zenon DEF Leg!CloseSession
  <2>2. CASE Leg!ClosePair(g)
    BY <2>2, Zenon DEF Leg!ClosePair
  <2>3. CASE Leg!Claim(g)
    BY <2>3, Zenon DEF Leg!Claim
  <2>4. CASE Leg!CloseHandles(g)
    BY <2>4, Zenon DEF Leg!CloseHandles
  <2>5. CASE Leg!CloseReady(g)
    BY <2>5, Zenon DEF Leg!CloseReady
  <2> QED
    BY <2>1, <2>2, <2>3, <2>4, <2>5 DEF Leg!Close
<1>5. CASE Leg!StartSession \/ Leg!Wait \/ Leg!Err \/ Leg!Contexts \/ Leg!Relay \/ Leg!RelayEnds
  <2>1. CASE Leg!StartSession
    BY <2>1, Zenon DEF Leg!StartSession
  <2>2. CASE Leg!Wait
    BY <2>2, Zenon DEF Leg!Wait
  <2>3. CASE Leg!Err
    BY <2>3, Zenon DEF Leg!Err
  <2>4. CASE Leg!Contexts
    BY <2>4, Zenon DEF Leg!Contexts
  <2>5. CASE Leg!Relay
    BY <2>5, Zenon DEF Leg!Relay
  <2>6. CASE Leg!RelayEnds
    BY <2>6, Zenon DEF Leg!RelayEnds
  <2> QED
    BY <1>5, <2>1, <2>2, <2>3, <2>4, <2>5, <2>6
<1>6. CASE UNCHANGED Leg!vars
  BY <1>6, Zenon DEF Leg!vars
<1> QED
  BY <1>1, <1>a, <1>b, <1>2, <1>3, <1>4, <1>5, <1>6 DEF Leg!Next

LEMMA LegStaysTyped ==
    ASSUME LegTyped, [Leg!Next]_(Leg!vars)
    PROVE  LegTyped'
<1> USE DEF LegTyped, Leg!Handles, Leg!call, Leg!handles, Leg!EstablishStays,
            Leg!CloseStays, Leg!StartStays, Leg!Set
<1>1. CASE Leg!SetRemote
  BY <1>1 DEF Leg!SetRemote
<1>a. CASE Leg!StartLeg
  BY <1>a DEF Leg!StartLeg
<1>b. CASE Leg!Verify
  BY <1>b DEF Leg!Verify
<1>2. CASE Leg!Establish
  <2>1. CASE Leg!Make("mux", "mux", "agent")
    BY <2>1 DEF Leg!Make, Leg!Keep
  <2>2. CASE Leg!Make("agent", "agent", "ice")
    BY <2>2 DEF Leg!Make, Leg!Keep
  <2>3. CASE Leg!Make("demux", "demux", "dtls")
    BY <2>3 DEF Leg!Make, Leg!Keep
  <2>4. CASE Leg!EstablishFails \/ Leg!IceAccept \/ Leg!Certs
    BY <2>4 DEF Leg!EstablishFails, Leg!IceAccept, Leg!Certs
  <2>5. CASE Leg!Handshake
    BY <2>5 DEF Leg!Handshake
  <2>6. CASE Leg!Keys \/ Leg!Ready
    BY <2>6 DEF Leg!Keys, Leg!Ready
  <2>7. CASE Leg!Publish
    BY <2>7 DEF Leg!Publish
  <2>8. CASE Leg!Failing
    BY <2>8 DEF Leg!Failing
  <2> QED
    BY <1>2, <2>1, <2>2, <2>3, <2>4, <2>5, <2>6, <2>7, <2>8 DEF Leg!Establish
<1>3. CASE Leg!DtlsReaper
  BY <1>3 DEF Leg!DtlsReaper
<1>4. CASE \E g \in Leg!Goroutines : Leg!Close(g)
  <2> PICK g \in Leg!Goroutines : Leg!Close(g)
    BY <1>4
  <2>1. CASE Leg!CloseSession(g)
    BY <2>1 DEF Leg!CloseSession
  <2>2. CASE Leg!ClosePair(g)
    BY <2>2 DEF Leg!ClosePair
  <2>3. CASE Leg!Claim(g)
    BY <2>3 DEF Leg!Claim
  <2>4. CASE Leg!CloseHandles(g)
    <3>1. open' \subseteq open /\ UNCHANGED <<state, kept, epc, spc, snap, sess>>
      BY <2>4, Zenon DEF Leg!CloseHandles
    <3>2. /\ ports' \in [{"public", "private"} -> Int]
          /\ cpc' \in [Leg!Goroutines -> {"idle", "pair", "leg", "claimed", "released", "done"}]
      BY <2>4 DEF Leg!CloseHandles
    <3> QED
      BY <3>1, <3>2
  <2>5. CASE Leg!CloseReady(g)
    BY <2>5 DEF Leg!CloseReady
  <2> QED
    BY <2>1, <2>2, <2>3, <2>4, <2>5 DEF Leg!Close
<1>5. CASE Leg!StartSession \/ Leg!Wait \/ Leg!Err \/ Leg!Contexts \/ Leg!Relay \/ Leg!RelayEnds
  <2>1. CASE Leg!StartSession
    BY <2>1 DEF Leg!StartSession
  <2>2. CASE Leg!Wait
    BY <2>2 DEF Leg!Wait
  <2>3. CASE Leg!Err
    BY <2>3 DEF Leg!Err
  <2>4. CASE Leg!Contexts
    BY <2>4 DEF Leg!Contexts
  <2>5. CASE Leg!Relay
    BY <2>5 DEF Leg!Relay
  <2>6. CASE Leg!RelayEnds
    BY <2>6 DEF Leg!RelayEnds
  <2> QED
    BY <1>5, <2>1, <2>2, <2>3, <2>4, <2>5, <2>6
<1>6. CASE UNCHANGED Leg!vars
  BY <1>6 DEF Leg!vars
<1> QED
  BY <1>1, <1>a, <1>b, <1>2, <1>3, <1>4, <1>5, <1>6 DEF Leg!Next

LEMMA LegClaimedKept ==
    ASSUME LegFlags, LegTyped, LegClaimed, [Leg!Next]_(Leg!vars)
    PROVE  LegClaimed'
<1> USE DEF LegTyped, LegFlags, LegClaimed, Leg!call, Leg!handles, Leg!EstablishStays,
            Leg!CloseStays, Leg!StartStays, Leg!Set
<1>1. CASE Leg!SetRemote \/ Leg!StartLeg \/ Leg!Verify
  BY <1>1 DEF Leg!SetRemote, Leg!StartLeg, Leg!Verify
<1>2. CASE Leg!Establish
  <2>1. CASE Leg!Make("mux", "mux", "agent")
    BY <2>1 DEF Leg!Make, Leg!Keep
  <2>2. CASE Leg!Make("agent", "agent", "ice")
    BY <2>2 DEF Leg!Make, Leg!Keep
  <2>3. CASE Leg!Make("demux", "demux", "dtls")
    BY <2>3 DEF Leg!Make, Leg!Keep
  <2>4. CASE Leg!EstablishFails \/ Leg!IceAccept \/ Leg!Certs
    BY <2>4 DEF Leg!EstablishFails, Leg!IceAccept, Leg!Certs
  <2>5. CASE Leg!Handshake
    BY <2>5 DEF Leg!Handshake
  <2>6. CASE Leg!Keys \/ Leg!Ready
    BY <2>6 DEF Leg!Keys, Leg!Ready
  <2>7. CASE Leg!Publish
    BY <2>7 DEF Leg!Publish
  <2>8. CASE Leg!Failing
    BY <2>8 DEF Leg!Failing
  <2> QED
    BY <1>2, <2>1, <2>2, <2>3, <2>4, <2>5, <2>6, <2>7, <2>8 DEF Leg!Establish
<1>3. CASE Leg!DtlsReaper
  BY <1>3 DEF Leg!DtlsReaper
<1>4. CASE \E g \in Leg!Goroutines : Leg!Close(g)
  <2> PICK g \in Leg!Goroutines : Leg!Close(g)
    BY <1>4
  <2>1. CASE Leg!CloseSession(g)
    BY <2>1 DEF Leg!CloseSession
  <2>2. CASE Leg!ClosePair(g)
    BY <2>2 DEF Leg!ClosePair
  <2>3. CASE Leg!Claim(g)
    BY <2>3 DEF Leg!Claim
  <2>4. CASE Leg!CloseHandles(g)
    BY <2>4 DEF Leg!CloseHandles
  <2>5. CASE Leg!CloseReady(g)
    BY <2>5 DEF Leg!CloseReady
  <2> QED
    BY <2>1, <2>2, <2>3, <2>4, <2>5 DEF Leg!Close
<1>5. CASE Leg!StartSession \/ Leg!Wait \/ Leg!Err \/ Leg!Contexts \/ Leg!Relay \/ Leg!RelayEnds
  BY <1>5 DEF Leg!StartSession, Leg!Wait, Leg!Err, Leg!Contexts, Leg!Relay, Leg!RelayEnds
<1>6. CASE UNCHANGED Leg!vars
  BY <1>6 DEF Leg!vars
<1> QED
  BY <1>1, <1>2, <1>3, <1>4, <1>5, <1>6 DEF Leg!Next

LEMMA LegHeldKept ==
    ASSUME LegFlags, LegTyped, LegClaimed, LegHeld, [Leg!Next]_(Leg!vars)
    PROVE  LegHeld'
<1> USE DEF LegTyped, LegFlags, LegClaimed, LegHeld, Leg!Handles, Leg!call, Leg!handles,
            Leg!EstablishStays, Leg!CloseStays, Leg!StartStays, Leg!Set
<1>1. CASE Leg!SetRemote \/ Leg!StartLeg \/ Leg!Verify
  BY <1>1 DEF Leg!SetRemote, Leg!StartLeg, Leg!Verify
<1>2. CASE Leg!Establish
  <2>1. CASE Leg!Make("mux", "mux", "agent")
    BY <2>1 DEF Leg!Make, Leg!Keep
  <2>2. CASE Leg!Make("agent", "agent", "ice")
    BY <2>2 DEF Leg!Make, Leg!Keep
  <2>3. CASE Leg!Make("demux", "demux", "dtls")
    BY <2>3 DEF Leg!Make, Leg!Keep
  <2>4. CASE Leg!EstablishFails \/ Leg!IceAccept \/ Leg!Certs
    <3>1. UNCHANGED <<ports, closedCh, open, kept>>
      BY <2>4, Zenon DEF Leg!EstablishFails, Leg!IceAccept, Leg!Certs
    <3> QED
      BY <3>1
  <2>5. CASE Leg!Handshake
    BY <2>5 DEF Leg!Handshake
  <2>6. CASE Leg!Keys \/ Leg!Ready
    <3>1. UNCHANGED <<ports, closedCh, open, kept>>
      BY <2>6, Zenon DEF Leg!Keys, Leg!Ready
    <3> QED
      BY <3>1
  <2>7. CASE Leg!Publish
    BY <2>7 DEF Leg!Publish
  <2>8. CASE Leg!Failing
    BY <2>8 DEF Leg!Failing
  <2> QED
    BY <1>2, <2>1, <2>2, <2>3, <2>4, <2>5, <2>6, <2>7, <2>8 DEF Leg!Establish
<1>3. CASE Leg!DtlsReaper
  BY <1>3 DEF Leg!DtlsReaper
<1>4. CASE \E g \in Leg!Goroutines : Leg!Close(g)
  <2> PICK g \in Leg!Goroutines : Leg!Close(g)
    BY <1>4
  <2>1. CASE Leg!CloseSession(g)
    BY <2>1 DEF Leg!CloseSession
  <2>2. CASE Leg!ClosePair(g)
    BY <2>2 DEF Leg!ClosePair
  <2>3. CASE Leg!Claim(g)
    BY <2>3 DEF Leg!Claim
  <2>4. CASE Leg!CloseHandles(g)
    <3>1. ~closedCh /\ snap[g] = kept
      BY <2>4 DEF Leg!CloseHandles
    <3>2. closedCh' /\ ports'["public"] = 0 /\ kept' = kept
      BY <2>4, <3>1 DEF Leg!CloseHandles
    <3>3. open' = open \ (kept \cup {"socket"})
      BY <2>4, <3>1 DEF Leg!CloseHandles
    <3>4. open' \subseteq {"pair", "dtls"} /\ open' \cap Leg!Handles \subseteq kept
      BY <3>3
    <3> QED
      BY <3>2, <3>4
  <2>5. CASE Leg!CloseReady(g)
    BY <2>5 DEF Leg!CloseReady
  <2> QED
    BY <2>1, <2>2, <2>3, <2>4, <2>5 DEF Leg!Close
<1>5. CASE Leg!StartSession \/ Leg!Wait \/ Leg!Err \/ Leg!Contexts \/ Leg!Relay \/ Leg!RelayEnds
  <2>1. UNCHANGED <<ports, closedCh, open, kept>>
    BY <1>5, Zenon DEF Leg!StartSession, Leg!Wait, Leg!Err, Leg!Contexts, Leg!Relay, Leg!RelayEnds
  <2> QED
    BY <2>1
<1>6. CASE UNCHANGED Leg!vars
  BY <1>6 DEF Leg!vars
<1> QED
  BY <1>1, <1>2, <1>3, <1>4, <1>5, <1>6 DEF Leg!Next

LEMMA PairClaimedKept ==
    ASSUME LegTyped, PairClaimed, [Leg!Next]_(Leg!vars)
    PROVE  PairClaimed'
<1> USE DEF LegTyped, PairClaimed, Leg!Handles, Leg!call, Leg!handles, Leg!EstablishStays,
            Leg!CloseStays, Leg!StartStays, Leg!Set
<1>1. CASE Leg!SetRemote \/ Leg!StartLeg \/ Leg!Verify
  BY <1>1 DEF Leg!SetRemote, Leg!StartLeg, Leg!Verify
<1>2. CASE Leg!Establish
  <2>1. CASE Leg!Make("mux", "mux", "agent")
    BY <2>1 DEF Leg!Make, Leg!Keep
  <2>2. CASE Leg!Make("agent", "agent", "ice")
    BY <2>2 DEF Leg!Make, Leg!Keep
  <2>3. CASE Leg!Make("demux", "demux", "dtls")
    BY <2>3 DEF Leg!Make, Leg!Keep
  <2>4. CASE Leg!EstablishFails \/ Leg!IceAccept \/ Leg!Certs
    BY <2>4 DEF Leg!EstablishFails, Leg!IceAccept, Leg!Certs
  <2>5. CASE Leg!Handshake
    BY <2>5 DEF Leg!Handshake
  <2>6. CASE Leg!Keys \/ Leg!Ready
    BY <2>6 DEF Leg!Keys, Leg!Ready
  <2>7. CASE Leg!Publish
    BY <2>7 DEF Leg!Publish
  <2>8. CASE Leg!Failing
    BY <2>8 DEF Leg!Failing
  <2> QED
    BY <1>2, <2>1, <2>2, <2>3, <2>4, <2>5, <2>6, <2>7, <2>8 DEF Leg!Establish
<1>3. CASE Leg!DtlsReaper
  BY <1>3 DEF Leg!DtlsReaper
<1>4. CASE \E g \in Leg!Goroutines : Leg!Close(g)
  <2> PICK g \in Leg!Goroutines : Leg!Close(g)
    BY <1>4
  <2>1. CASE Leg!CloseSession(g)
    BY <2>1 DEF Leg!CloseSession
  <2>2. CASE Leg!ClosePair(g)
    BY <2>2 DEF Leg!ClosePair
  <2>3. CASE Leg!Claim(g)
    BY <2>3 DEF Leg!Claim
  <2>4. CASE Leg!CloseHandles(g)
    BY <2>4 DEF Leg!CloseHandles
  <2>5. CASE Leg!CloseReady(g)
    BY <2>5 DEF Leg!CloseReady
  <2> QED
    BY <2>1, <2>2, <2>3, <2>4, <2>5 DEF Leg!Close
<1>5. CASE Leg!StartSession \/ Leg!Wait \/ Leg!Err \/ Leg!Contexts \/ Leg!Relay \/ Leg!RelayEnds
  BY <1>5 DEF Leg!StartSession, Leg!Wait, Leg!Err, Leg!Contexts, Leg!Relay, Leg!RelayEnds
<1>6. CASE UNCHANGED Leg!vars
  BY <1>6 DEF Leg!vars
<1> QED
  BY <1>1, <1>2, <1>3, <1>4, <1>5, <1>6 DEF Leg!Next

LEMMA PairHeldKept ==
    ASSUME LegTyped, PairClaimed, PairHeld, [Leg!Next]_(Leg!vars)
    PROVE  PairHeld'
<1> USE DEF LegTyped, PairClaimed, PairHeld, Leg!Handles, Leg!call, Leg!handles,
            Leg!EstablishStays, Leg!CloseStays, Leg!StartStays, Leg!Set
<1>1. CASE Leg!SetRemote \/ Leg!StartLeg \/ Leg!Verify
  BY <1>1 DEF Leg!SetRemote, Leg!StartLeg, Leg!Verify
<1>2. CASE Leg!Establish
  <2>1. CASE Leg!Make("mux", "mux", "agent")
    BY <2>1 DEF Leg!Make, Leg!Keep
  <2>2. CASE Leg!Make("agent", "agent", "ice")
    BY <2>2 DEF Leg!Make, Leg!Keep
  <2>3. CASE Leg!Make("demux", "demux", "dtls")
    BY <2>3 DEF Leg!Make, Leg!Keep
  <2>4. CASE Leg!EstablishFails \/ Leg!IceAccept \/ Leg!Certs
    BY <2>4 DEF Leg!EstablishFails, Leg!IceAccept, Leg!Certs
  <2>5. CASE Leg!Handshake
    BY <2>5 DEF Leg!Handshake
  <2>6. CASE Leg!Keys \/ Leg!Ready
    BY <2>6 DEF Leg!Keys, Leg!Ready
  <2>7. CASE Leg!Publish
    BY <2>7 DEF Leg!Publish
  <2>8. CASE Leg!Failing
    BY <2>8 DEF Leg!Failing
  <2> QED
    BY <1>2, <2>1, <2>2, <2>3, <2>4, <2>5, <2>6, <2>7, <2>8 DEF Leg!Establish
<1>3. CASE Leg!DtlsReaper
  BY <1>3 DEF Leg!DtlsReaper
<1>4. CASE \E g \in Leg!Goroutines : Leg!Close(g)
  <2> PICK g \in Leg!Goroutines : Leg!Close(g)
    BY <1>4
  <2>1. CASE Leg!CloseSession(g)
    BY <2>1 DEF Leg!CloseSession
  <2>2. CASE Leg!ClosePair(g)
    BY <2>2 DEF Leg!ClosePair
  <2>3. CASE Leg!Claim(g)
    BY <2>3 DEF Leg!Claim
  <2>4. CASE Leg!CloseHandles(g)
    BY <2>4 DEF Leg!CloseHandles
  <2>5. CASE Leg!CloseReady(g)
    BY <2>5 DEF Leg!CloseReady
  <2> QED
    BY <2>1, <2>2, <2>3, <2>4, <2>5 DEF Leg!Close
<1>5. CASE Leg!StartSession \/ Leg!Wait \/ Leg!Err \/ Leg!Contexts \/ Leg!Relay \/ Leg!RelayEnds
  BY <1>5 DEF Leg!StartSession, Leg!Wait, Leg!Err, Leg!Contexts, Leg!Relay, Leg!RelayEnds
<1>6. CASE UNCHANGED Leg!vars
  BY <1>6 DEF Leg!vars
<1> QED
  BY <1>1, <1>2, <1>3, <1>4, <1>5, <1>6 DEF Leg!Next

LEMMA PeerKnownKept ==
    ASSUME LegFlags, PeerKnown, [Leg!Next]_(Leg!vars)
    PROVE  PeerKnown'
<1> USE DEF LegFlags, PeerKnown, Leg!Accepts, Leg!call, Leg!handles, Leg!EstablishStays,
            Leg!CloseStays, Leg!StartStays, Leg!Set
<1>1. CASE Leg!SetRemote \/ Leg!StartLeg \/ Leg!Verify
  BY <1>1 DEF Leg!SetRemote, Leg!StartLeg, Leg!Verify
<1>2. CASE Leg!Establish
  BY <1>2 DEF Leg!Establish, Leg!Make, Leg!Keep, Leg!EstablishFails, Leg!IceAccept,
              Leg!Handshake, Leg!Certs, Leg!Keys, Leg!Publish, Leg!Ready, Leg!Failing
<1>3. CASE Leg!DtlsReaper
  BY <1>3 DEF Leg!DtlsReaper
<1>4. CASE \E g \in Leg!Goroutines : Leg!Close(g)
  BY <1>4 DEF Leg!Close, Leg!CloseSession, Leg!ClosePair, Leg!Claim, Leg!CloseHandles,
              Leg!CloseReady
<1>5. CASE Leg!StartSession \/ Leg!Wait \/ Leg!Err \/ Leg!Contexts \/ Leg!Relay \/ Leg!RelayEnds
  BY <1>5 DEF Leg!StartSession, Leg!Wait, Leg!Err, Leg!Contexts, Leg!Relay, Leg!RelayEnds
<1>6. CASE UNCHANGED Leg!vars
  BY <1>6 DEF Leg!vars
<1> QED
  BY <1>1, <1>2, <1>3, <1>4, <1>5, <1>6 DEF Leg!Next

\* However many goroutines close a WebRTC session, and wherever in its
\* establishment: when they and establish have ended nothing is left open, no
\* port was given back twice, and only the signalled peer's media passed
\* (WebRTCLeg.Close, keep, WebRTCSession.closeWith, VerifyFingerprint).
THEOREM ClosedLegHoldsNothing == Leg!Spec => []LegReleases
<1>1. Leg!Init => LegInv
  <2> SUFFICES ASSUME Leg!Init PROVE LegInv
    OBVIOUS
  <2>1. LegFlags
    BY Zenon DEF Leg!Init, LegFlags
  <2>2. LegTyped /\ LegClaimed /\ LegHeld /\ PairClaimed /\ PairHeld
    BY DEF Leg!Init, Leg!Handles, LegTyped, LegClaimed, LegHeld, PairClaimed, PairHeld
  <2>3. PeerKnown
    BY DEF Leg!Init, PeerKnown
  <2> QED
    BY <2>1, <2>2, <2>3 DEF LegInv
<1>2. LegInv /\ [Leg!Next]_(Leg!vars) => LegInv'
  BY LegFlagsTyped, LegStaysTyped, LegClaimedKept, LegHeldKept, PairClaimedKept, PairHeldKept,
     PeerKnownKept DEF LegInv
<1>3. LegInv => LegReleases
  <2> SUFFICES ASSUME LegInv PROVE Leg!TypeOK /\ Leg!LegReleases /\ Leg!OnlyVerified
    BY DEF LegReleases
  <2> USE DEF LegInv
  <2>1. ports \in [{"public", "private"} -> 0..1]
    BY DEF LegTyped, LegHeld, PairHeld
  <2>2. Leg!TypeOK
    BY <2>1, Zenon DEF LegFlags, LegTyped, Leg!TypeOK
  <2>3. state = "closed" /\ Leg!Quiet => open \subseteq {"pair"} /\ ports["public"] = 0 /\ ready
    BY DEF LegClaimed, LegHeld, Leg!Quiet
  <2>4. sess = "closed" /\ Leg!Quiet => "pair" \notin open /\ ports["private"] = 0 /\ state = "closed"
    BY DEF PairClaimed, PairHeld, Leg!Quiet
  <2>5. Leg!LegReleases
    BY <2>3, <2>4 DEF Leg!LegReleases
  <2> QED
    BY <2>2, <2>5 DEF PeerKnown, Leg!OnlyVerified
<1> QED
  BY <1>1, <1>2, <1>3, PTL DEF Leg!Spec

----------------------------------------------------------------------------
(* The REGISTER breaker.                                                   *)

\* An instance has its own copy of the library's operators.
LEMMA SameCardinality == \A S : Breaker!Cardinality(S) = Cardinality(S)
  BY DEF Cardinality, Breaker!Cardinality
LEMMA SameFinite == \A S : Breaker!IsFiniteSet(S) <=> IsFiniteSet(S)
  BY DEF IsFiniteSet, Breaker!IsFiniteSet

\* A probe of the present opening is a REGISTER on its way to an open node,
\* within the time the table grants it; and it is the only one there with
\* budget left. A probe not sent yet whose opening is over finds the breaker
\* closed or within its next window, and nobody else probing: its release
\* takes the slot from no one.
ProbeCounted == \A u \in current :
    /\ u \in probe /\ node[u] \in opened /\ regPc[u] \in {"send", "wait"}
    /\ left[u] <= probeBy[node[u]]
ProbeAlone == \A u, v \in current : node[u] = node[v] /\ left[u] > 0 /\ left[v] > 0 => u = v
SendTakesNoTime == \A u \in Users : regPc[u] = "send" => left[u] > 0
StaleProbeHarmless == \A u \in probe \ current : regPc[u] = "send" =>
    /\ node[u] \notin opened \/ window[node[u]] > 0
    /\ \A v \in current : node[v] # node[u]

BreakerInv ==
    Breaker!TypeOK /\ ProbeCounted /\ ProbeAlone /\ SendTakesNoTime /\ StaleProbeHarmless

\* What RegisterUnanswered does to the table: it counts, and opens the
\* breaker for a while or leaves it alone; a probe's failure always opens.
LEMMA UnansweredEffect ==
    ASSUME Breaker!ConstantsOK, Breaker!TypeOK, NEW n \in Nodes, NEW p \in BOOLEAN,
           Breaker!Unanswered(n, p)
    PROVE  /\ \E f \in 0..Threshold : fails' = [fails EXCEPT ![n] = f]
           /\ \/ /\ \E l \in 0..Len(Windows) : level' = [level EXCEPT ![n] = l]
                 /\ \E w \in Nat \ {0} : window' = [window EXCEPT ![n] = w]
                 /\ opened' = opened \cup {n} /\ probeBy' = [probeBy EXCEPT ![n] = 0]
                 /\ current' = current \ Breaker!On(n)
              \/ /\ UNCHANGED <<opened, level, window, probeBy, current>>
                 /\ ~(n \in opened /\ p)
<1> DEFINE f == IF fails[n] < Threshold THEN fails[n] + 1 ELSE fails[n]
           l == IF level[n] < Len(Windows) THEN level[n] + 1 ELSE level[n]
           opens == (n \in opened /\ p) \/ (n \notin opened /\ f >= Threshold)
<1>a. fails[n] \in 0..Threshold /\ level[n] \in 0..Len(Windows)
  BY Zenon DEF Breaker!TypeOK
<1>b. Threshold \in Nat /\ Len(Windows) \in Nat /\ Len(Windows) # 0
  BY DEF Breaker!ConstantsOK
<1>1. f \in 0..Threshold
  BY <1>a, <1>b
<1>2. l \in 1..Len(Windows) /\ l \in 0..Len(Windows)
  BY <1>a, <1>b
<1>3. Windows[l] \in Nat \ {0}
  BY <1>2 DEF Breaker!ConstantsOK
<1>4. /\ fails' = [fails EXCEPT ![n] = f]
      /\ IF opens
         THEN /\ opened' = opened \cup {n} /\ level' = [level EXCEPT ![n] = l]
              /\ window' = [window EXCEPT ![n] = Windows[l]]
              /\ probeBy' = [probeBy EXCEPT ![n] = 0]
              /\ current' = current \ Breaker!On(n)
         ELSE UNCHANGED <<opened, level, window, probeBy, current>>
  BY Zenon DEF Breaker!Unanswered
<1>5. CASE opens
  BY <1>1, <1>2, <1>3, <1>4, <1>5, Zenon
<1>6. CASE ~opens
  BY <1>1, <1>4, <1>6, Zenon
<1> QED
  BY <1>5, <1>6

\* What RegisterAnswered does to it.
LEMMA AnsweredEffect ==
    ASSUME NEW n \in Nodes, Breaker!Answered(n)
    PROVE  /\ fails' = [fails EXCEPT ![n] = 0] /\ level' = [level EXCEPT ![n] = 0]
           /\ window' = [window EXCEPT ![n] = 0] /\ probeBy' = [probeBy EXCEPT ![n] = 0]
           /\ opened' = opened \ {n} /\ current' = current \ Breaker!On(n)
  BY DEF Breaker!Answered

\* The two halves of the state: cooldownTable, and the series of REGISTERs.
TableTyped ==
    /\ up \subseteq Nodes /\ cool \in [Nodes -> 0..Cooldown]
    /\ fails \in [Nodes -> 0..Threshold] /\ level \in [Nodes -> 0..Len(Windows)]
    /\ opened \subseteq Nodes /\ window \in [Nodes -> Nat] /\ probeBy \in [Nodes -> 0..Budget]
SeriesTyped ==
    /\ regPc \in [Users -> {"ready", "idle", "next", "send", "wait"}]
    /\ order \in [Users -> Seq(Nodes)] /\ node \in [Users -> Nodes]
    /\ probe \subseteq Users /\ dialed \subseteq Users /\ current \subseteq Users
    /\ left \in [Users -> 0..Budget]
    /\ result \in [Users -> {"none", "final", "local503", "503", "504"}]

LEMMA TypedHalves == Breaker!TypeOK <=> TableTyped /\ SeriesTyped
  BY DEF Breaker!TypeOK, TableTyped, SeriesTyped

LEMMA UnansweredTyped ==
    ASSUME Breaker!ConstantsOK, Breaker!TypeOK, NEW n \in Nodes, NEW p \in BOOLEAN,
           Breaker!Unanswered(n, p), UNCHANGED up, Breaker!Penalize(n)
    PROVE  TableTyped' /\ current' \subseteq current
<1>1. PICK f \in 0..Threshold : fails' = [fails EXCEPT ![n] = f]
  BY UnansweredEffect, Zenon
<1>2. cool' = [cool EXCEPT ![n] = Cooldown] /\ Cooldown \in 0..Cooldown
  BY DEF Breaker!Penalize, Breaker!ConstantsOK
<1>3. CASE UNCHANGED <<opened, level, window, probeBy, current>>
  BY <1>1, <1>2, <1>3 DEF Breaker!TypeOK, TableTyped
<1>4. CASE ~UNCHANGED <<opened, level, window, probeBy, current>>
  <2>1. /\ \E l \in 0..Len(Windows) : level' = [level EXCEPT ![n] = l]
        /\ \E w \in Nat \ {0} : window' = [window EXCEPT ![n] = w]
        /\ opened' = opened \cup {n} /\ probeBy' = [probeBy EXCEPT ![n] = 0]
        /\ current' = current \ Breaker!On(n)
    BY <1>4, UnansweredEffect, Zenon
  <2>2. level' \in [Nodes -> 0..Len(Windows)] /\ window' \in [Nodes -> Nat]
    BY <2>1 DEF Breaker!TypeOK
  <2>3. 0 \in 0..Budget
    BY DEF Breaker!ConstantsOK
  <2> QED
    BY <1>1, <1>2, <2>1, <2>2, <2>3 DEF Breaker!TypeOK, TableTyped
<1> QED
  BY <1>3, <1>4

LEMMA AnsweredTyped ==
    ASSUME Breaker!ConstantsOK, Breaker!TypeOK, NEW n \in Nodes, Breaker!Answered(n), UNCHANGED up,
           cool' = cool \/ cool' = [cool EXCEPT ![n] = 0]
    PROVE  TableTyped' /\ current' \subseteq current
<1>1. 0 \in 0..Cooldown /\ 0 \in 0..Threshold /\ 0 \in 0..Len(Windows) /\ 0 \in Nat /\ 0 \in 0..Budget
  BY DEF Breaker!ConstantsOK
<1>2. cool' \in [Nodes -> 0..Cooldown]
  BY <1>1 DEF Breaker!TypeOK
<1>3. current' \subseteq current /\ opened' \subseteq opened
  BY AnsweredEffect
<1>4. /\ fails' = [fails EXCEPT ![n] = 0] /\ level' = [level EXCEPT ![n] = 0]
      /\ window' = [window EXCEPT ![n] = 0] /\ probeBy' = [probeBy EXCEPT ![n] = 0]
  BY AnsweredEffect
<1> QED
  BY <1>1, <1>2, <1>3, <1>4 DEF Breaker!TypeOK, TableTyped

LEMMA OverTyped ==
    ASSUME Breaker!ConstantsOK, SeriesTyped, NEW u \in Users,
           NEW r \in {"final", "local503", "503", "504"}, Breaker!Over(u, r), UNCHANGED node,
           current' \subseteq current
    PROVE  SeriesTyped'
<1> USE DEF SeriesTyped, Breaker!Over, Breaker!Goto, Breaker!ConstantsOK
<1>1. <<>> \in Seq(Nodes) /\ 0 \in 0..Budget
  OBVIOUS
<1> QED
  BY <1>1

LEMMA BreakerTyped ==
    ASSUME Breaker!ConstantsOK, Breaker!TypeOK, [Breaker!Next]_(Breaker!vars)
    PROVE  Breaker!TypeOK'
<1> USE DEF Breaker!breaker, Breaker!series
<1> SUFFICES TableTyped' /\ SeriesTyped'
  BY TypedHalves, PTL
<1>0. TableTyped /\ SeriesTyped
  BY TypedHalves
<1>1. ASSUME NEW u \in Users, Breaker!Start(u) PROVE TableTyped' /\ SeriesTyped'
  <2>1. PICK o \in Breaker!DialOrders(u) : order' = [order EXCEPT ![u] = o]
    BY <1>1 DEF Breaker!Start
  <2>2. Cardinality(Nodes) \in Nat
    BY FS_CardinalityType, SameFinite, Zenon DEF Breaker!ConstantsOK
  <2>5. o \in [1..Cardinality(Nodes) -> Nodes]
    BY <2>1, SameCardinality DEF Breaker!DialOrders
  <2>3. o \in Seq(Nodes) /\ Budget \in 0..Budget
    BY <2>2, <2>5 DEF Breaker!ConstantsOK
  <2>4. SeriesTyped'
    BY <1>0, <1>1, <2>1, <2>3 DEF Breaker!Start, Breaker!Goto, SeriesTyped
  <2> QED
    BY <1>0, <1>1, <2>4 DEF Breaker!Start, TableTyped
<1>2. ASSUME NEW u \in Users, Breaker!NextNode(u) PROVE TableTyped' /\ SeriesTyped'
  <2>1. Head(order[u]) \in Nodes /\ Tail(order[u]) \in Seq(Nodes) /\ Budget \in 0..Budget
    BY <1>0, <1>2 DEF Breaker!NextNode, SeriesTyped, Breaker!ConstantsOK
  <2>2. TableTyped'
    BY <1>0, <1>2, <2>1 DEF Breaker!NextNode, TableTyped
  <2>3. SeriesTyped'
    BY <1>0, <1>2, <2>1 DEF Breaker!NextNode, Breaker!Goto, SeriesTyped
  <2> QED
    BY <2>2, <2>3
<1>3. ASSUME NEW u \in Users, Breaker!Sent(u) PROVE TableTyped' /\ SeriesTyped'
  BY <1>0, <1>3 DEF Breaker!Sent, Breaker!Goto, TableTyped, SeriesTyped
<1>4. ASSUME NEW u \in Users, Breaker!NotSent(u) PROVE TableTyped' /\ SeriesTyped'
  <2>1. node[u] \in Nodes /\ (u \in probe) \in BOOLEAN /\ UNCHANGED <<up, node>>
    BY <1>0, <1>4 DEF SeriesTyped, Breaker!NotSent
  <2>2. ASSUME NEW r \in {"final", "504"}, Breaker!Release(u), Breaker!Over(u, r), UNCHANGED cool
        PROVE  TableTyped' /\ SeriesTyped'
    <3>1. current' \subseteq current /\ 0 \in 0..Budget
      BY <2>2 DEF Breaker!Release, Breaker!ConstantsOK
    <3>2. SeriesTyped'
      BY <1>0, <2>1, <2>2, <3>1, OverTyped
    <3>3. TableTyped'
      BY <1>0, <2>1, <2>2, <3>1 DEF Breaker!Release, TableTyped
    <3> QED
      BY <3>2, <3>3
  <2>3. ASSUME Breaker!Penalize(node[u]), Breaker!Unanswered(node[u], u \in probe),
               Breaker!Goto(u, "next"), probe' = probe \ {u}, UNCHANGED <<order, dialed, left, result>>
        PROVE  TableTyped' /\ SeriesTyped'
    <3>1. TableTyped' /\ current' \subseteq current
      BY <2>1, <2>3, UnansweredTyped
    <3>2. SeriesTyped'
      BY <1>0, <2>1, <2>3, <3>1 DEF SeriesTyped, Breaker!Goto
    <3> QED
      BY <3>1, <3>2
  <2> QED
    BY <1>4, <2>2, <2>3 DEF Breaker!NotSent
<1>5. ASSUME NEW u \in Users, Breaker!Pump(u) PROVE TableTyped' /\ SeriesTyped'
  <2>1. node[u] \in Nodes /\ (u \in probe) \in BOOLEAN /\ UNCHANGED <<up, node>>
    BY <1>0, <1>5 DEF SeriesTyped, Breaker!Pump
  <2>2. ASSUME Breaker!Answered(node[u]), cool' = [cool EXCEPT ![node[u]] = 0],
               Breaker!Over(u, "final")
        PROVE  TableTyped' /\ SeriesTyped'
    <3>1. TableTyped' /\ current' \subseteq current
      BY <2>1, <2>2, AnsweredTyped
    <3> QED
      BY <1>0, <2>1, <2>2, <3>1, OverTyped
  <2>3. ASSUME Breaker!Answered(node[u]), Breaker!Goto(u, "next"),
               UNCHANGED <<cool, order, probe, dialed, left, result>>
        PROVE  TableTyped' /\ SeriesTyped'
    <3>1. TableTyped' /\ current' \subseteq current
      BY <2>1, <2>3, AnsweredTyped
    <3> QED
      BY <1>0, <2>1, <2>3, <3>1 DEF SeriesTyped, Breaker!Goto
  <2>4. ASSUME Breaker!Unanswered(node[u], u \in probe), Breaker!Penalize(node[u]),
               Breaker!Goto(u, "next"), UNCHANGED <<order, probe, dialed, left, result>>
        PROVE  TableTyped' /\ SeriesTyped'
    <3>1. TableTyped' /\ current' \subseteq current
      BY <2>1, <2>4, UnansweredTyped
    <3> QED
      BY <1>0, <2>1, <2>4, <3>1 DEF SeriesTyped, Breaker!Goto
  <2> QED
    BY <1>5, <2>2, <2>3, <2>4 DEF Breaker!Pump
<1>6. ASSUME NEW u \in Users, Breaker!Finish(u) PROVE TableTyped' /\ SeriesTyped'
  <2>1. PICK r \in {"504", "local503", "503"} : Breaker!Over(u, r)
    BY <1>6 DEF Breaker!Finish
  <2>2. UNCHANGED <<up, cool, fails, level, opened, window, probeBy, node>> /\ current' \subseteq current
    BY <1>6 DEF Breaker!Finish
  <2>3. SeriesTyped'
    BY <1>0, <2>1, <2>2, OverTyped
  <2> QED
    BY <1>0, <2>2, <2>3 DEF TableTyped
<1>7. CASE Breaker!Tick
  <2>1. \A k, b \in Nat : k \in 0..b => Breaker!Down(k) \in 0..b
    BY DEF Breaker!Down
  <2>2. \A k \in Nat : Breaker!Down(k) \in Nat
    BY DEF Breaker!Down
  <2>8. /\ cool \in [Nodes -> 0..Cooldown] /\ Cooldown \in Nat
        /\ probeBy \in [Nodes -> 0..Budget] /\ Budget \in Nat
    BY <1>0, Zenon DEF TableTyped, Breaker!ConstantsOK
  <2>5. cool' \in [Nodes -> 0..Cooldown]
    BY <1>7, <2>1, <2>8 DEF Breaker!Tick
  <2>6. probeBy' \in [Nodes -> 0..Budget]
    BY <1>7, <2>1, <2>8 DEF Breaker!Tick
  <2>7. window' \in [Nodes -> Nat]
    BY <1>0, <1>7, <2>2 DEF Breaker!Tick, TableTyped
  <2>3. TableTyped'
    BY <1>0, <1>7, <2>5, <2>6, <2>7 DEF Breaker!Tick, TableTyped
  <2>4. SeriesTyped'
    BY <1>0, <1>7, <2>1 DEF Breaker!Tick, SeriesTyped, Breaker!ConstantsOK
  <2> QED
    BY <2>3, <2>4
<1>8. CASE \E n \in Nodes : Breaker!Fail(n) \/ Breaker!Repair(n)
  BY <1>0, <1>8 DEF Breaker!Fail, Breaker!Repair, TableTyped, SeriesTyped
<1>9. CASE UNCHANGED Breaker!vars
  BY <1>0, <1>9 DEF Breaker!vars, TableTyped, SeriesTyped
<1> QED
  BY <1>1, <1>2, <1>3, <1>4, <1>5, <1>6, <1>7, <1>8, <1>9 DEF Breaker!Next, Breaker!Step

\* The slot of a node and the time a probe may still take, through each step.
LEMMA ProbesThroughTick ==
    ASSUME Breaker!ConstantsOK, BreakerInv, Breaker!Tick
    PROVE  ProbeCounted' /\ ProbeAlone' /\ SendTakesNoTime' /\ StaleProbeHarmless'
<1> USE DEF BreakerInv
<1>1. UNCHANGED <<opened, node, probe, current>> /\ \A u \in Users : regPc[u] # "send" /\ regPc'[u] # "send"
  BY DEF Breaker!Tick, Breaker!TypeOK
<1>2. \A u \in Users : regPc[u] = "wait" => regPc'[u] = "wait"
  BY DEF Breaker!Tick
<1>3. /\ \A u \in Users : left'[u] = Breaker!Down(left[u]) /\ left[u] \in Nat /\ node[u] \in Nodes
      /\ \A n \in Nodes : probeBy'[n] = Breaker!Down(probeBy[n]) /\ probeBy[n] \in Nat
  BY DEF Breaker!Tick, Breaker!TypeOK
<1>4. \A j, k \in Nat : j <= k => Breaker!Down(j) <= Breaker!Down(k)
  BY DEF Breaker!Down
<1>5. \A k \in Nat : Breaker!Down(k) > 0 => k > 0
  BY DEF Breaker!Down
<1>6. current \subseteq Users /\ probe \subseteq Users
  BY DEF Breaker!TypeOK
<1>7. ProbeCounted'
  BY <1>1, <1>2, <1>3, <1>4, <1>6 DEF ProbeCounted
<1>8. ProbeAlone'
  BY <1>1, <1>3, <1>5, <1>6 DEF ProbeAlone
<1> QED
  BY <1>1, <1>6, <1>7, <1>8 DEF SendTakesNoTime, StaleProbeHarmless

\* A REGISTER is dialled: RegisterAllow admits it past a closed breaker, or
\* as the probe of one whose slot is free, or passes the node over.
LEMMA ProbesThroughNextNode ==
    ASSUME Breaker!ConstantsOK, BreakerInv, NEW u \in Users, Breaker!NextNode(u)
    PROVE  ProbeCounted' /\ ProbeAlone' /\ SendTakesNoTime' /\ StaleProbeHarmless'
<1> DEFINE n == Head(order[u])
<1>0. order[u] \in Seq(Nodes) /\ order[u] # <<>> /\ regPc[u] = "next" /\ left[u] > 0
  BY DEF Breaker!NextNode, Breaker!TypeOK, BreakerInv
<1>1. n \in Nodes /\ regPc[u] = "next" /\ left[u] > 0 /\ u \notin current
  BY <1>0 DEF BreakerInv, ProbeCounted
<1>2. UNCHANGED <<opened, window, left>> /\ current \subseteq Users /\ probe \subseteq Users
  BY DEF Breaker!NextNode, Breaker!TypeOK, BreakerInv
<1>a. /\ node \in [Users -> Nodes] /\ regPc \in [Users -> {"ready", "idle", "next", "send", "wait"}]
      /\ left \in [Users -> 0..Budget] /\ probeBy \in [Nodes -> 0..Budget] /\ Budget \in Nat
  BY Zenon DEF Breaker!TypeOK, BreakerInv, Breaker!ConstantsOK
<1>3. /\ node \in [Users -> Nodes] /\ regPc \in [Users -> {"ready", "idle", "next", "send", "wait"}]
      /\ left \in [Users -> 0..Budget] /\ probeBy \in [Nodes -> 0..Budget] /\ Budget \in Nat
      /\ \A v \in Users : left[v] <= Budget
  BY <1>a
<1> HIDE DEF n
<1>4. CASE n \in opened /\ ~Breaker!AllowProbe(n)
  <2>1. UNCHANGED <<regPc, node, probe, probeBy, current>>
    BY <1>4 DEF Breaker!NextNode, n
  <2> QED
    BY <1>2, <2>1 DEF BreakerInv, ProbeCounted, ProbeAlone, SendTakesNoTime, StaleProbeHarmless
<1>5. CASE n \notin opened
  <2>1. /\ regPc' = [regPc EXCEPT ![u] = "send"] /\ node' = [node EXCEPT ![u] = n]
        /\ probe' = probe \ {u} /\ probeBy' = probeBy /\ current' = current \ {u}
    BY <1>5 DEF Breaker!NextNode, Breaker!Goto, n
  <2> QED
    BY <1>1, <1>2, <1>3, <2>1
       DEF BreakerInv, ProbeCounted, ProbeAlone, SendTakesNoTime, StaleProbeHarmless
<1>6. CASE n \in opened /\ Breaker!AllowProbe(n)
  <2>1. /\ regPc' = [regPc EXCEPT ![u] = "send"] /\ node' = [node EXCEPT ![u] = n]
        /\ probe' = probe \cup {u} /\ current' = current \cup {u}
        /\ probeBy' = [probeBy EXCEPT ![n] = Budget]
    BY <1>6 DEF Breaker!NextNode, Breaker!Goto, n
  <2>2. window[n] = 0 /\ probeBy[n] = 0
    BY <1>6 DEF Breaker!AllowProbe
  <2>3. \A v \in current : node[v] = n => ~(left[v] > 0)
    BY <1>2, <1>3, <2>2 DEF BreakerInv, ProbeCounted
  <2>4. ProbeCounted'
    BY <1>1, <1>2, <1>3, <1>6, <2>1, <2>2 DEF BreakerInv, ProbeCounted
  <2>5. ProbeAlone'
    BY <1>1, <1>2, <1>3, <2>1, <2>3 DEF BreakerInv, ProbeAlone
  <2>6. SendTakesNoTime'
    BY <1>1, <1>2, <1>3, <2>1 DEF BreakerInv, SendTakesNoTime
  <2>7. StaleProbeHarmless'
    BY <1>1, <1>2, <1>3, <1>6, <2>1, <2>2 DEF BreakerInv, StaleProbeHarmless
  <2> QED
    BY <2>4, <2>5, <2>6, <2>7
<1> QED
  BY <1>4, <1>5, <1>6

\* The table closes or opens a node's breaker: no probe of the opening before
\* counts any more. One that is not sent yet finds the breaker closed, or
\* open for a while.
LEMMA ProbesThroughVerdict ==
    ASSUME Breaker!ConstantsOK, BreakerInv, NEW u \in Users, NEW n \in Nodes, n = node[u],
           current' = current \ Breaker!On(n),
           \/ opened' = opened \ {n}
           \/ /\ opened' = opened \cup {n}
              /\ \E w \in Nat \ {0} : window' = [window EXCEPT ![n] = w],
           \A m \in Nodes \ {n} : window'[m] = window[m] /\ probeBy'[m] = probeBy[m],
           \A v \in Users \ {u} : regPc'[v] = regPc[v] /\ left'[v] = left[v],
           regPc'[u] # "send", probe' \subseteq probe, probe \ {u} \subseteq probe', UNCHANGED node
    PROVE  ProbeCounted' /\ ProbeAlone' /\ SendTakesNoTime' /\ StaleProbeHarmless'
<1>1. current \subseteq Users /\ probe \subseteq Users /\ window \in [Nodes -> Nat]
      /\ node \in [Users -> Nodes]
  BY DEF BreakerInv, Breaker!TypeOK
<1>2. \A v \in current' : v \in current /\ v # u /\ node[v] # n
  BY <1>1 DEF Breaker!On
<1>3. \A v \in current : v \notin current' => node[v] = n
  BY DEF Breaker!On
<1>4. n \in opened' => window'[n] > 0
  BY <1>1
<1>5. ProbeCounted'
  BY <1>1, <1>2 DEF BreakerInv, ProbeCounted
<1>6. ProbeAlone'
  BY <1>1, <1>2 DEF BreakerInv, ProbeAlone
<1>7. SendTakesNoTime'
  BY DEF BreakerInv, SendTakesNoTime
<1>8. StaleProbeHarmless'
  <2> SUFFICES ASSUME NEW v \in probe' \ current', regPc'[v] = "send"
               PROVE  /\ node[v] \notin opened' \/ window'[node[v]] > 0
                      /\ \A t \in current' : node[t] # node[v]
    BY DEF StaleProbeHarmless
  <2>1. v \in Users /\ v # u /\ v \in probe /\ regPc[v] = "send" /\ node[v] \in Nodes
    BY <1>1
  <2>2. CASE node[v] = n
    BY <1>2, <1>4, <2>2
  <2>3. CASE node[v] # n
    BY <1>2, <1>3, <2>1, <2>3 DEF BreakerInv, StaleProbeHarmless
  <2> QED
    BY <2>2, <2>3
<1> QED
  BY <1>5, <1>6, <1>7, <1>8

\* The REGISTER of u leaves the slots as they are, and is not, or no longer,
\* one that counts.
LEMMA ProbesThroughOther ==
    ASSUME Breaker!ConstantsOK, BreakerInv, NEW u \in Users, u \notin current',
           current' = current \ {u}, UNCHANGED <<opened, window, node>>,
           \/ probeBy' = probeBy
           \/ /\ \A m \in Nodes \ {node[u]} : probeBy'[m] = probeBy[m]
              /\ \A v \in current \ {u} : node[v] = node[u] => left[v] <= 0
              /\ probeBy' \in [Nodes -> 0..Budget],
           \A v \in Users \ {u} : regPc'[v] = regPc[v] /\ left'[v] = left[v],
           regPc'[u] # "send", probe' \subseteq probe, probe \ {u} \subseteq probe'
    PROVE  ProbeCounted' /\ ProbeAlone' /\ SendTakesNoTime' /\ StaleProbeHarmless'
<1>1. /\ current \subseteq Users /\ probe \subseteq Users /\ node \in [Users -> Nodes]
      /\ left \in [Users -> 0..Budget] /\ Budget \in Nat
  BY DEF BreakerInv, Breaker!TypeOK, Breaker!ConstantsOK
<1>2. ASSUME NEW v \in current' PROVE left'[v] <= probeBy'[node[v]]
  <2>1. v \in current /\ v # u /\ left'[v] = left[v] /\ node[v] \in Nodes
        /\ left[v] <= probeBy[node[v]] /\ left[v] \in 0..Budget
    BY <1>1 DEF BreakerInv, ProbeCounted
  <2>2. CASE probeBy' = probeBy
    BY <2>1, <2>2
  <2>3. CASE /\ \A m \in Nodes \ {node[u]} : probeBy'[m] = probeBy[m]
             /\ \A t \in current \ {u} : node[t] = node[u] => left[t] <= 0
             /\ probeBy' \in [Nodes -> 0..Budget]
    BY <1>1, <2>1, <2>3
  <2> QED
    BY <2>2, <2>3
<1>3. ProbeCounted'
  BY <1>1, <1>2 DEF BreakerInv, ProbeCounted
<1>4. ProbeAlone'
  BY <1>1 DEF BreakerInv, ProbeAlone
<1>5. SendTakesNoTime'
  BY DEF BreakerInv, SendTakesNoTime
<1>6. StaleProbeHarmless'
  BY <1>1 DEF BreakerInv, StaleProbeHarmless
<1> QED
  BY <1>3, <1>4, <1>5, <1>6

LEMMA ProbesThroughUnanswered ==
    ASSUME Breaker!ConstantsOK, BreakerInv, NEW u \in Users, Breaker!Unanswered(node[u], u \in probe),
           Breaker!Goto(u, "next"), UNCHANGED <<left, node>>,
           probe' \subseteq probe, probe \ {u} \subseteq probe'
    PROVE  ProbeCounted' /\ ProbeAlone' /\ SendTakesNoTime' /\ StaleProbeHarmless'
<1>a. /\ node \in [Users -> Nodes] /\ Breaker!TypeOK
      /\ window \in [Nodes -> Nat] /\ probeBy \in [Nodes -> 0..Budget]
      /\ regPc \in [Users -> {"ready", "idle", "next", "send", "wait"}]
  BY Zenon DEF BreakerInv, Breaker!TypeOK
<1>1. /\ node[u] \in Nodes /\ (u \in probe) \in BOOLEAN /\ Breaker!TypeOK
      /\ window \in [Nodes -> Nat] /\ probeBy \in [Nodes -> 0..Budget]
      /\ regPc \in [Users -> {"ready", "idle", "next", "send", "wait"}]
  BY <1>a
<1>2. (\A v \in Users \ {u} : regPc'[v] = regPc[v] /\ left'[v] = left[v]) /\ regPc'[u] # "send"
  BY <1>1 DEF Breaker!Goto
<1>3. CASE UNCHANGED <<opened, level, window, probeBy, current>> /\ ~(node[u] \in opened /\ u \in probe)
  <2>1. u \notin current
    BY <1>3 DEF BreakerInv, ProbeCounted
  <2>2. current' = current \ {u} /\ u \notin current' /\ probeBy' = probeBy
        /\ UNCHANGED <<opened, window, node>>
    BY <1>3, <2>1
  <2> QED
    BY <1>2, <2>2, ProbesThroughOther
<1>4. CASE /\ \E w \in Nat \ {0} : window' = [window EXCEPT ![node[u]] = w]
           /\ opened' = opened \cup {node[u]} /\ probeBy' = [probeBy EXCEPT ![node[u]] = 0]
           /\ current' = current \ Breaker!On(node[u])
  <2>1. \A m \in Nodes \ {node[u]} : window'[m] = window[m] /\ probeBy'[m] = probeBy[m]
    BY <1>1, <1>4
  <2> QED
    BY <1>1, <1>2, <1>4, <2>1, ProbesThroughVerdict
<1>5. \/ /\ \E w \in Nat \ {0} : window' = [window EXCEPT ![node[u]] = w]
         /\ opened' = opened \cup {node[u]} /\ probeBy' = [probeBy EXCEPT ![node[u]] = 0]
         /\ current' = current \ Breaker!On(node[u])
      \/ /\ UNCHANGED <<opened, level, window, probeBy, current>>
         /\ ~(node[u] \in opened /\ u \in probe)
  BY <1>1, UnansweredEffect
<1> QED
  BY <1>3, <1>4, <1>5

LEMMA ProbesThroughAnswered ==
    ASSUME Breaker!ConstantsOK, BreakerInv, NEW u \in Users, Breaker!Answered(node[u]),
           \A v \in Users \ {u} : regPc'[v] = regPc[v] /\ left'[v] = left[v],
           regPc'[u] # "send", UNCHANGED node, probe' \subseteq probe, probe \ {u} \subseteq probe'
    PROVE  ProbeCounted' /\ ProbeAlone' /\ SendTakesNoTime' /\ StaleProbeHarmless'
<1>1. node[u] \in Nodes /\ window \in [Nodes -> Nat] /\ probeBy \in [Nodes -> 0..Budget]
  BY DEF BreakerInv, Breaker!TypeOK
<1>2. /\ window' = [window EXCEPT ![node[u]] = 0] /\ probeBy' = [probeBy EXCEPT ![node[u]] = 0]
      /\ opened' = opened \ {node[u]} /\ current' = current \ Breaker!On(node[u])
  BY <1>1, AnsweredEffect
<1>3. \A m \in Nodes \ {node[u]} : window'[m] = window[m] /\ probeBy'[m] = probeBy[m]
  BY <1>1, <1>2
<1> QED
  BY <1>1, <1>2, <1>3, ProbesThroughVerdict

LEMMA ProbesThroughRelease ==
    ASSUME Breaker!ConstantsOK, BreakerInv, NEW u \in Users, regPc[u] = "send", Breaker!Release(u),
           \A v \in Users \ {u} : regPc'[v] = regPc[v] /\ left'[v] = left[v],
           regPc'[u] # "send", UNCHANGED node, probe' \subseteq probe, probe \ {u} \subseteq probe'
    PROVE  ProbeCounted' /\ ProbeAlone' /\ SendTakesNoTime' /\ StaleProbeHarmless'
<1>1. node[u] \in Nodes /\ probeBy \in [Nodes -> 0..Budget] /\ 0 \in 0..Budget /\ current \subseteq Users
      /\ \A v \in Users : left[v] \in Nat
  BY DEF BreakerInv, Breaker!TypeOK, Breaker!ConstantsOK
<1>2. current' = current \ {u} /\ u \notin current' /\ UNCHANGED <<opened, window>>
  BY DEF Breaker!Release
<1>3. CASE u \notin probe
  <2>1. probeBy' = probeBy
    BY <1>3 DEF Breaker!Release
  <2> QED
    BY <1>2, <2>1, ProbesThroughOther
<1>4. CASE u \in probe
  <2>1. probeBy' = [probeBy EXCEPT ![node[u]] = 0]
    BY <1>4 DEF Breaker!Release
  <2>2. (\A m \in Nodes \ {node[u]} : probeBy'[m] = probeBy[m]) /\ probeBy' \in [Nodes -> 0..Budget]
    BY <1>1, <2>1
  <2>3. \A v \in current \ {u} : node[v] = node[u] => left[v] <= 0
    BY <1>1, <1>4 DEF BreakerInv, ProbeAlone, SendTakesNoTime, StaleProbeHarmless
  <2> QED
    BY <1>2, <2>2, <2>3, ProbesThroughOther
<1> QED
  BY <1>3, <1>4

LEMMA OverEffect ==
    ASSUME Breaker!TypeOK, NEW u \in Users, NEW r, Breaker!Over(u, r)
    PROVE  /\ \A v \in Users \ {u} : regPc'[v] = regPc[v] /\ left'[v] = left[v]
           /\ regPc'[u] # "send" /\ probe' = probe \ {u}
  BY DEF Breaker!TypeOK, Breaker!Over, Breaker!Goto

LEMMA ProbesKept ==
    ASSUME Breaker!ConstantsOK, BreakerInv, [Breaker!Next]_(Breaker!vars)
    PROVE  ProbeCounted' /\ ProbeAlone' /\ SendTakesNoTime' /\ StaleProbeHarmless'
<1> DEFINE Goal == ProbeCounted' /\ ProbeAlone' /\ SendTakesNoTime' /\ StaleProbeHarmless'
<1> SUFFICES Goal
  OBVIOUS
<1> USE DEF Breaker!breaker, Breaker!series
<1>0. Breaker!TypeOK
  BY DEF BreakerInv
<1> HIDE DEF Goal
<1>1. ASSUME NEW u \in Users, Breaker!Start(u) PROVE Goal
  <2>1. u \notin current
    BY <1>1 DEF Breaker!Start, BreakerInv, ProbeCounted
  <2>2. /\ \A v \in Users \ {u} : regPc'[v] = regPc[v] /\ left'[v] = left[v]
        /\ regPc'[u] # "send" /\ probe' = probe /\ current' = current /\ probeBy' = probeBy
        /\ UNCHANGED <<opened, window, node>>
    BY <1>0, <1>1 DEF Breaker!Start, Breaker!Goto, Breaker!TypeOK
  <2>3. current' = current \ {u} /\ u \notin current'
    BY <2>1, <2>2
  <2> QED
    BY <2>2, <2>3, ProbesThroughOther DEF Goal
<1>2. ASSUME NEW u \in Users, Breaker!NextNode(u) PROVE Goal
  BY <1>2, ProbesThroughNextNode DEF Goal
<1>3. ASSUME NEW u \in Users, Breaker!Sent(u) PROVE Goal
  BY <1>0, <1>3 DEF Goal, Breaker!Sent, Breaker!Goto, Breaker!TypeOK, BreakerInv, ProbeCounted,
                    ProbeAlone, SendTakesNoTime, StaleProbeHarmless
<1>4. ASSUME NEW u \in Users, Breaker!NotSent(u) PROVE Goal
  <2>1. regPc[u] = "send" /\ UNCHANGED node
    BY <1>4 DEF Breaker!NotSent
  <2>2. ASSUME NEW r, Breaker!Release(u), Breaker!Over(u, r) PROVE Goal
    <3>1. /\ \A v \in Users \ {u} : regPc'[v] = regPc[v] /\ left'[v] = left[v]
          /\ regPc'[u] # "send" /\ probe' \subseteq probe /\ probe \ {u} \subseteq probe'
      BY <1>0, <2>2, OverEffect
    <3> QED
      BY <2>1, <2>2, <3>1, ProbesThroughRelease DEF Goal
  <2>3. ASSUME Breaker!Unanswered(node[u], u \in probe), Breaker!Goto(u, "next"),
               probe' = probe \ {u}, UNCHANGED left
        PROVE  Goal
    BY <2>1, <2>3, ProbesThroughUnanswered DEF Goal
  <2> QED
    BY <1>4, <2>2, <2>3 DEF Breaker!NotSent
<1>5. ASSUME NEW u \in Users, Breaker!Pump(u) PROVE Goal
  <2>1. UNCHANGED node
    BY <1>5 DEF Breaker!Pump
  <2>2. ASSUME Breaker!Answered(node[u]), Breaker!Over(u, "final") PROVE Goal
    <3>1. /\ \A v \in Users \ {u} : regPc'[v] = regPc[v] /\ left'[v] = left[v]
          /\ regPc'[u] # "send" /\ probe' \subseteq probe /\ probe \ {u} \subseteq probe'
      BY <1>0, <2>2, OverEffect
    <3> QED
      BY <2>1, <2>2, <3>1, ProbesThroughAnswered DEF Goal
  <2>3. ASSUME Breaker!Answered(node[u]), Breaker!Goto(u, "next"), UNCHANGED <<probe, left>> PROVE Goal
    <3>1. (\A v \in Users \ {u} : regPc'[v] = regPc[v] /\ left'[v] = left[v]) /\ regPc'[u] # "send"
      BY <1>0, <2>3 DEF Breaker!TypeOK, Breaker!Goto
    <3>2. probe' \subseteq probe /\ probe \ {u} \subseteq probe'
      BY <2>3
    <3> QED
      BY <2>1, <2>3, <3>1, <3>2, ProbesThroughAnswered DEF Goal
  <2>4. ASSUME Breaker!Unanswered(node[u], u \in probe), Breaker!Goto(u, "next"),
               UNCHANGED <<probe, left>>
        PROVE  Goal
    BY <2>1, <2>4, ProbesThroughUnanswered DEF Goal
  <2> QED
    BY <1>5, <2>2, <2>3, <2>4 DEF Breaker!Pump
<1>6. ASSUME NEW u \in Users, Breaker!Finish(u) PROVE Goal
  <2>1. current' = current \ {u} /\ u \notin current' /\ UNCHANGED <<opened, window, node, probeBy>>
    BY <1>6 DEF Breaker!Finish
  <2>2. PICK r : Breaker!Over(u, r)
    BY <1>6 DEF Breaker!Finish
  <2>3. /\ \A v \in Users \ {u} : regPc'[v] = regPc[v] /\ left'[v] = left[v]
        /\ regPc'[u] # "send" /\ probe' \subseteq probe /\ probe \ {u} \subseteq probe'
    BY <1>0, <2>2, OverEffect
  <2> QED
    BY <2>1, <2>3, ProbesThroughOther DEF Goal
<1>7. CASE Breaker!Tick
  BY <1>7, ProbesThroughTick DEF Goal
<1>8. CASE UNCHANGED <<opened, window, probeBy, regPc, node, probe, left, current>>
  BY <1>8 DEF Goal, BreakerInv, ProbeCounted, ProbeAlone, SendTakesNoTime, StaleProbeHarmless
<1>9. ASSUME NEW n \in Nodes, Breaker!Fail(n) \/ Breaker!Repair(n) PROVE Goal
  BY <1>8, <1>9 DEF Breaker!Fail, Breaker!Repair
<1>10. ASSUME NEW u \in Users, Breaker!Start(u) \/ Breaker!Step(u) PROVE Goal
  BY <1>1, <1>2, <1>3, <1>4, <1>5, <1>6, <1>10 DEF Breaker!Step
<1>11. CASE UNCHANGED Breaker!vars
  BY <1>8, <1>11 DEF Breaker!vars
<1> QED
  BY <1>7, <1>9, <1>10, <1>11 DEF Breaker!Next

\* A half-open REGISTER breaker has one probe out, whatever releases, late
\* failures and answers of older attempts arrive in between: for any pool,
\* number of phones, threshold, windows and budget (RegisterAllow,
\* RegisterRelease, RegisterAnswered, RegisterUnanswered).
THEOREM HalfOpenAdmitsOne == Breaker!Spec => []OneProbe
<1>1. Breaker!Init => BreakerInv
  <2> SUFFICES ASSUME Breaker!Init PROVE BreakerInv
    OBVIOUS
  <2>1. (CHOOSE n \in Nodes : TRUE) \in Nodes
    BY BreakerAssumption DEF Breaker!ConstantsOK
  <2>2. /\ 0 \in 0..Cooldown /\ 0 \in 0..Threshold /\ 0 \in 0..Len(Windows) /\ 0 \in Nat
        /\ 0 \in 0..Budget /\ <<>> \in Seq(Nodes)
    BY BreakerAssumption DEF Breaker!ConstantsOK
  <2>3. Breaker!TypeOK
    BY <2>1, <2>2 DEF Breaker!Init, Breaker!TypeOK
  <2> QED
    BY <2>3 DEF Breaker!Init, BreakerInv, ProbeCounted, ProbeAlone, SendTakesNoTime,
                StaleProbeHarmless
<1>2. BreakerInv /\ [Breaker!Next]_(Breaker!vars) => BreakerInv'
  BY BreakerAssumption, BreakerTyped, ProbesKept DEF BreakerInv
<1>3. BreakerInv => OneProbe
  <2> SUFFICES ASSUME BreakerInv, NEW n \in Nodes
               PROVE  Breaker!Cardinality({u \in Breaker!On(n) : left[u] > 0}) <= 1
    BY DEF BreakerInv, Breaker!OneProbe, OneProbe
  <2> DEFINE S == {u \in Breaker!On(n) : left[u] > 0}
  <2>1. \A u, v \in S : u = v
    BY DEF BreakerInv, ProbeAlone, Breaker!On
  <2>2. CASE S = {}
    BY <2>2, FS_EmptySet, SameCardinality
  <2>3. CASE S # {}
    <3>1. PICK u : S = {u}
      BY <2>1, <2>3
    <3>2. Cardinality(S) = 1
      BY <3>1, FS_Singleton
    <3> QED
      BY <3>2, SameCardinality
  <2> QED
    BY <2>2, <2>3
<1> QED
  BY <1>1, <1>2, <1>3, PTL DEF Breaker!Spec

----------------------------------------------------------------------------
(* The routing of in-dialog requests.                                      *)

\* A confirmed call was answered by one of its forks, and only those ring.
AnsweredByFork ==
    \A d \in Records : /\ callState[d] = "up" => callee[d] \in ForkTags[d]
                       /\ routed[d] \subseteq ForkTags[d]

\* The dialog that admitted a PRACK or UPDATE: it has begun, and names the
\* request for as long as it is early.
Followed(d, m) ==
    /\ Routing!Belongs(d, m) /\ CallerTag[d] \in {m.from, m.to}
    /\ callState[d] # "none"
    /\ callState[d] = "early" => Routing!Far(d, m) \in routed[d]

\* What a handler is about to do, and the handlers of TypeOK.
JobOK(j) ==
    \/ j = Routing!NoRequest
    \/ /\ j.at \in {"admitEarly", "route", "routeEarly"} /\ j.m \in Routing!Reliable
       /\ j.d \in Records \cup {0}
       /\ j.at # "admitEarly" => j.d \in Records /\ Followed(j.d, j.m)
    \/ j.at = "bye" /\ j.d \in Records
JobsOK == DOMAIN job = Workers /\ \A r \in Workers : JobOK(job[r])

\* The part of TypeOK the calls' own actions and a BYE's answer change.
CallsOK ==
    /\ callState \in [Records -> {"none", "early", "up", "ended"}]
    /\ carriedBy \in [Records -> Switches]
    /\ routed \in [Records -> SUBSET Routing!Tags]
    /\ callee \in [Records -> Routing!Tags \cup {Routing!NoTag}]

RoutingInv ==
    CallsOK /\ AnsweredByFork /\ JobsOK /\ Routing!NothingPastAdmission /\ Routing!DialogsStick

\* Every record either lookup finds for a request.
Found(m) == Routing!Lookup(m) \cup Routing!LookupEarly(m)

\* The records a request names are those the lookups find and it belongs to.
LEMMA NamedIsFound ==
    ASSUME NEW m, ~Routing!Reliably(m)
    PROVE  Routing!Named(m) = {d \in Routing!Lookup(m) : Routing!Belongs(d, m)}
  BY DEF Routing!Named, Routing!Lookup, Routing!Belongs, Routing!SenderPlane, Routing!Far

LEMMA ReliablyNamed ==
    ASSUME NEW m, Routing!Reliably(m)
    PROVE  Routing!Named(m) = {d \in Found(m) : Routing!Belongs(d, m)}
  BY DEF Found, Routing!Named, Routing!Lookup, Routing!LookupEarly, Routing!Belongs,
         Routing!SenderPlane, Routing!Far

\* There is at most one.
LEMMA OneFound ==
    ASSUME Routing!ConstantsOK, AnsweredByFork, NEW m, NEW d \in Found(m), NEW e \in Found(m)
    PROVE  d = e
<1>1. ASSUME NEW x \in Found(m)
      PROVE  /\ x \in Records
             /\ \E t \in ForkTags[x] :
                   \/ m.from = CallerTag[x] /\ m.to = t
                   \/ m.from = t /\ m.to = CallerTag[x]
  BY <1>1 DEF Found, Routing!Lookup, Routing!LookupEarly, AnsweredByFork
<1> QED
  BY <1>1 DEF Routing!ConstantsOK

\* A request forwarded as it is entitled to be, to the dialog it names if it
\* names one, leaves both histories alone.
LEMMA ForwardedRightly ==
    ASSUME NEW r, NEW m, NEW d, NEW dest, Routing!Forward(r, m, d, dest), Routing!Entitled(m),
           \/ m.follows
           \/ /\ \A e \in Routing!Named(m) :
                    Routing!Crossed(r, e) \/ (e = d /\ dest = <<e, carriedBy[e]>>)
              /\ m.method = "BYE" /\ d # 0 => d \in Routing!Named(m)
    PROVE  past' = past /\ astray' = astray
  BY DEF Routing!Forward

LEMMA PlainShape ==
    ASSUME NEW m \in Routing!Plain
    PROVE  /\ m.method \in {"BYE", "INFO", "REFER", "MESSAGE", "NOTIFY"}
           /\ m.plane \in {"public", "private"} /\ m.vouched \in BOOLEAN /\ m.follows \in BOOLEAN
           /\ ~Routing!Reliably(m)
  BY DEF Routing!Plain, Routing!Shapes, Routing!Planes, Routing!Reliably

\* BYE, INFO, NOTIFY, REFER and MESSAGE are looked up and routed in one step.
LEMMA PlainRouted ==
    ASSUME Routing!ConstantsOK, AnsweredByFork, NEW r, NEW m \in Routing!Plain, Routing!OnInDialog(r, m)
    PROVE  past' = past /\ astray' = astray
<1>1. /\ m.method \in {"BYE", "INFO", "REFER", "MESSAGE", "NOTIFY"}
      /\ m.plane \in {"public", "private"} /\ m.vouched \in BOOLEAN /\ m.follows \in BOOLEAN
      /\ ~Routing!Reliably(m)
  BY PlainShape
<1>2. CASE Routing!Refuse(r)
  BY <1>2 DEF Routing!Refuse
<1>3. CASE m.follows /\ m.to # Routing!NoTag /\ Routing!Forward(r, m, 0, "subscription")
  <2>1. Routing!Entitled(m)
    BY <1>3 DEF Routing!Entitled
  <2> QED
    BY <1>3, <2>1, ForwardedRightly
<1>4. CASE Routing!Route(r, m, Routing!Lookup(m))
  <2>1. CASE \E d \in Routing!Lookup(m) : Routing!Belongs(d, m)
    <3>1. PICK d \in Routing!Lookup(m) :
            /\ Routing!Belongs(d, m)
            /\ IF m.method = "REFER" /\ d \in OfCarrier THEN Routing!Refuse(r)
               ELSE Routing!Forward(r, m, d, <<d, carriedBy[d]>>)
      BY <1>4, <2>1 DEF Routing!Route
    <3>2. d \in Routing!Named(m)
      BY <1>1, <3>1, NamedIsFound
    <3>3. CASE ~(m.method = "REFER" /\ d \in OfCarrier)
      <4>1. Routing!Entitled(m)
        BY <3>2, <3>3 DEF Routing!Entitled
      <4>2. \A e \in Routing!Named(m) : e = d
        BY <1>1, <3>1, NamedIsFound, OneFound DEF Found
      <4>3. Routing!Forward(r, m, d, <<d, carriedBy[d]>>)
        BY <3>1, <3>3
      <4> QED
        BY <3>2, <4>1, <4>2, <4>3, ForwardedRightly
    <3> QED
      BY <1>2, <3>1, <3>3
  <2>2. CASE ~\E d \in Routing!Lookup(m) : Routing!Belongs(d, m)
    <3>1. Routing!Named(m) = {}
      BY <1>1, <2>2, NamedIsFound
    <3>2. Routing!Dialogless(r, m)
      BY <1>4, <2>2 DEF Routing!Route
    <3>3. ASSUME NEW d, NEW dest, Routing!Forward(r, m, d, dest), Routing!Entitled(m),
                 m.method = "BYE" => d = 0
          PROVE  past' = past /\ astray' = astray
      BY <3>1, <3>3, ForwardedRightly
    <3>4. CASE m.plane = "private"
      <4>1. m.method # "REFER" => Routing!Entitled(m)
        BY <3>4 DEF Routing!Entitled
      <4> QED
        BY <1>1, <1>2, <3>2, <3>3, <3>4, <4>1 DEF Routing!Dialogless
    <3>5. CASE m.plane = "public"
      <4>1. Routing!Gate(m) => Routing!Entitled(m)
        BY <1>1, <3>5 DEF Routing!Entitled, Routing!Gate
      <4> QED
        BY <1>1, <1>2, <3>2, <3>3, <3>5, <4>1 DEF Routing!Dialogless
    <3> QED
      BY <1>1, <3>4, <3>5
  <2> QED
    BY <2>1, <2>2
<1> QED
  BY <1>1, <1>2, <1>3, <1>4 DEF Routing!OnInDialog

\* What a handler's step does, whatever the request, and what the histories
\* may show of a PRACK's or an UPDATE's.
CallsRest == UNCHANGED <<callState, routed>>
FollowedStep(m) == past' \in {past, past \cup {<<m.method, "gone">>}} /\ astray' = astray

LEMMA JobSet ==
    ASSUME JobsOK, NEW r \in Workers, NEW j, JobOK(j), job' = [job EXCEPT ![r] = j], CallsRest
    PROVE  JobsOK'
<1>1. DOMAIN job' = Workers
  BY DEF JobsOK
<1>2. ASSUME NEW q \in Workers PROVE job'[q] = job[q] \/ job'[q] = j
  BY DEF JobsOK
<1>3. ASSUME NEW q \in Workers PROVE JobOK(job'[q])
  BY <1>2, <1>3 DEF JobsOK
<1> QED
  BY <1>1, <1>3 DEF CallsRest, JobsOK, JobOK, Followed, Routing!NoRequest, Routing!Reliable, Routing!Shapes,
     Routing!Planes, Routing!Tags, Routing!NoTag, Routing!Belongs, Routing!SenderPlane, Routing!Far,
     Routing!OtherPlane

LEMMA RefuseStep ==
    ASSUME JobsOK, NEW r \in Workers, Routing!Refuse(r), CallsRest
    PROVE  JobsOK' /\ past' = past /\ astray' = astray
<1>1. JobOK(Routing!NoRequest)
  BY DEF JobOK
<1> QED
  BY <1>1, JobSet DEF Routing!Refuse

LEMMA GotoStep ==
    ASSUME JobsOK, NEW r \in Workers, NEW m \in Routing!Reliable, NEW d \in Records \cup {0},
           NEW at \in {"admitEarly", "route", "routeEarly"}, Routing!Goto(r, at, m, d),
           at # "admitEarly" => d \in Records /\ Followed(d, m), CallsRest
    PROVE  JobsOK' /\ past' = past /\ astray' = astray
<1>1. JobOK([at |-> at, m |-> m, d |-> d])
  BY DEF JobOK
<1> QED
  BY <1>1, JobSet DEF Routing!Goto

LEMMA ForwardStep ==
    ASSUME JobsOK, NEW r \in Workers, NEW m, NEW d \in Records \cup {0}, NEW dest,
           Routing!Forward(r, m, d, dest), CallsRest
    PROVE  JobsOK'
<1> DEFINE j == IF m.method = "BYE" /\ d # 0 THEN [at |-> "bye", d |-> d] ELSE Routing!NoRequest
<1>1. JobOK(j)
  BY DEF JobOK
<1>2. job' = [job EXCEPT ![r] = j]
  BY DEF Routing!Forward
<1> QED
  BY <1>1, <1>2, JobSet

LEMMA RouteStep ==
    ASSUME JobsOK, NEW r \in Workers, NEW m, NEW found \in SUBSET Records,
           m.plane \in {"public", "private"}, Routing!Route(r, m, found), CallsRest
    PROVE  JobsOK'
<1>1. CASE Routing!Refuse(r)
  BY <1>1, RefuseStep
<1>2. ASSUME NEW d \in Records \cup {0}, NEW dest, Routing!Forward(r, m, d, dest) PROVE JobsOK'
  BY <1>2, ForwardStep
<1>3. CASE \E d \in found : Routing!Belongs(d, m)
  BY <1>1, <1>2, <1>3 DEF Routing!Route
<1>4. CASE Routing!Dialogless(r, m)
  <2>1. Routing!NewestRouted \subseteq Records
    BY DEF Routing!NewestRouted
  <2> QED
    BY <1>1, <1>2, <1>4, <2>1 DEF Routing!Dialogless
<1> QED
  BY <1>3, <1>4 DEF Routing!Route

LEMMA ReliableShape ==
    ASSUME NEW m \in Routing!Reliable
    PROVE  /\ m.method \in {"PRACK", "UPDATE"} /\ m.plane \in {"public", "private"}
           /\ m.vouched \in BOOLEAN /\ m.body \in BOOLEAN /\ ~m.follows /\ Routing!Reliably(m)
           /\ Routing!Lookup(m) \in SUBSET Records /\ Routing!LookupEarly(m) \in SUBSET Records
  BY DEF Routing!Reliable, Routing!Shapes, Routing!Planes, Routing!Reliably, Routing!Lookup,
         Routing!LookupEarly

\* A dialog that admits a request is one to follow.
LEMMA AdmitsFollowed ==
    ASSUME NEW m, NEW d \in Found(m), Routing!Belongs(d, m)
    PROVE  d \in Records /\ Followed(d, m)
  BY DEF Found, Followed, Routing!Lookup, Routing!LookupEarly, Routing!Far

\* The dialog followed names the request unless it is gone.
LEMMA FollowedOrGone ==
    ASSUME CallsOK, NEW m \in Routing!Reliable, NEW d \in Records, Followed(d, m),
           ~Routing!Entitled(m)
    PROVE  Routing!Gone(d, m)
<1>1. d \notin Routing!Named(m) /\ Routing!Reliably(m)
  BY ReliableShape DEF Routing!Entitled
<1>2. callState[d] \in {"early", "up", "ended"}
  BY DEF CallsOK, Followed
<1> QED
  BY <1>1, <1>2 DEF Followed, Routing!Named, Routing!Gone, Routing!Belongs, Routing!SenderPlane

\* The second lookup of a PRACK or UPDATE: what it finds is the dialog named,
\* and what it does not find is named no more, or was confirmed meanwhile.
LEMMA ReliableRouted ==
    ASSUME Routing!ConstantsOK, CallsOK, AnsweredByFork, NEW r \in Workers, NEW m \in Routing!Reliable,
           NEW found, Routing!Route(r, m, found),
           job[r].d \in Records, Followed(job[r].d, m),
           \/ found = Routing!Lookup(m) /\ found # {}
           \/ found = Routing!LookupEarly(m) /\ job[r].at = "routeEarly"
    PROVE  FollowedStep(m)
<1>1. /\ m.method \in {"PRACK", "UPDATE"} /\ m.plane \in {"public", "private"}
      /\ ~m.follows /\ Routing!Reliably(m)
  BY ReliableShape
<1>2. CASE Routing!Refuse(r)
  BY <1>2 DEF Routing!Refuse, FollowedStep
<1>3. CASE \E d \in found : Routing!Belongs(d, m)
  <2>1. PICK d \in found : Routing!Belongs(d, m) /\ Routing!Forward(r, m, d, <<d, carriedBy[d]>>)
    BY <1>1, <1>3 DEF Routing!Route
  <2>2. d \in Found(m) /\ d \in Routing!Named(m)
    BY <1>1, <2>1, ReliablyNamed DEF Found
  <2>3. Routing!Entitled(m)
    BY <1>1, <2>2 DEF Routing!Entitled
  <2>4. \A e \in Routing!Named(m) : e = d
    BY <1>1, <2>2, ReliablyNamed, OneFound
  <2> QED
    BY <1>1, <2>1, <2>3, <2>4, ForwardedRightly DEF FollowedStep
<1>4. CASE ~\E d \in found : Routing!Belongs(d, m)
  <2>1. \A e \in Routing!Named(m) : Routing!Crossed(r, e)
    <3> SUFFICES ASSUME NEW e \in Routing!Named(m) PROVE Routing!Crossed(r, e)
      OBVIOUS
    <3>1. e \in Found(m) /\ Routing!Belongs(e, m)
      BY <1>1, ReliablyNamed
    <3>2. e \notin found
      BY <1>4, <3>1
    <3>3. CASE found = Routing!Lookup(m) /\ found # {}
      BY <3>1, <3>2, <3>3, OneFound DEF Found
    <3>4. CASE found = Routing!LookupEarly(m) /\ job[r].at = "routeEarly"
      BY <3>1, <3>2, <3>4 DEF Found, Routing!Lookup, Routing!Crossed
    <3> QED
      BY <3>3, <3>4
  <2>2. ASSUME NEW dest, Routing!Forward(r, m, 0, dest) PROVE FollowedStep(m)
    <3>1. astray' = astray
      BY <1>1, <2>1, <2>2 DEF Routing!Forward
    <3>2. ~Routing!Entitled(m) => Routing!Gone(job[r].d, m)
      BY FollowedOrGone
    <3>3. past' \in {past, past \cup {<<m.method, "gone">>}}
      BY <1>1, <2>2, <3>2 DEF Routing!Forward
    <3> QED
      BY <3>1, <3>3 DEF FollowedStep
  <2>3. Routing!Dialogless(r, m)
    BY <1>4 DEF Routing!Route
  <2> QED
    BY <1>1, <1>2, <2>2, <2>3 DEF Routing!Dialogless
<1> QED
  BY <1>3, <1>4

\* The steps of the four PRACK and UPDATE handlers.
LEMMA ReliableStep ==
    ASSUME Routing!ConstantsOK, CallsOK, AnsweredByFork, JobsOK, NEW r \in Workers, CallsRest,
           \/ \E m \in Routing!Reliable : Routing!OnPrackUpdate(r, m)
           \/ Routing!AdmitEarly(r) \/ Routing!RouteConfirmed(r) \/ Routing!RouteEarly(r)
    PROVE  JobsOK' /\ \E m \in Routing!Reliable : FollowedStep(m)
<1>1. ASSUME NEW m \in Routing!Reliable, JobsOK', past' = past, astray' = astray
      PROVE  JobsOK' /\ \E n \in Routing!Reliable : FollowedStep(n)
  BY <1>1 DEF FollowedStep
<1>2. ASSUME NEW m \in Routing!Reliable, NEW found \in {Routing!Lookup(m), Routing!LookupEarly(m)},
             Routing!Admit(r, m, found)
      PROVE  JobsOK' /\ past' = past /\ astray' = astray
  <2>1. CASE Routing!Refuse(r)
    BY <2>1, RefuseStep
  <2>2. ASSUME NEW d \in found, Routing!Belongs(d, m), Routing!Goto(r, "route", m, d)
        PROVE  JobsOK' /\ past' = past /\ astray' = astray
    <3>1. d \in Records /\ Followed(d, m)
      BY <2>2, AdmitsFollowed DEF Found
    <3> QED
      BY <2>2, <3>1, GotoStep
  <2> QED
    BY <1>2, <2>1, <2>2 DEF Routing!Admit
<1>3. CASE \E m \in Routing!Reliable : Routing!OnPrackUpdate(r, m)
  <2>1. PICK m \in Routing!Reliable : Routing!OnPrackUpdate(r, m)
    BY <1>3
  <2>2. ASSUME Routing!Goto(r, "admitEarly", m, 0) PROVE JobsOK' /\ past' = past /\ astray' = astray
    BY <2>2, GotoStep
  <2>3. JobsOK' /\ past' = past /\ astray' = astray
    BY <1>2, <2>1, <2>2, RefuseStep DEF Routing!OnPrackUpdate
  <2> QED
    BY <1>1, <2>3
<1>4. ASSUME job[r].at \in {"admitEarly", "route", "routeEarly"}
      PROVE  /\ job[r].m \in Routing!Reliable
             /\ job[r].at # "admitEarly" => job[r].d \in Records /\ Followed(job[r].d, job[r].m)
  BY <1>4 DEF JobsOK, JobOK, Routing!NoRequest
<1>5. CASE Routing!AdmitEarly(r)
  BY <1>1, <1>2, <1>4, <1>5 DEF Routing!AdmitEarly
<1>6. CASE Routing!RouteConfirmed(r)
  <2>1. PICK m \in Routing!Reliable : m = job[r].m
    BY <1>4, <1>6 DEF Routing!RouteConfirmed
  <2>2. PICK d \in Records : d = job[r].d
    BY <1>4, <1>6 DEF Routing!RouteConfirmed
  <2>3. job[r].at = "route" /\ Followed(d, m)
    BY <1>4, <1>6, <2>1, <2>2 DEF Routing!RouteConfirmed
  <2>4. CASE Routing!Goto(r, "routeEarly", m, d)
    BY <1>1, <2>3, <2>4, GotoStep
  <2>5. CASE Routing!Route(r, m, Routing!Lookup(m)) /\ Routing!Lookup(m) # {}
    <3>1. JobsOK'
      BY <2>5, ReliableShape, RouteStep
    <3>2. FollowedStep(m)
      BY <2>2, <2>3, <2>5, ReliableRouted
    <3> QED
      BY <3>1, <3>2
  <2> QED
    BY <1>6, <2>1, <2>2, <2>4, <2>5 DEF Routing!RouteConfirmed
<1>7. CASE Routing!RouteEarly(r)
  <2>1. PICK m \in Routing!Reliable : m = job[r].m
    BY <1>4, <1>7 DEF Routing!RouteEarly
  <2>2. /\ job[r].at = "routeEarly" /\ job[r].d \in Records /\ Followed(job[r].d, m)
        /\ Routing!Route(r, m, Routing!LookupEarly(m))
    BY <1>4, <1>7, <2>1 DEF Routing!RouteEarly
  <2>3. JobsOK'
    BY <2>2, ReliableShape, RouteStep
  <2>4. FollowedStep(m)
    BY <2>2, ReliableRouted
  <2> QED
    BY <2>3, <2>4
<1> QED
  BY <1>3, <1>5, <1>6, <1>7

\* BYE, INFO, NOTIFY, REFER and MESSAGE leave the handlers well formed too.
LEMMA PlainStep ==
    ASSUME JobsOK, NEW r \in Workers, NEW m \in Routing!Plain, Routing!OnInDialog(r, m)
    PROVE  JobsOK'
<1>1. m.plane \in {"public", "private"} /\ Routing!Lookup(m) \in SUBSET Records
  BY PlainShape DEF Routing!Lookup
<1>2. \/ Routing!Refuse(r) \/ Routing!Forward(r, m, 0, "subscription")
      \/ Routing!Route(r, m, Routing!Lookup(m))
  BY DEF Routing!OnInDialog
<1>3. CallsRest
  BY DEF Routing!OnInDialog, CallsRest
<1> QED
  BY <1>1, <1>2, <1>3, RefuseStep, ForwardStep, RouteStep

\* The calls go one way: begun, ringing at more and more forks, answered, over.
Onward(d) ==
    /\ callState[d] # "none" => callState'[d] # "none"
    /\ callState[d] # "none" /\ callState'[d] = "early" =>
          callState[d] = "early" /\ routed[d] \subseteq routed'[d]

LEMMA JobsThroughCalls ==
    ASSUME JobsOK, UNCHANGED job, \A d \in Records : Onward(d)
    PROVE  JobsOK'
<1>1. ASSUME NEW r \in Workers, job[r].at \in {"route", "routeEarly"}, job[r].d \in Records,
             Followed(job[r].d, job[r].m)
      PROVE  Followed(job[r].d, job[r].m)'
  <2>1. Onward(job[r].d)
    BY <1>1
  <2> QED
    BY <1>1, <2>1 DEF Onward, Followed, Routing!Belongs, Routing!SenderPlane, Routing!Far,
       Routing!OtherPlane
<1> QED
  BY <1>1 DEF JobsOK, JobOK, Routing!NoRequest, Routing!Reliable, Routing!Shapes, Routing!Planes,
     Routing!Tags, Routing!NoTag

\* The calls themselves: they begin, ring, are answered by a fork and end.
LEMMA CallsKept ==
    ASSUME CallsOK, AnsweredByFork, NEW d \in Records,
           \/ Routing!Begin(d) \/ Routing!End(d)
           \/ \E t \in Routing!Tags : Routing!SetForkRoute(d, t) \/ Routing!Confirm(d, t)
    PROVE  /\ CallsOK' /\ AnsweredByFork' /\ UNCHANGED <<job, past, astray>>
           /\ \A e \in Records : Onward(e)
<1>1. CASE Routing!Begin(d)
  BY <1>1 DEF CallsOK, AnsweredByFork, Onward, Routing!Begin, Routing!Tags, Routing!NoTag
<1>2. CASE Routing!End(d)
  BY <1>2 DEF CallsOK, AnsweredByFork, Onward, Routing!End, Routing!Tags, Routing!NoTag
<1>3. ASSUME NEW t \in Routing!Tags, Routing!SetForkRoute(d, t)
      PROVE  /\ CallsOK' /\ AnsweredByFork' /\ UNCHANGED <<job, past, astray>>
             /\ \A e \in Records : Onward(e)
  BY <1>3 DEF CallsOK, AnsweredByFork, Onward, Routing!SetForkRoute, Routing!Tags, Routing!NoTag
<1>4. ASSUME NEW t \in Routing!Tags, Routing!Confirm(d, t)
      PROVE  /\ CallsOK' /\ AnsweredByFork' /\ UNCHANGED <<job, past, astray>>
             /\ \A e \in Records : Onward(e)
  BY <1>4 DEF CallsOK, AnsweredByFork, Onward, Routing!Confirm, Routing!Tags, Routing!NoTag
<1> QED
  BY <1>1, <1>2, <1>3, <1>4

LEMMA RoutingStep ==
    ASSUME Routing!ConstantsOK, RoutingInv, [Routing!Next]_(Routing!vars)
    PROVE  RoutingInv'
<1>1. /\ CallsOK /\ JobsOK /\ AnsweredByFork
      /\ past \subseteq {"PRACK", "UPDATE"} \X {"gone"} /\ astray = {}
  BY DEF RoutingInv, Routing!NothingPastAdmission, Routing!DialogsStick
<1> DEFINE Goal == /\ CallsOK' /\ AnsweredByFork' /\ JobsOK'
                   /\ past' \subseteq {"PRACK", "UPDATE"} \X {"gone"} /\ astray' = {}
<1>2. ASSUME Goal PROVE RoutingInv'
  BY <1>2 DEF RoutingInv, Routing!NothingPastAdmission, Routing!DialogsStick
<1>3. ASSUME UNCHANGED <<callState, carriedBy, routed, callee>>
      PROVE  CallsOK' /\ AnsweredByFork' /\ CallsRest /\ \A d \in Records : Onward(d)
  BY <1>1, <1>3 DEF CallsOK, AnsweredByFork, CallsRest, Onward
<1> SUFFICES Goal
  BY <1>2
<1>4. CASE UNCHANGED Routing!vars
  <2>1. UNCHANGED <<callState, carriedBy, routed, callee>> /\ UNCHANGED <<job, past, astray>>
    BY <1>4 DEF Routing!vars
  <2> QED
    BY <1>1, <1>3, <2>1, JobsThroughCalls
<1>5. ASSUME NEW d \in Records,
             \/ Routing!Begin(d) \/ Routing!End(d)
             \/ \E t \in Routing!Tags : Routing!SetForkRoute(d, t) \/ Routing!Confirm(d, t)
      PROVE  Goal
  <2>1. /\ CallsOK' /\ AnsweredByFork' /\ UNCHANGED <<job, past, astray>>
        /\ \A e \in Records : Onward(e)
    BY <1>1, <1>5, CallsKept
  <2> QED
    BY <1>1, <2>1, JobsThroughCalls
<1>6. ASSUME NEW r \in Workers, NEW m \in Routing!Plain, Routing!OnInDialog(r, m)
      PROVE  Goal
  <2>1. past' = past /\ astray' = astray
    BY <1>1, <1>6, PlainRouted
  <2>2. JobsOK'
    BY <1>1, <1>6, PlainStep
  <2>3. UNCHANGED <<callState, carriedBy, routed, callee>>
    BY <1>6 DEF Routing!OnInDialog
  <2> QED
    BY <1>1, <1>3, <2>1, <2>2, <2>3
<1>7. ASSUME NEW r \in Workers,
             \/ \E m \in Routing!Reliable : Routing!OnPrackUpdate(r, m)
             \/ Routing!AdmitEarly(r) \/ Routing!RouteConfirmed(r) \/ Routing!RouteEarly(r)
      PROVE  Goal
  <2>1. UNCHANGED <<callState, carriedBy, routed, callee>>
    BY <1>7 DEF Routing!OnPrackUpdate, Routing!AdmitEarly, Routing!RouteConfirmed, Routing!RouteEarly
  <2>2. JobsOK' /\ \E m \in Routing!Reliable : FollowedStep(m)
    BY <1>1, <1>3, <1>7, <2>1, ReliableStep
  <2>3. PICK m \in Routing!Reliable : FollowedStep(m)
    BY <2>2
  <2>4. m.method \in {"PRACK", "UPDATE"}
    BY ReliableShape
  <2> QED
    BY <1>1, <1>3, <2>1, <2>2, <2>3, <2>4 DEF FollowedStep
<1>8. ASSUME NEW r \in Workers, NEW a, Routing!ByeAnswered(r, a) PROVE Goal
  <2>1. job' = [job EXCEPT ![r] = Routing!NoRequest] /\ UNCHANGED <<carriedBy, routed, callee, past, astray>>
    BY <1>8 DEF Routing!ByeAnswered
  <2>2. job[r].d \in Records
    BY <1>1, <1>8 DEF JobsOK, JobOK, Routing!ByeAnswered, Routing!NoRequest
  <2>3. \/ callState[job[r].d] = "up" /\ callState' = [callState EXCEPT ![job[r].d] = "ended"]
        \/ callState' = callState
    BY <1>8 DEF Routing!ByeAnswered
  <2>4. CallsOK' /\ AnsweredByFork' /\ \A d \in Records : Onward(d)
    BY <1>1, <2>1, <2>2, <2>3 DEF CallsOK, AnsweredByFork, Onward, Routing!Tags, Routing!NoTag
  <2>5. JobsOK'
    <3>1. ASSUME NEW q \in Workers PROVE job'[q] = job[q] \/ job'[q] = Routing!NoRequest
      BY <1>1, <2>1 DEF JobsOK
    <3>2. ASSUME NEW q \in Workers, job[q].at \in {"route", "routeEarly"}, job[q].d \in Records,
                 Followed(job[q].d, job[q].m), job'[q] = job[q]
          PROVE  Followed(job[q].d, job[q].m)'
      <4>1. Onward(job[q].d)
        BY <2>4, <3>2
      <4> QED
        BY <3>2, <4>1 DEF Onward, Followed, Routing!Belongs, Routing!SenderPlane, Routing!Far,
           Routing!OtherPlane
    <3> QED
      BY <1>1, <2>1, <3>1, <3>2 DEF JobsOK, JobOK, Routing!NoRequest, Routing!Reliable, Routing!Shapes,
         Routing!Planes, Routing!Tags, Routing!NoTag
  <2> QED
    BY <1>1, <2>1, <2>4, <2>5
<1> QED
  BY <1>4, <1>5, <1>6, <1>7, <1>8 DEF Routing!Next

\* However calls begin, fork, are confirmed and end around the handlers: no
\* request passes that is not entitled to, but a PRACK or UPDATE whose dialog is
\* gone since it admitted it; each that names a dialog goes to the switch carrying
\* it, but one whose fork is confirmed within its second lookup; and no other BYE
\* ends a record (lookupCall, directionFor, onPrackUpdate, onInDialog), for any
\* calls of a Call-ID.
THEOREM RequestsReachTheirDialog == Routing!Spec => []RequestsRouted
<1>1. Routing!Init => RoutingInv
  <2> SUFFICES ASSUME Routing!Init PROVE RoutingInv
    OBVIOUS
  <2>1. CallsOK
    BY DialogAssumption DEF Routing!Init, CallsOK, Routing!ConstantsOK, Routing!Tags, Routing!NoTag
  <2>2. JobsOK
    BY DEF Routing!Init, JobsOK, JobOK, Routing!NoRequest
  <2>3. AnsweredByFork /\ past = {} /\ astray = {}
    BY DEF Routing!Init, AnsweredByFork
  <2> QED
    BY <2>1, <2>2, <2>3 DEF RoutingInv, Routing!NothingPastAdmission, Routing!DialogsStick
<1>2. RoutingInv /\ [Routing!Next]_(Routing!vars) => RoutingInv'
  BY DialogAssumption, RoutingStep
<1>3. RoutingInv => RequestsRouted
  <2>1. ASSUME RoutingInv PROVE Routing!TypeOK
    BY <2>1 DEF RoutingInv, CallsOK, JobsOK, JobOK, Routing!TypeOK, Routing!NothingPastAdmission,
       Routing!DialogsStick, Routing!Methods
  <2> QED
    BY <2>1 DEF RoutingInv, Routing!RequestsRouted, RequestsRouted
<1> QED
  BY <1>1, <1>2, <1>3, PTL DEF Routing!Spec

----------------------------------------------------------------------------
(* The offers of the composed dialog.                                      *)

OfferProofs == INSTANCE OfferAnswerProofs WITH pc <- xpc, up <- callUp

\* An instance of the proofs has its own copy of what they are about.
LEMMA SameDialog ==
    /\ Offers!ConstantsOK <=> OfferProofs!ConstantsOK
    /\ Offers!OneOfferlessEnd <=> OfferProofs!OneOfferlessEnd
    /\ Offers!Init <=> OfferProofs!Init
    /\ [Offers!Next]_(Offers!vars) <=> [OfferProofs!Next]_(OfferProofs!vars)
    /\ Offers!OffersApplied <=> OfferProofs!OffersApplied
<1>1. /\ Offers!ConstantsOK <=> OfferProofs!ConstantsOK
      /\ Offers!OneOfferlessEnd <=> OfferProofs!OneOfferlessEnd
  BY Zenon DEF Offers!ConstantsOK, OfferProofs!ConstantsOK, Offers!OneOfferlessEnd,
               OfferProofs!OneOfferlessEnd, Offers!Sides, OfferProofs!Sides, Offers!Initial,
               OfferProofs!Initial, Offers!IsFiniteSet, OfferProofs!IsFiniteSet
<1>2. Offers!Init <=> OfferProofs!Init
  BY Zenon DEF Offers!Init, OfferProofs!Init, Offers!Sides, OfferProofs!Sides, Offers!Initial,
               OfferProofs!Initial
<1>3. [Offers!Next]_(Offers!vars) <=> [OfferProofs!Next]_(OfferProofs!vars)
  BY Zenon DEF Offers!Next, OfferProofs!Next, Offers!Handle, OfferProofs!Handle,
               Offers!HandleAck, OfferProofs!HandleAck, Offers!vars, OfferProofs!vars,
               Offers!dialog, OfferProofs!dialog, Offers!session, OfferProofs!session,
               Offers!ends, OfferProofs!ends, Offers!Asking, OfferProofs!Asking, Offers!SendsNow,
               OfferProofs!SendsNow, Offers!Ended, OfferProofs!Ended, Offers!ReInviteSlot,
               OfferProofs!ReInviteSlot, Offers!UpdateSlot, OfferProofs!UpdateSlot, Offers!Slot,
               OfferProofs!Slot, Offers!Taken, OfferProofs!Taken, Offers!Freed,
               OfferProofs!Freed, Offers!Rebuild, OfferProofs!Rebuild, Offers!AckMuFree,
               OfferProofs!AckMuFree, Offers!StopTimer, OfferProofs!StopTimer, Offers!At,
               OfferProofs!At, Offers!Goto, OfferProofs!Goto, Offers!AckAt, OfferProofs!AckAt,
               Offers!AckGoto, OfferProofs!AckGoto, Offers!Answer, OfferProofs!Answer,
               Offers!Sides, OfferProofs!Sides, Offers!Other, OfferProofs!Other, Offers!To,
               OfferProofs!To, Offers!Taking, OfferProofs!Taking, Offers!Send, OfferProofs!Send,
               Offers!Respond, OfferProofs!Respond, Offers!Read, OfferProofs!Read, Offers!Hangup,
               OfferProofs!Hangup, Offers!Begin, OfferProofs!Begin, Offers!Forward,
               OfferProofs!Forward, Offers!Provisional, OfferProofs!Provisional, Offers!Accepted,
               OfferProofs!Accepted, Offers!Apply, OfferProofs!Apply, Offers!Relay,
               OfferProofs!Relay, Offers!Refuse2xx, OfferProofs!Refuse2xx, Offers!Unmoved,
               OfferProofs!Unmoved, Offers!NoFinal, OfferProofs!NoFinal, Offers!Lingered,
               OfferProofs!Lingered, Offers!Release, OfferProofs!Release, Offers!Owe,
               OfferProofs!Owe, Offers!RelayOffer, OfferProofs!RelayOffer, Offers!Arm,
               OfferProofs!Arm, Offers!TakeOwed, OfferProofs!TakeOwed, Offers!AnswerFromACK,
               OfferProofs!AnswerFromACK, Offers!ApplyOwed, OfferProofs!ApplyOwed, Offers!Finish,
               OfferProofs!Finish, Offers!EndUnusable, OfferProofs!EndUnusable, Offers!FireOwed,
               OfferProofs!FireOwed, Offers!OwedExpired, OfferProofs!OwedExpired
<1>4. Offers!OffersApplied <=> OfferProofs!OffersApplied
  BY Zenon DEF Offers!OffersApplied, OfferProofs!OffersApplied, Offers!TypeOK,
               OfferProofs!TypeOK, Offers!SlotsExact, OfferProofs!SlotsExact, Offers!OneApplier,
               OfferProofs!OneApplier, Offers!MediaFollows, OfferProofs!MediaFollows,
               Offers!SplitOnlyByCrossing, OfferProofs!SplitOnlyByCrossing, Offers!HoldsReInvite,
               OfferProofs!HoldsReInvite, Offers!Quiet, OfferProofs!Quiet, Offers!Agreed,
               OfferProofs!Agreed, Offers!Crossed, OfferProofs!Crossed, Offers!Holding,
               OfferProofs!Holding, Offers!Taking, OfferProofs!Taking, Offers!Exchanges,
               OfferProofs!Exchanges, Offers!Initial, OfferProofs!Initial, Offers!ReInvites,
               OfferProofs!ReInvites, Offers!Sides, OfferProofs!Sides, Offers!Other,
               OfferProofs!Other, Offers!To, OfferProofs!To, Offers!Cardinality,
               OfferProofs!Cardinality, Offers!IsFiniteSet, OfferProofs!IsFiniteSet
<1> QED
  BY <1>1, <1>2, <1>3, <1>4

\* The theorem of OfferAnswerProofs about the dialog the media run composes:
\* crossing re-INVITEs and UPDATEs leave the slots exact, the media where the
\* ends agree, and only a 2xx FreeSBC did not wait for leaves them apart
\* (beginReInviteOffer, applyReInvite, takeOwed, owedExpired).
THEOREM ComposedOffersAreApplied == Offers!Spec => []OffersApplied
<1>1. Offers!Init => OfferProofs!IInv
  BY OffersAssumption, SameDialog, OfferProofs!InvInit
<1>2. OfferProofs!IInv /\ [Offers!Next]_(Offers!vars) => OfferProofs!IInv'
  BY OffersAssumption, SameDialog, OfferProofs!InvStep
<1>3. OfferProofs!IInv => OffersApplied
  BY OffersAssumption, SameDialog, OfferProofs!InvGives DEF OffersApplied
<1> QED
  BY <1>1, <1>2, <1>3, PTL DEF Offers!Spec

----------------------------------------------------------------------------
(* The stream connections.                                                 *)

LEMMA SameConnCard == \A S : /\ Conns!Cardinality(S) = Cardinality(S)
                             /\ Conns!PublicPool!Cardinality(S) = Cardinality(S)
  BY DEF Cardinality, Conns!Cardinality, Conns!PublicPool!Cardinality
LEMMA SameConnFinite == \A S : Conns!IsFiniteSet(S) <=> IsFiniteSet(S)
  BY DEF IsFiniteSet, Conns!IsFiniteSet

SlotPoints == {"admitted", "prepared", "ready", "reading"}
Held == {c \in Streams : connPc[c] \in SlotPoints}

\* The three counters, given the connections that hold a slot.
CountsOf(H) ==
    /\ total = Cardinality(H) /\ carrier = Cardinality(H \cap CarrierStreams)
    /\ perIP = [i \in Conns!IPs |-> Cardinality({c \in H : StreamIp(c) = i})]

ConnTyped ==
    /\ transport \in {"sip", "ws"} /\ lis \in {"open", "draining", "shut"} /\ serving \in BOOLEAN
    /\ connPc \in [Streams -> {"new", "gone"} \cup SlotPoints]
    /\ handed \subseteq Streams /\ closedConns \subseteq Streams
    /\ partial \subseteq Streams /\ busy \subseteq Streams
    /\ since \in [Streams -> Conns!Ages] /\ lastMsg \in [Streams -> Conns!Ages \cup {Conns!Zero}]
    /\ lastRead \in [Streams -> Conns!Ages] /\ silent \in [Streams -> Conns!Ages]
    /\ quiet \in [Streams -> Conns!Ages]

\* A closed connection is gone for good, so its slot is given back once; what
\* the channel holds waits for Accept, the drain, or nobody.
ClosedGone == \A c \in closedConns : connPc[c] = "gone"
HandedWait == \A c \in handed : connPc[c] = "ready"

\* A unit arrives within the message timeout, and a SIP one is the message.
\* Between units the read waits for at most the idle timeout, and what was idle
\* when it began has been so for one timeout more; before a SIP stream's first
\* read nothing was, and that read starts the idle bound again.
Within(c, age) == silent[c] <= age \/ quiet[c] <= age
ReadingOf(c) ==
    /\ IF c \in partial
       THEN since[c] <= Message /\ lastMsg[c] # Conns!Zero /\ (transport = "sip" => silent[c] = since[c])
       ELSE /\ lastRead[c] <= Idle
            /\ lastMsg[c] <= Idle + lastRead[c] \/ quiet[c] <= Idle + lastRead[c]
    /\ transport = "ws" => silent[c] = lastMsg[c]
    /\ transport = "sip" => IF lastMsg[c] = Conns!Zero THEN Within(c, lastRead[c])
                            ELSE Within(c, lastMsg[c] + Idle)
ReaderOf(c) ==
    /\ c \in CarrierStreams => c \in busy
    /\ c \in busy => quiet[c] = 0
    /\ IF connPc[c] = "reading" THEN ReadingOf(c)
       ELSE c \notin partial /\ lastRead[c] = 0 /\ silent[c] = 0
ReaderInv == \A c \in Streams : ReaderOf(c)

ConnSlots == ClosedGone /\ HandedWait /\ CountsOf(Held)
ConnInv == ConnTyped /\ ConnSlots /\ ReaderInv

\* How a step changes who holds a slot and who is closed.
SlotsStay == Held' = Held /\ closedConns' = closedConns
SlotTakenBy(c) ==
    /\ c \notin Held \cup closedConns /\ Conns!Admits(c)
    /\ Held' = Held \cup {c} /\ closedConns' = closedConns
SlotLeft(c) == c \in Held /\ Held' = Held \ {c} /\ closedConns' = closedConns \cup {c}

LEMMA StreamsFinite == IsFiniteSet(Streams) /\ CarrierStreams \subseteq Streams
  BY ConnsAssumption, SameConnFinite DEF Conns!ConstantsOK

LEMMA CountsTyped ==
    ASSUME NEW H \in SUBSET Streams
    PROVE  /\ IsFiniteSet(H) /\ Cardinality(H) \in Nat
           /\ IsFiniteSet(H \cap CarrierStreams) /\ Cardinality(H \cap CarrierStreams) \in Nat
           /\ \A i : /\ IsFiniteSet({c \in H : StreamIp(c) = i})
                     /\ Cardinality({c \in H : StreamIp(c) = i}) \in Nat
<1>1. ASSUME NEW S \in SUBSET Streams PROVE IsFiniteSet(S) /\ Cardinality(S) \in Nat
  BY StreamsFinite, FS_Subset, FS_CardinalityType
<1>2. H \cap CarrierStreams \in SUBSET Streams
  OBVIOUS
<1>3. \A i : {c \in H : StreamIp(c) = i} \in SUBSET Streams
  OBVIOUS
<1> QED
  BY <1>1, <1>2, <1>3

\* acquire's increments are the counters of one connection more.
LEMMA CountOneMore ==
    ASSUME CountsOf(Held), NEW c \in Streams, c \notin Held, Held' = Held \cup {c},
           total' = total + 1, carrier' = carrier + Conns!One(c),
           perIP' = [perIP EXCEPT ![StreamIp(c)] = @ + 1]
    PROVE  CountsOf(Held)'
<1> DEFINE On(i) == {d \in Held : StreamIp(d) = i}
<1>0. Held \in SUBSET Streams
  BY DEF Held
<1>1. Cardinality(Held \cup {c}) = Cardinality(Held) + 1
  BY <1>0, CountsTyped, FS_AddElement
<1>2. Cardinality((Held \cup {c}) \cap CarrierStreams)
      = Cardinality(Held \cap CarrierStreams) + Conns!One(c)
  <2>1. CASE c \in CarrierStreams
    <3>1. (Held \cup {c}) \cap CarrierStreams = (Held \cap CarrierStreams) \cup {c}
      BY <2>1
    <3> QED
      BY <1>0, <2>1, <3>1, CountsTyped, FS_AddElement DEF Conns!One
  <2>2. CASE c \notin CarrierStreams
    <3>1. (Held \cup {c}) \cap CarrierStreams = Held \cap CarrierStreams
      BY <2>2
    <3>2. Cardinality(Held \cap CarrierStreams) \in Nat
      BY <1>0, CountsTyped
    <3>3. Cardinality(Held \cap CarrierStreams) + Conns!One(c) = Cardinality(Held \cap CarrierStreams)
      BY <2>2, <3>2 DEF Conns!One
    <3> QED
      BY <3>1, <3>3, Zenon
  <2> QED
    BY <2>1, <2>2
<1>3. ASSUME NEW i
      PROVE  Cardinality({d \in Held \cup {c} : StreamIp(d) = i})
             = IF i = StreamIp(c) THEN Cardinality(On(i)) + 1 ELSE Cardinality(On(i))
  <2>1. {d \in Held \cup {c} : StreamIp(d) = i} = IF i = StreamIp(c) THEN On(i) \cup {c} ELSE On(i)
    OBVIOUS
  <2>2. IsFiniteSet(On(i)) /\ c \notin On(i)
    BY <1>0, CountsTyped
  <2> QED
    BY <2>1, <2>2, FS_AddElement
<1>4. perIP' = [i \in Conns!IPs |-> Cardinality({d \in Held \cup {c} : StreamIp(d) = i})]
  <2> HIDE DEF On
  <2>1. perIP = [i \in Conns!IPs |-> Cardinality(On(i))]
    BY DEF CountsOf, On
  <2> QED
    BY <1>3, <2>1
<1> QED
  BY <1>1, <1>2, <1>4 DEF CountsOf

\* Those of the connections that do not leave, when some do.
LEMMA CountFewer ==
    ASSUME CountsOf(Held), NEW F \in SUBSET Held, Held' = Held \ F,
           total' = total - Cardinality(F), carrier' = carrier - Cardinality(F \cap CarrierStreams),
           perIP' = [i \in Conns!IPs |-> perIP[i] - Cardinality({c \in F : StreamIp(c) = i})]
    PROVE  CountsOf(Held)'
<1> DEFINE On(i) == {d \in Held : StreamIp(d) = i}
           Off(i) == {d \in F : StreamIp(d) = i}
<1>0. Held \in SUBSET Streams
  BY DEF Held
<1>1. Cardinality(Held \ F) = Cardinality(Held) - Cardinality(F)
  <2>1. Held \cap F = F
    OBVIOUS
  <2>2. IsFiniteSet(Held)
    BY <1>0, CountsTyped
  <2>3. Cardinality(Held \ F) = Cardinality(Held) - Cardinality(Held \cap F)
    BY <2>2, FS_Difference
  <2> QED
    BY <2>1, <2>3, Zenon
<1>2. Cardinality((Held \ F) \cap CarrierStreams)
      = Cardinality(Held \cap CarrierStreams) - Cardinality(F \cap CarrierStreams)
  <2>1. /\ (Held \cap CarrierStreams) \cap (F \cap CarrierStreams) = F \cap CarrierStreams
        /\ (Held \cap CarrierStreams) \ (F \cap CarrierStreams) = (Held \ F) \cap CarrierStreams
    OBVIOUS
  <2>2. IsFiniteSet(Held \cap CarrierStreams)
    BY <1>0, CountsTyped
  <2>3. Cardinality((Held \cap CarrierStreams) \ (F \cap CarrierStreams))
        = Cardinality(Held \cap CarrierStreams)
          - Cardinality((Held \cap CarrierStreams) \cap (F \cap CarrierStreams))
    BY <2>2, FS_Difference
  <2> QED
    BY <2>1, <2>3, Zenon
<1>3. ASSUME NEW i
      PROVE  Cardinality({d \in Held \ F : StreamIp(d) = i})
             = Cardinality(On(i)) - Cardinality(Off(i))
  <2>1. On(i) \cap Off(i) = Off(i) /\ On(i) \ Off(i) = {d \in Held \ F : StreamIp(d) = i}
    OBVIOUS
  <2>2. IsFiniteSet(On(i))
    BY <1>0, CountsTyped
  <2> HIDE DEF On, Off
  <2>3. Cardinality(On(i) \ Off(i)) = Cardinality(On(i)) - Cardinality(On(i) \cap Off(i))
    BY <2>2, FS_Difference
  <2> QED
    BY <2>1, <2>3, Zenon
<1>4. perIP' = [i \in Conns!IPs |-> Cardinality({d \in Held \ F : StreamIp(d) = i})]
  <2> HIDE DEF On, Off
  <2>1. perIP = [i \in Conns!IPs |-> Cardinality(On(i))]
    BY DEF CountsOf, On
  <2>2. perIP' = [i \in Conns!IPs |-> perIP[i] - Cardinality(Off(i))]
    BY DEF Off
  <2> QED
    BY <1>3, <2>1, <2>2
<1> QED
  BY <1>1, <1>2, <1>4 DEF CountsOf

\* release is exact for a connection that is counted.
LEMMA CountOneLess ==
    ASSUME CountsOf(Held), NEW c \in Held, Held' = Held \ {c}, Conns!Released(c)
    PROVE  CountsOf(Held)'
<1> DEFINE n(i) == Cardinality({d \in Held : StreamIp(d) = i})
<1>0. Held \in SUBSET Streams /\ {c} \in SUBSET Held /\ StreamIp(c) \in Conns!IPs
  BY DEF Held, Conns!IPs
<1>1. Cardinality({c}) = 1
  BY FS_Singleton
<1>2. Cardinality({c} \cap CarrierStreams) = Conns!One(c)
  <2>1. {c} \cap CarrierStreams = IF c \in CarrierStreams THEN {c} ELSE {}
    OBVIOUS
  <2> QED
    BY <1>1, <2>1, FS_EmptySet DEF Conns!One
<1>3. ASSUME NEW i PROVE Cardinality({d \in {c} : StreamIp(d) = i}) = IF i = StreamIp(c) THEN 1 ELSE 0
  <2>1. {d \in {c} : StreamIp(d) = i} = IF i = StreamIp(c) THEN {c} ELSE {}
    OBVIOUS
  <2> QED
    BY <1>1, <2>1, FS_EmptySet
<1>4. n(StreamIp(c)) \in Nat \ {0} /\ \A i : n(i) \in Nat
  <2>1. {d \in Held : StreamIp(d) = StreamIp(c)} # {}
    OBVIOUS
  <2> QED
    BY <1>0, <2>1, CountsTyped, FS_EmptySet
<1>5. perIP' = [i \in Conns!IPs |-> perIP[i] - Cardinality({d \in {c} : StreamIp(d) = i})]
  <2> DEFINE one(i) == Cardinality({d \in {c} : StreamIp(d) = i})
  <2>3. \A i : one(i) = IF i = StreamIp(c) THEN 1 ELSE 0
    BY <1>3
  <2> HIDE DEF n, one
  <2>1. perIP = [i \in Conns!IPs |-> n(i)]
    BY DEF CountsOf, n
  <2>2. perIP' = [perIP EXCEPT ![StreamIp(c)] = IF @ <= 1 THEN 0 ELSE @ - 1]
    BY DEF Conns!Released
  <2>4. perIP' = [i \in Conns!IPs |-> perIP[i] - one(i)]
    BY <1>0, <1>4, <2>1, <2>2, <2>3
  <2> QED
    BY <2>4 DEF one
<1> QED
  BY <1>0, <1>1, <1>2, <1>5, CountFewer DEF Conns!Released

LEMMA HeldMoves ==
    ASSUME ConnTyped, NEW c \in Streams, NEW p, connPc' = [connPc EXCEPT ![c] = p]
    PROVE  Held' = IF p \in SlotPoints THEN Held \cup {c} ELSE Held \ {c}
  BY DEF Held, ConnTyped

LEMMA CountsStay ==
    ASSUME CountsOf(Held), Held' = Held, UNCHANGED <<total, carrier, perIP>>
    PROVE  CountsOf(Held)'
  BY DEF CountsOf

\* streamConn.Close with its goroutine's end: the first one frees the slot.
LEMMA CloseEffect ==
    ASSUME ConnTyped, ConnSlots, NEW c \in Streams, c \in Held \cup closedConns,
           connPc' = [connPc EXCEPT ![c] = "gone"], Conns!Close(c)
    PROVE  CountsOf(Held)' /\ (SlotsStay \/ SlotLeft(c))
<1>1. Held' = Held \ {c}
  BY HeldMoves DEF SlotPoints
<1>2. CASE c \in closedConns
  <2>1. c \notin Held
    BY <1>2 DEF ConnSlots, ClosedGone, Held, SlotPoints
  <2> QED
    BY <1>1, <1>2, <2>1, CountsStay DEF Conns!Close, Conns!counts, ConnSlots, SlotsStay
<1>3. CASE c \notin closedConns
  BY <1>1, <1>3, CountOneLess DEF Conns!Close, ConnSlots, SlotLeft
<1> QED
  BY <1>2, <1>3

\* What each step does to the slots and to the connections closed.
SlotEffect == SlotsStay \/ \E c \in Streams : SlotTakenBy(c) \/ SlotLeft(c)

LEMMA CloseForEffect ==
    ASSUME ConnTyped, ConnSlots, NEW c \in Streams, c \in Held \cup closedConns, Conns!CloseFor(c)
    PROVE  CountsOf(Held)' /\ SlotEffect
<1>1. CountsOf(Held)' /\ (SlotsStay \/ SlotLeft(c))
  BY CloseEffect DEF Conns!CloseFor, Conns!Goto
<1> QED
  BY <1>1 DEF SlotEffect, SlotLeft

LEMMA SlotsThroughStep ==
    ASSUME ConnTyped, ConnSlots, [Conns!Next]_(Conns!vars)
    PROVE  CountsOf(Held)' /\ SlotEffect
<1> DEFINE Goal == CountsOf(Held)' /\ SlotEffect
<1> SUFFICES Goal
  OBVIOUS
<1>0. ASSUME SlotsStay, UNCHANGED <<total, carrier, perIP>> PROVE Goal
  BY <1>0, CountsStay DEF SlotEffect, SlotsStay, ConnSlots
<1>1. ASSUME NEW c \in Streams, c \in Held \cup closedConns,
             connPc' = [connPc EXCEPT ![c] = "gone"], Conns!Close(c) PROVE Goal
  <2>1. CountsOf(Held)' /\ (SlotsStay \/ SlotLeft(c))
    BY <1>1, CloseEffect
  <2> QED
    BY <2>1 DEF SlotEffect, SlotLeft
<1> HIDE DEF Goal
<1>2. ASSUME NEW c \in Streams, Conns!Acquire(c) PROVE Goal
  <2>0. c \notin Held \cup closedConns
    BY <1>2 DEF Conns!Acquire, ConnSlots, ClosedGone, Held, SlotPoints
  <2>1. CASE connPc' = [connPc EXCEPT ![c] = "gone"] /\ UNCHANGED Conns!counts
    <3>1. Held' = Held \ {c}
      BY <2>1, HeldMoves DEF SlotPoints
    <3>2. Held' = Held
      BY <2>0, <3>1
    <3> QED
      BY <1>0, <1>2, <2>1, <3>2 DEF Conns!Acquire, Conns!counts, SlotsStay
  <2>2. CASE /\ Conns!Admits(c) /\ connPc' = [connPc EXCEPT ![c] = "admitted"]
             /\ total' = total + 1 /\ carrier' = carrier + Conns!One(c)
             /\ perIP' = [perIP EXCEPT ![StreamIp(c)] = @ + 1]
    <3>1. Held' = Held \cup {c}
      BY <2>2, HeldMoves DEF SlotPoints
    <3>2. CountsOf(Held)'
      BY <2>0, <2>2, <3>1, CountOneMore DEF ConnSlots
    <3>3. SlotTakenBy(c)
      BY <1>2, <2>0, <2>2, <3>1 DEF Conns!Acquire, SlotTakenBy
    <3> QED
      BY <3>2, <3>3 DEF Goal, SlotEffect
  <2> QED
    BY <1>2, <2>1, <2>2 DEF Conns!Acquire, Conns!Goto
<1>3. ASSUME NEW c \in Streams, Conns!Prepare(c) PROVE Goal
  <2>1. c \in Held
    BY <1>3 DEF Conns!Prepare, Held, SlotPoints
  <2>2. CASE connPc' = [connPc EXCEPT ![c] = "prepared"] /\ UNCHANGED <<Conns!counts, closedConns>>
    <3>1. Held' = Held
      BY <2>1, <2>2, HeldMoves DEF SlotPoints
    <3> QED
      BY <1>0, <2>2, <3>1 DEF Conns!counts, SlotsStay
  <2>3. CASE connPc' = [connPc EXCEPT ![c] = "gone"] /\ Conns!Close(c)
    BY <1>1, <2>1, <2>3
  <2> QED
    BY <1>3, <2>2, <2>3 DEF Conns!Prepare, Conns!Goto
<1>4. ASSUME NEW c \in Streams, Conns!HandOver(c) PROVE Goal
  <2>1. c \in Held
    BY <1>4 DEF Conns!HandOver, Held, SlotPoints
  <2>2. CASE connPc' = [connPc EXCEPT ![c] = "ready"] /\ UNCHANGED <<Conns!counts, closedConns>>
    <3>1. Held' = Held
      BY <2>1, <2>2, HeldMoves DEF SlotPoints
    <3> QED
      BY <1>0, <2>2, <3>1 DEF Conns!counts, SlotsStay
  <2>3. CASE connPc' = [connPc EXCEPT ![c] = "gone"] /\ Conns!Close(c)
    BY <1>1, <2>1, <2>3
  <2> QED
    BY <1>4, <2>2, <2>3 DEF Conns!HandOver, Conns!Goto
<1>5. ASSUME NEW c \in Streams, Conns!Accept(c) PROVE Goal
  <2>1. c \in Held
    BY <1>5 DEF Conns!Accept, ConnSlots, HandedWait, Held, SlotPoints
  <2>2. Held' = Held
    <3>1. connPc' = [connPc EXCEPT ![c] = "reading"]
      BY <1>5 DEF Conns!Accept, Conns!Goto
    <3>2. "reading" \in SlotPoints
      BY DEF SlotPoints
    <3> QED
      BY <2>1, <3>1, <3>2, HeldMoves
  <2> QED
    BY <1>0, <1>5, <2>2 DEF Conns!Accept, Conns!counts, SlotsStay
<1>6. ASSUME UNCHANGED connPc, UNCHANGED Conns!counts, UNCHANGED closedConns PROVE Goal
  BY <1>0, <1>6 DEF Conns!counts, SlotsStay, Held
<1>7. ASSUME NEW c \in Streams, Conns!Read(c) \/ Conns!Timeout(c) \/ Conns!PoolClose(c) \/ Conns!Use(c)
      PROVE  Goal
  <2>1. c \in Held \cup closedConns
    BY <1>7 DEF Conns!Read, Conns!Timeout, Conns!Due, Conns!PoolClose, Conns!Use, Held, SlotPoints
  <2>2. CASE Conns!CloseFor(c)
    BY <2>1, <2>2, CloseForEffect DEF Goal
  <2>3. CASE UNCHANGED connPc /\ UNCHANGED Conns!counts /\ UNCHANGED closedConns
    BY <1>6, <2>3
  <2> QED
    BY <1>7, <2>2, <2>3 DEF Conns!Read, Conns!Timeout, Conns!PoolClose, Conns!Use
<1>8. ASSUME NEW c \in Streams, Conns!Drain(c) PROVE Goal
  <2>1. c \in Held
    BY <1>8 DEF Conns!Drain, ConnSlots, HandedWait, Held, SlotPoints
  <2> QED
    BY <1>1, <1>8, <2>1 DEF Conns!Drain, Conns!Goto
<1>9. CASE Conns!AcceptEnds \/ Conns!Shut \/ Conns!Drained \/ Conns!Tick \/ UNCHANGED Conns!vars
  BY <1>6, <1>9 DEF Conns!AcceptEnds, Conns!Shut, Conns!Drained, Conns!Tick, Conns!vars, Conns!counts
<1> QED
  BY <1>2, <1>3, <1>4, <1>5, <1>7, <1>8, <1>9 DEF Conns!Next

LEMMA ConnAges ==
    /\ 0 \in Conns!Ages /\ Conns!Ages \subseteq Nat /\ Idle \in Nat \ {0} /\ Message \in Nat /\ Message <= Idle
    /\ Conns!Zero = -1 /\ Conns!Zero \notin Conns!Ages /\ \A a \in Conns!Ages : a <= 3 * Idle + 1
  BY ConnsAssumption DEF Conns!ConstantsOK, Conns!Ages, Conns!Zero

LEMMA OlderAge ==
    ASSUME NEW a \in Conns!Ages, NEW c
    PROVE  /\ Conns!Older(a, c) \in Conns!Ages /\ a <= Conns!Older(a, c) /\ Conns!Older(a, c) <= a + 1
           /\ Conns!Older(a, c) \in Nat /\ Conns!Older(a, c) <= 3 * Idle + 1
           /\ connPc[c] # "reading" => Conns!Older(a, c) = a
           /\ connPc[c] = "reading" =>
                /\ a < Idle => Conns!Older(a, c) = a + 1
                /\ c \notin CarrierStreams /\ transport = "sip" => Conns!Older(a, c) = a + 1 \/ a = 3 * Idle + 1
<1>1. Idle \in Nat \ {0} /\ a \in 0..(3 * Idle + 1) /\ a # Conns!Zero
  BY ConnsAssumption, ConnAges DEF Conns!ConstantsOK, Conns!Ages
<1>2. Conns!Oldest(c) = IF c \in CarrierStreams THEN Idle
                        ELSE IF transport = "sip" THEN 3 * Idle + 1 ELSE 2 * Idle + 1
  BY DEF Conns!Oldest, Conns!Patience
<1>3. Conns!Ages = 0..(3 * Idle + 1)
  BY DEF Conns!Ages
<1>4. Conns!Older(a, c) = IF connPc[c] # "reading" \/ a >= Conns!Oldest(c) THEN a ELSE a + 1
  BY <1>1, Zenon DEF Conns!Older
<1> QED
  BY <1>1, <1>2, <1>3, <1>4

LEMMA OlderZero == \A c : Conns!Older(Conns!Zero, c) = Conns!Zero
  BY Zenon DEF Conns!Older

\* A connection's reader is through: nothing of it is left.
LEMMA ReaderEnds ==
    ASSUME ConnTyped, NEW c \in Streams, Conns!CloseFor(c)
    PROVE  /\ connPc' = [connPc EXCEPT ![c] = "gone"] /\ partial' = partial \ {c}
           /\ busy' = CarrierStreams \cup (busy \ {c}) /\ closedConns' \in {closedConns, closedConns \cup {c}}
           /\ since' = [since EXCEPT ![c] = 0] /\ lastMsg' = [lastMsg EXCEPT ![c] = Conns!Zero]
           /\ lastRead' = [lastRead EXCEPT ![c] = 0] /\ silent' = [silent EXCEPT ![c] = 0]
           /\ quiet' = [quiet EXCEPT ![c] = 0]
           /\ UNCHANGED <<handed, lis, serving>>
  BY DEF Conns!CloseFor, Conns!Goto, Conns!Close, Conns!listener

\* What one read does that does not close the connection.
ReadGoesOn(c, msg, began, rest) ==
    /\ Conns!Framed(c, msg, began, rest) /\ ~(~rest /\ ~msg /\ Conns!IdleNow(c))
    /\ lastMsg' = [lastMsg EXCEPT ![c] = IF msg \/ @ = Conns!Zero THEN 0 ELSE @]
    /\ silent' = [silent EXCEPT ![c] = IF msg THEN 0 ELSE @]
    /\ lastRead' = [lastRead EXCEPT ![c] = 0]
    /\ since' = [since EXCEPT ![c] = IF rest /\ ~began THEN @ ELSE 0]
    /\ partial' = IF rest THEN partial \cup {c} ELSE partial \ {c}
    /\ UNCHANGED <<connPc, Conns!counts, Conns!listener, closedConns, Conns!env>>

LEMMA ReadEffect ==
    ASSUME NEW c \in Streams, Conns!Read(c)
    PROVE  connPc[c] = "reading" /\ (Conns!CloseFor(c) \/ \E msg, began, rest \in BOOLEAN : ReadGoesOn(c, msg, began, rest))
<1>1. connPc[c] = "reading"
  BY DEF Conns!Read
<1>2. CASE Conns!CloseFor(c)
  BY <1>1, <1>2
<1>3. CASE ~Conns!CloseFor(c)
  <2>1. PICK msg, began, rest \in BOOLEAN :
            /\ Conns!Framed(c, msg, began, rest)
            /\ IF ~rest /\ ~msg /\ Conns!IdleNow(c)
               THEN Conns!CloseFor(c)
               ELSE ReadGoesOn(c, msg, began, rest)
    BY <1>3, Zenon DEF Conns!Read, ReadGoesOn
  <2> QED
    BY <1>1, <1>3, <2>1
<1> QED
  BY <1>2, <1>3

LEMMA ConnStaysTyped ==
    ASSUME ConnTyped, [Conns!Next]_(Conns!vars)
    PROVE  ConnTyped'
<1> USE DEF SlotPoints
<1>0. /\ transport \in {"sip", "ws"} /\ lis \in {"open", "draining", "shut"} /\ serving \in BOOLEAN
      /\ connPc \in [Streams -> {"new", "gone"} \cup SlotPoints]
      /\ handed \subseteq Streams /\ closedConns \subseteq Streams
      /\ partial \subseteq Streams /\ busy \subseteq Streams
      /\ since \in [Streams -> Conns!Ages] /\ lastMsg \in [Streams -> Conns!Ages \cup {Conns!Zero}]
      /\ lastRead \in [Streams -> Conns!Ages] /\ silent \in [Streams -> Conns!Ages]
      /\ quiet \in [Streams -> Conns!Ages] /\ 0 \in Conns!Ages
  BY ConnAges DEF ConnTyped
<1>1. ASSUME NEW c \in Streams, Conns!Acquire(c) \/ Conns!Prepare(c) \/ Conns!HandOver(c) \/ Conns!Drain(c),
             UNCHANGED transport
      PROVE  ConnTyped'
  <2>1. PICK p \in {"gone", "admitted", "prepared", "ready"} : connPc' = [connPc EXCEPT ![c] = p]
    BY <1>1, Zenon DEF Conns!Acquire, Conns!Prepare, Conns!HandOver, Conns!Drain, Conns!Goto
  <2>2. /\ closedConns' \in {closedConns, closedConns \cup {c}}
        /\ handed' \in {handed, handed \cup {c}, handed \ {c}} /\ UNCHANGED <<lis, serving>>
    BY <1>1, Zenon
       DEF Conns!Acquire, Conns!Prepare, Conns!HandOver, Conns!Drain, Conns!Close, Conns!listener
  <2>3. UNCHANGED <<Conns!reader, Conns!env>>
    BY <1>1, Zenon DEF Conns!Acquire, Conns!Prepare, Conns!HandOver, Conns!Drain
  <2> QED
    BY <1>0, <1>1, <2>1, <2>2, <2>3 DEF ConnTyped, Conns!reader, Conns!env
<1>2. ASSUME NEW c \in Streams, Conns!Accept(c), UNCHANGED transport PROVE ConnTyped'
  <2>1. lastMsg' \in [Streams -> Conns!Ages \cup {Conns!Zero}]
    BY <1>0, <1>2 DEF Conns!Accept
  <2> QED
    BY <1>0, <1>2, <2>1 DEF ConnTyped, Conns!Accept, Conns!Goto, Conns!env
<1>3. ASSUME NEW c \in Streams, Conns!CloseFor(c), UNCHANGED transport PROVE ConnTyped'
  BY <1>0, <1>3, ReaderEnds, StreamsFinite DEF ConnTyped
<1>4. ASSUME NEW c \in Streams, Conns!Read(c), UNCHANGED transport PROVE ConnTyped'
  <2>1. CASE Conns!CloseFor(c)
    BY <1>3, <1>4, <2>1
  <2>2. ASSUME NEW msg \in BOOLEAN, NEW began \in BOOLEAN, NEW rest \in BOOLEAN, ReadGoesOn(c, msg, began, rest)
        PROVE  ConnTyped'
    <3>1. /\ lastMsg' \in [Streams -> Conns!Ages \cup {Conns!Zero}] /\ since' \in [Streams -> Conns!Ages]
          /\ silent' \in [Streams -> Conns!Ages] /\ lastRead' \in [Streams -> Conns!Ages]
      BY <1>0, <2>2 DEF ReadGoesOn
    <3> QED
      BY <1>0, <1>4, <2>2, <3>1 DEF ReadGoesOn, ConnTyped, Conns!listener, Conns!env
  <2> QED
    BY <1>4, <2>1, <2>2, ReadEffect
<1>5. ASSUME NEW c \in Streams, Conns!Timeout(c) \/ Conns!PoolClose(c) \/ Conns!Use(c), UNCHANGED transport
      PROVE  ConnTyped'
  <2>1. CASE Conns!CloseFor(c)
    BY <1>3, <1>5, <2>1
  <2>2. CASE ~Conns!CloseFor(c)
    BY <1>0, <1>5, <2>2
       DEF ConnTyped, Conns!Timeout, Conns!PoolClose, Conns!Use, Conns!listener, Conns!env, Conns!reader
  <2> QED
    BY <2>1, <2>2
<1>6. ASSUME Conns!AcceptEnds \/ Conns!Shut \/ Conns!Drained, UNCHANGED transport PROVE ConnTyped'
  BY <1>0, <1>6 DEF ConnTyped, Conns!AcceptEnds, Conns!Shut, Conns!Drained, Conns!reader, Conns!env
<1>7. ASSUME Conns!Tick, UNCHANGED transport PROVE ConnTyped'
  <2>1. ASSUME NEW c \in Streams
        PROVE  /\ Conns!Older(since[c], c) \in Conns!Ages /\ Conns!Older(silent[c], c) \in Conns!Ages
               /\ Conns!Older(lastMsg[c], c) \in Conns!Ages \cup {Conns!Zero}
               /\ Conns!Older(lastRead[c], c) \in Conns!Ages /\ Conns!Older(quiet[c], c) \in Conns!Ages
    <3>1. /\ since[c] \in Conns!Ages /\ lastMsg[c] \in Conns!Ages \cup {Conns!Zero} /\ lastRead[c] \in Conns!Ages
          /\ silent[c] \in Conns!Ages /\ quiet[c] \in Conns!Ages
      BY <1>0
    <3> QED
      BY <3>1, OlderAge, OlderZero
  <2> QED
    BY <1>0, <1>7, <2>1 DEF ConnTyped, Conns!Tick, Conns!listener
<1>8. ASSUME UNCHANGED Conns!vars PROVE ConnTyped'
  BY <1>0, <1>8 DEF ConnTyped, Conns!vars
<1> QED
  BY <1>1, <1>2, <1>4, <1>5, <1>6, <1>7, <1>8 DEF Conns!Next

LEMMA ConnGuards ==
    ASSUME ConnTyped, ClosedGone, HandedWait, [Conns!Next]_(Conns!vars)
    PROVE  ClosedGone' /\ HandedWait'
<1> USE DEF ClosedGone, HandedWait
<1>0. /\ connPc \in [Streams -> {"new", "gone"} \cup SlotPoints]
      /\ handed \subseteq Streams /\ closedConns \subseteq Streams
  BY DEF ConnTyped
<1>1. ASSUME NEW c \in Streams, connPc' = [connPc EXCEPT ![c] = "gone"], handed' \in {handed, handed \ {c}},
             c \notin handed', closedConns' \in {closedConns, closedConns \cup {c}}
      PROVE  ClosedGone' /\ HandedWait'
  BY <1>0, <1>1
<1>2. ASSUME UNCHANGED <<connPc, handed, closedConns>> PROVE ClosedGone' /\ HandedWait'
  BY <1>2
<1>3. ASSUME NEW c \in Streams, Conns!Acquire(c) PROVE ClosedGone' /\ HandedWait'
  <2>1. PICK p \in {"gone", "admitted"} : connPc' = [connPc EXCEPT ![c] = p]
    BY <1>3, Zenon DEF Conns!Acquire, Conns!Goto
  <2> QED
    BY <1>0, <1>3, <2>1 DEF Conns!Acquire, Conns!listener
<1>4. ASSUME NEW c \in Streams, Conns!Prepare(c) PROVE ClosedGone' /\ HandedWait'
  <2>1. c \notin handed /\ c \notin closedConns /\ handed' = handed
    BY <1>4, Zenon DEF Conns!Prepare, Conns!listener
  <2>2. CASE connPc' = [connPc EXCEPT ![c] = "prepared"] /\ closedConns' = closedConns
    BY <1>0, <2>1, <2>2
  <2>3. CASE /\ connPc' = [connPc EXCEPT ![c] = "gone"]
             /\ closedConns' \in {closedConns, closedConns \cup {c}}
    BY <1>1, <2>1, <2>3
  <2> QED
    BY <1>4, <2>2, <2>3 DEF Conns!Prepare, Conns!Goto, Conns!Close
<1>5. ASSUME NEW c \in Streams, Conns!HandOver(c) PROVE ClosedGone' /\ HandedWait'
  <2>1. c \notin handed /\ c \notin closedConns
    BY <1>5, Zenon DEF Conns!HandOver
  <2>2. CASE /\ connPc' = [connPc EXCEPT ![c] = "ready"]
             /\ handed' = handed \cup {c} /\ closedConns' = closedConns
    BY <1>0, <2>1, <2>2
  <2>3. CASE /\ connPc' = [connPc EXCEPT ![c] = "gone"] /\ handed' = handed
             /\ closedConns' \in {closedConns, closedConns \cup {c}}
    BY <1>1, <2>1, <2>3
  <2> QED
    BY <1>5, <2>2, <2>3 DEF Conns!HandOver, Conns!Goto, Conns!Close
<1>6. ASSUME NEW c \in Streams, Conns!Accept(c) PROVE ClosedGone' /\ HandedWait'
  BY <1>0, <1>6 DEF Conns!Accept, Conns!Goto
<1>7. ASSUME NEW c \in Streams, Conns!CloseFor(c), connPc[c] \in {"reading", "gone"}
      PROVE  ClosedGone' /\ HandedWait'
  <2>1. c \notin handed
    BY <1>7, Zenon
  <2> QED
    BY <1>1, <1>7, <2>1, ReaderEnds
<1>8. ASSUME NEW c \in Streams, Conns!Read(c) \/ Conns!Timeout(c) \/ Conns!PoolClose(c) \/ Conns!Use(c)
      PROVE  ClosedGone' /\ HandedWait'
  <2>1. connPc[c] \in {"reading", "gone"}
    BY <1>8 DEF Conns!Read, Conns!Timeout, Conns!Due, Conns!PoolClose, Conns!Use
  <2>2. Conns!CloseFor(c) \/ UNCHANGED <<connPc, handed, closedConns>>
    BY <1>8 DEF Conns!Read, Conns!Timeout, Conns!PoolClose, Conns!Use, Conns!listener
  <2> QED
    BY <1>2, <1>7, <2>1, <2>2
<1>9. ASSUME NEW c \in Streams, Conns!Drain(c) PROVE ClosedGone' /\ HandedWait'
  <2>1. /\ connPc' = [connPc EXCEPT ![c] = "gone"] /\ handed' = handed \ {c}
        /\ closedConns' \in {closedConns, closedConns \cup {c}}
    BY <1>9 DEF Conns!Drain, Conns!Goto, Conns!Close
  <2> QED
    BY <1>1, <2>1
<1>10. CASE Conns!AcceptEnds \/ Conns!Shut \/ Conns!Drained \/ Conns!Tick \/ UNCHANGED Conns!vars
  BY <1>2, <1>10 DEF Conns!AcceptEnds, Conns!Shut, Conns!Drained, Conns!Tick, Conns!vars, Conns!listener
<1> QED
  BY <1>3, <1>4, <1>5, <1>6, <1>8, <1>9, <1>10 DEF Conns!Next

\* One connection's reader, by what happens to it.
LEMMA ReaderKept ==
    ASSUME ConnTyped, NEW c \in Streams, ReaderOf(c),
           connPc'[c] = connPc[c] \/ "reading" \notin {connPc[c], connPc'[c]},
           c \in busy' <=> c \in busy, c \in partial' <=> c \in partial,
           since'[c] = since[c], lastMsg'[c] = lastMsg[c], lastRead'[c] = lastRead[c],
           silent'[c] = silent[c], quiet'[c] = quiet[c], UNCHANGED transport
    PROVE  ReaderOf(c)'
  BY DEF ReaderOf, ReadingOf, Within

\* The numbers of one connection.
LEMMA ReaderNumbers ==
    ASSUME ConnTyped, NEW c \in Streams
    PROVE  /\ since[c] \in Conns!Ages /\ since[c] \in Nat /\ silent[c] \in Conns!Ages /\ silent[c] \in Nat
           /\ lastRead[c] \in Conns!Ages /\ lastRead[c] \in Nat /\ quiet[c] \in Conns!Ages /\ quiet[c] \in Nat
           /\ lastMsg[c] = Conns!Zero \/ (lastMsg[c] \in Conns!Ages /\ lastMsg[c] \in Nat)
           /\ lastMsg[c] \in Int /\ (lastMsg[c] # Conns!Zero <=> lastMsg[c] \in Nat)
           /\ Idle \in Nat \ {0} /\ Message \in Nat /\ Message <= Idle /\ Conns!Zero = -1
<1>1. /\ since[c] \in Conns!Ages /\ silent[c] \in Conns!Ages /\ lastRead[c] \in Conns!Ages
      /\ quiet[c] \in Conns!Ages /\ lastMsg[c] \in Conns!Ages \cup {Conns!Zero}
  BY DEF ConnTyped
<1>2. \A a \in Conns!Ages : a \in Nat /\ a # Conns!Zero
  BY ConnAges
<1>3. Conns!Zero = -1 /\ -1 \in Int /\ -1 \notin Nat
  BY ConnAges
<1>4. Nat \subseteq Int
  OBVIOUS
<1>5. Idle \in Nat \ {0} /\ Message \in Nat /\ Message <= Idle
  BY ConnAges
<1>6. lastMsg[c] = Conns!Zero \/ (lastMsg[c] \in Conns!Ages /\ lastMsg[c] \in Nat)
  BY <1>1, <1>2
<1>7. lastMsg[c] \in Int /\ (lastMsg[c] # Conns!Zero <=> lastMsg[c] \in Nat)
  BY <1>3, <1>4, <1>6, Zenon
<1> QED
  BY <1>1, <1>2, <1>3, <1>5, <1>6, <1>7, Zenon

\* A read that does not close.
LEMMA ReadKeeps ==
    ASSUME ConnTyped, NEW c \in Streams, ReaderOf(c), connPc[c] = "reading", UNCHANGED transport,
           NEW msg \in BOOLEAN, NEW began \in BOOLEAN, NEW rest \in BOOLEAN, ReadGoesOn(c, msg, began, rest)
    PROVE  ReaderOf(c)'
<1>0. /\ silent[c] \in Nat /\ lastRead[c] \in Nat /\ quiet[c] \in Nat /\ since[c] \in Nat /\ Idle \in Nat
      /\ lastMsg[c] \in Int /\ (lastMsg[c] # Conns!Zero <=> lastMsg[c] \in Nat) /\ Conns!Zero = -1
      /\ Message \in Nat /\ Message <= Idle
  BY ReaderNumbers
<1>1. /\ UNCHANGED <<transport, connPc, busy, quiet>> /\ ReadingOf(c)
      /\ lastRead'[c] = 0 /\ silent'[c] = IF msg THEN 0 ELSE silent[c]
      /\ lastMsg'[c] = IF msg \/ lastMsg[c] = Conns!Zero THEN 0 ELSE lastMsg[c]
      /\ since'[c] = IF rest /\ ~began THEN since[c] ELSE 0
      /\ c \in partial' <=> rest
  BY DEF ReadGoesOn, ReaderOf, ConnTyped, Conns!env
<1>2. (rest => c \in partial \/ began) /\ (transport = "sip" => began = (msg /\ rest))
  BY DEF ReadGoesOn, Conns!Framed
<1>3. rest => since'[c] <= Message /\ lastMsg'[c] # Conns!Zero /\ (transport = "sip" => silent'[c] = since'[c])
  <2> SUFFICES ASSUME rest PROVE since'[c] <= Message /\ lastMsg'[c] # Conns!Zero /\ (transport = "sip" => silent'[c] = since'[c])
    OBVIOUS
  <2>1. CASE began
    <3>1. since'[c] = 0 /\ (transport = "sip" => silent'[c] = 0)
      BY <1>1, <1>2, <2>1, Zenon
    <3>2. lastMsg'[c] # Conns!Zero
      BY <1>0, <1>1
    <3> QED
      BY <1>0, <3>1, <3>2
  <2>2. CASE ~began
    BY <1>0, <1>1, <1>2, <2>2 DEF ReadingOf
  <2> QED
    BY <2>1, <2>2
<1>4. ~rest => lastMsg'[c] <= Idle + lastRead'[c] \/ quiet'[c] <= Idle + lastRead'[c]
  <2> SUFFICES ASSUME ~rest PROVE lastMsg'[c] <= Idle \/ quiet'[c] <= Idle
    BY <1>0, <1>1
  <2>1. CASE msg \/ lastMsg[c] = Conns!Zero
    BY <1>0, <1>1, <2>1
  <2>2. CASE ~(msg \/ lastMsg[c] = Conns!Zero)
    <3>1. lastMsg'[c] = lastMsg[c] /\ (~(lastMsg[c] > Idle) \/ c \in busy)
      BY <1>1, <2>2 DEF ReadGoesOn, Conns!IdleNow
    <3> QED
      BY <1>0, <1>1, <3>1 DEF ReaderOf
  <2> QED
    BY <2>1, <2>2
<1>5. transport = "ws" => silent'[c] = lastMsg'[c]
  BY <1>0, <1>1 DEF ReadingOf
<1>6. transport = "sip" => lastMsg'[c] # Conns!Zero /\ (silent'[c] <= lastMsg'[c] + Idle \/ quiet'[c] <= lastMsg'[c] + Idle)
  <2> SUFFICES ASSUME transport = "sip"
               PROVE  lastMsg'[c] # Conns!Zero /\ (silent'[c] <= lastMsg'[c] + Idle \/ quiet'[c] <= lastMsg'[c] + Idle)
    OBVIOUS
  <2>1. CASE msg
    BY <1>0, <1>1, <2>1
  <2>2. CASE ~msg /\ lastMsg[c] # Conns!Zero
    <3>1. silent[c] <= lastMsg[c] + Idle \/ quiet[c] <= lastMsg[c] + Idle
      BY <1>1, <2>2 DEF ReadingOf, Within
    <3> QED
      BY <1>0, <1>1, <2>2, <3>1
  <2>3. CASE ~msg /\ lastMsg[c] = Conns!Zero
    <3>1. silent[c] <= lastRead[c] \/ quiet[c] <= lastRead[c]
      BY <1>1, <2>3 DEF ReadingOf, Within
    <3>2. lastRead[c] <= Idle
      BY <1>1, <2>3 DEF ReadingOf
    <3> QED
      BY <1>0, <1>1, <2>3, <3>1, <3>2
  <2> QED
    BY <2>1, <2>2, <2>3
<1>7. ReadingOf(c)'
  <2>1. IF c \in partial'
        THEN since'[c] <= Message /\ lastMsg'[c] # Conns!Zero /\ (transport' = "sip" => silent'[c] = since'[c])
        ELSE lastRead'[c] <= Idle /\ (lastMsg'[c] <= Idle + lastRead'[c] \/ quiet'[c] <= Idle + lastRead'[c])
    BY <1>0, <1>1, <1>3, <1>4
  <2>2. transport' = transport
    BY <1>1
  <2> QED
    BY <1>5, <1>6, <2>1, <2>2 DEF ReadingOf, Within, Conns!Zero
<1> QED
  BY <1>1, <1>7 DEF ReaderOf

\* Time passes.
LEMMA TickKeeps ==
    ASSUME ConnTyped, NEW c \in Streams, ReaderOf(c), Conns!Tick, UNCHANGED transport
    PROVE  ReaderOf(c)'
<1>0. /\ since[c] \in Conns!Ages /\ silent[c] \in Conns!Ages /\ lastRead[c] \in Conns!Ages /\ quiet[c] \in Conns!Ages
      /\ silent[c] \in Nat /\ lastRead[c] \in Nat /\ quiet[c] \in Nat /\ since[c] \in Nat /\ Idle \in Nat \ {0}
      /\ lastMsg[c] = Conns!Zero \/ (lastMsg[c] \in Conns!Ages /\ lastMsg[c] \in Nat)
      /\ Message \in Nat /\ Message <= Idle /\ Conns!Zero = -1 /\ Conns!Ages \subseteq Nat
  BY ReaderNumbers, ConnAges
<1>1. ~Conns!Due(c) /\ UNCHANGED <<transport, connPc, partial, busy>>
  BY DEF Conns!Tick
<1>2. /\ since'[c] = IF c \in partial THEN Conns!Older(since[c], c) ELSE since[c]
      /\ lastMsg'[c] = Conns!Older(lastMsg[c], c) /\ lastRead'[c] = Conns!Older(lastRead[c], c)
      /\ silent'[c] = Conns!Older(silent[c], c)
      /\ quiet'[c] = IF c \in busy THEN 0 ELSE Conns!Older(quiet[c], c)
  BY DEF Conns!Tick
<1>3. c \in busy => quiet'[c] = 0
  BY <1>2
<1>4. CASE connPc[c] # "reading"
  <2>1. lastRead'[c] = 0 /\ silent'[c] = 0
    BY <1>0, <1>2, <1>4, OlderAge DEF ReaderOf
  <2> QED
    BY <1>1, <1>3, <1>4, <2>1 DEF ReaderOf
<1>5. CASE connPc[c] = "reading"
  <2>0. ReadingOf(c)
    BY <1>5 DEF ReaderOf
  <2>1. /\ silent'[c] \in Nat /\ silent'[c] <= silent[c] + 1 /\ silent'[c] <= 3 * Idle + 1
        /\ quiet'[c] \in Nat /\ quiet'[c] <= quiet[c] + 1 /\ quiet'[c] <= 3 * Idle + 1
        /\ lastRead'[c] \in Nat /\ lastRead[c] <= lastRead'[c] /\ (lastRead[c] < Idle => lastRead'[c] = lastRead[c] + 1)
    <3>1. silent'[c] \in Nat /\ silent'[c] <= silent[c] + 1 /\ silent'[c] <= 3 * Idle + 1
      BY <1>0, <1>2, OlderAge, Zenon
    <3>2. /\ lastRead'[c] \in Nat /\ lastRead[c] <= lastRead'[c]
          /\ lastRead[c] < Idle => lastRead'[c] = lastRead[c] + 1
      BY <1>0, <1>2, <1>5, OlderAge, Zenon
    <3>3. CASE c \in busy
      BY <1>0, <1>3, <3>1, <3>2, <3>3
    <3>4. CASE c \notin busy
      <4>1. quiet'[c] \in Nat /\ quiet'[c] <= quiet[c] + 1 /\ quiet'[c] <= 3 * Idle + 1
        BY <1>0, <1>2, <3>4, OlderAge, Zenon
      <4> QED
        BY <3>1, <3>2, <4>1
    <3> QED
      BY <3>3, <3>4
  <2>2. lastMsg[c] = Conns!Zero => lastMsg'[c] = Conns!Zero
    BY <1>2, OlderZero
  <2>3. lastMsg[c] # Conns!Zero =>
          /\ lastMsg'[c] \in Nat /\ lastMsg'[c] <= lastMsg[c] + 1 /\ lastMsg'[c] # Conns!Zero
          /\ c \notin CarrierStreams /\ transport = "sip" => lastMsg'[c] = lastMsg[c] + 1 \/ lastMsg'[c] >= 3 * Idle + 1
    <3> SUFFICES ASSUME lastMsg[c] # Conns!Zero
                 PROVE  /\ lastMsg'[c] \in Nat /\ lastMsg'[c] <= lastMsg[c] + 1 /\ lastMsg'[c] # Conns!Zero
                        /\ c \notin CarrierStreams /\ transport = "sip" => lastMsg'[c] = lastMsg[c] + 1 \/ lastMsg'[c] >= 3 * Idle + 1
      OBVIOUS
    <3>1. /\ lastMsg'[c] \in Nat /\ lastMsg'[c] <= lastMsg[c] + 1 /\ lastMsg[c] <= lastMsg'[c]
          /\ c \notin CarrierStreams /\ transport = "sip" => lastMsg'[c] = lastMsg[c] + 1 \/ lastMsg[c] = 3 * Idle + 1
      BY <1>0, <1>2, <1>5, OlderAge, Zenon
    <3>2. lastMsg'[c] # Conns!Zero
      BY <1>0, <3>1
    <3> QED
      BY <3>1, <3>2
  <2>4. ASSUME c \in partial
        PROVE  since'[c] <= Message /\ lastMsg'[c] # Conns!Zero /\ (transport = "sip" => silent'[c] = since'[c])
    <3>1. since[c] < Message
      BY <1>0, <1>1, <1>5, <2>4 DEF Conns!Due
    <3>2. since'[c] <= Message
      <4>1. since'[c] \in Nat /\ since'[c] <= since[c] + 1
        BY <1>0, <1>2, <2>4, OlderAge, Zenon
      <4> QED
        BY <1>0, <3>1, <4>1
    <3>3. lastMsg'[c] # Conns!Zero /\ (transport = "sip" => silent'[c] = since'[c])
      BY <1>2, <2>0, <2>3, <2>4 DEF ReadingOf
    <3> QED
      BY <3>2, <3>3
  <2>5. ASSUME c \notin partial
        PROVE  lastRead'[c] <= Idle /\ (lastMsg'[c] <= Idle + lastRead'[c] \/ quiet'[c] <= Idle + lastRead'[c])
    <3>1. lastRead[c] < Idle /\ (lastMsg[c] <= Idle + lastRead[c] \/ quiet[c] <= Idle + lastRead[c])
      BY <1>0, <1>1, <1>5, <2>0, <2>5 DEF Conns!Due, ReadingOf
    <3>2. lastRead'[c] = lastRead[c] + 1
      BY <1>0, <2>1, <3>1
    <3>3. lastMsg'[c] <= Idle + lastRead'[c] \/ quiet'[c] <= Idle + lastRead'[c]
      <4>1. CASE lastMsg[c] = Conns!Zero
        BY <1>0, <2>2, <3>2, <4>1
      <4>2. CASE lastMsg[c] # Conns!Zero
        BY <1>0, <2>1, <2>3, <3>1, <3>2, <4>2
      <4> QED
        BY <4>1, <4>2
    <3> QED
      BY <1>0, <3>1, <3>2, <3>3
  <2>6. transport = "ws" => silent'[c] = lastMsg'[c]
    BY <1>2, <2>0 DEF ReadingOf
  <2>7. ASSUME transport = "sip", lastMsg[c] = Conns!Zero
        PROVE  lastMsg'[c] = Conns!Zero /\ (silent'[c] <= lastRead'[c] \/ quiet'[c] <= lastRead'[c])
    <3>1. c \notin partial /\ lastRead[c] < Idle /\ (silent[c] <= lastRead[c] \/ quiet[c] <= lastRead[c])
      BY <1>0, <1>1, <1>5, <2>0, <2>7 DEF Conns!Due, ReadingOf, Within
    <3> QED
      BY <1>0, <2>1, <2>2, <2>7, <3>1
  <2>8. ASSUME transport = "sip", lastMsg[c] # Conns!Zero
        PROVE  lastMsg'[c] # Conns!Zero /\ (silent'[c] <= lastMsg'[c] + Idle \/ quiet'[c] <= lastMsg'[c] + Idle)
    <3>1. silent[c] <= lastMsg[c] + Idle \/ quiet[c] <= lastMsg[c] + Idle
      BY <2>0, <2>8 DEF ReadingOf, Within
    <3>2. lastMsg[c] \in Nat
      BY <1>0, <2>8
    <3>3. CASE c \in CarrierStreams
      <4>1. quiet'[c] = 0
        BY <1>3, <3>3 DEF ReaderOf
      <4> QED
        BY <1>0, <2>3, <2>8, <4>1
    <3>4. CASE c \notin CarrierStreams
      BY <1>0, <2>1, <2>3, <2>8, <3>1, <3>2, <3>4
    <3> QED
      BY <3>3, <3>4
  <2>9. ReadingOf(c)'
    <3>1. transport' = transport /\ (c \in partial' <=> c \in partial) /\ Conns!Zero' = Conns!Zero
      BY <1>1 DEF Conns!Zero
    <3> QED
      BY <2>4, <2>5, <2>6, <2>7, <2>8, <3>1, Zenon DEF ReadingOf, Within
  <2> QED
    BY <1>1, <1>3, <1>5, <2>9 DEF ReaderOf
<1> QED
  BY <1>4, <1>5

LEMMA ReadersThroughStep ==
    ASSUME ConnTyped, ClosedGone, HandedWait, ReaderInv, [Conns!Next]_(Conns!vars)
    PROVE  ReaderInv'
<1> SUFFICES ASSUME NEW d \in Streams PROVE ReaderOf(d)'
  BY DEF ReaderInv
<1>0. /\ ReaderOf(d) /\ connPc \in [Streams -> {"new", "gone"} \cup SlotPoints]
      /\ since \in [Streams -> Conns!Ages] /\ lastMsg \in [Streams -> Conns!Ages \cup {Conns!Zero}]
      /\ lastRead \in [Streams -> Conns!Ages] /\ silent \in [Streams -> Conns!Ages]
      /\ quiet \in [Streams -> Conns!Ages]
  BY DEF ReaderInv, ConnTyped
<1>1. ASSUME NEW c \in Streams, Conns!Acquire(c) \/ Conns!Prepare(c) \/ Conns!HandOver(c) \/ Conns!Drain(c),
             UNCHANGED transport
      PROVE  ReaderOf(d)'
  <2>1. PICK p \in {"gone", "admitted", "prepared", "ready"} : connPc' = [connPc EXCEPT ![c] = p]
    BY <1>1, Zenon DEF Conns!Acquire, Conns!Prepare, Conns!HandOver, Conns!Drain, Conns!Goto
  <2>2. connPc[c] # "reading"
    BY <1>1, Zenon DEF Conns!Acquire, Conns!Prepare, Conns!HandOver, Conns!Drain, HandedWait
  <2>3. UNCHANGED <<Conns!reader, Conns!env>>
    BY <1>1, Zenon DEF Conns!Acquire, Conns!Prepare, Conns!HandOver, Conns!Drain
  <2> QED
    BY <1>0, <1>1, <2>1, <2>2, <2>3, ReaderKept DEF Conns!reader, Conns!env
<1>2. ASSUME NEW c \in Streams, Conns!Accept(c), UNCHANGED transport PROVE ReaderOf(d)'
  <2>1. connPc[c] = "ready"
    BY <1>2 DEF Conns!Accept, HandedWait
  <2>2. /\ connPc' = [connPc EXCEPT ![c] = "reading"]
        /\ lastMsg' = [lastMsg EXCEPT ![c] = IF transport = "ws" THEN 0 ELSE Conns!Zero]
        /\ UNCHANGED <<transport, partial, since, lastRead, silent, busy, quiet>>
    BY <1>2 DEF Conns!Accept, Conns!Goto, Conns!env
  <2>3. CASE d # c
    BY <1>0, <2>2, <2>3, ReaderKept
  <2>4. CASE d = c
    <3>1. c \notin partial /\ lastRead[c] = 0 /\ silent[c] = 0
      BY <1>0, <2>1, <2>4 DEF ReaderOf
    <3>2. connPc'[c] = "reading" /\ lastMsg'[c] = IF transport = "ws" THEN 0 ELSE Conns!Zero
      BY <1>0, <2>2
    <3>3. ReadingOf(c)'
      BY <2>2, <3>1, <3>2, ConnAges DEF ReadingOf, Within, Conns!Zero
    <3> QED
      BY <1>0, <2>2, <2>4, <3>2, <3>3 DEF ReaderOf
  <2> QED
    BY <2>3, <2>4
<1>3. ASSUME NEW c \in Streams, Conns!CloseFor(c), UNCHANGED transport PROVE ReaderOf(d)'
  <2>1. CASE d = c
    <3>1. connPc'[c] = "gone" /\ c \notin partial' /\ lastRead'[c] = 0 /\ silent'[c] = 0 /\ quiet'[c] = 0
      BY <1>0, <1>3, ReaderEnds
    <3>2. c \in CarrierStreams => c \in busy'
      BY <1>3, ReaderEnds
    <3> QED
      BY <2>1, <3>1, <3>2 DEF ReaderOf
  <2>2. CASE d # c
    <3>1. /\ connPc'[d] = connPc[d] /\ since'[d] = since[d] /\ lastMsg'[d] = lastMsg[d]
          /\ lastRead'[d] = lastRead[d] /\ silent'[d] = silent[d] /\ quiet'[d] = quiet[d]
      BY <1>0, <1>3, <2>2, ReaderEnds
    <3>2. (d \in partial' <=> d \in partial) /\ (d \in busy' <=> d \in busy)
      BY <1>0, <1>3, <2>2, ReaderEnds DEF ReaderOf
    <3> QED
      BY <1>0, <1>3, <3>1, <3>2, ReaderKept
  <2> QED
    BY <2>1, <2>2
<1>4. ASSUME NEW c \in Streams, Conns!Read(c), UNCHANGED transport PROVE ReaderOf(d)'
  <2>1. CASE Conns!CloseFor(c)
    BY <1>3, <1>4, <2>1
  <2>2. ASSUME NEW msg \in BOOLEAN, NEW began \in BOOLEAN, NEW rest \in BOOLEAN, ReadGoesOn(c, msg, began, rest)
        PROVE  ReaderOf(d)'
    <3>1. CASE d = c
      BY <1>0, <1>4, <2>2, <3>1, ReadEffect, ReadKeeps
    <3>2. CASE d # c
      BY <1>0, <1>4, <2>2, <3>2, ReaderKept DEF ReadGoesOn, Conns!env
    <3> QED
      BY <3>1, <3>2
  <2> QED
    BY <1>4, <2>1, <2>2, ReadEffect
<1>5. ASSUME NEW c \in Streams, Conns!Timeout(c) \/ Conns!PoolClose(c) \/ Conns!Use(c), UNCHANGED transport
      PROVE  ReaderOf(d)'
  <2>1. CASE Conns!CloseFor(c)
    BY <1>3, <1>5, <2>1
  <2>2. CASE ~Conns!CloseFor(c) /\ d # c
    <3>1. \/ lastRead' = [lastRead EXCEPT ![c] = 0]
             /\ UNCHANGED <<connPc, partial, since, lastMsg, silent, busy, quiet>>
          \/ quiet' = [quiet EXCEPT ![c] = 0] /\ UNCHANGED <<connPc, Conns!reader>>
             /\ busy' \in {busy \ {c}, busy \cup {c}}
      BY <1>5, <2>2 DEF Conns!Timeout, Conns!PoolClose, Conns!Use, Conns!env
    <3> QED
      BY <1>0, <1>5, <2>2, <3>1, ReaderKept DEF Conns!reader
  <2>3. CASE ~Conns!CloseFor(c) /\ d = c
    <3>1. /\ connPc[c] = "reading" /\ connPc' = connPc /\ partial' = partial
          /\ since' = since /\ lastMsg' = lastMsg /\ silent' = silent
          /\ lastRead' \in {lastRead, [lastRead EXCEPT ![c] = 0]} /\ quiet' \in {quiet, [quiet EXCEPT ![c] = 0]}
          /\ lastRead' # lastRead => c \notin partial
          /\ (c \in busy /\ busy' = busy /\ quiet' = quiet) \/ quiet' = [quiet EXCEPT ![c] = 0]
          /\ c \in CarrierStreams => busy' = busy
      BY <1>5, <2>3 DEF Conns!Timeout, Conns!Due, Conns!PoolClose, Conns!Use, Conns!env, Conns!reader
    <3>2. quiet'[c] = 0
      BY <1>0, <2>3, <3>1 DEF ReaderOf
    <3>3. ReadingOf(c) /\ lastRead'[c] \in {lastRead[c], 0}
      BY <1>0, <2>3, <3>1 DEF ReaderOf
    <3>4. /\ Idle \in Nat \ {0} /\ lastRead[c] \in Nat /\ Conns!Zero = -1
          /\ lastMsg[c] # Conns!Zero <=> lastMsg[c] \in Nat
      BY ReaderNumbers
    <3>5. ReadingOf(c)'
      <4>1. /\ UNCHANGED transport /\ Conns!Zero' = Conns!Zero
            /\ c \in partial' <=> c \in partial
            /\ since'[c] = since[c] /\ lastMsg'[c] = lastMsg[c] /\ silent'[c] = silent[c]
        BY <1>5, <3>1 DEF Conns!Zero
      <4>2. c \notin partial => lastRead'[c] <= Idle
        BY <3>3, <3>4 DEF ReadingOf
      <4>3. quiet'[c] <= Idle + lastRead'[c] /\ quiet'[c] <= lastRead'[c]
        BY <3>2, <3>3, <3>4
      <4>4. lastMsg[c] # Conns!Zero => quiet'[c] <= lastMsg[c] + Idle
        BY <3>2, <3>4
      <4> QED
        BY <3>3, <4>1, <4>2, <4>3, <4>4, Zenon DEF ReadingOf, Within
    <3> QED
      BY <1>0, <2>3, <3>1, <3>2, <3>5 DEF ReaderOf
  <2> QED
    BY <2>1, <2>2, <2>3
<1>6. ASSUME Conns!AcceptEnds \/ Conns!Shut \/ Conns!Drained, UNCHANGED transport PROVE ReaderOf(d)'
  <2>1. UNCHANGED <<transport, connPc, Conns!reader, Conns!env>>
    BY <1>6, Zenon DEF Conns!AcceptEnds, Conns!Shut, Conns!Drained
  <2> QED
    BY <1>0, <2>1, ReaderKept DEF Conns!reader, Conns!env
<1>7. ASSUME Conns!Tick, UNCHANGED transport PROVE ReaderOf(d)'
  BY <1>0, <1>7, TickKeeps
<1>8. ASSUME UNCHANGED Conns!vars PROVE ReaderOf(d)'
  BY <1>0, <1>8, ReaderKept DEF Conns!vars
<1> QED
  BY <1>1, <1>2, <1>4, <1>5, <1>6, <1>7, <1>8 DEF Conns!Next

LEMMA ConnsStart == ASSUME Conns!Init PROVE ConnInv
<1>1. ConnTyped
  BY ConnAges, StreamsFinite DEF Conns!Init, ConnTyped, SlotPoints
<1>2. ClosedGone /\ HandedWait
  BY Zenon DEF Conns!Init, ClosedGone, HandedWait
<1>3. CountsOf(Held)
  <2>1. Held = {}
    BY DEF Conns!Init, Held, SlotPoints
  <2>2. {} \cap CarrierStreams = {} /\ \A i : {c \in {} : StreamIp(c) = i} = {}
    OBVIOUS
  <2> QED
    BY <2>1, <2>2, FS_EmptySet DEF Conns!Init, CountsOf
<1>4. ReaderInv
  BY DEF Conns!Init, ReaderInv, ReaderOf
<1> QED
  BY <1>1, <1>2, <1>3, <1>4 DEF ConnInv, ConnSlots

LEMMA ConnsStep == ASSUME ConnInv, [Conns!Next]_(Conns!vars) PROVE ConnInv'
<1>1. ConnTyped' /\ ClosedGone' /\ HandedWait' /\ ReaderInv'
  BY ConnStaysTyped, ConnGuards, ReadersThroughStep DEF ConnInv, ConnSlots
<1>2. CountsOf(Held)'
  BY SlotsThroughStep DEF ConnInv
<1> QED
  BY <1>1, <1>2 DEF ConnInv, ConnSlots

\* However a failed handshake, a policy close, sipgo's pool and the
\* listener's end fall together, the three counters are the connections that
\* hold a slot; and keep-alives hold no connection that carries nothing
\* (acquire, release, Close, shut, arm, observe): for any connections, caps
\* and timeouts.
THEOREM SlotsCountedExactly == Conns!Spec => []StreamsExact
<1>1. Conns!Init => ConnInv
  BY ConnsStart
<1>2. ConnInv /\ [Conns!Next]_(Conns!vars) => ConnInv'
  BY ConnsStep
<1>3. ConnInv => StreamsExact
  <2> SUFFICES ASSUME ConnInv PROVE Conns!TypeOK /\ Conns!CountsExact /\ Conns!NoSquatting
    BY DEF StreamsExact
  <2>1. Conns!CountsExact
    <3>1. /\ {c \in Streams : Conns!Holds(c)} = Held
          /\ {c \in CarrierStreams : Conns!Holds(c)} = Held \cap CarrierStreams
          /\ \A i : {c \in Streams : Conns!Holds(c) /\ StreamIp(c) = i} = {c \in Held : StreamIp(c) = i}
      BY StreamsFinite DEF Conns!Holds, Held, SlotPoints
    <3>2. CountsOf(Held)
      BY DEF ConnInv, ConnSlots
    <3> QED
      BY <3>1, <3>2, SameConnCard DEF CountsOf, Conns!CountsExact
  <2>2. total \in Nat /\ carrier \in Nat /\ perIP \in [Conns!IPs -> Nat]
    <3>1. CountsOf(Held) /\ Held \in SUBSET Streams
      BY DEF ConnInv, ConnSlots, Held
    <3> QED
      BY <3>1, CountsTyped DEF CountsOf
  <2>3. Conns!TypeOK
    <3>1. ConnTyped
      BY DEF ConnInv
    <3>2. connPc \in [Streams -> {"new", "admitted", "prepared", "ready", "reading", "gone"}]
      BY <3>1 DEF ConnTyped, SlotPoints
    <3>3. {since, lastRead, silent, quiet} \subseteq [Streams -> Conns!Ages]
      BY <3>1 DEF ConnTyped
    <3> QED
      BY <2>2, <3>1, <3>2, <3>3, Zenon DEF ConnTyped, Conns!TypeOK
  <2>4. ASSUME NEW c \in Streams, connPc[c] = "reading"
        PROVE  IF c \in partial THEN since[c] <= Message /\ (transport = "sip" => silent[c] <= Message)
               ELSE silent[c] <= Conns!Patience \/ quiet[c] <= Conns!Patience
    <3>1. ReadingOf(c) /\ transport \in {"sip", "ws"}
      BY <2>4 DEF ConnInv, ReaderInv, ReaderOf, ConnTyped
    <3>2. /\ silent[c] \in Nat /\ quiet[c] \in Nat /\ lastRead[c] \in Nat /\ Idle \in Nat \ {0}
          /\ lastMsg[c] # Conns!Zero <=> lastMsg[c] \in Nat
      BY ReaderNumbers DEF ConnInv
    <3>3. Conns!Patience = IF transport = "sip" THEN 3 * Idle ELSE 2 * Idle
      BY <3>1, <3>2 DEF Conns!Patience
    <3>4. CASE c \in partial
      BY <3>1, <3>4 DEF ReadingOf
    <3>5. CASE c \notin partial /\ transport = "ws"
      BY <3>1, <3>2, <3>3, <3>5 DEF ReadingOf
    <3>6. CASE c \notin partial /\ transport = "sip"
      <4>1. CASE lastMsg[c] = Conns!Zero
        BY <3>1, <3>2, <3>3, <3>6, <4>1 DEF ReadingOf, Within
      <4>2. CASE lastMsg[c] # Conns!Zero
        BY <3>1, <3>2, <3>3, <3>6, <4>2 DEF ReadingOf, Within
      <4> QED
        BY <4>1, <4>2
    <3> QED
      BY <3>1, <3>4, <3>5, <3>6
  <2> QED
    BY <2>1, <2>3, <2>4 DEF Conns!NoSquatting
<1> QED
  BY <1>1, <1>2, <1>3, PTL DEF Conns!Spec

\* A function's graph has as many pairs as its arguments.
LEMMA PairedStreams ==
    ASSUME NEW S \in SUBSET Streams
    PROVE  Cardinality({<<c, StreamIp(c)>> : c \in S}) = Cardinality(S)
<1> DEFINE T == {<<c, StreamIp(c)>> : c \in S}
           pair == [c \in S |-> <<c, StreamIp(c)>>]
<1>1. pair \in [S -> T]
  OBVIOUS
<1>2. \A a, b \in S : pair[a] = pair[b] => a = b
  OBVIOUS
<1>3. \A t \in T : \E c \in S : pair[c] = t
  OBVIOUS
<1>4. ExistsBijection(S, T)
  BY <1>1, <1>2, <1>3 DEF ExistsBijection, Bijection, Injection, Surjection, IsInjective
<1>5. IsFiniteSet(S)
  BY CountsTyped
<1> QED
  BY <1>4, <1>5, FS_Bijection

\* The slots of public connections implement the bounded table of
\* AdmissionPool, whatever carriers hold: none is admitted beyond the table's
\* cap or its address's, and a closed connection is not counted again
\* (acquire, Close, shut).
THEOREM PublicConnsArePooled == Conns!Spec => ConnsArePooled
<1> DEFINE Public == Streams \ CarrierStreams
           apart == Held \cap Public
           paired == {<<c, StreamIp(c)>> : c \in apart}
           gone == closedConns \cap Public
<1>0. /\ {<<c, StreamIp(c)>> : c \in {o \in Public : Conns!Holds(o)}} = paired
      /\ {c \in Public : c \in closedConns} = gone
  BY DEF Held, Conns!Holds, SlotPoints
<1>1. Conns!Init => ConnInv
  BY ConnsStart
<1>2. ConnInv /\ [Conns!Next]_(Conns!vars) => ConnInv'
  BY ConnsStep
<1>3. Conns!Init => Conns!PublicPool!Init
  <2>1. Conns!Init => paired = {} /\ gone = {}
    BY DEF Conns!Init, Held, SlotPoints
  <2> QED
    BY <1>0, <2>1 DEF Conns!PublicPool!Init
<1>4. ConnInv /\ [Conns!Next]_(Conns!vars) => [Conns!PublicPool!Next]_(Conns!PublicPool!vars)
  <2> SUFFICES ASSUME ConnInv, [Conns!Next]_(Conns!vars)
               PROVE  [Conns!PublicPool!Next]_(Conns!PublicPool!vars)
    OBVIOUS
  <2>0. /\ {<<c, StreamIp(c)>> : c \in {o \in Public : Conns!Holds(o)}}' = paired'
        /\ {c \in Public : c \in closedConns}' = gone'
    BY DEF Held, Conns!Holds, SlotPoints
  <2>1. CASE paired' = paired /\ gone' = gone
    BY <1>0, <2>0, <2>1 DEF Conns!PublicPool!vars
  <2>2. ASSUME NEW c \in Streams, SlotTakenBy(c)
        PROVE  [Conns!PublicPool!Next]_(Conns!PublicPool!vars)
    <3>1. CASE c \in CarrierStreams
      BY <2>1, <2>2, <3>1 DEF SlotTakenBy
    <3>2. CASE c \notin CarrierStreams
      <4>0. Held \in SUBSET Streams /\ apart \in SUBSET Streams /\ CountsOf(Held)
        BY DEF Held, ConnInv, ConnSlots
      <4>1. Cardinality(apart) = total - carrier
        <5>2. Held \cap (Held \cap CarrierStreams) = Held \cap CarrierStreams
              /\ Held \ (Held \cap CarrierStreams) = apart
          BY <4>0
        <5>3. Cardinality(Held \ (Held \cap CarrierStreams))
              = Cardinality(Held) - Cardinality(Held \cap (Held \cap CarrierStreams))
          BY <4>0, CountsTyped, FS_Difference
        <5>4. total = Cardinality(Held) /\ carrier = Cardinality(Held \cap CarrierStreams)
          BY <4>0 DEF CountsOf
        <5> HIDE DEF apart
        <5> QED
          BY <5>2, <5>3, <5>4, Zenon
      <4>2. Cardinality(paired) < MaxTotal
        <5>1. Cardinality(paired) = Cardinality(apart)
          BY <4>0, PairedStreams, Zenon
        <5>2. total - carrier < MaxTotal
          BY <2>2, <3>2 DEF SlotTakenBy, Conns!Admits
        <5> QED
          BY <4>1, <5>1, <5>2, Zenon
      <4>3. PICK g \in Conns!IPs : g = StreamIp(c)
        BY DEF Conns!IPs
      <4>4. Cardinality({p \in paired : p[2] = g}) < MaxPerIP
        <5> DEFINE mine == {o \in apart : StreamIp(o) = g}
                   all == {o \in Held : StreamIp(o) = g}
        <5>1. {p \in paired : p[2] = g} = {<<o, StreamIp(o)>> : o \in mine}
          OBVIOUS
        <5>2. Cardinality({<<o, StreamIp(o)>> : o \in mine}) = Cardinality(mine)
          BY <4>0, PairedStreams
        <5>3. mine \subseteq all /\ IsFiniteSet(all) /\ Cardinality(all) \in Nat
          BY <4>0, CountsTyped
        <5>4. Cardinality(mine) \in Nat /\ Cardinality(mine) <= Cardinality(all)
          BY <5>3, FS_Subset, FS_CardinalityType
        <5>5. perIP[g] = Cardinality(all)
          BY <4>0, <4>3 DEF CountsOf
        <5>6. Cardinality(all) < MaxPerIP
          BY <2>2, <4>3, <5>5 DEF SlotTakenBy, Conns!Admits
        <5>7. Cardinality({p \in paired : p[2] = g}) = Cardinality(mine)
          BY <5>1, <5>2, Zenon
        <5> HIDE DEF mine, all
        <5>8. MaxPerIP \in Nat
          BY ConnsAssumption DEF Conns!ConstantsOK
        <5> QED
          BY <5>3, <5>4, <5>6, <5>7, <5>8
      <4>5. /\ c \in Public /\ c \notin gone /\ \A p \in paired : p[1] # c
            /\ paired' = paired \cup {<<c, g>>} /\ gone' = gone
        BY <2>2, <3>2, <4>3 DEF SlotTakenBy
      <4>6. Conns!PublicPool!Admit(c, g)
        <5>1. Conns!PublicPool!Charged(g) = {p \in paired : p[2] = g}
          BY <1>0 DEF Conns!PublicPool!Charged
        <5>2. /\ Conns!PublicPool!Cardinality(paired) < MaxTotal
              /\ Conns!PublicPool!Cardinality(Conns!PublicPool!Charged(g)) < MaxPerIP
          BY <4>2, <4>4, <5>1, SameConnCard
        <5> QED
          BY <1>0, <2>0, <4>5, <5>2 DEF Conns!PublicPool!Admit
      <4> QED
        BY <4>5, <4>6 DEF Conns!PublicPool!Next
    <3> QED
      BY <3>1, <3>2
  <2>3. ASSUME NEW c \in Streams, SlotLeft(c)
        PROVE  [Conns!PublicPool!Next]_(Conns!PublicPool!vars)
    <3>1. CASE c \in CarrierStreams
      BY <2>1, <2>3, <3>1 DEF SlotLeft
    <3>2. CASE c \notin CarrierStreams
      <4>1. PICK out \in SUBSET paired : out = {<<c, StreamIp(c)>>}
        BY <2>3, <3>2 DEF SlotLeft
      <4>2. /\ out # {} /\ out \subseteq paired /\ {p[1] : p \in out} = {c}
            /\ paired' = paired \ out /\ gone' = gone \cup {p[1] : p \in out}
        BY <2>3, <3>2, <4>1 DEF SlotLeft
      <4>3. Conns!PublicPool!Leave(out)
        BY <1>0, <2>0, <4>2 DEF Conns!PublicPool!Leave
      <4> QED
        BY <1>0, <4>1, <4>3 DEF Conns!PublicPool!Next
    <3> QED
      BY <3>1, <3>2
  <2>4. SlotEffect
    BY SlotsThroughStep DEF ConnInv
  <2>5. CASE SlotsStay
    BY <2>1, <2>5 DEF SlotsStay
  <2> QED
    BY <2>2, <2>3, <2>4, <2>5 DEF SlotEffect
<1> QED
  BY <1>1, <1>2, <1>3, <1>4, PTL
     DEF Conns!Spec, ConnsArePooled, Conns!ConnsArePooled, Conns!PublicPool!Spec

----------------------------------------------------------------------------
(* The connections dialed to a carrier.                                    *)

\* ensure between its lock and its return, and the connections there are.
Ensuring == {"checking", "dialing", "handing", "pooling"}
Opened == dialReady \cup pool \cup {r \in Dialers : dialPc[r] = "handing"}

\* One ensure at a time is past the destination's lock.
DialLocked ==
    /\ lock = {r \in Dialers : dialPc[r] \in Ensuring}
    /\ \A r, q \in lock : r = q

\* Until one stopped waiting: a connection not pooled yet has its ensure
\* waiting for it, and one is dialed only when there is none.
DialOnce ==
    /\ \A r \in dialReady : dialPc[r] = "pooling"
    /\ \A r \in Dialers : dialPc[r] \in {"dialing", "handing"} => dialReady = {} /\ pool = {}
    /\ \A r, q \in Opened : r = q
    /\ dialReady \cap pool = {}
DialFirst == ~late => DialOnce

DialTyped ==
    /\ dialPc \in [Dialers -> Dials!States] /\ lock \subseteq Dialers
    /\ dialReady \subseteq Dialers /\ pool \subseteq Dialers
DialInv == DialTyped /\ late \in BOOLEAN /\ shut \in BOOLEAN /\ DialLocked /\ DialFirst

LEMMA DialStep == ASSUME DialInv, [Dials!Next]_(Dials!vars) PROVE DialInv'
<1> DEFINE Goal == DialTyped' /\ DialLocked' /\ (DialOnce => DialOnce')
<1>0. /\ dialPc \in [Dialers -> Dials!States] /\ lock \subseteq Dialers
      /\ dialReady \subseteq Dialers /\ pool \subseteq Dialers /\ DialLocked
  BY DEF DialInv, DialTyped
<1> USE DEF Dials!States, Ensuring, Opened, DialTyped, DialLocked, DialOnce
<1>1. ASSUME NEW r \in Dialers, Dials!Ensure(r) PROVE Goal
  BY <1>0, <1>1 DEF Dials!Ensure, Dials!Goto
<1>2. ASSUME NEW r \in Dialers, Dials!Lock(r) PROVE Goal
  BY <1>0, <1>2 DEF Dials!Lock, Dials!Goto, Dials!Unlocked
<1>3. ASSUME NEW r \in Dialers, Dials!Check(r) PROVE Goal
  BY <1>0, <1>3 DEF Dials!Check, Dials!Goto, Dials!Return
<1>4. ASSUME NEW r \in Dialers, Dials!Dial(r) PROVE Goal
  BY <1>0, <1>4 DEF Dials!Dial, Dials!Goto, Dials!Return
<1>5. ASSUME NEW r \in Dialers, Dials!HandOver(r) PROVE Goal
  BY <1>0, <1>5 DEF Dials!HandOver, Dials!Goto, Dials!Return
<1>6. ASSUME NEW r \in Dialers, Dials!Pooled(r), pool # {} PROVE Goal
  BY <1>0, <1>6 DEF Dials!Pooled, Dials!Goto, Dials!Return
<1>u. ASSUME NEW r \in Dialers, Dials!Pooled(r), pool = {} PROVE DialTyped' /\ DialLocked' /\ late'
  <2>1. dialPc' = [dialPc EXCEPT ![r] = "failed"] /\ lock' = lock \ {r} /\ UNCHANGED <<dialReady, pool>>
    BY <1>u DEF Dials!Pooled, Dials!Goto, Dials!Return
  <2>2. late'
    BY <1>u, Zenon DEF Dials!Pooled
  <2> QED
    BY <1>0, <2>1, <2>2
<1>7. ASSUME NEW r \in Dialers, Dials!Serve(r) PROVE Goal
  BY <1>0, <1>7 DEF Dials!Serve
<1>8. ASSUME NEW r \in Dialers, Dials!Lost(r) PROVE Goal
  BY <1>0, <1>8 DEF Dials!Lost
<1>9. ASSUME Dials!Shut PROVE Goal
  BY <1>0, <1>9 DEF Dials!Shut
<1>10. ASSUME UNCHANGED Dials!vars PROVE Goal
  <2>1. UNCHANGED <<dialPc, lock, dialReady, pool>>
    BY <1>10, Zenon DEF Dials!vars
  <2> QED
    BY <1>0, <2>1
<1>11. late' \in BOOLEAN /\ shut' \in BOOLEAN /\ (late => late')
  BY Zenon DEF DialInv, Dials!Next, Dials!vars, Dials!Ensure, Dials!Lock, Dials!Check, Dials!Dial,
     Dials!HandOver, Dials!Pooled, Dials!Serve, Dials!Lost, Dials!Shut
<1> HIDE DEF DialTyped, DialLocked, DialOnce
<1>12. Goal \/ (DialTyped' /\ DialLocked' /\ late')
  BY <1>1, <1>2, <1>3, <1>4, <1>5, <1>6, <1>u, <1>7, <1>8, <1>9, <1>10 DEF Dials!Next
<1> QED
  BY <1>11, <1>12, Zenon DEF DialInv, DialFirst

LEMMA DialGives == ASSUME DialInv PROVE Dials!TypeOK /\ Dials!OneConnection
<1>1. Dials!TypeOK
  BY Zenon DEF DialInv, DialTyped, Dials!TypeOK
<1>2. ASSUME ~late PROVE Dials!Cardinality(Opened) <= 1
  <2>1. Opened = {} \/ \E r : Opened = {r}
    BY <1>2 DEF DialInv, DialFirst, DialOnce
  <2>2. \A S : Dials!Cardinality(S) = Cardinality(S)
    BY DEF Cardinality, Dials!Cardinality
  <2>3. Cardinality(Opened) \in {0, 1}
    BY <2>1, FS_EmptySet, FS_Singleton
  <2> QED
    BY <2>2, <2>3
<1> QED
  BY <1>1, <1>2, Zenon DEF Dials!OneConnection, Opened

----------------------------------------------------------------------------
(* The lines registered at a carrier.                                      *)

\* What the switch believes registered is in the table under the token every
\* process derives, and the carrier holds no other token.
LinesKnown == \A l \in believes : Lines!CarrierToken(l) \in live /\ byToken[Lines!CarrierToken(l)] = l
OneToken == \A t \in contacts : \E l \in TrunkLines : t = Lines!CarrierToken(l)
LinesInv == Lines!TypeOK /\ LinesKnown /\ OneToken

LEMMA LineTokens == \A l \in TrunkLines : Lines!CarrierToken(l) \in Lines!Tokens
  BY LinesAssumption DEF Lines!ConstantsOK, Lines!CarrierToken, Lines!Tokens

LEMMA LinesStep == ASSUME LinesInv, [Lines!Next]_(Lines!vars) PROVE LinesInv'
<1>0. /\ byToken \in [Lines!Tokens -> TrunkLines \cup {Lines!NoLine}] /\ live \subseteq Lines!Tokens
      /\ linePc \in [TrunkLines -> {"idle", "sent", "answered"}]
      /\ lineKind \in [TrunkLines -> {"none", "bind", "unbind", "wildcard"}]
      /\ contacts \subseteq Lines!Tokens /\ believes \subseteq TrunkLines
      /\ restarts \in 0..MaxRestarts /\ MaxRestarts \in Nat /\ LinesKnown /\ OneToken
  BY LinesAssumption DEF LinesInv, Lines!TypeOK, Lines!ConstantsOK
<1> DEFINE tok(l) == Lines!CarrierToken(l)
<1>t. /\ \A l \in TrunkLines : tok(l) \in Lines!Tokens
      /\ \A l, m \in TrunkLines : tok(l) = tok(m) => l = m
  BY LineTokens DEF Lines!CarrierToken
<1> USE DEF LinesInv, Lines!TypeOK, LinesKnown, OneToken
<1>1. ASSUME NEW l \in TrunkLines, NEW k \in {"bind", "unbind", "wildcard"}, Lines!Register(l, k)
      PROVE  LinesInv'
  BY <1>0, <1>1 DEF Lines!Register, Lines!CarrierToken
<1>2. ASSUME NEW l \in TrunkLines, Lines!Accept(l) PROVE LinesInv'
  <2>1. contacts' \subseteq contacts \cup {tok(l)} /\ linePc' = [linePc EXCEPT ![l] = "answered"]
    BY <1>2 DEF Lines!Accept
  <2>2. UNCHANGED <<byToken, live, lineKind, believes, restarts>>
    BY <1>2 DEF Lines!Accept
  <2>3. contacts' \subseteq Lines!Tokens /\ OneToken'
    BY <1>0, <1>t, <2>1 DEF Lines!CarrierToken
  <2> QED
    BY <1>0, <2>1, <2>2, <2>3 DEF Lines!CarrierToken
<1>3. ASSUME NEW l \in TrunkLines, Lines!Unanswered(l) PROVE LinesInv'
  BY <1>0, <1>3 DEF Lines!Unanswered, Lines!CarrierToken
<1>4. ASSUME NEW l \in TrunkLines, Lines!Record(l) PROVE LinesInv'
  <2>1. /\ linePc' = [linePc EXCEPT ![l] = "idle"] /\ lineKind' = [lineKind EXCEPT ![l] = "none"]
        /\ UNCHANGED <<contacts, restarts>>
    BY <1>4 DEF Lines!Record
  <2>2. OneToken'
    BY <1>0, <2>1 DEF Lines!CarrierToken
  <2>3. CASE lineKind[l] = "bind"
    <3>1. /\ byToken' = [byToken EXCEPT ![tok(l)] = l] /\ live' = live \cup {tok(l)}
          /\ believes' = believes \cup {l}
      BY <1>4, <2>3 DEF Lines!Record
    <3>2. ASSUME NEW m \in believes' PROVE tok(m) \in live' /\ byToken'[tok(m)] = m
      BY <1>0, <1>t, <3>1
    <3>3. LinesKnown'
      BY <3>2 DEF Lines!CarrierToken
    <3> QED
      BY <1>0, <1>t, <2>1, <2>2, <3>1, <3>3
  <2>4. CASE lineKind[l] # "bind"
    <3>1. PICK gone : /\ byToken' = [x \in Lines!Tokens |-> IF x \in gone THEN Lines!NoLine ELSE byToken[x]]
                      /\ live' = live \ gone
                      /\ gone = IF lineKind[l] = "wildcard" THEN Lines!RemoveNode(LineNode(l)) ELSE {tok(l)}
      BY <1>4, <2>4 DEF Lines!Record
    <3>2. believes' = IF lineKind[l] = "wildcard" THEN {m \in believes : LineNode(m) # LineNode(l)}
                      ELSE believes \ {l}
      BY <1>4, <2>4 DEF Lines!Record
    <3>3. ASSUME NEW m \in believes' PROVE tok(m) \in live' /\ byToken'[tok(m)] = m
      <4>1. m \in believes /\ m \in TrunkLines /\ tok(m) \in live /\ byToken[tok(m)] = m
        BY <1>0, <3>2
      <4>2. tok(m) \notin gone
        BY <1>0, <1>t, <3>1, <3>2, <4>1 DEF Lines!RemoveNode
      <4> QED
        BY <1>0, <3>1, <4>1, <4>2
    <3>4. LinesKnown'
      BY <3>3 DEF Lines!CarrierToken
    <3>5. believes' \subseteq TrunkLines /\ live' \subseteq Lines!Tokens
          /\ byToken' \in [Lines!Tokens -> TrunkLines \cup {Lines!NoLine}]
      BY <1>0, <3>1, <3>2
    <3> QED
      BY <1>0, <2>1, <2>2, <3>4, <3>5
  <2> QED
    BY <2>3, <2>4
<1>5. ASSUME NEW l \in TrunkLines, Lines!Expire(l) PROVE LinesInv'
  <2>1. /\ contacts' = contacts \ {tok(l)} /\ believes' = believes \ {l} /\ live' = live \ {tok(l)}
        /\ UNCHANGED <<byToken, linePc, lineKind, restarts>>
    BY <1>5 DEF Lines!Expire
  <2>2. ASSUME NEW m \in believes' PROVE tok(m) \in live' /\ byToken'[tok(m)] = m
    BY <1>0, <1>t, <2>1
  <2>3. LinesKnown' /\ OneToken'
    BY <1>0, <2>1, <2>2 DEF Lines!CarrierToken
  <2> QED
    BY <1>0, <2>1, <2>3
<1>6. CASE Lines!Prune
  BY <1>0, <1>6 DEF Lines!Prune, Lines!CarrierToken
<1>7. CASE Lines!Restart
  BY <1>0, <1>7 DEF Lines!Restart, Lines!CarrierToken
<1>8. CASE UNCHANGED Lines!vars
  BY <1>0, <1>8 DEF Lines!vars, Lines!CarrierToken
<1> QED
  BY <1>1, <1>2, <1>3, <1>4, <1>5, <1>6, <1>7, <1>8 DEF Lines!Next

LEMMA LinesGive == ASSUME LinesInv PROVE Lines!TypeOK /\ Lines!ContactsResolve
<1>1. ASSUME NEW l \in believes
      PROVE  /\ Lines!Lookup(Lines!CarrierToken(l)) = l
             /\ \A t \in contacts : t[1] = l => Lines!Lookup(t) = l
  <2>1. Lines!Lookup(Lines!CarrierToken(l)) = l
    BY DEF LinesInv, LinesKnown, Lines!Lookup
  <2>2. ASSUME NEW t \in contacts, t[1] = l PROVE t = Lines!CarrierToken(l)
    BY <2>2 DEF LinesInv, OneToken, Lines!CarrierToken
  <2> QED
    BY <2>1, <2>2
<1> QED
  BY <1>1 DEF LinesInv, Lines!ContactsResolve

----------------------------------------------------------------------------
(* The addresses of the carriers.                                          *)

DirTyped ==
    /\ srv \in [Trunks -> SUBSET Targets] /\ host \in [Targets -> Addrs]
    /\ addrs \in [Trunks -> SUBSET Addrs] /\ expiry \in [Trunks -> 0..TTL]
    /\ failing \subseteq Trunks /\ dirSnap \in [Trunks -> SUBSET Addrs]
    /\ dnsPc \in {"sleep", "check", "srv", "host", "apply"}
    /\ todo \subseteq Trunks /\ resolving \in Trunks \cup {Directory!Nobody}
    /\ recs \subseteq Targets /\ resolved \subseteq Addrs /\ elapsed \in 0..TTL

\* A lookup is for a carrier; what the entries hold is published but for the
\* sweep in progress, which knows whether it changed one.
Resolving == dnsPc \in {"srv", "host", "apply"} => resolving \in Trunks
PublishedIfSame == (~changed \/ dnsPc = "sleep") => dirSnap = addrs
DirInv == DirTyped /\ changed \in BOOLEAN /\ Resolving /\ PublishedIfSame

LEMMA DirStep == ASSUME DirInv, [Directory!Next]_(Directory!vars) PROVE DirInv'
<1> DEFINE Goal == DirTyped' /\ Resolving' /\ PublishedIfSame'
<1>0. /\ DirTyped /\ Resolving /\ PublishedIfSame /\ TTL \in Nat /\ NegTTL \in 0..TTL
  BY DirectoryAssumption DEF DirInv, Directory!ConstantsOK
<1> USE DEF DirTyped, Resolving, PublishedIfSame
<1>1. ASSUME Directory!Sweep PROVE Goal
  BY <1>0, <1>1 DEF Directory!Sweep, Directory!dns, Directory!entries
<1>2. ASSUME Directory!Check PROVE Goal
  BY <1>0, <1>2 DEF Directory!Check, Directory!dns, Directory!entries
<1>3. ASSUME Directory!LookupSRV PROVE Goal
  BY <1>0, <1>3 DEF Directory!LookupSRV, Directory!dns, Directory!entries
<1>4. ASSUME Directory!LookupHost PROVE Goal
  BY <1>0, <1>4 DEF Directory!LookupHost, Directory!dns, Directory!entries
<1>5. ASSUME Directory!LookupDone PROVE Goal
  BY <1>0, <1>5 DEF Directory!LookupDone, Directory!dns, Directory!entries, Directory!locals
<1>6. ASSUME Directory!Apply PROVE Goal
  <2>1. \A ttl \in 0..TTL : Directory!Left(ttl) \in 0..TTL
    BY <1>0 DEF Directory!Left
  <2>2. resolving \in Trunks /\ Directory!Left(IF resolved = {} THEN NegTTL ELSE TTL) \in 0..TTL
    BY <1>0, <1>6, <2>1 DEF Directory!Apply
  <2>3. Directory!Kept(resolving) \subseteq Addrs /\ (resolved = {} => addrs' = addrs)
    BY <1>0, <1>6, <2>2 DEF Directory!Apply, Directory!Kept
  <2>4. DirTyped' /\ Resolving'
    BY <1>0, <1>6, <2>2, <2>3 DEF Directory!Apply, Directory!dns
  <2>5. ~changed' => ~changed /\ resolved = {}
    BY <1>6, Zenon DEF Directory!Apply
  <2>6. dnsPc' # "sleep" /\ dirSnap' = dirSnap
    BY <1>6 DEF Directory!Apply
  <2> QED
    BY <1>0, <2>3, <2>4, <2>5, <2>6
<1>7. ASSUME Directory!Publish PROVE Goal
  <2>1. dirSnap' = addrs /\ addrs' = addrs
    BY <1>0, <1>7 DEF Directory!Publish, Directory!Published, Directory!entries
  <2> QED
    BY <1>0, <1>7, <2>1 DEF Directory!Publish, Directory!dns, Directory!entries, Directory!locals
<1>8. ASSUME Directory!Readdress PROVE Goal
  BY <1>0, <1>8 DEF Directory!Readdress, Directory!entries, Directory!locals
<1>9. ASSUME Directory!Tick PROVE Goal
  BY <1>0, <1>9 DEF Directory!Tick, Directory!dns
<1>10. ASSUME UNCHANGED Directory!vars PROVE Goal
  BY <1>0, <1>10 DEF Directory!vars
<1>11. changed' \in BOOLEAN
  BY Zenon DEF DirInv, Directory!Next, Directory!Refresh, Directory!vars, Directory!Sweep,
     Directory!Check, Directory!LookupSRV, Directory!LookupHost, Directory!LookupDone,
     Directory!Apply, Directory!Publish, Directory!Readdress, Directory!Tick, Directory!locals
<1> HIDE DEF DirTyped, Resolving, PublishedIfSame
<1>12. Goal
  BY <1>1, <1>2, <1>3, <1>4, <1>5, <1>6, <1>7, <1>8, <1>9, <1>10
     DEF Directory!Next, Directory!Refresh
<1> QED
  BY <1>11, <1>12 DEF DirInv

LEMMA DirStarts == Directory!Init => DirInv
<1>1. ASSUME Directory!Init PROVE DirTyped /\ Resolving /\ PublishedIfSame
  BY <1>1, DirectoryAssumption
     DEF Directory!ConstantsOK, Directory!Init, DirTyped, Resolving, PublishedIfSame
<1>2. ASSUME Directory!Init PROVE changed \in BOOLEAN
  BY <1>2, Zenon DEF Directory!Init
<1> QED
  BY <1>1, <1>2, Zenon DEF DirInv

\* However many requests find a carrier's connection missing at once, one is
\* dialed until a request gave up on its own (ensure); a carrier's call
\* reaches the line its Contact names, also one given out before a restart
\* (carrierToken, lookup, removeNode); and between refreshes admission and
\* the dial path read what the directory holds (apply, publish). For any
\* requests, lines, carriers, addresses and lifetimes.
THEOREM CarriersStayReachable ==
    Dials!Spec /\ Lines!Spec /\ Directory!Spec => []CarriersReached
<1>1. Dials!Init => DialInv
  <2>1. ASSUME Dials!Init PROVE DialTyped /\ DialLocked /\ DialOnce
    BY <2>1 DEF Dials!Init, DialTyped, DialLocked, DialOnce, Ensuring, Opened, Dials!States
  <2>2. ASSUME Dials!Init PROVE late \in BOOLEAN /\ shut \in BOOLEAN
    BY <2>2, Zenon DEF Dials!Init
  <2> QED
    BY <2>1, <2>2, Zenon DEF DialInv, DialFirst
<1>2. Lines!Init => LinesInv
  BY LinesAssumption DEF Lines!ConstantsOK, Lines!Init, LinesInv, Lines!TypeOK, LinesKnown, OneToken
<1>3. Directory!Init => DirInv
  BY DirStarts
<1>4. /\ DialInv /\ [Dials!Next]_(Dials!vars) => DialInv'
      /\ LinesInv /\ [Lines!Next]_(Lines!vars) => LinesInv'
      /\ DirInv /\ [Directory!Next]_(Directory!vars) => DirInv'
  BY DialStep, LinesStep, DirStep
<1>5. DialInv /\ LinesInv /\ DirInv => CarriersReached
  <2>1. DirInv => Directory!TypeOK
    BY Zenon DEF DirInv, DirTyped, Directory!TypeOK
  <2>2. DirInv => Directory!SnapshotCurrent
    BY DEF DirInv, PublishedIfSame, Directory!SnapshotCurrent
  <2> QED
    BY <2>1, <2>2, DialGives, LinesGive DEF CarriersReached
<1> QED
  BY <1>1, <1>2, <1>3, <1>4, <1>5, PTL DEF Dials!Spec, Lines!Spec, Directory!Spec

----------------------------------------------------------------------------
(* Lists that are kept by use.                                             *)

LEMMA AmongLists == \A o, S, T : Lists(o, S) /\ T \subseteq S => Lists(Among(o, T), T)
<1> SUFFICES ASSUME NEW o, NEW S, NEW T, Lists(o, S), T \subseteq S PROVE Lists(Among(o, T), T)
  OBVIOUS
<1>1. \A x, y \in T : <<x, y>> \in Among(o, T) <=> <<x, y>> \in o
  BY DEF Among
<1>2. Among(o, T) \subseteq T \X T
  BY DEF Among, Lists
<1> QED
  BY <1>1, <1>2 DEF Lists

LEMMA ToFrontLists ==
    \A o, S, T, x : Lists(o, S) /\ T \subseteq S => Lists(ToFront(o, x, T), T \cup {x})
<1> SUFFICES ASSUME NEW o, NEW S, NEW T, NEW x, Lists(o, S), T \subseteq S
             PROVE  Lists(ToFront(o, x, T), T \cup {x})
  OBVIOUS
<1> DEFINE f == ToFront(o, x, T)
           U == T \ {x}
<1>1. \A y, z \in U : <<y, z>> \in f <=> <<y, z>> \in o
  BY DEF ToFront, Among
<1>2. \A y \in U : <<x, y>> \in f /\ <<y, x>> \notin f
  BY DEF ToFront, Among
<1>3. <<x, x>> \notin f /\ f \subseteq (T \cup {x}) \X (T \cup {x})
  BY DEF ToFront, Among, Lists
<1>4. /\ \A y \in U : <<y, y>> \notin o
      /\ \A y, z \in U : y = z \/ <<y, z>> \in o \/ <<z, y>> \in o
      /\ \A w, y, z \in U : <<w, y>> \in o /\ <<y, z>> \in o => <<w, z>> \in o
  BY DEF Lists
<1> HIDE DEF f
<1>5. \A y \in T \cup {x} : y = x \/ y \in U
  OBVIOUS
<1>6. \A y \in T \cup {x} : <<y, y>> \notin f
  BY <1>1, <1>3, <1>4, <1>5
<1>7. \A y, z \in T \cup {x} : y = z \/ <<y, z>> \in f \/ <<z, y>> \in f
  BY <1>1, <1>2, <1>4, <1>5
<1>8. \A w, y, z \in T \cup {x} : <<w, y>> \in f /\ <<y, z>> \in f => <<w, z>> \in f
  <2> SUFFICES ASSUME NEW w \in T \cup {x}, NEW y \in T \cup {x}, NEW z \in T \cup {x},
                      <<w, y>> \in f, <<y, z>> \in f
               PROVE  <<w, z>> \in f
    OBVIOUS
  <2>1. y \in U
    BY <1>2, <1>3, <1>5
  <2>2. z \in U
    BY <1>2, <1>5, <2>1
  <2> QED
    BY <1>1, <1>2, <1>4, <1>5, <2>1, <2>2
<1> QED
  BY <1>3, <1>6, <1>7, <1>8 DEF Lists, f

LEMMA NothingLists == Lists({}, {})
  BY DEF Lists

\* A key more in a table that has room, or made room by dropping one.
LEMMA OneMoreFits ==
    \A S, T, x : \A cap \in Nat \ {0} :
       /\ IsFiniteSet(S) /\ Cardinality(S) <= cap /\ T \subseteq S
       /\ x \in S \/ Cardinality(S) < cap \/ T # S
       => IsFiniteSet(T \cup {x}) /\ Cardinality(T \cup {x}) <= cap
<1> SUFFICES ASSUME NEW S, NEW T, NEW x, NEW cap \in Nat \ {0},
                    IsFiniteSet(S), Cardinality(S) <= cap, T \subseteq S,
                    x \in S \/ Cardinality(S) < cap \/ T # S
             PROVE  IsFiniteSet(T \cup {x}) /\ Cardinality(T \cup {x}) <= cap
  OBVIOUS
<1>1. IsFiniteSet(T)
  BY FS_Subset
<1>2. Cardinality(S) \in Nat /\ Cardinality(T) \in Nat
  BY <1>1, FS_CardinalityType
<1>4. Cardinality(T) <= Cardinality(S) /\ (T # S => Cardinality(T) < Cardinality(S))
  BY <1>2, FS_Subset
<1>3. /\ IsFiniteSet(T \cup {x})
      /\ Cardinality(T \cup {x}) = IF x \in T THEN Cardinality(T) ELSE Cardinality(T) + 1
  BY <1>1, FS_AddElement
<1> QED
  BY <1>2, <1>3, <1>4

----------------------------------------------------------------------------
(* Token buckets.                                                          *)

LEMMA SameRateLists ==
    /\ \A o, S : Rates!Lists(o, S) <=> Lists(o, S)
    /\ \A o, S : Rates!Among(o, S) = Among(o, S)
    /\ \A o, x, S : Rates!ToFront(o, x, S) = ToFront(o, x, S)
  BY DEF Lists, Rates!Lists, Among, Rates!Among, ToFront, Rates!ToFront

LEMMA SameRateCard == \A S : Rates!Cardinality(S) = Cardinality(S)
  BY DEF Cardinality, Rates!Cardinality

LEMMA RateNumbers ==
    /\ Rate \in Nat \ {0} /\ Interval \in Nat \ {0} /\ BucketCap \in Nat \ {0}
    /\ Rates!Full \in Nat /\ Rates!Full >= Interval
<1>1. Rate \in Nat \ {0} /\ Interval \in Nat \ {0} /\ BucketCap \in Nat \ {0}
  BY RatesAssumption DEF Rates!ConstantsOK
<1>2. \A r, i \in Nat \ {0} : r * i \in Nat /\ r * i >= i
  OBVIOUS
<1> QED
  BY <1>1, <1>2 DEF Rates!Full

\* What a bucket holds, and what using it or waiting makes of that.
LEMMA BucketHolds ==
    \A b \in Rates!Bucket :
       /\ Rates!Refilled(b) \in 0..Rates!Full
       /\ b.idle = Interval => Rates!Refilled(b) = Rates!Full
<1> SUFFICES ASSUME NEW b \in Rates!Bucket
             PROVE  /\ Rates!Refilled(b) \in 0..Rates!Full
                    /\ b.idle = Interval => Rates!Refilled(b) = Rates!Full
  OBVIOUS
<1>1. b.tokens \in 0..Rates!Full /\ b.idle \in 0..Interval
  BY DEF Rates!Bucket
<1>2. b.idle * Rate \in Nat /\ (b.idle = Interval => b.idle * Rate = Rates!Full)
  <2>1. \A r, i \in Nat : r * i \in Nat /\ r * i = i * r
    OBVIOUS
  <2> QED
    BY <1>1, <2>1, RateNumbers DEF Rates!Full
<1> HIDE DEF Rates!Full
<1> QED
  BY <1>1, <1>2, RateNumbers DEF Rates!Refilled

LEMMA FreshHolds == Rates!Fresh \in Rates!Bucket /\ Rates!Refilled(Rates!Fresh) = Rates!Full
<1>1. Rates!Fresh \in Rates!Bucket
  BY RateNumbers DEF Rates!Fresh, Rates!Bucket
<1>2. 0 * Rate = 0
  BY RateNumbers
<1> QED
  BY <1>1, <1>2, RateNumbers DEF Rates!Fresh, Rates!Refilled

LEMMA ChargedHolds ==
    \A b \in Rates!Bucket :
       /\ Rates!Charged(b) \in Rates!Bucket
       /\ Rates!Refilled(Rates!Charged(b)) =
             IF Rates!Allows(b) THEN Rates!Refilled(b) - Interval ELSE Rates!Refilled(b)
       /\ Rates!Spent(b) \in Rates!Bucket
       /\ Rates!Refilled(Rates!Spent(b)) = IF Rates!Allows(b) THEN Rates!Refilled(b) - Interval ELSE 0
<1> SUFFICES ASSUME NEW b \in Rates!Bucket
             PROVE  /\ Rates!Charged(b) \in Rates!Bucket
                    /\ Rates!Refilled(Rates!Charged(b)) =
                          IF Rates!Allows(b) THEN Rates!Refilled(b) - Interval ELSE Rates!Refilled(b)
                    /\ Rates!Spent(b) \in Rates!Bucket
                    /\ Rates!Refilled(Rates!Spent(b)) =
                          IF Rates!Allows(b) THEN Rates!Refilled(b) - Interval ELSE 0
  OBVIOUS
<1>1. \A t \in 0..Rates!Full : /\ [tokens |-> t, idle |-> 0] \in Rates!Bucket
                               /\ Rates!Refilled([tokens |-> t, idle |-> 0]) = t
  <2>1. 0 * Rate = 0
    BY RateNumbers
  <2> QED
    BY <2>1, RateNumbers DEF Rates!Bucket, Rates!Refilled
<1>2. PICK r \in 0..Rates!Full : r = Rates!Refilled(b)
  BY BucketHolds
<1>3. Rates!Allows(b) => r - Interval \in 0..Rates!Full
  BY <1>2, RateNumbers DEF Rates!Allows
<1>4. 0 \in 0..Rates!Full
  BY RateNumbers
<1>5. /\ Rates!Charged(b) = [tokens |-> IF Rates!Allows(b) THEN r - Interval ELSE r, idle |-> 0]
      /\ Rates!Spent(b) = [tokens |-> IF Rates!Allows(b) THEN r - Interval ELSE 0, idle |-> 0]
  BY <1>2 DEF Rates!Charged, Rates!Spent
<1>6. CASE Rates!Allows(b)
  BY <1>1, <1>2, <1>3, <1>5, <1>6
<1>7. CASE ~Rates!Allows(b)
  BY <1>1, <1>2, <1>4, <1>5, <1>7
<1> QED
  BY <1>6, <1>7

LEMMA IdleTickHolds ==
    \A b \in Rates!Bucket :
       /\ Rates!IdleTick(b) \in Rates!Bucket
       /\ Rates!Refilled(Rates!IdleTick(b)) =
             IF Rates!Refilled(b) + Rate > Rates!Full THEN Rates!Full ELSE Rates!Refilled(b) + Rate
<1> SUFFICES ASSUME NEW b \in Rates!Bucket
             PROVE  /\ Rates!IdleTick(b) \in Rates!Bucket
                    /\ Rates!Refilled(Rates!IdleTick(b)) =
                          IF Rates!Refilled(b) + Rate > Rates!Full THEN Rates!Full
                          ELSE Rates!Refilled(b) + Rate
  OBVIOUS
<1>1. b.tokens \in 0..Rates!Full /\ b.idle \in 0..Interval
  BY DEF Rates!Bucket
<1>2. CASE b.idle < Interval
  <2>1. /\ Rates!IdleTick(b) \in Rates!Bucket
        /\ Rates!IdleTick(b).tokens = b.tokens /\ Rates!IdleTick(b).idle = b.idle + 1
    BY <1>1, <1>2, RateNumbers DEF Rates!IdleTick, Rates!Bucket
  <2>2. (b.idle + 1) * Rate = b.idle * Rate + Rate /\ b.idle * Rate \in Nat
    <3>1. \A r, i \in Nat : (i + 1) * r = i * r + r /\ i * r \in Nat
      OBVIOUS
    <3> QED
      BY <1>1, <3>1, RateNumbers
  <2> QED
    BY <1>1, <2>1, <2>2, RateNumbers DEF Rates!Refilled
<1>3. CASE ~(b.idle < Interval)
  <2>1. Rates!IdleTick(b) = b /\ b.idle = Interval
    BY <1>1, <1>3, RateNumbers DEF Rates!IdleTick, Rates!Bucket
  <2> QED
    BY <2>1, RateNumbers, BucketHolds
<1> QED
  BY <1>2, <1>3

Level(k) == Rates!Refilled(Rates!BucketOf(k))
Ideal(k) == Rates!Refilled(exact[k])
Asked(s, c) == Rates!Refilled(own[<<s, c>>])

RatesTyped ==
    /\ DOMAIN buckets \subseteq Rates!Keys /\ \A k \in DOMAIN buckets : buckets[k] \in Rates!Bucket
    /\ Lists(newer, DOMAIN buckets)
    /\ IsFiniteSet(DOMAIN buckets) /\ Cardinality(DOMAIN buckets) <= BucketCap
    /\ floor \subseteq Vouched \X Rates!Classes \X BOOLEAN
    /\ exact \in [Rates!Keys -> Rates!Bucket] /\ evicted \subseteq Rates!Keys
    /\ ahead \in [Rates!Keys -> Int] /\ own \in [Rates!Flows -> Rates!Bucket]

\* An evicted bucket is at most its surplus of requests above the exact one.
Balanced == \A k \in Rates!Keys :
    /\ ahead[k] >= 0
    /\ k \notin evicted => ahead[k] = 0 /\ Level(k) = Ideal(k)
    /\ k \in evicted => Level(k) + Interval * ahead[k] >= Ideal(k)

\* The floor of a socket holds no less than a bucket for all that it sends,
\* and still has the token of a request that is about to try it.
FloorHolds == \A s \in Vouched, c \in Rates!Classes :
    /\ Asked(s, c) <= Level(Rates!FloorKey(s, c))
    /\ <<s, c, TRUE>> \in floor => Asked(s, c) + Interval <= Level(Rates!FloorKey(s, c))
    /\ <<s, c, FALSE>> \in floor => Asked(s, c) = 0 /\ <<s, c, TRUE>> \notin floor

RatesInv == RatesTyped /\ Balanced /\ FloorHolds /\ unfair = FALSE

LEMMA RatesGive == RatesInv => Rates!TypeOK /\ Rates!NothingForgotten /\ Rates!FloorKept
<1> SUFFICES ASSUME RatesInv PROVE Rates!TypeOK /\ Rates!NothingForgotten /\ Rates!FloorKept
  OBVIOUS
<1>1. unfair \in BOOLEAN /\ Rates!FloorKept
  BY DEF RatesInv, Rates!FloorKept
<1>2. Rates!TypeOK
  BY <1>1, SameRateLists, SameRateCard, Zenon DEF RatesInv, RatesTyped, Rates!TypeOK
<1>3. Rates!NothingForgotten
  BY DEF RatesInv, Balanced, Level, Ideal, Rates!NothingForgotten
<1> QED
  BY <1>1, <1>2, <1>3

LEMMA LevelTyped ==
    ASSUME RatesTyped
    PROVE  /\ \A k \in Rates!Keys :
                 /\ Rates!BucketOf(k) \in Rates!Bucket /\ Level(k) \in 0..Rates!Full
                 /\ exact[k] \in Rates!Bucket /\ Ideal(k) \in 0..Rates!Full
                 /\ ahead[k] \in Int
           /\ \A s \in Vouched, c \in Rates!Classes :
                 /\ own[<<s, c>>] \in Rates!Bucket /\ Asked(s, c) \in 0..Rates!Full
                 /\ Rates!FloorKey(s, c) \in Rates!Keys
<1>1. \A k \in Rates!Keys : Rates!BucketOf(k) \in Rates!Bucket /\ exact[k] \in Rates!Bucket
  BY FreshHolds DEF RatesTyped, Rates!BucketOf
<1>2. \A s \in Vouched, c \in Rates!Classes : own[<<s, c>>] \in Rates!Bucket
  BY DEF RatesTyped, Rates!Flows
<1>3. \A s \in Vouched, c \in Rates!Classes : Rates!FloorKey(s, c) \in Rates!Keys
  BY DEF Rates!Keys
<1>4. \A k \in Rates!Keys : ahead[k] \in Int
  BY DEF RatesTyped
<1> QED
  BY <1>1, <1>2, <1>3, <1>4, BucketHolds DEF Level, Ideal, Asked

\* An evicted key that is even again is full on both sides.
LEMMA EvenIsFull ==
    ASSUME RatesTyped
    PROVE  \A k \in Rates!Keys : ~Rates!Uneven(k) => Level(k) = Rates!Full /\ Ideal(k) = Rates!Full
BY LevelTyped, RateNumbers DEF Rates!Uneven, Level, Ideal

LEMMA RatesStart == Rates!Init => RatesInv
<1> SUFFICES ASSUME Rates!Init PROVE RatesInv
  OBVIOUS
<1>1. /\ DOMAIN buckets = {} /\ newer = {} /\ floor = {} /\ evicted = {} /\ unfair = FALSE
      /\ exact = [k \in Rates!Keys |-> Rates!Fresh] /\ ahead = [k \in Rates!Keys |-> 0]
      /\ own = [f \in Rates!Flows |-> Rates!Fresh]
  BY DEF Rates!Init
<1>2. RatesTyped
  BY <1>1, FS_EmptySet, NothingLists, FreshHolds, RateNumbers DEF RatesTyped
<1>3. \A k \in Rates!Keys : Level(k) = Rates!Full /\ Ideal(k) = Rates!Full /\ ahead[k] = 0
  BY <1>1, FreshHolds DEF Level, Ideal, Rates!BucketOf
<1>4. Balanced
  BY <1>1, <1>3 DEF Balanced
<1>5. \A s \in Vouched, c \in Rates!Classes : Asked(s, c) = Rates!Full /\ Rates!FloorKey(s, c) \in Rates!Keys
  BY <1>1, FreshHolds DEF Asked, Rates!Flows, Rates!Keys
<1>6. FloorHolds
  BY <1>1, <1>3, <1>5, RateNumbers DEF FloorHolds
<1> QED
  BY <1>1, <1>2, <1>4, <1>6 DEF RatesInv

Paid(b) == IF Rates!Allows(b) THEN Interval ELSE 0

\* take charges its key, leaves the levels of the others, and may fill that
\* of a key it drops; the surplus is kept in step.
LEMMA TakeStep ==
    ASSUME RatesTyped, Balanced, NEW k \in Rates!Keys, Rates!Take(k),
           floor' \subseteq Vouched \X Rates!Classes \X BOOLEAN,
           own' \in [Rates!Flows -> Rates!Bucket]
    PROVE  /\ RatesTyped' /\ Balanced'
           /\ Level(k)' = Level(k) - Paid(Rates!BucketOf(k))
           /\ \A j \in Rates!Keys : j # k => Level(j)' \in {Level(j), Rates!Full}
<1>1. PICK out : /\ out \in Rates!Dropped(k)
                 /\ buckets' = [x \in (DOMAIN buckets \ out) \cup {k} |->
                                  IF x = k THEN Rates!Charged(Rates!BucketOf(k)) ELSE buckets[x]]
                 /\ newer' = Rates!ToFront(newer, k, DOMAIN buckets \ out)
                 /\ exact' = [exact EXCEPT ![k] = Rates!Charged(@)]
                 /\ evicted' = {x \in evicted \cup out : (Rates!Uneven(x))'}
                 /\ ahead' = [x \in Rates!Keys |->
                       IF x \in out \/ x \notin evicted' THEN 0
                       ELSE IF x = k THEN ahead[k] + Rates!One(Rates!Allows(Rates!BucketOf(k)))
                                            - Rates!One(Rates!Allows(exact[k]))
                       ELSE ahead[x]]
  BY DEF Rates!Take
<1> DEFINE stays == DOMAIN buckets \ out
           gave == Rates!One(Rates!Allows(Rates!BucketOf(k)))
           gives == Rates!One(Rates!Allows(exact[k]))
<1>2. out \subseteq DOMAIN buckets /\ k \notin out
  BY <1>1 DEF Rates!Dropped, Rates!Backmost
<1>3. k \in DOMAIN buckets \/ Cardinality(DOMAIN buckets) < BucketCap \/ stays # DOMAIN buckets
  BY <1>1, SameRateCard DEF Rates!Dropped, Rates!Backmost
<1>4. /\ DOMAIN buckets' = stays \cup {k}
      /\ buckets'[k] = Rates!Charged(Rates!BucketOf(k))
      /\ \A x \in stays : x # k => buckets'[x] = buckets[x]
  BY <1>1
<1>5. RatesTyped'
  <2>1. Lists(newer', stays \cup {k})
    BY <1>1, ToFrontLists, SameRateLists DEF RatesTyped
  <2>2. IsFiniteSet(stays \cup {k}) /\ Cardinality(stays \cup {k}) <= BucketCap
    BY <1>3, OneMoreFits, RateNumbers DEF RatesTyped
  <2>3. \A x \in stays \cup {k} : buckets'[x] \in Rates!Bucket
    BY <1>4, LevelTyped, ChargedHolds DEF RatesTyped
  <2>4. exact' \in [Rates!Keys -> Rates!Bucket]
    BY <1>1, LevelTyped, ChargedHolds DEF RatesTyped
  <2>5. evicted' \subseteq Rates!Keys
    BY <1>1, <1>2 DEF RatesTyped
  <2>6. ahead' \in [Rates!Keys -> Int]
    <3>1. gave \in Int /\ gives \in Int
      BY DEF Rates!One
    <3>2. ahead[k] + gave - gives \in Int
      BY <3>1, LevelTyped
    <3> QED
      BY <1>1, <3>2 DEF RatesTyped
  <2>7. stays \cup {k} \subseteq Rates!Keys
    BY DEF RatesTyped
  <2> QED
    BY <1>4, <2>1, <2>2, <2>3, <2>4, <2>5, <2>6, <2>7 DEF RatesTyped
<1>6. \A j \in Rates!Keys : (Rates!BucketOf(j))' =
         IF j = k THEN Rates!Charged(Rates!BucketOf(k))
         ELSE IF j \in out THEN Rates!Fresh ELSE Rates!BucketOf(j)
  BY <1>2, <1>4 DEF Rates!BucketOf
<1>7. /\ Level(k)' = Level(k) - Paid(Rates!BucketOf(k))
      /\ \A j \in Rates!Keys : j # k => Level(j)' = IF j \in out THEN Rates!Full ELSE Level(j)
  <2>1. \A j \in Rates!Keys : Level(j)' = Rates!Refilled((Rates!BucketOf(j))')
    BY DEF Level, Rates!Refilled, Rates!Full
  <2>2. Level(k) - 0 = Level(k)
    BY LevelTyped
  <2> QED
    BY <1>6, <2>1, <2>2, LevelTyped, ChargedHolds, FreshHolds DEF Level, Paid
<1>8. /\ Ideal(k)' = Ideal(k) - Paid(exact[k])
      /\ \A j \in Rates!Keys : j # k => Ideal(j)' = Ideal(j)
  <2>1. \A j \in Rates!Keys : exact'[j] = IF j = k THEN Rates!Charged(exact[k]) ELSE exact[j]
    BY <1>1 DEF RatesTyped
  <2>2. \A j \in Rates!Keys : Ideal(j)' = Rates!Refilled(exact'[j])
    BY DEF Ideal, Rates!Refilled, Rates!Full
  <2>3. Ideal(k) - 0 = Ideal(k)
    BY LevelTyped
  <2> QED
    BY <2>1, <2>2, <2>3, LevelTyped, ChargedHolds DEF Ideal, Paid
<1>9. Balanced'
  <2> SUFFICES ASSUME NEW j \in Rates!Keys
               PROVE  /\ ahead'[j] >= 0
                      /\ j \notin evicted' => ahead'[j] = 0 /\ Level(j)' = Ideal(j)'
                      /\ j \in evicted' => Level(j)' + Interval * ahead'[j] >= Ideal(j)'
    BY DEF Balanced, Level, Ideal
  <2>1. /\ Level(j) \in 0..Rates!Full /\ Ideal(j) \in 0..Rates!Full /\ ahead[j] \in Int
        /\ Level(k) \in 0..Rates!Full /\ Ideal(k) \in 0..Rates!Full
        /\ Paid(Rates!BucketOf(k)) = (IF Level(k) >= Interval THEN Interval ELSE 0)
        /\ Paid(exact[k]) = (IF Ideal(k) >= Interval THEN Interval ELSE 0)
        /\ gave = (IF Level(k) >= Interval THEN 1 ELSE 0)
        /\ gives = (IF Ideal(k) >= Interval THEN 1 ELSE 0)
    BY LevelTyped DEF Paid, Level, Ideal, Rates!Allows, Rates!One
  <2>2. Level(j)' \in 0..Rates!Full /\ Ideal(j)' \in 0..Rates!Full
    BY <1>7, <1>8, <2>1, RateNumbers
  <2>3. (j \in evicted' <=> (j \in evicted \cup out /\ (Level(j)' < Rates!Full \/ Ideal(j)' < Rates!Full)))
    BY <1>1 DEF Rates!Uneven, Level, Ideal, Rates!Full
  <2>4. ahead'[j] = IF j \in out \/ j \notin evicted' THEN 0
                    ELSE IF j = k THEN ahead[k] + gave - gives ELSE ahead[j]
    BY <1>1
  <2>5. /\ ahead[j] >= 0
        /\ j \notin evicted => ahead[j] = 0 /\ Level(j) = Ideal(j)
        /\ j \in evicted => Level(j) + Interval * ahead[j] >= Ideal(j)
    BY DEF Balanced
  <2>6. CASE j \notin evicted'
    <3>1. CASE j \in evicted \cup out
      BY <2>2, <2>3, <2>4, <2>6, <3>1, RateNumbers
    <3>2. CASE j \notin evicted \cup out
      BY <1>7, <1>8, <2>1, <2>4, <2>5, <2>6, <3>2
    <3> QED
      BY <3>1, <3>2
  <2>7. CASE j \in out /\ j \in evicted'
    <3>1. Level(j)' = Rates!Full
      BY <1>2, <1>7, <2>7
    <3>2. Interval * 0 = 0
      BY RateNumbers
    <3> QED
      BY <2>2, <2>4, <2>7, <3>1, <3>2, RateNumbers
  <2>8. CASE j \notin out /\ j \in evicted' /\ j # k
    BY <1>7, <1>8, <2>3, <2>4, <2>5, <2>8
  <2>9. CASE j \notin out /\ j \in evicted' /\ j = k
    <3>1. PICK a \in Int, x \in 0..Rates!Full, y \in 0..Rates!Full :
             a = ahead[k] /\ x = Level(k) /\ y = Ideal(k)
      BY <2>1, <2>9
    <3>2. a >= 0 /\ x + Interval * a >= y
      BY <2>3, <2>5, <2>9, <3>1
    <3>3. /\ \A i, m \in Int : i * (m + 1) = i * m + i /\ i * (m - 1) = i * m - i /\ i * 0 = 0
          /\ \A i \in Int, m \in Int : i * m \in Int
      OBVIOUS
    <3>4. /\ Interval * (a + 1) = Interval * a + Interval /\ Interval * (a - 1) = Interval * a - Interval
          /\ Interval * a \in Int /\ Interval * 0 = 0 /\ Interval \in Nat \ {0}
      BY <3>3, RateNumbers
    <3>5. ahead'[k] = a + gave - gives /\ Level(k)' = x - Paid(Rates!BucketOf(k))
          /\ Ideal(k)' = y - Paid(exact[k])
      BY <1>7, <1>8, <2>4, <2>9, <3>1
    <3>6. CASE x >= Interval /\ y >= Interval
      <4>1. ahead'[k] = a /\ Level(k)' = x - Interval /\ Ideal(k)' = y - Interval
        BY <2>1, <3>1, <3>5, <3>6
      <4> QED
        BY <2>9, <3>2, <3>4, <4>1
    <3>7. CASE x >= Interval /\ ~(y >= Interval)
      <4>1. ahead'[k] = a + 1 /\ Level(k)' = x - Interval /\ Ideal(k)' = y
        BY <2>1, <3>1, <3>5, <3>7
      <4> QED
        BY <2>9, <3>2, <3>4, <4>1
    <3>8. CASE ~(x >= Interval) /\ y >= Interval
      <4>1. ahead'[k] = a - 1 /\ Level(k)' = x /\ Ideal(k)' = y - Interval
        BY <2>1, <3>1, <3>5, <3>8
      <4>2. a >= 1
        BY <3>2, <3>4, <3>8
      <4> QED
        BY <2>9, <3>2, <3>4, <4>1, <4>2
    <3>9. CASE ~(x >= Interval) /\ ~(y >= Interval)
      <4>1. ahead'[k] = a /\ Level(k)' = x /\ Ideal(k)' = y
        BY <2>1, <3>1, <3>5, <3>9
      <4> QED
        BY <2>9, <3>2, <3>4, <4>1
    <3> QED
      BY <3>6, <3>7, <3>8, <3>9
  <2> QED
    BY <2>6, <2>7, <2>8, <2>9
<1> QED
  BY <1>5, <1>7, <1>8, <1>9

LEMMA RequestStep ==
    ASSUME RatesInv, NEW s \in Sockets, NEW c \in Rates!Classes, Rates!Request(s, c)
    PROVE  RatesInv'
<1> DEFINE k == Rates!IpKey(s, c)
           keeps == Rates!Allows(own[<<s, c>>])
           missed == ~Rates!Allows(Rates!BucketOf(k)) /\ s \in Vouched
<1>0. RatesTyped /\ Balanced /\ FloorHolds /\ unfair = FALSE
  BY DEF RatesInv
<1>1. /\ Rates!Take(k) /\ unfair' = unfair
      /\ floor' = IF Rates!Allows(Rates!BucketOf(k)) \/ s \notin Vouched THEN floor
                  ELSE floor \cup {<<s, c, keeps>>}
      /\ own' = IF s \in Vouched THEN [own EXCEPT ![<<s, c>>] = Rates!Spent(@)] ELSE own
      /\ \A f \in floor : <<f[1], f[2]>> # <<s, c>>
  BY DEF Rates!Request
<1>2. k \in Rates!Keys /\ keeps \in BOOLEAN
  BY DEF Rates!Keys, Rates!Allows
<1>3. floor' \subseteq Vouched \X Rates!Classes \X BOOLEAN
  BY <1>0, <1>1, <1>2 DEF RatesTyped
<1>4. /\ own' \in [Rates!Flows -> Rates!Bucket]
      /\ s \in Vouched => own'[<<s, c>>] = Rates!Spent(own[<<s, c>>])
      /\ \A x \in Vouched, d \in Rates!Classes :
            ~(s \in Vouched /\ x = s /\ d = c) => own'[<<x, d>>] = own[<<x, d>>]
  BY <1>0, <1>1, LevelTyped, ChargedHolds DEF RatesTyped, Rates!Flows
<1>5. /\ RatesTyped' /\ Balanced'
      /\ \A j \in Rates!Keys : j # k => Level(j)' \in {Level(j), Rates!Full}
  BY <1>0, <1>1, <1>2, <1>3, <1>4, TakeStep
<1>6. FloorHolds'
  <2> SUFFICES ASSUME NEW x \in Vouched, NEW d \in Rates!Classes
               PROVE  LET f == Rates!FloorKey(x, d) IN
                      /\ Asked(x, d)' <= Level(f)'
                      /\ <<x, d, TRUE>> \in floor' => Asked(x, d)' + Interval <= Level(f)'
                      /\ <<x, d, FALSE>> \in floor' => Asked(x, d)' = 0 /\ <<x, d, TRUE>> \notin floor'
    BY DEF FloorHolds, Asked, Level, Rates!FloorKey
  <2> DEFINE f == Rates!FloorKey(x, d)
  <2>1. f \in Rates!Keys /\ f # k
    BY <1>0, LevelTyped DEF Rates!FloorKey, Rates!IpKey
  <2>2. /\ Level(f) \in 0..Rates!Full /\ Level(f)' \in {Level(f), Rates!Full}
        /\ Asked(x, d) \in 0..Rates!Full
    BY <1>0, <1>5, <2>1, LevelTyped
  <2>3. /\ Asked(x, d) <= Level(f)
        /\ <<x, d, TRUE>> \in floor => Asked(x, d) + Interval <= Level(f)
        /\ <<x, d, FALSE>> \in floor => Asked(x, d) = 0 /\ <<x, d, TRUE>> \notin floor
    BY <1>0 DEF FloorHolds
  <2>4. Asked(x, d)' = Rates!Refilled(own'[<<x, d>>])
    BY DEF Asked, Rates!Refilled, Rates!Full
  <2>5. CASE s \in Vouched /\ x = s /\ d = c
    <3>1. Asked(x, d)' = IF Asked(x, d) >= Interval THEN Asked(x, d) - Interval ELSE 0
      BY <1>0, <1>4, <2>4, <2>5, LevelTyped, ChargedHolds DEF Asked, Rates!Allows
    <3>2. <<x, d, TRUE>> \notin floor /\ <<x, d, FALSE>> \notin floor
      BY <1>1, <2>5
    <3>3. keeps <=> Asked(x, d) >= Interval
      BY <2>5 DEF Asked, Rates!Allows
    <3>4. /\ <<x, d, TRUE>> \in floor' => keeps
          /\ <<x, d, FALSE>> \in floor' => ~keeps
      BY <1>1, <1>2, <2>5, <3>2
    <3> QED
      BY <2>2, <2>3, <3>1, <3>3, <3>4, RateNumbers
  <2>6. CASE ~(s \in Vouched /\ x = s /\ d = c)
    <3>1. Asked(x, d)' = Asked(x, d)
      BY <1>4, <2>4, <2>6 DEF Asked
    <3>2. /\ <<x, d, TRUE>> \in floor' <=> <<x, d, TRUE>> \in floor
          /\ <<x, d, FALSE>> \in floor' <=> <<x, d, FALSE>> \in floor
      BY <1>1, <2>6
    <3>3. Level(f) <= Level(f)' /\ Level(f)' \in Int /\ Level(f) \in Int /\ Asked(x, d) \in Int
      BY <2>2, RateNumbers
    <3> QED
      BY <2>3, <3>1, <3>2, <3>3, RateNumbers
  <2> QED
    BY <2>5, <2>6
<1> QED
  BY <1>0, <1>1, <1>5, <1>6 DEF RatesInv

LEMMA TryFloorStep ==
    ASSUME RatesInv, NEW s \in Vouched, NEW c \in Rates!Classes, NEW keeps \in BOOLEAN,
           Rates!TryFloor(s, c, keeps)
    PROVE  RatesInv'
<1> DEFINE k == Rates!FloorKey(s, c)
<1>0. RatesTyped /\ Balanced /\ FloorHolds /\ unfair = FALSE
  BY DEF RatesInv
<1>1. /\ <<s, c, keeps>> \in floor /\ Rates!Take(k)
      /\ floor' = floor \ {<<s, c, keeps>>} /\ own' = own
      /\ unfair' = (unfair \/ (keeps /\ ~Rates!Allows(Rates!BucketOf(k))))
  BY Zenon DEF Rates!TryFloor
<1>2. k \in Rates!Keys
  BY <1>0, LevelTyped
<1>3. /\ RatesTyped' /\ Balanced'
      /\ Level(k)' = Level(k) - Paid(Rates!BucketOf(k))
      /\ \A j \in Rates!Keys : j # k => Level(j)' \in {Level(j), Rates!Full}
  <2>1. floor' \subseteq Vouched \X Rates!Classes \X BOOLEAN /\ own' \in [Rates!Flows -> Rates!Bucket]
    BY <1>0, <1>1 DEF RatesTyped
  <2> QED
    BY <1>0, <1>1, <1>2, <2>1, TakeStep
<1>4. /\ Asked(s, c) \in 0..Rates!Full /\ Level(k) \in 0..Rates!Full
      /\ Asked(s, c) <= Level(k)
      /\ keeps => Asked(s, c) + Interval <= Level(k)
      /\ ~keeps => Asked(s, c) = 0 /\ <<s, c, TRUE>> \notin floor
      /\ keeps => <<s, c, FALSE>> \notin floor
  BY <1>0, <1>1, <1>2, LevelTyped DEF FloorHolds
<1>5. Rates!Allows(Rates!BucketOf(k)) <=> Level(k) >= Interval
  BY DEF Rates!Allows, Level
<1>6. unfair' = FALSE
  <2>1. keeps => Level(k) >= Interval
    BY <1>4, RateNumbers
  <2> QED
    BY <1>0, <1>1, <1>5, <2>1, Zenon
<1>7. FloorHolds'
  <2> SUFFICES ASSUME NEW x \in Vouched, NEW d \in Rates!Classes
               PROVE  LET f == Rates!FloorKey(x, d) IN
                      /\ Asked(x, d)' <= Level(f)'
                      /\ <<x, d, TRUE>> \in floor' => Asked(x, d)' + Interval <= Level(f)'
                      /\ <<x, d, FALSE>> \in floor' => Asked(x, d)' = 0 /\ <<x, d, TRUE>> \notin floor'
    BY DEF FloorHolds, Asked, Level, Rates!FloorKey
  <2> DEFINE f == Rates!FloorKey(x, d)
  <2>1. Asked(x, d)' = Asked(x, d)
    BY <1>1 DEF Asked, Rates!Refilled, Rates!Full
  <2>2. CASE x = s /\ d = c
    <3>1. <<x, d, TRUE>> \notin floor' /\ <<x, d, FALSE>> \notin floor'
      BY <1>1, <1>4, <2>2
    <3>2. Level(f)' = IF Level(f) >= Interval THEN Level(f) - Interval ELSE Level(f) - 0
      BY <1>3, <1>5, <2>2 DEF Paid
    <3>3. Asked(s, c) <= Level(k)'
      BY <1>4, <2>2, <3>2, RateNumbers
    <3> QED
      BY <2>1, <2>2, <3>1, <3>3
  <2>3. CASE ~(x = s /\ d = c)
    <3>1. f # k /\ f \in Rates!Keys
      BY <1>0, <2>3, LevelTyped DEF Rates!FloorKey
    <3>2. /\ Level(f) \in 0..Rates!Full /\ Level(f)' \in {Level(f), Rates!Full}
          /\ Asked(x, d) \in 0..Rates!Full
      BY <1>0, <1>3, <3>1, LevelTyped
    <3>3. Level(f) <= Level(f)' /\ Level(f)' \in Int /\ Level(f) \in Int /\ Asked(x, d) \in Int
      BY <3>2, RateNumbers
    <3>4. /\ <<x, d, TRUE>> \in floor' <=> <<x, d, TRUE>> \in floor
          /\ <<x, d, FALSE>> \in floor' <=> <<x, d, FALSE>> \in floor
      BY <1>1, <2>3
    <3>5. /\ Asked(x, d) <= Level(f)
          /\ <<x, d, TRUE>> \in floor => Asked(x, d) + Interval <= Level(f)
          /\ <<x, d, FALSE>> \in floor => Asked(x, d) = 0 /\ <<x, d, TRUE>> \notin floor
      BY <1>0 DEF FloorHolds
    <3> QED
      BY <2>1, <3>3, <3>4, <3>5, RateNumbers
  <2> QED
    BY <2>2, <2>3
<1> QED
  BY <1>3, <1>6, <1>7 DEF RatesInv

\* A bucket idle for its interval is full, as one that is not there.
LEMMA PruneStep == ASSUME RatesInv, Rates!Prune PROVE RatesInv'
<1> DEFINE stays == {k \in DOMAIN buckets : buckets[k].idle < Interval}
<1>0. RatesTyped /\ Balanced /\ FloorHolds /\ unfair = FALSE
  BY DEF RatesInv
<1>1. /\ buckets' = [k \in stays |-> buckets[k]] /\ newer' = Rates!Among(newer, stays)
      /\ UNCHANGED <<floor, exact, evicted, ahead, own, unfair>>
  BY DEF Rates!Prune, Rates!PruneIdle
<1>2. \A k \in Rates!Keys : Level(k)' = Level(k)
  <2> SUFFICES ASSUME NEW k \in Rates!Keys PROVE Level(k)' = Level(k)
    OBVIOUS
  <2>0. Level(k)' = Rates!Refilled((Rates!BucketOf(k))')
    BY DEF Level, Rates!Refilled, Rates!Full
  <2>1. CASE k \in DOMAIN buckets /\ ~(buckets[k].idle < Interval)
    <3>1. buckets[k] \in Rates!Bucket /\ Rates!BucketOf(k) = buckets[k]
      BY <1>0, <2>1 DEF RatesTyped, Rates!BucketOf
    <3>2. buckets[k].idle = Interval
      BY <2>1, <3>1, RateNumbers DEF Rates!Bucket
    <3>3. (Rates!BucketOf(k))' = Rates!Fresh
      BY <1>1, <2>1 DEF Rates!BucketOf, Rates!Fresh, Rates!Full
    <3> QED
      BY <2>0, <3>1, <3>2, <3>3, BucketHolds, FreshHolds DEF Level
  <2>2. CASE ~(k \in DOMAIN buckets /\ ~(buckets[k].idle < Interval))
    <3>1. (Rates!BucketOf(k))' = Rates!BucketOf(k)
      BY <1>1, <2>2 DEF Rates!BucketOf, Rates!Fresh, Rates!Full
    <3> QED
      BY <2>0, <3>1 DEF Level
  <2> QED
    BY <2>1, <2>2
<1>3. RatesTyped'
  <2>1. Lists(newer', stays)
    BY <1>0, <1>1, AmongLists, SameRateLists DEF RatesTyped
  <2>2. IsFiniteSet(stays) /\ Cardinality(stays) <= BucketCap
    <3>1. IsFiniteSet(stays) /\ Cardinality(stays) \in Nat /\ Cardinality(DOMAIN buckets) \in Nat
      BY <1>0, FS_Subset, FS_CardinalityType DEF RatesTyped
    <3>2. Cardinality(stays) <= Cardinality(DOMAIN buckets)
      BY <1>0, FS_Subset DEF RatesTyped
    <3> QED
      BY <1>0, <3>1, <3>2, RateNumbers DEF RatesTyped
  <2>3. DOMAIN buckets' = stays /\ \A k \in stays : buckets'[k] = buckets[k]
    BY <1>1
  <2> QED
    BY <1>0, <1>1, <2>1, <2>2, <2>3 DEF RatesTyped
<1>4. Balanced'
  BY <1>0, <1>1, <1>2 DEF Balanced, Ideal, Rates!Refilled, Rates!Full
<1>5. FloorHolds'
  <2>1. \A s \in Vouched, c \in Rates!Classes :
           /\ Asked(s, c)' = Asked(s, c)
           /\ Rates!FloorKey(s, c) \in Rates!Keys
           /\ Level(Rates!FloorKey(s, c))' = Level(Rates!FloorKey(s, c))
    BY <1>0, <1>1, <1>2, LevelTyped DEF Asked, Rates!Refilled, Rates!Full
  <2> QED
    BY <1>0, <1>1, <2>1 DEF FloorHolds
<1> QED
  BY <1>0, <1>1, <1>3, <1>4, <1>5 DEF RatesInv

LEMMA TickStep == ASSUME RatesInv, Rates!Tick PROVE RatesInv'
<1> DEFINE Filled(n) == IF n + Rate > Rates!Full THEN Rates!Full ELSE n + Rate
<1>0. RatesTyped /\ Balanced /\ FloorHolds /\ unfair = FALSE
  BY DEF RatesInv
<1>1. /\ floor = {} /\ floor' = floor /\ newer' = newer /\ unfair' = unfair
      /\ buckets' = [k \in DOMAIN buckets |-> Rates!IdleTick(buckets[k])]
      /\ exact' = [k \in Rates!Keys |-> Rates!IdleTick(exact[k])]
      /\ evicted' = {k \in evicted : (Rates!Uneven(k))'}
      /\ ahead' = [k \in Rates!Keys |-> IF k \in evicted' THEN ahead[k] ELSE 0]
      /\ own' = [f \in Rates!Flows |-> Rates!IdleTick(own[f])]
  BY DEF Rates!Tick
<1>2. RatesTyped'
  <2>1. /\ DOMAIN buckets' = DOMAIN buckets
        /\ \A k \in DOMAIN buckets : buckets'[k] \in Rates!Bucket
    BY <1>0, <1>1, IdleTickHolds DEF RatesTyped
  <2>2. exact' \in [Rates!Keys -> Rates!Bucket] /\ own' \in [Rates!Flows -> Rates!Bucket]
    BY <1>0, <1>1, IdleTickHolds DEF RatesTyped
  <2>3. ahead' \in [Rates!Keys -> Int] /\ evicted' \subseteq Rates!Keys
    BY <1>0, <1>1 DEF RatesTyped
  <2> QED
    BY <1>0, <1>1, <2>1, <2>2, <2>3 DEF RatesTyped
<1>3. \A k \in Rates!Keys : Level(k)' = Filled(Level(k))
  <2> SUFFICES ASSUME NEW k \in Rates!Keys PROVE Level(k)' = Filled(Level(k))
    OBVIOUS
  <2>1. Level(k)' = Rates!Refilled((Rates!BucketOf(k))')
    BY DEF Level, Rates!Refilled, Rates!Full
  <2>2. CASE k \in DOMAIN buckets
    <3>1. /\ (Rates!BucketOf(k))' = Rates!IdleTick(Rates!BucketOf(k))
          /\ Rates!BucketOf(k) \in Rates!Bucket
      BY <1>0, <1>1, <2>2 DEF Rates!BucketOf, RatesTyped
    <3> QED
      BY <2>1, <3>1, IdleTickHolds DEF Level
  <2>3. CASE k \notin DOMAIN buckets
    <3>1. (Rates!BucketOf(k))' = Rates!Fresh /\ Rates!BucketOf(k) = Rates!Fresh
      BY <1>1, <2>3 DEF Rates!BucketOf, Rates!Fresh, Rates!Full
    <3>2. Filled(Rates!Full) = Rates!Full
      BY RateNumbers
    <3> QED
      BY <2>1, <3>1, <3>2, FreshHolds DEF Level
  <2> QED
    BY <2>2, <2>3
<1>4. \A k \in Rates!Keys : Ideal(k)' = Filled(Ideal(k))
  <2> SUFFICES ASSUME NEW k \in Rates!Keys PROVE Ideal(k)' = Filled(Ideal(k))
    OBVIOUS
  <2>1. Ideal(k)' = Rates!Refilled(exact'[k]) /\ exact'[k] = Rates!IdleTick(exact[k])
    BY <1>1 DEF Ideal, Rates!Refilled, Rates!Full
  <2> QED
    BY <1>0, <2>1, IdleTickHolds, LevelTyped DEF Ideal
<1>5. \A s \in Vouched, c \in Rates!Classes : Asked(s, c)' = Filled(Asked(s, c))
  <2> SUFFICES ASSUME NEW s \in Vouched, NEW c \in Rates!Classes
               PROVE  Asked(s, c)' = Filled(Asked(s, c))
    OBVIOUS
  <2>1. Asked(s, c)' = Rates!Refilled(own'[<<s, c>>])
        /\ own'[<<s, c>>] = Rates!IdleTick(own[<<s, c>>])
    BY <1>1 DEF Asked, Rates!Refilled, Rates!Full, Rates!Flows
  <2> QED
    BY <1>0, <2>1, IdleTickHolds, LevelTyped DEF Asked
<1>6. Balanced'
  <2> SUFFICES ASSUME NEW j \in Rates!Keys
               PROVE  /\ ahead'[j] >= 0
                      /\ j \notin evicted' => ahead'[j] = 0 /\ Level(j)' = Ideal(j)'
                      /\ j \in evicted' => Level(j)' + Interval * ahead'[j] >= Ideal(j)'
    BY DEF Balanced, Level, Ideal
  <2>1. /\ Level(j) \in 0..Rates!Full /\ Ideal(j) \in 0..Rates!Full /\ ahead[j] \in Int
        /\ Level(j)' = Filled(Level(j)) /\ Ideal(j)' = Filled(Ideal(j))
    BY <1>0, <1>3, <1>4, LevelTyped
  <2>2. /\ ahead[j] >= 0
        /\ j \notin evicted => ahead[j] = 0 /\ Level(j) = Ideal(j)
        /\ j \in evicted => Level(j) + Interval * ahead[j] >= Ideal(j)
    BY <1>0 DEF Balanced
  <2>3. j \in evicted' <=> (j \in evicted /\ (Level(j)' < Rates!Full \/ Ideal(j)' < Rates!Full))
    BY <1>1 DEF Rates!Uneven, Level, Ideal, Rates!Full
  <2>4. ahead'[j] = IF j \in evicted' THEN ahead[j] ELSE 0
    BY <1>1
  <2>5. Level(j)' <= Rates!Full /\ Ideal(j)' <= Rates!Full
        /\ Level(j)' \in Nat /\ Ideal(j)' \in Nat
    BY <2>1, RateNumbers
  <2>6. CASE j \notin evicted'
    <3>1. CASE j \in evicted
      BY <2>3, <2>4, <2>5, <2>6, <3>1, RateNumbers
    <3>2. CASE j \notin evicted
      BY <2>1, <2>2, <2>4, <2>6, <3>2
    <3> QED
      BY <3>1, <3>2
  <2>7. CASE j \in evicted'
    <3>1. Interval * ahead[j] \in Nat
      <4>1. \A i, m \in Nat : i * m \in Nat
        OBVIOUS
      <4> QED
        BY <2>1, <2>2, <4>1, RateNumbers
    <3>2. PICK m \in Nat : m = Interval * ahead[j]
      BY <3>1
    <3>3. Level(j) + m >= Ideal(j)
      BY <2>2, <2>3, <2>7, <3>2
    <3>4. Level(j)' + m >= Ideal(j)'
      BY <2>1, <2>5, <3>3, RateNumbers
    <3> QED
      BY <2>2, <2>4, <2>7, <3>2, <3>4
  <2> QED
    BY <2>6, <2>7
<1>7. FloorHolds'
  <2>1. \A s \in Vouched, c \in Rates!Classes :
           /\ Asked(s, c) \in 0..Rates!Full
           /\ Level(Rates!FloorKey(s, c)) \in 0..Rates!Full
           /\ Asked(s, c) <= Level(Rates!FloorKey(s, c))
           /\ Asked(s, c)' = Filled(Asked(s, c))
           /\ Level(Rates!FloorKey(s, c))' = Filled(Level(Rates!FloorKey(s, c)))
    BY <1>0, <1>3, <1>5, LevelTyped DEF FloorHolds
  <2>2. \A s \in Vouched, c \in Rates!Classes : Asked(s, c)' <= Level(Rates!FloorKey(s, c))'
    <3>1. \A x, y \in 0..Rates!Full : x <= y => Filled(x) <= Filled(y)
      BY RateNumbers
    <3> QED
      BY <2>1, <3>1
  <2> QED
    BY <1>1, <2>2 DEF FloorHolds
<1> QED
  BY <1>0, <1>1, <1>2, <1>6, <1>7 DEF RatesInv

LEMMA RatesStep == ASSUME RatesInv, [Rates!Next]_(Rates!vars) PROVE RatesInv'
<1>1. ASSUME UNCHANGED Rates!vars PROVE RatesInv'
  <2>0. /\ buckets' = buckets /\ newer' = newer /\ floor' = floor /\ exact' = exact
        /\ evicted' = evicted /\ ahead' = ahead /\ own' = own /\ unfair' = unfair
    BY <1>1 DEF Rates!vars
  <2>1. /\ \A k \in Rates!Keys : Level(k)' = Level(k) /\ Ideal(k)' = Ideal(k)
        /\ \A s \in Vouched, c \in Rates!Classes :
              Asked(s, c)' = Asked(s, c)
              /\ Level(Rates!FloorKey(s, c))' = Level(Rates!FloorKey(s, c))
    BY <2>0 DEF Level, Ideal, Asked, Rates!BucketOf, Rates!Refilled, Rates!Full, Rates!Fresh
  <2>2. RatesTyped'
    BY <2>0 DEF RatesInv, RatesTyped
  <2>3. Balanced'
    BY <2>0, <2>1 DEF RatesInv, Balanced
  <2>4. FloorHolds'
    BY <2>0, <2>1 DEF RatesInv, FloorHolds
  <2> QED
    BY <2>0, <2>2, <2>3, <2>4 DEF RatesInv
<1> QED
  BY <1>1, RequestStep, TryFloorStep, PruneStep, TickStep, Zenon DEF Rates!Next

----------------------------------------------------------------------------
(* Locked AoRs.                                                            *)

\* The copies of these operators that instances bring.
LEMMA SameAorLists ==
    /\ \A o, S : Aors!Lists(o, S) <=> Lists(o, S)
    /\ \A o, S : Aors!Among(o, S) = Among(o, S)
    /\ \A o, x, S : Aors!ToFront(o, x, S) = ToFront(o, x, S)
  BY DEF Lists, Aors!Lists, Among, Aors!Among, ToFront, Aors!ToFront

LEMMA SameAorCard == \A S : Aors!Cardinality(S) = Cardinality(S)
  BY DEF Cardinality, Aors!Cardinality
LEMMA SameAorFinite == \A S : Aors!IsFiniteSet(S) <=> IsFiniteSet(S)
  BY DEF IsFiniteSet, Aors!IsFiniteSet

\* Strikes are no later than now and numbered; a window that is open has
\* counted no more strikes than there were since it opened.
Numbered == \A a \in AorNames :
    /\ IsFiniteSet(strikes[a])
    /\ \A s \in strikes[a] :
          /\ s[1] <= now
          /\ s[1] = now => s[2] < Cardinality({t \in strikes[a] : t[1] = now})
Since(a, start) == {s \in strikes[a] : s[1] >= start}
Backed == \A a \in DOMAIN entries :
    /\ entries[a].start <= now
    /\ entries[a].locked = 0 /\ now - entries[a].start < AorWindow
       => entries[a].count <= Cardinality(Since(a, entries[a].start))

AorTyped == /\ now \in 1..MaxNow
            /\ DOMAIN entries \subseteq AorNames /\ Lists(aorNewer, DOMAIN entries)
            /\ \A a \in DOMAIN entries :
                  entries[a] \in [start : 0..MaxNow, count : Nat, locked : 0..(MaxNow + AorBan)]
            /\ IsFiniteSet(DOMAIN entries) /\ Cardinality(DOMAIN entries) <= AorCap
            /\ strikes \in [AorNames -> SUBSET ((0..MaxNow) \X Nat)]

AorInv == AorTyped /\ Numbered /\ Backed /\ earned = TRUE

LEMMA AorGives == AorInv => Aors!TypeOK /\ Aors!LocksEarned
<1> SUFFICES ASSUME AorInv PROVE Aors!TypeOK /\ Aors!LocksEarned
  OBVIOUS
<1>1. now \in 0..MaxNow
  BY AorsAssumption DEF Aors!ConstantsOK, AorInv, AorTyped
<1> QED
  BY <1>1, SameAorLists, SameAorCard, SameAorFinite
     DEF AorInv, AorTyped, Aors!TypeOK, Aors!LocksEarned

LEMMA AorStarts == Aors!Init => AorInv
<1> SUFFICES ASSUME Aors!Init PROVE AorInv
  OBVIOUS
<1>1. /\ IsFiniteSet({}) /\ Cardinality({}) = 0 /\ DOMAIN entries = {} /\ aorNewer = {}
      /\ now = 1 /\ strikes = [a \in AorNames |-> {}]
  BY FS_EmptySet DEF Aors!Init
<1>2. AorTyped
  BY <1>1, NothingLists, AorsAssumption DEF Aors!ConstantsOK, AorTyped
<1> QED
  BY <1>1, <1>2 DEF AorInv, Numbered, Backed, Aors!Init

\* What an AoR's entry is when it is struck: its own, or a new one whose
\* window opens now.
LEMMA AorKnown ==
    ASSUME AorInv, NEW a \in AorNames
    PROVE  LET e == Aors!Known(a) IN
           /\ e \in [start : 0..MaxNow, count : Nat, locked : 0..(MaxNow + AorBan)]
           /\ e.start <= now
           /\ e.locked = 0 => now - e.start < AorWindow /\ e.count <= Cardinality(Since(a, e.start))
<1> DEFINE new == [start |-> now, count |-> 0, locked |-> 0]
<1>1. IsFiniteSet(strikes[a]) /\ now \in 1..MaxNow /\ MaxNow \in Nat /\ AorBan \in Nat
      /\ AorWindow \in Nat \ {0}
  BY AorsAssumption DEF Aors!ConstantsOK, AorInv, AorTyped, Numbered
<1>2. Cardinality(Since(a, now)) \in Nat
  <2>1. IsFiniteSet(Since(a, now))
    BY <1>1, FS_Subset DEF Since
  <2> QED
    BY <2>1, FS_CardinalityType
<1>3. CASE Aors!Known(a) = new
  BY <1>1, <1>2, <1>3
<1>4. CASE Aors!Known(a) # new
  <2>1. a \in DOMAIN entries /\ Aors!Known(a) = entries[a]
        /\ ~(entries[a].locked = 0 /\ now - entries[a].start >= AorWindow)
    BY <1>4 DEF Aors!Known, Aors!Rolled, Aors!Held
  <2>2. /\ entries[a] \in [start : 0..MaxNow, count : Nat, locked : 0..(MaxNow + AorBan)]
        /\ entries[a].start <= now
        /\ entries[a].locked = 0 /\ now - entries[a].start < AorWindow
           => entries[a].count <= Cardinality(Since(a, entries[a].start))
    BY <2>1 DEF AorInv, AorTyped, Backed
  <2>3. entries[a].locked = 0 => now - entries[a].start < AorWindow
    BY <1>1, <2>1, <2>2
  <2> QED
    BY <2>1, <2>2, <2>3
<1> QED
  BY <1>3, <1>4

\* A strike is one more, in every window that holds it.
LEMMA OneStrike ==
    ASSUME AorInv, NEW a \in AorNames, now' = now,
           strikes' = [strikes EXCEPT ![a] =
              @ \cup {<<now, Cardinality({s \in @ : s[1] = now})>>}]
    PROVE  /\ \A start \in 0..MaxNow : start <= now =>
                 Cardinality(Since(a, start)') = Cardinality(Since(a, start)) + 1
           /\ \A start \in 0..MaxNow : Cardinality(Since(a, start)) \in Nat
           /\ strikes' \in [AorNames -> SUBSET ((0..MaxNow) \X Nat)]
           /\ Numbered'
<1> DEFINE this == {s \in strikes[a] : s[1] = now}
           new == <<now, Cardinality(this)>>
<1>1. /\ now \in 1..MaxNow /\ MaxNow \in Nat /\ IsFiniteSet(strikes[a])
      /\ strikes \in [AorNames -> SUBSET ((0..MaxNow) \X Nat)]
  BY AorsAssumption DEF Aors!ConstantsOK, AorInv, AorTyped, Numbered
<1>2. IsFiniteSet(this) /\ Cardinality(this) \in Nat
  <2>1. IsFiniteSet(this)
    BY <1>1, FS_Subset
  <2> QED
    BY <2>1, FS_CardinalityType
<1>3. new \notin strikes[a]
  <2> SUFFICES ASSUME new \in strikes[a] PROVE FALSE
    OBVIOUS
  <2>1. new[2] < Cardinality(this)
    BY DEF AorInv, Numbered
  <2> QED
    BY <1>2, <2>1
<1>4. strikes' = [strikes EXCEPT ![a] = @ \cup {new}]
  OBVIOUS
<1>5. strikes'[a] = strikes[a] \cup {new} /\ \A b \in AorNames : b # a => strikes'[b] = strikes[b]
  BY <1>1, <1>4
<1>6. new \in (0..MaxNow) \X Nat /\ new[1] = now /\ new[2] = Cardinality(this)
  BY <1>1, <1>2
<1>7. strikes' \in [AorNames -> SUBSET ((0..MaxNow) \X Nat)]
  BY <1>1, <1>4, <1>6
<1> HIDE DEF new
<1>8. ASSUME NEW start \in 0..MaxNow
      PROVE  /\ Cardinality(Since(a, start)) \in Nat
             /\ start <= now => Cardinality(Since(a, start)') = Cardinality(Since(a, start)) + 1
  <2>1. IsFiniteSet(Since(a, start))
    BY <1>1, FS_Subset DEF Since
  <2>2. start <= now => Since(a, start)' = Since(a, start) \cup {new}
    BY <1>1, <1>5, <1>6 DEF Since
  <2>3. new \notin Since(a, start)
    BY <1>3 DEF Since
  <2> QED
    BY <2>1, <2>2, <2>3, FS_AddElement, FS_CardinalityType
<1>9. Numbered'
  <2>1. IsFiniteSet(strikes'[a])
    BY <1>1, <1>5, FS_AddElement
  <2>2. {t \in strikes'[a] : t[1] = now'} = this \cup {new}
    BY <1>5, <1>6
  <2>3. Cardinality({t \in strikes'[a] : t[1] = now'}) = Cardinality(this) + 1
    BY <1>2, <1>3, <2>2, FS_AddElement
  <2>4. ASSUME NEW s \in strikes'[a]
        PROVE  s[1] <= now' /\ (s[1] = now' => s[2] < Cardinality({t \in strikes'[a] : t[1] = now'}))
    <3>1. CASE s = new
      BY <1>1, <1>2, <1>6, <2>3, <3>1
    <3>2. CASE s # new
      <4>1. s \in strikes[a] /\ s \in (0..MaxNow) \X Nat
        BY <1>1, <1>5, <3>2
      <4>2. s[1] <= now /\ (s[1] = now => s[2] < Cardinality(this))
        BY <4>1 DEF AorInv, Numbered
      <4> QED
        BY <1>2, <2>3, <4>1, <4>2
    <3> QED
      BY <3>1, <3>2
  <2>5. \A b \in AorNames : b # a => 
           /\ IsFiniteSet(strikes'[b])
           /\ \A s \in strikes'[b] :
                 s[1] <= now' /\ (s[1] = now' => s[2] < Cardinality({t \in strikes'[b] : t[1] = now'}))
    BY <1>5 DEF AorInv, Numbered
  <2> QED
    BY <2>1, <2>4, <2>5 DEF Numbered
<1> QED
  BY <1>7, <1>8, <1>9

LEMMA StrikeStep == ASSUME AorInv, NEW a \in AorNames, Aors!Strike(a) PROVE AorInv'
<1> DEFINE e == [Aors!Known(a) EXCEPT !.count = @ + 1]
           opens == e.locked = 0 /\ e.count > AorStrikes
           Entry == [start : 0..MaxNow, count : Nat, locked : 0..(MaxNow + AorBan)]
<1>0. /\ MaxNow \in Nat /\ AorBan \in Nat /\ AorStrikes \in Nat /\ AorWindow \in Nat /\ AorCap \in Nat \ {0}
      /\ now \in 1..MaxNow /\ AorTyped
  BY AorsAssumption DEF Aors!ConstantsOK, AorInv, AorTyped
<1>1. PICK out : /\ out \in IF ~Aors!Held(a) /\ Aors!Cardinality(DOMAIN entries) >= AorCap
                            THEN {{x} : x \in Aors!Evictable} ELSE {{}}
                 /\ now' = now
                 /\ entries' = [x \in (DOMAIN entries \ out) \cup {a} |->
                                   IF x # a THEN entries[x]
                                   ELSE IF opens THEN [e EXCEPT !.locked = now + AorBan] ELSE e]
                 /\ aorNewer' = Aors!ToFront(aorNewer, a, DOMAIN entries \ out)
                 /\ strikes' = [strikes EXCEPT ![a] =
                       @ \cup {<<now, Aors!Cardinality({s \in @ : s[1] = now})>>}]
                 /\ earned' = (earned /\ (opens => Aors!Cardinality(Aors!Struck(a)') > AorStrikes))
  BY DEF Aors!Strike
<1> DEFINE stays == DOMAIN entries \ out
           to == IF opens THEN [e EXCEPT !.locked = now + AorBan] ELSE e
<1>2. strikes' = [strikes EXCEPT ![a] = @ \cup {<<now, Cardinality({s \in @ : s[1] = now})>>}]
  BY <1>1, SameAorCard
<1>3. /\ \A start \in 0..MaxNow : start <= now =>
            Cardinality(Since(a, start)') = Cardinality(Since(a, start)) + 1
      /\ \A start \in 0..MaxNow : Cardinality(Since(a, start)) \in Nat
      /\ strikes' \in [AorNames -> SUBSET ((0..MaxNow) \X Nat)]
      /\ Numbered'
  BY <1>1, <1>2, OneStrike
<1>4. PICK k \in Entry : k = Aors!Known(a)
  BY AorKnown
<1>5. k.start <= now /\ (k.locked = 0 => now - k.start < AorWindow /\ k.count <= Cardinality(Since(a, k.start)))
  BY <1>4, AorKnown
<1>6. e \in Entry /\ e.start = k.start /\ e.locked = k.locked /\ e.count = k.count + 1
  BY <1>4
<1>7. k.locked = 0 => e.count <= Cardinality(Since(a, k.start)')
  BY <1>3, <1>4, <1>5, <1>6
<1>8. to \in Entry /\ to.start = k.start /\ to.count = e.count
      /\ to.locked = IF opens THEN now + AorBan ELSE k.locked
  <2>1. now + AorBan \in 0..(MaxNow + AorBan)
    BY <1>0
  <2>2. e \in Entry /\ [e EXCEPT !.locked = now + AorBan] \in Entry
    BY <1>6, <2>1
  <2> QED
    BY <1>6, <2>2
<1>9. /\ DOMAIN entries' = stays \cup {a} /\ entries'[a] = to
      /\ \A x \in stays : x # a => entries'[x] = entries[x]
  BY <1>1
<1> HIDE DEF to
<1>10. AorTyped'
  <2>1. Lists(aorNewer', DOMAIN entries')
    BY <1>0, <1>1, <1>9, ToFrontLists, SameAorLists DEF AorTyped
  <2>2. a \in DOMAIN entries \/ Cardinality(DOMAIN entries) < AorCap \/ stays # DOMAIN entries
    <3>1. CASE a \in DOMAIN entries
      BY <3>1
    <3>2. CASE a \notin DOMAIN entries /\ ~(Cardinality(DOMAIN entries) >= AorCap)
      <4>1. Cardinality(DOMAIN entries) \in Nat
        BY <1>0, FS_CardinalityType DEF AorTyped
      <4> QED
        BY <1>0, <3>2, <4>1
    <3>3. CASE a \notin DOMAIN entries /\ Cardinality(DOMAIN entries) >= AorCap
      <4>1. \E x \in Aors!Evictable : out = {x}
        BY <1>1, <3>3, SameAorCard DEF Aors!Held
      <4>2. Aors!Evictable \subseteq DOMAIN entries
        BY DEF Aors!Evictable, Aors!Backmost, Aors!NearBack
      <4> QED
        BY <4>1, <4>2
    <3> QED
      BY <3>1, <3>2, <3>3
  <2>3. IsFiniteSet(stays \cup {a}) /\ Cardinality(stays \cup {a}) <= AorCap
    BY <1>0, <2>2, OneMoreFits DEF AorTyped
  <2>4. \A x \in DOMAIN entries' : entries'[x] \in Entry
    BY <1>0, <1>8, <1>9 DEF AorTyped
  <2>5. now' \in 1..MaxNow /\ DOMAIN entries' \subseteq AorNames
    BY <1>0, <1>1, <1>9 DEF AorTyped
  <2>6. IsFiniteSet(DOMAIN entries') /\ Cardinality(DOMAIN entries') <= AorCap
    BY <1>9, <2>3
  <2> QED
    BY <1>3, <2>1, <2>4, <2>5, <2>6 DEF AorTyped
<1>11. Backed'
  <2>1. entries'[a].start <= now'
    BY <1>1, <1>5, <1>8, <1>9
  <2>2. entries'[a].locked = 0 => entries'[a].count <= Cardinality({s \in strikes'[a] : s[1] >= entries'[a].start})
    <3>1. now + AorBan # 0
      BY <1>0
    <3>2. Since(a, k.start)' = {s \in strikes'[a] : s[1] >= k.start}
      BY DEF Since
    <3> QED
      BY <1>7, <1>8, <1>9, <3>1, <3>2
  <2>3. ASSUME NEW x \in stays, x # a
        PROVE  /\ entries'[x].start <= now'
               /\ entries'[x].locked = 0 /\ now' - entries'[x].start < AorWindow
                  => entries'[x].count <= Cardinality({s \in strikes'[x] : s[1] >= entries'[x].start})
    <3>1. entries'[x] = entries[x] /\ strikes'[x] = strikes[x] /\ now' = now
      BY <1>0, <1>1, <1>9, <2>3 DEF AorTyped
    <3> QED
      BY <2>3, <3>1 DEF AorInv, Backed, Since
  <2> QED
    BY <1>9, <2>1, <2>2, <2>3 DEF Backed, Since
<1>12. earned' = TRUE
  <2>1. ASSUME opens PROVE Aors!Cardinality(Aors!Struck(a)') > AorStrikes
    <3>1. k.locked = 0 /\ e.count > AorStrikes /\ now - k.start < AorWindow
      BY <1>4, <1>5, <1>6, <2>1
    <3>2. IsFiniteSet(strikes'[a]) /\ strikes'[a] \subseteq (0..MaxNow) \X Nat
      BY <1>3 DEF Numbered
    <3>3. Since(a, k.start)' \subseteq Aors!Struck(a)'
      <4>1. Since(a, k.start)' = {s \in strikes'[a] : s[1] >= k.start}
        BY DEF Since
      <4>2. Aors!Struck(a)' = {s \in strikes'[a] : now - s[1] < AorWindow}
        BY <1>1 DEF Aors!Struck
      <4>3. \A s \in strikes'[a] : s[1] \in 0..MaxNow
        BY <3>2
      <4> QED
        BY <1>0, <1>4, <3>1, <4>1, <4>2, <4>3
    <3>4. IsFiniteSet(Aors!Struck(a)')
      BY <3>2, FS_Subset DEF Aors!Struck
    <3>5. /\ Cardinality(Since(a, k.start)') <= Cardinality(Aors!Struck(a)')
          /\ Cardinality(Aors!Struck(a)') \in Nat
      BY <3>3, <3>4, FS_Subset, FS_CardinalityType
    <3>6. Cardinality(Since(a, k.start)') \in Nat /\ e.count <= Cardinality(Since(a, k.start)')
      BY <1>3, <1>4, <1>5, <1>7, <3>1
    <3>7. Cardinality(Aors!Struck(a)') > AorStrikes
      BY <1>0, <1>6, <3>1, <3>5, <3>6
    <3> QED
      BY <3>7, SameAorCard
  <2>2. earned = TRUE
    BY DEF AorInv
  <2> QED
    BY <1>1, <2>1, <2>2, Zenon
<1> QED
  BY <1>3, <1>10, <1>11, <1>12 DEF AorInv

\* An entry that is dropped changes nothing for the others.
LEMMA KeepStep ==
    ASSUME AorInv, NEW stays \in SUBSET DOMAIN entries, Aors!Keep(stays), UNCHANGED <<now, earned>>,
           \A a \in stays : strikes'[a] = strikes[a],
           strikes' \in [AorNames -> SUBSET ((0..MaxNow) \X Nat)], Numbered'
    PROVE  AorInv'
<1>1. DOMAIN entries' = stays /\ \A a \in stays : entries'[a] = entries[a]
  BY DEF Aors!Keep
<1>2. IsFiniteSet(stays) /\ Cardinality(stays) <= AorCap
  <2>1. IsFiniteSet(stays) /\ Cardinality(stays) \in Nat /\ Cardinality(DOMAIN entries) \in Nat
    BY FS_Subset, FS_CardinalityType DEF AorInv, AorTyped
  <2>2. Cardinality(stays) <= Cardinality(DOMAIN entries)
    BY FS_Subset DEF AorInv, AorTyped
  <2> QED
    BY <2>1, <2>2, AorsAssumption DEF AorInv, AorTyped, Aors!ConstantsOK
<1>3. Lists(aorNewer', stays)
  BY AmongLists, SameAorLists DEF Aors!Keep, AorInv, AorTyped
<1>4. AorTyped'
  BY <1>1, <1>2, <1>3 DEF AorInv, AorTyped
<1>5. Backed'
  BY <1>1 DEF AorInv, Backed, Since
<1> QED
  BY <1>4, <1>5 DEF AorInv

LEMMA AorStep == ASSUME AorInv, [Aors!Next]_(Aors!vars) PROVE AorInv'
<1>1. ASSUME NEW a \in AorNames, Aors!Attempt(a) PROVE AorInv'
  BY <1>1, StrikeStep DEF Aors!Attempt
<1>2. ASSUME NEW a \in AorNames, Aors!Clear(a) PROVE AorInv'
  <2>1. /\ strikes' \in [AorNames -> SUBSET ((0..MaxNow) \X Nat)] /\ strikes'[a] = {}
        /\ \A b \in AorNames : b # a => strikes'[b] = strikes[b]
    BY <1>2 DEF Aors!Clear, AorInv, AorTyped
  <2>2. Numbered'
    <3>1. IsFiniteSet({}) /\ now' = now
      BY <1>2, FS_EmptySet DEF Aors!Clear
    <3> QED
      BY <2>1, <3>1 DEF AorInv, Numbered
  <2>3. DOMAIN entries \subseteq AorNames
    BY DEF AorInv, AorTyped
  <2> QED
    BY <1>2, <2>1, <2>2, <2>3, KeepStep DEF Aors!Clear
<1>3. ASSUME Aors!Prune PROVE AorInv'
  <2>1. strikes' = strikes /\ now' = now
    BY <1>3 DEF Aors!Prune
  <2>2. Numbered' /\ strikes' \in [AorNames -> SUBSET ((0..MaxNow) \X Nat)]
    BY <2>1 DEF AorInv, AorTyped, Numbered
  <2> QED
    BY <1>3, <2>1, <2>2, KeepStep DEF Aors!Prune
<1>4. ASSUME Aors!Tick PROVE AorInv'
  <2>0. /\ MaxNow \in Nat /\ AorWindow \in Nat /\ now \in 1..MaxNow /\ AorTyped
        /\ now' = now + 1 /\ now < MaxNow /\ entries' = entries /\ aorNewer' = aorNewer
        /\ earned' = earned
        /\ strikes' = [a \in AorNames |-> {s \in strikes[a] : now' - s[1] < AorWindow}]
    BY <1>4, AorsAssumption DEF Aors!ConstantsOK, Aors!Tick, AorInv, AorTyped
  <2>1. AorTyped'
    BY <2>0 DEF AorTyped
  <2>2. \A a \in AorNames : /\ strikes'[a] \subseteq strikes[a] /\ strikes[a] \subseteq (0..MaxNow) \X Nat
                            /\ \A s \in strikes[a] : now' - s[1] < AorWindow => s \in strikes'[a]
    BY <2>0 DEF AorTyped
  <2>3. Numbered'
    <3> SUFFICES ASSUME NEW a \in AorNames
                 PROVE  /\ IsFiniteSet(strikes'[a])
                        /\ \A s \in strikes'[a] : s[1] <= now' /\ s[1] # now'
      BY DEF Numbered
    <3>1. IsFiniteSet(strikes'[a])
      BY <2>2, FS_Subset DEF AorInv, Numbered
    <3>2. \A s \in strikes[a] : s[1] \in 0..MaxNow /\ s[1] <= now
      BY <2>2 DEF AorInv, Numbered
    <3> QED
      BY <2>0, <2>2, <3>1, <3>2
  <2>4. Backed'
    <3> SUFFICES ASSUME NEW a \in DOMAIN entries
                 PROVE  /\ entries[a].start <= now'
                        /\ entries[a].locked = 0 /\ now' - entries[a].start < AorWindow
                           => entries[a].count <= Cardinality({s \in strikes'[a] : s[1] >= entries[a].start})
      BY <2>0 DEF Backed, Since
    <3>1. /\ a \in AorNames /\ entries[a].start \in 0..MaxNow /\ entries[a].start <= now
          /\ entries[a].locked = 0 /\ now - entries[a].start < AorWindow
             => entries[a].count <= Cardinality(Since(a, entries[a].start))
      BY <2>0 DEF AorTyped, AorInv, Backed
    <3>2. ASSUME now' - entries[a].start < AorWindow
          PROVE  /\ now - entries[a].start < AorWindow
                 /\ {s \in strikes'[a] : s[1] >= entries[a].start} = Since(a, entries[a].start)
      <4>1. \A s \in strikes[a] : s[1] >= entries[a].start => now' - s[1] < AorWindow
        BY <2>0, <2>2, <3>1, <3>2
      <4> QED
        BY <2>0, <2>2, <3>1, <3>2, <4>1 DEF Since
    <3>3. entries[a].start <= now'
      BY <2>0, <3>1
    <3>4. ASSUME entries[a].locked = 0, now' - entries[a].start < AorWindow
          PROVE  entries[a].count <= Cardinality({s \in strikes'[a] : s[1] >= entries[a].start})
      <4>1. entries[a].count <= Cardinality(Since(a, entries[a].start))
        BY <3>1, <3>2, <3>4
      <4>2. {s \in strikes'[a] : s[1] >= entries[a].start} = Since(a, entries[a].start)
        BY <3>2, <3>4
      <4> QED
        BY <4>1, <4>2
    <3> QED
      BY <3>3, <3>4
  <2> QED
    BY <2>0, <2>1, <2>3, <2>4 DEF AorInv
<1>5. ASSUME UNCHANGED Aors!vars PROVE AorInv'
  BY <1>5 DEF Aors!vars, AorInv, AorTyped, Numbered, Backed, Since
<1> QED
  BY <1>1, <1>2, <1>3, <1>4, <1>5 DEF Aors!Next

\* A lock that a step takes away was over, cleared, or one of many.
LEMMA LocksStep ==
    ASSUME AorInv, [Aors!Next]_(Aors!vars)
    PROVE  \A a \in AorNames : Aors!Locked(a) /\ ~(Aors!Locked(a))' =>
              \/ now' >= entries[a].locked
              \/ Aors!Clear(a)
              \/ \A x \in Aors!NearBack : Aors!LockedAt(entries[x])
<1> SUFFICES ASSUME NEW a \in AorNames, Aors!Locked(a), ~(Aors!Locked(a))'
             PROVE  \/ now' >= entries[a].locked
                    \/ Aors!Clear(a)
                    \/ \A x \in Aors!NearBack : Aors!LockedAt(entries[x])
  OBVIOUS
<1>0. /\ a \in DOMAIN entries /\ entries[a].locked # 0 /\ now < entries[a].locked
      /\ now \in Nat /\ entries[a].locked \in Nat
      /\ entries[a] \in [start : 0..MaxNow, count : Nat, locked : 0..(MaxNow + AorBan)]
  <2>1. MaxNow \in Nat /\ AorBan \in Nat
    BY AorsAssumption DEF Aors!ConstantsOK
  <2> QED
    BY <2>1 DEF Aors!Locked, Aors!Held, Aors!LockedAt, AorInv, AorTyped
<1>1. ~(a \in DOMAIN entries' /\ entries'[a].locked = entries[a].locked /\ now' = now)
  BY <1>0 DEF Aors!Locked, Aors!Held, Aors!LockedAt
<1>2. ASSUME NEW b \in AorNames, Aors!Strike(b)
      PROVE  \A x \in Aors!NearBack : Aors!LockedAt(entries[x])
  <2> DEFINE e == [Aors!Known(b) EXCEPT !.count = @ + 1]
             to == IF e.locked = 0 /\ e.count > AorStrikes THEN [e EXCEPT !.locked = now + AorBan] ELSE e
  <2>1. PICK out : /\ out \in IF ~Aors!Held(b) /\ Aors!Cardinality(DOMAIN entries) >= AorCap
                              THEN {{x} : x \in Aors!Evictable} ELSE {{}}
                   /\ now' = now
                   /\ entries' = [x \in (DOMAIN entries \ out) \cup {b} |->
                                     IF x # b THEN entries[x] ELSE to]
    BY <1>2 DEF Aors!Strike
  <2>2. a # b
    <3> SUFFICES ASSUME a = b PROVE FALSE
      OBVIOUS
    <3>1. Aors!Known(b) = entries[a]
      BY <1>0 DEF Aors!Known, Aors!Held, Aors!Rolled
    <3>2. e.locked = entries[a].locked /\ to = e
      BY <1>0, <3>1
    <3>3. a \in DOMAIN entries' /\ entries'[a] = to
      BY <2>1
    <3> QED
      BY <1>1, <2>1, <3>2, <3>3
  <2>3. a \in out
    BY <1>0, <1>1, <2>1, <2>2
  <2>4. a \in Aors!Evictable
    BY <2>1, <2>3
  <2>5. {x \in Aors!NearBack : ~Aors!LockedAt(entries[x])} = {}
    BY <1>0, <2>4 DEF Aors!Evictable, Aors!Backmost, Aors!LockedAt
  <2> QED
    BY <2>5
<1>3. ASSUME NEW b \in AorNames, Aors!Clear(b) PROVE Aors!Clear(a)
  <2>1. a = b
    BY <1>0, <1>1, <1>3 DEF Aors!Clear, Aors!Keep
  <2> QED
    BY <1>3, <2>1
<1>4. ~Aors!Prune
  BY <1>0, <1>1 DEF Aors!Prune, Aors!Keep, Aors!Expired
<1>5. ASSUME Aors!Tick PROVE now' >= entries[a].locked
  BY <1>0, <1>5 DEF Aors!Tick, Aors!Locked, Aors!Held, Aors!LockedAt
<1>6. ~(UNCHANGED Aors!vars)
  BY <1>0, <1>1 DEF Aors!vars
<1> QED
  BY <1>2, <1>3, <1>4, <1>5, <1>6 DEF Aors!Next, Aors!Attempt

----------------------------------------------------------------------------
(* Public admission.                                                       *)

Delivery == [from : Hosts \cup {"none"}, as : Hosts \cup {"none"},
             tp : {"udp", "ws"}, kind : Door!Kinds \cup {"none"}, good : BOOLEAN,
             nonce : Messages \cup {0}, branch : Messages \cup {0},
             table : Door!Tables \cup {"none"}]

\* What message i may be: an honest host names itself, answers challenges
\* with a good credential on a branch of its own; nobody has a nonce it did not
\* receive, nor a branch that was challenged elsewhere.
Sent(i, m) ==
    /\ m \in Delivery /\ m.from \in Hosts /\ m.as \in Hosts /\ m.kind \in Door!Kinds
    /\ m.branch \in Messages /\ m.branch \in known[m.from] \cup {i}
    /\ m.tp = "ws" => m.as = m.from
    /\ m.nonce \in known[m.from] \cup {0}
    /\ m.from \in Honest =>
          /\ m.as = m.from /\ m.branch = i
          /\ m.kind \in {"probe", "cred", "invite"}
          /\ m.kind = "cred" => m.good

\* An honest host has had a strike of its own; and for those only is it blamed.
BlamedOf(h) == \E why \in Door!Reasons : <<h, why>> \in blamed
FairlyBlamed == blamed \subseteq Honest \X {"stale", "unbound"}

\* A message is over or was sent; a ban of an honest host by its address alone
\* has its strike.
Carried(i) ==
    \/ delivery[i] = Door!NoMsg /\ doorPc[i] \in {"idle", "done"}
    \/ /\ doorPc[i] # "idle" /\ Sent(i, delivery[i])
       /\ doorPc[i] = "ban" =>
             /\ delivery[i].table \in Door!Tables
             /\ delivery[i].table = "ip" /\ delivery[i].as \in Honest => BlamedOf(delivery[i].as)

Rings == {s \in [Hosts -> Seq(Messages)] : \A h \in Hosts : Len(s[h]) <= Slots}
InRing(ring) == {ring[k] : k \in DOMAIN ring}

DoorTyped ==
    /\ doorPc \in [Messages -> {"idle", "wire", "parsed", "handler", "asked", "ban", "done"}]
    /\ delivery \in [Messages -> Delivery]
    /\ count \in [Hosts \X Door!Budgets -> 0..(Forgiven + 1)]
    /\ bans \in [Door!Tables -> SUBSET Hosts] /\ bindings \subseteq Hosts \X {"udp", "ws"}
    /\ nonces \in [Hosts -> SUBSET Messages] /\ branches \in [Hosts -> SUBSET Messages]
    /\ struck \in Rings /\ known \in [Hosts -> SUBSET Messages]
    /\ counted \in [Messages -> Nat] /\ again \subseteq Messages /\ forgotten \subseteq Messages

\* A challenge was received by the source its message named, and by no other;
\* the guard remembers some of them, and branches that were challenged. Such a
\* message was through, and is delivered anew if at all.
Through(i) == doorPc[i] \in {"ban", "done"} \/ i \in again
Received ==
    /\ \A h \in Hosts : nonces[h] \subseteq known[h]
    /\ \A h \in Hosts : \A i \in known[h] :
          doorPc[i] # "idle" /\ (delivery[i].kind = "none" \/ delivery[i].as = h)
    /\ \A g, h \in Hosts : known[g] \cap known[h] # {} => g = h
    /\ \A h \in Hosts : \A i \in known[h] \cup branches[h] : Through(i)

CountedOf(i) == \/ counted[i] = 0
                \/ i \in forgotten
                \/ /\ counted[i] = 1 /\ doorPc[i] # "idle"
                   /\ delivery[i].kind = "none" \/ i \in InRing(struck[delivery[i].as])

BansBlamed == \A h \in Honest \cap bans["ip"] : BlamedOf(h)

DoorInv ==
    /\ DoorTyped /\ (\A i \in Messages : Carried(i)) /\ Received
    /\ (\A i \in Messages : CountedOf(i)) /\ FairlyBlamed /\ BansBlamed

LEMMA DoorNumbers ==
    /\ Honest \subseteq Hosts /\ "none" \notin Hosts /\ Messages \subseteq Nat \ {0} /\ Forgiven \in Nat
    /\ Slots \in Nat \ {0}
BY DoorAssumption DEF Door!ConstantsOK

LEMMA NoMsgTyped == Door!NoMsg \in Delivery /\ Door!NoMsg.kind = "none"
BY DEF Door!NoMsg, Delivery

LEMMA DoorGives == DoorInv => Door!TypeOK /\ Door!NoBlame /\ Door!CountedOnce
<1> SUFFICES ASSUME DoorInv PROVE Door!TypeOK /\ Door!NoBlame /\ Door!CountedOnce
  OBVIOUS
<1>1. Door!TypeOK
  <2>1. blamed \subseteq Honest \X Door!Reasons
    BY DEF DoorInv, FairlyBlamed, Door!Reasons
  <2>2. struck \in [Hosts -> Seq(Messages)] /\ \A h \in Hosts : Len(struck[h]) <= Slots
    BY DEF DoorInv, DoorTyped, Rings
  <2> QED
    BY <2>1, <2>2 DEF DoorInv, DoorTyped, Door!TypeOK, Delivery
<1>2. Door!NoBlame
  BY DEF DoorInv, FairlyBlamed, BansBlamed, BlamedOf, Door!NoBlame
<1>3. Door!CountedOnce
  <2>1. counted \in [Messages -> Nat] /\ \A i \in Messages : CountedOf(i)
    BY DEF DoorInv, DoorTyped
  <2> QED
    BY <2>1 DEF CountedOf, Door!CountedOnce
<1> QED
  BY <1>1, <1>2, <1>3

LEMMA DoorStarts == Door!Init => DoorInv
<1> SUFFICES ASSUME Door!Init PROVE DoorInv
  OBVIOUS
<1>1. /\ doorPc = [i \in Messages |-> "idle"] /\ delivery = [i \in Messages |-> Door!NoMsg]
      /\ count = [k \in Hosts \X Door!Budgets |-> 0] /\ bans = [t \in Door!Tables |-> {}]
      /\ bindings = {} /\ nonces = [h \in Hosts |-> {}] /\ branches = nonces
      /\ struck = [h \in Hosts |-> <<>>]
      /\ known = nonces /\ counted = [i \in Messages |-> 0] /\ again = {}
      /\ forgotten = {} /\ blamed = {}
  BY DEF Door!Init
<1>2. DoorTyped
  <2>1. struck \in Rings
    BY <1>1, DoorNumbers DEF Rings
  <2> QED
    BY <1>1, <2>1, NoMsgTyped, DoorNumbers DEF DoorTyped
<1>3. bans["ip"] = {}
  BY <1>1 DEF Door!Tables
<1> QED
  BY <1>1, <1>2, <1>3 DEF DoorInv, Carried, Received, CountedOf, FairlyBlamed, BansBlamed

\* What a message in the server's hands tells of the host it names: over a
\* stream it came from there, and so did one with a challenge of that host's.
LEMMA Named ==
    ASSUME DoorInv, NEW i \in Messages, doorPc[i] \notin {"idle", "done"}
    PROVE  /\ Sent(i, delivery[i]) /\ delivery[i].kind # "none"
           /\ doorPc[i] = "ban" => /\ delivery[i].table \in Door!Tables
                                   /\ delivery[i].table = "ip" /\ delivery[i].as \in Honest
                                        => BlamedOf(delivery[i].as)
           /\ delivery[i].as \in Honest /\ delivery[i].tp = "ws" =>
                 delivery[i].from = delivery[i].as /\ delivery[i].kind \in {"probe", "cred", "invite"}
           /\ delivery[i].as \in Honest /\ delivery[i].nonce \in nonces[delivery[i].as] =>
                 /\ delivery[i].from = delivery[i].as /\ delivery[i].branch = i
                 /\ delivery[i].kind = "cred" => delivery[i].good
<1>1. /\ Sent(i, delivery[i])
      /\ doorPc[i] = "ban" => /\ delivery[i].table \in Door!Tables
                              /\ delivery[i].table = "ip" /\ delivery[i].as \in Honest
                                   => BlamedOf(delivery[i].as)
  BY DEF DoorInv, Carried
<1>2. delivery[i].kind # "none"
  BY <1>1 DEF Sent, Door!Kinds
<1>3. ASSUME delivery[i].as \in Honest, delivery[i].nonce \in nonces[delivery[i].as]
      PROVE  delivery[i].from = delivery[i].as
  <2>1. /\ \A h \in Hosts : nonces[h] \subseteq known[h]
        /\ known \in [Hosts -> SUBSET Messages]
        /\ delivery[i].from \in Hosts /\ delivery[i].as \in Hosts
        /\ delivery[i].nonce \in known[delivery[i].from] \cup {0}
    BY <1>1 DEF DoorInv, Received, DoorTyped, Sent
  <2>2. delivery[i].nonce # 0
    BY <1>3, <2>1, DoorNumbers
  <2>3. delivery[i].nonce \in known[delivery[i].from] \cap known[delivery[i].as]
    BY <1>3, <2>1, <2>2
  <2> QED
    BY <2>1, <2>3 DEF DoorInv, Received
<1> QED
  BY <1>1, <1>2, <1>3 DEF Sent

\* One message goes on, as itself or over; a ban by address of an honest host
\* has its strike.
GoesOn(i) ==
    \E p \in {"parsed", "handler", "asked", "ban", "done"}, t \in Door!Tables \cup {"none"} :
    \E m \in {Door!NoMsg, [delivery[i] EXCEPT !.table = t]} :
       /\ doorPc' = [doorPc EXCEPT ![i] = p] /\ delivery' = [delivery EXCEPT ![i] = m]
       /\ m = Door!NoMsg => p = "done"
       /\ p = "ban" =>
             /\ t \in Door!Tables
             /\ t = "ip" /\ delivery[i].as \in Honest =>
                   \E why \in Door!Reasons : <<delivery[i].as, why>> \in blamed'

LEMMA BlamedStays == ASSUME blamed \subseteq blamed', NEW h, BlamedOf(h) PROVE BlamedOf(h)'
BY DEF BlamedOf, Door!Reasons

LEMMA GoingOn ==
    ASSUME DoorInv, NEW i \in Messages, doorPc[i] \notin {"idle", "done"}, GoesOn(i),
           \A h \in Hosts : known[h] \subseteq known'[h], blamed \subseteq blamed'
    PROVE  /\ doorPc' \in [Messages -> {"idle", "wire", "parsed", "handler", "asked", "ban", "done"}]
           /\ delivery' \in [Messages -> Delivery]
           /\ \A j \in Messages : Carried(j)'
           /\ \A j \in Messages : /\ doorPc[j] # "idle" => doorPc'[j] # "idle"
                                  /\ j # i => doorPc'[j] = doorPc[j]
                                  /\ delivery'[j].kind = "none" \/ delivery'[j].as = delivery[j].as
                                  /\ delivery[j].kind = "none" => delivery'[j].kind = "none"
<1>1. PICK p \in {"parsed", "handler", "asked", "ban", "done"}, t \in Door!Tables \cup {"none"} :
      \E m \in {Door!NoMsg, [delivery[i] EXCEPT !.table = t]} :
         /\ doorPc' = [doorPc EXCEPT ![i] = p] /\ delivery' = [delivery EXCEPT ![i] = m]
         /\ m = Door!NoMsg => p = "done"
         /\ p = "ban" =>
               /\ t \in Door!Tables
               /\ t = "ip" /\ delivery[i].as \in Honest =>
                     \E why \in Door!Reasons : <<delivery[i].as, why>> \in blamed'
  BY DEF GoesOn
<1>2. PICK m \in {Door!NoMsg, [delivery[i] EXCEPT !.table = t]} :
         /\ doorPc' = [doorPc EXCEPT ![i] = p] /\ delivery' = [delivery EXCEPT ![i] = m]
         /\ m = Door!NoMsg => p = "done"
         /\ p = "ban" =>
               /\ t \in Door!Tables
               /\ t = "ip" /\ delivery[i].as \in Honest =>
                     \E why \in Door!Reasons : <<delivery[i].as, why>> \in blamed'
  BY <1>1
<1>3. /\ doorPc \in [Messages -> {"idle", "wire", "parsed", "handler", "asked", "ban", "done"}]
      /\ delivery \in [Messages -> Delivery]
  BY DEF DoorInv, DoorTyped
<1>4. Sent(i, delivery[i]) /\ delivery[i].kind # "none"
  BY Named
<1>5. ASSUME NEW j \in Messages, doorPc'[j] = doorPc[j], delivery'[j] = delivery[j]
      PROVE  Carried(j)'
  <2>1. Carried(j)
    BY DEF DoorInv
  <2>2. CASE delivery[j] = Door!NoMsg /\ doorPc[j] \in {"idle", "done"}
    <3>1. Door!NoMsg' = Door!NoMsg
      BY DEF Door!NoMsg
    <3> QED
      BY <1>5, <2>2, <3>1 DEF Carried
  <2>3. CASE /\ doorPc[j] # "idle" /\ Sent(j, delivery[j])
             /\ doorPc[j] = "ban" =>
                   /\ delivery[j].table \in Door!Tables
                   /\ delivery[j].table = "ip" /\ delivery[j].as \in Honest => BlamedOf(delivery[j].as)
    <3>1. Sent(j, delivery[j])'
      BY <1>5, <2>3 DEF Sent
    <3>2. BlamedOf(delivery[j].as) => BlamedOf(delivery[j].as)'
      BY <1>5 DEF BlamedOf, Door!Reasons
    <3> QED
      BY <1>5, <2>3, <3>1, <3>2 DEF Carried, Door!Tables
  <2> QED
    BY <2>1, <2>2, <2>3 DEF Carried
<1>6. CASE m = Door!NoMsg
  <2>1. doorPc'[i] = "done" /\ delivery'[i] = Door!NoMsg
    BY <1>2, <1>3, <1>6
  <2>2. /\ doorPc' \in [Messages -> {"idle", "wire", "parsed", "handler", "asked", "ban", "done"}]
        /\ delivery' \in [Messages -> Delivery]
    BY <1>2, <1>3, <1>6, NoMsgTyped
  <2>3. \A j \in Messages : j # i => doorPc'[j] = doorPc[j] /\ delivery'[j] = delivery[j]
    BY <1>2, <1>3
  <2>4. \A j \in Messages : Carried(j)'
    <3>1. Carried(i)'
      BY <2>1 DEF Carried, Door!NoMsg
    <3> QED
      BY <1>5, <2>3, <3>1
  <2> QED
    BY <2>1, <2>2, <2>3, <2>4, NoMsgTyped
<1>7. CASE m = [delivery[i] EXCEPT !.table = t]
  <2>0. delivery[i] \in Delivery
    BY <1>3
  <2>1. /\ m \in Delivery /\ m.from = delivery[i].from /\ m.as = delivery[i].as
        /\ m.tp = delivery[i].tp /\ m.kind = delivery[i].kind /\ m.good = delivery[i].good
        /\ m.nonce = delivery[i].nonce /\ m.branch = delivery[i].branch /\ m.table = t
    BY <1>7, <2>0 DEF Delivery
  <2>2. doorPc'[i] = p /\ delivery'[i] = m
    BY <1>2, <1>3
  <2>3. \A j \in Messages : j # i => doorPc'[j] = doorPc[j] /\ delivery'[j] = delivery[j]
    BY <1>2, <1>3
  <2>4. /\ doorPc' \in [Messages -> {"idle", "wire", "parsed", "handler", "asked", "ban", "done"}]
        /\ delivery' \in [Messages -> Delivery]
    BY <1>2, <1>3, <2>1
  <2>5. \A j \in Messages : Carried(j)'
    <3>1. Sent(i, delivery[i])'
      BY <1>4, <2>1, <2>2 DEF Sent
    <3>2. Carried(i)'
      BY <1>2, <2>1, <2>2, <3>1 DEF Carried, BlamedOf, Door!Reasons
    <3> QED
      BY <1>5, <2>3, <3>2
  <2> QED
    BY <1>4, <2>1, <2>2, <2>3, <2>4, <2>5
<1> QED
  BY <1>2, <1>6, <1>7

LEMMA FinishGoes ==
    ASSUME DoorInv, NEW i \in Messages, doorPc[i] \notin {"idle", "done"}, Door!Finish(i)
    PROVE  GoesOn(i) /\ doorPc'[i] = "done"
<1>1. PICK m \in {Door!NoMsg, [delivery[i] EXCEPT !.table = "none"]} :
         doorPc' = [doorPc EXCEPT ![i] = "done"] /\ delivery' = [delivery EXCEPT ![i] = m]
  <2>1. delivery \in [Messages -> Delivery]
    BY DEF DoorInv, DoorTyped
  <2>2. CASE delivery[i].kind = "cred" /\ delivery[i].tp = "udp" /\ i \notin again
    BY <2>1, <2>2 DEF Door!Finish, Door!Goto
  <2>3. CASE ~(delivery[i].kind = "cred" /\ delivery[i].tp = "udp" /\ i \notin again)
    BY <2>1, <2>3 DEF Door!Finish, Door!Goto
  <2> QED
    BY <2>2, <2>3
<1>2. doorPc \in [Messages -> {"idle", "wire", "parsed", "handler", "asked", "ban", "done"}]
  BY DEF DoorInv, DoorTyped
<1>3. "done" # "ban" /\ "none" \in Door!Tables \cup {"none"}
  OBVIOUS
<1> QED
  BY <1>1, <1>2, <1>3 DEF GoesOn

\* A message that only moves on.
LEMMA GotoGoes ==
    ASSUME DoorInv, NEW i \in Messages, doorPc[i] \notin {"idle", "done"},
           NEW p \in {"parsed", "handler", "asked"},
           Door!Goto(i, p), delivery' = delivery
    PROVE  GoesOn(i)
<1>1. delivery \in [Messages -> Delivery]
  BY DEF DoorInv, DoorTyped
<1>2. PICK t \in Door!Tables \cup {"none"} : t = delivery[i].table
  BY <1>1 DEF Delivery
<1>3. [delivery[i] EXCEPT !.table = t] = delivery[i]
  BY <1>1, <1>2 DEF Delivery
<1>4. delivery' = [delivery EXCEPT ![i] = [delivery[i] EXCEPT !.table = t]]
  BY <1>1, <1>3
<1>5. doorPc' = [doorPc EXCEPT ![i] = p] /\ delivery[i] # Door!NoMsg
  BY Named, NoMsgTyped DEF Door!Goto
<1> QED
  BY <1>3, <1>4, <1>5 DEF GoesOn

LEMMA AfterGoes ==
    ASSUME DoorInv, NEW i \in Messages, doorPc[i] \notin {"idle", "done"},
           NEW next \in {"parsed", "done"}, Door!After(i, next)
    PROVE  GoesOn(i) /\ doorPc'[i] = next
<1>1. CASE next = "done"
  BY <1>1, FinishGoes DEF Door!After
<1>2. CASE next = "parsed"
  <2>1. Door!Goto(i, "parsed") /\ delivery' = delivery
    BY <1>2 DEF Door!After
  <2>2. doorPc'[i] = "parsed"
    BY <2>1 DEF Door!Goto, DoorInv, DoorTyped
  <2> QED
    BY <1>2, <2>1, <2>2, GotoGoes
<1> QED
  BY <1>1, <1>2

\* A strike's effects but for the message's own way.
Judged ==
    /\ count' \in [Hosts \X Door!Budgets -> 0..(Forgiven + 1)]
    /\ blamed \subseteq blamed' /\ blamed' \subseteq Honest \X {"stale", "unbound"}

LEMMA NobodyJudged == ASSUME DoorInv, UNCHANGED <<count, blamed>> PROVE Judged
BY DEF DoorInv, DoorTyped, FairlyBlamed, Judged

LEMMA StrikeGoes ==
    ASSUME DoorInv, NEW i \in Messages, doorPc[i] \notin {"idle", "done"},
           NEW budget \in Door!Budgets, NEW table \in Door!Tables, NEW why,
           NEW next \in {"parsed", "done"}, Door!Strike(i, budget, table, why, next),
           table = "ip" /\ delivery[i].as \in Honest =>
              delivery[i].from = delivery[i].as /\ why \in {"stale", "unbound"}
    PROVE  GoesOn(i) /\ Judged /\ doorPc'[i] \in {next, "ban"}
<1>1. /\ count \in [Hosts \X Door!Budgets -> 0..(Forgiven + 1)] /\ delivery \in [Messages -> Delivery]
      /\ doorPc \in [Messages -> {"idle", "wire", "parsed", "handler", "asked", "ban", "done"}]
      /\ delivery[i].as \in Hosts /\ delivery[i].kind # "none"
  BY Named DEF DoorInv, DoorTyped, Sent
<1>2. CASE delivery[i].as \in CarrierHosts
  <2>1. Door!After(i, next) /\ UNCHANGED <<count, blamed>>
    BY <1>2 DEF Door!Strike
  <2> QED
    BY <2>1, AfterGoes, NobodyJudged
<1>3. CASE delivery[i].as \notin CarrierHosts
  <2> DEFINE k == <<delivery[i].as, budget>>
  <2>1. /\ count' = [count EXCEPT ![k] = IF @ > Forgiven THEN @ ELSE @ + 1]
        /\ Door!Blame(i, table, why)
        /\ IF count[k] >= Forgiven
           THEN /\ doorPc' = [doorPc EXCEPT ![i] = "ban"]
                /\ delivery' = [delivery EXCEPT ![i].table = table]
           ELSE Door!After(i, next)
    BY <1>3 DEF Door!Strike, Door!Goto
  <2>2. count' \in [Hosts \X Door!Budgets -> 0..(Forgiven + 1)]
    <3>1. k \in Hosts \X Door!Budgets /\ count[k] \in 0..(Forgiven + 1)
      BY <1>1
    <3>2. (IF count[k] > Forgiven THEN count[k] ELSE count[k] + 1) \in 0..(Forgiven + 1)
      BY <3>1, DoorNumbers
    <3> QED
      BY <1>1, <2>1, <3>1, <3>2
  <2>3. /\ blamed' = IF table = "ip" /\ delivery[i].as \in Honest
                     THEN blamed \cup {<<delivery[i].as, why>>} ELSE blamed
        /\ FairlyBlamed
    BY <2>1 DEF Door!Blame, DoorInv
  <2>4. /\ Judged
        /\ table = "ip" /\ delivery[i].as \in Honest =>
              \E w \in Door!Reasons : <<delivery[i].as, w>> \in blamed'
    BY <2>2, <2>3 DEF Judged, FairlyBlamed, Door!Reasons
  <2>5. CASE count[k] >= Forgiven
    <3>1. /\ delivery' = [delivery EXCEPT ![i] = [delivery[i] EXCEPT !.table = table]]
          /\ doorPc' = [doorPc EXCEPT ![i] = "ban"] /\ doorPc'[i] = "ban"
      BY <1>1, <2>1, <2>5
    <3>2. [delivery[i] EXCEPT !.table = table] # Door!NoMsg
      BY <1>1, NoMsgTyped DEF Delivery
    <3> QED
      BY <2>4, <3>1, <3>2 DEF GoesOn
  <2>6. CASE ~(count[k] >= Forgiven)
    BY <2>1, <2>4, <2>6, AfterGoes
  <2> QED
    BY <2>5, <2>6
<1> QED
  BY <1>2, <1>3

LEMMA AdmissionGoes ==
    ASSUME DoorInv, NEW i \in Messages, doorPc[i] \notin {"idle", "done"}, Door!AdmissionStrike(i)
    PROVE  GoesOn(i) /\ Judged /\ UNCHANGED <<struck, counted, forgotten>>
<1>0. UNCHANGED <<struck, counted, forgotten>>
  BY DEF Door!AdmissionStrike
<1>1. CASE Door!HasIP(delivery[i].as)
  <2>1. Door!Finish(i) /\ UNCHANGED <<count, blamed>>
    BY <1>1 DEF Door!AdmissionStrike
  <2> QED
    BY <1>0, <2>1, FinishGoes, NobodyJudged
<1>2. CASE ~Door!HasIP(delivery[i].as)
  <2> DEFINE budget == IF delivery[i].tp = "udp" THEN "admission_udp" ELSE "admission"
             table == Door!Scope(delivery[i].tp)
  <2>1. Door!Strike(i, budget, table, "unbound", "done")
    BY <1>2 DEF Door!AdmissionStrike
  <2>2. budget \in Door!Budgets /\ table \in Door!Tables
    BY DEF Door!Budgets, Door!Tables, Door!Scope
  <2>3. table = "ip" => delivery[i].tp = "ws"
    BY Named DEF Door!Scope, Sent, Delivery
  <2>4. table = "ip" /\ delivery[i].as \in Honest => delivery[i].from = delivery[i].as
    BY <2>3, Named
  <2> HIDE DEF budget, table
  <2> QED
    BY <1>0, <2>1, <2>2, <2>4, StrikeGoes
<1> QED
  BY <1>1, <1>2

LEMMA AppendAt ==
    ASSUME NEW S, NEW s \in Seq(S), NEW x \in S
    PROVE  /\ Append(s, x) \in Seq(S) /\ Len(s) \in Nat
           /\ Len(Append(s, x)) = Len(s) + 1 /\ Append(s, x)[Len(s) + 1] = x
           /\ \A k \in DOMAIN s : Append(s, x)[k] = s[k]
           /\ DOMAIN Append(s, x) = DOMAIN s \cup {Len(s) + 1} /\ Len(s) + 1 \notin DOMAIN s
<1>1. /\ Append(s, x) \in Seq(S) /\ Len(s) \in Nat /\ DOMAIN s = 1..Len(s)
      /\ Len(Append(s, x)) = Len(s) + 1 /\ DOMAIN Append(s, x) = 1..(Len(s) + 1)
      /\ Append(s, x)[Len(s) + 1] = x /\ \A k \in 1..Len(s) : Append(s, x)[k] = s[k]
  OBVIOUS
<1>2. DOMAIN Append(s, x) = DOMAIN s \cup {Len(s) + 1} /\ Len(s) + 1 \notin DOMAIN s
  BY <1>1
<1> QED
  BY <1>1, <1>2

\* A ring takes one more, at its oldest one's cost when it is full.
LEMMA RingPush ==
    ASSUME NEW ring \in Seq(Messages), Len(ring) <= Slots, NEW i \in Messages
    PROVE  /\ Len(ring) < Slots =>
                /\ Append(ring, i) \in Seq(Messages) /\ Len(Append(ring, i)) <= Slots
                /\ InRing(Append(ring, i)) = InRing(ring) \cup {i}
           /\ ~(Len(ring) < Slots) =>
                /\ Append(Tail(ring), i) \in Seq(Messages) /\ Len(Append(Tail(ring), i)) <= Slots
                /\ i \in InRing(Append(Tail(ring), i))
                /\ InRing(ring) \subseteq InRing(Append(Tail(ring), i)) \cup {Head(ring)}
                /\ Head(ring) \in Messages
<1>0. Slots \in Nat \ {0} /\ Len(ring) \in Nat /\ DOMAIN ring = 1..Len(ring)
  BY DoorNumbers
<1>1. ASSUME NEW s \in Seq(Messages)
      PROVE  Append(s, i) \in Seq(Messages) /\ InRing(Append(s, i)) = InRing(s) \cup {i}
             /\ Len(Append(s, i)) = Len(s) + 1
  <2>1. /\ Append(s, i) \in Seq(Messages) /\ \A k \in DOMAIN s : Append(s, i)[k] = s[k]
        /\ DOMAIN Append(s, i) = DOMAIN s \cup {Len(s) + 1} /\ Append(s, i)[Len(s) + 1] = i
        /\ Len(Append(s, i)) = Len(s) + 1
    BY AppendAt
  <2> QED
    BY <2>1, Zenon DEF InRing
<1>2. CASE Len(ring) < Slots
  BY <1>0, <1>1, <1>2
<1>3. CASE ~(Len(ring) < Slots)
  <2> DEFINE n == Len(ring)
  <2>0. Len(ring) = Slots /\ Len(ring) # 0
    <3>1. n \in Nat /\ Slots \in Nat \ {0} /\ n <= Slots /\ ~(n < Slots)
      BY <1>0, <1>3
    <3> HIDE DEF n
    <3>2. n = Slots /\ n # 0
      BY <3>1
    <3> QED
      BY <3>2 DEF n
  <2>1. ring # <<>> /\ Len(ring) = Slots
    BY <2>0
  <2>2. /\ Tail(ring) \in Seq(Messages) /\ Len(Tail(ring)) = Len(ring) - 1
        /\ \A k \in 1..(Len(ring) - 1) : Tail(ring)[k] = ring[k + 1]
        /\ Head(ring) = ring[1] /\ Head(ring) \in Messages
    BY <2>1
  <2>3. InRing(ring) \subseteq InRing(Tail(ring)) \cup {Head(ring)}
    <3> SUFFICES ASSUME NEW k \in DOMAIN ring PROVE ring[k] \in InRing(Tail(ring)) \cup {Head(ring)}
      BY DEF InRing
    <3>1. CASE k = 1
      BY <2>2, <3>1
    <3>2. CASE k # 1
      <4>1. k - 1 \in 1..(Len(ring) - 1) /\ (k - 1) + 1 = k
        BY <1>0, <3>2
      <4>2. k - 1 \in DOMAIN Tail(ring) /\ Tail(ring)[k - 1] = ring[k]
        BY <1>0, <2>2, <4>1
      <4> QED
        BY <4>2 DEF InRing
    <3> QED
      BY <3>1, <3>2
  <2>4. /\ Append(Tail(ring), i) \in Seq(Messages) /\ Len(Append(Tail(ring), i)) = Len(Tail(ring)) + 1
        /\ InRing(Append(Tail(ring), i)) = InRing(Tail(ring)) \cup {i}
    BY <1>1, <2>2
  <2>5. Len(Append(Tail(ring), i)) <= Slots
    BY <1>0, <2>1, <2>2, <2>4
  <2> QED
    BY <1>3, <2>2, <2>3, <2>4, <2>5
<1> QED
  BY <1>2, <1>3

\* What a REGISTER's strike leaves behind: once for a message the guard
\* remembers.
RegisterCounts(i) ==
    /\ struck' \in Rings /\ forgotten' \subseteq Messages /\ forgotten \subseteq forgotten'
    /\ \A h \in Hosts : InRing(struck[h]) \subseteq InRing(struck'[h]) \cup forgotten'
    /\ counted' \in [Messages -> Nat] /\ \A j \in Messages : j # i => counted'[j] = counted[j]
    /\ \/ counted'[i] = counted[i]
       \/ /\ counted'[i] = counted[i] + 1
          /\ i \notin InRing(struck[delivery[i].as]) /\ i \in InRing(struck'[delivery[i].as])

LEMMA NothingCounted ==
    ASSUME DoorInv, NEW i \in Messages, UNCHANGED <<struck, counted, forgotten>> PROVE RegisterCounts(i)
BY DEF DoorInv, DoorTyped, RegisterCounts

LEMMA RememberCounts ==
    ASSUME DoorInv, NEW i \in Messages, delivery[i].as \in Hosts,
           i \notin InRing(struck[delivery[i].as]), Door!Remember(i)
    PROVE  RegisterCounts(i)
<1> DEFINE h == delivery[i].as
           ring == struck[h]
<1>0. /\ struck \in [Hosts -> Seq(Messages)] /\ \A g \in Hosts : Len(struck[g]) <= Slots
      /\ counted \in [Messages -> Nat] /\ forgotten \subseteq Messages /\ Slots \in Nat
      /\ ring \in Seq(Messages) /\ Len(ring) <= Slots /\ Len(ring) \in Nat /\ h \in Hosts
  BY DoorNumbers DEF DoorInv, DoorTyped, Rings
<1>1. counted' = [counted EXCEPT ![i] = @ + 1]
  BY DEF Door!Remember
<1>2. ASSUME NEW new \in Seq(Messages), NEW out \in SUBSET Messages, Len(new) <= Slots,
             i \in InRing(new), InRing(ring) \subseteq InRing(new) \cup out,
             struck' = [struck EXCEPT ![h] = new], forgotten' = forgotten \cup out
      PROVE  RegisterCounts(i)
  <2>1. struck'[h] = new /\ \A g \in Hosts : g # h => struck'[g] = struck[g]
    BY <1>0, <1>2
  <2>2. struck' \in Rings
    BY <1>0, <1>2, <2>1 DEF Rings
  <2>3. \A g \in Hosts : InRing(struck[g]) \subseteq InRing(struck'[g]) \cup forgotten'
    BY <1>2, <2>1
  <2>4. /\ counted' \in [Messages -> Nat] /\ \A j \in Messages : j # i => counted'[j] = counted[j]
        /\ counted'[i] = counted[i] + 1
    BY <1>0, <1>1
  <2>5. i \in InRing(struck'[delivery[i].as])
    BY <1>2, <2>1
  <2> QED
    BY <1>0, <1>2, <2>2, <2>3, <2>4, <2>5 DEF RegisterCounts
<1>3. CASE Len(ring) < Slots
  <2>1. ~(Len(struck[delivery[i].as]) >= Slots)
    BY <1>0, <1>3
  <2>2. struck' = [struck EXCEPT ![h] = Append(ring, i)] /\ forgotten' = forgotten
    BY <2>1, Zenon DEF Door!Remember
  <2> HIDE DEF ring, h
  <2>3. /\ Append(ring, i) \in Seq(Messages) /\ Len(Append(ring, i)) <= Slots
        /\ InRing(Append(ring, i)) = InRing(ring) \cup {i}
    BY <1>0, <1>3, RingPush
  <2>4. PICK new \in Seq(Messages) : new = Append(ring, i)
    BY <2>3, Zenon
  <2>5. PICK out \in SUBSET Messages : out = {}
    OBVIOUS
  <2>6. Len(new) <= Slots /\ i \in InRing(new) /\ InRing(ring) \subseteq InRing(new) \cup out
    BY <2>3, <2>4
  <2>7. struck' = [struck EXCEPT ![h] = new] /\ forgotten' = forgotten \cup out
    <3>1. forgotten' = forgotten \cup out
      BY <2>2, <2>5
    <3> QED
      BY <2>2, <2>4, <3>1, Zenon
  <2> QED
    BY <1>2, <2>6, <2>7
<1>4. CASE ~(Len(ring) < Slots)
  <2>1. Len(struck[delivery[i].as]) >= Slots
    BY <1>0, <1>4
  <2>2. struck' = [struck EXCEPT ![h] = Append(Tail(ring), i)] /\ forgotten' = forgotten \cup {Head(ring)}
    BY <2>1, Zenon DEF Door!Remember
  <2> HIDE DEF ring, h
  <2>3. /\ Append(Tail(ring), i) \in Seq(Messages) /\ Len(Append(Tail(ring), i)) <= Slots
        /\ i \in InRing(Append(Tail(ring), i))
        /\ InRing(ring) \subseteq InRing(Append(Tail(ring), i)) \cup {Head(ring)}
        /\ Head(ring) \in Messages
    BY <1>0, <1>4, RingPush
  <2>4. PICK new \in Seq(Messages) : new = Append(Tail(ring), i)
    BY <2>3, Zenon
  <2>5. PICK out \in SUBSET Messages : out = {Head(ring)}
    BY <2>3
  <2>6. Len(new) <= Slots /\ i \in InRing(new) /\ InRing(ring) \subseteq InRing(new) \cup out
    BY <2>3, <2>4, <2>5, Zenon
  <2>7. struck' = [struck EXCEPT ![h] = new] /\ forgotten' = forgotten \cup out
    BY <2>2, <2>4, <2>5, Zenon
  <2> QED
    BY <1>2, <2>6, <2>7
<1> QED
  BY <1>3, <1>4

LEMMA RegisterGoes ==
    ASSUME DoorInv, NEW i \in Messages, doorPc[i] \notin {"idle", "done"}, NEW replay \in BOOLEAN,
           NEW next \in {"parsed", "done"}, Door!RegisterStrike(i, replay, next),
           delivery[i].kind = "cred", IF replay THEN doorPc[i] # "ban" ELSE ~delivery[i].good
    PROVE  GoesOn(i) /\ Judged /\ RegisterCounts(i) /\ doorPc'[i] \in {next, "ban"}
<1>1. CASE Door!After(i, next) /\ UNCHANGED Door!strikes
  BY <1>1, AfterGoes, NobodyJudged, NothingCounted DEF Door!strikes
<1> DEFINE why == IF replay /\ i \in again /\ delivery[i].good THEN "stale" ELSE "refused"
<1>2. CASE /\ delivery[i].as \notin CarrierHosts /\ Door!Countable(i, replay)
           /\ Door!Remember(i) /\ Door!Strike(i, "register", "ip", why, next)
  <2>1. /\ delivery[i].nonce \in nonces[delivery[i].as] /\ i \notin InRing(struck[delivery[i].as])
        /\ replay => delivery[i].branch \in branches[delivery[i].as]
    BY <1>2 DEF Door!Countable, Door!Struck, InRing
  <2>2. delivery[i].as \in Hosts
    BY Named DEF Sent
  <2>3. delivery[i].as \in Honest => delivery[i].from = delivery[i].as /\ why \in {"stale", "unbound"}
    <3> SUFFICES ASSUME delivery[i].as \in Honest
                 PROVE  delivery[i].from = delivery[i].as /\ why \in {"stale", "unbound"}
      OBVIOUS
    <3>1. delivery[i].from = delivery[i].as /\ delivery[i].branch = i /\ delivery[i].good
      BY <2>1, Named
    <3>2. replay /\ i \in branches[delivery[i].as] /\ doorPc[i] # "ban"
      BY <2>1, <3>1
    <3>3. Through(i)
      BY <2>2, <3>2 DEF DoorInv, Received
    <3>4. i \in again
      BY <3>2, <3>3 DEF Through
    <3> QED
      BY <3>1, <3>2, <3>4
  <2>4. "register" \in Door!Budgets /\ "ip" \in Door!Tables
    BY DEF Door!Budgets, Door!Tables
  <2>5. GoesOn(i) /\ Judged /\ doorPc'[i] \in {next, "ban"}
    <3> HIDE DEF why
    <3> QED
      BY <1>2, <2>3, <2>4, StrikeGoes
  <2>6. RegisterCounts(i)
    BY <1>2, <2>1, <2>2, RememberCounts
  <2> QED
    BY <2>5, <2>6
<1> QED
  BY <1>1, <1>2, Zenon DEF Door!RegisterStrike

\* Whatever a handler does with a message in its hands.
LEMMA HandledStep ==
    ASSUME DoorInv, NEW i \in Messages, doorPc[i] \notin {"idle", "done"}, GoesOn(i),
           RegisterCounts(i), Judged,
           doorPc[i] = "ban" => doorPc'[i] = "done",
           bans' \in [Door!Tables -> SUBSET Hosts],
           \A h \in Honest \cap bans'["ip"] : h \in bans["ip"] \/ BlamedOf(h)',
           bindings' \subseteq Hosts \X {"udp", "ws"}, again' = again,
           nonces' \in [Hosts -> SUBSET Messages], branches' \in [Hosts -> SUBSET Messages],
           known' \in [Hosts -> SUBSET Messages],
           \A h \in Hosts : known[h] \subseteq known'[h] /\ nonces'[h] \subseteq known'[h],
           \A h \in Hosts : \A j \in known'[h] :
              j \in known[h] \/ (j = i /\ h = delivery[i].as /\ doorPc'[i] \in {"ban", "done"}),
           \A h \in Hosts : \A j \in branches'[h] :
              j \in branches[h] \/ \E g \in Hosts : j \in known'[g]
    PROVE  DoorInv'
<1>0. blamed \subseteq blamed' /\ \A h \in Hosts : known[h] \subseteq known'[h]
  BY DEF Judged
<1>1. /\ doorPc' \in [Messages -> {"idle", "wire", "parsed", "handler", "asked", "ban", "done"}]
      /\ delivery' \in [Messages -> Delivery]
      /\ \A j \in Messages : Carried(j)'
      /\ \A j \in Messages : /\ doorPc[j] # "idle" => doorPc'[j] # "idle"
                             /\ j # i => doorPc'[j] = doorPc[j]
                             /\ delivery'[j].kind = "none" \/ delivery'[j].as = delivery[j].as
                             /\ delivery[j].kind = "none" => delivery'[j].kind = "none"
  BY <1>0, GoingOn
<1>2. DoorTyped'
  <2>1. struck' \in Rings /\ Rings' = Rings /\ Delivery' = Delivery
    BY DEF RegisterCounts, Rings, Delivery, Door!Kinds, Door!Tables
  <2>2. again \subseteq Messages /\ Door!Budgets' = Door!Budgets /\ Door!Tables' = Door!Tables
    BY DEF DoorInv, DoorTyped, Door!Budgets, Door!Tables
  <2> QED
    BY <1>1, <2>1, <2>2 DEF DoorTyped, RegisterCounts, Judged
<1>3. delivery[i].kind # "none" /\ delivery[i].as \in Hosts
  BY Named DEF Sent
<1>4. /\ known \in [Hosts -> SUBSET Messages] /\ branches \in [Hosts -> SUBSET Messages]
      /\ \A h \in Hosts : \A j \in known[h] :
            doorPc[j] # "idle" /\ (delivery[j].kind = "none" \/ delivery[j].as = h)
      /\ \A g, h \in Hosts : known[g] \cap known[h] # {} => g = h
      /\ \A h \in Hosts : \A j \in known[h] \cup branches[h] : Through(j)
  BY DEF DoorInv, Received, DoorTyped
<1>5. Received'
  <2>1. \A h \in Hosts : \A j \in known'[h] :
           doorPc'[j] # "idle" /\ (delivery'[j].kind = "none" \/ delivery'[j].as = h)
    <3> SUFFICES ASSUME NEW h \in Hosts, NEW j \in known'[h]
                 PROVE  doorPc'[j] # "idle" /\ (delivery'[j].kind = "none" \/ delivery'[j].as = h)
      OBVIOUS
    <3>1. j \in Messages
      OBVIOUS
    <3>2. doorPc[j] # "idle" /\ (delivery[j].kind = "none" \/ delivery[j].as = h)
      BY <1>4
    <3> QED
      BY <1>1, <3>1, <3>2
  <2>2. \A g, h \in Hosts : known'[g] \cap known'[h] # {} => g = h
    BY <1>3, <1>4
  <2>3. \A j \in Messages : Through(j) => Through(j)'
    BY <1>1 DEF Through
  <2>4. \A h \in Hosts : \A j \in known'[h] : Through(j)'
    <3> SUFFICES ASSUME NEW h \in Hosts, NEW j \in known'[h] PROVE Through(j)'
      OBVIOUS
    <3>1. j \in Messages
      OBVIOUS
    <3>2. CASE j \in known[h]
      BY <1>4, <2>3, <3>1, <3>2
    <3>3. CASE j = i /\ doorPc'[i] \in {"ban", "done"}
      BY <3>3 DEF Through
    <3> QED
      BY <3>2, <3>3
  <2>5. \A h \in Hosts : \A j \in branches'[h] : Through(j)'
    <3> SUFFICES ASSUME NEW h \in Hosts, NEW j \in branches'[h] PROVE Through(j)'
      OBVIOUS
    <3>1. j \in Messages
      OBVIOUS
    <3>2. CASE j \in branches[h]
      BY <1>4, <2>3, <3>1, <3>2
    <3>3. CASE \E g \in Hosts : j \in known'[g]
      BY <2>4, <3>3
    <3> QED
      BY <3>2, <3>3
  <2> QED
    BY <2>1, <2>2, <2>4, <2>5 DEF Received
<1>6. \A j \in Messages : CountedOf(j)'
  <2> SUFFICES ASSUME NEW j \in Messages PROVE CountedOf(j)'
    OBVIOUS
  <2>1. CountedOf(j) /\ forgotten \subseteq forgotten'
    BY DEF DoorInv, RegisterCounts
  <2>2. /\ doorPc[j] # "idle" => doorPc'[j] # "idle"
        /\ delivery'[j].kind = "none" \/ delivery'[j].as = delivery[j].as
        /\ delivery[j].kind = "none" => delivery'[j].kind = "none"
    BY <1>1
  <2>3. CASE j \in forgotten'
    BY <2>3 DEF CountedOf
  <2>4. CASE counted'[j] = counted[j] /\ j \notin forgotten'
    <3>1. CASE counted[j] = 0
      BY <2>4, <3>1 DEF CountedOf
    <3>2. CASE counted[j] = 1 /\ delivery'[j].kind = "none"
      BY <2>1, <2>2, <2>4, <3>2 DEF CountedOf
    <3>3. CASE counted[j] = 1 /\ delivery'[j].kind # "none"
      <4>1. j \in InRing(struck[delivery[j].as]) /\ delivery'[j].as = delivery[j].as /\ doorPc'[j] # "idle"
        BY <2>1, <2>2, <2>4, <3>3 DEF CountedOf
      <4>2. delivery[j].as \in Hosts
        <5>1. delivery[j].kind # "none" /\ Carried(j)
          BY <2>2, <3>3 DEF DoorInv
        <5> QED
          BY <5>1, NoMsgTyped DEF Carried, Sent
      <4>3. j \in InRing(struck'[delivery'[j].as])
        BY <2>4, <4>1, <4>2 DEF RegisterCounts
      <4>4. InRing(struck[delivery[j].as])' = InRing(struck'[delivery'[j].as])
        BY DEF InRing
      <4> QED
        BY <2>4, <3>3, <4>1, <4>3, <4>4 DEF CountedOf
    <3> QED
      BY <2>1, <2>4, <3>1, <3>2, <3>3 DEF CountedOf
  <2>5. CASE counted'[j] # counted[j] /\ j \notin forgotten'
    <3>1. /\ j = i /\ counted'[j] = counted[j] + 1
          /\ j \notin InRing(struck[delivery[j].as]) /\ j \in InRing(struck'[delivery[j].as])
      BY <2>5 DEF RegisterCounts
    <3>2. counted[j] = 0 /\ doorPc'[j] # "idle"
      BY <1>1, <1>3, <2>1, <2>5, <3>1 DEF CountedOf
    <3>3. delivery'[j].kind = "none" \/ j \in InRing(struck'[delivery'[j].as])
      BY <2>2, <3>1
    <3>4. InRing(struck[delivery[j].as])' = InRing(struck'[delivery'[j].as])
      BY DEF InRing
    <3> QED
      BY <3>1, <3>2, <3>3, <3>4 DEF CountedOf
  <2> QED
    BY <2>3, <2>4, <2>5
<1>7. FairlyBlamed'
  BY DEF Judged, FairlyBlamed
<1>8. BansBlamed'
  <2>1. ASSUME NEW h \in Honest, h \in bans["ip"] PROVE BlamedOf(h)'
    BY <1>0, <2>1, BlamedStays DEF DoorInv, BansBlamed
  <2> QED
    BY <2>1 DEF BansBlamed
<1> QED
  BY <1>1, <1>2, <1>5, <1>6, <1>7, <1>8 DEF DoorInv

\* The records of the guard, when a step leaves all or some of them alone.
LEMMA DoorKept ==
    ASSUME DoorInv
    PROVE  /\ count \in [Hosts \X Door!Budgets -> 0..(Forgiven + 1)]
           /\ bans \in [Door!Tables -> SUBSET Hosts] /\ bindings \subseteq Hosts \X {"udp", "ws"}
           /\ nonces \in [Hosts -> SUBSET Messages] /\ known \in [Hosts -> SUBSET Messages]
           /\ \A h \in Hosts : nonces[h] \subseteq known[h]
           /\ branches \in [Hosts -> SUBSET Messages] /\ struck \in Rings
           /\ again \subseteq Messages /\ counted \in [Messages -> Nat] /\ forgotten \subseteq Messages
           /\ delivery \in [Messages -> Delivery]
           /\ doorPc \in [Messages -> {"idle", "wire", "parsed", "handler", "asked", "ban", "done"}]
BY DEF DoorInv, DoorTyped, Received

\* A step of one message that leaves the bans and what is remembered alone.
LEMMA DoorPlainStep ==
    ASSUME DoorInv, NEW i \in Messages, doorPc[i] \notin {"idle", "done", "ban"}, GoesOn(i),
           RegisterCounts(i), Judged, UNCHANGED <<bans, again, nonces, branches, known>>,
           bindings' \subseteq Hosts \X {"udp", "ws"}
    PROVE  DoorInv'
BY DoorKept, HandledStep

LEMMA SendStep ==
    ASSUME DoorInv, NEW i \in Messages, Door!Send(i) PROVE DoorInv'
<1>1. PICK m \in Door!Sendable(i) : delivery' = [delivery EXCEPT ![i] = m]
  BY DEF Door!Send
<1>2. /\ doorPc[i] = "idle" /\ doorPc' = [doorPc EXCEPT ![i] = "wire"]
      /\ UNCHANGED <<count, bans, bindings, nonces, branches, struck, known, counted, again,
                     forgotten, blamed>>
  BY DEF Door!Send, Door!Goto, Door!strikes, Door!remembered
<1>3. m \in [from : Hosts, as : Hosts, tp : {"udp", "ws"}, kind : Door!Kinds, good : BOOLEAN,
             nonce : Messages \cup {0}, branch : Messages, table : {"none"}]
  BY DEF Door!Sendable
<1>4. Sent(i, m)
  <2>1. m \in Delivery
    BY <1>3 DEF Delivery
  <2> QED
    BY <1>3, <2>1 DEF Door!Sendable, Sent
<1>5. /\ DoorTyped /\ Received /\ (\A j \in Messages : Carried(j) /\ CountedOf(j))
      /\ doorPc \in [Messages -> {"idle", "wire", "parsed", "handler", "asked", "ban", "done"}]
      /\ delivery \in [Messages -> Delivery] /\ FairlyBlamed /\ BansBlamed
  BY DEF DoorInv, DoorTyped
<1>6. /\ doorPc'[i] = "wire" /\ delivery'[i] = m
      /\ \A j \in Messages : j # i => doorPc'[j] = doorPc[j] /\ delivery'[j] = delivery[j]
  BY <1>1, <1>2, <1>5
<1>7. DoorTyped'
  BY <1>1, <1>2, <1>4, <1>5 DEF DoorTyped, Sent, Delivery, Rings
<1>8. \A j \in Messages : Carried(j)'
  <2>1. Carried(i)'
    BY <1>2, <1>4, <1>6 DEF Carried, Sent
  <2>2. \A j \in Messages : j # i => Carried(j)'
    BY <1>2, <1>5, <1>6 DEF Carried, Sent, BlamedOf
  <2> QED
    BY <2>1, <2>2
<1>9. Received'
  <2>1. \A h \in Hosts : i \notin known[h] /\ (i \in branches[h] => i \in again)
    BY <1>2, <1>5 DEF Received, Through
  <2>2. \A h \in Hosts : known[h] \subseteq Messages /\ branches[h] \subseteq Messages
    BY <1>5 DEF DoorTyped
  <2>3. \A h \in Hosts : \A j \in known[h] \cup branches[h] : Through(j)'
    BY <1>2, <1>5, <1>6, <2>1, <2>2 DEF Received, Through
  <2> QED
    BY <1>2, <1>5, <1>6, <2>1, <2>2, <2>3 DEF Received
<1>10. \A j \in Messages : CountedOf(j)'
  BY <1>2, <1>5, <1>6 DEF CountedOf
<1>11. FairlyBlamed' /\ BansBlamed'
  BY <1>2, <1>5 DEF FairlyBlamed, BansBlamed, BlamedOf
<1> QED
  BY <1>7, <1>8, <1>9, <1>10, <1>11 DEF DoorInv

LEMMA DuplicateStep ==
    ASSUME DoorInv, NEW i \in Messages, Door!Duplicate(i) PROVE DoorInv'
<1>1. /\ doorPc[i] = "done" /\ doorPc' = [doorPc EXCEPT ![i] = "wire"] /\ delivery' = delivery
      /\ delivery[i].kind = "cred" /\ again' = again \cup {i}
      /\ UNCHANGED <<count, bans, bindings, nonces, branches, struck, known, counted, forgotten, blamed>>
  BY DEF Door!Duplicate, Door!Goto, Door!strikes, Door!remembered
<1>2. /\ DoorTyped /\ Received /\ (\A j \in Messages : Carried(j) /\ CountedOf(j))
      /\ doorPc \in [Messages -> {"idle", "wire", "parsed", "handler", "asked", "ban", "done"}]
      /\ FairlyBlamed /\ BansBlamed
  BY DEF DoorInv, DoorTyped
<1>3. /\ doorPc'[i] = "wire"
      /\ \A j \in Messages : j # i => doorPc'[j] = doorPc[j]
      /\ \A j \in Messages : doorPc[j] # "idle" => doorPc'[j] # "idle"
  BY <1>1, <1>2
<1>4. DoorTyped'
  BY <1>1, <1>2 DEF DoorTyped
<1>5. \A j \in Messages : Carried(j)'
  <2>1. Carried(i)'
    BY <1>1, <1>2, <1>3, NoMsgTyped DEF Carried, Sent
  <2>2. \A j \in Messages : j # i => Carried(j)'
    BY <1>1, <1>2, <1>3 DEF Carried, Sent, BlamedOf
  <2> QED
    BY <2>1, <2>2
<1>6. Received'
  <2>1. \A h \in Hosts : known[h] \subseteq Messages /\ branches[h] \subseteq Messages
    BY <1>2 DEF DoorTyped
  <2>2. \A h \in Hosts : \A j \in known[h] \cup branches[h] : Through(j)'
    BY <1>1, <1>2, <1>3, <2>1 DEF Received, Through
  <2> QED
    BY <1>1, <1>2, <1>3, <2>1, <2>2 DEF Received
<1>7. \A j \in Messages : CountedOf(j)'
  BY <1>1, <1>2, <1>3 DEF CountedOf
<1>8. FairlyBlamed' /\ BansBlamed'
  BY <1>1, <1>2 DEF FairlyBlamed, BansBlamed, BlamedOf
<1> QED
  BY <1>4, <1>5, <1>6, <1>7, <1>8 DEF DoorInv

LEMMA FilterStep ==
    ASSUME DoorInv, NEW i \in Messages, Door!Filter(i) PROVE DoorInv'
<1>1. /\ doorPc[i] = "wire" /\ doorPc[i] \notin {"idle", "done", "ban"}
      /\ UNCHANGED <<bans, bindings, nonces, branches, known, again>>
  BY DEF Door!Filter, Door!remembered
<1>2. GoesOn(i) /\ Judged /\ RegisterCounts(i)
  <2>1. CASE Door!Finish(i) /\ UNCHANGED Door!strikes
    BY <1>1, <2>1, FinishGoes, NobodyJudged, NothingCounted DEF Door!strikes
  <2>2. CASE Door!AdmissionStrike(i)
    BY <1>1, <2>2, AdmissionGoes, NothingCounted
  <2>3. CASE Door!RegisterStrike(i, TRUE, "parsed") /\ delivery[i].kind = "cred"
    BY <1>1, <2>3, RegisterGoes
  <2>4. CASE Door!Goto(i, "parsed") /\ UNCHANGED <<delivery, Door!strikes>>
    BY <1>1, <2>4, GotoGoes, NobodyJudged, NothingCounted DEF Door!strikes
  <2>5. \/ Door!Finish(i) /\ UNCHANGED Door!strikes
        \/ Door!AdmissionStrike(i)
        \/ Door!RegisterStrike(i, TRUE, "parsed") /\ delivery[i].kind = "cred"
        \/ Door!Goto(i, "parsed") /\ UNCHANGED <<delivery, Door!strikes>>
    BY DEF Door!Filter
  <2> QED
    BY <2>1, <2>2, <2>3, <2>4, <2>5
<1> QED
  BY <1>1, <1>2, DoorKept, DoorPlainStep

LEMMA GuardStep ==
    ASSUME DoorInv, NEW i \in Messages, Door!Guard(i) PROVE DoorInv'
<1> DEFINE m == delivery[i]
           drop == m.kind = "scanner" /\ m.as \notin CarrierHosts
           table == IF m.tp = "udp" THEN "udp_socket" ELSE "ip"
<1>1. /\ doorPc[i] = "parsed" /\ doorPc[i] \notin {"idle", "done", "ban"}
      /\ Door!Finish(i) \/ (Door!Goto(i, "handler") /\ delivery' = delivery)
      /\ bans' = bans \/ (drop /\ bans' = [bans EXCEPT ![table] = @ \cup {m.as}])
      /\ UNCHANGED <<count, bindings, nonces, branches, struck, known, counted, again, forgotten, blamed>>
  BY DEF Door!Guard, Door!strikes, Door!remembered
<1>2. GoesOn(i) /\ Judged /\ RegisterCounts(i)
  BY <1>1, FinishGoes, GotoGoes, NobodyJudged, NothingCounted
<1>3. bans' \in [Door!Tables -> SUBSET Hosts] /\ \A h \in Honest \cap bans'["ip"] : h \in bans["ip"]
  <2>1. CASE bans' = bans
    BY <2>1, DoorKept
  <2>2. CASE drop /\ bans' = [bans EXCEPT ![table] = @ \cup {m.as}]
    <3>1. m.as \in Hosts /\ table \in Door!Tables /\ "ip" \in Door!Tables
      BY <1>1, Named DEF Sent, Door!Tables
    <3>2. table = "ip" => m.as \notin Honest
      BY <1>1, <2>2, Named DEF Sent, Delivery
    <3> QED
      BY <2>2, <3>1, <3>2, DoorKept
  <2> QED
    BY <1>1, <2>1, <2>2
<1> QED
  BY <1>1, <1>2, <1>3, DoorKept, HandledStep

LEMMA HandleStep ==
    ASSUME DoorInv, NEW i \in Messages, Door!Handle(i) PROVE DoorInv'
<1>1. /\ doorPc[i] = "handler" /\ doorPc[i] \notin {"idle", "done", "ban"}
      /\ UNCHANGED <<bans, bindings, nonces, branches, known, again>>
  BY DEF Door!Handle, Door!remembered
<1>2. GoesOn(i) /\ Judged /\ RegisterCounts(i)
  <2>1. CASE Door!Finish(i) /\ UNCHANGED Door!strikes
    BY <1>1, <2>1, FinishGoes, NobodyJudged, NothingCounted DEF Door!strikes
  <2>2. CASE Door!Goto(i, "asked") /\ UNCHANGED <<delivery, Door!strikes>>
    BY <1>1, <2>2, GotoGoes, NobodyJudged, NothingCounted DEF Door!strikes
  <2>3. CASE Door!AdmissionStrike(i)
    BY <1>1, <2>3, AdmissionGoes, NothingCounted
  <2>4. \/ Door!Finish(i) /\ UNCHANGED Door!strikes
        \/ Door!Goto(i, "asked") /\ UNCHANGED <<delivery, Door!strikes>>
        \/ Door!AdmissionStrike(i)
    BY DEF Door!Handle
  <2> QED
    BY <2>1, <2>2, <2>3, <2>4
<1> QED
  BY <1>1, <1>2, DoorKept, DoorPlainStep

LEMMA AnswerStep ==
    ASSUME DoorInv, NEW i \in Messages, Door!Answer(i) PROVE DoorInv'
<1> DEFINE h == delivery[i].as
<1>1. doorPc[i] = "asked" /\ doorPc[i] \notin {"idle", "done", "ban"} /\ UNCHANGED <<bans, again>>
  BY DEF Door!Answer
<1>2. /\ h \in Hosts /\ delivery[i].from \in Hosts /\ delivery[i].tp \in {"udp", "ws"}
      /\ delivery[i].branch \in Messages /\ delivery[i].branch \in known[delivery[i].from] \cup {i}
  BY <1>1, Named DEF Sent, Delivery
<1>3. CASE /\ count' = [k \in Hosts \X Door!Budgets |-> IF k[1] = h THEN 0 ELSE count[k]]
           /\ bindings' = bindings \cup {<<h, delivery[i].tp>>}
           /\ Door!Finish(i) /\ UNCHANGED <<struck, counted, forgotten, blamed, Door!remembered>>
  <2>1. Judged
    BY <1>3, DoorKept, DoorNumbers DEF Judged, DoorInv, FairlyBlamed
  <2>2. bindings' \subseteq Hosts \X {"udp", "ws"}
    BY <1>2, <1>3, DoorKept
  <2>3. UNCHANGED <<nonces, branches, known>>
    BY <1>3 DEF Door!remembered
  <2> QED
    BY <1>1, <1>3, <2>1, <2>2, <2>3, FinishGoes, NothingCounted, DoorPlainStep
<1>4. ASSUME Door!Challenged(i) \/ UNCHANGED Door!remembered, GoesOn(i), Judged, RegisterCounts(i),
             bindings' = bindings, doorPc'[i] \in {"ban", "done"}
      PROVE  DoorInv'
  <2>1. CASE UNCHANGED Door!remembered
    BY <1>1, <1>4, <2>1, DoorKept, DoorPlainStep DEF Door!remembered
  <2>2. CASE Door!Challenged(i)
    <3>1. /\ nonces' = [nonces EXCEPT ![h] = @ \cup {i}] /\ known' = [known EXCEPT ![h] = @ \cup {i}]
          /\ branches' = [branches EXCEPT ![h] = @ \cup {delivery[i].branch}]
      BY <2>2 DEF Door!Challenged
    <3>2. /\ nonces' \in [Hosts -> SUBSET Messages] /\ known' \in [Hosts -> SUBSET Messages]
          /\ branches' \in [Hosts -> SUBSET Messages]
      BY <1>2, <3>1, DoorKept
    <3>3. \A g \in Hosts : known[g] \subseteq known'[g] /\ nonces'[g] \subseteq known'[g]
      BY <1>2, <3>1, DoorKept
    <3>4. \A g \in Hosts : \A j \in known'[g] : j \in known[g] \/ (j = i /\ g = delivery[i].as)
      BY <1>2, <3>1, DoorKept
    <3>5. \A g \in Hosts : \A j \in branches'[g] : j \in branches[g] \/ j = delivery[i].branch
      BY <1>2, <3>1, DoorKept
    <3>6. \E g \in Hosts : delivery[i].branch \in known'[g]
      <4>1. i \in known'[h]
        BY <1>2, <3>1, DoorKept
      <4> QED
        BY <1>2, <3>3, <4>1
    <3>7. \A g \in Hosts : \A j \in branches'[g] : j \in branches[g] \/ \E o \in Hosts : j \in known'[o]
      BY <3>5, <3>6, Zenon
    <3>8. \A g \in Hosts : \A j \in known'[g] :
             j \in known[g] \/ (j = i /\ g = delivery[i].as /\ doorPc'[i] \in {"ban", "done"})
      BY <1>4, <3>4, Zenon
    <3>9. bans' \in [Door!Tables -> SUBSET Hosts] /\ bindings' \subseteq Hosts \X {"udp", "ws"}
          /\ \A g \in Honest \cap bans'["ip"] : g \in bans["ip"]
      BY <1>1, <1>4, DoorKept
    <3> QED
      BY <1>1, <1>4, <3>2, <3>3, <3>7, <3>8, <3>9, HandledStep
  <2> QED
    BY <1>4, <2>1, <2>2
<1>5. ASSUME delivery[i].kind = "cred", ~delivery[i].good, Door!RegisterStrike(i, FALSE, "done"),
             Door!Challenged(i) \/ UNCHANGED Door!remembered, bindings' = bindings
      PROVE  DoorInv'
  <2>1. GoesOn(i) /\ Judged /\ RegisterCounts(i) /\ doorPc'[i] \in {"done", "ban"}
    BY <1>1, <1>5, RegisterGoes
  <2> QED
    BY <1>4, <1>5, <2>1
<1>6. ASSUME Door!Challenged(i) \/ UNCHANGED Door!remembered, Door!Finish(i),
             UNCHANGED <<Door!strikes, bindings>>
      PROVE  DoorInv'
  <2>1. GoesOn(i) /\ doorPc'[i] = "done" /\ Judged /\ RegisterCounts(i)
    BY <1>1, <1>6, FinishGoes, NobodyJudged, NothingCounted DEF Door!strikes
  <2> QED
    BY <1>4, <1>6, <2>1
<1> QED
  BY <1>3, <1>5, <1>6, Zenon DEF Door!Answer

LEMMA BanStep ==
    ASSUME DoorInv, NEW i \in Messages, Door!Ban(i) PROVE DoorInv'
<1>1. /\ doorPc[i] = "ban" /\ doorPc[i] \notin {"idle", "done"} /\ Door!Finish(i)
      /\ bans' = [bans EXCEPT ![delivery[i].table] = @ \cup {delivery[i].as}]
      /\ UNCHANGED <<count, bindings, nonces, branches, struck, known, counted, again, forgotten, blamed>>
  BY DEF Door!Ban, Door!strikes, Door!remembered
<1>2. /\ delivery[i].as \in Hosts /\ delivery[i].table \in Door!Tables
      /\ delivery[i].table = "ip" /\ delivery[i].as \in Honest => BlamedOf(delivery[i].as)
  BY <1>1, Named DEF Sent
<1>3. bans' \in [Door!Tables -> SUBSET Hosts]
  BY <1>1, <1>2, DoorKept
<1>4. ASSUME NEW h \in Honest \cap bans'["ip"] PROVE h \in bans["ip"] \/ BlamedOf(h)'
  <2>1. "ip" \in Door!Tables
    BY DEF Door!Tables
  <2>2. h \in bans["ip"] \/ (delivery[i].table = "ip" /\ h = delivery[i].as)
    BY <1>1, <1>2, <2>1, DoorKept
  <2>3. h \in bans["ip"] \/ BlamedOf(h)
    BY <1>2, <2>2
  <2> QED
    BY <1>1, <2>3 DEF BlamedOf, Door!Reasons
<1>5. GoesOn(i) /\ doorPc'[i] = "done" /\ Judged /\ RegisterCounts(i)
  BY <1>1, FinishGoes, NobodyJudged, NothingCounted
<1> QED
  BY <1>1, <1>3, <1>4, <1>5, DoorKept, HandledStep

LEMMA LapseStep == ASSUME DoorInv, Door!Lapse PROVE DoorInv'
<1>1. /\ doorPc' = doorPc /\ delivery' = delivery /\ UNCHANGED <<known, again, counted, blamed>>
  BY DEF Door!Lapse, Door!Expire, Door!Unbind, Door!Evict, Door!remembered, Door!strikes
<1>2. /\ count' \in [Hosts \X Door!Budgets -> 0..(Forgiven + 1)]
      /\ bans' \in [Door!Tables -> SUBSET Hosts] /\ Honest \cap bans'["ip"] \subseteq bans["ip"]
  <2>1. CASE \E t \in Door!Tables : bans' = [bans EXCEPT ![t] = {}] /\ UNCHANGED count
    <3>1. "ip" \in Door!Tables
      BY DEF Door!Tables
    <3> QED
      BY <2>1, <3>1, DoorKept
  <2>2. CASE \E k \in Hosts \X Door!Budgets : count' = [count EXCEPT ![k] = 0] /\ UNCHANGED bans
    BY <2>2, DoorKept, DoorNumbers
  <2>3. CASE UNCHANGED <<count, bans>>
    BY <2>3, DoorKept
  <2> QED
    BY <2>1, <2>2, <2>3 DEF Door!Lapse, Door!Expire, Door!Unbind, Door!Evict, Door!strikes
<1>3. bindings' \subseteq bindings
  BY DEF Door!Lapse, Door!Expire, Door!Unbind, Door!Evict
<1>4. /\ nonces' \in [Hosts -> SUBSET Messages] /\ \A h \in Hosts : nonces'[h] \subseteq nonces[h]
      /\ branches' \in [Hosts -> SUBSET Messages] /\ \A h \in Hosts : branches'[h] \subseteq branches[h]
  <2>1. CASE UNCHANGED Door!remembered
    BY <2>1, DoorKept DEF Door!remembered
  <2>2. CASE Door!Evict
    BY <2>2, DoorKept DEF Door!Evict
  <2> QED
    BY <2>1, <2>2 DEF Door!Lapse, Door!Expire, Door!Unbind
<1>5. /\ struck' \in Rings /\ forgotten' \subseteq Messages /\ forgotten \subseteq forgotten'
      /\ \A h \in Hosts : InRing(struck[h]) \subseteq InRing(struck'[h]) \cup forgotten'
  <2>0. /\ struck \in [Hosts -> Seq(Messages)] /\ \A h \in Hosts : Len(struck[h]) <= Slots
        /\ forgotten \subseteq Messages
    BY DoorKept DEF Rings
  <2>1. CASE UNCHANGED <<struck, forgotten>>
    BY <2>0, <2>1, DoorKept
  <2>2. CASE Door!Evict
    <3>1. PICK g \in Hosts : struck' = [struck EXCEPT ![g] = <<>>] /\ forgotten' = forgotten \cup InRing(struck[g])
      BY <2>2 DEF Door!Evict, Door!Struck, InRing
    <3>2. struck' \in Rings
      <4>1. <<>> \in Seq(Messages) /\ Len(<<>>) = 0 /\ Slots \in Nat
        BY DoorNumbers
      <4>2. \A h \in Hosts : struck'[h] = IF h = g THEN <<>> ELSE struck[h]
        BY <2>0, <3>1
      <4> QED
        BY <2>0, <3>1, <4>1, <4>2 DEF Rings
    <3>3. InRing(struck[g]) \subseteq Messages
      <4>1. \A s \in Seq(Messages) : \A k \in DOMAIN s : s[k] \in Messages
        OBVIOUS
      <4> QED
        BY <2>0, <4>1 DEF InRing
    <3>4. \A h \in Hosts : h # g => struck'[h] = struck[h]
      BY <2>0, <3>1
    <3> QED
      BY <2>0, <3>1, <3>2, <3>3, <3>4
  <2> QED
    BY <2>1, <2>2 DEF Door!Lapse, Door!Expire, Door!Unbind, Door!strikes
<1>6. DoorTyped'
  <2>1. Rings' = Rings
    BY DEF Rings
  <2> QED
    BY <1>1, <1>2, <1>3, <1>4, <1>5, <2>1, DoorKept DEF DoorTyped
<1>7. \A i \in Messages : Carried(i)'
  <2>1. \A i \in Messages : Carried(i)
    BY DEF DoorInv
  <2> QED
    BY <1>1, <2>1 DEF Carried, Sent, BlamedOf
<1>8. Received'
  BY <1>1, <1>4, DoorKept DEF DoorInv, Received, Through
<1>9. ASSUME NEW i \in Messages PROVE CountedOf(i)'
  <2>1. CountedOf(i) /\ Carried(i)
    BY DEF DoorInv
  <2>2. CASE delivery[i].kind = "none"
    BY <1>1, <1>5, <2>1, <2>2 DEF CountedOf
  <2>3. CASE delivery[i].kind # "none"
    <3>1. delivery[i].as \in Hosts
      BY <2>1, <2>3, NoMsgTyped DEF Carried, Sent
    <3>2. InRing(struck[delivery[i].as])' = InRing(struck'[delivery[i].as])
      BY <1>1 DEF InRing
    <3> QED
      BY <1>1, <1>5, <2>1, <3>1, <3>2 DEF CountedOf
  <2> QED
    BY <2>2, <2>3
<1>10. FairlyBlamed' /\ BansBlamed'
  <2>1. FairlyBlamed /\ BansBlamed
    BY DEF DoorInv
  <2> QED
    BY <1>1, <1>2, <2>1 DEF FairlyBlamed, BansBlamed, BlamedOf
<1> QED
  BY <1>6, <1>7, <1>8, <1>9, <1>10 DEF DoorInv

LEMMA DoorStep == ASSUME DoorInv, [Door!Next]_(Door!vars) PROVE DoorInv'
<1>1. ASSUME UNCHANGED Door!vars PROVE DoorInv'
  BY <1>1
     DEF Door!vars, DoorInv, DoorTyped, Carried, Sent, Received, Through, CountedOf, FairlyBlamed,
         BansBlamed, BlamedOf, Rings
<1> QED
  BY <1>1, SendStep, DuplicateStep, FilterStep, GuardStep, HandleStep, AnswerStep, BanStep, LapseStep
     DEF Door!Next, Door!Handling

LEMMA LeastNat ==
    ASSUME NEW S, S \subseteq Nat, S # {}
    PROVE  \E x \in S : \A y \in S : x <= y
<1>1. \E R : IsWellFoundedOn(R, Nat) /\ \A x, y \in Nat : y < x => <<y, x>> \in R
  <2>1. ASSUME NEW x \in Nat, NEW y \in Nat, y < x PROVE <<y, x>> \in OpToRel(<, Nat)
    BY <2>1, Zenon DEF OpToRel
  <2> QED
    BY <2>1, NatLessThanWellFounded, Zenon
<1>2. PICK R : IsWellFoundedOn(R, Nat) /\ \A x, y \in Nat : y < x => <<y, x>> \in R
  BY <1>1
<1>3. PICK x \in S : \A y \in S : ~(<<y, x>> \in R)
  BY <1>2, WFMin, Zenon
<1>4. \A y \in S : ~(y < x) /\ y \in Nat /\ x \in Nat
  BY <1>2, <1>3
<1> QED
  BY <1>3, <1>4

----------------------------------------------------------------------------
(* The admin server's limiter and sessions.                                *)

LEMMA SameAdminCard == \A S : Admin!Cardinality(S) = Cardinality(S)
  BY DEF Cardinality, Admin!Cardinality
LEMMA SameAdminFinite == \A S : Admin!IsFiniteSet(S) <=> IsFiniteSet(S)
  BY DEF IsFiniteSet, Admin!IsFiniteSet

Entries == {s \in LoginSources : s \in DOMAIN budgets}
InBcrypt(n) == {r \in Logins : req[r].slot = n /\ req[r].pc \in {"basic", "login"}}
Begun == {r \in Logins : req[r].pc # "new"}

ReqTyped ==
    req \in [Logins -> [pc : {"new", "basic", "login", "passed", "refused", "limited"},
                        source : LoginSources \cup {Admin!Nobody}, slot : Admin!Names \cup {Admin!NoSlot}]]
BudgetsTyped == DOMAIN budgets \subseteq LoginSources /\ \A s \in DOMAIN budgets : budgets[s] \in Admin!Entry
HistoryTyped ==
    /\ windows \in Nat /\ windows <= Cardinality(Begun)
    /\ reports \in [Admin!Names -> Nat] /\ guesses \in [Admin!Names -> Nat]
SessionsTyped ==
    /\ credsAge \in 0..CredsTTL /\ DOMAIN sessions \subseteq Logins
    /\ \A i \in DOMAIN sessions : sessions[i] \in [age : 0..MaxAge, idle : 0..IdleTimeout]
    /\ Cardinality(DOMAIN sessions) <= MaxSessions

\* Windows are named in the order they start and each is one source's; a slot
\* is of a window that has started, and of its own source while that has the
\* window.
WindowsNamed ==
    /\ \A s \in DOMAIN budgets : budgets[s].start <= windows
    /\ \A s, x \in DOMAIN budgets : budgets[s].start = budgets[x].start => s = x
    /\ \A r \in Logins :
          /\ req[r].slot <= windows
          /\ req[r].pc \in {"basic", "login"} =>
                /\ req[r].slot # Admin!NoSlot /\ req[r].source \in LoginSources
                /\ \A s \in DOMAIN budgets : budgets[s].start = req[r].slot => s = req[r].source

\* What a window has spent is its wrong passwords and what is in bcrypt.
Charged == \A s \in DOMAIN budgets :
    budgets[s].failures = guesses[budgets[s].start] + Cardinality(InBcrypt(budgets[s].start))
Affordable == \A n \in Admin!Names :
    /\ guesses[n] + Cardinality(InBcrypt(n)) <= AuthLimit
    /\ n > windows => guesses[n] = 0
TableBounded == IsFiniteSet(DOMAIN budgets) /\ Cardinality(DOMAIN budgets) <= MaxIPs

\* A window's lockout is reported when it is first denied.
ReportedOnce ==
    /\ \A n \in Admin!Names : reports[n] <= 1 /\ (n > windows => reports[n] = 0)
    /\ \A s \in DOMAIN budgets : budgets[s].denied \/ reports[budgets[s].start] = 0

LEMMA AdmConstants ==
    /\ IsFiniteSet(Logins) /\ Logins \subseteq Nat /\ Admin!Nobody \notin LoginSources
    /\ AuthLimit \in Nat \ {0} /\ AuthWindow \in Nat \ {0} /\ MaxIPs \in Nat \ {0}
    /\ MaxSessions \in Nat \ {0} /\ CredsTTL \in Nat /\ IdleTimeout \in Nat /\ MaxAge \in Nat
    /\ Cardinality(Logins) \in Nat /\ Admin!Names = 1..Cardinality(Logins) /\ Admin!NoSlot = 0
  BY AdminAssumption, SameAdminFinite, SameAdminCard, FS_CardinalityType
     DEF Admin!ConstantsOK, Admin!Nobody, Admin!Names, Admin!NoSlot

LEMMA BcryptFinite ==
    /\ \A n : IsFiniteSet(InBcrypt(n)) /\ Cardinality(InBcrypt(n)) \in Nat
    /\ IsFiniteSet(Begun) /\ Cardinality(Begun) \in Nat /\ Cardinality(Begun) <= Cardinality(Logins)
<1>1. \A n : InBcrypt(n) \subseteq Logins
  BY DEF InBcrypt
<1>2. Begun \subseteq Logins
  BY DEF Begun
<1>3. ASSUME NEW S \in SUBSET Logins
      PROVE  IsFiniteSet(S) /\ Cardinality(S) \in Nat /\ Cardinality(S) <= Cardinality(Logins)
  BY AdmConstants, FS_Subset, FS_CardinalityType
<1> QED
  BY <1>1, <1>2, <1>3

\* evictLocked finds an entry in every table that is not empty.
LEMMA VictimFound ==
    ASSUME NEW table, DOMAIN table # {},
           \A s \in DOMAIN table : table[s].failures \in Nat /\ table[s].start \in Nat
    PROVE  /\ Admin!Victim(table) \in DOMAIN table
           /\ \A x \in DOMAIN table : table[Admin!Victim(table)].failures <= table[x].failures
<1>1. PICK f \in {table[s].failures : s \in DOMAIN table} :
        \A g \in {table[s].failures : s \in DOMAIN table} : f <= g
  <2> DEFINE F == {table[s].failures : s \in DOMAIN table}
  <2>1. F \subseteq Nat /\ F # {}
    OBVIOUS
  <2> HIDE DEF F
  <2>2. \E f \in F : \A g \in F : f <= g
    BY <2>1, LeastNat
  <2> QED
    BY <2>2 DEF F
<1> DEFINE T == {table[s].start : s \in {x \in DOMAIN table : table[x].failures = f}}
<1>2. T \subseteq Nat /\ T # {}
  BY <1>1
<1> HIDE DEF T
<1>3. PICK t \in T : \A u \in T : t <= u
  BY <1>2, LeastNat
<1>4. PICK s \in DOMAIN table : table[s].failures = f /\ table[s].start = t
  BY <1>3 DEF T
<1>5. ASSUME NEW x \in DOMAIN table
      PROVE  \/ table[s].failures < table[x].failures
             \/ table[s].failures = table[x].failures /\ table[s].start <= table[x].start
  <2>1. f <= table[x].failures /\ table[x].failures \in Nat /\ f \in Nat
    BY <1>1
  <2>2. CASE table[x].failures = f
    <3>1. table[x].start \in T
      BY <2>2 DEF T
    <3> QED
      BY <1>3, <1>4, <2>2, <3>1
  <2>3. CASE table[x].failures # f
    BY <1>4, <2>1, <2>3
  <2> QED
    BY <2>2, <2>3
<1>6. /\ Admin!Victim(table) \in DOMAIN table
      /\ \A x \in DOMAIN table :
           \/ table[Admin!Victim(table)].failures < table[x].failures
           \/ /\ table[Admin!Victim(table)].failures = table[x].failures
              /\ table[Admin!Victim(table)].start <= table[x].start
  BY <1>4, <1>5, Zenon DEF Admin!Victim
<1>7. ASSUME NEW x \in DOMAIN table PROVE table[Admin!Victim(table)].failures <= table[x].failures
  BY <1>6
<1> QED
  BY <1>6, <1>7

\* A request's way through bcrypt.
LEMMA EntersBcrypt ==
    ASSUME ReqTyped, NEW r \in Logins, req[r].pc = "new", NEW then \in {"basic", "login"}, NEW s, NEW n,
           req' = [req EXCEPT ![r] = [pc |-> then, source |-> s, slot |-> n]]
    PROVE  /\ \A m : Cardinality(InBcrypt(m))' = Cardinality(InBcrypt(m)) + (IF m = n THEN 1 ELSE 0)
           /\ Cardinality(Begun)' = Cardinality(Begun) + 1
<1>1. /\ req'[r] = [pc |-> then, source |-> s, slot |-> n]
      /\ \A x \in Logins \ {r} : req'[x] = req[x]
  BY DEF ReqTyped
<1>2. InBcrypt(n)' = InBcrypt(n) \cup {r} /\ r \notin InBcrypt(n)
  BY <1>1 DEF InBcrypt
<1>3. \A m : m # n => InBcrypt(m)' = InBcrypt(m)
  BY <1>1 DEF InBcrypt
<1>4. Begun' = Begun \cup {r} /\ r \notin Begun
  BY <1>1 DEF Begun
<1>5. Cardinality(InBcrypt(n))' = Cardinality(InBcrypt(n)) + 1
  BY <1>2, BcryptFinite, FS_AddElement
<1>6. Cardinality(Begun)' = Cardinality(Begun) + 1
  BY <1>4, BcryptFinite, FS_AddElement
<1>7. \A m : m # n => Cardinality(InBcrypt(m))' = Cardinality(InBcrypt(m)) + 0
  BY <1>3, BcryptFinite
<1> QED
  BY <1>5, <1>6, <1>7

LEMMA LeavesBcrypt ==
    ASSUME ReqTyped, NEW r \in Logins, req[r].pc \in {"basic", "login"}, NEW then \in {"passed", "refused"},
           req' = [req EXCEPT ![r].pc = then]
    PROVE  /\ \A m : Cardinality(InBcrypt(m))' = Cardinality(InBcrypt(m)) - (IF m = req[r].slot THEN 1 ELSE 0)
           /\ Cardinality(InBcrypt(req[r].slot)) # 0
           /\ Cardinality(Begun)' = Cardinality(Begun) /\ ReqTyped'
           /\ \A x \in Logins : /\ req'[x].slot = req[x].slot /\ req'[x].source = req[x].source
                                /\ req'[x].pc \in {"basic", "login"} => req[x].pc \in {"basic", "login"}
<1>1. /\ req'[r].pc = then /\ req'[r].source = req[r].source /\ req'[r].slot = req[r].slot
      /\ \A x \in Logins \ {r} : req'[x] = req[x]
  BY DEF ReqTyped
<1>2. InBcrypt(req[r].slot)' = InBcrypt(req[r].slot) \ {r} /\ r \in InBcrypt(req[r].slot)
  BY <1>1 DEF InBcrypt
<1>3. \A m : m # req[r].slot => InBcrypt(m)' = InBcrypt(m)
  BY <1>1 DEF InBcrypt
<1>4. Begun' = Begun
  BY <1>1 DEF Begun
<1>5. /\ Cardinality(InBcrypt(req[r].slot))' = Cardinality(InBcrypt(req[r].slot)) - 1
      /\ Cardinality(InBcrypt(req[r].slot)) # 0
  <2>1. Cardinality(InBcrypt(req[r].slot) \ {r}) = Cardinality(InBcrypt(req[r].slot)) - 1
    BY <1>2, BcryptFinite, FS_RemoveElement
  <2>2. InBcrypt(req[r].slot) # {}
    BY <1>2
  <2> QED
    BY <1>2, <2>1, <2>2, BcryptFinite, FS_EmptySet
<1>6. \A m : m # req[r].slot => Cardinality(InBcrypt(m))' = Cardinality(InBcrypt(m)) - 0
  BY <1>3, BcryptFinite
<1>7. ReqTyped'
  BY DEF ReqTyped
<1>8. \A x \in Logins : /\ req'[x].slot = req[x].slot /\ req'[x].source = req[x].source
                        /\ req'[x].pc \in {"basic", "login"} => req[x].pc \in {"basic", "login"}
  BY <1>1
<1> QED
  BY <1>4, <1>5, <1>6, <1>7, <1>8

LEMMA PassesBcryptBy ==
    ASSUME ReqTyped, NEW r \in Logins, req[r].pc = "new", NEW then \in {"passed", "refused", "limited"},
           req' = [req EXCEPT ![r].pc = then]
    PROVE  /\ \A m : Cardinality(InBcrypt(m))' = Cardinality(InBcrypt(m))
           /\ Cardinality(Begun)' = Cardinality(Begun) + 1 /\ ReqTyped'
           /\ \A x \in Logins : /\ req'[x].slot = req[x].slot /\ req'[x].source = req[x].source
                                /\ req'[x].pc \in {"basic", "login"} => req[x].pc \in {"basic", "login"}
<1>1. /\ req'[r].pc = then /\ req'[r].source = req[r].source /\ req'[r].slot = req[r].slot
      /\ \A x \in Logins \ {r} : req'[x] = req[x]
  BY DEF ReqTyped
<1>2. \A m : InBcrypt(m)' = InBcrypt(m)
  BY <1>1 DEF InBcrypt
<1>3. Begun' = Begun \cup {r} /\ r \notin Begun
  BY <1>1 DEF Begun
<1>4. Cardinality(Begun)' = Cardinality(Begun) + 1
  BY <1>3, BcryptFinite, FS_AddElement
<1>5. ReqTyped'
  BY DEF ReqTyped
<1>6. \A x \in Logins : /\ req'[x].slot = req[x].slot /\ req'[x].source = req[x].source
                        /\ req'[x].pc \in {"basic", "login"} => req[x].pc \in {"basic", "login"}
  BY <1>1
<1> QED
  BY <1>2, <1>4, <1>5, <1>6

AdmCore == ReqTyped /\ BudgetsTyped /\ HistoryTyped /\ WindowsNamed /\ Charged /\ Affordable
           /\ TableBounded /\ ReportedOnce

LEMMA EntryFields ==
    ASSUME BudgetsTyped, NEW s \in DOMAIN budgets
    PROVE  /\ budgets[s].start \in Admin!Names /\ budgets[s].start \in Nat /\ budgets[s].start # 0
           /\ budgets[s].failures \in Nat /\ budgets[s].age \in 0..AuthWindow
  BY AdmConstants DEF BudgetsTyped, Admin!Entry

LEMMA SweptEffect ==
    ASSUME BudgetsTyped, TableBounded, NEW s \in LoginSources, ~Admin!Open(budgets, s)
    PROVE  /\ DOMAIN Admin!Swept(s) \subseteq DOMAIN budgets /\ s \notin DOMAIN Admin!Swept(s)
           /\ \A x \in DOMAIN Admin!Swept(s) : Admin!Swept(s)[x] = budgets[x]
           /\ IsFiniteSet(DOMAIN Admin!Swept(s)) /\ Cardinality(DOMAIN Admin!Swept(s)) + 1 <= MaxIPs
           /\ Cardinality(DOMAIN Admin!Swept(s)) \in Nat
           /\ \A x \in DOMAIN budgets \ DOMAIN Admin!Swept(s) : Admin!Over(budgets, x) =>
                 \A y \in DOMAIN budgets : Admin!Open(budgets, y) => Admin!Over(budgets, y)
<1> DEFINE O == {x \in LoginSources : Admin!Open(budgets, x)}
           alive == Admin!Only(budgets, O)
           T == Admin!Swept(s)
<1>1. /\ DOMAIN alive = O /\ O \subseteq DOMAIN budgets /\ s \notin O
      /\ \A x \in O : alive[x] = budgets[x]
  BY DEF Admin!Only, Admin!Open
<1>2. IsFiniteSet(O) /\ Cardinality(O) \in Nat /\ Cardinality(O) <= MaxIPs
  <2>1. IsFiniteSet(DOMAIN budgets) /\ Cardinality(DOMAIN budgets) <= MaxIPs
    BY DEF TableBounded
  <2>2. IsFiniteSet(O) /\ Cardinality(O) <= Cardinality(DOMAIN budgets)
    BY <1>1, <2>1, FS_Subset
  <2>3. Cardinality(O) \in Nat /\ Cardinality(DOMAIN budgets) \in Nat /\ MaxIPs \in Nat
    BY <2>1, <2>2, FS_CardinalityType, AdmConstants
  <2> QED
    BY <2>1, <2>2, <2>3
<1>3. CASE Cardinality(O) >= MaxIPs
  <2>1. T = Admin!Only(alive, LoginSources \ {Admin!Victim(alive)})
    BY <1>1, <1>3, SameAdminCard DEF Admin!Swept
  <2> DEFINE v == Admin!Victim(alive)
  <2>2. O # {} /\ Cardinality(O) = MaxIPs /\ MaxIPs \in Nat
    BY <1>2, <1>3, FS_EmptySet, AdmConstants
  <2>3. \A x \in DOMAIN alive : alive[x].failures \in Nat /\ alive[x].start \in Nat
    BY <1>1, EntryFields
  <2>4. v \in O /\ \A x \in O : alive[v].failures <= alive[x].failures
    BY <1>1, <2>2, <2>3, VictimFound
  <2> HIDE DEF v, alive, O
  <2>5. DOMAIN T = O \ {v} /\ \A x \in DOMAIN T : T[x] = alive[x]
    BY <1>1, <2>1 DEF Admin!Only, BudgetsTyped, v, O
  <2>6. IsFiniteSet(DOMAIN T) /\ Cardinality(DOMAIN T) = MaxIPs - 1
    BY <1>2, <2>2, <2>4, <2>5, FS_RemoveElement
  <2>7. ASSUME NEW x \in DOMAIN budgets \ DOMAIN T, Admin!Over(budgets, x),
               NEW y \in DOMAIN budgets, Admin!Open(budgets, y)
        PROVE  Admin!Over(budgets, y)
    <3>1. x \in O /\ y \in O
      BY <2>7 DEF Admin!Over, BudgetsTyped, O
    <3>2. x = v
      BY <2>5, <2>7, <3>1
    <3>3. budgets[x].failures <= budgets[y].failures
      BY <1>1, <2>4, <3>1, <3>2
    <3>4. budgets[x].failures >= AuthLimit /\ budgets[x].failures \in Nat /\ budgets[y].failures \in Nat
          /\ AuthLimit \in Nat
      BY <2>7, EntryFields, AdmConstants DEF Admin!Over
    <3> QED
      BY <2>7, <3>3, <3>4 DEF Admin!Over
  <2>8. Cardinality(DOMAIN T) + 1 <= MaxIPs /\ Cardinality(DOMAIN T) \in Nat
    BY <2>2, <2>6, AdmConstants
  <2>9. DOMAIN T \subseteq DOMAIN budgets /\ s \notin DOMAIN T /\ \A x \in DOMAIN T : T[x] = budgets[x]
    BY <1>1, <2>5
  <2> QED
    BY <2>6, <2>7, <2>8, <2>9, Zenon
<1>4. CASE ~(Cardinality(O) >= MaxIPs)
  <2>1. T = alive
    BY <1>1, <1>4, SameAdminCard DEF Admin!Swept
  <2>2. \A x \in DOMAIN budgets \ O : ~Admin!Over(budgets, x)
    BY DEF Admin!Over, BudgetsTyped
  <2>3. Cardinality(O) + 1 <= MaxIPs
    BY <1>2, <1>4, AdmConstants
  <2> QED
    BY <1>1, <1>2, <2>1, <2>2, <2>3
<1> QED
  BY <1>3, <1>4

\* reserve when the budget is spent.
LEMMA ReserveDenied ==
    ASSUME AdmCore, NEW r \in Logins, req[r].pc = "new", NEW s \in LoginSources, Admin!Over(budgets, s),
           NEW then, Admin!Reserve(r, s, then), guesses' = guesses
    PROVE  AdmCore'
<1> USE DEF AdmCore
<1>1. /\ req' = [req EXCEPT ![r].pc = "limited"]
      /\ budgets' = [budgets EXCEPT ![s].denied = TRUE] /\ windows' = windows
      /\ reports' = [reports EXCEPT ![budgets[s].start] = IF budgets[s].denied THEN @ ELSE @ + 1]
  BY DEF Admin!Reserve
<1>2. /\ \A m : Cardinality(InBcrypt(m))' = Cardinality(InBcrypt(m))
      /\ Cardinality(Begun)' = Cardinality(Begun) + 1 /\ ReqTyped'
      /\ \A x \in Logins : /\ req'[x].slot = req[x].slot /\ req'[x].source = req[x].source
                           /\ req'[x].pc \in {"basic", "login"} => req[x].pc \in {"basic", "login"}
  BY <1>1, PassesBcryptBy
<1>3. s \in DOMAIN budgets
  BY DEF Admin!Over, Admin!Open
<1>4. /\ DOMAIN budgets' = DOMAIN budgets /\ budgets'[s] = [budgets[s] EXCEPT !.denied = TRUE]
      /\ \A x \in DOMAIN budgets : x # s => budgets'[x] = budgets[x]
  BY <1>1, <1>3
<1>5. BudgetsTyped'
  <2>1. budgets[s] \in Admin!Entry /\ [budgets[s] EXCEPT !.denied = TRUE] \in Admin!Entry
    BY <1>3 DEF BudgetsTyped, Admin!Entry
  <2>2. \A x \in DOMAIN budgets' : budgets'[x] \in Admin!Entry
    BY <1>4, <2>1 DEF BudgetsTyped
  <2> QED
    BY <1>4, <2>2 DEF BudgetsTyped
<1>6. /\ budgets'[s].start = budgets[s].start /\ budgets'[s].failures = budgets[s].failures
      /\ budgets'[s].denied
  BY <1>3, <1>4 DEF BudgetsTyped, Admin!Entry
<1>7. \A x \in DOMAIN budgets : budgets'[x].start = budgets[x].start /\ budgets'[x].failures = budgets[x].failures
  BY <1>4, <1>6
<1>8. WindowsNamed'
  BY <1>1, <1>2, <1>4, <1>7 DEF WindowsNamed
<1>9. TableBounded' /\ Charged' /\ Affordable'
  BY <1>1, <1>2, <1>4, <1>7 DEF TableBounded, Charged, Affordable
<1>10. HistoryTyped' /\ ReportedOnce'
  <2>1. budgets[s].start \in Admin!Names /\ budgets[s].start <= windows
    BY <1>3, EntryFields DEF WindowsNamed
  <2>2. CASE budgets[s].denied
    <3>1. reports' = reports
      BY <1>1, <2>2, <2>1 DEF HistoryTyped
    <3>2. \A x \in DOMAIN budgets : budgets'[x].denied \/ reports[budgets'[x].start] = 0
      BY <1>4, <1>6, <1>7 DEF ReportedOnce
    <3>3. HistoryTyped'
      <4>1. windows' = windows /\ Cardinality(Begun)' = Cardinality(Begun) + 1
        BY <1>1, <1>2
      <4> QED
        BY <3>1, <4>1, BcryptFinite DEF HistoryTyped
    <3> QED
      BY <1>1, <1>4, <3>1, <3>2, <3>3 DEF ReportedOnce
  <2>3. CASE ~budgets[s].denied
    <3>1. /\ reports' = [reports EXCEPT ![budgets[s].start] = reports[budgets[s].start] + 1]
          /\ reports[budgets[s].start] = 0
      BY <1>1, <1>3, <2>3 DEF ReportedOnce
    <3>2. /\ reports' \in [Admin!Names -> Nat] /\ reports'[budgets[s].start] = 1
          /\ \A n \in Admin!Names : n # budgets[s].start => reports'[n] = reports[n]
      BY <2>1, <3>1 DEF HistoryTyped
    <3>3. HistoryTyped'
      BY <1>1, <1>2, <3>2, BcryptFinite DEF HistoryTyped
    <3>4. \A n \in Admin!Names : reports'[n] <= 1 /\ (n > windows => reports'[n] = 0)
      BY <2>1, <3>2, AdmConstants DEF ReportedOnce, HistoryTyped
    <3>5. ASSUME NEW x \in DOMAIN budgets PROVE budgets'[x].denied \/ reports'[budgets'[x].start] = 0
      <4>1. CASE x = s
        BY <1>6, <4>1
      <4>2. CASE x # s
        <5>1. budgets[x].start # budgets[s].start /\ budgets[x].start \in Admin!Names
          BY <1>3, <4>2, EntryFields DEF WindowsNamed
        <5> QED
          BY <1>4, <1>7, <3>2, <4>2, <5>1 DEF ReportedOnce
      <4> QED
        BY <4>1, <4>2
    <3> QED
      BY <1>1, <1>4, <3>3, <3>4, <3>5 DEF ReportedOnce
  <2> QED
    BY <2>2, <2>3
<1> QED
  BY <1>2, <1>5, <1>8, <1>9, <1>10

\* reserve within an open window.
LEMMA ReserveOpen ==
    ASSUME AdmCore, NEW r \in Logins, req[r].pc = "new", NEW s \in LoginSources, ~Admin!Over(budgets, s),
           Admin!Open(budgets, s), NEW then \in {"basic", "login"}, Admin!Reserve(r, s, then), guesses' = guesses
    PROVE  AdmCore'
<1> USE DEF AdmCore
<1>1. /\ budgets' = [budgets EXCEPT ![s].failures = @ + 1] /\ windows' = windows
      /\ req' = [req EXCEPT ![r] = [pc |-> then, source |-> s, slot |-> budgets'[s].start]]
      /\ reports' = reports
  BY DEF Admin!Reserve, Admin!Count
<1>2. PICK n \in Admin!Names :
        /\ s \in DOMAIN budgets /\ budgets[s].failures \in Nat /\ AuthLimit \in Nat
        /\ ~(budgets[s].failures >= AuthLimit) /\ n = budgets[s].start /\ n <= windows /\ n # 0
  <2>1. s \in DOMAIN budgets /\ ~(budgets[s].failures >= AuthLimit)
    BY DEF Admin!Over, Admin!Open
  <2>2. PICK n \in Admin!Names : n = budgets[s].start
    BY <2>1, EntryFields
  <2>3. n <= windows /\ n # 0 /\ budgets[s].failures \in Nat
    BY <2>1, <2>2, EntryFields DEF WindowsNamed
  <2> QED
    BY <2>1, <2>2, <2>3, AdmConstants
<1>3. /\ DOMAIN budgets' = DOMAIN budgets
      /\ budgets'[s] = [budgets[s] EXCEPT !.failures = budgets[s].failures + 1]
      /\ \A x \in DOMAIN budgets : x # s => budgets'[x] = budgets[x]
  BY <1>1, <1>2
<1>4. budgets[s] \in Admin!Entry
  BY <1>2 DEF BudgetsTyped
<1>5. /\ budgets'[s] \in Admin!Entry /\ budgets'[s].start = n /\ budgets'[s].failures = budgets[s].failures + 1
      /\ budgets'[s].denied = budgets[s].denied
  BY <1>2, <1>3, <1>4 DEF Admin!Entry
<1>6. BudgetsTyped'
  BY <1>3, <1>5 DEF BudgetsTyped
<1>7. req' = [req EXCEPT ![r] = [pc |-> then, source |-> s, slot |-> n]]
  BY <1>1, <1>5
<1>8. /\ \A m : Cardinality(InBcrypt(m))' = Cardinality(InBcrypt(m)) + (IF m = n THEN 1 ELSE 0)
      /\ Cardinality(Begun)' = Cardinality(Begun) + 1
  BY <1>7, EntersBcrypt
<1>9. ReqTyped'
  BY <1>2, <1>7 DEF ReqTyped
<1>10. /\ req'[r] = [pc |-> then, source |-> s, slot |-> n]
       /\ \A x \in Logins : x # r => req'[x] = req[x]
  BY <1>7 DEF ReqTyped
<1>11. \A x \in DOMAIN budgets : budgets'[x].start = budgets[x].start /\ budgets'[x].denied = budgets[x].denied
  <2>1. ASSUME NEW x \in DOMAIN budgets PROVE budgets'[x].start = budgets[x].start
    BY <1>2, <1>3, <1>5
  <2>2. ASSUME NEW x \in DOMAIN budgets PROVE budgets'[x].denied = budgets[x].denied
    BY <1>3, <1>5, Zenon
  <2> QED
    BY <2>1, <2>2
<1>12. WindowsNamed'
  <2>1. \A x \in DOMAIN budgets' : budgets'[x].start = budgets[x].start /\ x \in DOMAIN budgets
    BY <1>3, <1>11
  <2>2. /\ \A x \in DOMAIN budgets' : budgets'[x].start <= windows'
        /\ \A x, y \in DOMAIN budgets' : budgets'[x].start = budgets'[y].start => x = y
    BY <1>1, <2>1 DEF WindowsNamed
  <2>3. ASSUME NEW x \in Logins
        PROVE  /\ req'[x].slot <= windows'
               /\ req'[x].pc \in {"basic", "login"} =>
                     /\ req'[x].slot # Admin!NoSlot /\ req'[x].source \in LoginSources
                     /\ \A y \in DOMAIN budgets' : budgets'[y].start = req'[x].slot => y = req'[x].source
    <3>1. CASE x = r
      BY <1>1, <1>2, <1>10, <2>1, <3>1, AdmConstants DEF WindowsNamed
    <3>2. CASE x # r
      BY <1>1, <1>10, <2>1, <3>2 DEF WindowsNamed
    <3> QED
      BY <3>1, <3>2
  <2> QED
    BY <2>2, <2>3 DEF WindowsNamed
<1>13. HistoryTyped' /\ ReportedOnce'
  <2>1. HistoryTyped'
    BY <1>1, <1>8, BcryptFinite DEF HistoryTyped
  <2>2. ReportedOnce'
    BY <1>1, <1>3, <1>11 DEF ReportedOnce
  <2> QED
    BY <2>1, <2>2
<1>14. TableBounded'
  BY <1>3 DEF TableBounded
<1>15. Charged' /\ Affordable'
  <2>1. guesses[n] + Cardinality(InBcrypt(n)) = budgets[s].failures
    BY <1>2 DEF Charged
  <2>2. guesses \in [Admin!Names -> Nat] /\ \A m : Cardinality(InBcrypt(m)) \in Nat
    BY BcryptFinite DEF HistoryTyped
  <2>3. Affordable'
    BY <1>1, <1>2, <1>8, <2>1, <2>2 DEF Affordable
  <2>4. ASSUME NEW x \in DOMAIN budgets
        PROVE budgets'[x].failures = (guesses[budgets[x].start] + Cardinality(InBcrypt(budgets[x].start)))'
    <3>1. PICK k : k = budgets[x].start
      OBVIOUS
    <3>2. k \in Admin!Names /\ budgets'[x].start = k /\ guesses[k] \in Nat /\ Cardinality(InBcrypt(k)) \in Nat
      BY <1>11, <2>2, <3>1, EntryFields
    <3>3. Cardinality(InBcrypt(k))' = Cardinality(InBcrypt(k)) + (IF k = n THEN 1 ELSE 0)
      BY <1>8
    <3>4. budgets[x].failures = guesses[k] + Cardinality(InBcrypt(k))
      BY <3>1 DEF Charged
    <3>5. budgets'[x].failures = guesses[k] + Cardinality(InBcrypt(k))'
      <4>1. CASE x = s
        BY <1>2, <1>5, <3>1, <3>2, <3>3, <3>4, <4>1
      <4>2. CASE x # s
        <5>1. k # n
          BY <1>2, <3>1, <4>2 DEF WindowsNamed
        <5> QED
          BY <1>3, <3>2, <3>3, <3>4, <4>2, <5>1
      <4> QED
        BY <4>1, <4>2
    <3> QED
      BY <1>1, <3>2, <3>5
  <2>5. Charged'
    BY <1>3, <2>4 DEF Charged
  <2> QED
    BY <2>3, <2>5
<1> QED
  BY <1>6, <1>9, <1>12, <1>13, <1>14, <1>15

\* reserve that starts a window.
LEMMA ReserveNew ==
    ASSUME AdmCore, NEW r \in Logins, req[r].pc = "new", NEW s \in LoginSources,
           ~Admin!Open(budgets, s), NEW then \in {"basic", "login"}, Admin!Reserve(r, s, then), guesses' = guesses
    PROVE  AdmCore'
<1> USE DEF AdmCore
<1> DEFINE T == Admin!Swept(s)
<1>1. /\ DOMAIN T \subseteq DOMAIN budgets /\ s \notin DOMAIN T
      /\ \A x \in DOMAIN T : T[x] = budgets[x]
      /\ IsFiniteSet(DOMAIN T) /\ Cardinality(DOMAIN T) + 1 <= MaxIPs /\ Cardinality(DOMAIN T) \in Nat
  BY SweptEffect
<1>2. /\ budgets' = Admin!With(T, s, [start |-> windows + 1, failures |-> 1, denied |-> FALSE, age |-> 0])
      /\ windows' = windows + 1 /\ reports' = reports
      /\ req' = [req EXCEPT ![r] = [pc |-> then, source |-> s, slot |-> budgets'[s].start]]
  BY DEF Admin!Reserve, Admin!Count, Admin!Over
<1> HIDE DEF T
<1>3. PICK k : k = windows + 1
  OBVIOUS
<1>4. windows \in Nat /\ k \in Nat /\ k # 0
  BY <1>3 DEF HistoryTyped
<1>5. /\ DOMAIN budgets' = DOMAIN T \cup {s}
      /\ budgets'[s] = [start |-> k, failures |-> 1, denied |-> FALSE, age |-> 0]
      /\ \A x \in DOMAIN T : budgets'[x] = budgets[x]
  BY <1>1, <1>2, <1>3 DEF Admin!With
<1>6. req' = [req EXCEPT ![r] = [pc |-> then, source |-> s, slot |-> k]]
  <2>1. budgets'[s].start = k
    BY <1>5
  <2> QED
    BY <1>2, <2>1
<1>7. /\ \A m : Cardinality(InBcrypt(m))' = Cardinality(InBcrypt(m)) + (IF m = k THEN 1 ELSE 0)
      /\ Cardinality(Begun)' = Cardinality(Begun) + 1
  BY <1>6, EntersBcrypt
<1>8. k \in Admin!Names
  <2>1. Begun \cup {r} \subseteq Logins /\ r \notin Begun
    BY DEF Begun
  <2>2. Cardinality(Begun \cup {r}) = Cardinality(Begun) + 1
    BY <2>1, BcryptFinite, FS_AddElement
  <2>3. Cardinality(Begun \cup {r}) <= Cardinality(Logins)
    BY <2>1, AdmConstants, FS_Subset
  <2>4. windows <= Cardinality(Begun)
    BY DEF HistoryTyped
  <2> QED
    BY <1>3, <1>4, <2>2, <2>3, <2>4, AdmConstants, BcryptFinite
<1>9. /\ req'[r] = [pc |-> then, source |-> s, slot |-> k]
      /\ \A x \in Logins : x # r => req'[x] = req[x]
  BY <1>6 DEF ReqTyped
<1>10. ReqTyped'
  BY <1>6, <1>8 DEF ReqTyped
<1>11. BudgetsTyped'
  <2>1. budgets'[s] \in Admin!Entry
    BY <1>5, <1>8, AdmConstants DEF Admin!Entry
  <2> QED
    BY <1>1, <1>5, <2>1 DEF BudgetsTyped
<1>12. HistoryTyped'
  BY <1>2, <1>7, BcryptFinite DEF HistoryTyped
<1>13. \A x \in DOMAIN T : /\ x \in DOMAIN budgets /\ budgets'[x] = budgets[x] /\ budgets[x].start \in Admin!Names
                           /\ budgets[x].start <= windows /\ budgets[x].start # k /\ x # s
  <2>1. ASSUME NEW x \in DOMAIN T PROVE x \in DOMAIN budgets /\ budgets[x].start <= windows /\ budgets[x].start \in Nat
    BY <1>1, EntryFields DEF WindowsNamed
  <2>2. \A n \in Nat : n <= windows => n # k
    BY <1>3, <1>4
  <2> QED
    BY <1>1, <1>5, <2>1, <2>2, EntryFields
<1>14. WindowsNamed'
  <2>1. \A x \in DOMAIN budgets' : budgets'[x].start <= windows'
    <3>1. budgets'[s].start <= windows'
      BY <1>2, <1>3, <1>4, <1>5
    <3>2. ASSUME NEW x \in DOMAIN T PROVE budgets'[x].start <= windows'
      <4>1. budgets'[x].start = budgets[x].start /\ budgets[x].start <= windows /\ budgets[x].start \in Nat
        BY <1>13, EntryFields
      <4> QED
        BY <1>2, <1>4, <4>1
    <3> QED
      BY <1>5, <3>1, <3>2
  <2>2. \A x, y \in DOMAIN budgets' : budgets'[x].start = budgets'[y].start => x = y
    BY <1>5, <1>13 DEF WindowsNamed
  <2>3. ASSUME NEW x \in Logins
        PROVE  /\ req'[x].slot <= windows'
               /\ req'[x].pc \in {"basic", "login"} =>
                     /\ req'[x].slot # Admin!NoSlot /\ req'[x].source \in LoginSources
                     /\ \A y \in DOMAIN budgets' : budgets'[y].start = req'[x].slot => y = req'[x].source
    <3>1. CASE x = r
      <4>1. req'[x].slot = k /\ req'[x].source = s /\ k <= windows' /\ k # Admin!NoSlot
        BY <1>2, <1>3, <1>4, <1>9, <3>1, AdmConstants
      <4> QED
        BY <1>5, <1>13, <4>1
    <3>2. CASE x # r
      <4>1. req'[x] = req[x] /\ req[x].slot <= windows /\ req[x].slot \in Nat
        BY <1>9, <3>2, AdmConstants DEF ReqTyped, WindowsNamed
      <4>2. req[x].slot # k /\ req[x].slot <= windows'
        BY <1>2, <1>3, <1>4, <4>1
      <4> QED
        BY <1>5, <1>13, <4>1, <4>2 DEF WindowsNamed
    <3> QED
      BY <3>1, <3>2
  <2> QED
    BY <2>1, <2>2, <2>3 DEF WindowsNamed
<1>15. TableBounded'
  <2>1. Cardinality(DOMAIN T \cup {s}) = Cardinality(DOMAIN T) + 1 /\ IsFiniteSet(DOMAIN T \cup {s})
    BY <1>1, FS_AddElement
  <2> QED
    BY <1>1, <1>5, <2>1 DEF TableBounded
<1>16. guesses[k] = 0 /\ reports[k] = 0
  BY <1>3, <1>4, <1>8 DEF Affordable, ReportedOnce
<1>17. Cardinality(InBcrypt(k)) = 0
  <2>1. InBcrypt(k) = {}
    <3>1. ASSUME NEW x \in Logins, req[x].slot = k PROVE FALSE
      BY <1>3, <1>4, <3>1 DEF WindowsNamed
    <3> QED
      BY <3>1 DEF InBcrypt
  <2> QED
    BY <2>1, FS_EmptySet
<1>18. guesses \in [Admin!Names -> Nat] /\ (\A m : Cardinality(InBcrypt(m)) \in Nat) /\ AuthLimit \in Nat \ {0}
       /\ Admin!Names \subseteq Nat
  BY BcryptFinite, AdmConstants DEF HistoryTyped
<1>19. Affordable'
  <2>1. ASSUME NEW n \in Admin!Names PROVE guesses[n] + Cardinality(InBcrypt(n))' <= AuthLimit
    <3>1. CASE n = k
      BY <1>7, <1>16, <1>17, <1>18, <3>1
    <3>2. CASE n # k
      BY <1>7, <1>18, <3>2 DEF Affordable
    <3> QED
      BY <3>1, <3>2
  <2>2. \A n \in Admin!Names : n > windows' => guesses[n] = 0
    BY <1>2, <1>4, <1>18 DEF Affordable
  <2> QED
    BY <2>1, <2>2 DEF Affordable
<1>20. Charged'
  <2>1. ASSUME NEW x \in DOMAIN budgets'
        PROVE  budgets'[x].failures = (guesses[budgets[x].start] + Cardinality(InBcrypt(budgets[x].start)))'
    <3>1. PICK m : m = budgets'[x].start
      OBVIOUS
    <3>2. CASE x = s
      <4>1. m = k /\ budgets'[x].failures = 1
        BY <1>5, <3>1, <3>2
      <4>2. guesses[m] + Cardinality(InBcrypt(m))' = 1
        BY <1>7, <1>16, <1>17, <4>1
      <4> QED
        BY <3>1, <4>1, <4>2
    <3>3. CASE x # s
      <4>1. x \in DOMAIN T /\ m = budgets[x].start /\ m # k /\ m \in Admin!Names
        BY <1>5, <1>13, <3>1, <3>3
      <4>2. Cardinality(InBcrypt(m))' = Cardinality(InBcrypt(m))
        BY <1>7, <1>18, <4>1
      <4>3. budgets'[x].failures = guesses[m] + Cardinality(InBcrypt(m))
        BY <1>13, <4>1 DEF Charged
      <4> QED
        BY <3>1, <4>2, <4>3
    <3> QED
      BY <3>2, <3>3
  <2> QED
    BY <2>1 DEF Charged
<1>21. ReportedOnce'
  <2>1. \A n \in Admin!Names : n > windows' => reports[n] = 0
    BY <1>2, <1>4, <1>18 DEF ReportedOnce
  <2>2. \A x \in DOMAIN budgets' : budgets'[x].denied \/ reports[budgets'[x].start] = 0
    BY <1>5, <1>13, <1>16 DEF ReportedOnce
  <2> QED
    BY <1>2, <2>1, <2>2 DEF ReportedOnce
<1> QED
  BY <1>10, <1>11, <1>12, <1>14, <1>15, <1>19, <1>20, <1>21

\* bcrypt says no.
LEMMA WrongCore == ASSUME AdmCore, NEW r \in Logins, Admin!Wrong(r) PROVE AdmCore'
<1> USE DEF AdmCore
<1>1. /\ req[r].pc \in {"basic", "login"} /\ req' = [req EXCEPT ![r].pc = "refused"]
      /\ guesses' = [guesses EXCEPT ![req[r].slot] = @ + 1] /\ UNCHANGED <<budgets, windows, reports>>
  BY DEF Admin!Wrong
<1>2. PICK k : k = req[r].slot
  OBVIOUS
<1>3. k \in Admin!Names /\ k <= windows
  BY <1>1, <1>2 DEF ReqTyped, WindowsNamed
<1>4. /\ \A m : Cardinality(InBcrypt(m))' = Cardinality(InBcrypt(m)) - (IF m = k THEN 1 ELSE 0)
      /\ Cardinality(Begun)' = Cardinality(Begun) /\ ReqTyped'
      /\ \A x \in Logins : /\ req'[x].slot = req[x].slot /\ req'[x].source = req[x].source
                           /\ req'[x].pc \in {"basic", "login"} => req[x].pc \in {"basic", "login"}
  BY <1>1, <1>2, LeavesBcrypt
<1>5. guesses \in [Admin!Names -> Nat] /\ guesses' \in [Admin!Names -> Nat]
      /\ (\A m : Cardinality(InBcrypt(m)) \in Nat) /\ Admin!Names \subseteq Nat
  <2>1. guesses \in [Admin!Names -> Nat] /\ guesses' = [guesses EXCEPT ![k] = guesses[k] + 1]
    BY <1>1, <1>2 DEF HistoryTyped
  <2> QED
    BY <1>3, <2>1, BcryptFinite, AdmConstants
<1>6. guesses'[k] = guesses[k] + 1 /\ \A m \in Admin!Names : m # k => guesses'[m] = guesses[m]
  BY <1>1, <1>2, <1>3, <1>5
<1>7. \A m \in Admin!Names :
        guesses'[m] + Cardinality(InBcrypt(m))' = guesses[m] + Cardinality(InBcrypt(m))
  BY <1>4, <1>5, <1>6
<1>8. HistoryTyped' /\ BudgetsTyped' /\ TableBounded' /\ ReportedOnce' /\ WindowsNamed'
  <2>1. HistoryTyped' /\ TableBounded' /\ ReportedOnce'
    BY <1>1, <1>4, <1>5 DEF HistoryTyped, TableBounded, ReportedOnce
  <2>2. BudgetsTyped'
    BY <1>1, Zenon DEF BudgetsTyped
  <2>3. WindowsNamed'
    BY <1>1, <1>4 DEF WindowsNamed
  <2> QED
    BY <2>1, <2>2, <2>3
<1>9. Affordable'
  <2>1. ASSUME NEW m \in Admin!Names PROVE guesses'[m] + Cardinality(InBcrypt(m))' <= AuthLimit
    BY <1>7, Zenon DEF Affordable
  <2>2. ASSUME NEW m \in Admin!Names, m > windows' PROVE guesses'[m] = 0
    <3>1. m # k /\ m > windows
      <4>1. windows \in Nat /\ m \in Nat /\ k \in Nat /\ windows' = windows
        BY <1>1, <1>3, <1>5 DEF HistoryTyped
      <4> QED
        BY <1>3, <2>2, <4>1
    <3> QED
      BY <1>6, <3>1 DEF Affordable
  <2> QED
    BY <2>1, <2>2 DEF Affordable
<1>10. Charged'
  <2>1. ASSUME NEW x \in DOMAIN budgets
        PROVE  budgets[x].failures = (guesses[budgets[x].start] + Cardinality(InBcrypt(budgets[x].start)))'
    <3>1. PICK m \in Admin!Names : m = budgets[x].start /\ budgets'[x].start = m
      BY <1>1, EntryFields
    <3>2. budgets[x].failures = guesses[m] + Cardinality(InBcrypt(m))
      BY <3>1 DEF Charged
    <3> QED
      BY <1>7, <3>1, <3>2
  <2> QED
    BY <1>1, <2>1 DEF Charged
<1> QED
  BY <1>4, <1>8, <1>9, <1>10

\* A step that moves no window and nothing into or out of bcrypt.
LEMMA CoreKept ==
    ASSUME AdmCore, ReqTyped', BudgetsTyped', DOMAIN budgets' = DOMAIN budgets,
           \A x \in DOMAIN budgets : /\ budgets'[x].start = budgets[x].start
                                     /\ budgets'[x].failures = budgets[x].failures
                                     /\ budgets'[x].denied = budgets[x].denied,
           UNCHANGED <<windows, reports, guesses>>,
           \A m : Cardinality(InBcrypt(m))' = Cardinality(InBcrypt(m)),
           Cardinality(Begun)' \in {Cardinality(Begun), Cardinality(Begun) + 1},
           \A x \in Logins : /\ req'[x].slot = req[x].slot /\ req'[x].source = req[x].source
                             /\ req'[x].pc \in {"basic", "login"} => req[x].pc \in {"basic", "login"}
    PROVE  AdmCore'
<1> USE DEF AdmCore
<1>1. HistoryTyped'
  <2>1. windows' = windows /\ windows \in Nat /\ windows <= Cardinality(Begun) /\ Cardinality(Begun) \in Nat
    BY BcryptFinite DEF HistoryTyped
  <2>2. windows' <= Cardinality(Begun)'
    BY <2>1
  <2> QED
    BY <2>1, <2>2 DEF HistoryTyped
<1>2. TableBounded' /\ WindowsNamed'
  BY DEF TableBounded, WindowsNamed
<1>3. ReportedOnce'
  BY DEF ReportedOnce
<1>4. Affordable'
  BY DEF Affordable
<1>5. Charged'
  <2>1. ASSUME NEW x \in DOMAIN budgets
        PROVE  budgets'[x].failures = (guesses[budgets[x].start] + Cardinality(InBcrypt(budgets[x].start)))'
    <3>1. PICK m : m = budgets[x].start /\ budgets'[x].start = m
      OBVIOUS
    <3> QED
      BY <3>1 DEF Charged
  <2> QED
    BY <2>1 DEF Charged
<1> QED
  BY <1>1, <1>2, <1>3, <1>4, <1>5

\* The password was right: the slot is given back.
LEMMA RightCore == ASSUME AdmCore, NEW r \in Logins, Admin!Right(r) PROVE AdmCore'
<1> USE DEF AdmCore
<1>1. /\ req[r].pc \in {"basic", "login"} /\ req' = [req EXCEPT ![r].pc = "passed"]
      /\ Admin!Refund(r) /\ UNCHANGED <<windows, reports, guesses>>
  BY DEF Admin!Right
<1>2. PICK k, s : k = req[r].slot /\ s = req[r].source
  OBVIOUS
<1>3. k \in Admin!Names /\ \A x \in DOMAIN budgets : budgets[x].start = k => x = s
  BY <1>1, <1>2 DEF ReqTyped, WindowsNamed
<1>4. /\ \A m : Cardinality(InBcrypt(m))' = Cardinality(InBcrypt(m)) - (IF m = k THEN 1 ELSE 0)
      /\ Cardinality(InBcrypt(k)) # 0
      /\ Cardinality(Begun)' = Cardinality(Begun) /\ ReqTyped'
      /\ \A x \in Logins : /\ req'[x].slot = req[x].slot /\ req'[x].source = req[x].source
                           /\ req'[x].pc \in {"basic", "login"} => req[x].pc \in {"basic", "login"}
  BY <1>1, <1>2, LeavesBcrypt
<1>5. guesses \in [Admin!Names -> Nat] /\ \A m : Cardinality(InBcrypt(m)) \in Nat
  BY BcryptFinite DEF HistoryTyped
<1>6. /\ DOMAIN budgets' = DOMAIN budgets
      /\ \A x \in DOMAIN budgets :
            /\ budgets'[x].start = budgets[x].start /\ budgets'[x].denied = budgets[x].denied
            /\ budgets'[x] \in Admin!Entry
            /\ budgets'[x].failures = budgets[x].failures - (IF budgets[x].start = k THEN 1 ELSE 0)
  <2>1. ASSUME NEW x \in DOMAIN budgets, budgets[x].start = k PROVE budgets[x].failures > 0
    <3>1. budgets[x].failures = guesses[k] + Cardinality(InBcrypt(k))
      BY <2>1 DEF Charged
    <3> QED
      BY <1>3, <1>4, <1>5, <3>1
  <2>2. CASE s \in DOMAIN budgets /\ budgets[s].start = k
    <3>1. budgets' = [budgets EXCEPT ![s].failures = @ - 1]
      BY <1>1, <1>2, <2>1, <2>2 DEF Admin!Refund
    <3>2. /\ DOMAIN budgets' = DOMAIN budgets
          /\ budgets'[s] = [budgets[s] EXCEPT !.failures = budgets[s].failures - 1]
          /\ \A x \in DOMAIN budgets : x # s => budgets'[x] = budgets[x]
      BY <2>2, <3>1
    <3>3. budgets[s] \in Admin!Entry /\ budgets[s].failures \in Nat /\ budgets[s].failures > 0
      BY <2>1, <2>2, EntryFields DEF BudgetsTyped
    <3>4. budgets[s].failures - 1 \in Nat
      BY <3>3
    <3>5. /\ budgets'[s] \in Admin!Entry /\ budgets'[s].start = budgets[s].start
          /\ budgets'[s].failures = budgets[s].failures - 1 /\ budgets'[s].denied = budgets[s].denied
      BY <3>2, <3>3, <3>4 DEF Admin!Entry
    <3>6. ASSUME NEW x \in DOMAIN budgets, x # s
          PROVE  /\ budgets'[x] = budgets[x] /\ budgets[x].start # k /\ budgets[x].failures \in Nat
                 /\ budgets[x] \in Admin!Entry
      BY <1>3, <3>2, <3>6, EntryFields DEF BudgetsTyped
    <3>7. ASSUME NEW x \in DOMAIN budgets
          PROVE  /\ budgets'[x].start = budgets[x].start /\ budgets'[x] \in Admin!Entry
                 /\ budgets'[x].failures = budgets[x].failures - (IF budgets[x].start = k THEN 1 ELSE 0)
      BY <2>2, <3>5, <3>6
    <3>8. ASSUME NEW x \in DOMAIN budgets PROVE budgets'[x].denied = budgets[x].denied
      BY <3>5, <3>6, Zenon
    <3> QED
      BY <3>2, <3>7, <3>8, Zenon
  <2>3. CASE ~(s \in DOMAIN budgets /\ budgets[s].start = k)
    <3>1. budgets' = budgets
      BY <1>1, <1>2, <2>3 DEF Admin!Refund
    <3>2. \A x \in DOMAIN budgets : budgets[x].start # k
      BY <1>3, <2>3
    <3> QED
      BY <3>1, <3>2, EntryFields DEF BudgetsTyped
  <2> QED
    BY <2>2, <2>3
<1>7. BudgetsTyped' /\ TableBounded'
  BY <1>6 DEF BudgetsTyped, TableBounded
<1>8. HistoryTyped'
  BY <1>1, <1>4 DEF HistoryTyped
<1>9. WindowsNamed' /\ ReportedOnce'
  <2>1. WindowsNamed'
    BY <1>1, <1>4, <1>6 DEF WindowsNamed
  <2>2. ReportedOnce'
    BY <1>1, <1>6 DEF ReportedOnce
  <2> QED
    BY <2>1, <2>2
<1>10. Affordable'
  <2>1. ASSUME NEW m \in Admin!Names PROVE guesses[m] + Cardinality(InBcrypt(m))' <= AuthLimit
    <3>1. guesses[m] \in Nat /\ Cardinality(InBcrypt(m)) \in Nat /\ AuthLimit \in Nat
          /\ guesses[m] + Cardinality(InBcrypt(m)) <= AuthLimit
      BY <1>5, AdmConstants DEF Affordable
    <3> QED
      BY <1>4, <3>1
  <2> QED
    BY <1>1, <2>1 DEF Affordable
<1>11. Charged'
  <2>1. ASSUME NEW x \in DOMAIN budgets
        PROVE  budgets'[x].failures = (guesses[budgets[x].start] + Cardinality(InBcrypt(budgets[x].start)))'
    <3>1. PICK m \in Admin!Names : m = budgets[x].start /\ budgets'[x].start = m
      BY <1>6, EntryFields
    <3>2. budgets[x].failures = guesses[m] + Cardinality(InBcrypt(m))
      BY <3>1 DEF Charged
    <3>3. guesses[m] \in Nat /\ Cardinality(InBcrypt(m)) \in Nat
      BY <1>5
    <3>4. budgets'[x].failures = guesses[m] + Cardinality(InBcrypt(m))'
      BY <1>4, <1>6, <3>1, <3>2, <3>3
    <3> QED
      BY <1>1, <3>1, <3>4
  <2> QED
    BY <1>6, <2>1 DEF Charged
<1> QED
  BY <1>4, <1>7, <1>8, <1>9, <1>10, <1>11

LEMMA AdmCoreStep == ASSUME AdmCore, [Admin!Next]_(Admin!vars) PROVE AdmCore'
<1>0. ReqTyped /\ BudgetsTyped
  BY DEF AdmCore
<1>1. ASSUME NEW r \in Logins, NEW i \in Logins, Admin!Known(r) \/ Admin!Cookie(r, i) PROVE AdmCore'
  <2>1. PICK then \in {"passed", "refused"} : req' = [req EXCEPT ![r].pc = then]
    BY <1>1 DEF Admin!Known, Admin!Cookie
  <2>2. req[r].pc = "new" /\ UNCHANGED <<budgets, windows, reports, guesses>>
    BY <1>1 DEF Admin!Known, Admin!Cookie, Admin!Arrives
  <2>3. /\ \A m : Cardinality(InBcrypt(m))' = Cardinality(InBcrypt(m))
        /\ Cardinality(Begun)' = Cardinality(Begun) + 1 /\ ReqTyped'
        /\ \A x \in Logins : /\ req'[x].slot = req[x].slot /\ req'[x].source = req[x].source
                             /\ req'[x].pc \in {"basic", "login"} => req[x].pc \in {"basic", "login"}
    BY <1>0, <2>1, <2>2, PassesBcryptBy
  <2>4. BudgetsTyped'
    BY <1>0, <2>2, Zenon DEF BudgetsTyped
  <2> QED
    BY <2>2, <2>3, <2>4, CoreKept
<1>2. ASSUME NEW r \in Logins, Admin!Basic(r) \/ Admin!Login(r) PROVE AdmCore'
  <2>1. PICK s \in LoginSources, then \in {"basic", "login"} : Admin!Reserve(r, s, then)
    BY <1>2 DEF Admin!Basic, Admin!Login
  <2>2. req[r].pc = "new" /\ guesses' = guesses
    BY <1>2 DEF Admin!Basic, Admin!Login, Admin!Arrives
  <2>3. CASE Admin!Over(budgets, s)
    BY <2>1, <2>2, <2>3, ReserveDenied
  <2>4. CASE ~Admin!Over(budgets, s) /\ Admin!Open(budgets, s)
    BY <2>1, <2>2, <2>4, ReserveOpen
  <2>5. CASE ~Admin!Open(budgets, s)
    BY <2>1, <2>2, <2>5, ReserveNew
  <2> QED
    BY <2>3, <2>4, <2>5
<1>3. ASSUME UNCHANGED req, Admin!Tick \/ UNCHANGED <<budgets, windows, reports, guesses>> PROVE AdmCore'
  <2>1. UNCHANGED <<windows, reports, guesses>> /\ ReqTyped'
    BY <1>0, <1>3 DEF Admin!Tick, ReqTyped
  <2>2. (\A m : InBcrypt(m)' = InBcrypt(m)) /\ Begun' = Begun
    BY <1>3 DEF InBcrypt, Begun
  <2>3. \A x \in Logins : req'[x] = req[x]
    BY <1>3
  <2>4. /\ DOMAIN budgets' = DOMAIN budgets /\ BudgetsTyped'
        /\ \A x \in DOMAIN budgets : /\ budgets'[x].start = budgets[x].start
                                     /\ budgets'[x].failures = budgets[x].failures
                                     /\ budgets'[x].denied = budgets[x].denied
    <3>1. CASE Admin!Tick
      <4>1. budgets' = [x \in DOMAIN budgets |->
                          [budgets[x] EXCEPT !.age = Admin!Older(budgets[x].age, AuthWindow)]]
        BY <3>1 DEF Admin!Tick
      <4>2. ASSUME NEW x \in DOMAIN budgets
            PROVE  budgets[x] \in Admin!Entry /\ Admin!Older(budgets[x].age, AuthWindow) \in 0..AuthWindow
        <5>1. budgets[x].age \in 0..AuthWindow /\ AuthWindow \in Nat
          BY EntryFields, AdmConstants, <1>0
        <5> QED
          BY <1>0, <5>1 DEF BudgetsTyped, Admin!Older
      <4>3. ASSUME NEW x \in DOMAIN budgets
            PROVE  /\ budgets'[x].start = budgets[x].start
                   /\ budgets'[x].failures = budgets[x].failures /\ budgets'[x] \in Admin!Entry
        BY <4>1, <4>2 DEF Admin!Entry
      <4>4. ASSUME NEW x \in DOMAIN budgets PROVE budgets'[x].denied = budgets[x].denied
        <5>1. budgets'[x] = [budgets[x] EXCEPT !.age = Admin!Older(budgets[x].age, AuthWindow)]
          BY <4>1
        <5> QED
          BY <4>2, <5>1 DEF Admin!Entry
      <4> QED
        BY <1>0, <4>1, <4>3, <4>4 DEF BudgetsTyped
    <3>2. CASE UNCHANGED budgets
      BY <1>0, <3>2, Zenon DEF BudgetsTyped
    <3> QED
      BY <1>3, <3>1, <3>2
  <2> QED
    BY <2>1, <2>2, <2>3, <2>4, CoreKept
<1>4. ASSUME (\E i \in Logins : Admin!Logout(i)) \/ UNCHANGED Admin!vars PROVE AdmCore'
  BY <1>3, <1>4 DEF Admin!Logout, Admin!vars
<1>5. ASSUME Admin!Tick PROVE AdmCore'
  BY <1>3, <1>5 DEF Admin!Tick
<1> QED
  BY <1>1, <1>2, <1>4, <1>5, WrongCore, RightCore DEF Admin!Next

\* The sessions.
LEMMA SessionsFinite ==
    ASSUME SessionsTyped
    PROVE  /\ IsFiniteSet(DOMAIN sessions) /\ Cardinality(DOMAIN sessions) \in Nat
           /\ \A S : S \subseteq DOMAIN sessions =>
                 IsFiniteSet(S) /\ Cardinality(S) \in Nat /\ Cardinality(S) <= Cardinality(DOMAIN sessions)
<1>1. IsFiniteSet(DOMAIN sessions)
  BY AdmConstants, FS_Subset DEF SessionsTyped
<1> QED
  BY <1>1, FS_Subset, FS_CardinalityType

LEMMA FewerSessions ==
    ASSUME SessionsTyped, NEW S, sessions' = Admin!Only(sessions, S), credsAge' \in 0..CredsTTL
    PROVE  SessionsTyped'
<1>1. /\ DOMAIN sessions' = DOMAIN sessions \cap S
      /\ \A i \in DOMAIN sessions' : sessions'[i] = sessions[i]
  BY DEF Admin!Only
<1>2. Cardinality(DOMAIN sessions') <= MaxSessions
  BY <1>1, SessionsFinite, AdmConstants DEF SessionsTyped
<1> QED
  BY <1>1, <1>2 DEF SessionsTyped

LEMMA OldestFound ==
    ASSUME SessionsTyped, NEW alive, alive \subseteq DOMAIN sessions, alive # {}
    PROVE  Admin!Oldest(alive) \in alive
<1>1. \A i \in alive : sessions[i].age \in Nat /\ sessions[i].age <= MaxAge /\ MaxAge \in Nat
  BY AdmConstants DEF SessionsTyped
<1> DEFINE Left == {MaxAge - sessions[i].age : i \in alive}
<1>2. Left \subseteq Nat /\ Left # {}
  BY <1>1
<1> HIDE DEF Left
<1>3. PICK d \in Left : \A e \in Left : d <= e
  BY <1>2, LeastNat
<1>4. PICK i \in alive : d = MaxAge - sessions[i].age
  BY <1>3 DEF Left
<1>5. ASSUME NEW j \in alive PROVE sessions[i].age >= sessions[j].age
  <2>1. MaxAge - sessions[i].age <= MaxAge - sessions[j].age
    BY <1>3, <1>4 DEF Left
  <2> QED
    BY <1>1, <2>1
<1> QED
  BY <1>4, <1>5, Zenon DEF Admin!Oldest

LEMMA CreateSession ==
    ASSUME SessionsTyped, NEW r \in Logins, Admin!Create(r), credsAge' \in 0..CredsTTL
    PROVE  SessionsTyped'
<1> DEFINE alive == {i \in DOMAIN sessions : Admin!Live(i)}
           stays == IF Cardinality(alive) >= MaxSessions THEN alive \ {Admin!Oldest(alive)} ELSE alive
<1>1. sessions' = Admin!With(Admin!Only(sessions, stays), r, [age |-> 0, idle |-> 0])
  BY SameAdminCard DEF Admin!Create
<1>2. /\ IsFiniteSet(alive) /\ Cardinality(alive) \in Nat /\ Cardinality(alive) <= Cardinality(DOMAIN sessions)
      /\ Cardinality(DOMAIN sessions) \in Nat /\ Cardinality(DOMAIN sessions) <= MaxSessions /\ MaxSessions \in Nat \ {0}
  BY SessionsFinite, AdmConstants DEF SessionsTyped
<1>3. stays \subseteq DOMAIN sessions /\ IsFiniteSet(stays) /\ Cardinality(stays) \in Nat /\ Cardinality(stays) + 1 <= MaxSessions
  <2>1. CASE Cardinality(alive) >= MaxSessions
    <3>1. alive # {} /\ Cardinality(alive) = MaxSessions
      BY <1>2, <2>1, FS_EmptySet
    <3>2. Admin!Oldest(alive) \in alive
      BY <3>1, OldestFound
    <3>3. Cardinality(alive \ {Admin!Oldest(alive)}) = Cardinality(alive) - 1
          /\ IsFiniteSet(alive \ {Admin!Oldest(alive)})
      BY <1>2, <3>2, FS_RemoveElement
    <3> QED
      BY <1>2, <2>1, <3>1, <3>3
  <2>2. CASE ~(Cardinality(alive) >= MaxSessions)
    BY <1>2, <2>2
  <2> QED
    BY <2>1, <2>2
<1> HIDE DEF stays, alive
<1>4. /\ DOMAIN sessions' = stays \cup {r} /\ sessions'[r] = [age |-> 0, idle |-> 0]
      /\ \A i \in stays : i # r => sessions'[i] = sessions[i]
  <2>1. DOMAIN Admin!Only(sessions, stays) = stays /\ \A i \in stays : Admin!Only(sessions, stays)[i] = sessions[i]
    BY <1>3 DEF Admin!Only
  <2> QED
    BY <1>1, <2>1 DEF Admin!With
<1>5. Cardinality(stays \cup {r}) <= MaxSessions
  <2>1. Cardinality(stays \cup {r}) \in {Cardinality(stays), Cardinality(stays) + 1}
    BY <1>3, FS_AddElement
  <2> QED
    BY <1>2, <1>3, <2>1
<1>6. [age |-> 0, idle |-> 0] \in [age : 0..MaxAge, idle : 0..IdleTimeout]
  BY AdmConstants
<1>7. \A i \in DOMAIN sessions' : sessions'[i] \in [age : 0..MaxAge, idle : 0..IdleTimeout]
  BY <1>3, <1>4, <1>6 DEF SessionsTyped
<1>8. DOMAIN sessions' \subseteq Logins
  BY <1>3, <1>4 DEF SessionsTyped
<1> QED
  BY <1>4, <1>5, <1>7, <1>8 DEF SessionsTyped

LEMMA SessionsStep == ASSUME SessionsTyped, [Admin!Next]_(Admin!vars) PROVE SessionsTyped'
<1>0. 0 \in 0..CredsTTL /\ credsAge \in 0..CredsTTL
  BY AdmConstants DEF SessionsTyped
<1>1. ASSUME UNCHANGED sessions, credsAge' \in {0, credsAge} PROVE SessionsTyped'
  BY <1>0, <1>1 DEF SessionsTyped
<1>2. ASSUME NEW r \in Logins, NEW i \in Logins, Admin!Cookie(r, i) PROVE SessionsTyped'
  <2>1. CASE Admin!Live(i)
    <3>1. sessions' = [sessions EXCEPT ![i].idle = 0] /\ i \in DOMAIN sessions /\ credsAge' = credsAge
      BY <1>2, <2>1 DEF Admin!Cookie
    <3>2. /\ DOMAIN sessions' = DOMAIN sessions /\ sessions'[i] = [sessions[i] EXCEPT !.idle = 0]
          /\ \A j \in DOMAIN sessions : j # i => sessions'[j] = sessions[j]
      BY <3>1
    <3>3. sessions'[i] \in [age : 0..MaxAge, idle : 0..IdleTimeout]
      BY <3>1, <3>2, AdmConstants DEF SessionsTyped
    <3> QED
      BY <1>0, <3>1, <3>2, <3>3 DEF SessionsTyped
  <2>2. CASE ~Admin!Live(i)
    BY <1>0, <1>2, <2>2, FewerSessions DEF Admin!Cookie
  <2> QED
    BY <2>1, <2>2
<1>3. ASSUME NEW r \in Logins, Admin!Known(r) \/ Admin!Basic(r) \/ Admin!Login(r) \/ Admin!Wrong(r)
      PROVE  SessionsTyped'
  BY <1>1, <1>3 DEF Admin!Known, Admin!Basic, Admin!Login, Admin!Wrong
<1>4. ASSUME NEW r \in Logins, Admin!Right(r) PROVE SessionsTyped'
  BY <1>0, <1>1, <1>4, CreateSession DEF Admin!Right
<1>5. ASSUME NEW i \in Logins, Admin!Logout(i) PROVE SessionsTyped'
  BY <1>0, <1>5, FewerSessions DEF Admin!Logout
<1>6. ASSUME Admin!Tick PROVE SessionsTyped'
  <2>1. /\ credsAge' = Admin!Older(credsAge, CredsTTL)
        /\ sessions' = [i \in DOMAIN sessions |->
                          [age |-> Admin!Older(sessions[i].age, MaxAge),
                           idle |-> Admin!Older(sessions[i].idle, IdleTimeout)]]
    BY <1>6 DEF Admin!Tick
  <2>2. ASSUME NEW cap \in Nat, NEW n \in 0..cap PROVE Admin!Older(n, cap) \in 0..cap
    BY DEF Admin!Older
  <2>3. credsAge' \in 0..CredsTTL
    BY <1>0, <2>1, <2>2, AdmConstants
  <2>4. ASSUME NEW i \in DOMAIN sessions PROVE sessions'[i] \in [age : 0..MaxAge, idle : 0..IdleTimeout]
    <3>1. sessions[i].age \in 0..MaxAge /\ sessions[i].idle \in 0..IdleTimeout
      BY DEF SessionsTyped
    <3>2. Admin!Older(sessions[i].age, MaxAge) \in 0..MaxAge /\ Admin!Older(sessions[i].idle, IdleTimeout) \in 0..IdleTimeout
      BY <2>2, <3>1, AdmConstants
    <3> QED
      BY <2>1, <3>2
  <2> QED
    BY <2>1, <2>3, <2>4 DEF SessionsTyped
<1>7. ASSUME UNCHANGED Admin!vars PROVE SessionsTyped'
  BY <1>1, <1>7 DEF Admin!vars
<1> QED
  BY <1>2, <1>3, <1>4, <1>5, <1>6, <1>7 DEF Admin!Next

AdmSafe == AdmCore /\ SessionsTyped

LEMMA AdmStarts == ASSUME Admin!Init PROVE AdmSafe
<1>1. /\ \A r \in Logins : req[r] = [pc |-> "new", source |-> Admin!Nobody, slot |-> Admin!NoSlot]
      /\ windows = 0 /\ DOMAIN budgets = {} /\ DOMAIN sessions = {} /\ credsAge = CredsTTL
      /\ reports = [n \in Admin!Names |-> 0] /\ guesses = [n \in Admin!Names |-> 0]
  BY DEF Admin!Init
<1>2. ReqTyped
  BY AdmConstants DEF Admin!Init, ReqTyped
<1>3. (\A n : InBcrypt(n) = {}) /\ Begun = {}
  BY <1>1 DEF InBcrypt, Begun
<1>4. (\A n : Cardinality(InBcrypt(n)) = 0) /\ Cardinality(Begun) = 0
  BY <1>3, FS_EmptySet
<1>5. BudgetsTyped /\ HistoryTyped
  BY <1>1, <1>4 DEF BudgetsTyped, HistoryTyped
<1>6. WindowsNamed /\ Charged
  BY <1>1, AdmConstants DEF WindowsNamed, Charged
<1>7. Affordable /\ ReportedOnce
  BY <1>1, <1>4, AdmConstants DEF Affordable, ReportedOnce
<1>8. TableBounded /\ SessionsTyped
  BY <1>1, FS_EmptySet, AdmConstants DEF TableBounded, SessionsTyped
<1> QED
  BY <1>2, <1>5, <1>6, <1>7, <1>8 DEF AdmSafe, AdmCore

LEMMA AdmGives == ASSUME AdmSafe PROVE Admin!TypeOK /\ Admin!BudgetsExact
<1> USE DEF AdmSafe, AdmCore
<1>1. Admin!TypeOK
  <2>1. windows \in {Admin!NoSlot} \cup Admin!Names
    BY AdmConstants, BcryptFinite DEF HistoryTyped
  <2>2. /\ DOMAIN sessions \subseteq Logins /\ credsAge \in 0..CredsTTL
        /\ \A i \in DOMAIN sessions : sessions[i] \in [age : 0..MaxAge, idle : 0..IdleTimeout]
    BY DEF SessionsTyped
  <2>3. reports \in [Admin!Names -> Nat] /\ guesses \in [Admin!Names -> Nat]
    BY DEF HistoryTyped
  <2> QED
    BY <2>1, <2>2, <2>3, Zenon DEF Admin!TypeOK, ReqTyped, BudgetsTyped
<1>2. /\ \A n \in Admin!Names : guesses[n] <= AuthLimit /\ reports[n] <= 1
  <2>1. ASSUME NEW n \in Admin!Names PROVE guesses[n] <= AuthLimit
    <3>1. guesses[n] \in Nat /\ Cardinality(InBcrypt(n)) \in Nat /\ AuthLimit \in Nat
      BY BcryptFinite, AdmConstants DEF HistoryTyped
    <3> QED
      BY <3>1 DEF Affordable
  <2> QED
    BY <2>1 DEF ReportedOnce
<1>3. Admin!Cardinality(DOMAIN budgets) <= MaxIPs /\ Admin!Cardinality(DOMAIN sessions) <= MaxSessions
  BY SameAdminCard DEF TableBounded, SessionsTyped
<1>4. ASSUME NEW s \in DOMAIN budgets, NEW n, n = budgets[s].start
      PROVE  budgets[s].failures = guesses[n] + Admin!Cardinality({r \in Logins :
                 req[r].slot = n /\ req[r].pc \in {"basic", "login"}})
  BY <1>4, SameAdminCard DEF Charged, InBcrypt
<1> QED
  BY <1>1, <1>2, <1>3, <1>4, Zenon DEF Admin!BudgetsExact

\* A source leaves the table when a window starts, and no other way.
LEMMA LockoutStep ==
    ASSUME AdmSafe, [Admin!Next]_(Admin!vars), NEW s \in DOMAIN budgets,
           Admin!Over(budgets, s), s \notin DOMAIN budgets'
    PROVE  \A x \in DOMAIN budgets : Admin!Open(budgets, x) => Admin!Over(budgets, x)
<1>0. BudgetsTyped /\ TableBounded
  BY DEF AdmSafe, AdmCore
<1>1. PICK r \in Logins : Admin!Basic(r) \/ Admin!Login(r)
  <2>1. ASSUME NEW r \in Logins, NEW i \in Logins, Admin!Known(r) \/ Admin!Cookie(r, i) \/ Admin!Wrong(r) \/ Admin!Logout(i)
        PROVE  DOMAIN budgets' = DOMAIN budgets
    BY <2>1 DEF Admin!Known, Admin!Cookie, Admin!Wrong, Admin!Logout
  <2>2. ASSUME NEW r \in Logins, Admin!Right(r) PROVE DOMAIN budgets' = DOMAIN budgets
    BY <2>2 DEF Admin!Right, Admin!Refund
  <2>3. ASSUME Admin!Tick \/ UNCHANGED Admin!vars PROVE DOMAIN budgets' = DOMAIN budgets
    BY <2>3 DEF Admin!Tick, Admin!vars
  <2> QED
    BY <2>1, <2>2, <2>3 DEF Admin!Next
<1>2. PICK y \in LoginSources, then \in {"basic", "login"} : Admin!Reserve(r, y, then)
  BY <1>1 DEF Admin!Basic, Admin!Login
<1>3. ~Admin!Open(budgets, y)
  BY <1>2 DEF Admin!Reserve, Admin!Count, Admin!Over
<1>4. s \notin DOMAIN Admin!Swept(y)
  <2>1. budgets' = Admin!With(Admin!Swept(y), y, [start |-> windows + 1, failures |-> 1, denied |-> FALSE, age |-> 0])
    BY <1>2, <1>3 DEF Admin!Reserve, Admin!Count, Admin!Over
  <2> QED
    BY <2>1 DEF Admin!With
<1> QED
  BY <1>0, <1>3, <1>4, SweptEffect

----------------------------------------------------------------------------
\* A carrier with a published address still has one in its entry, so the next
\* publication has one too.
StillKnown == \A k \in Trunks : dirSnap[k] # {} => addrs[k] # {}

LEMMA StillKnownKept == ASSUME DirInv, StillKnown, [Directory!Next]_(Directory!vars) PROVE StillKnown'
<1> USE DEF DirInv, DirTyped, StillKnown
<1>1. ASSUME Directory!Apply PROVE StillKnown'
  <2>1. /\ addrs' = [addrs EXCEPT ![resolving] = Directory!Kept(resolving)] /\ dirSnap' = dirSnap
        /\ dnsPc = "apply"
    BY <1>1 DEF Directory!Apply
  <2>2. resolving \in Trunks
    BY <2>1 DEF Resolving
  <2>3. addrs[resolving] # {} => Directory!Kept(resolving) # {}
    BY DEF Directory!Kept
  <2> QED
    BY <2>1, <2>2, <2>3
<1>2. ASSUME Directory!Publish PROVE StillKnown'
  BY <1>2 DEF Directory!Publish, Directory!Published, Directory!entries
<1>3. ASSUME Directory!Sweep \/ Directory!Check \/ Directory!LookupSRV \/ Directory!LookupHost
             \/ Directory!LookupDone \/ Directory!Readdress \/ Directory!Tick \/ UNCHANGED Directory!vars
      PROVE  UNCHANGED <<addrs, dirSnap>>
  BY <1>3 DEF Directory!Sweep, Directory!Check, Directory!LookupSRV, Directory!LookupHost,
     Directory!LookupDone, Directory!Readdress, Directory!Tick, Directory!vars, Directory!entries
<1>4. ASSUME UNCHANGED <<addrs, dirSnap>> PROVE StillKnown'
  BY <1>4
<1> QED
  BY <1>1, <1>2, <1>3, <1>4, Zenon DEF Directory!Next, Directory!Refresh

LEMMA ResolvedStep ==
    ASSUME DirInv, StillKnown, [Directory!Next]_(Directory!vars), NEW k \in Trunks, dirSnap[k] # {}
    PROVE  dirSnap'[k] # {}
<1>1. CASE Directory!Publish
  BY <1>1 DEF Directory!Publish, Directory!Published, StillKnown
<1>2. CASE ~Directory!Publish
  <2>1. dirSnap' = dirSnap
    BY <1>2, Zenon DEF Directory!Next, Directory!Refresh, Directory!Sweep, Directory!Check, Directory!LookupSRV,
       Directory!LookupHost, Directory!LookupDone, Directory!Apply, Directory!Readdress, Directory!Tick,
       Directory!vars, Directory!entries
  <2> QED
    BY <2>1
<1> QED
  BY <1>1, <1>2

----------------------------------------------------------------------------
(* The replay of provisionals.                                             *)

LEMMA SameReplayCard == \A S : Replay!Cardinality(S) = Cardinality(S)
  BY DEF Cardinality, Replay!Cardinality

\* What a sequence has in it, and that it has nothing twice.
In(s) == {s[k] : k \in DOMAIN s}
Once(s) == \A j, k \in DOMAIN s : s[j] = s[k] => j = k

LEMMA AppendOnce ==
    ASSUME NEW S, NEW s \in Seq(S), NEW x \in S
    PROVE  /\ Append(s, x) \in Seq(S) /\ In(Append(s, x)) = In(s) \cup {x}
           /\ Once(s) /\ x \notin In(s) => Once(Append(s, x))
<1>1. /\ Append(s, x) \in Seq(S) /\ \A k \in DOMAIN s : Append(s, x)[k] = s[k]
      /\ DOMAIN Append(s, x) = DOMAIN s \cup {Len(s) + 1} /\ Append(s, x)[Len(s) + 1] = x
  BY AppendAt
<1>2. In(Append(s, x)) = In(s) \cup {x}
  BY <1>1, Zenon DEF In
<1>3. ASSUME Once(s), x \notin In(s) PROVE Once(Append(s, x))
  BY <1>1, <1>3, Zenon DEF Once, In
<1> QED
  BY <1>1, <1>2, <1>3

LEMMA AppendWire ==
    \A s \in Seq(1..WireLength), x \in 1..WireLength :
        /\ Append(s, x) \in Seq(1..WireLength) /\ In(Append(s, x)) = In(s) \cup {x}
        /\ Once(s) /\ x \notin In(s) => Once(Append(s, x))
  BY AppendOnce, Zenon

LEMMA TailOnce ==
    ASSUME NEW S, NEW s \in Seq(S), s # <<>>, Once(s)
    PROVE  /\ Head(s) \in S /\ Tail(s) \in Seq(S) /\ Once(Tail(s)) /\ Head(s) \in In(s)
           /\ In(Tail(s)) \subseteq In(s) \ {Head(s)}
<1>1. /\ Head(s) = s[1] /\ Len(s) \in Nat \ {0} /\ DOMAIN s = 1..Len(s) /\ Tail(s) \in Seq(S)
      /\ DOMAIN Tail(s) = 1..(Len(s) - 1) /\ \A k \in 1..(Len(s) - 1) : Tail(s)[k] = s[k + 1]
      /\ Head(s) \in S
  OBVIOUS
<1>2. \A k \in 1..(Len(s) - 1) : k + 1 \in 1..Len(s) /\ k + 1 # 1
  BY <1>1
<1>3. 1 \in DOMAIN s
  BY <1>1
<1>4. Once(Tail(s))
  BY <1>1, <1>2 DEF Once
<1> QED
  BY <1>1, <1>2, <1>3, <1>4 DEF Once, In

WireTyped ==
    /\ wire \in 0..WireLength /\ flying \subseteq 1..wire /\ provSeen \subseteq 1..wire
    /\ chan \in Seq(1..WireLength) /\ relayed \in Seq(1..WireLength) /\ In(chan) \subseteq 1..wire
    /\ finalRead \in Finals \cup {Replay!None} /\ toReplay \subseteq 1..WireLength
WireFlags == spawned \in BOOLEAN /\ accepted \in BOOLEAN /\ pumped \in BOOLEAN

\* A response is in one place: with its goroutine, in the channel, or read.
OnePlace ==
    /\ flying \cap (In(chan) \cup provSeen) = {} /\ In(chan) \cap provSeen = {}
    /\ Once(chan)

\* The record has all that was read, but for the one whose observe is due.
Observed ==
    /\ spawned => wire # 0
    /\ recorded = IF pumped THEN {} ELSE IF spawned THEN 1..(wire - 1) ELSE 1..wire

\* Until a final is read what was read is what was relayed; then what it
\* overtook is relayed or due, and with the final everything is over.
Reading == finalRead = Replay!None =>
    In(relayed) = provSeen /\ provSeen \cap Finals = {} /\ toReplay = {}
Replaying == finalRead # Replay!None =>
    /\ toReplay \cap (Finals \cup In(relayed)) = {}
    /\ \A i \in 1..(finalRead - 1) : i \in Finals \cup In(relayed) \cup toReplay
Sealed == \A k \in DOMAIN relayed : relayed[k] \in Finals =>
    k = Len(relayed) /\ relayed[k] = finalRead /\ pumped /\ toReplay = {}

ReplayInv ==
    WireTyped /\ WireFlags /\ OnePlace /\ Observed /\ Once(relayed) /\ Reading /\ Replaying /\ Sealed

LEMMA WireConstants ==
    /\ WireLength \in Nat /\ ProvCap \in Nat /\ WireLength <= ProvCap
    /\ Finals \subseteq 1..WireLength /\ Replay!None = 0
  BY ReplayAssumption DEF Replay!ConstantsOK, Replay!None

LEMMA WireFlagsKept == ASSUME WireFlags, [Replay!Next]_(Replay!vars) PROVE WireFlags'
<1>1. ASSUME NEW i \in 1..WireLength, Replay!Deliver(i) \/ Replay!Replay(i) PROVE WireFlags'
  BY <1>1, Zenon DEF WireFlags, Replay!Deliver, Replay!Replay
<1>2. CASE Replay!Pump \/ Replay!Finalise \/ Replay!Stop \/ UNCHANGED Replay!vars
  BY <1>2, Zenon DEF WireFlags, Replay!Pump, Replay!Finalise, Replay!Stop, Replay!vars
<1>3. CASE Replay!Spawn \/ Replay!Observe
  BY <1>3, Zenon DEF WireFlags, Replay!Spawn, Replay!Observe
<1> QED
  BY <1>1, <1>2, <1>3, Zenon DEF Replay!Next

ReplayRest == WireTyped /\ OnePlace /\ Observed /\ Once(relayed) /\ Reading /\ Replaying /\ Sealed

LEMMA ReplayStep == ASSUME ReplayInv, [Replay!Next]_(Replay!vars) PROVE ReplayRest'
<1>0. /\ WireTyped /\ OnePlace /\ Observed /\ Once(relayed) /\ Reading /\ Replaying /\ Sealed
      /\ WireLength \in Nat /\ ProvCap \in Nat /\ WireLength <= ProvCap
      /\ Finals \subseteq 1..WireLength /\ Replay!None = 0
  BY WireConstants DEF ReplayInv
<1> DEFINE Pumping == <<relayed, finalRead, toReplay, pumped>>
<1>k. ASSUME UNCHANGED Pumping, UNCHANGED provSeen
      PROVE  Once(relayed)' /\ Reading' /\ Replaying' /\ Sealed'
  BY <1>0, <1>k DEF Once, In, Reading, Replaying, Sealed
<1>1. ASSUME Replay!Spawn PROVE ReplayRest'
  <2>1. /\ wire' = wire + 1 /\ spawned' /\ ~spawned /\ flying' = flying \cup {wire + 1} /\ wire < WireLength
        /\ UNCHANGED <<accepted, chan, recorded, provSeen, relayed, pumped, finalRead, toReplay>>
    BY <1>1 DEF Replay!Spawn
  <2>2. wire \in Nat /\ wire + 1 \notin 1..wire /\ 1..wire \subseteq 1..(wire + 1) /\ wire + 1 \in 1..(wire + 1)
        /\ wire + 1 \in 0..WireLength /\ (wire + 1) - 1 = wire /\ wire + 1 # 0
    BY <1>0, <2>1 DEF WireTyped
  <2>3. WireTyped'
    <3>1. In(chan)' = In(chan)
      BY <2>1, Zenon DEF In
    <3>2. flying' \subseteq 1..wire' /\ provSeen' \subseteq 1..wire' /\ In(chan)' \subseteq 1..wire'
      BY <1>0, <2>1, <2>2, <3>1 DEF WireTyped
    <3> QED
      BY <1>0, <2>1, <2>2, <3>2 DEF WireTyped
  <2>4. OnePlace'
    <3>1. In(chan)' = In(chan) /\ Once(chan)' = Once(chan)
      BY <2>1, Zenon DEF In, Once
    <3> QED
      BY <1>0, <2>1, <2>2, <3>1 DEF WireTyped, OnePlace
  <2>5. Observed'
    BY <1>0, <2>1, <2>2 DEF Observed
  <2> QED
    BY <1>k, <2>1, <2>3, <2>4, <2>5 DEF ReplayRest
<1>2. ASSUME Replay!Observe PROVE ReplayRest'
  <2>1. /\ spawned /\ ~spawned' /\ recorded' = IF pumped THEN recorded ELSE Replay!Recorded(wire)
        /\ UNCHANGED <<wire, flying, accepted, chan, provSeen, relayed, pumped, finalRead, toReplay>>
    BY <1>2 DEF Replay!Observe
  <2>2. ASSUME ~pumped PROVE recorded' = 1..wire
    <3>1. recorded = 1..(wire - 1) /\ wire \in 1..WireLength
      BY <1>0, <2>1, <2>2 DEF Observed, WireTyped
    <3>2. Cardinality(1..(wire - 1)) = wire - 1
      BY <3>1, FS_Interval
    <3>3. ~(Replay!Cardinality(recorded) >= ProvCap)
      BY <1>0, <3>1, <3>2, SameReplayCard
    <3> QED
      BY <2>1, <2>2, <3>1, <3>3 DEF Replay!Recorded
  <2>3. Observed'
    BY <1>0, <2>1, <2>2 DEF Observed
  <2>4. WireTyped' /\ OnePlace'
    BY <1>0, <2>1 DEF WireTyped, OnePlace, In, Once
  <2> QED
    BY <1>k, <2>1, <2>3, <2>4 DEF ReplayRest
<1>3. ASSUME NEW i \in 1..WireLength, Replay!Deliver(i) PROVE ReplayRest'
  <2>1. /\ i \in flying /\ flying' = flying \ {i} /\ chan' = IF accepted THEN chan ELSE Append(chan, i)
        /\ UNCHANGED <<wire, spawned, recorded, provSeen, relayed, pumped, finalRead, toReplay>>
    BY <1>3 DEF Replay!Deliver
  <2>2. /\ chan' \in Seq(1..WireLength) /\ In(chan)' \subseteq In(chan) \cup {i} /\ Once(chan)'
    <3>1. CASE accepted
      BY <1>0, <2>1, <3>1 DEF WireTyped, OnePlace, In, Once
    <3>2. CASE ~accepted
      <4>1. chan \in Seq(1..WireLength) /\ Once(chan) /\ i \notin In(chan) /\ i \in 1..WireLength
        BY <1>0, <2>1 DEF WireTyped, OnePlace
      <4>2. /\ Append(chan, i) \in Seq(1..WireLength) /\ In(Append(chan, i)) = In(chan) \cup {i}
            /\ Once(Append(chan, i))
        BY <4>1, AppendWire
      <4>3. chan' = Append(chan, i)
        BY <2>1, <3>2
      <4>4. In(chan)' = In(chan') /\ Once(chan)' = Once(chan')
        BY DEF In, Once
      <4> QED
        BY <4>2, <4>3, <4>4
    <3> QED
      BY <3>1, <3>2
  <2>3. WireTyped' /\ OnePlace' /\ Observed'
    BY <1>0, <2>1, <2>2 DEF WireTyped, OnePlace, Observed
  <2> QED
    BY <1>k, <2>1, <2>3 DEF ReplayRest
<1>4. ASSUME Replay!Pump PROVE ReplayRest'
  <2> DEFINE i == Head(chan)
  <2>1. /\ ~pumped /\ finalRead = 0 /\ chan # <<>> /\ chan' = Tail(chan) /\ provSeen' = provSeen \cup {i}
        /\ UNCHANGED <<wire, spawned, flying, accepted, pumped, recorded>>
    BY <1>0, <1>4 DEF Replay!Pump
  <2>2. /\ i \in 1..WireLength /\ Tail(chan) \in Seq(1..WireLength) /\ Once(Tail(chan)) /\ i \in In(chan)
        /\ In(Tail(chan)) \subseteq In(chan) \ {i}
    BY <1>0, <2>1, TailOnce DEF WireTyped, OnePlace
  <2>3. In(chan)' = In(Tail(chan)) /\ (Once(chan)' <=> Once(Tail(chan)))
    BY <2>1 DEF In, Once
  <2>4. i \in 1..wire /\ i \notin provSeen /\ i \notin flying
    BY <1>0, <2>2 DEF WireTyped, OnePlace
  <2>5. OnePlace' /\ Observed'
    BY <1>0, <2>1, <2>2, <2>3, <2>4 DEF OnePlace, Observed
  <2>6. In(relayed) = provSeen /\ provSeen \cap Finals = {} /\ toReplay = {}
    BY <1>0, <2>1 DEF Reading
  <2>7. CASE i \in Finals
    <3>1. finalRead' = i /\ toReplay' = Replay!Before(i) /\ relayed' = relayed
      BY <1>4, <2>7 DEF Replay!Pump
    <3>2. recorded = (IF spawned THEN 1..(wire - 1) ELSE 1..wire) /\ (spawned => wire # 0) /\ wire \in 0..WireLength
      BY <1>0, <2>1 DEF Observed, WireTyped
    <3>3. /\ toReplay' \subseteq 1..WireLength /\ toReplay' \cap (Finals \cup provSeen) = {}
          /\ \A j \in 1..(i - 1) : j \in Finals \cup provSeen \cup toReplay'
      <4>1. recorded \subseteq 1..WireLength
        <5>1. 1..wire \subseteq 1..WireLength /\ 1..(wire - 1) \subseteq 1..WireLength
          BY <1>0, <3>2
        <5> QED
          BY <3>2, <5>1
      <4>2. \A j \in 1..(i - 1) : j \in recorded
        <5>1. 1..(wire - 1) \subseteq recorded
          BY <3>2
        <5>2. 1..(i - 1) \subseteq 1..(wire - 1)
          BY <2>4, <3>2
        <5> QED
          BY <5>1, <5>2
      <4>3. \A j \in 1..(i - 1) : j < i
        BY <2>4, <3>2
      <4>4. toReplay' = {j \in recorded \ (Finals \cup provSeen) : i \in recorded => j < i}
        BY <3>1 DEF Replay!Before
      <4> QED
        BY <4>1, <4>2, <4>3, <4>4
    <3>4. WireTyped'
      BY <1>0, <2>1, <2>2, <2>3, <2>4, <2>7, <3>1, <3>3 DEF WireTyped
    <3>5. Once(relayed)' /\ In(relayed)' = In(relayed)
      BY <1>0, <3>1 DEF Once, In
    <3>6. Reading' /\ Replaying'
      BY <1>0, <2>2, <2>6, <3>1, <3>3, <3>5 DEF Reading, Replaying
    <3>7. Sealed'
      BY <2>6, <3>1 DEF Sealed, In
    <3> QED
      BY <2>5, <3>4, <3>5, <3>6, <3>7 DEF ReplayRest
  <2>8. CASE i \notin Finals
    <3>1. relayed' = Append(relayed, i) /\ UNCHANGED <<finalRead, toReplay>>
      BY <1>4, <2>8 DEF Replay!Pump
    <3>2. relayed \in Seq(1..WireLength) /\ Once(relayed) /\ i \notin In(relayed)
      BY <1>0, <2>4, <2>6 DEF WireTyped
    <3>3. /\ Append(relayed, i) \in Seq(1..WireLength) /\ In(Append(relayed, i)) = In(relayed) \cup {i}
          /\ Once(Append(relayed, i))
      BY <2>2, <3>2, AppendWire
    <3>4. In(relayed)' = In(relayed) \cup {i} /\ Once(relayed)' /\ relayed' \in Seq(1..WireLength)
      BY <3>1, <3>3 DEF In, Once
    <3>5. WireTyped'
      BY <1>0, <2>1, <2>2, <2>3, <2>4, <3>1, <3>4 DEF WireTyped
    <3>6. Reading' /\ Replaying'
      BY <1>0, <2>1, <2>6, <2>8, <3>1, <3>4 DEF Reading, Replaying
    <3>7. Sealed'
      BY <2>6, <2>8, <3>4 DEF Sealed, In
    <3> QED
      BY <2>5, <3>4, <3>5, <3>6, <3>7 DEF ReplayRest
  <2> QED
    BY <2>7, <2>8
<1>5. ASSUME NEW i \in 1..WireLength, Replay!Replay(i) PROVE ReplayRest'
  <2>1. /\ ~pumped /\ i \in toReplay /\ relayed' = Append(relayed, i) /\ toReplay' = toReplay \ {i}
        /\ UNCHANGED <<wire, spawned, flying, chan, provSeen, recorded, pumped, finalRead>>
    BY <1>5 DEF Replay!Replay
  <2>2. finalRead # 0 /\ i \notin Finals /\ i \notin In(relayed)
    BY <1>0, <2>1 DEF Reading, Replaying
  <2>3. /\ Append(relayed, i) \in Seq(1..WireLength) /\ In(Append(relayed, i)) = In(relayed) \cup {i}
        /\ Once(Append(relayed, i))
    BY <1>0, <2>2, AppendWire DEF WireTyped
  <2>4. In(relayed)' = In(relayed) \cup {i} /\ Once(relayed)' /\ relayed' \in Seq(1..WireLength)
    BY <2>1, <2>3 DEF In, Once
  <2>5. WireTyped' /\ OnePlace' /\ Observed'
    BY <1>0, <2>1, <2>4 DEF WireTyped, OnePlace, Observed, In, Once
  <2>6. Reading' /\ Replaying'
    BY <1>0, <2>1, <2>2, <2>4 DEF Reading, Replaying
  <2>7. In(relayed) \cap Finals = {}
    BY <1>0, <2>1 DEF Sealed, In
  <2>8. Sealed'
    BY <2>2, <2>4, <2>7 DEF Sealed, In
  <2> QED
    BY <2>4, <2>5, <2>6, <2>8 DEF ReplayRest
<1>6. ASSUME Replay!Finalise PROVE ReplayRest'
  <2>1. /\ ~pumped /\ finalRead # 0 /\ toReplay = {} /\ relayed' = Append(relayed, finalRead) /\ pumped'
        /\ recorded' = {} /\ UNCHANGED <<wire, spawned, flying, chan, provSeen, finalRead, toReplay>>
    BY <1>0, <1>6 DEF Replay!Finalise
  <2>2. finalRead \in 1..WireLength /\ finalRead \in Finals
    BY <1>0, <2>1 DEF WireTyped
  <2>3. In(relayed) \cap Finals = {}
    BY <1>0, <2>1 DEF Sealed, In
  <2>4. /\ Append(relayed, finalRead) \in Seq(1..WireLength)
        /\ In(Append(relayed, finalRead)) = In(relayed) \cup {finalRead} /\ Once(Append(relayed, finalRead))
        /\ Len(Append(relayed, finalRead)) = Len(relayed) + 1
        /\ Append(relayed, finalRead)[Len(relayed) + 1] = finalRead
        /\ \A k \in DOMAIN relayed : Append(relayed, finalRead)[k] = relayed[k]
        /\ DOMAIN Append(relayed, finalRead) = DOMAIN relayed \cup {Len(relayed) + 1}
    <3>1. relayed \in Seq(1..WireLength) /\ Once(relayed) /\ finalRead \notin In(relayed)
      BY <1>0, <2>2, <2>3 DEF WireTyped
    <3>2. /\ Append(relayed, finalRead) \in Seq(1..WireLength)
          /\ In(Append(relayed, finalRead)) = In(relayed) \cup {finalRead}
          /\ Once(Append(relayed, finalRead))
      BY <2>2, <3>1, AppendWire
    <3>3. /\ Len(Append(relayed, finalRead)) = Len(relayed) + 1
          /\ Append(relayed, finalRead)[Len(relayed) + 1] = finalRead
          /\ \A k \in DOMAIN relayed : Append(relayed, finalRead)[k] = relayed[k]
          /\ DOMAIN Append(relayed, finalRead) = DOMAIN relayed \cup {Len(relayed) + 1}
      BY <2>2, <3>1, AppendAt
    <3> QED
      BY <2>2, <3>1, <3>2, <3>3
  <2>5. In(relayed)' = In(relayed) \cup {finalRead} /\ Once(relayed)' /\ relayed' \in Seq(1..WireLength)
    BY <2>1, <2>4 DEF In, Once
  <2>6. WireTyped' /\ OnePlace' /\ Observed'
    BY <1>0, <2>1, <2>5 DEF WireTyped, OnePlace, Observed, In, Once
  <2>7. Reading' /\ Replaying'
    BY <1>0, <2>1, <2>5 DEF Reading, Replaying
  <2>8. Sealed'
    BY <2>1, <2>3, <2>4 DEF Sealed, In
  <2> QED
    BY <2>5, <2>6, <2>7, <2>8 DEF ReplayRest
<1>7. ASSUME Replay!Stop PROVE ReplayRest'
  <2>1. /\ ~pumped /\ pumped' /\ recorded' = {}
        /\ UNCHANGED <<wire, spawned, flying, chan, provSeen, relayed, finalRead, toReplay>>
    BY <1>7 DEF Replay!Stop
  <2>2. WireTyped' /\ OnePlace' /\ Observed'
    BY <1>0, <2>1 DEF WireTyped, OnePlace, Observed, In, Once
  <2>3. Once(relayed)' /\ Reading' /\ Replaying' /\ Sealed'
    BY <1>0, <2>1 DEF Once, In, Reading, Replaying, Sealed
  <2> QED
    BY <2>2, <2>3 DEF ReplayRest
<1>8. ASSUME UNCHANGED Replay!vars PROVE ReplayRest'
  BY <1>0, <1>k, <1>8 DEF Replay!vars, WireTyped, OnePlace, Observed, In, Once, ReplayRest
<1> QED
  BY <1>1, <1>2, <1>3, <1>4, <1>5, <1>6, <1>7, <1>8 DEF Replay!Next

LEMMA ReplayStarts == ASSUME Replay!Init PROVE ReplayInv
<1>1. WireFlags
  BY Zenon DEF Replay!Init, WireFlags
<1>2. In(chan) = {} /\ In(relayed) = {} /\ Once(chan) /\ Once(relayed) /\ ~spawned
  BY DEF Replay!Init, In, Once
<1>3. recorded = 1..wire
  BY DEF Replay!Init
<1>4. WireTyped /\ OnePlace /\ Observed /\ Reading /\ Replaying /\ Sealed
  BY <1>2, <1>3, WireConstants DEF Replay!Init, WireTyped, OnePlace, Observed, Reading, Replaying, Sealed
<1> QED
  BY <1>1, <1>2, <1>4 DEF ReplayInv

LEMMA ReplayGives == ASSUME ReplayInv PROVE Replay!TypeOK /\ Replay!NothingOvertaken
<1>0. /\ WireTyped /\ WireFlags /\ OnePlace /\ Observed /\ Once(relayed) /\ Reading /\ Replaying /\ Sealed
      /\ WireLength \in Nat /\ ProvCap \in Nat /\ WireLength <= ProvCap
      /\ Finals \subseteq 1..WireLength /\ Replay!None = 0
  BY WireConstants DEF ReplayInv
<1> DEFINE at(i) == {k \in DOMAIN relayed : relayed[k] = i}
<1>1. ASSUME NEW i PROVE Cardinality(at(i)) = IF i \in In(relayed) THEN 1 ELSE 0
  <2>1. CASE i \in In(relayed)
    <3>1. PICK k \in DOMAIN relayed : relayed[k] = i
      BY <2>1 DEF In
    <3>2. at(i) = {k}
      BY <1>0, <3>1 DEF Once
    <3> QED
      BY <2>1, <3>2, FS_Singleton
  <2>2. CASE i \notin In(relayed)
    <3>1. at(i) = {}
      BY <2>2 DEF In
    <3> QED
      BY <2>2, <3>1, FS_EmptySet
  <2> QED
    BY <2>1, <2>2
<1>2. \A i : Replay!Cardinality(at(i)) = IF i \in In(relayed) THEN 1 ELSE 0
  BY <1>1, SameReplayCard
<1>3. ASSUME NEW f \in Finals, NEW k \in DOMAIN relayed, relayed[k] = f
      PROVE  /\ k = Len(relayed)
             /\ \A i \in 1..(f - 1) : i \notin Finals => i \in In(relayed)
  BY <1>0, <1>3 DEF Sealed, Replaying
<1>4. Replay!NothingOvertaken
  <2> HIDE DEF at
  <2>1. \A f \in Finals : \A k \in at(f) :
          /\ k = Len(relayed)
          /\ \A i \in 1..(f - 1) : i \notin Finals => Replay!Cardinality(at(i)) = 1
          /\ \A i \in (f + 1)..WireLength : Replay!Cardinality(at(i)) <= 1
    <3>1. ASSUME NEW f \in Finals, NEW k \in at(f)
          PROVE  /\ k = Len(relayed)
                 /\ \A i \in 1..(f - 1) : i \notin Finals => Replay!Cardinality(at(i)) = 1
      <4>1. k \in DOMAIN relayed /\ relayed[k] = f
        BY <3>1 DEF at
      <4> QED
        BY <1>2, <1>3, <4>1
    <3>2. \A i : Replay!Cardinality(at(i)) <= 1
      BY <1>2
    <3> QED
      BY <3>1, <3>2
  <2> QED
    BY <2>1, Zenon DEF at, Replay!NothingOvertaken
<1>5. recorded \subseteq 1..WireLength /\ Replay!Cardinality(recorded) <= ProvCap
  <2>1. PICK n \in 0..WireLength : recorded = 1..n
    <3>1. CASE pumped
      BY <1>0, <3>1 DEF Observed
    <3>2. CASE ~pumped
      BY <1>0, <3>2 DEF Observed, WireTyped
    <3> QED
      BY <3>1, <3>2
  <2>2. Cardinality(recorded) = n
    BY <1>0, <2>1, FS_Interval
  <2> QED
    BY <1>0, <2>1, <2>2, SameReplayCard
<1>6. {spawned, accepted, pumped} \subseteq BOOLEAN
  BY <1>0, Zenon DEF WireFlags
<1>7. wire \in 0..WireLength /\ {flying, recorded, provSeen, toReplay} \subseteq SUBSET (1..WireLength)
  BY <1>0, <1>5 DEF WireTyped
<1>8. {chan, relayed} \subseteq Seq(1..WireLength) /\ finalRead \in Finals \cup {Replay!None}
  BY <1>0 DEF WireTyped
<1> QED
  BY <1>4, <1>5, <1>6, <1>7, <1>8, Zenon DEF Replay!TypeOK

----------------------------------------------------------------------------
(* The mirror.                                                             *)

LEMMA SameHepCard == \A S : Hep!Cardinality(S) = Cardinality(S)
  BY DEF Cardinality, Hep!Cardinality
LEMMA SameHepFinite == \A S : Hep!IsFiniteSet(S) <=> IsFiniteSet(S)
  BY DEF IsFiniteSet, Hep!IsFiniteSet

Given == {p \in Packets : hepPc[p] \in {"queued", "refused"}}
InHand == IF hand = Hep!None THEN 0 ELSE 1

HepTyped ==
    /\ hepPc \in [Packets -> {"new", "checked", "queued", "refused"}]
    /\ queue \in Seq(Packets) /\ Len(queue) <= QueueSize /\ hand \in Packets \cup {Hep!None}
    /\ wpc \in Hep!WriterStates /\ collector \in {"none", "open", "dead"}
    /\ closerPc \in {"idle", "wait", "gaveUp", "rest", "conn", "returned"}
    /\ stray \subseteq Packets
    /\ sent \in Nat /\ dropped \in Nat /\ writeErrs \in Nat /\ encodeErrs \in Nat
HepFlags ==
    /\ hepClosed \in BOOLEAN /\ stop \in BOOLEAN /\ abort \in BOOLEAN
    /\ draining \in BOOLEAN /\ hepFailed \in BOOLEAN /\ backing \in BOOLEAN

HepCounted ==
    sent + dropped + writeErrs + encodeErrs + Len(queue) + InHand = Cardinality(Given)

\* The writer has a packet in its hand while it writes, and only then; Close
\* outlives it, looks at the queue once more, and then lets the connection go.
HepHanded == hand # Hep!None <=> wpc \in {"write", "dial", "dialed", "send"}
HepClosing ==
    /\ closerPc \in {"rest", "conn", "returned"} => wpc = "done"
    /\ closerPc \in {"conn", "returned"} => Hep!Elements(queue) \subseteq stray
    /\ closerPc = "returned" => collector = "none"

HepInv == HepTyped /\ HepFlags /\ HepCounted /\ HepHanded /\ HepClosing

LEMMA HepConstants == IsFiniteSet(Packets) /\ Hep!None \notin Packets /\ QueueSize \in Nat
  BY HepAssumption, SameHepFinite DEF Hep!ConstantsOK, Hep!None

LEMMA GivenCounted == IsFiniteSet(Given) /\ Cardinality(Given) \in 0..Cardinality(Packets)
<1>1. Given \subseteq Packets
  BY DEF Given
<1> QED
  BY <1>1, HepConstants, FS_Subset, FS_CardinalityType

\* How a step changes what was given: not at all, or by one packet.
LEMMA OneMoreGiven ==
    ASSUME HepTyped, NEW p \in Packets, hepPc[p] \in {"new", "checked"},
           NEW v \in {"queued", "refused"}, hepPc' = [hepPc EXCEPT ![p] = v]
    PROVE  Cardinality(Given)' = Cardinality(Given) + 1
<1>1. Given' = Given \cup {p} /\ p \notin Given
  BY DEF Given, HepTyped
<1> QED
  BY <1>1, GivenCounted, FS_AddElement

LEMMA SameGiven ==
    ASSUME HepTyped, \A p \in Packets : hepPc'[p] = hepPc[p] \/ (hepPc[p] = "new" /\ hepPc'[p] = "checked")
    PROVE  Cardinality(Given)' = Cardinality(Given)
<1>1. Given' = Given
  BY DEF Given
<1> QED
  BY <1>1

LEMMA HepFlagsKept == ASSUME HepFlags, [Hep!Next]_(Hep!vars) PROVE HepFlags'
<1> USE DEF HepFlags, Hep!signals, Hep!stats
<1>1. CASE Hep!Take \/ Hep!StopSeen \/ Hep!Drain \/ Hep!Write
  BY <1>1, Zenon DEF Hep!Take, Hep!StopSeen, Hep!Drain, Hep!Write
<1>2. CASE Hep!Dial \/ Hep!Store \/ Hep!Send \/ Hep!Exit
  BY <1>2, Zenon DEF Hep!Dial, Hep!Store, Hep!Send, Hep!Exit, Hep!Fail
<1>3. CASE Hep!Closer
  BY <1>3, Zenon DEF Hep!Closer, Hep!GiveUp, Hep!WriterDone, Hep!Rest, Hep!CloseConn
<1>4. CASE Hep!BackedOff \/ Hep!PeerClose \/ Hep!Close \/ UNCHANGED Hep!vars
  BY <1>4, Zenon DEF Hep!BackedOff, Hep!PeerClose, Hep!Close, Hep!vars
<1>5. ASSUME NEW p \in Packets, Hep!CheckClosed(p) \/ Hep!Enqueue(p) PROVE HepFlags'
  BY <1>5, Zenon DEF Hep!CheckClosed, Hep!Enqueue
<1> QED
  BY <1>1, <1>2, <1>3, <1>4, <1>5, Zenon DEF Hep!Next, Hep!Writer

HepRest == HepTyped /\ HepCounted /\ HepHanded /\ HepClosing

LEMMA HepStep == ASSUME HepInv, [Hep!Next]_(Hep!vars) PROVE HepRest'
<1> DEFINE Goal == HepRest'
<1>0. HepTyped /\ HepCounted /\ HepHanded /\ HepClosing /\ Cardinality(Given) \in Nat
  BY GivenCounted DEF HepInv
<1>c. IsFiniteSet(Packets) /\ Hep!None \notin Packets /\ QueueSize \in Nat
  BY HepConstants
<1>e. ASSUME queue # <<>>
      PROVE  /\ Head(queue) \in Packets /\ Tail(queue) \in Seq(Packets) /\ Len(queue) \in Nat
             /\ Len(Tail(queue)) = Len(queue) - 1 /\ Len(Tail(queue)) <= QueueSize
  BY <1>0, <1>c, <1>e DEF HepTyped
<1>s. ASSUME hepPc' = hepPc PROVE Cardinality(Given)' = Cardinality(Given)
  BY <1>0, <1>s, SameGiven
<1> USE DEF Hep!signals, Hep!stats, HepRest
<1>1. ASSUME NEW p \in Packets, Hep!CheckClosed(p) PROVE Goal
  <2>1. CASE hepClosed
    <3>1. hepPc' = [hepPc EXCEPT ![p] = "refused"] /\ dropped' = dropped + 1
      BY <1>1, <2>1 DEF Hep!CheckClosed
    <3>2. Cardinality(Given)' = Cardinality(Given) + 1
      BY <1>0, <1>1, <3>1, OneMoreGiven DEF Hep!CheckClosed
    <3>3. HepTyped' /\ HepHanded' /\ HepClosing'
      BY <1>0, <1>1, <3>1 DEF Hep!CheckClosed, HepTyped, HepHanded, HepClosing, Hep!Elements
    <3>4. HepCounted'
      <4>1. Len(queue) \in Nat
        BY <1>0 DEF HepTyped
      <4>2. UNCHANGED <<queue, hand, sent, writeErrs, encodeErrs>>
        BY <1>1 DEF Hep!CheckClosed
      <4> QED
        BY <1>0, <3>1, <3>2, <4>1, <4>2 DEF HepTyped, HepCounted, InHand
    <3> QED
      BY <3>3, <3>4
  <2>2. CASE ~hepClosed
    <3>1. hepPc' = [hepPc EXCEPT ![p] = "checked"] /\ dropped' = dropped
      BY <1>1, <2>2 DEF Hep!CheckClosed
    <3>2. Cardinality(Given)' = Cardinality(Given)
      BY <1>0, <1>1, <3>1, SameGiven DEF Hep!CheckClosed, HepTyped
    <3> QED
      BY <1>0, <1>1, <3>1, <3>2
         DEF Hep!CheckClosed, HepTyped, HepCounted, HepHanded, HepClosing, InHand, Hep!Elements
  <2> QED
    BY <2>1, <2>2
<1>2. ASSUME NEW p \in Packets, Hep!Enqueue(p) PROVE Goal
  <2>1. CASE Len(queue) < QueueSize
    <3>1. /\ hepPc' = [hepPc EXCEPT ![p] = "queued"] /\ queue' = Append(queue, p)
          /\ stray' = IF closerPc \in {"conn", "returned"} THEN stray \cup {p} ELSE stray
          /\ dropped' = dropped
      BY <1>2, <2>1 DEF Hep!Enqueue
    <3>2. Cardinality(Given)' = Cardinality(Given) + 1
      BY <1>0, <1>2, <3>1, OneMoreGiven DEF Hep!Enqueue
    <3>3. queue' \in Seq(Packets) /\ Len(queue) \in Nat /\ Len(queue') = Len(queue) + 1
      BY <1>0, <3>1 DEF HepTyped
    <3>4. Hep!Elements(queue') \subseteq Hep!Elements(queue) \cup {p}
      BY <1>0, <3>1 DEF HepTyped, Hep!Elements
    <3>5. HepTyped'
      BY <1>0, <1>c, <1>2, <2>1, <3>1, <3>3 DEF Hep!Enqueue, HepTyped
    <3>6. HepClosing' /\ HepHanded'
      BY <1>0, <1>2, <3>1, <3>4 DEF Hep!Enqueue, HepHanded, HepClosing
    <3>7. HepCounted'
      BY <1>0, <1>2, <3>1, <3>2, <3>3 DEF Hep!Enqueue, HepTyped, HepCounted, InHand
    <3> QED
      BY <3>5, <3>6, <3>7
  <2>2. CASE ~(Len(queue) < QueueSize)
    <3>1. /\ hepPc' = [hepPc EXCEPT ![p] = "refused"] /\ dropped' = dropped + 1
          /\ UNCHANGED <<queue, stray>>
      BY <1>2, <2>2 DEF Hep!Enqueue
    <3>2. Cardinality(Given)' = Cardinality(Given) + 1
      BY <1>0, <1>2, <3>1, OneMoreGiven DEF Hep!Enqueue
    <3> QED
      BY <1>0, <1>2, <3>1, <3>2
         DEF Hep!Enqueue, HepTyped, HepCounted, HepHanded, HepClosing, InHand, Hep!Elements
  <2> QED
    BY <2>1, <2>2
\* The writer takes a packet; it drops what is left.
<1> DEFINE Takes == /\ queue # <<>> /\ hand' = Head(queue) /\ queue' = Tail(queue)
                    /\ wpc = "loop" /\ wpc' = "write"
                    /\ UNCHANGED <<hepPc, collector, closerPc, sent, dropped, writeErrs, encodeErrs, stray>>
           Stays == UNCHANGED <<hepPc, queue, hand, collector, closerPc, sent, writeErrs,
                                encodeErrs, stray>>
<1>3. ASSUME Takes PROVE Goal
  <2>1. hand = Hep!None /\ InHand = 0 /\ InHand' = 1
    BY <1>0, <1>c, <1>3, <1>e DEF HepHanded, InHand
  <2>2. HepTyped' /\ HepHanded' /\ HepClosing'
    BY <1>0, <1>c, <1>3, <1>e DEF HepTyped, HepHanded, HepClosing, Hep!WriterStates
  <2>3. HepCounted'
    BY <1>0, <1>3, <1>e, <1>s, <2>1 DEF HepTyped, HepCounted
  <2> QED
    BY <2>2, <2>3
<1> DEFINE Drops == /\ queue' = <<>> /\ dropped' = dropped + Len(queue)
                    /\ UNCHANGED <<hepPc, hand, collector, sent, writeErrs, encodeErrs, stray>>
<1>4. ASSUME Drops, HepHanded', closerPc' \in {"idle", "wait", "gaveUp", "rest", "conn"},
             wpc' \in Hep!WriterStates,
             closerPc' \in {"rest", "conn"} => wpc' = "done"
      PROVE  Goal
  <2>1. Len(queue) \in Nat /\ Len(queue') = 0 /\ queue' \in Seq(Packets) /\ Hep!Elements(queue') = {}
    BY <1>0, <1>4 DEF HepTyped, Hep!Elements
  <2>2. HepTyped' /\ HepClosing'
    BY <1>0, <1>c, <1>4, <2>1 DEF HepTyped, HepClosing
  <2>3. HepCounted'
    BY <1>0, <1>4, <1>s, <2>1 DEF HepTyped, HepCounted, InHand
  <2> QED
    BY <1>4, <2>2, <2>3
<1>5. ASSUME Hep!Take PROVE Goal
  <2>1. Takes
    BY <1>5 DEF Hep!Take
  <2> QED
    BY <1>3, <2>1
<1> HIDE DEF Takes, Drops
<1>6. ASSUME Hep!Drain PROVE Goal
  <2>1. CASE abort \/ (hepFailed /\ collector = "none")
    <3>1. Drops /\ wpc' = "exit" /\ UNCHANGED <<hand, closerPc>> /\ wpc = "loop"
      BY <1>6, <2>1 DEF Hep!Drain, Hep!DropRest, Drops
    <3> QED
      BY <1>0, <1>4, <3>1 DEF HepTyped, HepHanded, HepClosing, Hep!WriterStates
  <2>2. CASE ~(abort \/ (hepFailed /\ collector = "none")) /\ queue = <<>>
    <3>1. wpc = "loop" /\ wpc' = "exit" /\ Stays /\ dropped' = dropped
      BY <1>6, <2>2 DEF Hep!Drain
    <3> QED
      BY <1>0, <1>s, <3>1 DEF HepTyped, HepCounted, HepHanded, HepClosing, InHand, Hep!WriterStates
  <2>3. CASE ~(abort \/ (hepFailed /\ collector = "none")) /\ queue # <<>>
    <3>1. Takes
      BY <1>6, <2>3 DEF Hep!Drain, Takes
    <3> QED
      BY <1>3, <3>1
  <2> QED
    BY <2>1, <2>2, <2>3
<1>7. ASSUME Hep!Rest PROVE Goal
  <2>1. Drops /\ closerPc' = "conn" /\ wpc' = wpc /\ closerPc = "rest"
    BY <1>7 DEF Hep!Rest, Hep!DropRest, Drops
  <2> QED
    BY <1>0, <1>4, <2>1 DEF HepTyped, HepHanded, HepClosing, Drops
\* A packet leaves the writer's hand into one of the counters.
<1>8. ASSUME UNCHANGED <<hepPc, queue, closerPc, dropped, stray>>, hand # Hep!None,
             hand' = Hep!None, wpc' = "loop", collector' \in {collector, "none"},
             \/ sent' = sent + 1 /\ UNCHANGED <<writeErrs, encodeErrs>>
             \/ writeErrs' = writeErrs + 1 /\ UNCHANGED <<sent, encodeErrs>>
             \/ encodeErrs' = encodeErrs + 1 /\ UNCHANGED <<sent, writeErrs>>
      PROVE  Goal
  <2>1. HepTyped' /\ HepHanded' /\ HepClosing'
    BY <1>0, <1>8 DEF HepTyped, HepHanded, HepClosing, Hep!WriterStates
  <2>2. HepCounted'
    <3>1. Len(queue) \in Nat
      BY <1>0 DEF HepTyped
    <3> QED
      BY <1>0, <1>8, <1>s, <3>1 DEF HepTyped, HepCounted, InHand
  <2> QED
    BY <2>1, <2>2
\* Or the packet stays there.
<1>9. ASSUME UNCHANGED <<hepPc, queue, hand, sent, dropped, writeErrs, encodeErrs, stray>>,
             HepHanded', wpc' \in Hep!WriterStates, collector' \in {"none", "open", "dead"},
             closerPc' \in {"idle", "wait", "gaveUp", "rest", "conn", "returned"}, HepClosing'
      PROVE  Goal
  <2>1. HepTyped'
    BY <1>0, <1>9 DEF HepTyped
  <2>2. HepCounted'
    BY <1>0, <1>9, <1>s DEF HepCounted, InHand
  <2> QED
    BY <1>9, <2>1, <2>2
<1>10. ASSUME Hep!Write PROVE Goal
  <2>1. CASE encodeErrs' = encodeErrs + 1
    BY <1>0, <1>8, <1>10, <2>1 DEF Hep!Write, HepHanded, HepTyped
  <2>2. CASE ~(encodeErrs' = encodeErrs + 1)
    <3>1. /\ UNCHANGED <<hepPc, queue, hand, sent, dropped, writeErrs, encodeErrs, stray, collector, closerPc>>
          /\ wpc = "write" /\ wpc' \in {"dial", "send"}
      BY <1>10, <2>2 DEF Hep!Write
    <3> QED
      BY <1>0, <1>9, <3>1 DEF HepTyped, HepHanded, HepClosing, Hep!WriterStates
  <2> QED
    BY <2>1, <2>2
<1>11. ASSUME Hep!Dial \/ Hep!Store PROVE Goal
  <2>1. wpc \in {"dial", "dialed"} /\ hand # Hep!None /\ closerPc \notin {"rest", "conn", "returned"}
    BY <1>0, <1>11 DEF Hep!Dial, Hep!Store, HepHanded, HepClosing
  <2>2. UNCHANGED <<hepPc, queue, closerPc, sent, dropped, encodeErrs, stray>>
    BY <1>11 DEF Hep!Dial, Hep!Store
  <2>3. CASE Hep!Fail
    BY <1>8, <1>11, <2>1, <2>2, <2>3 DEF Hep!Dial, Hep!Store, Hep!Fail
  <2>4. CASE ~Hep!Fail
    <3>1. UNCHANGED <<hand, writeErrs>> /\ wpc' \in {"dialed", "send"} /\ collector' \in {collector, "open"}
      BY <1>11, <2>4 DEF Hep!Dial, Hep!Store
    <3> QED
      BY <1>0, <1>9, <2>1, <2>2, <3>1 DEF HepTyped, HepHanded, HepClosing, Hep!WriterStates
  <2> QED
    BY <2>3, <2>4
<1>12. ASSUME Hep!Send PROVE Goal
  <2>1. hand # Hep!None /\ UNCHANGED <<hepPc, queue, closerPc, dropped, encodeErrs, stray>>
    BY <1>0, <1>12 DEF Hep!Send, HepHanded
  <2>2. /\ hand' = Hep!None /\ wpc' = "loop" /\ collector' \in {collector, "none"}
        /\ \/ sent' = sent + 1 /\ UNCHANGED writeErrs
           \/ writeErrs' = writeErrs + 1 /\ UNCHANGED sent
    BY <1>12 DEF Hep!Send, Hep!Fail
  <2> QED
    BY <1>8, <2>1, <2>2
<1>13. ASSUME Hep!StopSeen \/ Hep!Exit \/ Hep!BackedOff \/ Hep!PeerClose PROVE Goal
  <2>1. UNCHANGED <<hepPc, queue, hand, sent, dropped, writeErrs, encodeErrs, stray, closerPc>>
    BY <1>13 DEF Hep!StopSeen, Hep!Exit, Hep!BackedOff, Hep!PeerClose
  <2>2. wpc' = wpc \/ (wpc = "exit" /\ wpc' = "done")
    BY <1>13 DEF Hep!StopSeen, Hep!Exit, Hep!BackedOff, Hep!PeerClose
  <2>3. collector' = collector \/ (collector = "open" /\ collector' = "dead")
    BY <1>13 DEF Hep!StopSeen, Hep!Exit, Hep!BackedOff, Hep!PeerClose
  <2> QED
    BY <1>0, <1>9, <2>1, <2>2, <2>3 DEF HepTyped, HepHanded, HepClosing, Hep!WriterStates
<1>14. ASSUME Hep!Close \/ Hep!GiveUp \/ Hep!WriterDone \/ Hep!CloseConn \/ UNCHANGED Hep!vars PROVE Goal
  <2>1. UNCHANGED <<hepPc, queue, hand, sent, dropped, writeErrs, encodeErrs, stray, wpc>>
    BY <1>14 DEF Hep!Close, Hep!GiveUp, Hep!WriterDone, Hep!CloseConn, Hep!vars
  <2>2. /\ collector' \in {collector, "none"}
        /\ \/ closerPc' = closerPc
           \/ closerPc' \in {"wait", "gaveUp"}
           \/ closerPc' = "rest" /\ wpc = "done"
           \/ closerPc = "conn" /\ closerPc' = "returned" /\ collector' = "none"
    BY <1>14 DEF Hep!Close, Hep!GiveUp, Hep!WriterDone, Hep!CloseConn, Hep!vars
  <2> QED
    BY <1>0, <1>9, <2>1, <2>2 DEF HepTyped, HepHanded, HepClosing
<1> QED
  BY <1>1, <1>2, <1>5, <1>6, <1>7, <1>10, <1>11, <1>12, <1>13, <1>14
     DEF Hep!Next, Hep!Writer, Hep!Closer

LEMMA HepGives == ASSUME HepInv PROVE Hep!TypeOK /\ Hep!PacketsCounted
<1>0. HepTyped /\ HepFlags /\ HepCounted /\ HepHanded /\ HepClosing
  BY DEF HepInv
<1>1. Hep!PacketsCounted
  <2>1. Hep!Cardinality({p \in Packets : hepPc[p] \in {"queued", "refused"}}) = Cardinality(Given)
    BY SameHepCard DEF Given
  <2> QED
    BY <1>0, <2>1 DEF Hep!PacketsCounted, HepCounted, HepClosing, HepHanded, InHand
<1>2. {sent, dropped, writeErrs, encodeErrs} \subseteq 0..Hep!Cardinality(Packets)
  <2>1. Cardinality(Given) <= Cardinality(Packets) /\ Cardinality(Packets) \in Nat /\ Cardinality(Given) \in Nat
    BY GivenCounted, HepConstants, FS_CardinalityType
  <2>2. Len(queue) \in Nat /\ InHand \in Nat
    BY <1>0 DEF HepTyped, InHand
  <2> QED
    BY <1>0, <2>1, <2>2, SameHepCard DEF HepTyped, HepCounted
<1>3. {hepClosed, stop, abort, draining, hepFailed, backing} \subseteq BOOLEAN
  BY <1>0, Zenon DEF HepFlags
<1> QED
  BY <1>0, <1>1, <1>2, <1>3 DEF HepTyped, Hep!TypeOK

LEMMA HepStarts == ASSUME Hep!Init PROVE HepInv
<1>1. HepFlags
  BY Zenon DEF Hep!Init, HepFlags
<1>2. HepTyped /\ HepHanded /\ HepClosing
  BY HepConstants DEF Hep!Init, HepTyped, HepHanded, HepClosing, Hep!WriterStates, Hep!Elements
<1>3. HepCounted
  <2>1. Given = {}
    BY DEF Hep!Init, Given
  <2> QED
    BY <2>1, FS_EmptySet DEF Hep!Init, HepCounted, InHand
<1> QED
  BY <1>1, <1>2, <1>3 DEF HepInv

----------------------------------------------------------------------------
(* What the services promise together.                                     *)

\* No final response is relayed before a provisional that preceded it on the
\* wire, none twice and nothing after it (observe, before, pumpInvite), for
\* any responses provCap has room for; every packet given to the mirror is
\* sent, queued or counted as lost (Sender), for any queue and any packets.
THEOREM NothingLost == Replay!Spec /\ Hep!Spec => []NothingLostOnTheWay
<1>1. (Replay!Init => ReplayInv) /\ (Hep!Init => HepInv)
  BY ReplayStarts, HepStarts
<1>2. ReplayInv /\ [Replay!Next]_(Replay!vars) => ReplayInv'
  BY ReplayStep, WireFlagsKept DEF ReplayInv, ReplayRest
<1>3. HepInv /\ [Hep!Next]_(Hep!vars) => HepInv'
  BY HepStep, HepFlagsKept DEF HepInv, HepRest
<1>4. ReplayInv /\ HepInv => NothingLostOnTheWay
  BY ReplayGives, HepGives DEF NothingLostOnTheWay
<1> QED
  BY <1>1, <1>2, <1>3, <1>4, PTL DEF Replay!Spec, Hep!Spec

\* What was found out is kept until it is due: a lock of an AoR that a step
\* takes away was over, cleared by a registration, or dropped from a table
\* that showed only locks (strike, clear, prune); a locked-out source leaves
\* the full table only when every entry is locked out (evictLocked); and a
\* carrier with a published address keeps one (apply, publish).
THEOREM FoundOutIsKept == Aors!Spec /\ Admin!Spec /\ Directory!Spec => KeptUntilDue
<1>1. (Aors!Init => AorInv) /\ (Admin!Init => AdmSafe)
  BY AorStarts, AdmStarts
<1>2. Directory!Init => DirInv /\ StillKnown
  <2>1. Directory!Init => DirInv
    BY DirStarts
  <2>2. Directory!Init => StillKnown
    BY DEF Directory!Init, StillKnown
  <2> QED
    BY <2>1, <2>2
<1>3. /\ AorInv /\ [Aors!Next]_(Aors!vars) => AorInv'
      /\ AdmSafe /\ [Admin!Next]_(Admin!vars) => AdmSafe'
      /\ DirInv /\ StillKnown /\ [Directory!Next]_(Directory!vars) => DirInv' /\ StillKnown'
  BY AorStep, AdmCoreStep, SessionsStep, DirStep, StillKnownKept DEF AdmSafe
<1>4. AorInv /\ [Aors!Next]_(Aors!vars) =>
         [\A a \in AorNames : Aors!Locked(a) /\ ~(Aors!Locked(a))' =>
             \/ now' >= entries[a].locked
             \/ Aors!Clear(a)
             \/ \A x \in Aors!NearBack : Aors!LockedAt(entries[x])]_(Aors!vars)
  BY LocksStep
<1>5. AdmSafe /\ [Admin!Next]_(Admin!vars) =>
         [\A s \in DOMAIN budgets :
             Admin!Over(budgets, s) /\ s \notin DOMAIN budgets' =>
                \A x \in DOMAIN budgets : Admin!Open(budgets, x) => Admin!Over(budgets, x)]_(Admin!vars)
  BY LockoutStep
<1>6. DirInv /\ StillKnown /\ [Directory!Next]_(Directory!vars) =>
         [\A k \in Trunks : dirSnap[k] # {} => dirSnap'[k] # {}]_(Directory!vars)
  BY ResolvedStep
<1>7. Aors!Spec => Aors!LocksKept
  BY <1>1, <1>3, <1>4, PTL DEF Aors!Spec, Aors!LocksKept
<1>8. Admin!Spec => Admin!LockoutsKept
  BY <1>1, <1>3, <1>5, PTL DEF Admin!Spec, Admin!LockoutsKept
<1>9. Directory!Spec => Directory!StaysResolved
  BY <1>2, <1>3, <1>6, PTL DEF Directory!Spec, Directory!StaysResolved
<1> QED
  BY <1>7, <1>8, <1>9, PTL DEF KeptUntilDue

\* Nobody is throttled, locked out, banned or refused for what they did not
\* do: a token bucket that was pruned or evicted has forgotten no debt but
\* for requests it let through in excess, a vouched socket keeps its rate
\* (take, prune, AllowRate), an AoR is locked for more than the threshold of
\* failures within a window (strike), an honest host is struck and banned by
\* address only for what it sent itself, a REGISTER sent again or a call after
\* its registration, and a refused credential is one strike until the guard
\* forgets it (StrikeOn, regGuard), and a login budget is charged exactly its guesses
\* (auth.go). For any rate and interval, tables, thresholds, hosts and logins.
THEOREM ThrottlingIsFair ==
    Rates!Spec /\ Aors!Spec /\ Door!Spec /\ Admin!Spec => []ThrottledFairly
<1>1. /\ Rates!Init => RatesInv
      /\ Aors!Init => AorInv
      /\ Door!Init => DoorInv
      /\ Admin!Init => AdmSafe
  BY RatesStart, AorStarts, DoorStarts, AdmStarts
<1>2. /\ RatesInv /\ [Rates!Next]_(Rates!vars) => RatesInv'
      /\ AorInv /\ [Aors!Next]_(Aors!vars) => AorInv'
      /\ DoorInv /\ [Door!Next]_(Door!vars) => DoorInv'
      /\ AdmSafe /\ [Admin!Next]_(Admin!vars) => AdmSafe'
  BY RatesStep, AorStep, DoorStep, AdmCoreStep, SessionsStep DEF AdmSafe
<1>3. RatesInv /\ AorInv /\ DoorInv /\ AdmSafe => ThrottledFairly
  BY RatesGive, AorGives, DoorGives, AdmGives DEF ThrottledFairly
<1> QED
  BY <1>1, <1>2, <1>3, PTL DEF Rates!Spec, Aors!Spec, Door!Spec, Admin!Spec
============================================================================
