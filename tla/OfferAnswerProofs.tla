------------------------- MODULE OfferAnswerProofs -------------------------
(***************************************************************************)
(* Proofs about OfferAnswer: crossing offers point the media one at a time *)
(* whatever the ends send, and, when only one end sends offerless          *)
(* re-INVITEs, the slots are counted exactly, the media goes where the two *)
(* ends agree, and only a 2xx nobody waited for leaves them apart.         *)
(***************************************************************************)
EXTENDS OfferAnswer, FiniteSetTheorems, TLAPS

----------------------------------------------------------------------------
(* The inductive invariant.                                                *)

Offerless(r) == Kind(r) = "offerless"

\* Handler points before the requester is answered, before the request is
\* forwarded, while the answer is pointed at, and after FreeSBC gave up or is
\* through with the request.
Unanswered == {"idle", "begin", "build", "wait", "early", "apply", "applyOther",
               "relay", "refuse", "relayOffer"}
Unsent == {"idle", "begin", "build"}
Pointing == {"apply", "applyOther", "relay"}
Waiting == {"wait", "early"}
Late == {"linger", "release", "done"}

\* What a handler's program point says of its request.
PhaseOf(r) ==
    /\ final[r] = "none" <=> pc[r] \in Unanswered
    /\ pc[r] \in Unsent => far[r] = "none"
    /\ far[r] = "none" =>
         resp[r] = "none" /\ pc[r] \notin Waiting \cup Pointing \cup {"refuse", "relayOffer"}
    /\ far[r] = "open" => resp[r] \in {"none", "18x"} /\ pc[r] \in Waiting \cup Late
    /\ pc[r] \in Waiting /\ resp[r] \in {"none", "18x"} => far[r] = "open"
    /\ pc[r] \in {"early"} \cup Pointing \/ resp[r] = "18x" => ~Offerless(r)
    /\ pc[r] \in Pointing => resp[r] = "none" /\ far[r] = "closed"
    /\ final[r] = "ok" =>
         ~Offerless(r) /\ pc[r] \in {"release", "done"} /\ resp[r] = "none" /\ far[r] = "closed"
    /\ pc[r] \in {"relayOffer", "arm"} => Offerless(r)
    /\ far[r] = "offered" => Offerless(r)

\* What is known of an offerless request while its answer is owed or taken.
OwedOf(r) ==
    /\ final[r] = "offer" =>
         Offerless(r) /\ pc[r] \in {"arm", "done"} /\ ack[r] = "none" /\ far[r] = "offered"
    /\ ack[r] # "none" => Offerless(r) /\ pc[r] \in {"arm", "done"} /\ final[r] = "read"
    /\ owed = r =>
         /\ Offerless(r) /\ pc[r] \in {"relayOffer", "arm", "done"}
         /\ ack[r] \in {"none", "sent", "done"} /\ far[r] = "offered"
    /\ ack[r] \in {"sent"} \cup Taking => far[r] = "offered"
    /\ Offerless(r) /\ pc[r] = "wait" /\ resp[r] = "2xx" => far[r] = "offered"
    /\ pc[r] = "relayOffer" => far[r] = "offered"

PhaseInv == \A r \in Requests : PhaseOf(r) /\ OwedOf(r)

\* The rules the ends follow: one unread request each, no request with an
\* offer beside an offer of one's own, one offer of one's own.
Unread(r) == pc[r] # "idle" /\ final[r] # "read"
OneUnread == \A r, q \in Requests :
    From(r) = From(q) /\ Unread(r) /\ Unread(q) => r = q
OffererIdle == \A r, q \in Requests :
    far[r] = "offered" /\ ~Offerless(q) /\ From(q) = To(r) => ~Unread(q)
OneOffered == \A r, q \in Requests :
    far[r] = "offered" /\ far[q] = "offered" /\ To(r) = To(q) => r = q
AskInv == OneUnread /\ OffererIdle /\ OneOffered

\* The far end accepted the offer, and the requester has not read so.
Committed(r) ==
    /\ ~Offerless(r)
    /\ (pc[r] \in Waiting /\ resp[r] = "2xx") \/ pc[r] \in Pointing \/ final[r] = "ok"
\* The far end made its offer and nobody gave up on the answer.
Offered(r) ==
    /\ Offerless(r)
    /\ (pc[r] = "wait" /\ resp[r] = "2xx") \/ owed = r \/ ack[r] \in Taking

\* No two exchanges are that far at a time; ackMu serialises the ACKs.
OneCommitted == \A r, q \in Requests : Committed(r) /\ Committed(q) => r = q
CommittedAlone == \A r, q \in Requests : ~(Committed(r) /\ Offered(q))
AckMuHeld(r) == ack[r] \in Taking \cup {"end"}
OneAck == \A r, q \in Requests : AckMuHeld(r) /\ AckMuHeld(q) => r = q
ExclInv == OneCommitted /\ CommittedAlone /\ OneAck

\* The requests that hold a slot of each kind.
Holds(r) == IF Kind(r) = "update" THEN pc[r] \in Holding ELSE HoldsReInvite(r)
Holders(n) == {r \in Requests : Slot(r) = n /\ Holds(r)}
SlotNames == {"reInvite", "update"}
SlotBound == \A n \in SlotNames : slots[n] >= Cardinality(Holders(n))

CoreInv == TypeOK /\ PhaseInv /\ AskInv /\ ExclInv /\ SlotBound

----------------------------------------------------------------------------
(* What one step changes.                                                  *)

\* A step of request p: its two ends, its handler, its ACK, its backstop.
StepOf(p) ==
    \/ Send(p) \/ Respond(p) \/ Read(p) \/ Handle(p) \/ HandleAck(p)
    \/ FireOwed(p) \/ OwedExpired(p)

SameAt(r) ==
    /\ pc'[r] = pc[r] /\ ack'[r] = ack[r] /\ far'[r] = far[r]
    /\ resp'[r] = resp[r] /\ final'[r] = final[r]

\* Every step but a hangup is one of a request.
LEMMA NextSteps ==
    ASSUME Next
    PROVE  Hangup \/ \E p \in Requests : StepOf(p)
BY DEF Next, StepOf

\* A step of p leaves every other request where it is.
LEMMA OthersStay ==
    ASSUME ConstantsOK, TypeOK, NEW p \in Requests, StepOf(p), NEW r \in Requests, r # p
    PROVE  SameAt(r) /\ (owed' = r => owed = r)
<1> r # "none"
  BY DEF ConstantsOK
<1>1. CASE Send(p) \/ Respond(p) \/ Read(p)
  BY <1>1 DEF Send, Respond, Read, TypeOK, SameAt, Goto, AckGoto, Answer, dialog, ends, session
<1>2. CASE Handle(p)
  <2>1. CASE Begin(p) \/ Forward(p) \/ Apply(p) \/ Relay(p) \/ Refuse2xx(p) \/ Lingered(p) \/ Release(p)
    BY <2>1 DEF Begin, Forward, Apply, Relay, Refuse2xx, Lingered, Release, Ended,
         TypeOK, SameAt, Goto, Answer, dialog, ends, session
  <2>2. CASE Provisional(p) \/ Accepted(p) \/ Unmoved(p) \/ NoFinal(p)
    BY <2>2 DEF Provisional, Accepted, Unmoved, NoFinal, Rebuild,
         TypeOK, SameAt, Goto, Answer, dialog, ends, session
  <2>3. CASE Owe(p) \/ RelayOffer(p) \/ Arm(p)
    BY <2>3 DEF Owe, RelayOffer, Arm, TypeOK, SameAt, Goto, Answer, dialog, ends, session
  <2> QED
    BY <1>2, <2>1, <2>2, <2>3 DEF Handle
<1>3. CASE HandleAck(p)
  BY <1>3 DEF HandleAck, TakeOwed, AnswerFromACK, ApplyOwed, Finish, EndUnusable, Ended,
       TypeOK, SameAt, AckGoto, dialog, ends, session
<1>4. CASE FireOwed(p) \/ OwedExpired(p)
  BY <1>4 DEF FireOwed, OwedExpired, Ended, TypeOK, SameAt, dialog, ends, session
<1> QED
  BY <1>1, <1>2, <1>3, <1>4 DEF StepOf

\* A hangup leaves every request where it is and owes no answer.
LEMMA HangupStays ==
    ASSUME Hangup
    PROVE  /\ UNCHANGED <<pc, ack, timer, slots, media, keys, view, far, resp, final>>
           /\ ~up' /\ owed' = "none"
BY DEF Hangup, Ended, session, ends

\* Types, but for the counters.
Typed ==
    /\ pc \in [Requests -> {"idle", "begin", "relayOffer", "arm", "done"} \cup Holding]
    /\ ack \in [Requests -> {"none", "sent", "end", "done"} \cup Taking]
    /\ timer \in [Requests -> {"off", "armed", "fired", "end"}]
    /\ owed \in Requests \cup {"none"}
    /\ up \in BOOLEAN
    /\ media \in [Sides -> Exchanges] /\ keys \in Exchanges
    /\ view \in [Sides -> Exchanges]
    /\ far \in [Requests -> {"none", "open", "offered", "closed"}]
    /\ resp \in [Requests -> {"none", "18x", "2xx", "bare", "fail"}]
    /\ final \in [Requests -> {"none", "ok", "offer", "refused", "read"}]

\* The two ends of a request are the two sides.
LEMMA TwoSides ==
    ASSUME ConstantsOK, NEW r \in Requests
    PROVE  /\ From(r) \in Sides /\ To(r) \in Sides /\ From(r) # To(r)
           /\ r \in Exchanges
           /\ \A s \in Sides : s = From(r) \/ s = To(r)
BY DEF ConstantsOK, To, Other, Sides, Exchanges

\* Every step keeps the types of everything but the counters.
LEMMA TypedStep ==
    ASSUME ConstantsOK, Typed, NEW p \in Requests, StepOf(p)
    PROVE  Typed'
<1> /\ From(p) \in Sides /\ To(p) \in Sides /\ p \in Exchanges
  BY TwoSides
<1>1. CASE Send(p)
  BY <1>1 DEF Send, Typed, Goto, dialog, ends, session
<1>2. CASE Respond(p)
  BY <1>2 DEF Respond, Typed, dialog, ends, session
<1>3. CASE Read(p)
  BY <1>3 DEF Read, Typed, AckGoto, Answer, dialog, ends, session
<1>4. CASE Handle(p)
  <2>1. CASE Begin(p) \/ Forward(p) \/ Relay(p) \/ Lingered(p) \/ Release(p)
    BY <2>1 DEF Begin, Forward, Relay, Lingered, Release,
         Typed, Goto, Answer, dialog, ends, session, Holding
  <2>2. CASE Apply(p)
    BY <2>2 DEF Apply, Typed, Goto, dialog, ends, session, Holding
  <2>3. CASE Refuse2xx(p)
    BY <2>3 DEF Refuse2xx, Ended, Typed, Goto, Answer, dialog, ends, session, Holding
  <2>4. CASE Provisional(p) \/ Accepted(p) \/ Unmoved(p) \/ NoFinal(p)
    BY <2>4 DEF Provisional, Accepted, Unmoved, NoFinal, Rebuild,
         Typed, Goto, Answer, dialog, ends, session, Holding
  <2>5. CASE Owe(p) \/ RelayOffer(p) \/ Arm(p)
    BY <2>5 DEF Owe, RelayOffer, Arm, Typed, Goto, Answer, dialog, ends, session, Holding
  <2> QED
    BY <1>4, <2>1, <2>2, <2>3, <2>4, <2>5 DEF Handle
<1>5. CASE HandleAck(p)
  <2>1. CASE TakeOwed(p) \/ EndUnusable(p)
    BY <2>1 DEF TakeOwed, EndUnusable, Ended, Typed, AckGoto, dialog, ends, session, Taking
  <2>3. CASE AnswerFromACK(p)
    BY <2>3 DEF AnswerFromACK, Typed, AckGoto, dialog, ends, session, Taking
  <2>4. CASE ApplyOwed(p)
    BY <2>4 DEF ApplyOwed, Typed, AckGoto, dialog, ends, session, Taking
  <2>2. CASE Finish(p)
    BY <2>2 DEF Finish, StopTimer, Typed, AckGoto, dialog, ends, session, Taking
  <2> QED
    BY <1>5, <2>1, <2>2, <2>3, <2>4 DEF HandleAck
<1>6. CASE FireOwed(p) \/ OwedExpired(p)
  BY <1>6 DEF FireOwed, OwedExpired, Ended, Typed, dialog, ends, session
<1> QED
  BY <1>1, <1>2, <1>3, <1>4, <1>5, <1>6 DEF StepOf

\* A step of p keeps what is known of p.
LEMMA OwnPhase ==
    ASSUME ConstantsOK, Typed, NEW p \in Requests, StepOf(p), PhaseOf(p), OwedOf(p)
    PROVE  PhaseOf(p)' /\ OwedOf(p)'
<1> USE DEF Unanswered, Unsent, Pointing, Waiting, Late, Taking, Offerless
<1>0. p # "none" /\ (p \in EarlyAnswers => Kind(p) = "reinvite")
  BY DEF ConstantsOK
<1>1. CASE Send(p)
  BY <1>0, <1>1 DEF Send, At, Typed, Goto, dialog, ends, session, PhaseOf, OwedOf
<1>2. CASE Respond(p)
  BY <1>0, <1>2 DEF Respond, At, Typed, dialog, ends, session, PhaseOf, OwedOf
<1>3. CASE Read(p)
  BY <1>0, <1>3 DEF Read, Typed, AckGoto, Answer, dialog, ends, session, PhaseOf, OwedOf
<1>4. CASE Handle(p)
  <2>1. CASE Begin(p) \/ Forward(p) \/ Relay(p) \/ Lingered(p) \/ Release(p)
    BY <1>0, <2>1 DEF Begin, Forward, Relay, Lingered, Release,
         At, Typed, Goto, Answer, dialog, ends, session, PhaseOf, OwedOf
  <2>2. CASE Apply(p) \/ Refuse2xx(p)
    BY <1>0, <2>2 DEF Apply, Refuse2xx, Ended, At, Typed, Goto, Answer, dialog, ends, session,
         PhaseOf, OwedOf
  <2>3. CASE Provisional(p)
    BY <1>0, <2>3 DEF Provisional, Rebuild, At, Typed, Goto, Answer, dialog, ends, session,
         PhaseOf, OwedOf
  <2>4. CASE Accepted(p)
    BY <1>0, <2>4 DEF Accepted, Rebuild, At, Typed, Goto, Answer, dialog, ends, session,
         PhaseOf, OwedOf
  <2>5. CASE Unmoved(p) \/ NoFinal(p)
    BY <1>0, <2>5 DEF Unmoved, NoFinal, At, Typed, Goto, Answer, dialog, ends, session,
         PhaseOf, OwedOf
  <2>6. CASE Owe(p) \/ RelayOffer(p) \/ Arm(p)
    BY <1>0, <2>6 DEF Owe, RelayOffer, Arm, At, Typed, Goto, Answer, dialog, ends, session,
         PhaseOf, OwedOf
  <2> QED
    BY <1>4, <2>1, <2>2, <2>3, <2>4, <2>5, <2>6 DEF Handle
<1>5. CASE HandleAck(p)
  <2>1. CASE TakeOwed(p)
    BY <1>0, <2>1 DEF TakeOwed, AckAt, Typed, AckGoto, dialog, ends, session, PhaseOf, OwedOf
  <2>2. CASE AnswerFromACK(p) \/ ApplyOwed(p) \/ EndUnusable(p)
    BY <1>0, <2>2 DEF AnswerFromACK, ApplyOwed, EndUnusable, Ended, AckAt,
         Typed, AckGoto, dialog, ends, session, PhaseOf, OwedOf
  <2>3. CASE Finish(p)
    BY <1>0, <2>3 DEF Finish, AckAt, Typed, AckGoto, dialog, ends, session, PhaseOf, OwedOf
  <2> QED
    BY <1>5, <2>1, <2>2, <2>3 DEF HandleAck
<1>6. CASE FireOwed(p) \/ OwedExpired(p)
  BY <1>0, <1>6 DEF FireOwed, OwedExpired, Ended, Typed, dialog, ends, session, PhaseOf, OwedOf
<1> QED
  BY <1>1, <1>2, <1>3, <1>4, <1>5, <1>6 DEF StepOf

\* So every step keeps what is known of every request.
LEMMA PhaseStep ==
    ASSUME ConstantsOK, TypeOK, NEW p \in Requests, StepOf(p), PhaseInv
    PROVE  PhaseInv'
<1> SUFFICES ASSUME NEW r \in Requests PROVE PhaseOf(r)' /\ OwedOf(r)'
  BY DEF PhaseInv
<1>0. PhaseOf(r) /\ OwedOf(r)
  BY DEF PhaseInv
<1>1. CASE r = p
  BY <1>0, <1>1, OwnPhase DEF TypeOK, Typed
<1>2. CASE r # p
  <2>1. SameAt(r) /\ (owed' = r => owed = r)
    BY <1>2, OthersStay
  <2> QED
    BY <1>0, <2>1 DEF SameAt, PhaseOf, OwedOf
<1> QED
  BY <1>1, <1>2

----------------------------------------------------------------------------
(* How a request gets where it excludes others.                            *)

\* An accepting answer to request p is on its way: its end was free to give it.
Accepts(p) == Respond(p) /\ ~Asking(To(p)) /\ UNCHANGED pc /\ far[p] = "open"

\* A request becomes unread by being sent, an end an offerer by answering an
\* offerless request, an exchange committed or offered by the far end's 2xx to
\* a handler that waits, and an ACK handler holds ackMu by taking it.
LEMMA Entries ==
    ASSUME ConstantsOK, Typed, NEW p \in Requests, StepOf(p), PhaseOf(p), OwedOf(p)
    PROVE  /\ Unread(p)' => Unread(p) \/ Send(p)
           /\ far'[p] = "offered" => far[p] = "offered" \/ (Accepts(p) /\ Offerless(p))
           /\ Committed(p)' => Committed(p) \/ (Accepts(p) /\ Unread(p))
           /\ Offered(p)' => Offered(p) \/ (Accepts(p) /\ Unread(p))
           /\ AckMuHeld(p)' => AckMuHeld(p) \/ AckMuFree
<1> USE DEF Unanswered, Unsent, Pointing, Waiting, Late, Taking, Offerless, Unread, Committed,
            Offered, AckMuHeld, Accepts
<1>0. p # "none" /\ (p \in EarlyAnswers => Kind(p) = "reinvite")
  BY DEF ConstantsOK
<1>1. CASE Send(p)
  BY <1>0, <1>1 DEF Send, At, Typed, Goto, dialog, ends, session, PhaseOf, OwedOf
<1>2. CASE Respond(p)
  BY <1>0, <1>2 DEF Respond, At, Typed, dialog, ends, session, PhaseOf, OwedOf
<1>3. CASE Read(p)
  BY <1>0, <1>3 DEF Read, Typed, AckGoto, Answer, dialog, ends, session, PhaseOf, OwedOf
<1>4. CASE Handle(p)
  <2>1. CASE Begin(p) \/ Forward(p) \/ Relay(p) \/ Lingered(p) \/ Release(p)
    BY <1>0, <2>1 DEF Begin, Forward, Relay, Lingered, Release,
         At, Typed, Goto, Answer, dialog, ends, session, PhaseOf, OwedOf
  <2>2. CASE Apply(p) \/ Refuse2xx(p)
    BY <1>0, <2>2 DEF Apply, Refuse2xx, Ended, At, Typed, Goto, Answer, dialog, ends, session,
         PhaseOf, OwedOf
  <2>3. CASE Provisional(p) \/ Accepted(p)
    BY <1>0, <2>3 DEF Provisional, Accepted, Rebuild, At, Typed, Goto, Answer, dialog, ends,
         session, PhaseOf, OwedOf
  <2>5. CASE Unmoved(p) \/ NoFinal(p)
    BY <1>0, <2>5 DEF Unmoved, NoFinal, At, Typed, Goto, Answer, dialog, ends, session,
         PhaseOf, OwedOf
  <2>6. CASE Owe(p) \/ RelayOffer(p) \/ Arm(p)
    BY <1>0, <2>6 DEF Owe, RelayOffer, Arm, At, Typed, Goto, Answer, dialog, ends, session,
         PhaseOf, OwedOf
  <2> QED
    BY <1>4, <2>1, <2>2, <2>3, <2>5, <2>6 DEF Handle
<1>5. CASE HandleAck(p)
  <2>1. CASE TakeOwed(p)
    BY <1>0, <2>1 DEF TakeOwed, AckAt, Typed, AckGoto, dialog, ends, session, PhaseOf, OwedOf
  <2>2. CASE AnswerFromACK(p) \/ ApplyOwed(p) \/ EndUnusable(p)
    BY <1>0, <2>2 DEF AnswerFromACK, ApplyOwed, EndUnusable, Ended, AckAt,
         Typed, AckGoto, dialog, ends, session, PhaseOf, OwedOf
  <2>3. CASE Finish(p)
    BY <1>0, <2>3 DEF Finish, AckAt, Typed, AckGoto, dialog, ends, session, PhaseOf, OwedOf
  <2> QED
    BY <1>5, <2>1, <2>2, <2>3 DEF HandleAck
<1>6. CASE FireOwed(p) \/ OwedExpired(p)
  BY <1>0, <1>6 DEF FireOwed, OwedExpired, Ended, Typed, dialog, ends, session, PhaseOf, OwedOf
<1> QED
  BY <1>1, <1>2, <1>3, <1>4, <1>5, <1>6 DEF StepOf

\* Where a request that is that far stands with its two ends.
LEMMA Standing ==
    ASSUME NEW r \in Requests, PhaseOf(r), OwedOf(r)
    PROVE  /\ Committed(r) => Unread(r) /\ ~Offerless(r)
           /\ Offered(r) => far[r] = "offered"
           /\ far[r] = "offered" => Offerless(r)
BY DEF Committed, Offered, Unread, PhaseOf, OwedOf, Unanswered, Unsent, Pointing, Waiting, Taking,
       Offerless

\* Other requests do not change their standing in a step of p.
LEMMA OthersStand ==
    ASSUME ConstantsOK, TypeOK, NEW p \in Requests, StepOf(p), NEW r \in Requests, r # p
    PROVE  /\ Unread(r)' = Unread(r) /\ far'[r] = far[r] /\ Committed(r)' = Committed(r)
           /\ Offered(r)' => Offered(r)
           /\ AckMuHeld(r)' = AckMuHeld(r)
<1>1. SameAt(r) /\ (owed' = r => owed = r)
  BY OthersStay
<1> QED
  BY <1>1 DEF SameAt, Unread, Committed, Offered, AckMuHeld

\* Who is free to accept has no unread request and no offer of his own out.
LEMMA FreeToAccept ==
    ASSUME NEW p \in Requests, Accepts(p), NEW r \in Requests
    PROVE  /\ From(r) = To(p) => ~Unread(r)
           /\ To(r) = To(p) => far[r] # "offered"
BY DEF Accepts, Asking, Unread

\* Who sends has read all his finals; an offer needs no offer of his own out.
LEMMA FreeToSend ==
    ASSUME NEW p \in Requests, Send(p), NEW r \in Requests
    PROVE  /\ From(r) = From(p) => ~Unread(r)
           /\ ~Offerless(p) /\ To(r) = From(p) => far[r] # "offered"
           /\ UNCHANGED far
BY DEF Send, SendsNow, Asking, Unread, Offerless, ends

\* The ends keep their rules.
LEMMA AskStep ==
    ASSUME ConstantsOK, TypeOK, NEW p \in Requests, StepOf(p), PhaseInv, AskInv
    PROVE  AskInv'
<1> Typed /\ PhaseOf(p) /\ OwedOf(p)
  BY DEF TypeOK, Typed, PhaseInv
<1>0. /\ Unread(p)' => Unread(p) \/ Send(p)
      /\ far'[p] = "offered" => far[p] = "offered" \/ (Accepts(p) /\ Offerless(p))
  BY Entries
<1>1. OneUnread'
  <2> SUFFICES ASSUME NEW r \in Requests, NEW q \in Requests,
                      From(r) = From(q), Unread(r)', Unread(q)', r # q
               PROVE  FALSE
    BY DEF OneUnread
  <2>1. \A x \in Requests \ {p} : Unread(x)' = Unread(x)
    BY OthersStand
  <2>2. CASE Send(p)
    BY <2>1, <2>2, FreeToSend DEF AskInv, OneUnread
  <2>3. CASE ~Send(p)
    BY <1>0, <2>1, <2>3 DEF AskInv, OneUnread
  <2> QED
    BY <2>2, <2>3
<1>2. OffererIdle'
  <2> SUFFICES ASSUME NEW r \in Requests, NEW q \in Requests,
                      far'[r] = "offered", ~Offerless(q), From(q) = To(r), Unread(q)'
               PROVE  FALSE
    BY DEF OffererIdle, Offerless
  <2>1. \A x \in Requests \ {p} : Unread(x)' = Unread(x) /\ far'[x] = far[x]
    BY OthersStand
  <2>2. ~(far[r] = "offered" /\ Unread(q))
    BY DEF AskInv, OffererIdle
  <2>3. CASE far[r] # "offered"
    <3>1. r = p /\ Accepts(p) /\ Offerless(p)
      BY <1>0, <2>1, <2>3
    <3>2. q # p
      BY <3>1
    <3> QED
      BY <2>1, <3>1, <3>2, FreeToAccept
  <2>4. CASE far[r] = "offered"
    <3>1. q = p /\ Send(p)
      BY <1>0, <2>1, <2>2, <2>4
    <3> QED
      BY <2>4, <3>1, FreeToSend
  <2> QED
    BY <2>3, <2>4
<1>3. OneOffered'
  <2> SUFFICES ASSUME NEW r \in Requests, NEW q \in Requests,
                      far'[r] = "offered", far'[q] = "offered", To(r) = To(q), r # q
               PROVE  FALSE
    BY DEF OneOffered
  <2>1. \A x \in Requests \ {p} : far'[x] = far[x]
    BY OthersStand
  <2> QED
    BY <1>0, <2>1, FreeToAccept DEF AskInv, OneOffered
<1> QED
  BY <1>1, <1>2, <1>3 DEF AskInv

\* At most one exchange is committed, none beside an offered one, and one ACK
\* handler holds ackMu.
LEMMA ExclStep ==
    ASSUME ConstantsOK, TypeOK, NEW p \in Requests, StepOf(p), PhaseInv, AskInv, ExclInv
    PROVE  ExclInv'
<1> Typed /\ PhaseOf(p) /\ OwedOf(p)
  BY DEF TypeOK, Typed, PhaseInv
<1>0. /\ Committed(p)' => Committed(p) \/ (Accepts(p) /\ Unread(p))
      /\ Offered(p)' => Offered(p) \/ (Accepts(p) /\ Unread(p))
      /\ AckMuHeld(p)' => AckMuHeld(p) \/ AckMuFree
  BY Entries
<1>1. \A x \in Requests \ {p} : /\ Committed(x)' = Committed(x)
                                /\ Offered(x)' => Offered(x)
                                /\ AckMuHeld(x)' = AckMuHeld(x)
  BY OthersStand
<1>2. \A x \in Requests : /\ Committed(x) => Unread(x) /\ ~Offerless(x)
                          /\ Offered(x) => far[x] = "offered"
  BY Standing DEF PhaseInv
<1>3. \A x \in Requests : From(x) = From(p) \/ From(x) = To(p)
  BY TwoSides
<1>4. \A x \in Requests : From(x) = From(p) => To(x) = To(p)
  BY DEF To
\* An exchange that the far end accepts now finds no other committed.
<1>5. ASSUME Accepts(p), Unread(p), NEW x \in Requests, x # p PROVE ~Committed(x)
  BY <1>2, <1>3, <1>5, FreeToAccept DEF AskInv, OneUnread
<1>6. OneCommitted'
  BY <1>0, <1>1, <1>5 DEF OneCommitted, ExclInv
<1>7. CommittedAlone'
  <2> SUFFICES ASSUME NEW r \in Requests, NEW q \in Requests, Committed(r)', Offered(q)'
               PROVE  FALSE
    BY DEF CommittedAlone
  <2>1. r # q
    BY DEF Committed, Offered, Offerless
  <2>2. ~(Committed(r) /\ Offered(q))
    BY DEF ExclInv, CommittedAlone
  <2>3. CASE r = p
    <3>1. Offered(q) /\ Accepts(p) /\ Unread(p)
      BY <1>0, <1>1, <2>1, <2>2, <2>3
    <3>2. far[q] = "offered" /\ ~Offerless(p)
      BY <1>2, <2>3, <3>1 DEF Committed, Offerless
    <3>3. From(q) = To(p)
      BY <1>3, <1>4, <3>1, <3>2, FreeToAccept
    <3>4. From(p) = To(q)
      BY <3>3, TwoSides
    <3> QED
      BY <3>1, <3>2, <3>4 DEF AskInv, OffererIdle
  <2>4. CASE q = p
    BY <1>0, <1>1, <1>5, <2>1, <2>2, <2>4
  <2> QED
    BY <1>1, <2>2, <2>3, <2>4
<1>8. OneAck'
  BY <1>0, <1>1 DEF OneAck, ExclInv, AckMuFree, AckMuHeld
<1> QED
  BY <1>6, <1>7, <1>8 DEF ExclInv

----------------------------------------------------------------------------
(* The offer slots.                                                        *)

\* A step takes a slot for p, gives p's back, or leaves the counters; whatever
\* clears the answer owed ends the call or is about p.
SlotTaken(p) == slots' = Taken(p) /\ ~Holds(p) /\ Holds(p)' /\ owed' = owed /\ up' = up
SlotFreed(p) == slots' = Freed(p) /\ Holds(p) /\ ~Holds(p)' /\ (owed' = owed \/ owed = p) /\ up' = up
SlotKept(p) ==
    /\ slots' = slots /\ (Holds(p)' => Holds(p))
    /\ up' => /\ up /\ (Holds(p) => Holds(p)')
              /\ owed' = owed \/ owed = p \/ (Owe(p) /\ owed' = p)

\* beginReInviteOffer and beginUpdateOffer take, the release of a request
\* without an owed answer, owed.finish and owedExpired give back.
LEMMA SlotSteps ==
    ASSUME ConstantsOK, Typed, NEW p \in Requests, StepOf(p), PhaseOf(p), OwedOf(p)
    PROVE  SlotTaken(p) \/ SlotFreed(p) \/ SlotKept(p)
<1> USE DEF Holding, Taking, Offerless, Holds, HoldsReInvite, SlotTaken, SlotFreed, SlotKept
<1>0. p # "none" /\ (p \in EarlyAnswers => Kind(p) = "reinvite")
  BY DEF ConstantsOK
<1>1. CASE Send(p) \/ Respond(p)
  BY <1>0, <1>1 DEF Send, Respond, At, Typed, Goto, dialog, ends, session, PhaseOf, OwedOf
<1>3. CASE Read(p)
  BY <1>0, <1>3 DEF Read, Typed, AckGoto, Answer, dialog, ends, session, PhaseOf, OwedOf
<1>4. CASE Handle(p)
  <2>1. CASE Begin(p)
    BY <1>0, <2>1 DEF Begin, At, Typed, Goto, Answer, dialog, ends, session, PhaseOf, OwedOf, Unanswered
  <2>2. CASE Release(p)
    BY <1>0, <2>2 DEF Release, At, Typed, Goto, Answer, dialog, ends, session, PhaseOf, OwedOf
  <2>3. CASE Forward(p) \/ Relay(p) \/ Lingered(p) \/ Apply(p)
    BY <1>0, <2>3 DEF Forward, Relay, Lingered, Apply,
         At, Typed, Goto, Answer, dialog, ends, session, PhaseOf, OwedOf
  <2>4. CASE Refuse2xx(p)
    BY <1>0, <2>4 DEF Refuse2xx, Ended, At, Typed, Goto, Answer, dialog, ends, session,
         PhaseOf, OwedOf
  <2>5. CASE Provisional(p) \/ Accepted(p)
    BY <1>0, <2>5 DEF Provisional, Accepted, Rebuild, At, Typed, Goto, Answer, dialog, ends,
         session, PhaseOf, OwedOf
  <2>6. CASE Unmoved(p) \/ NoFinal(p)
    BY <1>0, <2>6 DEF Unmoved, NoFinal, At, Typed, Goto, Answer, dialog, ends, session,
         PhaseOf, OwedOf
  <2>7. CASE Owe(p)
    BY <1>0, <2>7 DEF Owe, At, Typed, Goto, dialog, ends, session, PhaseOf, OwedOf
  <2>8. CASE RelayOffer(p) \/ Arm(p)
    BY <1>0, <2>8 DEF RelayOffer, Arm, At, Typed, Goto, Answer, dialog, ends, session,
         PhaseOf, OwedOf
  <2> QED
    BY <1>4, <2>1, <2>2, <2>3, <2>4, <2>5, <2>6, <2>7, <2>8 DEF Handle
<1>5. CASE HandleAck(p)
  <2>1. CASE TakeOwed(p)
    BY <1>0, <2>1 DEF TakeOwed, AckAt, Typed, AckGoto, dialog, ends, session, PhaseOf, OwedOf
  <2>2. CASE AnswerFromACK(p) \/ ApplyOwed(p) \/ EndUnusable(p)
    BY <1>0, <2>2 DEF AnswerFromACK, ApplyOwed, EndUnusable, Ended, AckAt,
         Typed, AckGoto, dialog, ends, session, PhaseOf, OwedOf
  <2>3. CASE Finish(p)
    BY <1>0, <2>3 DEF Finish, AckAt, Typed, AckGoto, dialog, ends, session, PhaseOf, OwedOf
  <2> QED
    BY <1>5, <2>1, <2>2, <2>3 DEF HandleAck
<1>6. CASE FireOwed(p) \/ OwedExpired(p)
  BY <1>0, <1>6 DEF FireOwed, OwedExpired, Ended, Typed, dialog, ends, session, PhaseOf, OwedOf
<1> QED
  BY <1>1, <1>3, <1>4, <1>5, <1>6 DEF StepOf

\* Another request loses its slot only with the answer it is owed.
LEMMA OthersHold ==
    ASSUME ConstantsOK, TypeOK, NEW p \in Requests, StepOf(p), NEW r \in Requests, r # p
    PROVE  /\ Holds(r)' => Holds(r)
           /\ (owed = r => owed' = r) => (Holds(r) => Holds(r)')
<1>1. SameAt(r) /\ (owed' = r => owed = r)
  BY OthersStay
<1> QED
  BY <1>1 DEF SameAt, Holds, HoldsReInvite

\* The holders of a slot are finitely many.
LEMMA HoldersFinite ==
    ASSUME ConstantsOK, NEW n
    PROVE  IsFiniteSet(Holders(n)) /\ Cardinality(Holders(n)) \in Nat
<1>1. Holders(n) \subseteq Requests /\ IsFiniteSet(Requests)
  BY DEF Holders, ConstantsOK
<1> QED
  BY <1>1, FS_Subset, FS_CardinalityType

\* The counters, per name, and what taking and freeing does to them.
LEMMA Counters ==
    ASSUME TypeOK, NEW p \in Requests
    PROVE  /\ Slot(p) \in SlotNames
           /\ \A n \in SlotNames : slots[n] \in Nat
           /\ \A n \in SlotNames :
                /\ Taken(p)[n] = IF n = Slot(p) THEN slots[n] + 1 ELSE slots[n]
                /\ Freed(p)[n] = IF n = Slot(p) THEN slots[n] - 1 ELSE slots[n]
           /\ Taken(p) \in [reInvite : Nat, update : Nat]
           /\ slots[Slot(p)] > 0 => Freed(p) \in [reInvite : Nat, update : Nat]
BY DEF TypeOK, Slot, SlotNames, Taken, Freed

\* The counters never run below the holders, so no slot is freed twice.
LEMMA SlotStep ==
    ASSUME ConstantsOK, TypeOK, NEW p \in Requests, StepOf(p), PhaseInv, SlotBound
    PROVE  slots' \in [reInvite : Nat, update : Nat] /\ SlotBound'
<1> Typed /\ PhaseOf(p) /\ OwedOf(p)
  BY DEF TypeOK, Typed, PhaseInv
<1>0. slots \in [reInvite : Nat, update : Nat]
  BY DEF TypeOK
<1>1. SlotTaken(p) \/ SlotFreed(p) \/ SlotKept(p)
  BY SlotSteps
<1>2. \A r \in Requests \ {p} : Holds(r)' => Holds(r)
  BY OthersHold
<1>3. \A n : IsFiniteSet(Holders(n)) /\ Cardinality(Holders(n)) \in Nat
  BY HoldersFinite
<1>4. \A n \in SlotNames : slots[n] \in Nat /\ slots[n] >= Cardinality(Holders(n))
  BY Counters DEF SlotBound
<1>5. CASE SlotTaken(p)
  <2>1. slots' \in [reInvite : Nat, update : Nat]
    BY <1>5, Counters DEF SlotTaken
  <2>2. ASSUME NEW n \in SlotNames PROVE slots'[n] >= Cardinality(Holders(n)')
    <3>1. CASE n = Slot(p)
      <4>1. p \notin Holders(n)
        BY <1>5 DEF SlotTaken, Holders
      <4>2. Holders(n)' \subseteq Holders(n) \cup {p}
        BY <1>2 DEF Holders
      <4>3. IsFiniteSet(Holders(n) \cup {p}) /\ Cardinality(Holders(n) \cup {p}) = Cardinality(Holders(n)) + 1
        BY <1>3, <4>1, FS_AddElement
      <4>4. Cardinality(Holders(n)') <= Cardinality(Holders(n)) + 1 /\ Cardinality(Holders(n)') \in Nat
        BY <4>2, <4>3, FS_Subset, FS_CardinalityType
      <4>5. slots'[n] = slots[n] + 1
        BY <1>5, <3>1, Counters DEF SlotTaken
      <4> QED
        BY <1>3, <1>4, <4>4, <4>5
    <3>2. CASE n # Slot(p)
      <4>1. Holders(n)' \subseteq Holders(n)
        BY <1>2, <3>2 DEF Holders
      <4>2. Cardinality(Holders(n)') <= Cardinality(Holders(n)) /\ Cardinality(Holders(n)') \in Nat
        BY <1>3, <4>1, FS_Subset, FS_CardinalityType
      <4>3. slots'[n] = slots[n]
        BY <1>5, <3>2, Counters DEF SlotTaken
      <4> QED
        BY <1>3, <1>4, <4>2, <4>3
    <3> QED
      BY <3>1, <3>2
  <2> QED
    BY <2>1, <2>2 DEF SlotBound
<1>6. CASE SlotFreed(p)
  <2>0. p \in Holders(Slot(p)) /\ Slot(p) \in SlotNames
    BY <1>6, Counters DEF SlotFreed, Holders
  <2>00. Cardinality(Holders(Slot(p)) \ {p}) = Cardinality(Holders(Slot(p))) - 1
         /\ IsFiniteSet(Holders(Slot(p)) \ {p})
    BY <1>3, <2>0, FS_RemoveElement
  <2>1. slots' \in [reInvite : Nat, update : Nat]
    <3>1. Cardinality(Holders(Slot(p)) \ {p}) \in Nat
      BY <2>00, FS_CardinalityType
    <3>2. slots[Slot(p)] > 0
      BY <1>3, <1>4, <2>0, <2>00, <3>1
    <3> QED
      BY <1>6, <3>2, Counters DEF SlotFreed
  <2>2. ASSUME NEW n \in SlotNames PROVE slots'[n] >= Cardinality(Holders(n)')
    <3>1. CASE n = Slot(p)
      <4>1. Holders(n)' \subseteq Holders(n) \ {p}
        BY <1>2, <1>6 DEF Holders, SlotFreed
      <4>2. Cardinality(Holders(n)') <= Cardinality(Holders(n)) - 1 /\ Cardinality(Holders(n)') \in Nat
        BY <2>00, <3>1, <4>1, FS_Subset, FS_CardinalityType
      <4>3. slots'[n] = slots[n] - 1
        BY <1>6, <3>1, Counters DEF SlotFreed
      <4> QED
        BY <1>3, <1>4, <4>2, <4>3
    <3>2. CASE n # Slot(p)
      <4>1. Holders(n)' \subseteq Holders(n)
        BY <1>2, <3>2 DEF Holders
      <4>2. Cardinality(Holders(n)') <= Cardinality(Holders(n)) /\ Cardinality(Holders(n)') \in Nat
        BY <1>3, <4>1, FS_Subset, FS_CardinalityType
      <4>3. slots'[n] = slots[n]
        BY <1>6, <3>2, Counters DEF SlotFreed
      <4> QED
        BY <1>3, <1>4, <4>2, <4>3
    <3> QED
      BY <3>1, <3>2
  <2> QED
    BY <2>1, <2>2 DEF SlotBound
<1>7. CASE SlotKept(p)
  <2>1. ASSUME NEW n \in SlotNames PROVE slots'[n] >= Cardinality(Holders(n)')
    <3>1. Holders(n)' \subseteq Holders(n)
      BY <1>2, <1>7 DEF Holders, SlotKept
    <3>2. Cardinality(Holders(n)') <= Cardinality(Holders(n)) /\ Cardinality(Holders(n)') \in Nat
      BY <1>3, <3>1, FS_Subset, FS_CardinalityType
    <3> QED
      BY <1>3, <1>4, <1>7, <3>2 DEF SlotKept
  <2> QED
    BY <1>0, <1>7, <2>1 DEF SlotBound, SlotKept
<1> QED
  BY <1>1, <1>5, <1>6, <1>7

----------------------------------------------------------------------------
(* The core invariant, whatever the ends send.                             *)

\* TypeOK is Typed and the type of the counters.
LEMMA TypeSplit == TypeOK <=> Typed /\ slots \in [reInvite : Nat, update : Nat]
BY DEF TypeOK, Typed

\* It holds at first: nobody has sent anything.
LEMMA CoreInit ==
    ASSUME ConstantsOK, Init
    PROVE  CoreInv
<1>1. TypeOK
  BY DEF Init, TypeOK, Exchanges, Initial
<1>2. \A r \in Requests : pc[r] = "idle" /\ ack[r] = "none" /\ far[r] = "none" /\ resp[r] = "none"
                          /\ final[r] = "none" /\ owed # r
  BY DEF Init, ConstantsOK
<1>3. PhaseInv
  BY <1>2 DEF PhaseInv, PhaseOf, OwedOf, Unanswered, Unsent, Pointing, Waiting, Late, Taking
<1>4. AskInv
  BY <1>2 DEF AskInv, OneUnread, OffererIdle, OneOffered, Unread
<1>5. ExclInv
  BY <1>2 DEF ExclInv, OneCommitted, CommittedAlone, OneAck, AckMuHeld, Committed, Offered,
     Pointing, Waiting, Taking
<1>6. SlotBound
  <2>1. ASSUME NEW n PROVE Holders(n) = {}
    BY <1>2 DEF Holders, Holds, HoldsReInvite, Holding, Taking
  <2>2. \A n \in SlotNames : slots[n] = 0
    BY DEF Init, SlotNames
  <2> QED
    BY <2>1, <2>2, FS_EmptySet DEF SlotBound
<1> QED
  BY <1>1, <1>3, <1>4, <1>5, <1>6 DEF CoreInv

\* A hangup only forgets the answer owed.
LEMMA CoreHangup ==
    ASSUME ConstantsOK, CoreInv, Hangup
    PROVE  CoreInv'
<1>0. /\ UNCHANGED <<pc, ack, timer, slots, media, keys, view, far, resp, final>>
      /\ ~up' /\ owed' = "none"
  BY HangupStays
<1>1. \A r \in Requests : owed' # r
  BY <1>0 DEF ConstantsOK
<1>2. TypeOK'
  <2>1. up' \in BOOLEAN
    BY DEF Hangup, Ended
  <2> QED
    BY <1>0, <2>1 DEF TypeOK, CoreInv
<1>3. PhaseInv'
  BY <1>0, <1>1 DEF CoreInv, PhaseInv, PhaseOf, OwedOf
<1>4. AskInv'
  BY <1>0 DEF CoreInv, AskInv, OneUnread, OffererIdle, OneOffered, Unread
<1>5. ExclInv'
  BY <1>0, <1>1 DEF CoreInv, ExclInv, OneCommitted, CommittedAlone, OneAck, AckMuHeld, Committed, Offered
<1>6. SlotBound'
  <2> SUFFICES ASSUME NEW n \in SlotNames PROVE slots'[n] >= Cardinality(Holders(n)')
    BY DEF SlotBound
  <2>1. Holders(n)' \subseteq Holders(n)
    BY <1>0, <1>1 DEF Holders, Holds, HoldsReInvite
  <2>2. /\ Cardinality(Holders(n)') <= Cardinality(Holders(n))
        /\ Cardinality(Holders(n)') \in Nat /\ Cardinality(Holders(n)) \in Nat
    BY <2>1, HoldersFinite, FS_Subset, FS_CardinalityType
  <2>3. slots[n] \in Nat /\ slots[n] >= Cardinality(Holders(n))
    BY DEF CoreInv, SlotBound, TypeOK, SlotNames
  <2> QED
    BY <1>0, <2>2, <2>3
<1> QED
  BY <1>2, <1>3, <1>4, <1>5, <1>6 DEF CoreInv

\* Every step keeps it.
LEMMA CoreStep ==
    ASSUME ConstantsOK, CoreInv, [Next]_vars
    PROVE  CoreInv'
<1>1. ASSUME NEW p \in Requests, StepOf(p) PROVE CoreInv'
  <2>1. Typed' /\ slots' \in [reInvite : Nat, update : Nat] /\ SlotBound'
    BY <1>1, TypedStep, TypeSplit, SlotStep DEF CoreInv
  <2>2. TypeOK'
    BY <2>1 DEF TypeOK, Typed
  <2>3. PhaseInv' /\ AskInv' /\ ExclInv'
    BY <1>1, PhaseStep, AskStep, ExclStep DEF CoreInv
  <2> QED
    BY <2>1, <2>2, <2>3 DEF CoreInv
<1>2. CASE Hangup
  BY <1>2, CoreHangup
<1>3. CASE UNCHANGED vars
  <2> UNCHANGED <<pc, ack, timer, slots, owed, up, media, keys, view, far, resp, final>>
    BY <1>3 DEF vars
  <2>1. TypeOK' /\ PhaseInv'
    BY DEF CoreInv, TypeOK, PhaseInv, PhaseOf, OwedOf
  <2>2. AskInv' /\ ExclInv'
    BY DEF CoreInv, AskInv, OneUnread, OffererIdle, OneOffered, Unread, ExclInv, OneCommitted,
       CommittedAlone, OneAck, AckMuHeld, Committed, Offered
  <2>3. \A n : Holders(n)' = Holders(n)
    BY DEF Holders, Holds, HoldsReInvite
  <2>4. SlotBound'
    BY <2>3 DEF CoreInv, SlotBound
  <2> QED
    BY <2>1, <2>2, <2>4 DEF CoreInv
<1> QED
  BY <1>1, <1>2, <1>3, NextSteps

\* The core invariant holds throughout.
LEMMA CoreInvariance ==
    ASSUME ConstantsOK
    PROVE  Spec => []CoreInv
<1>1. Init => CoreInv
  BY CoreInit
<1>2. CoreInv /\ [Next]_vars => CoreInv'
  BY CoreStep
<1> QED
  BY <1>1, <1>2, PTL DEF Spec

\* Two handlers that point the media are one.
LEMMA ApplierAlone ==
    ASSUME CoreInv
    PROVE  OneApplier
<1> DEFINE R == {q \in Requests : pc[q] \in {"apply", "applyOther"}}
           A == {q \in Requests : ack[q] \in {"apply", "applyOther"}}
           S == {<<"request", r>> : r \in R} \cup {<<"ack", r>> : r \in A}
<1>1. \A r \in R : Committed(r)
  BY DEF CoreInv, PhaseInv, PhaseOf, Committed, Pointing
<1>2. \A r \in A : Offered(r) /\ AckMuHeld(r)
  BY DEF CoreInv, PhaseInv, OwedOf, Offered, AckMuHeld, Taking
<1>3. (\A r, q \in R : r = q) /\ (\A r, q \in A : r = q) /\ (R = {} \/ A = {})
  BY <1>1, <1>2 DEF CoreInv, ExclInv, OneCommitted, CommittedAlone, OneAck
<1> HIDE DEF R, A
<1>4. \A x, y \in S : x = y
  BY <1>3
<1>5. S = {} \/ \E x : S = {x}
  <2>1. CASE S # {}
    <3> PICK x : x \in S
      BY <2>1
    <3> S = {x}
      BY <1>4
    <3> QED
      OBVIOUS
  <2> QED
    BY <2>1
<1>6. Cardinality(S) <= 1
  <2> HIDE DEF S
  <2>1. CASE S = {}
    BY <2>1, FS_EmptySet
  <2>2. ASSUME NEW x, S = {x} PROVE Cardinality(S) <= 1
    <3>1. Cardinality({x}) = 1
      BY FS_Singleton
    <3> QED
      BY <2>2, <3>1
  <2> QED
    BY <1>5, <2>1, <2>2
<1> QED
  BY <1>6 DEF OneApplier, S, R, A

\* Whatever the two ends send, within the rules of RFC 3261 and 3264, at most
\* one handler points the media at a time, an ACK's included: onReInvite's
\* 491s, the ends' own and ackMu leave no second.
THEOREM OneExchangePointsTheMedia ==
    ASSUME ConstantsOK
    PROVE  Spec => [](TypeOK /\ OneApplier)
<1>1. CoreInv => TypeOK /\ OneApplier
  BY ApplierAlone DEF CoreInv
<1> QED
  BY <1>1, CoreInvariance, PTL

----------------------------------------------------------------------------
(* The rest of the invariant: one end sends offerless re-INVITEs.          *)

\* An answer that nobody waited for is the last thing side s has seen.
CrossedAt(s) == \E q \in Requests :
    To(q) = s /\ view[s] = q /\ ~Offerless(q) /\ pc[q] \in Late /\ resp[q] = "2xx"

\* What an end believes, and what it will still believe once the exchange is
\* through, unless a late answer of its own crosses.
ViewOf(r) ==
    /\ view[To(r)] = r => IF Offerless(r) THEN ack[r] = "done" ELSE far[r] = "closed"
    /\ view[From(r)] = r => IF Offerless(r) THEN ack[r] # "none"
                            ELSE final[r] = "read" /\ far[r] = "closed" /\ resp[r] = "none"
    /\ Committed(r) => view[To(r)] = r \/ CrossedAt(To(r))
    /\ (owed = r /\ ack[r] = "sent") \/ ack[r] \in Taking =>
         view[From(r)] = r \/ CrossedAt(From(r))
ViewInv == \A r \in Requests : ViewOf(r)

\* The media follows the exchange that is being applied, and stays where the
\* two ends agree.
Both(e) == \A s \in Sides : media[s] = e
MediaOf(r) ==
    /\ pc[r] = "applyOther" => media[From(r)] = r
    /\ pc[r] = "relay" \/ final[r] = "ok" => Both(r)
    /\ ack[r] = "applyOther" => media[To(r)] = r
    /\ ack[r] = "finish" => Both(r)
MediaInv ==
    /\ \A r \in Requests : MediaOf(r)
    /\ \A e \in Exchanges : Agreed(e) => Both(e)

\* Something still moves that will bring the ends together or end the call.
PendingOf(r) ==
    \/ Committed(r) \/ pc[r] \in {"refuse", "end"}
    \/ ack[r] \in {"sent", "end"} \cup Taking
    \/ timer[r] = "end"
Pending == \E r \in Requests : PendingOf(r)
Together == view["caller"] = view["callee"] \/ CrossedAt("caller") \/ CrossedAt("callee") \/ Pending
StillOwed == \A r \in Requests :
    pc[r] = "relayOffer" \/ final[r] = "offer" \/ ack[r] = "sent" => owed = r \/ timer[r] = "end"
Exact == \A n \in SlotNames : slots[n] = Cardinality(Holders(n))

UpInv == up => Exact /\ StillOwed /\ Together

IInv == CoreInv /\ ViewInv /\ MediaInv /\ UpInv

\* No second answer is owed while one is: setOwed overwrites nothing.
LEMMA OweFindsNone ==
    ASSUME ConstantsOK, OneOfferlessEnd, CoreInv, NEW p \in Requests, Owe(p)
    PROVE  owed = "none" /\ \A r \in Requests \ {p} : far[r] # "offered"
<1>1. PhaseOf(p) /\ OwedOf(p) /\ far[p] = "offered" /\ Offerless(p)
  BY DEF CoreInv, PhaseInv, OwedOf, Owe, At, Offerless
<1>2. ASSUME NEW r \in Requests, r # p, far[r] = "offered" PROVE FALSE
  <2>1. Offerless(r)
    BY <1>2 DEF CoreInv, PhaseInv, PhaseOf
  <2>2. To(r) = To(p)
    BY <1>1, <2>1 DEF OneOfferlessEnd, Offerless, To
  <2> QED
    BY <1>1, <1>2, <2>2 DEF CoreInv, AskInv, OneOffered
<1>3. \A r \in Requests : owed = r => far[r] = "offered"
  BY DEF CoreInv, PhaseInv, OwedOf
<1>4. owed # p
  BY DEF CoreInv, PhaseInv, OwedOf, Owe, At
<1> QED
  BY <1>2, <1>3, <1>4 DEF CoreInv, TypeOK

\* The counters stay exact while the call is up.
LEMMA ExactStep ==
    ASSUME ConstantsOK, OneOfferlessEnd, CoreInv, NEW p \in Requests, StepOf(p),
           up => Exact, up'
    PROVE  Exact'
<1> TypeOK /\ Typed /\ PhaseOf(p) /\ OwedOf(p)
  BY DEF CoreInv, TypeOK, Typed, PhaseInv
<1>1. SlotTaken(p) \/ SlotFreed(p) \/ SlotKept(p)
  BY SlotSteps
<1>2. up
  BY <1>1 DEF SlotTaken, SlotFreed, SlotKept
<1>3. owed' = owed \/ owed = p \/ owed = "none"
  BY <1>1, OweFindsNone DEF SlotTaken, SlotFreed, SlotKept
<1>4. \A r \in Requests \ {p} : Holds(r)' <=> Holds(r)
  <2> SUFFICES ASSUME NEW r \in Requests, r # p PROVE Holds(r)' <=> Holds(r)
    OBVIOUS
  <2>1. owed = r => owed' = r
    BY <1>3 DEF ConstantsOK
  <2>2. (Holds(r)' => Holds(r)) /\ (Holds(r) => Holds(r)')
    BY <2>1, OthersHold
  <2> QED
    BY <2>2
<1>5. \A n \in SlotNames : /\ IsFiniteSet(Holders(n)) /\ Cardinality(Holders(n)) \in Nat
                           /\ slots[n] = Cardinality(Holders(n))
  BY <1>2, HoldersFinite DEF Exact
<1> SUFFICES ASSUME NEW n \in SlotNames PROVE slots'[n] = Cardinality(Holders(n)')
  BY DEF Exact
<1>6. CASE n # Slot(p) \/ SlotKept(p)
  <2>1. Holders(n)' = Holders(n)
    <3>1. CASE n # Slot(p)
      BY <1>4, <3>1 DEF Holders
    <3>2. CASE SlotKept(p)
      BY <1>4, <3>2 DEF Holders, SlotKept
    <3> QED
      BY <1>6, <3>1, <3>2
  <2>2. slots'[n] = slots[n]
    BY <1>1, <1>6, Counters DEF SlotTaken, SlotFreed, SlotKept
  <2> QED
    BY <1>5, <2>1, <2>2
<1>7. CASE n = Slot(p) /\ SlotTaken(p)
  <2>1. Holders(n)' = Holders(n) \cup {p} /\ p \notin Holders(n)
    BY <1>4, <1>7 DEF Holders, SlotTaken
  <2>2. slots'[n] = slots[n] + 1
    BY <1>7, Counters DEF SlotTaken
  <2> QED
    BY <1>5, <2>1, <2>2, FS_AddElement
<1>8. CASE n = Slot(p) /\ SlotFreed(p)
  <2>1. Holders(n)' = Holders(n) \ {p} /\ p \in Holders(n)
    BY <1>4, <1>8 DEF Holders, SlotFreed
  <2>2. slots'[n] = slots[n] - 1
    BY <1>8, Counters DEF SlotFreed
  <2>3. Cardinality(Holders(n) \ {p}) = Cardinality(Holders(n)) - 1
    BY <1>5, <2>1, FS_RemoveElement
  <2>4. Cardinality(Holders(n)') = Cardinality(Holders(n) \ {p})
    BY <2>1
  <2> QED
    BY <1>5, <2>2, <2>3, <2>4
<1> QED
  BY <1>1, <1>6, <1>7, <1>8

----------------------------------------------------------------------------
(* What the two ends believe.                                              *)

\* The three ways an end comes to believe in exchange p: it accepts the offer,
\* it reads the answer or an offer it will answer, or the ACK brings the answer.
ViewAccepts(p) ==
    /\ Accepts(p) /\ ~Offerless(p) /\ pc[p] \in Waiting \cup Late
    /\ view' = [view EXCEPT ![To(p)] = p]
    /\ far'[p] = "closed" /\ resp'[p] = "2xx" /\ pc' = pc
ViewReads(p) ==
    /\ final[p] \in {"ok", "offer"} /\ final'[p] = "read"
    /\ view' = [view EXCEPT ![From(p)] = p]
    /\ ack'[p] = (IF final[p] = "offer" THEN "sent" ELSE ack[p])
    /\ UNCHANGED <<pc, far, resp, owed, up, timer, media>>
ViewFinishes(p) ==
    /\ ack[p] = "finish" /\ ack'[p] = "done"
    /\ view' = [view EXCEPT ![To(p)] = p]
    /\ UNCHANGED <<pc, media>>

\* There is no other way.
LEMMA ViewSteps ==
    ASSUME ConstantsOK, Typed, NEW p \in Requests, StepOf(p), PhaseOf(p), OwedOf(p)
    PROVE  view' = view \/ ViewAccepts(p) \/ ViewReads(p) \/ ViewFinishes(p)
<1>1. CASE Respond(p)
  BY <1>1 DEF Respond, ViewAccepts, Accepts, Offerless, Typed, dialog, ends, session, PhaseOf
<1>2. CASE Read(p)
  BY <1>2 DEF Read, ViewReads, Typed, AckGoto, Answer, dialog, ends, session
<1>3. CASE Finish(p)
  BY <1>3 DEF Finish, ViewFinishes, Typed, AckAt, AckGoto, session
<1>4. CASE Send(p) \/ Handle(p)
  BY <1>4 DEF Send, Handle, Begin, Forward, Provisional, Rebuild, Accepted, Apply, Relay,
       Refuse2xx, Unmoved, NoFinal, Lingered, Release, Owe, RelayOffer, Arm, ends
<1>5. CASE HandleAck(p) /\ ~Finish(p)
  BY <1>5 DEF HandleAck, TakeOwed, AnswerFromACK, ApplyOwed, EndUnusable, ends
<1>6. CASE FireOwed(p) \/ OwedExpired(p)
  BY <1>6 DEF FireOwed, OwedExpired, ends
<1> QED
  BY <1>1, <1>2, <1>3, <1>4, <1>5, <1>6 DEF StepOf, HandleAck

\* The answer r is owed is awaited by an ACK that came, or in its hands.
Awaited(r) == (owed = r /\ ack[r] = "sent") \/ ack[r] \in Taking

\* What a request keeps once it has it.
LEMMA OwnStays ==
    ASSUME ConstantsOK, Typed, NEW p \in Requests, StepOf(p), PhaseOf(p), OwedOf(p)
    PROVE  /\ far[p] = "closed" => far'[p] = "closed"
           /\ final[p] = "read" => final'[p] = "read"
           /\ far[p] = "closed" /\ resp[p] = "none" => resp'[p] = "none"
           /\ ack[p] # "none" => ack'[p] # "none"
           /\ ack[p] = "done" => ack'[p] = "done"
           /\ pc[p] \in Late /\ resp[p] = "2xx" => pc'[p] \in Late /\ resp'[p] = "2xx"
           /\ Awaited(p)' => Awaited(p) \/ (ViewReads(p) /\ final[p] = "offer")
<1> USE DEF Unanswered, Unsent, Pointing, Waiting, Late, Taking, Offerless, Awaited
<1>0. p # "none"
  BY DEF ConstantsOK
<1>1. CASE Send(p)
  BY <1>0, <1>1 DEF Send, At, Typed, Goto, dialog, ends, session, PhaseOf, OwedOf
<1>2. CASE Respond(p)
  BY <1>0, <1>2 DEF Respond, At, Typed, dialog, ends, session, PhaseOf, OwedOf
<1>3. CASE Read(p)
  BY <1>0, <1>3 DEF Read, ViewReads, Typed, AckGoto, Answer, dialog, ends, session, PhaseOf, OwedOf
<1>4. CASE Handle(p)
  <2>1. CASE Begin(p) \/ Forward(p) \/ Relay(p) \/ Lingered(p) \/ Release(p)
    BY <1>0, <2>1 DEF Begin, Forward, Relay, Lingered, Release,
         At, Typed, Goto, Answer, dialog, ends, session, PhaseOf, OwedOf
  <2>2. CASE Apply(p) \/ Refuse2xx(p)
    BY <1>0, <2>2 DEF Apply, Refuse2xx, Ended, At, Typed, Goto, Answer, dialog, ends, session,
         PhaseOf, OwedOf
  <2>3. CASE Provisional(p) \/ Accepted(p)
    BY <1>0, <2>3 DEF Provisional, Accepted, Rebuild, At, Typed, Goto, Answer, dialog, ends,
         session, PhaseOf, OwedOf
  <2>5. CASE Unmoved(p) \/ NoFinal(p)
    BY <1>0, <2>5 DEF Unmoved, NoFinal, At, Typed, Goto, Answer, dialog, ends, session,
         PhaseOf, OwedOf
  <2>6. CASE Owe(p) \/ RelayOffer(p) \/ Arm(p)
    BY <1>0, <2>6 DEF Owe, RelayOffer, Arm, At, Typed, Goto, Answer, dialog, ends, session,
         PhaseOf, OwedOf
  <2> QED
    BY <1>4, <2>1, <2>2, <2>3, <2>5, <2>6 DEF Handle
<1>5. CASE HandleAck(p)
  BY <1>0, <1>5 DEF HandleAck, TakeOwed, AnswerFromACK, ApplyOwed, EndUnusable, Finish, Ended,
       AckAt, Typed, AckGoto, dialog, ends, session, PhaseOf, OwedOf
<1>6. CASE FireOwed(p) \/ OwedExpired(p)
  BY <1>0, <1>6 DEF FireOwed, OwedExpired, Ended, Typed, dialog, ends, session, PhaseOf, OwedOf
<1> QED
  BY <1>1, <1>2, <1>3, <1>4, <1>5, <1>6 DEF StepOf

\* A crossed answer stays the last thing seen until the side sees another.
LEMMA CrossedStays ==
    ASSUME ConstantsOK, CoreInv, NEW p \in Requests, StepOf(p), NEW s,
           view'[s] = view[s], CrossedAt(s)
    PROVE  CrossedAt(s)'
<1> Typed /\ TypeOK /\ PhaseOf(p) /\ OwedOf(p)
  BY DEF CoreInv, TypeOK, Typed, PhaseInv
<1> PICK q \in Requests : To(q) = s /\ view[s] = q /\ ~Offerless(q) /\ pc[q] \in Late /\ resp[q] = "2xx"
  BY DEF CrossedAt
<1>1. pc'[q] \in Late /\ resp'[q] = "2xx"
  <2>1. CASE q = p
    BY <2>1, OwnStays
  <2>2. CASE q # p
    BY <2>2, OthersStay DEF SameAt
  <2> QED
    BY <2>1, <2>2
<1>2. Offerless(q)' = Offerless(q)
  BY DEF Offerless
<1> QED
  BY <1>1, <1>2 DEF CrossedAt

\* An answer that crosses now makes its end's side a crossed one.
LEMMA CrossesNow ==
    ASSUME ConstantsOK, Typed, NEW p \in Requests, ViewAccepts(p), pc[p] \in Late
    PROVE  CrossedAt(To(p))'
<1>1. view'[To(p)] = p
  BY TwoSides DEF ViewAccepts, Typed
<1> QED
  BY <1>1 DEF CrossedAt, ViewAccepts, Offerless

\* What request r is known to keep in a step of p, whoever p is.
LEMMA AnyStays ==
    ASSUME ConstantsOK, CoreInv, NEW p \in Requests, StepOf(p), NEW r \in Requests
    PROVE  /\ far[r] = "closed" => far'[r] = "closed"
           /\ final[r] = "read" => final'[r] = "read"
           /\ far[r] = "closed" /\ resp[r] = "none" => resp'[r] = "none"
           /\ ack[r] # "none" => ack'[r] # "none"
           /\ ack[r] = "done" => ack'[r] = "done"
           /\ Awaited(r)' => Awaited(r) \/ (r = p /\ ViewReads(p) /\ final[p] = "offer")
           /\ Committed(r)' => Committed(r) \/ (r = p /\ Accepts(p) /\ Unread(p))
<1> Typed /\ TypeOK /\ PhaseOf(p) /\ OwedOf(p)
  BY DEF CoreInv, TypeOK, Typed, PhaseInv
<1>1. CASE r = p
  BY <1>1, OwnStays, Entries
<1>2. CASE r # p
  BY <1>2, OthersStay, OthersStand DEF SameAt, Awaited
<1> QED
  BY <1>1, <1>2

\* Which of the two sides changed its mind, and how.
LEMMA SideMoves ==
    ASSUME ConstantsOK, CoreInv, NEW p \in Requests, StepOf(p), NEW s \in Sides,
           view'[s] # view[s]
    PROVE  \/ ViewAccepts(p) /\ s = To(p) /\ view'[s] = p
           \/ ViewReads(p) /\ s = From(p) /\ view'[s] = p
           \/ ViewFinishes(p) /\ s = To(p) /\ view'[s] = p
<1> Typed /\ PhaseOf(p) /\ OwedOf(p)
  BY DEF CoreInv, TypeOK, Typed, PhaseInv
<1> QED
  BY ViewSteps, TwoSides DEF ViewAccepts, ViewReads, ViewFinishes, Typed

\* The believes of the ends step by step.
LEMMA ViewStep ==
    ASSUME ConstantsOK, OneOfferlessEnd, CoreInv, ViewInv, NEW p \in Requests, StepOf(p)
    PROVE  ViewInv'
<1> SUFFICES ASSUME NEW r \in Requests PROVE ViewOf(r)'
  BY DEF ViewInv
<1> Typed /\ TypeOK /\ PhaseOf(p) /\ OwedOf(p) /\ PhaseOf(r) /\ OwedOf(r) /\ ViewOf(r)
  BY DEF CoreInv, TypeOK, Typed, PhaseInv, ViewInv
<1>0. /\ From(r) \in Sides /\ To(r) \in Sides /\ From(p) \in Sides /\ To(p) \in Sides
      /\ From(r) # To(r) /\ From(p) # To(p)
      /\ From(p) = From(r) => To(p) = To(r)
      /\ To(p) = To(r) => From(p) = From(r)
      /\ From(p) = To(r) => From(r) = To(p)
      /\ To(p) = From(r) => From(p) = To(r)
  BY TwoSides
<1>1. Offerless(r)' = Offerless(r) /\ Offerless(p)' = Offerless(p)
  BY DEF Offerless
<1>2. ASSUME view'[To(r)] = r
      PROVE  IF Offerless(r) THEN ack'[r] = "done" ELSE far'[r] = "closed"
  <2>1. CASE view[To(r)] = r
    BY <2>1, AnyStays DEF ViewOf
  <2>2. CASE view[To(r)] # r
    <3>1. r = p /\ (ViewAccepts(p) \/ ViewFinishes(p))
      BY <1>0, <1>2, <2>2, SideMoves
    <3>2. ViewFinishes(p) => Offerless(p)
      BY DEF ViewFinishes, OwedOf
    <3> QED
      BY <3>1, <3>2 DEF ViewAccepts, ViewFinishes
  <2> QED
    BY <2>1, <2>2
<1>3. ASSUME view'[From(r)] = r
      PROVE  IF Offerless(r) THEN ack'[r] # "none"
             ELSE final'[r] = "read" /\ far'[r] = "closed" /\ resp'[r] = "none"
  <2>1. CASE view[From(r)] = r
    BY <2>1, AnyStays DEF ViewOf
  <2>2. CASE view[From(r)] # r
    <3>1. r = p /\ ViewReads(p)
      BY <1>0, <1>3, <2>2, SideMoves
    <3>2. /\ final[p] = "ok" => ~Offerless(p) /\ resp[p] = "none" /\ far[p] = "closed"
          /\ final[p] = "offer" => Offerless(p)
      BY DEF PhaseOf, OwedOf
    <3> QED
      BY <3>1, <3>2 DEF ViewReads
  <2> QED
    BY <2>1, <2>2
<1>4. ASSUME Committed(r)' PROVE view'[To(r)] = r \/ CrossedAt(To(r))'
  <2>1. CASE Committed(r)
    <3>1. CASE view'[To(r)] = view[To(r)]
      BY <2>1, <3>1, CrossedStays DEF ViewOf
    <3>2. CASE view'[To(r)] # view[To(r)]
      <4>1. \/ ViewAccepts(p) /\ To(r) = To(p) /\ view'[To(r)] = p
            \/ ViewReads(p) /\ To(r) = From(p)
            \/ ViewFinishes(p) /\ To(r) = To(p)
        BY <1>0, <3>2, SideMoves
      <4>2. CASE ViewAccepts(p) /\ To(r) = To(p) /\ view'[To(r)] = p
        <5>1. CASE p # r
          <6>1. ~Unread(p)
            BY <1>0, <2>1, <4>2, <5>1, Standing DEF CoreInv, AskInv, OneUnread
          <6>2. pc[p] \in Late
            BY <4>2, <6>1 DEF ViewAccepts, Unread, PhaseOf, Waiting, Late, Unanswered
          <6> QED
            BY <4>2, <6>2, CrossesNow
        <5> QED
          BY <4>2, <5>1
      <4>3. CASE ViewReads(p) /\ To(r) = From(p)
        <5>1. CASE final[p] = "ok"
          <6>1. Committed(p)
            BY <5>1 DEF Committed, PhaseOf
          <6> QED
            BY <1>0, <2>1, <4>3, <6>1 DEF CoreInv, ExclInv, OneCommitted
        <5>2. CASE final[p] = "offer"
          <6>1. far[p] = "offered"
            BY <5>2 DEF OwedOf
          <6>2. From(r) = To(p) /\ Unread(r) /\ ~Offerless(r)
            BY <1>0, <2>1, <4>3, Standing
          <6> QED
            BY <6>1, <6>2 DEF CoreInv, AskInv, OffererIdle
        <5> QED
          BY <4>3, <5>1, <5>2 DEF ViewReads
      <4>4. CASE ViewFinishes(p)
        <5>1. Offered(p)
          BY <4>4 DEF ViewFinishes, Offered, OwedOf, Taking
        <5> QED
          BY <2>1, <5>1 DEF CoreInv, ExclInv, CommittedAlone
      <4> QED
        BY <4>1, <4>2, <4>3, <4>4
    <3> QED
      BY <3>1, <3>2
  <2>2. CASE ~Committed(r)
    <3>1. r = p /\ Accepts(p)
      BY <1>4, <2>2, AnyStays
    <3>2. resp'[p] = "2xx" /\ ~Offerless(p)
      BY <1>1, <1>4, <2>2, <3>1 DEF Committed, Accepts, Respond
    <3>3. view' = [view EXCEPT ![To(p)] = p]
      BY <3>1, <3>2 DEF Accepts, Respond, Typed, Offerless
    <3> QED
      BY <1>0, <3>1, <3>3 DEF Typed
  <2> QED
    BY <2>1, <2>2
<1>5. ASSUME Awaited(r)' PROVE view'[From(r)] = r \/ CrossedAt(From(r))'
  <2>1. CASE Awaited(r)
    <3>0. /\ Offered(r) /\ Offerless(r) /\ far[r] = "offered" /\ final[r] = "read"
      BY <2>1 DEF Awaited, Offered, OwedOf, Taking
    <3>1. CASE view'[From(r)] = view[From(r)]
      BY <2>1, <3>1, CrossedStays DEF ViewOf, Awaited
    <3>2. CASE view'[From(r)] # view[From(r)]
      <4>1. \/ ViewAccepts(p) /\ From(r) = To(p) /\ view'[From(r)] = p
            \/ ViewReads(p) /\ From(r) = From(p)
            \/ ViewFinishes(p) /\ From(r) = To(p)
        BY <1>0, <3>2, SideMoves
      <4>2. CASE ViewAccepts(p) /\ From(r) = To(p)
        <5>1. ~Unread(p)
          BY <1>0, <3>0, <4>2 DEF CoreInv, AskInv, OffererIdle, ViewAccepts
        <5>2. pc[p] \in Late
          BY <4>2, <5>1 DEF ViewAccepts, Unread, PhaseOf, Waiting, Late, Unanswered
        <5> QED
          BY <4>2, <5>2, CrossesNow
      <4>3. CASE ViewReads(p) /\ From(r) = From(p)
        <5>1. CASE final[p] = "ok"
          <6>1. Committed(p)
            BY <5>1 DEF Committed, PhaseOf
          <6> QED
            BY <3>0, <6>1 DEF CoreInv, ExclInv, CommittedAlone
        <5>2. CASE final[p] = "offer"
          <6>1. far[p] = "offered"
            BY <5>2 DEF OwedOf
          <6> QED
            BY <1>0, <3>0, <4>3, <5>2, <6>1 DEF CoreInv, AskInv, OneOffered
        <5> QED
          BY <4>3, <5>1, <5>2 DEF ViewReads
      <4>4. CASE ViewFinishes(p) /\ From(r) = To(p)
        <5>1. Offerless(p)
          BY <4>4 DEF ViewFinishes, OwedOf
        <5> QED
          BY <1>0, <3>0, <4>4, <5>1 DEF OneOfferlessEnd, Offerless
      <4> QED
        BY <4>1, <4>2, <4>3, <4>4
    <3> QED
      BY <3>1, <3>2
  <2>2. CASE ~Awaited(r)
    <3>1. r = p /\ ViewReads(p)
      BY <1>5, <2>2, AnyStays
    <3> QED
      BY <1>0, <3>1 DEF ViewReads, Typed
  <2> QED
    BY <2>1, <2>2
<1> QED
  BY <1>1, <1>2, <1>3, <1>4, <1>5 DEF ViewOf, Awaited

----------------------------------------------------------------------------
(* Where the media goes.                                                   *)

\* p's handler, or p's ACK handler, points one side.
Points(p) ==
    /\ UNCHANGED <<view, far, resp, final, up, owed, timer>>
    /\ \/ /\ pc[p] = "apply" /\ pc'[p] = "applyOther" /\ ack' = ack
          /\ media' = [media EXCEPT ![From(p)] = p]
       \/ /\ pc[p] = "applyOther" /\ pc'[p] = "relay" /\ ack' = ack
          /\ media' = [media EXCEPT ![To(p)] = p]
       \/ /\ ack[p] = "apply" /\ ack'[p] = "applyOther" /\ pc' = pc
          /\ media' = [media EXCEPT ![To(p)] = p]
       \/ /\ ack[p] = "applyOther" /\ ack'[p] = "finish" /\ pc' = pc
          /\ media' = [media EXCEPT ![From(p)] = p]

\* Nothing else moves the media; and how p gets to a point that claims it.
LEMMA MediaSteps ==
    ASSUME ConstantsOK, Typed, NEW p \in Requests, StepOf(p), PhaseOf(p), OwedOf(p)
    PROVE  \/ Points(p)
           \/ /\ media' = media
              /\ pc'[p] = "applyOther" => pc[p] = "applyOther"
              /\ pc'[p] = "relay" \/ final'[p] = "ok" => pc[p] = "relay" \/ final[p] = "ok"
              /\ ack'[p] = "applyOther" => ack[p] = "applyOther"
              /\ ack'[p] = "finish" => ack[p] = "finish"
<1>1. CASE Send(p) \/ Respond(p) \/ Read(p)
  BY <1>1 DEF Send, Respond, Read, Typed, Goto, AckGoto, Answer, session, dialog, ends
<1>2. CASE Apply(p)
  BY <1>2 DEF Apply, Points, At, Typed, Goto, session, dialog, ends
<1>3. CASE ApplyOwed(p)
  BY <1>3 DEF ApplyOwed, Points, AckAt, Typed, AckGoto, session, dialog, ends
<1>4. CASE Begin(p) \/ Forward(p) \/ Relay(p) \/ Refuse2xx(p) \/ Lingered(p) \/ Release(p)
  BY <1>4 DEF Begin, Forward, Relay, Refuse2xx, Lingered, Release, At, Typed, Goto, Answer,
       session, dialog, ends, Ended
<1>5. CASE Provisional(p) \/ Accepted(p) \/ Unmoved(p) \/ NoFinal(p)
  BY <1>5 DEF Provisional, Accepted, Unmoved, NoFinal, Rebuild, At, Typed, Goto, Answer,
       session, dialog, ends
<1>6. CASE Owe(p) \/ RelayOffer(p) \/ Arm(p)
  BY <1>6 DEF Owe, RelayOffer, Arm, At, Typed, Goto, Answer, session, dialog, ends
<1>7. CASE TakeOwed(p) \/ AnswerFromACK(p) \/ Finish(p) \/ EndUnusable(p)
  BY <1>7 DEF TakeOwed, AnswerFromACK, Finish, EndUnusable, AckAt, Typed, AckGoto,
       session, dialog, ends
<1>8. CASE FireOwed(p) \/ OwedExpired(p)
  BY <1>8 DEF FireOwed, OwedExpired, session, dialog, ends
<1> QED
  BY <1>1, <1>2, <1>3, <1>4, <1>5, <1>6, <1>7, <1>8 DEF StepOf, Handle, HandleAck

\* Whoever points the media is the one exchange under way, ...
LEMMA PointerIsOne ==
    ASSUME CoreInv, NEW p \in Requests, Points(p)
    PROVE  \/ Committed(p) /\ final[p] = "none"
           \/ Offered(p) /\ AckMuHeld(p) /\ Awaited(p)
BY DEF Points, CoreInv, PhaseInv, PhaseOf, OwedOf, Committed, Offered, AckMuHeld, Awaited,
   Pointing, Taking, Unanswered

\* ... and the ends do not agree meanwhile.
LEMMA PointedApart ==
    ASSUME ConstantsOK, CoreInv, ViewInv, NEW p \in Requests, Points(p), NEW e, Agreed(e)
    PROVE  FALSE
<1> PhaseOf(p) /\ OwedOf(p) /\ ViewOf(p)
  BY DEF CoreInv, PhaseInv, ViewInv
<1>0. view[From(p)] = e /\ view[To(p)] = e
  BY TwoSides DEF Agreed, Sides
<1>1. ASSUME NEW s \in Sides, CrossedAt(s) PROVE FALSE
  <2> PICK q \in Requests : To(q) = s /\ view[s] = q /\ ~Offerless(q) /\ resp[q] = "2xx"
    BY <1>1 DEF CrossedAt
  <2>1. view[From(q)] = q
    BY TwoSides DEF Agreed, Sides
  <2>2. ViewOf(q)
    BY DEF ViewInv
  <2> QED
    BY <2>1, <2>2 DEF ViewOf
<1>2. e = p
  BY <1>0, <1>1, PointerIsOne, TwoSides DEF ViewOf, Awaited
<1>3. CASE Committed(p) /\ final[p] = "none"
  BY <1>0, <1>2, <1>3 DEF ViewOf, Committed
<1>4. CASE Offered(p) /\ AckMuHeld(p)
  BY <1>0, <1>2, <1>4 DEF ViewOf, Offered, AckMuHeld, Taking
<1> QED
  BY <1>3, <1>4, PointerIsOne

\* The media step by step.
LEMMA MediaStep ==
    ASSUME ConstantsOK, CoreInv, ViewInv, MediaInv, NEW p \in Requests, StepOf(p)
    PROVE  MediaInv'
<1> Typed /\ TypeOK /\ PhaseOf(p) /\ OwedOf(p) /\ ViewOf(p) /\ MediaOf(p)
  BY DEF CoreInv, TypeOK, Typed, PhaseInv, ViewInv, MediaInv
<1>0. From(p) \in Sides /\ To(p) \in Sides /\ From(p) # To(p) /\ \A s \in Sides : s = From(p) \/ s = To(p)
  BY TwoSides
<1>1. ASSUME NEW r \in Requests PROVE MediaOf(r)'
  <2> MediaOf(r) /\ PhaseOf(r) /\ OwedOf(r)
    BY DEF MediaInv, CoreInv, PhaseInv
  <2>1. CASE r # p
    <3>0. SameAt(r)
      BY <2>1, OthersStay
    <3>1. CASE media' = media
      BY <3>0, <3>1 DEF MediaOf, SameAt, Both
    <3>2. CASE Points(p)
      <4>1. ~Committed(r)
        BY <2>1, <3>2, PointerIsOne DEF CoreInv, ExclInv, OneCommitted, CommittedAlone
      <4>2. ~(Offered(r) /\ AckMuHeld(r))
        BY <2>1, <3>2, PointerIsOne DEF CoreInv, ExclInv, CommittedAlone, OneAck
      <4>3. /\ pc[r] \in {"applyOther", "relay"} \/ final[r] = "ok" => Committed(r)
            /\ ack[r] \in {"applyOther", "finish"} => Offered(r) /\ AckMuHeld(r)
        BY DEF PhaseOf, OwedOf, Committed, Offered, AckMuHeld, Pointing, Taking
      <4> QED
        BY <3>0, <4>1, <4>2, <4>3 DEF MediaOf, SameAt
    <3> QED
      BY <3>1, <3>2, MediaSteps
  <2>2. CASE r = p
    <3>1. CASE Points(p)
      BY <1>0, <2>2, <3>1 DEF Points, MediaOf, Both, Typed, PhaseOf, OwedOf, Pointing, Taking, Unanswered
    <3>2. CASE ~Points(p)
      BY <2>2, <3>2, MediaSteps DEF MediaOf, Both
    <3> QED
      BY <3>1, <3>2
  <2> QED
    BY <2>1, <2>2
<1>2. ASSUME NEW e \in Exchanges, Agreed(e)' PROVE Both(e)'
  <2>0. view'["caller"] = e /\ view'["callee"] = e
    BY <1>2 DEF Agreed
  <2>1. ~Points(p)
    <3>1. Points(p) => Agreed(e)
      BY <2>0 DEF Points, Agreed
    <3> QED
      BY <3>1, PointedApart
  <2>2. media' = media
    BY <2>1, MediaSteps
  <2>3. CASE \A s \in Sides : view'[s] = view[s]
    <3>1. Agreed(e)
      BY <2>0, <2>3 DEF Agreed, Sides
    <3> QED
      BY <2>2, <3>1 DEF MediaInv, Both
  <2>4. ASSUME NEW s \in Sides, view'[s] # view[s] PROVE Both(e)'
    <3>1. view'[s] = e /\ view'[From(p)] = e /\ view'[To(p)] = e
      BY <1>0, <2>0 DEF Sides
    <3>2. CASE ViewAccepts(p) /\ view'[s] = p
      <4>1. view[From(p)] = p
        BY <1>0, <3>1, <3>2 DEF ViewAccepts, Typed
      <4> QED
        BY <3>2, <4>1 DEF ViewOf, ViewAccepts, Accepts
    <3>3. CASE ViewReads(p) /\ view'[s] = p
      <4>1. CASE final[p] = "ok"
        BY <2>2, <3>1, <3>3, <4>1 DEF MediaOf, Both
      <4>2. CASE final[p] = "offer"
        <5>1. view[To(p)] = p
          BY <1>0, <3>1, <3>3 DEF ViewReads, Typed
        <5> QED
          BY <4>2, <5>1 DEF ViewOf, OwedOf
      <4> QED
        BY <3>3, <4>1, <4>2 DEF ViewReads
    <3>4. CASE ViewFinishes(p) /\ view'[s] = p
      BY <2>2, <3>1, <3>4 DEF ViewFinishes, MediaOf, Both
    <3> QED
      BY <2>4, <3>2, <3>3, <3>4, SideMoves
  <2> QED
    BY <2>3, <2>4
<1> QED
  BY <1>1, <1>2 DEF MediaInv

----------------------------------------------------------------------------
(* What is still under way while the call is up.                           *)

\* Once a backstop runs to its end only the end of the call stops it.
LEMMA BackstopStays ==
    ASSUME ConstantsOK, Typed, NEW p \in Requests, StepOf(p), up',
           NEW r \in Requests, timer[r] = "end"
    PROVE  timer'[r] = "end"
<1>1. CASE Arm(p)
  BY <1>1 DEF Arm, Typed
<1>2. CASE Finish(p)
  BY <1>2 DEF Finish, StopTimer, Typed
<1>3. CASE FireOwed(p) \/ OwedExpired(p)
  BY <1>3 DEF FireOwed, OwedExpired, Ended, Typed
<1>4. CASE Send(p) \/ Respond(p) \/ Read(p)
  BY <1>4 DEF Send, Respond, Read
<1>5. CASE Handle(p) /\ ~Arm(p)
  BY <1>5 DEF Handle, Begin, Forward, Provisional, Rebuild, Accepted, Apply, Relay,
       Refuse2xx, Unmoved, NoFinal, Lingered, Release, Owe, RelayOffer
<1>6. CASE HandleAck(p) /\ ~Finish(p)
  BY <1>6 DEF HandleAck, TakeOwed, AnswerFromACK, ApplyOwed, EndUnusable
<1> QED
  BY <1>1, <1>2, <1>3, <1>4, <1>5, <1>6 DEF StepOf, Handle, HandleAck

\* What is under way for p goes on, comes to its end, or ends the call.
LEMMA PendingSteps ==
    ASSUME ConstantsOK, Typed, NEW p \in Requests, StepOf(p), PhaseOf(p), OwedOf(p), up',
           pc[p] = "relayOffer" \/ final[p] = "offer" \/ ack[p] = "sent" => owed = p \/ timer[p] = "end"
    PROVE  /\ up
           /\ PendingOf(p) => PendingOf(p)' \/ (ViewReads(p) /\ final[p] = "ok") \/ ViewFinishes(p)
           /\ pc'[p] = "relayOffer" \/ final'[p] = "offer" \/ ack'[p] = "sent" =>
                owed' = p \/ timer'[p] = "end"
<1> USE DEF Unanswered, Unsent, Pointing, Waiting, Late, Taking, Offerless, PendingOf, Committed
<1>0. p # "none"
  BY DEF ConstantsOK
<1>1. CASE Send(p)
  BY <1>0, <1>1 DEF Send, At, Typed, Goto, dialog, ends, session, PhaseOf, OwedOf
<1>2. CASE Respond(p)
  BY <1>0, <1>2 DEF Respond, At, Typed, dialog, ends, session, PhaseOf, OwedOf
<1>3. CASE Read(p)
  BY <1>0, <1>3 DEF Read, ViewReads, Typed, AckGoto, Answer, dialog, ends, session, PhaseOf, OwedOf
<1>4. CASE Handle(p)
  <2>1. CASE Begin(p) \/ Forward(p)
    BY <1>0, <2>1 DEF Begin, Forward, At, Typed, Goto, Answer, dialog, ends, session, PhaseOf, OwedOf
  <2>2. CASE Relay(p) \/ Lingered(p) \/ Release(p)
    BY <1>0, <2>2 DEF Relay, Lingered, Release,
         At, Typed, Goto, Answer, dialog, ends, session, PhaseOf, OwedOf
  <2>3. CASE Apply(p)
    BY <1>0, <2>3 DEF Apply, At, Typed, Goto, dialog, ends, session, PhaseOf, OwedOf
  <2>4. CASE Refuse2xx(p)
    BY <1>0, <2>4 DEF Refuse2xx, Ended, At, Typed, Goto, Answer, dialog, ends, session,
         PhaseOf, OwedOf
  <2>8. CASE Provisional(p)
    BY <1>0, <2>8 DEF Provisional, Rebuild, At, Typed, Goto, Answer, dialog, ends,
         session, PhaseOf, OwedOf
  <2>9. CASE Accepted(p)
    BY <1>0, <2>9 DEF Accepted, Rebuild, At, Typed, Goto, Answer, dialog, ends,
         session, PhaseOf, OwedOf
  <2>5. CASE Unmoved(p) \/ NoFinal(p)
    BY <1>0, <2>5 DEF Unmoved, NoFinal, At, Typed, Goto, Answer, dialog, ends, session,
         PhaseOf, OwedOf
  <2>6. CASE Owe(p) \/ RelayOffer(p)
    BY <1>0, <2>6 DEF Owe, RelayOffer, At, Typed, Goto, Answer, dialog, ends, session,
         PhaseOf, OwedOf
  <2>7. CASE Arm(p)
    BY <1>0, <2>7, BackstopStays DEF Arm, At, Typed, Goto, Answer, dialog, ends, session,
         PhaseOf, OwedOf
  <2> QED
    BY <1>4, <2>1, <2>2, <2>3, <2>4, <2>5, <2>6, <2>7, <2>8, <2>9 DEF Handle
<1>5. CASE HandleAck(p)
  <2>1. CASE TakeOwed(p)
    BY <1>0, <2>1 DEF TakeOwed, AckAt, Typed, AckGoto, dialog, ends, session, PhaseOf, OwedOf
  <2>2. CASE AnswerFromACK(p) \/ ApplyOwed(p) \/ EndUnusable(p)
    BY <1>0, <2>2 DEF AnswerFromACK, ApplyOwed, EndUnusable, Ended, AckAt,
         Typed, AckGoto, dialog, ends, session, PhaseOf, OwedOf
  <2>3. CASE Finish(p)
    BY <1>0, <2>3 DEF Finish, ViewFinishes, StopTimer, AckAt, Typed, AckGoto, dialog, ends, session,
         PhaseOf, OwedOf
  <2> QED
    BY <1>5, <2>1, <2>2, <2>3 DEF HandleAck
<1>6. CASE FireOwed(p) \/ OwedExpired(p)
  BY <1>0, <1>6 DEF FireOwed, OwedExpired, Ended, Typed, dialog, ends, session, PhaseOf, OwedOf
<1> QED
  BY <1>1, <1>2, <1>3, <1>4, <1>5, <1>6 DEF StepOf

\* While the call is up an answer is owed until it is taken or its backstop
\* ends the call.
LEMMA StillOwedStep ==
    ASSUME ConstantsOK, OneOfferlessEnd, CoreInv, NEW p \in Requests, StepOf(p),
           up', StillOwed
    PROVE  up /\ StillOwed'
<1> TypeOK /\ Typed /\ PhaseOf(p) /\ OwedOf(p)
  BY DEF CoreInv, TypeOK, Typed, PhaseInv
<1>0. pc[p] = "relayOffer" \/ final[p] = "offer" \/ ack[p] = "sent" => owed = p \/ timer[p] = "end"
  BY DEF StillOwed
<1>1. SlotTaken(p) \/ SlotFreed(p) \/ SlotKept(p)
  BY SlotSteps
<1>2. owed' = owed \/ owed = p \/ owed = "none"
  BY <1>1, OweFindsNone DEF SlotTaken, SlotFreed, SlotKept
<1>3. up
  BY <1>0, PendingSteps
<1>4. ASSUME NEW r \in Requests,
             pc'[r] = "relayOffer" \/ final'[r] = "offer" \/ ack'[r] = "sent"
      PROVE  owed' = r \/ timer'[r] = "end"
  <2>1. CASE r = p
    BY <1>0, <1>4, <2>1, PendingSteps
  <2>2. CASE r # p
    <3>1. owed = r \/ timer[r] = "end"
      BY <1>4, <2>2, OthersStay DEF SameAt, StillOwed
    <3>2. owed = r => owed' = r
      BY <1>2, <2>2 DEF ConstantsOK
    <3> QED
      BY <3>1, <3>2, BackstopStays
  <2> QED
    BY <2>1, <2>2
<1> QED
  BY <1>3, <1>4 DEF StillOwed

\* While the call is up the ends are together, or a late answer crossed, or
\* something under way will bring them together or end the call.
LEMMA TogetherStep ==
    ASSUME ConstantsOK, CoreInv, ViewInv, NEW p \in Requests, StepOf(p),
           up', StillOwed, Together
    PROVE  Together'
<1> TypeOK /\ Typed /\ PhaseOf(p) /\ OwedOf(p) /\ ViewOf(p)
  BY DEF CoreInv, TypeOK, Typed, PhaseInv, ViewInv
<1>0. /\ From(p) \in Sides /\ To(p) \in Sides /\ From(p) # To(p)
      /\ \A s \in Sides : s = From(p) \/ s = To(p)
  BY TwoSides
<1>1. ASSUME view'[From(p)] = view'[To(p)] PROVE Together'
  BY <1>0, <1>1 DEF Together, Sides
<1>2. ASSUME NEW s \in Sides, CrossedAt(s)' PROVE Together'
  BY <1>2 DEF Together, Sides
<1>3. ASSUME PendingOf(p)' PROVE Together'
  BY <1>3 DEF Together, Pending
<1>4. CASE ViewAccepts(p)
  <2>1. CASE pc[p] \in Late
    BY <1>0, <1>2, <1>4, <2>1, CrossesNow
  <2>2. CASE pc[p] \in Waiting
    <3>1. Committed(p)'
      BY <1>4, <2>2 DEF ViewAccepts, Committed, Offerless
    <3> QED
      BY <1>3, <3>1 DEF PendingOf
  <2> QED
    BY <1>4, <2>1, <2>2 DEF ViewAccepts
<1>5. CASE ViewReads(p)
  <2>0. view'[From(p)] = p /\ view'[To(p)] = view[To(p)]
    BY <1>0, <1>5 DEF ViewReads, Typed
  <2>1. CASE final[p] = "ok"
    <3>1. Committed(p)
      BY <2>1 DEF Committed, PhaseOf
    <3> QED
      BY <1>0, <1>1, <1>2, <2>0, <3>1, CrossedStays DEF ViewOf
  <2>2. CASE final[p] = "offer"
    <3>1. ack'[p] = "sent"
      BY <1>5, <2>2 DEF ViewReads
    <3> QED
      BY <1>3, <3>1 DEF PendingOf
  <2> QED
    BY <1>5, <2>1, <2>2 DEF ViewReads
<1>6. CASE ViewFinishes(p)
  <2>0. view'[To(p)] = p /\ view'[From(p)] = view[From(p)]
    BY <1>0, <1>6 DEF ViewFinishes, Typed
  <2>1. ack[p] \in Taking
    BY <1>6 DEF ViewFinishes, Taking
  <2> QED
    BY <1>0, <1>1, <1>2, <2>0, <2>1, CrossedStays DEF ViewOf
<1>7. CASE view' = view /\ ~ViewReads(p) /\ ~ViewFinishes(p)
  <2>1. CASE view["caller"] = view["callee"]
    BY <1>7, <2>1 DEF Together
  <2>2. ASSUME NEW s \in Sides, CrossedAt(s) PROVE Together'
    BY <1>2, <1>7, <2>2, CrossedStays
  <2>3. ASSUME NEW r \in Requests, PendingOf(r) PROVE Together'
    <3>1. CASE r = p
      <4>1. pc[p] = "relayOffer" \/ final[p] = "offer" \/ ack[p] = "sent" => owed = p \/ timer[p] = "end"
        BY DEF StillOwed
      <4> QED
        BY <1>3, <1>7, <2>3, <3>1, <4>1, PendingSteps
    <3>2. CASE r # p
      <4>1. SameAt(r) /\ Committed(r)' = Committed(r) /\ (timer[r] = "end" => timer'[r] = "end")
        BY <3>2, OthersStay, OthersStand, BackstopStays
      <4>2. PendingOf(r)'
        BY <2>3, <4>1 DEF PendingOf, SameAt
      <4> QED
        BY <4>2 DEF Together, Pending
    <3> QED
      BY <3>1, <3>2
  <2> QED
    BY <2>1, <2>2, <2>3 DEF Together, Pending, Sides
<1> QED
  BY <1>4, <1>5, <1>6, <1>7, ViewSteps

----------------------------------------------------------------------------
(* The theorems.                                                           *)

\* The invariant holds at first.
LEMMA InvInit ==
    ASSUME ConstantsOK, Init
    PROVE  IInv
<1>1. CoreInv
  BY CoreInit
<1>2. \A r \in Requests : pc[r] = "idle" /\ ack[r] = "none" /\ far[r] = "none" /\ resp[r] = "none"
                          /\ final[r] = "none" /\ owed # r /\ r # Initial
  BY DEF Init, ConstantsOK
<1>3. /\ view["caller"] = Initial /\ view["callee"] = Initial
      /\ \A s \in Sides : view[s] = Initial /\ media[s] = Initial
  BY DEF Init, Sides
<1>4. ViewInv
  <2> SUFFICES ASSUME NEW r \in Requests PROVE ViewOf(r)
    BY DEF ViewInv
  <2>1. view[To(r)] # r /\ view[From(r)] # r
    BY <1>2, <1>3, TwoSides
  <2>2. ~Committed(r) /\ ack[r] = "none"
    BY <1>2 DEF Committed, Waiting, Pointing
  <2> QED
    BY <2>1, <2>2 DEF ViewOf, Taking
<1>5. MediaInv
  BY <1>2, <1>3 DEF MediaInv, MediaOf, Agreed, Both
<1>6. Exact
  <2>1. ASSUME NEW n PROVE Holders(n) = {}
    BY <1>2 DEF Holders, Holds, HoldsReInvite, Holding, Taking
  <2>2. \A n \in SlotNames : slots[n] = 0
    BY DEF Init, SlotNames
  <2> QED
    BY <2>1, <2>2, FS_EmptySet DEF Exact
<1>7. StillOwed /\ Together
  BY <1>2, <1>3 DEF StillOwed, Together
<1> QED
  BY <1>1, <1>4, <1>5, <1>6, <1>7 DEF IInv, UpInv

\* Every step keeps it.
LEMMA InvStep ==
    ASSUME ConstantsOK, OneOfferlessEnd, IInv, [Next]_vars
    PROVE  IInv'
<1>0. CoreInv'
  BY CoreStep DEF IInv
<1>1. ASSUME NEW p \in Requests, StepOf(p) PROVE IInv'
  <2>1. ViewInv' /\ MediaInv'
    BY <1>1, ViewStep, MediaStep DEF IInv
  <2>2. ASSUME up' PROVE Exact' /\ StillOwed' /\ Together'
    <3> CoreInv /\ Typed /\ TypeOK /\ PhaseOf(p) /\ OwedOf(p)
      BY DEF IInv, CoreInv, TypeOK, Typed, PhaseInv
    <3>1. up
      BY <1>1, <2>2, SlotSteps DEF SlotTaken, SlotFreed, SlotKept
    <3>2. Exact /\ StillOwed /\ Together
      BY <3>1 DEF IInv, UpInv
    <3> QED
      BY <1>1, <2>2, <3>2, ExactStep, StillOwedStep, TogetherStep DEF IInv
  <2> QED
    BY <1>0, <2>1, <2>2 DEF IInv, UpInv
<1>2. ASSUME UNCHANGED <<pc, ack, timer, slots, media, view, far, resp, final>>,
             ~up' \/ UNCHANGED <<up, owed>>, owed' = owed \/ owed' = "none"
      PROVE  IInv'
  <2>1. \A r \in Requests : owed' = r => owed = r
    BY <1>2 DEF ConstantsOK
  <2>2. \A s : CrossedAt(s)' = CrossedAt(s)
    BY <1>2 DEF CrossedAt
  <2>3. \A r \in Requests : Committed(r)' = Committed(r)
    BY <1>2 DEF Committed
  <2>4. ViewInv'
    BY <1>2, <2>1, <2>2, <2>3 DEF IInv, ViewInv, ViewOf
  <2>5. MediaInv'
    BY <1>2 DEF IInv, MediaInv, MediaOf, Both, Agreed
  <2>6. ASSUME up' PROVE Exact' /\ StillOwed' /\ Together'
    <3>1. UNCHANGED <<up, owed>>
      BY <1>2, <2>6
    <3>2. Exact /\ StillOwed /\ Together
      BY <2>6, <3>1 DEF IInv, UpInv
    <3>3. \A n : Holders(n)' = Holders(n)
      BY <1>2, <3>1 DEF Holders, Holds, HoldsReInvite
    <3>4. Pending' = Pending
      BY <1>2, <2>3 DEF Pending, PendingOf
    <3> QED
      BY <1>2, <2>2, <3>1, <3>2, <3>3, <3>4 DEF Exact, StillOwed, Together
  <2> QED
    BY <1>0, <2>4, <2>5, <2>6 DEF IInv, UpInv
<1>3. CASE Hangup
  BY <1>2, <1>3, HangupStays
<1>4. CASE UNCHANGED vars
  BY <1>2, <1>4 DEF vars
<1> QED
  BY <1>1, <1>3, <1>4, NextSteps

\* The invariant gives what the run checks.
LEMMA InvGives ==
    ASSUME ConstantsOK, IInv
    PROVE  OffersApplied
<1>1. TypeOK /\ OneApplier
  BY ApplierAlone DEF IInv, CoreInv
<1>2. SlotsExact
  <2>1. Holders("reInvite") = {r \in ReInvites : HoldsReInvite(r)}
    BY DEF Holders, Holds, Slot, ReInvites
  <2>2. Holders("update") = {r \in Requests \ ReInvites : pc[r] \in Holding}
    BY DEF Holders, Holds, Slot, ReInvites
  <2>3. up => /\ slots["reInvite"] = Cardinality(Holders("reInvite"))
              /\ slots["update"] = Cardinality(Holders("update"))
    BY DEF IInv, UpInv, Exact, SlotNames
  <2> QED
    BY <2>1, <2>2, <2>3 DEF SlotsExact
<1>3. MediaFollows
  BY DEF MediaFollows, IInv, MediaInv, Both
<1>4. SplitOnlyByCrossing
  <2> SUFFICES ASSUME Quiet, up PROVE view["caller"] = view["callee"] \/ \E r \in Requests : Crossed(r)
    BY DEF SplitOnlyByCrossing
  <2>1. Together
    BY DEF IInv, UpInv
  <2>2. ~Pending
    BY DEF Quiet, Pending, PendingOf, Committed, Waiting, Pointing, Taking
  <2>3. ASSUME NEW s, CrossedAt(s) PROVE \E r \in Requests : Crossed(r)
    BY <2>3 DEF CrossedAt, Crossed, Quiet, Late
  <2> QED
    BY <2>1, <2>2, <2>3 DEF Together
<1> QED
  BY <1>1, <1>2, <1>3, <1>4 DEF OffersApplied

\* When only one end sends re-INVITEs without an offer, any number of crossing
\* re-INVITEs and UPDATEs leave the slots exact while the call is up ("Every
\* true is paired with endReInviteOffer", dialog.go), one exchange at a time
\* points the media (applyReInvite, applyOwed), the media of a quiet call goes
\* where its ends agree, and only a 2xx that FreeSBC did not wait for leaves
\* the ends apart.
THEOREM CrossingOffersAreApplied ==
    ASSUME ConstantsOK, OneOfferlessEnd
    PROVE  Spec => []OffersApplied
<1>1. Init => IInv
  BY InvInit
<1>2. IInv /\ [Next]_vars => IInv'
  BY InvStep
<1>3. IInv => OffersApplied
  BY InvGives
<1> QED
  BY <1>1, <1>2, <1>3, PTL DEF Spec

============================================================================
