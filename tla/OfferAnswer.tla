---------------------------- MODULE OfferAnswer ----------------------------
(***************************************************************************)
(* Mid-call offer/answer on one confirmed dialog: re-INVITEs with and      *)
(* without an offer (onReInvite, indialog.go), UPDATEs (onInDialog,        *)
(* update.go) and the answer an ACK carries (offerless.go). Every request  *)
(* runs on its own goroutine; beginReInviteOffer, beginUpdateOffer, setOwed*)
(* and takeOwed are critical sections of the dialog table's mutex.         *)
(*                                                                         *)
(* An exchange is named by its request. media[s] is the exchange whose     *)
(* address the anchor sends side s its media to, view[s] the one endpoint  *)
(* s believes in, keys the one whose codecs and SRTP keys are in force.    *)
(* The endpoints (external) follow RFC 3261 section 14 and RFC 3264: none  *)
(* sends an offer beside an unfinished one, and a request that crosses     *)
(* its own is answered 491.                                                *)
(***************************************************************************)
EXTENDS Naturals, FiniteSets

CONSTANTS
    Requests,     \* the in-dialog requests of the call
    Kind(_),      \* "reinvite" (with an offer), "offerless" or "update"
    From(_),      \* the endpoint that sends it
    EarlyAnswers  \* re-INVITEs whose answer may already ride an 18x

Sides == {"caller", "callee"}
Other(s) == IF s = "caller" THEN "callee" ELSE "caller"
To(r) == Other(From(r))
Initial == "initial"
Exchanges == Requests \cup {Initial}
ReInvites == {r \in Requests : Kind(r) # "update"}

\* What the constants are assumed to be: only a re-INVITE with an offer is
\* answered by an 18x (onReInvite strips every other body of an 18x).
ConstantsOK ==
    /\ IsFiniteSet(Requests) /\ {"none", Initial} \cap Requests = {}
    /\ \A r \in Requests : From(r) \in Sides
    /\ EarlyAnswers \subseteq {r \in Requests : Kind(r) = "reinvite"}

\* Only one of the two ends sends re-INVITEs without an offer. Without it
\* setOwed may overwrite an answer that is still owed (see SlotsExact).
OneOfferlessEnd == \A r, q \in Requests :
    Kind(r) = "offerless" /\ Kind(q) = "offerless" => From(r) = From(q)

VARIABLES
    pc,      \* program point of each request's handler
    ack,     \* program point of the ACK handler of an offerless exchange
    timer,   \* the owed answer's backstop, per exchange
    slots,   \* dialog.reInviteOffers and dialog.updateOffers
    owed,    \* the exchange dialog.owed names, or "none"
    up,      \* the dialog is confirmed
    media, keys,
    view,    \* what each endpoint believes is agreed
    far,     \* the request at the endpoint it was forwarded to
    resp,    \* its latest response the handler has not read
    final    \* what the requester was answered, and whether it read it

vars == <<pc, ack, timer, slots, owed, up, media, keys, view, far, resp, final>>
dialog == <<slots, owed, up>>
session == <<media, keys>>
ends == <<view, far>>

\* Handler points at which the request holds its offer slot.
Holding == {"build", "wait", "early", "apply", "applyOther", "relay", "refuse",
            "end", "linger", "release"}
\* Points of the ACK handler after takeOwed and before finish.
Taking == {"answer", "apply", "applyOther", "finish", "fail"}

TypeOK ==
    /\ pc \in [Requests -> {"idle", "begin", "relayOffer", "arm", "done"} \cup Holding]
    /\ ack \in [Requests -> {"none", "sent", "end", "done"} \cup Taking]
    /\ timer \in [Requests -> {"off", "armed", "fired", "end"}]
    /\ slots \in [reInvite : Nat, update : Nat]
    /\ owed \in Requests \cup {"none"}
    /\ up \in BOOLEAN
    /\ media \in [Sides -> Exchanges] /\ keys \in Exchanges
    /\ view \in [Sides -> Exchanges]
    /\ far \in [Requests -> {"none", "open", "offered", "closed"}]
    /\ resp \in [Requests -> {"none", "18x", "2xx", "bare", "fail"}]
    /\ final \in [Requests -> {"none", "ok", "offer", "refused", "read"}]

Init ==
    /\ pc = [r \in Requests |-> "idle"] /\ ack = [r \in Requests |-> "none"]
    /\ timer = [r \in Requests |-> "off"]
    /\ slots = [reInvite |-> 0, update |-> 0] /\ owed = "none" /\ up = TRUE
    /\ media = [s \in Sides |-> Initial] /\ keys = Initial
    /\ view = [s \in Sides |-> Initial]
    /\ far = [r \in Requests |-> "none"] /\ resp = [r \in Requests |-> "none"]
    /\ final = [r \in Requests |-> "none"]

At(r, p) == pc[r] = p
Goto(r, p) == pc' = [pc EXCEPT ![r] = p]
AckAt(r, p) == ack[r] = p
AckGoto(r, p) == ack' = [ack EXCEPT ![r] = p]
Answer(r, f) == final' = [final EXCEPT ![r] = f]

----------------------------------------------------------------------------
(* The endpoints.                                                          *)

\* e has sent a request it has no final response to, or has made an offer
\* whose answer has not come.
Asking(e) == \E q \in Requests :
    \/ From(q) = e /\ pc[q] # "idle" /\ final[q] # "read"
    \/ To(q) = e /\ far[q] = "offered"

SendsNow(r) ==
    /\ \A q \in Requests : To(q) = From(r) => far[q] # "open"
    /\ \A q \in Requests : From(q) = From(r) /\ pc[q] # "idle" => final[q] = "read"
    /\ Kind(r) # "offerless" => ~Asking(From(r))

Send(r) ==
    /\ At(r, "idle") /\ up /\ SendsNow(r)
    /\ Goto(r, "begin")
    /\ UNCHANGED <<ack, timer, dialog, session, ends, resp, final>>

\* The endpoint the request was forwarded to answers it: at most once finally,
\* also when FreeSBC no longer waits.
Respond(r) ==
    /\ far[r] = "open"
    /\ \/ resp' = [resp EXCEPT ![r] = "fail"]
          /\ far' = [far EXCEPT ![r] = "closed"]
          /\ UNCHANGED view
       \/ ~Asking(To(r)) /\ r \in EarlyAnswers /\ At(r, "wait")
          /\ resp' = [resp EXCEPT ![r] = "18x"]
          /\ UNCHANGED <<far, view>>
       \/ ~Asking(To(r))
          /\ resp' = [resp EXCEPT ![r] = "2xx"]
          /\ far' = [far EXCEPT ![r] = IF Kind(r) = "offerless" THEN "offered" ELSE "closed"]
          /\ view' = IF Kind(r) = "offerless" THEN view ELSE [view EXCEPT ![To(r)] = r]
       \/ ~Asking(To(r)) /\ Kind(r) # "reinvite"
          /\ resp' = [resp EXCEPT ![r] = "bare"]
          /\ far' = [far EXCEPT ![r] = "closed"]
          /\ UNCHANGED view
    /\ UNCHANGED <<pc, ack, timer, dialog, session, final>>

\* The requester reads its final; an offer in it is answered in the ACK.
Read(r) ==
    /\ final[r] \in {"ok", "offer", "refused"}
    /\ Answer(r, "read")
    /\ view' = IF final[r] = "refused" THEN view ELSE [view EXCEPT ![From(r)] = r]
    /\ IF final[r] = "offer" THEN AckGoto(r, "sent") ELSE UNCHANGED ack
    /\ UNCHANGED <<pc, timer, dialog, session, far, resp>>

\* The call ends for a reason of its own (module CallTeardown).
Ended == up' = FALSE /\ owed' = "none"
Hangup ==
    /\ up /\ Ended
    /\ UNCHANGED <<pc, ack, timer, slots, session, ends, resp, final>>

----------------------------------------------------------------------------
(* onReInvite and the UPDATE part of onInDialog.                           *)

ReInviteSlot == slots.update = 0 /\ owed = "none"
UpdateSlot == slots.update = 0 /\ slots.reInvite = 0 /\ owed = "none"

Slot(r) == IF Kind(r) = "update" THEN "update" ELSE "reInvite"
Taken(r) == [slots EXCEPT ![Slot(r)] = @ + 1]
Freed(r) == [slots EXCEPT ![Slot(r)] = @ - 1]

\* No confirmed dialog: 481. Another offer pending: 491.
Begin(r) ==
    /\ At(r, "begin")
    /\ IF up /\ (IF Kind(r) = "update" THEN UpdateSlot ELSE ReInviteSlot)
       THEN Goto(r, "build") /\ slots' = Taken(r) /\ UNCHANGED final
       ELSE Goto(r, "done") /\ Answer(r, "refused") /\ UNCHANGED slots
    /\ UNCHANGED <<ack, timer, owed, up, session, ends, resp>>

\* The offer is rebuilt and the request forwarded; or the body cannot be
\* anchored (488), it has looped (483) or could not be sent (503).
Forward(r) ==
    /\ At(r, "build")
    /\ \/ Goto(r, "wait") /\ far' = [far EXCEPT ![r] = "open"] /\ UNCHANGED final
       \/ Goto(r, "release") /\ Answer(r, "refused") /\ UNCHANGED far
    /\ UNCHANGED <<ack, timer, dialog, session, view, resp>>

\* rebuildInDialogAnswer also commits the SRTP keys and the codecs.
Rebuild(r) ==
    /\ resp' = [resp EXCEPT ![r] = "none"]
    /\ keys' = r
    /\ UNCHANGED <<ack, timer, dialog, media, ends, final>>

\* An answer in an 18x is rebuilt and relayed. One that cannot be anchored is
\* refused and the client transaction dropped.
Provisional(r) ==
    /\ At(r, "wait") /\ resp[r] = "18x"
    /\ \/ Goto(r, "early") /\ Rebuild(r)
       \/ Goto(r, "release") /\ Answer(r, "refused")
          /\ resp' = [resp EXCEPT ![r] = "none"]
          /\ UNCHANGED <<ack, timer, dialog, session, ends>>

\* A 2xx with the answer: the first body is rebuilt, or cannot be; after an
\* 18x it restates the answer already built.
Accepted(r) ==
    /\ pc[r] \in {"wait", "early"} /\ resp[r] = "2xx" /\ Kind(r) # "offerless"
    /\ \/ At(r, "wait") /\ Goto(r, "apply") /\ Rebuild(r)
       \/ At(r, "early") /\ Goto(r, "apply")
          /\ resp' = [resp EXCEPT ![r] = "none"]
          /\ UNCHANGED <<ack, timer, dialog, session, ends, final>>
       \/ At(r, "wait") /\ Goto(r, "refuse")
          /\ resp' = [resp EXCEPT ![r] = "none"]
          /\ UNCHANGED <<ack, timer, dialog, session, ends, final>>

\* applyReInvite: the offerer's side, then the answerer's.
Apply(r) ==
    /\ \/ At(r, "apply") /\ media' = [media EXCEPT ![From(r)] = r] /\ Goto(r, "applyOther")
       \/ At(r, "applyOther") /\ media' = [media EXCEPT ![To(r)] = r] /\ Goto(r, "relay")
    /\ UNCHANGED <<ack, timer, dialog, keys, ends, resp, final>>

Relay(r) ==
    /\ At(r, "relay")
    /\ Answer(r, "ok") /\ Goto(r, "release")
    /\ UNCHANGED <<ack, timer, dialog, session, ends, resp>>

\* The far end accepted what FreeSBC cannot anchor: 488 to the requester,
\* then the call is ended on both sides.
Refuse2xx(r) ==
    /\ \/ At(r, "refuse") /\ Answer(r, "refused") /\ Goto(r, "end")
          /\ UNCHANGED <<owed, up>>
       \/ At(r, "end") /\ Ended /\ Goto(r, "release") /\ UNCHANGED final
    /\ UNCHANGED <<ack, timer, slots, session, ends, resp>>

\* A refusal, or a 2xx without a body (only offerless and UPDATE): relayed,
\* nothing moves.
Unmoved(r) ==
    /\ pc[r] \in {"wait", "early"} /\ resp[r] \in {"fail", "bare"}
    /\ resp' = [resp EXCEPT ![r] = "none"]
    /\ Answer(r, "refused") /\ Goto(r, "release")
    /\ UNCHANGED <<ack, timer, dialog, session, ends>>

\* No final at all: the transaction died (408), an UPDATE's 32 s passed, or
\* a re-INVITE's backstop did, which is CANCELled and lingers for its final.
NoFinal(r) ==
    /\ pc[r] \in {"wait", "early"} /\ resp[r] \in {"none", "18x"}
    /\ resp' = [resp EXCEPT ![r] = "none"]
    /\ Answer(r, "refused")
    /\ \/ Goto(r, "release")
       \/ Kind(r) # "update" /\ Goto(r, "linger")
    /\ UNCHANGED <<ack, timer, dialog, session, ends>>

Lingered(r) ==
    /\ At(r, "linger") /\ Goto(r, "release")
    /\ UNCHANGED <<ack, timer, dialog, session, ends, resp, final>>

Release(r) ==
    /\ At(r, "release")
    /\ slots' = Freed(r) /\ Goto(r, "done")
    /\ UNCHANGED <<ack, timer, owed, up, session, ends, resp, final>>

\* The 2xx of an offerless re-INVITE carries the far end's offer: the answer
\* is owed from here and the slot is kept. The offer may be unusable.
Owe(r) ==
    /\ At(r, "wait") /\ resp[r] = "2xx" /\ Kind(r) = "offerless"
    /\ resp' = [resp EXCEPT ![r] = "none"]
    /\ \/ Goto(r, "relayOffer") /\ owed' = r
       \/ Goto(r, "refuse") /\ UNCHANGED owed
    /\ UNCHANGED <<ack, timer, slots, up, session, ends, final>>

RelayOffer(r) ==
    /\ At(r, "relayOffer")
    /\ Answer(r, "offer") /\ Goto(r, "arm")
    /\ UNCHANGED <<ack, timer, dialog, session, ends, resp>>

ArmNever(r) ==
    /\ At(r, "arm") /\ Goto(r, "done")
    /\ UNCHANGED <<ack, timer, dialog, session, ends, resp, final>>

\* armOwedTimer starts the backstop of whatever answer is owed now.
Arm(r) ==
    /\ At(r, "arm") /\ Goto(r, "done")
    /\ timer' = IF owed # "none" /\ timer[owed] = "off" /\ up
                THEN [timer EXCEPT ![owed] = "armed"] ELSE timer
    /\ UNCHANGED <<ack, dialog, session, ends, resp, final>>

----------------------------------------------------------------------------
(* onAck with an owed answer, under ackMu, and the backstop.               *)

AckMuFree == \A q \in Requests : ack[q] \notin Taking \cup {"end"}

TakeOwed(r) ==
    /\ AckAt(r, "sent") /\ AckMuFree
    /\ IF up /\ owed = r THEN AckGoto(r, "answer") /\ owed' = "none"
       ELSE AckGoto(r, "done") /\ UNCHANGED owed
    /\ UNCHANGED <<pc, timer, slots, up, session, ends, resp, final>>

\* prepareOwed rebuilds the answer; it may be missing or unusable.
AnswerFromACK(r) ==
    /\ AckAt(r, "answer")
    /\ \/ AckGoto(r, "apply") /\ keys' = r
       \/ AckGoto(r, "fail") /\ UNCHANGED keys
    /\ UNCHANGED <<pc, timer, dialog, media, ends, resp, final>>

ApplyOwed(r) ==
    /\ \/ AckAt(r, "apply") /\ media' = [media EXCEPT ![To(r)] = r] /\ AckGoto(r, "applyOther")
       \/ AckAt(r, "applyOther") /\ media' = [media EXCEPT ![From(r)] = r] /\ AckGoto(r, "finish")
    /\ UNCHANGED <<pc, timer, dialog, keys, ends, resp, final>>

StopTimer(r) == timer' = [timer EXCEPT ![r] = IF @ = "armed" THEN "off" ELSE @]

FinishAndKeep(r) ==
    /\ ack[r] \in {"finish", "fail"}
    /\ StopTimer(r)
    /\ far' = [far EXCEPT ![r] = "closed"]
    /\ IF AckAt(r, "finish")
       THEN AckGoto(r, "done") /\ view' = [view EXCEPT ![To(r)] = r]
       ELSE AckGoto(r, "end") /\ UNCHANGED view
    /\ UNCHANGED <<pc, slots, owed, up, session, resp, final>>

\* owed.finish, and the ACK goes to the far end: with the answer, or bare and
\* the call is ended.
Finish(r) ==
    /\ ack[r] \in {"finish", "fail"}
    /\ StopTimer(r) /\ slots' = Freed(r)
    /\ far' = [far EXCEPT ![r] = "closed"]
    /\ IF AckAt(r, "finish")
       THEN AckGoto(r, "done") /\ view' = [view EXCEPT ![To(r)] = r]
       ELSE AckGoto(r, "end") /\ UNCHANGED view
    /\ UNCHANGED <<pc, owed, up, session, resp, final>>

EndUnusable(r) ==
    /\ AckAt(r, "end") /\ Ended /\ AckGoto(r, "done")
    /\ UNCHANGED <<pc, timer, slots, session, ends, resp, final>>

FireOwed(r) ==
    /\ timer[r] = "armed" /\ up
    /\ timer' = [timer EXCEPT ![r] = "fired"]
    /\ UNCHANGED <<pc, ack, dialog, session, ends, resp, final>>

\* owedExpired: dropOwed, the slot, then the call.
OwedExpired(r) ==
    /\ \/ /\ timer[r] = "fired"
          /\ IF owed = r
             THEN timer' = [timer EXCEPT ![r] = "end"] /\ slots' = Freed(r) /\ owed' = "none"
             ELSE timer' = [timer EXCEPT ![r] = "off"] /\ UNCHANGED <<slots, owed>>
          /\ UNCHANGED up
       \/ /\ timer[r] = "end"
          /\ Ended /\ timer' = [timer EXCEPT ![r] = "off"] /\ UNCHANGED slots
    /\ UNCHANGED <<pc, ack, session, ends, resp, final>>

----------------------------------------------------------------------------
Handle(r) ==
    \/ Begin(r) \/ Forward(r) \/ Provisional(r) \/ Accepted(r) \/ Apply(r) \/ Relay(r)
    \/ Refuse2xx(r) \/ Unmoved(r) \/ NoFinal(r) \/ Lingered(r) \/ Release(r)
    \/ Owe(r) \/ RelayOffer(r) \/ Arm(r)
HandleAck(r) ==
    TakeOwed(r) \/ AnswerFromACK(r) \/ ApplyOwed(r) \/ Finish(r) \/ EndUnusable(r)

Next ==
    \/ Hangup
    \/ \E r \in Requests : Send(r) \/ Respond(r) \/ Read(r)
    \/ \E r \in Requests : Handle(r) \/ HandleAck(r) \/ FireOwed(r) \/ OwedExpired(r)

\* Handlers run, their backstops and an armed timer fire; the endpoints owe
\* nothing, the ACK included.
Fairness == \A r \in Requests :
    WF_vars(Handle(r)) /\ WF_vars(HandleAck(r)) /\ WF_vars(FireOwed(r)) /\ WF_vars(OwedExpired(r))

Spec == Init /\ [][Next]_vars /\ Fairness

----------------------------------------------------------------------------
(* Properties.                                                             *)

HoldsReInvite(r) == pc[r] \in Holding \/ owed = r \/ ack[r] \in Taking

\* While the call is up the counters are the exchanges that hold a slot: a
\* re-INVITE whose answer is owed keeps its one, whoever ends the exchange
\* gives it back once ("Every true is paired with endReInviteOffer", dialog.go).
\* Two offerless re-INVITEs, one of each end, break it: the second setOwed
\* drops the first answer owed without its release.
SlotsExact == up =>
    /\ slots.reInvite = Cardinality({r \in ReInvites : HoldsReInvite(r)})
    /\ slots.update = Cardinality({r \in Requests \ ReInvites : pc[r] \in Holding})

\* At most one handler is pointing the media at a time, ACK handlers included
\* (module MediaLatch rests on it): a second exchange is 491ed here, or by an
\* endpoint because this one's 2xx is relayed only after the media moved.
OneApplier == Cardinality(
    {<<"request", r>> : r \in {q \in Requests : pc[q] \in {"apply", "applyOther"}}}
    \cup {<<"ack", r>> : r \in {q \in Requests : ack[q] \in {"apply", "applyOther"}}}) <= 1

Quiet ==
    /\ \A r \in Requests : pc[r] \in {"idle", "done"} /\ ack[r] \in {"none", "done"}
    /\ \A r \in Requests : final[r] \in {"none", "read"} /\ timer[r] \in {"off", "armed"}
Agreed(e) == view["caller"] = e /\ view["callee"] = e

\* In a quiet call whose ends agree on an exchange, both sides' media goes
\* where that exchange says, whatever was refused or crossed before.
MediaFollows == Quiet /\ up =>
    \A e \in Exchanges : Agreed(e) => \A s \in Sides : media[s] = e

\* The far end answered only after FreeSBC had given up on the request.
Crossed(r) == pc[r] = "done" /\ view[To(r)] = r /\ resp[r] # "none"

\* A living call is half-renegotiated only by a 2xx FreeSBC did not wait for:
\* a 2xx it read and could not anchor ends the call.
SplitOnlyByCrossing == Quiet /\ up =>
    view["caller"] = view["callee"] \/ \E r \in Requests : Crossed(r)

\* What is promised of crossing offers, in one formula.
OffersApplied ==
    TypeOK /\ SlotsExact /\ OneApplier /\ MediaFollows /\ SplitOnlyByCrossing

\* Every slot comes back, and with it the call's ability to renegotiate, or
\* the call ends; an ACK that never comes is what the backstop is for.
SlotsReturned == <>[](up => slots = [reInvite |-> 0, update |-> 0] /\ owed = "none")

\* docs/edge.md: keys "take effect only when the exchange does".
KeysFollowExchange == Quiet /\ up =>
    \A e \in Exchanges : Agreed(e) => keys = e
=============================================================================
