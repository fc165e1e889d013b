-------------------------- MODULE CallSetupProofs --------------------------
(***************************************************************************)
(* The safety of CallSetup for every number of nodes and forks, with or    *)
(* without an offer and whatever mishaps befall the call.                  *)
(***************************************************************************)
EXTENDS CallSetup, TLAPS

Closing == {"untrack", "return", "done"}
Allocating == {"open", "alloc", "attach"}
Holding == Allocating \cup {"pump", "step", "relay", "commit", "relayErr", "abandon"}

(* The inductive invariant, part by part. *)

\* The handler has tried its one final only when it is on its way out, or has
\* noted that it did (pumpResult.finalised).
FinalInv ==
    /\ OneFinal
    /\ h.pc \notin {"abandon", "drain"} \cup Closing => caller.tries = 0 /\ ~h.finalised
    /\ h.pc \in {"abandon", "drain"} /\ ~h.finalised => caller.tries = 0

\* The response in hand at each program point.
RespInv ==
    /\ h.pc \in {"begin", "bridge", "loop", "track", "send", "markSent", "pump"}
          => h.resp = NoResp
    /\ h.pc \in Allocating => h.resp.k # "fail" /\ (h.resp = NoResp <=> h.att = 0)
    /\ h.pc \in {"step", "relay"} => h.resp # NoResp
    /\ h.pc = "commit" => h.resp.k = "2xx"
    /\ h.pc = "relayErr" => h.resp.k \in {"1xx", "2xx"}
    /\ h.pc \in {"begin", "bridge"} => h.att = 0
    /\ h.att = 0 => /\ h.resp = NoResp
                    /\ h.pc \in Allocating \cup Closing \cup {"begin", "bridge", "loop", "giveUp"}

\* Who owns an attempt's CANCEL: an attempt that is sent and taken has had its
\* CANCEL or has one goroutine about to send it, and nothing else does.
CancelInv ==
    /\ \A n \in Attempts : cancels[n] \in 0..1 /\ (cancels[n] = 1 => a[n].sent /\ a[n].taken)
    /\ \A t \in tasks : t.k = "cancel" =>
          t.n \in Attempts /\ a[t.n].sent /\ a[t.n].taken /\ cancels[t.n] = 0
    /\ \A n \in Attempts : a[n].sent /\ a[n].taken =>
          cancels[n] = 1 \/ Task("cancel", n, {}) \in tasks
    /\ \A n \in Attempts : a[n].sent => tx[n] # "none"
    /\ d.inFlight # 0 => ~a[d.inFlight].taken
    /\ d.inFlight <= h.att /\ (h.pc = "track" => d.inFlight < h.att)
    /\ \A n \in Attempts : n > h.att \/ (n = h.att /\ h.pc = "track") =>
          ~a[n].sent /\ ~a[n].taken /\ tx[n] = "none"
    /\ h.pc = "send" => h.att # 0 /\ ~a[h.att].sent /\ tx[h.att] = "none"
    /\ h.pc = "markSent" => h.att # 0 /\ ~a[h.att].sent /\ tx[h.att] # "none"
    /\ h.att # 0 /\ h.pc \in Holding \cup {"drain"} => a[h.att].sent
    /\ \A t \in tasks : t.k = "linger" => t.n \in Attempts /\ a[t.n].sent

\* The record's state at each program point: it is up only once the 2xx was
\* committed, and it ends under the handler only at shutdown.
Answered == {"arm", "record", "respond"} \cup Closing
StateInv ==
    /\ d.state = "none" => h.pc \in {"begin", "done"}
    /\ h.pc = "begin" => d.state = "none"
    /\ d.state = "Confirmed" => h.pc \in Answered
    /\ h.pc = "done" => d.state # "Early"
    /\ d.state = "Ended" /\ h.pc \notin Answered => closed

\* An INVITE with no final is the one in the handler's hands, or it was taken
\* for its CANCEL; shutdown drops the rest.
RingInv ==
    /\ ~closed => \A n \in Attempts : tx[n] \in {"calling", "proceeding"} =>
          \/ n = h.att /\ h.pc \in Holding \cup {"markSent"}
          \/ a[n].sent /\ a[n].taken
    /\ ~closed /\ h.att # 0 /\ h.pc \in Holding \cup {"send", "markSent"} =>
          d.inFlight = h.att \/ a[h.att].taken
    /\ d.cancelled => d.inFlight = 0
    /\ \A n \in Attempts : /\ chan[n].k = "2xx" => tx[n] = "accepted"
                           /\ chan[n].k = "fail" => tx[n] = "completed"
    /\ h.resp.k = "2xx" => tx[h.att] \in {"accepted", "dead"}
    /\ h.resp.k = "fail" => tx[h.att] \in {"completed", "dead"}

\* Open sockets belong to the record, or to the handler between the
\* allocation and attach; an ended record has its close in flight.
MediaInv ==
    /\ d.state = "none" => sess = "none" /\ ~d.media
    /\ sess = "open" => h.pc = "attach" \/ d.media
    /\ h.pc \in Allocating => ~d.media
    /\ d.state = "Ended" /\ d.media /\ sess = "open" => Running("close")

\* A caller that has its final behind the handler's back has marked the
\* record, or the record has ended.
ConfirmInv ==
    /\ hook.live \/ d.state \in {"none", "Ended"}
    /\ Running("close") => d.state = "Ended"
    /\ h.att # 0 \/ h.pc = "loop" => caller.bridged
    /\ caller.bridged => d.state # "none"
    /\ d.callerGone => d.cancelled
    /\ caller.final # "none" /\ caller.tries = 0 /\ caller.bridged =>
          d.callerGone \/ d.state = "Ended"

\* Between two attempts every earlier node is dead and never spoke.
Mute(m) == tx[m] \in {"none", "dead"} /\ ~Spoke(m)
SpeakInv ==
    /\ \A n \in Attempts : tx[n] = "none" => chan[n] = NoResp /\ ~Spoke(n)
    /\ \A t \in tasks : t.k = "linger" => h.pc \in Closing \cup {"giveUp"}
    /\ h.pc = "loop" => \A m \in Attempts : m <= h.att => Mute(m)
    /\ h.pc \in {"track", "send", "markSent"} \/ (h.pc = "pump" /\ ~h.responded) =>
          \A m \in Attempts : m < h.att => Mute(m)
    /\ h.pc = "markSent" \/ (h.pc = "pump" /\ ~h.responded) =>
          (Spoke(h.att) => chan[h.att] # NoResp)
    /\ h.pc \in {"step", "relay"} => h.responded
    /\ h.pc \in Allocating /\ h.att # 0 => h.responded

----------------------------------------------------------------------------
(* What the building blocks change. *)

\* A final the handler sends: one more try, and the caller keeps its first one.
LEMMA FinalEffect ==
    ASSUME TypeOK, NEW code, Final(code)
    PROVE  /\ caller'.tries = caller.tries + 1
           /\ caller'.bridged = caller.bridged /\ caller'.orphaned = caller.orphaned
           /\ caller'.final = IF caller.final = "none" THEN code ELSE caller.final
BY DEF Final, TypeOK, CallerStates

\* The three ways the handler moves on, field by field.
LEMMA GotoEffect ==
    ASSUME TypeOK, NEW p, Goto(p)
    PROVE  /\ h'.pc = p /\ h'.att = h.att /\ h'.resp = h.resp
           /\ h'.responded = h.responded /\ h'.finalised = h.finalised
BY DEF Goto, TypeOK, HandlerStates

\* The pump left for good: its response is dropped.
LEMMA AfterPumpEffect ==
    ASSUME TypeOK, NEW x, AfterPump(x)
    PROVE  /\ h'.pc = (IF x THEN "untrack" ELSE "giveUp") /\ h'.att = h.att
           /\ h'.resp = NoResp
           /\ h'.responded = h.responded /\ h'.finalised = h.finalised
BY DEF AfterPump, TypeOK, HandlerStates

\* Back to the pump for the next response.
LEMMA ToPumpEffect ==
    ASSUME TypeOK, ToPump
    PROVE  /\ h'.pc = "pump" /\ h'.att = h.att /\ h'.resp = NoResp
           /\ h'.responded = h.responded /\ h'.finalised = h.finalised
BY DEF ToPump, TypeOK, HandlerStates

\* The 2xx confirms the record, or is refused.
LEMMA ConfirmEffect ==
    ASSUME TypeOK, Confirm
    PROVE  /\ h.pc = "commit" /\ h'.att = h.att /\ h'.resp = h.resp /\ h'.finalised = h.finalised
           /\ d'.media = d.media /\ d'.cancelled = d.cancelled /\ d'.callerGone = d.callerGone
           /\ d'.inFlight = d.inFlight
           /\ \/ d'.state = "Confirmed" /\ h'.pc = "arm"
              \/ d'.state = d.state /\ h'.pc = "relayErr"
<1>1. ASSUME d' = [d EXCEPT !.state = "Confirmed", !.tag = <<h.att, h.resp.f>>]
      PROVE  /\ d'.state = "Confirmed" /\ d'.media = d.media /\ d'.cancelled = d.cancelled
             /\ d'.callerGone = d.callerGone /\ d'.inFlight = d.inFlight
  BY <1>1 DEF TypeOK, Records
<1>2. h.pc = "commit"
  BY DEF Confirm, At
<1>3. \/ d' = [d EXCEPT !.state = "Confirmed", !.tag = <<h.att, h.resp.f>>] /\ Goto("arm")
      \/ d' = d /\ Goto("relayErr")
  BY DEF Confirm
<1>4. CASE d' = [d EXCEPT !.state = "Confirmed", !.tag = <<h.att, h.resp.f>>] /\ Goto("arm")
  BY <1>1, <1>2, <1>4, GotoEffect
<1>5. CASE d' = d /\ Goto("relayErr")
  BY <1>2, <1>5, GotoEffect
<1> QED
  BY <1>3, <1>4, <1>5

\* The pump's error: the CANCEL won, or the caller is refused.
LEMMA RelayErrEffect ==
    ASSUME TypeOK, RelayErr
    PROVE  /\ h.pc = "relayErr" /\ h'.att = h.att /\ h'.pc \in {"untrack", "giveUp", "abandon"}
           /\ h'.responded = h.responded
<1>1. h.pc = "relayErr"
  BY DEF RelayErr, At
<1>2. CASE d.cancelled
  <2>1. AfterPump(d.callerGone)
    BY <1>2 DEF RelayErr
  <2> QED
    BY <1>1, <2>1, AfterPumpEffect
<1>3. CASE ~d.cancelled
  <2>1. h' = [h EXCEPT !.pc = IF h.resp.k = "2xx" THEN "untrack" ELSE "abandon", !.finalised = TRUE]
    BY <1>3 DEF RelayErr
  <2>2. /\ h'.pc = IF h.resp.k = "2xx" THEN "untrack" ELSE "abandon"
        /\ h'.att = h.att /\ h'.responded = h.responded
    BY <2>1 DEF TypeOK, HandlerStates
  <2> QED
    BY <1>1, <2>2
<1> QED
  BY <1>2, <1>3

\* Steps outside the handler leave it where it is and send no final.
LEMMA OutsideHandler ==
    ASSUME TypeOK, [Next]_vars, ~Handler
    PROVE  h' = h /\ caller'.tries = caller.tries
<1>1. ASSUME NEW t \in tasks, Goroutine(t) \/ OrphanCancel(t) PROVE UNCHANGED <<h, caller>>
  BY <1>1 DEF Goroutine, SendCancel, SendCancelDone, Late2xx, Late2xxEarly, AckCallee,
     Linger, CloseSession, OrphanCancel
<1>2. CASE Backstop \/ AckExpired \/ CallerAck \/ CallEnds \/ Close \/ CloseAll \/ UNCHANGED vars
  BY <1>2 DEF Backstop, AckExpired, CallerAck, CallEnds, Close, CloseAll, vars
<1>3. CASE CallerCancel \/ OrphanLookup
  BY <1>3 DEF CallerCancel, OrphanLookup, TypeOK, CallerStates
<1>4. ASSUME NEW n \in Attempts, Decline(n) \/ TxDies(n) PROVE UNCHANGED <<h, caller>>
  BY <1>4 DEF Decline, TxDies
<1>5. ASSUME NEW n \in Attempts, NEW f \in Forks, Ring(n, f) \/ Answer(n, f) \/ Deliver2xx(n, f)
      PROVE  UNCHANGED <<h, caller>>
  BY <1>5 DEF Ring, Answer, Deliver2xx
<1> QED
  BY <1>1, <1>2, <1>3, <1>4, <1>5 DEF Next

----------------------------------------------------------------------------
(* One final response. *)

\* Every step keeps the count of finals: a point that may still send one has
\* sent none.
LEMMA FinalStep == TypeOK /\ FinalInv /\ [Next]_vars => FinalInv'
<1> SUFFICES ASSUME TypeOK, FinalInv, [Next]_vars PROVE FinalInv'
  OBVIOUS
<1>0. h.pc \in Points /\ h.finalised \in BOOLEAN /\ caller.tries \in Nat
  BY DEF TypeOK, HandlerStates, CallerStates
<1> USE <1>0, GotoEffect, FinalEffect, AfterPumpEffect, ToPumpEffect
        DEF FinalInv, OneFinal, Closing, At
<1>1. CASE Begin
  BY <1>1 DEF Begin
<1>2. CASE Open
  BY <1>2 DEF Open, MediaFailed
<1>3. CASE Alloc
  BY <1>3 DEF Alloc, MediaFailed
<1>4. CASE Attach
  BY <1>4 DEF Attach, MediaFailed
<1>5. CASE BridgeCancel
  BY <1>5 DEF BridgeCancel, TypeOK, CallerStates
<1>6. CASE NextAttempt
  <2>1. CASE h' = [h EXCEPT !.pc = "track", !.att = @ + 1] /\ UNCHANGED caller
    BY <1>6, <2>1 DEF NextAttempt, TypeOK, HandlerStates
  <2> QED BY <1>6, <2>1 DEF NextAttempt
<1>7. CASE Track \/ Send \/ PumpContext \/ Confirm \/ ArmAck \/ SetRelayed2xx
  <2>1. UNCHANGED caller /\ h.pc \in {"track", "send", "pump", "commit", "arm", "record"}
    BY <1>7 DEF Track, Send, PumpContext, Confirm, ArmAck, SetRelayed2xx
  <2>2. h'.finalised = h.finalised
    BY <1>7, ConfirmEffect DEF Track, Send, PumpContext, ArmAck, SetRelayed2xx
  <2> QED BY <2>1, <2>2
<1>8. CASE MarkSent \/ PumpResponse
  <2>1. h'.pc \in {"pump", "step"} /\ h'.finalised = h.finalised
    <3>1. CASE h' = [h EXCEPT !.pc = "pump", !.responded = FALSE]
      BY <3>1 DEF TypeOK, HandlerStates
    <3>2. CASE h' = [h EXCEPT !.pc = "step", !.resp = chan[h.att], !.responded = TRUE]
      BY <3>2 DEF TypeOK, HandlerStates
    <3> QED BY <1>8, <3>1, <3>2 DEF MarkSent, PumpResponse
  <2> QED BY <1>8, <2>1 DEF MarkSent, PumpResponse
<1>9. CASE PumpDone \/ Step
  BY <1>9 DEF PumpDone, Step
<1>10. CASE Relay
  BY <1>10 DEF Relay, MediaFailed
<1>11. CASE Respond2xx \/ GiveUp \/ Untrack \/ Abandon \/ Drain
  BY <1>11 DEF Respond2xx, GiveUp, Untrack, Abandon, Drain
<1>12. CASE RelayErr
  <2>1. CASE d.cancelled
    BY <1>12, <2>1 DEF RelayErr
  <2>2. CASE ~d.cancelled
    <3>1. h'.finalised /\ h'.pc \in {"untrack", "abandon"}
      BY <1>12, <2>2 DEF RelayErr, TypeOK, HandlerStates
    <3> QED BY <1>12, <2>2, <3>1 DEF RelayErr
  <2> QED BY <2>1, <2>2
<1>13. CASE EndUnlessUp
  BY <1>13 DEF EndUnlessUp, TypeOK, HandlerStates
<1>14. CASE UNCHANGED h /\ caller'.tries = caller.tries
  BY <1>14
<1> QED
  BY <1>1, <1>2, <1>3, <1>4, <1>5, <1>6, <1>7, <1>8, <1>9, <1>10, <1>11, <1>12, <1>13,
     <1>14, OutsideHandler DEF Handler

----------------------------------------------------------------------------
(* The response in hand. *)

\* Every step keeps the response in hand what its program point expects.
LEMMA RespStep == TypeOK /\ RespInv /\ [Next]_vars => RespInv'
<1> SUFFICES ASSUME TypeOK, RespInv, [Next]_vars PROVE RespInv'
  OBVIOUS
<1>0. h.pc \in Points /\ h.att \in 0..N /\ h.resp \in Responses \cup {NoResp}
  BY DEF TypeOK, HandlerStates
<1> USE <1>0, NAssumption, GotoEffect, AfterPumpEffect, ToPumpEffect
        DEF RespInv, Closing, Allocating, At
<1>1. CASE Begin
  BY <1>1 DEF Begin, NoResp
<1>2. CASE Open \/ Alloc
  BY <1>2 DEF Open, Alloc, MediaFailed, Responses, NoResp
<1>3. CASE Attach
  BY <1>3 DEF Attach, MediaFailed, Responses, NoResp
<1>4. CASE NextAttempt
  <2>1. CASE h' = [h EXCEPT !.pc = "track", !.att = @ + 1]
    <3>1. h'.pc = "track" /\ h'.att = h.att + 1 /\ h'.resp = h.resp
      BY <2>1 DEF TypeOK, HandlerStates
    <3> QED BY <1>4, <3>1 DEF NextAttempt
  <2> QED BY <1>4, <2>1 DEF NextAttempt
<1>5. CASE BridgeCancel \/ Track \/ Send \/ PumpContext \/ ArmAck \/ SetRelayed2xx
           \/ Confirm \/ Respond2xx \/ GiveUp \/ Untrack \/ Abandon
  BY <1>5 DEF BridgeCancel, Track, Send, PumpContext, ArmAck, SetRelayed2xx, Confirm,
     Respond2xx, GiveUp, Untrack, Abandon
<1>6. CASE MarkSent
  <2>1. h'.pc = "pump" /\ h'.att = h.att /\ h'.resp = h.resp
    BY <1>6 DEF MarkSent, TypeOK, HandlerStates
  <2> QED BY <1>6, <2>1 DEF MarkSent
<1>7. CASE PumpResponse
  <2>1. h'.pc = "step" /\ h'.att = h.att /\ h'.resp = chan[h.att]
    BY <1>7 DEF PumpResponse, TypeOK, HandlerStates
  <2> QED BY <1>7, <2>1 DEF PumpResponse
<1>8. CASE PumpDone \/ Step \/ Drain
  BY <1>8 DEF PumpDone, Step, Drain
<1>9. CASE Relay
  BY <1>9 DEF Relay, MediaFailed, Responses, NoResp
<1>10. CASE RelayErr
  <2>1. h'.att = h.att /\ h'.pc \in {"untrack", "abandon", "giveUp"}
    BY <1>10 DEF RelayErr, TypeOK, HandlerStates
  <2> QED BY <1>10, <2>1 DEF RelayErr
<1>11. CASE EndUnlessUp
  BY <1>11 DEF EndUnlessUp, TypeOK, HandlerStates
<1>12. CASE UNCHANGED h
  BY <1>12
<1> QED
  BY <1>1, <1>2, <1>3, <1>4, <1>5, <1>6, <1>7, <1>8, <1>9, <1>10, <1>11, <1>12,
     OutsideHandler DEF Handler

----------------------------------------------------------------------------
(* Types. *)

HookStates == [live : BOOLEAN, rejected : SUBSET Legs]

\* Moving the handler keeps its type.
LEMMA MoveType ==
    ASSUME TypeOK
    PROVE  /\ \A p \in Points : Goto(p) => h' \in HandlerStates
           /\ \A x : AfterPump(x) => h' \in HandlerStates
           /\ ToPump => h' \in HandlerStates
<1>1. ASSUME NEW p \in Points, Goto(p) PROVE h' \in HandlerStates
  BY <1>1 DEF Goto, TypeOK, HandlerStates
<1>2. ASSUME NEW x, AfterPump(x) PROVE h' \in HandlerStates
  BY <1>2 DEF AfterPump, TypeOK, HandlerStates, Points
<1>3. ASSUME ToPump PROVE h' \in HandlerStates
  BY <1>3 DEF ToPump, TypeOK, HandlerStates, Points
<1> QED
  BY <1>1, <1>2, <1>3

\* The first or second try of a final keeps the caller's type.
LEMMA FinalType ==
    ASSUME TypeOK, caller.tries <= 1, NEW code \in Finals, Final(code)
    PROVE  caller' \in CallerStates
<1>1. caller.tries + 1 \in 0..2
  BY DEF TypeOK, CallerStates
<1>2. (IF caller.final = "none" THEN code ELSE caller.final) \in Finals \cup {"none"}
  BY DEF TypeOK, CallerStates
<1> QED
  BY <1>1, <1>2 DEF Final, TypeOK, CallerStates

\* Refusing a 2xx (refuse2xx) keeps the hook's and the goroutines' types.
LEMMA RefuseType ==
    ASSUME TypeOK, NEW n \in Attempts, NEW f \in Forks, Refuse2xx(n, f)
    PROVE  hook' \in HookStates /\ tasks' \subseteq Tasks
<1>1. <<n, f>> \in Legs
  BY DEF Legs
<1>2. Task("ack", n, f) \in Tasks /\ Task("ackbye", n, f) \in Tasks
  BY DEF Task, Tasks
<1> QED
  BY <1>1, <1>2 DEF Refuse2xx, Spawn, TypeOK, HookStates

\* A media failure, at any point that may meet one, keeps the types.
LEMMA MediaFailedType ==
    ASSUME TypeOK, FinalInv, RespInv, MediaFailed,
           h.pc \in Allocating \cup {"relay"}
    PROVE  /\ h' \in HandlerStates /\ caller' \in CallerStates
           /\ hook' \in HookStates /\ tasks' \subseteq Tasks
<1>1. CASE h.resp = NoResp /\ Final("refused") /\ Goto("return") /\ UNCHANGED <<hook, tasks>>
  <2>1. "refused" \in Finals /\ "return" \in Points /\ caller.tries <= 1
    BY DEF Finals, Points, FinalInv, OneFinal
  <2> QED BY <1>1, <2>1, FinalType, MoveType DEF TypeOK, HookStates
<1>2. CASE h.resp.k = "2xx" /\ Refuse2xx(h.att, h.resp.f) /\ Goto("relayErr") /\ UNCHANGED caller
  <2>1. h.att \in Attempts
    BY <1>2, NAssumption DEF RespInv, TypeOK, HandlerStates, NoResp, Attempts, Allocating, Closing
  <2>2. h.resp.f \in Forks
    BY <1>2 DEF TypeOK, HandlerStates, Responses, NoResp
  <2>3. "relayErr" \in Points
    BY DEF Points
  <2> QED BY <1>2, <2>1, <2>2, <2>3, RefuseType, MoveType DEF TypeOK
<1>3. CASE h.resp.k = "1xx" /\ Goto("relayErr") /\ UNCHANGED <<hook, tasks, caller>>
  <2>1. "relayErr" \in Points
    BY DEF Points
  <2> QED BY <1>3, <2>1, MoveType DEF TypeOK, HookStates
<1> QED
  BY <1>1, <1>2, <1>3 DEF MediaFailed

\* A dialog record with one field changed.
LEMMA RecordFields ==
    ASSUME NEW r \in Records
    PROVE  /\ \A x \in {"none", "Early", "Confirmed", "Ended"} : [r EXCEPT !.state = x] \in Records
           /\ \A x \in BOOLEAN : [r EXCEPT !.cancelled = x] \in Records
           /\ \A x \in BOOLEAN : [r EXCEPT !.callerGone = x] \in Records
           /\ \A x \in 0..N : [r EXCEPT !.inFlight = x] \in Records
           /\ \A x \in BOOLEAN : [r EXCEPT !.media = x] \in Records
           /\ \A x \in Legs \cup {NoTag} : [r EXCEPT !.tag = x] \in Records
           /\ \A x \in BOOLEAN : [r EXCEPT !.ok = x] \in Records
           /\ \A x \in BOOLEAN : [r EXCEPT !.ack = x] \in Records
BY DEF Records

\* cancelSeries keeps the types of the record and of the attempts.
LEMMA CancelSeriesType ==
    ASSUME TypeOK, NEW why, CancelSeries(why)
    PROVE  d' \in Records /\ a' \in [Attempts -> [sent : BOOLEAN, taken : BOOLEAN]]
<1>1. d' \in Records
  <2> DEFINE gone == d.callerGone \/ why = "caller"
             r1 == [d EXCEPT !.cancelled = TRUE]
             r2 == [r1 EXCEPT !.callerGone = gone]
             r3 == [r2 EXCEPT !.inFlight = 0]
  <2>1. d \in Records /\ d.callerGone \in BOOLEAN
    BY DEF TypeOK, Records
  <2>2. r1 \in Records
    BY <2>1, RecordFields
  <2>3. gone \in BOOLEAN
    OBVIOUS
  <2>4. r2 \in Records
    BY <2>2, <2>3, RecordFields
  <2>5. r3 \in Records
    <3>1. 0 \in 0..N
      BY NAssumption
    <3> HIDE DEF r2
    <3> QED BY <2>4, <3>1, RecordFields
  <2>6. d' = d \/ d' = r3
    BY DEF CancelSeries, CancelledRecord, TypeOK, Records
  <2> QED BY <2>1, <2>5, <2>6
<1>2. a' \in [Attempts -> [sent : BOOLEAN, taken : BOOLEAN]]
  BY DEF CancelSeries, TypeOK
<1> QED
  BY <1>1, <1>2

\* Ending the record keeps the types.
LEMMA EndType ==
    ASSUME TypeOK, End
    PROVE  d' \in Records /\ tasks' \subseteq Tasks
<1>1. d' \in Records
  <2> DEFINE r1 == [d EXCEPT !.state = "Ended"]
             r2 == [r1 EXCEPT !.inFlight = 0]
  <2>1. r1 \in Records
    BY RecordFields DEF TypeOK
  <2>2. r2 \in Records
    <3>1. 0 \in 0..N
      BY NAssumption
    <3> HIDE DEF r1
    <3> QED BY <2>1, <3>1, RecordFields
  <2>3. [r2 EXCEPT !.ack = FALSE] \in Records
    BY <2>2, RecordFields
  <2>4. d' = [r2 EXCEPT !.ack = FALSE]
    BY DEF End, Ended
  <2> QED BY <2>3, <2>4
<1>2. Task("close", 0, {}) \in Tasks
  BY NAssumption DEF Task, Tasks
<1> QED
  BY <1>1, <1>2 DEF End, Spawn, TypeOK

\* Every step keeps the types; the counters need the invariants that bound them.
LEMMA TypeStep ==
    TypeOK /\ FinalInv /\ RespInv /\ CancelInv /\ [Next]_vars => TypeOK'
<1> SUFFICES ASSUME TypeOK, FinalInv, RespInv, CancelInv, [Next]_vars PROVE TypeOK'
  OBVIOUS
<1> USE DEF callee
<1>a. /\ caller.tries <= 1 /\ Finals = {"2xx", "487", "refused"}
      /\ 0 \in 0..N
  BY NAssumption DEF FinalInv, OneFinal, Finals, TypeOK
<1>b. /\ h.att \in 0..N /\ h.resp \in Responses \cup {NoResp} /\ d \in Records
      /\ h.pc \notin Allocating \cup Closing \cup {"begin", "bridge", "loop", "giveUp"} => h.att \in Attempts
      /\ h.resp.k = "2xx" => h.resp.f \in Forks
      /\ \A n \in Attempts : chan[n].k = "2xx" => chan[n].f \in Forks
  <2>1. h.att \in 0..N /\ h.resp \in Responses \cup {NoResp} /\ d \in Records
    BY DEF TypeOK, HandlerStates
  <2>2. \A r \in Responses \cup {NoResp} : r.k = "2xx" => r.f \in Forks
    BY DEF Responses, NoResp
  <2>3. \A n \in Attempts : chan[n] \in Responses \cup {NoResp}
    BY DEF TypeOK
  <2>4. h.att # 0 => h.att \in Attempts
    BY <2>1, NAssumption DEF Attempts
  <2> QED BY <2>1, <2>2, <2>3, <2>4 DEF RespInv
<1>c. CtxCancel => ctx' \in {"live", "cancelled", "deadline"}
  BY DEF CtxCancel, TypeOK
<1>d. \A n \in 0..N : {Task("cancel", n, {}), Task("linger", n, {}), Task("cancelctx", n, {}),
                        Task("orphan", n, {})} \subseteq Tasks
  BY DEF Task, Tasks
<1>e. \A n \in Attempts, f \in Forks :
         {Task("late", n, f), Task("lateEarly", n, f), Task("ack", n, f), Task("ackbye", n, f)} \subseteq Tasks
  BY DEF Task, Tasks
<1>f. \A t \in tasks : /\ t.n \in 0..N
                       /\ t.k \in {"late", "lateEarly", "ack", "ackbye"} => t.n \in Attempts /\ t.f \in Forks
                       /\ t.k \in {"cancel", "linger"} => t.n \in Attempts
  <2>1. Attempts \subseteq 0..N /\ 0 \in 0..N
    BY NAssumption DEF Attempts
  <2>2. \A t \in Tasks : /\ t.n \in 0..N
                         /\ t.k \in {"late", "lateEarly", "ack", "ackbye"} => t.n \in Attempts /\ t.f \in Forks
    BY <2>1 DEF Tasks
  <2> QED BY <2>2 DEF TypeOK, CancelInv
<1>1. CASE Begin
  <2>1. Goto("done") \/ Goto("bridge") \/ Goto("open")
    BY <1>1 DEF Begin
  <2>2. h' \in HandlerStates
    BY <2>1, MoveType DEF Points
  <2>3. caller' \in CallerStates
    BY <1>1, <1>a, FinalType DEF Begin, TypeOK
  <2>4. d' \in Records
    BY <1>1, <1>b, RecordFields DEF Begin
  <2>5. hook' \in HookStates
    BY <1>1 DEF Begin, TypeOK, HookStates
  <2> QED BY <1>1, <2>2, <2>3, <2>4, <2>5 DEF Begin, TypeOK, HookStates
<1>2. CASE Open
  <2>1. h.pc \in Allocating
    BY <1>2 DEF Open, At, Allocating
  <2>2. CASE MediaFailed
    BY <1>2, <2>1, <2>2, MediaFailedType DEF Open, TypeOK, HookStates
  <2>3. CASE Goto("alloc") /\ UNCHANGED <<hook, tasks, caller>>
    <3>1. h' \in HandlerStates
      BY <2>3, MoveType DEF Points
    <3> QED BY <1>2, <2>3, <3>1 DEF Open, TypeOK
  <2> QED BY <1>2, <2>2, <2>3 DEF Open
<1>3. CASE Alloc
  <2>1. h.pc \in Allocating
    BY <1>3 DEF Alloc, At, Allocating
  <2>2. CASE MediaFailed
    BY <1>3, <2>1, <2>2, MediaFailedType DEF Alloc, TypeOK, HookStates
  <2>3. CASE Goto("attach") /\ UNCHANGED <<hook, tasks, caller>>
    <3>1. h' \in HandlerStates
      BY <2>3, MoveType DEF Points
    <3> QED BY <1>3, <2>3, <3>1 DEF Alloc, TypeOK
  <2> QED BY <1>3, <2>2, <2>3 DEF Alloc
<1>4. CASE Attach
  <2>1. h.pc \in Allocating
    BY <1>4 DEF Attach, At, Allocating
  <2>2. CASE closed \/ d.state = "Ended"
    BY <1>4, <2>1, <2>2, MediaFailedType DEF Attach, TypeOK, HookStates
  <2>3. CASE ~(closed \/ d.state = "Ended")
    <3>1. Goto("bridge") \/ Goto("commit") \/ ToPump
      BY <1>4, <2>3 DEF Attach
    <3>2. h' \in HandlerStates
      BY <3>1, MoveType DEF Points
    <3>3. d' \in Records
      BY <1>4, <1>b, <2>3, RecordFields DEF Attach
    <3> QED BY <1>4, <2>3, <3>2, <3>3 DEF Attach, TypeOK
  <2> QED BY <2>2, <2>3
<1>5. CASE BridgeCancel
  <2>1. Goto("return") \/ Goto("loop")
    BY <1>5 DEF BridgeCancel
  <2>2. h' \in HandlerStates
    BY <2>1, MoveType DEF Points
  <2>3. caller' \in CallerStates
    BY <1>5 DEF BridgeCancel, TypeOK, CallerStates
  <2> QED BY <1>5, <2>2, <2>3 DEF BridgeCancel, TypeOK
<1>6. CASE NextAttempt
  <2>1. caller' \in CallerStates
    BY <1>6, <1>a, FinalType DEF NextAttempt, TypeOK
  <2>2. h' \in HandlerStates
    <3>1. CASE Goto("giveUp") \/ Goto("untrack")
      BY <3>1, MoveType DEF Points
    <3>2. CASE h.att < N /\ h' = [h EXCEPT !.pc = "track", !.att = @ + 1]
      <4>1. h.att + 1 \in 0..N
        BY <1>b, <3>2, NAssumption
      <4> QED BY <3>2, <4>1 DEF TypeOK, HandlerStates, Points
    <3> QED BY <1>6, <3>1, <3>2 DEF NextAttempt
  <2> QED BY <1>6, <2>1, <2>2 DEF NextAttempt, TypeOK
<1>7. CASE Track
  <2>1. Goto("giveUp") \/ Goto("send")
    BY <1>7 DEF Track
  <2>2. h' \in HandlerStates
    BY <2>1, MoveType DEF Points
  <2>3. d' \in Records
    BY <1>7, <1>b, RecordFields DEF Track
  <2> QED BY <1>7, <2>2, <2>3 DEF Track, TypeOK
<1>8. CASE Send
  <2>1. Goto("giveUp") \/ Goto("loop") \/ Goto("markSent")
    BY <1>8 DEF Send
  <2>2. h' \in HandlerStates
    BY <2>1, MoveType DEF Points
  <2> QED BY <1>8, <2>2 DEF Send, TypeOK
<1>9. CASE MarkSent
  <2>1. h' \in HandlerStates
    BY <1>9 DEF MarkSent, TypeOK, HandlerStates, Points
  <2>2. tasks' \subseteq Tasks
    BY <1>9, <1>b, <1>d DEF MarkSent, TypeOK, Spawn
  <2> QED BY <1>9, <2>1, <2>2 DEF MarkSent, TypeOK
<1>10. CASE PumpResponse
  <2>1. h.att \in Attempts
    BY <1>10, <1>b DEF PumpResponse, At, Allocating, Closing
  <2>2. h' \in HandlerStates
    BY <1>10, <2>1 DEF PumpResponse, TypeOK, HandlerStates, Points
  <2> QED BY <1>10, <2>2 DEF PumpResponse, TypeOK
<1>11. CASE PumpDone \/ PumpContext
  <2>1. Goto("loop") \/ Goto("abandon") \/ AfterPump(d.callerGone)
    BY <1>11 DEF PumpDone, PumpContext
  <2>2. h' \in HandlerStates
    BY <2>1, MoveType DEF Points
  <2> QED BY <1>11, <2>2 DEF PumpDone, PumpContext, TypeOK
<1>12. CASE Step
  <2>1. Goto("relay") \/ Goto("abandon") \/ AfterPump(d.callerGone)
    BY <1>12 DEF Step
  <2>2. h' \in HandlerStates
    BY <2>1, MoveType DEF Points
  <2>3. h.att \in Attempts
    BY <1>12, <1>b DEF Step, At, Allocating, Closing
  <2>4. hook' \in HookStates /\ tasks' \subseteq Tasks
    <3>1. CASE h.resp.k = "2xx" /\ Refuse2xx(h.att, h.resp.f)
      BY <1>b, <2>3, <3>1, RefuseType
    <3>2. CASE UNCHANGED <<hook, tasks>>
      BY <3>2 DEF TypeOK, HookStates
    <3> QED BY <1>12, <3>1, <3>2 DEF Step
  <2> QED BY <1>12, <2>2, <2>4 DEF Step, TypeOK, HookStates
<1>13. CASE Relay
  <2>1. CASE MediaFailed
    BY <1>13, <2>1, MediaFailedType DEF Relay, At, TypeOK, HookStates
  <2>2. CASE ~MediaFailed
    <3>1. Goto("untrack") \/ Goto("open") \/ ToPump \/ Goto("commit")
      BY <1>13, <2>2 DEF Relay
    <3>2. h' \in HandlerStates
      BY <3>1, MoveType DEF Points
    <3>3. caller' \in CallerStates
      BY <1>13, <2>2, <1>a, FinalType DEF Relay, TypeOK
    <3>4. UNCHANGED <<hook, tasks>>
      BY <1>13, <2>2 DEF Relay
    <3> QED BY <1>13, <3>2, <3>3, <3>4 DEF Relay, TypeOK
  <2> QED BY <2>1, <2>2
<1>14. CASE Confirm
  <2>1. Goto("arm") \/ Goto("relayErr")
    BY <1>14 DEF Confirm
  <2>2. h' \in HandlerStates
    BY <2>1, MoveType DEF Points
  <2>3. h.att \in Attempts /\ h.resp.f \in Forks
    BY <1>14, <1>b DEF Confirm, At, Allocating, Closing, RespInv
  <2>4. d' \in Records
    <3>1. <<h.att, h.resp.f>> \in Legs \cup {NoTag}
      BY <2>3 DEF Legs
    <3> DEFINE r1 == [d EXCEPT !.state = "Confirmed"]
    <3>2. r1 \in Records
      BY <1>b, RecordFields
    <3>3. [r1 EXCEPT !.tag = <<h.att, h.resp.f>>] \in Records
      <4> HIDE DEF r1
      <4> QED BY <3>1, <3>2, RecordFields
    <3> QED BY <1>14, <1>b, <3>3 DEF Confirm
  <2>5. hook' \in HookStates /\ tasks' \subseteq Tasks
    <3>1. CASE Refuse2xx(h.att, h.resp.f)
      BY <2>3, <3>1, RefuseType
    <3>2. CASE UNCHANGED <<hook, tasks>>
      BY <3>2 DEF TypeOK, HookStates
    <3> QED BY <1>14, <3>1, <3>2 DEF Confirm
  <2> QED BY <1>14, <2>2, <2>4, <2>5 DEF Confirm, TypeOK, HookStates
<1>15. CASE ArmAck \/ SetRelayed2xx
  <2>1. Goto("record") \/ Goto("respond")
    BY <1>15 DEF ArmAck, SetRelayed2xx
  <2>2. h' \in HandlerStates
    BY <2>1, MoveType DEF Points
  <2>3. (d.state = "Confirmed") \in BOOLEAN
    OBVIOUS
  <2>4. d' \in Records
    BY <1>15, <1>b, <2>3, RecordFields DEF ArmAck, SetRelayed2xx
  <2> QED BY <1>15, <2>2, <2>4 DEF ArmAck, SetRelayed2xx, TypeOK
<1>16. CASE Respond2xx \/ GiveUp
  <2>1. h' \in HandlerStates
    BY <1>16, MoveType DEF Respond2xx, GiveUp, Points
  <2>2. caller' \in CallerStates
    BY <1>16, <1>a, FinalType DEF Respond2xx, GiveUp, TypeOK
  <2> QED BY <1>16, <2>1, <2>2 DEF Respond2xx, GiveUp, TypeOK
<1>17. CASE RelayErr
  <2>1. caller' \in CallerStates
    BY <1>17, <1>a, FinalType DEF RelayErr, TypeOK
  <2>2. h' \in HandlerStates
    <3>1. CASE AfterPump(d.callerGone)
      BY <3>1, MoveType
    <3>2. CASE h' = [h EXCEPT !.pc = IF h.resp.k = "2xx" THEN "untrack" ELSE "abandon",
                              !.finalised = TRUE]
      BY <3>2 DEF TypeOK, HandlerStates, Points
    <3> QED BY <1>17, <3>1, <3>2 DEF RelayErr
  <2> QED BY <1>17, <2>1, <2>2 DEF RelayErr, TypeOK
<1>18. CASE Abandon
  <2>1. h' \in HandlerStates
    BY <1>18, MoveType DEF Abandon, Points
  <2>2. d' \in Records /\ a' \in [Attempts -> [sent : BOOLEAN, taken : BOOLEAN]]
    BY <1>18, CancelSeriesType DEF Abandon
  <2>3. tasks' \subseteq Tasks
    BY <1>18, <1>d DEF Abandon, Spawn, TypeOK, Records
  <2> QED BY <1>18, <2>1, <2>2, <2>3 DEF Abandon, TypeOK
<1>19. CASE Drain
  <2>1. h.att \in Attempts
    BY <1>19, <1>b DEF Drain, At, Allocating, Closing
  <2>2. UNCHANGED h \/ AfterPump(h.finalised \/ d.callerGone)
    BY <1>19 DEF Drain
  <2>3. h' \in HandlerStates
    BY <2>2, MoveType DEF TypeOK
  <2>4. tx' \in [Attempts -> {"none", "calling", "proceeding", "accepted", "completed", "dead"}]
    BY <1>19 DEF Drain, TypeOK
  <2>5. chan' \in [Attempts -> Responses \cup {NoResp}]
    BY <1>19 DEF Drain, DrainEnds, TypeOK
  <2>6. hook' \in HookStates /\ tasks' \subseteq Tasks
    <3>1. CASE chan[h.att].k = "2xx" /\ Refuse2xx(h.att, chan[h.att].f)
      BY <1>b, <2>1, <3>1, RefuseType
    <3>2. CASE UNCHANGED hook /\ (UNCHANGED tasks \/ Spawn(Task("linger", h.att, {})))
      BY <3>2, <1>b, <1>d DEF TypeOK, HookStates, Spawn
    <3> QED BY <1>19, <3>1, <3>2 DEF Drain, DrainEnds
  <2> QED BY <1>19, <2>3, <2>4, <2>5, <2>6 DEF Drain, TypeOK, HookStates
<1>20. CASE Untrack
  <2>1. h' \in HandlerStates
    BY <1>20, MoveType DEF Untrack, Points
  <2>2. d' \in Records
    BY <1>20, <1>a, <1>b, RecordFields DEF Untrack
  <2> QED BY <1>20, <2>1, <2>2 DEF Untrack, TypeOK
<1>21. CASE EndUnlessUp
  <2>1. h' \in HandlerStates
    BY <1>21 DEF EndUnlessUp, TypeOK, HandlerStates, Points
  <2>2. d' \in Records /\ tasks' \subseteq Tasks
    BY <1>21, EndType DEF EndUnlessUp, TypeOK
  <2> QED BY <1>21, <1>c, <2>1, <2>2 DEF EndUnlessUp, TypeOK
<1>22. ASSUME NEW t \in tasks, SendCancel(t) \/ SendCancelDone(t) PROVE TypeOK'
  <2>1. CASE SendCancel(t)
    <3>1. cancels' \in [Attempts -> 0..2]
      BY <2>1, <1>f DEF SendCancel, TypeOK, CancelInv
    <3>2. tasks' \subseteq Tasks
      BY <2>1, <1>d, <1>f DEF SendCancel, TypeOK
    <3> QED BY <2>1, <3>1, <3>2 DEF SendCancel, TypeOK
  <2>2. CASE SendCancelDone(t)
    BY <2>2, <1>c DEF SendCancelDone, TypeOK
  <2> QED BY <1>22, <2>1, <2>2
<1>23. ASSUME NEW t \in tasks, Late2xx(t) \/ Late2xxEarly(t) PROVE TypeOK'
  <2>1. t.n \in Attempts /\ t.f \in Forks
    BY <1>23, <1>f DEF Late2xx, Late2xxEarly
  <2>2. <<t.n, t.f>> \in Legs
    BY <2>1 DEF Legs
  <2>3. hook' \in HookStates
    BY <1>23, <2>2 DEF Late2xx, Late2xxEarly, TypeOK, HookStates
  <2>4. tasks' \subseteq Tasks
    BY <1>23, <2>1, <1>e DEF Late2xx, Late2xxEarly, TypeOK
  <2> QED BY <1>23, <2>3, <2>4 DEF Late2xx, Late2xxEarly, TypeOK, HookStates
<1>24. ASSUME NEW t \in tasks, AckCallee(t) PROVE TypeOK'
  <2>1. leg' \in [Legs -> {"idle", "early", "answered", "acked", "byed"}]
    BY <1>24 DEF AckCallee, TypeOK
  <2>2. faults' \in 0..1
    BY <1>24 DEF AckCallee, May, TypeOK
  <2> QED BY <1>24, <2>1, <2>2 DEF AckCallee, TypeOK
<1>25. ASSUME NEW t \in tasks, Linger(t) PROVE TypeOK'
  <2>1. t.n \in Attempts
    BY <1>25, <1>f DEF Linger
  <2>2. tx' \in [Attempts -> {"none", "calling", "proceeding", "accepted", "completed", "dead"}]
    BY <1>25 DEF Linger, TypeOK
  <2>3. chan' \in [Attempts -> Responses \cup {NoResp}]
    BY <1>25 DEF Linger, TypeOK
  <2>4. hook' \in HookStates
    BY <1>25, <2>1, <1>b DEF Linger, TypeOK, HookStates, Legs
  <2>5. tasks' \subseteq Tasks
    BY <1>25, <2>1, <1>b, <1>e DEF Linger, TypeOK
  <2> QED BY <1>25, <2>2, <2>3, <2>4, <2>5 DEF Linger, TypeOK, HookStates
<1>26. ASSUME NEW t \in tasks, CloseSession(t) PROVE TypeOK'
  BY <1>26 DEF CloseSession, TypeOK
<1>27. ASSUME NEW t \in tasks, OrphanCancel(t) PROVE TypeOK'
  <2>1. d' \in Records /\ a' \in [Attempts -> [sent : BOOLEAN, taken : BOOLEAN]]
    BY <1>27, CancelSeriesType DEF OrphanCancel
  <2>2. tasks' \subseteq Tasks
    BY <1>27, <1>d DEF OrphanCancel, TypeOK, Records
  <2>3. ctx' \in {"live", "cancelled", "deadline"}
    BY <1>27, <1>c DEF OrphanCancel, TypeOK
  <2> QED BY <1>27, <2>1, <2>2, <2>3 DEF OrphanCancel, TypeOK
<1>28. CASE AckExpired \/ CallEnds
  <2>1. d' \in Records /\ tasks' \subseteq Tasks
    BY <1>28, EndType DEF AckExpired, CallEnds
  <2>2. leg' \in [Legs -> {"idle", "early", "answered", "acked", "byed"}]
    BY <1>28 DEF AckExpired, CallEnds, TypeOK
  <2> QED BY <1>28, <2>1, <2>2 DEF AckExpired, CallEnds, TypeOK
<1>29. CASE Backstop \/ Close
  BY <1>29 DEF Backstop, Close, TypeOK
<1>30. CASE CloseAll
  BY <1>30, EndType DEF CloseAll, TypeOK
<1>31. CASE CallerCancel
  <2>1. d' \in Records /\ a' \in [Attempts -> [sent : BOOLEAN, taken : BOOLEAN]]
    BY <1>31, CancelSeriesType DEF CallerCancel, TypeOK
  <2>2. tasks' \subseteq Tasks
    BY <1>31, <1>d DEF CallerCancel, Spawn, TypeOK, Records
  <2>3. ctx' \in {"live", "cancelled", "deadline"}
    BY <1>31, <1>c DEF CallerCancel, TypeOK
  <2>4. caller' \in CallerStates
    BY <1>31, <1>a DEF CallerCancel, TypeOK, CallerStates
  <2> QED BY <1>31, <2>1, <2>2, <2>3, <2>4 DEF CallerCancel, TypeOK
<1>32. CASE OrphanLookup
  <2>1. caller' \in CallerStates
    BY <1>32 DEF OrphanLookup, TypeOK, CallerStates
  <2>2. tasks' \subseteq Tasks
    BY <1>32, <1>a, <1>d DEF OrphanLookup, Spawn, TypeOK
  <2> QED BY <1>32, <2>1, <2>2 DEF OrphanLookup, TypeOK
<1>33. CASE CallerAck
  <2>1. d' \in Records
    BY <1>33, <1>b, RecordFields DEF CallerAck
  <2>2. leg' \in [Legs -> {"idle", "early", "answered", "acked", "byed"}]
    BY <1>33 DEF CallerAck, TypeOK
  <2> QED BY <1>33, <2>1, <2>2 DEF CallerAck, TypeOK
<1>34. ASSUME NEW n \in Attempts, Decline(n) \/ TxDies(n) PROVE TypeOK'
  BY <1>34 DEF Decline, TxDies, TypeOK, Responses
<1>35. ASSUME NEW n \in Attempts, NEW f \in Forks, Ring(n, f) \/ Answer(n, f) PROVE TypeOK'
  <2>1. chan' \in [Attempts -> Responses \cup {NoResp}]
    BY <1>35 DEF Ring, Answer, TypeOK, Responses
  <2>2. leg' \in [Legs -> {"idle", "early", "answered", "acked", "byed"}]
    BY <1>35 DEF Ring, Answer, TypeOK
  <2> QED BY <1>35, <2>1, <2>2 DEF Ring, Answer, TypeOK
<1>36. ASSUME NEW n \in Attempts, NEW f \in Forks, Deliver2xx(n, f) PROVE TypeOK'
  <2>1. tasks' \subseteq Tasks
    BY <1>36, <1>e DEF Deliver2xx, Spawn, TypeOK
  <2>2. chan' \in [Attempts -> Responses \cup {NoResp}]
    BY <1>36 DEF Deliver2xx, TypeOK, Responses
  <2> QED BY <1>36, <2>1, <2>2 DEF Deliver2xx, TypeOK
<1>37. CASE UNCHANGED vars
  BY <1>37 DEF vars, TypeOK
<1> QED
  BY <1>1, <1>2, <1>3, <1>4, <1>5, <1>6, <1>7, <1>8, <1>9, <1>10, <1>11, <1>12, <1>13,
     <1>14, <1>15, <1>16, <1>17, <1>18, <1>19, <1>20, <1>21, <1>22, <1>23, <1>24, <1>25,
     <1>26, <1>27, <1>28, <1>29, <1>30, <1>31, <1>32, <1>33, <1>34, <1>35, <1>36, <1>37
     DEF Next, Handler, Goroutine

----------------------------------------------------------------------------
(* At most one CANCEL per INVITE, and never before it. *)

\* A step that moves no attempt on and touches no CANCEL.
LEMMA CancelFrame ==
    ASSUME TypeOK, CancelInv,
           UNCHANGED <<a, cancels>>,
           \A n \in Attempts : tx'[n] = "none" <=> tx[n] = "none",
           \A t \in Tasks : t.k = "cancel" => (t \in tasks' <=> t \in tasks),
           \A t \in tasks' : t.k = "linger" => t \in tasks,
           tasks' \subseteq Tasks,
           d'.inFlight \in {0, d.inFlight}, h'.att = h.att,
           h'.pc \in {"track", "send", "markSent"} => h'.pc = h.pc,
           h'.att # 0 /\ h'.pc \in Holding \cup {"drain"} => a[h.att].sent
    PROVE  CancelInv'
<1> USE NAssumption DEF Attempts
<1>1. h.att \in 0..N /\ d.inFlight \in 0..N /\ tasks \subseteq Tasks
  BY DEF TypeOK, HandlerStates, Records
<1>2. \A n \in Attempts : Task("cancel", n, {}) \in Tasks
  BY DEF Task, Tasks
<1>3. \A n \in Attempts : Task("cancel", n, {}).k = "cancel"
  BY DEF Task
<1>4. \A n \in Attempts : a[n].sent /\ a[n].taken =>
          cancels'[n] = 1 \/ Task("cancel", n, {}) \in tasks'
  BY <1>2, <1>3 DEF CancelInv
<1>5. \A t \in tasks' : t.k = "cancel" =>
          t.n \in Attempts /\ a[t.n].sent /\ a[t.n].taken /\ cancels[t.n] = 0
  BY DEF CancelInv
<1>6. \A t \in tasks' : t.k = "linger" => t.n \in Attempts /\ a[t.n].sent
  BY DEF CancelInv
<1>7. \A n \in Attempts : a[n].sent => tx'[n] # "none"
  BY DEF CancelInv
<1>8. \A n \in Attempts : n > h'.att \/ (n = h'.att /\ h'.pc = "track") =>
          ~a[n].sent /\ ~a[n].taken /\ tx'[n] = "none"
  BY DEF CancelInv
<1>9. /\ d'.inFlight # 0 => ~a[d'.inFlight].taken
      /\ d'.inFlight <= h'.att /\ (h'.pc = "track" => d'.inFlight < h'.att)
  BY <1>1 DEF CancelInv
<1>10. /\ h'.pc = "send" => h'.att # 0 /\ ~a[h'.att].sent /\ tx'[h'.att] = "none"
       /\ h'.pc = "markSent" => h'.att # 0 /\ ~a[h'.att].sent /\ tx'[h'.att] # "none"
  BY <1>1 DEF CancelInv
<1> QED
  BY <1>4, <1>5, <1>6, <1>7, <1>8, <1>9, <1>10 DEF CancelInv

\* No CANCEL and no lingering wait is started or ended.
TaskQuiet == \A t \in Tasks : t.k \in {"cancel", "linger"} => (t \in tasks' <=> t \in tasks)

\* The steps that touch neither.
LEMMA QuietTasks ==
    /\ UNCHANGED tasks => TaskQuiet
    /\ End => TaskQuiet
    /\ \A n, f : Refuse2xx(n, f) => TaskQuiet
    /\ MediaFailed => TaskQuiet
BY DEF TaskQuiet, End, Spawn, Task, Refuse2xx, MediaFailed

\* MediaFailed leaves the series, for the caller's refusal or the pump's error.
LEMMA MediaFailedMoves ==
    ASSUME TypeOK, MediaFailed
    PROVE  h'.att = h.att /\ h'.resp = h.resp /\ h'.finalised = h.finalised
           /\ ((h.resp = NoResp /\ h'.pc = "return") \/ (h.resp # NoResp /\ h'.pc = "relayErr"))
           /\ h'.responded = h.responded
<1>1. NoResp.k = "none"
  BY DEF NoResp
<1>2. \/ h.resp = NoResp /\ Goto("return")
      \/ h.resp.k \in {"1xx", "2xx"} /\ Goto("relayErr")
  BY DEF MediaFailed
<1> QED
  BY <1>1, <1>2, GotoEffect

\* Where the dialog record's attempt in flight goes.
LEMMA InFlightEffect ==
    ASSUME TypeOK
    PROVE  /\ End => d'.inFlight = 0
           /\ \A why : CancelSeries(why) => d'.inFlight = 0
<1>1. ASSUME End PROVE d'.inFlight = 0
  BY <1>1 DEF End, Ended, TypeOK, Records
<1>2. ASSUME NEW why, CancelSeries(why) PROVE d'.inFlight = 0
  BY <1>2 DEF CancelSeries, CancelledRecord, Takes, TypeOK, Records
<1> QED
  BY <1>1, <1>2

\* Taking the attempt in flight: its CANCEL is due now, or once it is sent.
LEMMA CancelTaken ==
    ASSUME TypeOK, TypeOK', CancelInv, NEW why, CancelSeries(why),
           h'.att = h.att, h'.pc \in {"track", "send", "markSent"} => h'.pc = h.pc,
           h'.att # 0 /\ h'.pc \in Holding \cup {"drain"} => a[h.att].sent,
           UNCHANGED <<tx, cancels>>,
           \A t \in Tasks : t.k = "linger" => (t \in tasks' <=> t \in tasks),
           \A t \in Tasks : t.k = "cancel" =>
              (t \in tasks' <=> t \in tasks \/ (SendNow /\ t = Task("cancel", d.inFlight, {})))
    PROVE  CancelInv'
<1>1. CASE ~Takes
  BY <1>1, CancelFrame DEF CancelSeries, CancelledRecord, Takes, SendNow, TypeOK
<1>2. CASE Takes
  <2>1. d.inFlight \in Attempts /\ d'.inFlight = 0 /\ h.att \in 0..N
    BY <1>2, NAssumption, InFlightEffect DEF Takes, TypeOK, Records, HandlerStates, Attempts
  <2>2. \A n \in Attempts : a'[n].sent = a[n].sent
                            /\ (a'[n].taken <=> a[n].taken \/ n = d.inFlight)
    BY <1>2, <2>1 DEF CancelSeries, TypeOK
  <2>3. ~a[d.inFlight].taken /\ cancels[d.inFlight] = 0
    BY <1>2, <2>1 DEF Takes, CancelInv, TypeOK
  <2>4. \A n \in Attempts : /\ Task("cancel", n, {}) \in Tasks /\ Task("cancel", n, {}).k = "cancel"
                            /\ Task("cancel", n, {}).n = n
    BY NAssumption DEF Task, Tasks, Attempts
  <2>5. \A t \in tasks' : t.k = "cancel" =>
          t.n \in Attempts /\ a'[t.n].sent /\ a'[t.n].taken /\ cancels'[t.n] = 0
    BY <2>1, <2>2, <2>3, <2>4 DEF CancelInv, SendNow, TypeOK
  <2>6. \A n \in Attempts : a'[n].sent /\ a'[n].taken =>
          cancels'[n] = 1 \/ Task("cancel", n, {}) \in tasks'
    BY <1>2, <2>1, <2>2, <2>4 DEF CancelInv, SendNow, Takes
  <2>7. \A n \in Attempts : n > h'.att \/ (n = h'.att /\ h'.pc = "track") =>
          ~a'[n].sent /\ ~a'[n].taken /\ tx'[n] = "none"
    BY <2>1, <2>2 DEF CancelInv, Attempts
  <2>8. /\ h'.pc = "send" => h'.att # 0 /\ ~a'[h'.att].sent /\ tx'[h'.att] = "none"
        /\ h'.pc = "markSent" => h'.att # 0 /\ ~a'[h'.att].sent /\ tx'[h'.att] # "none"
        /\ h'.att # 0 /\ h'.pc \in Holding \cup {"drain"} => a'[h'.att].sent
    BY <2>1, <2>2, NAssumption DEF CancelInv, Attempts
  <2>9. \A t \in tasks' : t.k = "linger" => t.n \in Attempts /\ a'[t.n].sent
    BY <2>2 DEF CancelInv, TypeOK
  <2>10. d'.inFlight <= h'.att /\ (h'.pc = "track" => d'.inFlight < h'.att)
    BY <2>1 DEF CancelInv, Attempts
  <2>11. \A n \in Attempts : cancels'[n] \in 0..1 /\ (cancels'[n] = 1 => a'[n].sent /\ a'[n].taken)
    BY <2>2 DEF CancelInv
  <2>12. \A n \in Attempts : a'[n].sent => tx'[n] # "none"
    BY <2>2 DEF CancelInv
  <2> QED BY <2>1, <2>5, <2>6, <2>7, <2>8, <2>9, <2>10, <2>11, <2>12 DEF CancelInv
<1> QED
  BY <1>1, <1>2

\* Every step keeps the CANCELs in order (dialog.track, markSent, cancelSeries).
LEMMA CancelStep ==
    TypeOK /\ RespInv /\ CancelInv /\ [Next]_vars /\ TypeOK' => CancelInv'
<1> SUFFICES ASSUME TypeOK, RespInv, CancelInv, [Next]_vars, TypeOK' PROVE CancelInv'
  OBVIOUS
<1> USE DEF callee
<1>a. /\ h.pc \in Points /\ h.att \in 0..N /\ d.inFlight \in 0..N
      /\ tasks \subseteq Tasks /\ tasks' \subseteq Tasks
  BY DEF TypeOK, HandlerStates, Records
<1>b. \A t \in tasks' : TaskQuiet /\ t.k = "linger" => t \in tasks
  BY <1>a DEF TaskQuiet
<1>1. ASSUME UNCHANGED <<a, cancels, tx>>, TaskQuiet, d'.inFlight \in {0, d.inFlight},
             h'.att = h.att, h'.pc \in {"track", "send", "markSent"} => h'.pc = h.pc,
             h'.att # 0 /\ h'.pc \in Holding \cup {"drain"} => h.pc \in Holding \cup {"drain"}
      PROVE  CancelInv'
  <2>1. h'.att # 0 /\ h'.pc \in Holding \cup {"drain"} => a[h.att].sent
    BY <1>1 DEF CancelInv
  <2> QED BY <1>1, <1>a, <1>b, <2>1, CancelFrame DEF TaskQuiet
<1>2. CASE Begin \/ Open \/ Alloc
  <2>1. UNCHANGED <<a, cancels, tx>> /\ d'.inFlight = d.inFlight
    BY <1>2 DEF Begin, Open, Alloc, TypeOK, Records
  <2>2. TaskQuiet
    BY <1>2, QuietTasks DEF Begin, Open, Alloc
  <2>3. h'.att = h.att /\ h'.pc \notin {"track", "send", "markSent"}
        /\ (h'.pc \in Holding => h.pc \in Holding \/ h.att = 0) /\ h'.pc # "drain"
    BY <1>2, GotoEffect, MediaFailedMoves DEF Begin, Open, Alloc, Holding, Allocating, At, RespInv
  <2> QED BY <1>1, <2>1, <2>2, <2>3
<1>3. CASE Attach
  <2>1. UNCHANGED <<a, cancels, tx>> /\ d'.inFlight = d.inFlight
    BY <1>3 DEF Attach, TypeOK, Records
  <2>2. TaskQuiet
    BY <1>3, QuietTasks DEF Attach
  <2>3. h'.att = h.att /\ h'.pc \notin {"track", "send", "markSent", "drain"} /\ h.pc \in Holding
    BY <1>3, GotoEffect, ToPumpEffect, MediaFailedMoves DEF Attach, Holding, Allocating, At
  <2> QED BY <1>1, <2>1, <2>2, <2>3
<1>4. CASE BridgeCancel \/ ArmAck \/ SetRelayed2xx \/ Respond2xx \/ GiveUp \/ Untrack
  <2>1. UNCHANGED <<a, cancels, tx>> /\ d'.inFlight \in {0, d.inFlight}
    BY <1>4 DEF BridgeCancel, ArmAck, SetRelayed2xx, Respond2xx, GiveUp, Untrack, TypeOK, Records
  <2>2. TaskQuiet
    BY <1>4, QuietTasks DEF BridgeCancel, ArmAck, SetRelayed2xx, Respond2xx, GiveUp, Untrack
  <2>3. h'.att = h.att /\ h'.pc \in {"return", "loop", "record", "respond", "untrack"}
    BY <1>4, GotoEffect DEF BridgeCancel, ArmAck, SetRelayed2xx, Respond2xx, GiveUp, Untrack
  <2> QED BY <1>1, <2>1, <2>2, <2>3 DEF Holding, Allocating
<1>5. CASE PumpResponse \/ PumpDone \/ PumpContext \/ Step \/ RelayErr
  <2>1. UNCHANGED <<a, cancels, tx, d>>
    BY <1>5 DEF PumpResponse, PumpDone, PumpContext, Step, RelayErr
  <2>2. TaskQuiet
    BY <1>5, QuietTasks DEF PumpResponse, PumpDone, PumpContext, Step, RelayErr
  <2>3. h.pc \in Holding
    BY <1>5 DEF PumpResponse, PumpDone, PumpContext, Step, RelayErr, At, Holding
  <2>4. h'.att = h.att /\ h'.pc \in {"step", "loop", "abandon", "relay", "untrack", "giveUp"}
    <3>1. CASE PumpResponse
      BY <3>1 DEF PumpResponse, TypeOK, HandlerStates
    <3>2. CASE RelayErr
      BY <3>2, RelayErrEffect
    <3> QED BY <1>5, <3>1, <3>2, GotoEffect, AfterPumpEffect DEF PumpDone, PumpContext, Step
  <2> QED BY <1>1, <2>1, <2>2, <2>3, <2>4
<1>6. CASE Relay \/ Confirm
  <2>1. UNCHANGED <<a, cancels, tx>> /\ d'.inFlight = d.inFlight
    <3>1. CASE Relay
      BY <3>1 DEF Relay
    <3>2. CASE Confirm
      BY <3>2, ConfirmEffect DEF Confirm
    <3> QED BY <1>6, <3>1, <3>2
  <2>2. TaskQuiet
    BY <1>6, QuietTasks DEF Relay, Confirm
  <2>3. h'.att = h.att /\ h'.pc \in {"untrack", "return", "relayErr", "open", "pump", "commit", "arm"}
    BY <1>6, GotoEffect, ToPumpEffect, MediaFailedMoves DEF Relay, Confirm
  <2> QED BY <1>1, <1>6, <2>1, <2>2, <2>3 DEF Relay, Confirm, Holding, At
<1>7. CASE EndUnlessUp
  <2>1. UNCHANGED <<a, cancels, tx>> /\ d'.inFlight \in {0, d.inFlight}
    BY <1>7, InFlightEffect DEF EndUnlessUp
  <2>2. TaskQuiet
    BY <1>7, QuietTasks DEF EndUnlessUp
  <2>3. h'.att = h.att /\ h'.pc = "done"
    BY <1>7 DEF EndUnlessUp, TypeOK, HandlerStates
  <2> QED BY <1>1, <2>1, <2>2, <2>3 DEF Holding, Allocating
<1>8. CASE NextAttempt
  <2>1. CASE h' = [h EXCEPT !.pc = "track", !.att = @ + 1]
    <3>1. h'.pc = "track" /\ h'.att = h.att + 1
      BY <2>1 DEF TypeOK, HandlerStates
    <3>2. UNCHANGED <<a, cancels, tx, d, tasks>>
      BY <1>8 DEF NextAttempt
    <3> QED BY <1>a, <3>1, <3>2 DEF CancelInv, Holding, Allocating, Attempts
  <2>2. CASE Goto("giveUp") \/ Goto("untrack")
    BY <1>8, <1>1, <2>2, QuietTasks, GotoEffect DEF NextAttempt, Holding, Allocating
  <2> QED BY <1>8, <2>1, <2>2 DEF NextAttempt
<1>9. CASE Track
  <2>1. CASE d.cancelled
    BY <1>9, <1>1, <2>1, QuietTasks, GotoEffect DEF Track, Holding, Allocating
  <2>2. CASE ~d.cancelled
    <3>1. h'.pc = "send" /\ h'.att = h.att /\ d'.inFlight = h.att
      BY <1>9, <2>2, GotoEffect DEF Track, TypeOK, Records
    <3>2. UNCHANGED <<a, cancels, tx, tasks>>
      BY <1>9 DEF Track
    <3>3. h.att \in Attempts
      BY <1>9, <1>a, NAssumption DEF Track, At, RespInv, Attempts, Allocating, Closing
    <3> QED BY <1>a, <1>9, <3>1, <3>2, <3>3 DEF Track, At, CancelInv, Holding, Allocating, Attempts
  <2> QED BY <2>1, <2>2
<1>10. CASE Send
  <2>1. CASE Goto("giveUp") \/ Goto("loop")
    <3>1. CASE UNCHANGED tx
      BY <1>10, <1>1, <2>1, <3>1, QuietTasks, GotoEffect DEF Send, Holding, Allocating
    <3> QED BY <1>10, <2>1, <3>1, GotoEffect DEF Send
  <2>2. CASE Goto("markSent") /\ tx' = [tx EXCEPT ![h.att] = "calling"]
    <3>1. h'.pc = "markSent" /\ h'.att = h.att
      BY <2>2, GotoEffect
    <3>2. UNCHANGED <<a, cancels, tasks, d>>
      BY <1>10 DEF Send
    <3>3. h.att \in Attempts
      BY <1>10, <1>a, NAssumption DEF Send, At, CancelInv, Attempts
    <3>4. \A n \in Attempts : tx'[n] = IF n = h.att THEN "calling" ELSE tx[n]
      BY <2>2, <3>3 DEF TypeOK
    <3> QED BY <1>a, <1>10, <3>1, <3>2, <3>3, <3>4 DEF Send, At, CancelInv, Holding, Allocating, Attempts
  <2> QED BY <1>10, <2>1, <2>2 DEF Send
<1>11. CASE MarkSent
  <2>1. h'.pc = "pump" /\ h'.att = h.att
    BY <1>11 DEF MarkSent, TypeOK, HandlerStates
  <2>2. UNCHANGED <<cancels, tx, d>>
    BY <1>11 DEF MarkSent
  <2>3. h.att \in Attempts /\ ~a[h.att].sent /\ tx[h.att] # "none"
    BY <1>11, <1>a, NAssumption DEF MarkSent, At, CancelInv, Attempts
  <2>4. \A n \in Attempts : a'[n].taken = a[n].taken /\ (a'[n].sent <=> a[n].sent \/ n = h.att)
    BY <1>11, <2>3 DEF MarkSent, TypeOK
  <2>5. \A n \in Attempts : /\ Task("cancel", n, {}).k = "cancel" /\ Task("cancel", n, {}).n = n
    BY DEF Task
  <2>6. tasks' = tasks \cup (IF a[h.att].taken THEN {Task("cancel", h.att, {})} ELSE {})
    BY <1>11 DEF MarkSent, Spawn
  <2>7. cancels[h.att] = 0
    BY <2>3 DEF CancelInv
  <2>8. \A t \in tasks' : t.k = "cancel" =>
          t.n \in Attempts /\ a'[t.n].sent /\ a'[t.n].taken /\ cancels'[t.n] = 0
    BY <2>2, <2>3, <2>4, <2>5, <2>6, <2>7 DEF CancelInv
  <2>9. \A n \in Attempts : a'[n].sent /\ a'[n].taken =>
          cancels'[n] = 1 \/ Task("cancel", n, {}) \in tasks'
    BY <2>2, <2>3, <2>4, <2>6 DEF CancelInv
  <2>10. \A t \in tasks' : t.k = "linger" => t.n \in Attempts /\ a'[t.n].sent
    BY <2>3, <2>4, <2>5, <2>6 DEF CancelInv
  <2>11. /\ \A n \in Attempts : cancels'[n] \in 0..1 /\ (cancels'[n] = 1 => a'[n].sent /\ a'[n].taken)
         /\ \A n \in Attempts : a'[n].sent => tx'[n] # "none"
    BY <2>2, <2>3, <2>4 DEF CancelInv
  <2>12. /\ d'.inFlight # 0 => ~a'[d'.inFlight].taken
         /\ d'.inFlight <= h'.att
    BY <2>1, <2>2, <2>4, <1>a, NAssumption DEF CancelInv, Attempts
  <2>13. \A n \in Attempts : n > h'.att => ~a'[n].sent /\ ~a'[n].taken /\ tx'[n] = "none"
    BY <2>1, <2>2, <2>4, <1>a DEF CancelInv, Attempts
  <2> QED BY <2>1, <2>3, <2>4, <2>8, <2>9, <2>10, <2>11, <2>12, <2>13 DEF CancelInv
<1>12. CASE Abandon
  <2>1. h'.att = h.att /\ h'.pc = "drain"
    BY <1>12, GotoEffect DEF Abandon
  <2>2. h.att # 0 => a[h.att].sent
    BY <1>12 DEF Abandon, At, CancelInv, Holding
  <2>3. tasks' = tasks \cup (IF SendNow THEN {Task("cancel", d.inFlight, {})} ELSE {})
    BY <1>12 DEF Abandon, Spawn
  <2>4. Task("cancel", d.inFlight, {}).k = "cancel"
    BY DEF Task
  <2>5. CancelSeries("backstop") /\ UNCHANGED <<tx, cancels>>
    BY <1>12 DEF Abandon
  <2> QED BY <2>1, <2>2, <2>3, <2>4, <2>5, CancelTaken
<1>13. CASE Drain
  <2>0. h.att \in Attempts /\ a[h.att].sent /\ tx[h.att] # "none"
    BY <1>13, <1>a, NAssumption DEF Drain, At, RespInv, CancelInv, Attempts, Allocating, Closing
  <2>1. UNCHANGED <<a, cancels, d>>
    BY <1>13 DEF Drain
  <2>2. h'.att = h.att /\ h'.pc \in {"drain", "untrack", "giveUp"}
    BY <1>13, AfterPumpEffect DEF Drain, At
  <2>3. \A n \in Attempts : tx'[n] = "none" <=> tx[n] = "none"
    BY <1>13, <2>0 DEF Drain, TypeOK
  <2>4. \A t \in Tasks : /\ t.k = "cancel" => (t \in tasks' <=> t \in tasks)
                         /\ t.k = "linger" /\ t \in tasks' => t \in tasks \/ t.n = h.att
    <3>1. CASE Spawn(Task("linger", h.att, {}))
      BY <3>1 DEF Spawn, Task
    <3>2. CASE TaskQuiet
      BY <3>2 DEF TaskQuiet
    <3> QED BY <1>13, <3>1, <3>2, QuietTasks DEF Drain, DrainEnds
  <2>5. \A t \in tasks' : t.k = "linger" => t.n \in Attempts /\ a'[t.n].sent
    BY <1>a, <2>0, <2>1, <2>4 DEF CancelInv
  <2>6. \A n \in Attempts : Task("cancel", n, {}) \in Tasks /\ Task("cancel", n, {}).k = "cancel"
    BY NAssumption DEF Task, Tasks, Attempts
  <2>7. \A n \in Attempts : a'[n].sent /\ a'[n].taken =>
          cancels'[n] = 1 \/ Task("cancel", n, {}) \in tasks'
    BY <2>1, <2>4, <2>6 DEF CancelInv
  <2>8. \A t \in tasks' : t.k = "cancel" =>
          t.n \in Attempts /\ a'[t.n].sent /\ a'[t.n].taken /\ cancels'[t.n] = 0
    BY <1>a, <2>1, <2>4 DEF CancelInv
  <2> QED BY <2>0, <2>1, <2>2, <2>3, <2>5, <2>7, <2>8 DEF CancelInv
<1>14. ASSUME h' = h, UNCHANGED <<a, cancels>>, TaskQuiet, d'.inFlight \in {0, d.inFlight},
              \A n \in Attempts : tx'[n] = "none" <=> tx[n] = "none"
       PROVE  CancelInv'
  <2>1. h'.att # 0 /\ h'.pc \in Holding \cup {"drain"} => a[h.att].sent
    BY <1>14 DEF CancelInv
  <2> QED BY <1>14, <1>a, <1>b, <2>1, CancelFrame DEF TaskQuiet
<1>15. ASSUME NEW t \in tasks, SendCancel(t) PROVE CancelInv'
  <2>1. t.n \in Attempts /\ a[t.n].sent /\ a[t.n].taken /\ cancels[t.n] = 0
    BY <1>15 DEF SendCancel, CancelInv
  <2>2. t = Task("cancel", t.n, {})
    BY <1>15, <1>a DEF SendCancel, Tasks, Task
  <2>3. \A n \in Attempts : cancels'[n] = IF n = t.n THEN 1 ELSE cancels[n]
    BY <1>15, <2>1 DEF SendCancel, TypeOK
  <2>4. \A u \in tasks' : u.k \in {"cancel", "linger"} => u \in tasks /\ u # t
    BY <1>15 DEF SendCancel, Task
  <2>5. \A u \in tasks' : u.k = "cancel" => u.n # t.n
    <3>1. \A u \in Tasks : u.k = "cancel" => u = Task("cancel", u.n, {})
      BY DEF Tasks, Task
    <3> QED BY <1>a, <2>2, <2>4, <3>1
  <2>6. UNCHANGED <<h, d, a, tx>>
    BY <1>15 DEF SendCancel
  <2>7. \A u \in tasks' : u.k = "cancel" =>
          u.n \in Attempts /\ a'[u.n].sent /\ a'[u.n].taken /\ cancels'[u.n] = 0
    BY <2>3, <2>4, <2>5, <2>6 DEF CancelInv
  <2>8. \A n \in Attempts : a'[n].sent /\ a'[n].taken =>
          cancels'[n] = 1 \/ Task("cancel", n, {}) \in tasks'
    <3>1. \A n \in Attempts : n # t.n => Task("cancel", n, {}) # t
      BY DEF Task
    <3> QED BY <1>15, <2>3, <2>6, <3>1 DEF CancelInv, SendCancel
  <2>9. \A u \in tasks' : u.k = "linger" => u.n \in Attempts /\ a'[u.n].sent
    BY <2>4, <2>6 DEF CancelInv
  <2> QED BY <2>1, <2>3, <2>6, <2>7, <2>8, <2>9 DEF CancelInv
<1>16. ASSUME NEW t \in tasks, SendCancelDone(t) \/ Late2xx(t) \/ Late2xxEarly(t) \/ AckCallee(t)
                               \/ CloseSession(t)
       PROVE  CancelInv'
  <2>1. UNCHANGED <<h, d, a, cancels, tx>>
    BY <1>16 DEF SendCancelDone, Late2xx, Late2xxEarly, AckCallee, CloseSession
  <2>2. TaskQuiet
    BY <1>16 DEF TaskQuiet, SendCancelDone, Late2xx, Late2xxEarly, AckCallee, CloseSession, Task
  <2> QED BY <1>14, <2>1, <2>2
<1>17. ASSUME NEW t \in tasks, Linger(t) PROVE CancelInv'
  <2>1. UNCHANGED <<h, d, a, cancels>>
    BY <1>17 DEF Linger
  <2>2. t.n \in Attempts /\ tx[t.n] # "none"
    BY <1>17 DEF Linger, CancelInv
  <2>3. \A n \in Attempts : tx'[n] = "none" <=> tx[n] = "none"
    BY <1>17, <2>2 DEF Linger, TypeOK
  <2>4. \A u \in Tasks : u.k = "cancel" => (u \in tasks' <=> u \in tasks)
    BY <1>17 DEF Linger, Task
  <2>5. \A u \in tasks' : u.k = "linger" => u \in tasks
    BY <1>17 DEF Linger, Task
  <2>6. h'.att # 0 /\ h'.pc \in Holding \cup {"drain"} => a[h.att].sent
    BY <2>1 DEF CancelInv
  <2> QED BY <1>a, <2>1, <2>3, <2>4, <2>5, <2>6, CancelFrame
<1>18. ASSUME NEW t \in tasks, OrphanCancel(t) PROVE CancelInv'
  <2>1. h' = h /\ UNCHANGED <<tx, cancels>> /\ CancelSeries("orphan")
    BY <1>18 DEF OrphanCancel
  <2>2. Task("cancel", d.inFlight, {}).k = "cancel" /\ t.k = "orphan"
    BY <1>18 DEF Task, OrphanCancel
  <2>3. tasks' = (tasks \ {t}) \cup (IF SendNow THEN {Task("cancel", d.inFlight, {})} ELSE {})
    BY <1>18 DEF OrphanCancel
  <2>4. h'.att # 0 /\ h'.pc \in Holding \cup {"drain"} => a[h.att].sent
    BY <2>1 DEF CancelInv
  <2> QED BY <2>1, <2>2, <2>3, <2>4, CancelTaken
<1>19. CASE CallerCancel
  <2>1. h' = h /\ UNCHANGED <<tx, cancels>>
    BY <1>19 DEF CallerCancel
  <2>2. CASE caller.bridged /\ hook.live
    <3>1. CancelSeries("caller")
          /\ tasks' = tasks \cup (IF SendNow THEN {Task("cancel", d.inFlight, {})} ELSE {})
      BY <1>19, <2>2 DEF CallerCancel, Spawn
    <3>2. Task("cancel", d.inFlight, {}).k = "cancel"
      BY DEF Task
    <3>3. h'.att # 0 /\ h'.pc \in Holding \cup {"drain"} => a[h.att].sent
      BY <2>1 DEF CancelInv
    <3> QED BY <2>1, <3>1, <3>2, <3>3, CancelTaken
  <2>3. CASE ~(caller.bridged /\ hook.live)
    BY <1>14, <1>19, <2>1, <2>3, QuietTasks DEF CallerCancel
  <2> QED BY <2>2, <2>3
<1>20. CASE AckExpired \/ CallEnds \/ CloseAll \/ CallerAck \/ Backstop \/ Close \/ OrphanLookup
            \/ UNCHANGED vars
  <2>1. UNCHANGED <<h, a, cancels, tx>>
    BY <1>20 DEF AckExpired, CallEnds, CloseAll, CallerAck, Backstop, Close, OrphanLookup, vars
  <2>2. TaskQuiet
    <3>1. CASE OrphanLookup
      BY <3>1 DEF TaskQuiet, OrphanLookup, Spawn, Task
    <3> QED BY <1>20, <3>1, QuietTasks DEF AckExpired, CallEnds, CloseAll, CallerAck, Backstop, Close, vars
  <2>3. d'.inFlight \in {0, d.inFlight}
    <3>1. CASE CallerAck
      BY <3>1 DEF CallerAck, TypeOK, Records
    <3> QED BY <1>20, <3>1, InFlightEffect DEF AckExpired, CallEnds, CloseAll, Backstop, Close, OrphanLookup, vars
  <2> QED BY <1>14, <2>1, <2>2, <2>3
<1>21. ASSUME NEW n \in Attempts, Decline(n) \/ TxDies(n) PROVE CancelInv'
  <2>1. \A m \in Attempts : tx'[m] = "none" <=> tx[m] = "none"
    BY <1>21 DEF Decline, TxDies, Pending, TypeOK
  <2> QED BY <1>14, <1>21, <2>1, QuietTasks DEF Decline, TxDies
<1>22. ASSUME NEW n \in Attempts, NEW f \in Forks, Ring(n, f) \/ Answer(n, f) \/ Deliver2xx(n, f)
       PROVE  CancelInv'
  <2>1. \A m \in Attempts : tx'[m] = "none" <=> tx[m] = "none"
    BY <1>22 DEF Ring, Answer, Deliver2xx, Pending, TypeOK
  <2>2. TaskQuiet
    BY <1>22 DEF TaskQuiet, Ring, Answer, Deliver2xx, Spawn, Task
  <2> QED BY <1>14, <1>22, <2>1, <2>2 DEF Ring, Answer, Deliver2xx
<1> QED
  BY <1>2, <1>3, <1>4, <1>5, <1>6, <1>7, <1>8, <1>9, <1>10, <1>11, <1>12, <1>13, <1>15,
     <1>16, <1>17, <1>18, <1>19, <1>20, <1>21, <1>22 DEF Next, Handler, Goroutine

----------------------------------------------------------------------------
(* The record's state. *)

\* What ending and cancelling do to the other fields of the record.
LEMMA EndEffect ==
    ASSUME TypeOK, End
    PROVE  /\ d'.state = "Ended" /\ d.state \in {"Early", "Confirmed"}
           /\ d'.media = d.media /\ d'.cancelled = d.cancelled /\ d'.callerGone = d.callerGone
BY DEF End, Ended, TypeOK, Records

\* cancelSeries marks the record, except for an orphan CANCEL that took nothing.
LEMMA CancelEffect ==
    ASSUME TypeOK, NEW why, CancelSeries(why)
    PROVE  /\ d'.state = d.state /\ d'.media = d.media
           /\ d'.cancelled <=> (d.cancelled \/ why # "orphan" \/ Takes)
           /\ d'.callerGone <=> (d.callerGone \/ why = "caller")
<1>1. CASE why = "orphan" /\ ~Takes
  BY <1>1 DEF CancelSeries, CancelledRecord
<1>2. CASE ~(why = "orphan" /\ ~Takes)
  <2>1. d' = [d EXCEPT !.cancelled = TRUE, !.callerGone = d.callerGone \/ why = "caller", !.inFlight = 0]
    BY <1>2 DEF CancelSeries, CancelledRecord
  <2> QED BY <1>2, <2>1 DEF TypeOK, Records
<1> QED
  BY <1>1, <1>2

\* Every step keeps the record's state in line with the handler's.
LEMMA StateStep == TypeOK /\ StateInv /\ [Next]_vars => StateInv'
<1> SUFFICES ASSUME TypeOK, StateInv, [Next]_vars PROVE StateInv'
  OBVIOUS
<1>0. h.pc \in Points /\ d.state \in {"none", "Early", "Confirmed", "Ended"}
  BY DEF TypeOK, HandlerStates, Records
<1> USE <1>0, GotoEffect, AfterPumpEffect, ToPumpEffect, MediaFailedMoves, EndEffect, CancelEffect
        DEF StateInv, Answered, Closing, At
<1>1. CASE Begin
  <2>1. \/ d'.state = d.state /\ h'.pc = "done"
        \/ d'.state = "Early" /\ h'.pc \in {"bridge", "open"}
    BY <1>1 DEF Begin, TypeOK, Records
  <2> QED BY <1>1, <2>1 DEF Begin
<1>2. CASE Open \/ Alloc \/ Attach \/ Relay
  <2>1. d'.state = d.state /\ UNCHANGED closed
    BY <1>2 DEF Open, Alloc, Attach, Relay, TypeOK, Records
  <2>2. h.pc \in {"open", "alloc", "attach", "relay"} /\
        h'.pc \in {"return", "relayErr", "alloc", "attach", "bridge", "commit", "pump", "open", "untrack"}
    BY <1>2 DEF Open, Alloc, Attach, Relay
  <2> QED BY <2>1, <2>2
<1>3. CASE BridgeCancel \/ Track \/ Send \/ PumpDone \/ PumpContext \/ Step \/ Drain
           \/ Respond2xx \/ GiveUp
  <2>1. d'.state = d.state /\ UNCHANGED closed
    BY <1>3 DEF BridgeCancel, Track, Send, PumpDone, PumpContext, Step, Drain,
       Respond2xx, GiveUp, TypeOK, Records
  <2>2. /\ h.pc \in {"bridge", "track", "send", "pump", "step", "drain", "giveUp", "respond"}
        /\ h'.pc \in {"return", "loop", "giveUp", "send", "markSent", "untrack", "abandon", "relay", "drain"}
        /\ h.pc = "respond" => h'.pc = "untrack"
    BY <1>3 DEF BridgeCancel, Track, Send, PumpDone, PumpContext, Step, Drain, Respond2xx, GiveUp
  <2> QED BY <2>1, <2>2
<1>4. CASE NextAttempt \/ MarkSent \/ PumpResponse
  <2>1. UNCHANGED <<d, closed>>
    BY <1>4 DEF NextAttempt, MarkSent, PumpResponse
  <2>2. /\ h.pc \in {"loop", "markSent", "pump"}
        /\ h'.pc \in {"giveUp", "untrack", "track", "pump", "step"}
    BY <1>4 DEF NextAttempt, MarkSent, PumpResponse, TypeOK, HandlerStates
  <2> QED BY <2>1, <2>2
<1>5. CASE Confirm
  <2>1. \/ d'.state = "Confirmed" /\ h'.pc = "arm"
        \/ d'.state = d.state /\ h'.pc = "relayErr"
    BY <1>5, ConfirmEffect
  <2> QED BY <1>5, <2>1 DEF Confirm
<1>6. CASE ArmAck \/ SetRelayed2xx
  <2>1. d'.state = d.state /\ UNCHANGED closed
    BY <1>6 DEF ArmAck, SetRelayed2xx, TypeOK, Records
  <2> QED BY <1>6, <2>1 DEF ArmAck, SetRelayed2xx
<1>7. CASE RelayErr
  <2>1. h'.pc \in {"untrack", "giveUp", "abandon"}
    BY <1>7, RelayErrEffect
  <2> QED BY <1>7, <2>1 DEF RelayErr
<1>8. CASE Abandon
  BY <1>8 DEF Abandon
<1>9. CASE Untrack
  <2>1. d'.state = d.state
    BY <1>9 DEF Untrack, TypeOK, Records
  <2> QED BY <1>9, <2>1 DEF Untrack
<1>10. CASE EndUnlessUp
  <2>1. h'.pc = "done"
    BY <1>10 DEF EndUnlessUp, TypeOK, HandlerStates
  <2> QED BY <1>10, <2>1 DEF EndUnlessUp
<1>11. ASSUME h' = h, d'.state = d.state, closed => closed' PROVE StateInv'
  BY <1>11
<1>12. ASSUME h' = h, End, UNCHANGED closed, closed \/ d.state = "Confirmed" PROVE StateInv'
  BY <1>12
<1>13. ASSUME NEW t \in tasks, Goroutine(t) PROVE h' = h /\ UNCHANGED <<d, closed>>
  BY <1>13 DEF Goroutine, SendCancel, SendCancelDone, Late2xx, Late2xxEarly, AckCallee,
     Linger, CloseSession
<1>14. ASSUME NEW t \in tasks, OrphanCancel(t) PROVE StateInv'
  BY <1>14, <1>11 DEF OrphanCancel
<1>15. CASE CallerCancel \/ CallerAck \/ Backstop \/ Close \/ OrphanLookup \/ UNCHANGED vars
  <2>1. d'.state = d.state
    BY <1>15 DEF CallerCancel, CallerAck, Backstop, Close, OrphanLookup, vars, TypeOK, Records
  <2> QED BY <1>15, <1>11, <2>1 DEF CallerCancel, CallerAck, Backstop, Close, OrphanLookup, vars
<1>16. CASE AckExpired \/ CallEnds \/ CloseAll
  BY <1>16, <1>12 DEF AckExpired, CallEnds, CloseAll
<1>17. ASSUME NEW n \in Attempts, Decline(n) \/ TxDies(n) PROVE StateInv'
  BY <1>17, <1>11 DEF Decline, TxDies
<1>18. ASSUME NEW n \in Attempts, NEW f \in Forks, Ring(n, f) \/ Answer(n, f) \/ Deliver2xx(n, f)
       PROVE  StateInv'
  BY <1>18, <1>11 DEF Ring, Answer, Deliver2xx
<1> QED
  BY <1>1, <1>2, <1>3, <1>4, <1>5, <1>6, <1>7, <1>8, <1>9, <1>10, <1>11, <1>13, <1>14,
     <1>15, <1>16, <1>17, <1>18 DEF Next, Handler

----------------------------------------------------------------------------
(* No socket outlives its record. *)

\* Whether a close is in flight.
LEMMA CloseTasks ==
    /\ UNCHANGED tasks => (Running("close")' <=> Running("close"))
    /\ End => Running("close")'
    /\ \A n, f : Refuse2xx(n, f) => (Running("close")' <=> Running("close"))
    /\ MediaFailed => (Running("close")' <=> Running("close"))
    /\ \A k, n, f : k # "close" /\ Spawn(Task(k, n, f)) => (Running("close")' <=> Running("close"))
<1>1. UNCHANGED tasks => (Running("close")' <=> Running("close"))
  BY DEF Running
<1>2. ASSUME NEW k, NEW n, NEW f, k # "close", Spawn(Task(k, n, f))
      PROVE  Running("close")' <=> Running("close")
  <2>1. tasks' = tasks \cup {Task(k, n, f)} /\ Task(k, n, f).k # "close"
    BY <1>2 DEF Spawn, Task
  <2> QED BY <2>1 DEF Running
<1>3. ASSUME End PROVE Running("close")'
  <2>1. Task("close", 0, {}) \in tasks' /\ Task("close", 0, {}).k = "close"
    BY <1>3 DEF End, Spawn, Task
  <2> QED BY <2>1 DEF Running
<1>4. ASSUME NEW n, NEW f, Refuse2xx(n, f) PROVE Running("close")' <=> Running("close")
  <2>1. Spawn(Task("ack", n, f)) \/ Spawn(Task("ackbye", n, f))
    BY <1>4 DEF Refuse2xx
  <2> QED BY <1>2, <2>1
<1>5. ASSUME MediaFailed PROVE Running("close")' <=> Running("close")
  BY <1>1, <1>4, <1>5 DEF MediaFailed
<1> QED
  BY <1>1, <1>2, <1>3, <1>4, <1>5

\* Every step keeps open sockets owned by the handler or by the record.
LEMMA MediaStep == TypeOK /\ StateInv /\ MediaInv /\ [Next]_vars => MediaInv'
<1> SUFFICES ASSUME TypeOK, StateInv, MediaInv, [Next]_vars PROVE MediaInv'
  OBVIOUS
<1>0. h.pc \in Points /\ d.state \in {"none", "Early", "Confirmed", "Ended"} /\ d.media \in BOOLEAN
  BY DEF TypeOK, HandlerStates, Records
<1> USE <1>0, GotoEffect, AfterPumpEffect, ToPumpEffect, MediaFailedMoves, EndEffect, CancelEffect,
        CloseTasks
        DEF MediaInv, Allocating, At
<1>1. CASE Begin
  <2>1. /\ d'.media = d.media
        /\ \/ d'.state = d.state /\ h'.pc = "done"
           \/ d'.state = "Early" /\ h'.pc \in {"bridge", "open"}
    BY <1>1 DEF Begin, TypeOK, Records
  <2> QED BY <1>1, <2>1 DEF Begin, StateInv
<1>2. CASE Open \/ Alloc
  BY <1>2 DEF Open, Alloc, StateInv
<1>3. CASE Attach
  <2>1. CASE closed \/ d.state = "Ended"
    BY <1>3, <2>1 DEF Attach, StateInv
  <2>2. CASE ~(closed \/ d.state = "Ended")
    <3>1. d'.state = d.state /\ d'.media
      BY <1>3, <2>2 DEF Attach, TypeOK, Records
    <3>2. h'.pc \in {"bridge", "commit", "pump"} /\ UNCHANGED sess
      BY <1>3, <2>2 DEF Attach
    <3> QED BY <1>3, <2>2, <3>1, <3>2 DEF Attach, StateInv
  <2> QED BY <2>1, <2>2
<1>4. ASSUME d'.state = d.state, d'.media = d.media, UNCHANGED sess,
             Running("close")' <=> Running("close"), h.pc # "attach",
             h'.pc \in Allocating => ~d.media
      PROVE  MediaInv'
  BY <1>4
<1>5. CASE BridgeCancel \/ Track \/ Send \/ PumpDone \/ PumpContext \/ Step
           \/ Respond2xx \/ GiveUp \/ ArmAck \/ SetRelayed2xx \/ Untrack
  <2>1. d'.state = d.state /\ d'.media = d.media /\ UNCHANGED sess
    BY <1>5 DEF BridgeCancel, Track, Send, PumpDone, PumpContext, Step,
       Respond2xx, GiveUp, ArmAck, SetRelayed2xx, Untrack, TypeOK, Records
  <2>2. h.pc # "attach" /\ h'.pc \notin Allocating
    BY <1>5 DEF BridgeCancel, Track, Send, PumpDone, PumpContext, Step,
       Respond2xx, GiveUp, ArmAck, SetRelayed2xx, Untrack
  <2>3. Running("close")' <=> Running("close")
    BY <1>5 DEF BridgeCancel, Track, Send, PumpDone, PumpContext, Step,
       Respond2xx, GiveUp, ArmAck, SetRelayed2xx, Untrack
  <2> QED BY <1>4, <2>1, <2>2, <2>3
<1>6. CASE NextAttempt \/ MarkSent \/ PumpResponse
  <2>1. UNCHANGED <<d, sess>>
    BY <1>6 DEF NextAttempt, MarkSent, PumpResponse
  <2>2. h.pc # "attach" /\ h'.pc \in {"giveUp", "untrack", "track", "pump", "step"}
    BY <1>6 DEF NextAttempt, MarkSent, PumpResponse, TypeOK, HandlerStates
  <2>3. Running("close")' <=> Running("close")
    BY <1>6 DEF NextAttempt, MarkSent, PumpResponse
  <2> QED BY <1>4, <2>1, <2>2, <2>3
<1>7. CASE Relay
  <2>1. UNCHANGED <<d, sess>> /\ (Running("close")' <=> Running("close"))
    BY <1>7 DEF Relay
  <2>2. h.pc # "attach" /\ (h'.pc \in Allocating => ~d.media)
    BY <1>7 DEF Relay
  <2> QED BY <1>4, <2>1, <2>2
<1>8. CASE Confirm
  <2>1. \/ d'.state = "Confirmed" /\ d'.media = d.media /\ h'.pc = "arm"
        \/ d'.state = d.state /\ d'.media = d.media /\ h'.pc = "relayErr"
    BY <1>8, ConfirmEffect
  <2>2. Running("close")' <=> Running("close")
    BY <1>8, CloseTasks DEF Confirm
  <2> QED BY <1>8, <2>1, <2>2 DEF Confirm
<1>9. CASE RelayErr
  <2>1. h'.pc \in {"untrack", "giveUp", "abandon"}
    BY <1>9, RelayErrEffect
  <2> QED BY <1>4, <1>9, <2>1 DEF RelayErr
<1>10. CASE Abandon
  BY <1>4, <1>10 DEF Abandon
<1>11. CASE Drain
  <2>1. Running("close")' <=> Running("close")
    BY <1>11 DEF Drain, DrainEnds
  <2> QED BY <1>4, <1>11, <2>1 DEF Drain
<1>12. CASE EndUnlessUp
  <2>1. h'.pc = "done"
    BY <1>12 DEF EndUnlessUp, TypeOK, HandlerStates
  <2> QED BY <1>12, <2>1 DEF EndUnlessUp
<1>13. ASSUME h' = h, d'.state = d.state, d'.media = d.media, UNCHANGED sess,
              Running("close") => Running("close")'
       PROVE  MediaInv'
  BY <1>13
<1>14. ASSUME h' = h, End, UNCHANGED sess PROVE MediaInv'
  BY <1>14
<1>15. ASSUME NEW t \in tasks, Goroutine(t) PROVE MediaInv'
  <2>1. CASE CloseSession(t)
    BY <2>1 DEF CloseSession
  <2>2. CASE ~CloseSession(t)
    <3>1. UNCHANGED <<h, d, sess>>
      BY <1>15, <2>2 DEF Goroutine, SendCancel, SendCancelDone, Late2xx, Late2xxEarly, AckCallee, Linger
    <3>2. t.k # "close" /\ \A u \in tasks : u # t => u \in tasks'
      BY <1>15, <2>2 DEF Goroutine, SendCancel, SendCancelDone, Late2xx, Late2xxEarly, AckCallee, Linger
    <3>3. Running("close") => Running("close")'
      BY <3>2 DEF Running
    <3> QED BY <1>13, <3>1, <3>3
  <2> QED BY <2>1, <2>2
<1>16. ASSUME NEW t \in tasks, OrphanCancel(t) PROVE MediaInv'
  <2>1. Running("close") => Running("close")'
    BY <1>16 DEF OrphanCancel, Running
  <2> QED BY <1>13, <1>16, <2>1 DEF OrphanCancel
<1>17. CASE CallerCancel
  <2>1. d'.state = d.state /\ d'.media = d.media /\ UNCHANGED <<h, sess>>
    BY <1>17 DEF CallerCancel
  <2>2. Running("close") => Running("close")'
    BY <1>17 DEF CallerCancel
  <2> QED BY <1>13, <2>1, <2>2
<1>18. CASE CallerAck \/ Backstop \/ Close \/ OrphanLookup \/ UNCHANGED vars
  <2>1. d'.state = d.state /\ d'.media = d.media /\ UNCHANGED <<h, sess>>
    BY <1>18 DEF CallerAck, Backstop, Close, OrphanLookup, vars, TypeOK, Records
  <2>2. Running("close") => Running("close")'
    BY <1>18 DEF CallerAck, Backstop, Close, OrphanLookup, vars
  <2> QED BY <1>13, <2>1, <2>2
<1>19. CASE AckExpired \/ CallEnds \/ CloseAll
  BY <1>19, <1>14 DEF AckExpired, CallEnds, CloseAll
<1>20. ASSUME NEW n \in Attempts, Decline(n) \/ TxDies(n) PROVE MediaInv'
  BY <1>20, <1>13 DEF Decline, TxDies
<1>21. ASSUME NEW n \in Attempts, NEW f \in Forks, Ring(n, f) \/ Answer(n, f) \/ Deliver2xx(n, f)
       PROVE  MediaInv'
  <2>1. Running("close") => Running("close")'
    BY <1>21 DEF Ring, Answer, Deliver2xx
  <2> QED BY <1>21, <1>13, <2>1 DEF Ring, Answer, Deliver2xx
<1> QED
  BY <1>1, <1>2, <1>3, <1>5, <1>6, <1>7, <1>8, <1>9, <1>10, <1>11, <1>12, <1>15,
     <1>16, <1>17, <1>18, <1>19, <1>20, <1>21 DEF Next, Handler

----------------------------------------------------------------------------
(* No callee is left ringing. *)

\* The answers Responses() may hold, and the response in hand.
LEMMA RespTx ==
    ASSUME TypeOK, RespInv, RingInv, h.att # 0
    PROVE  /\ h.att \in Attempts
           /\ h.resp.k = "2xx" => tx[h.att] \in {"accepted", "dead"}
           /\ h.resp.k = "fail" => tx[h.att] \in {"completed", "dead"}
BY NAssumption DEF TypeOK, HandlerStates, RingInv, Attempts

\* A step that leaves the attempts alone: the handler may leave an attempt
\* only once it has a final, is dead or was taken.
LEMMA RingFrame ==
    ASSUME TypeOK, RespInv, CancelInv, RingInv,
           UNCHANGED <<a, tx>>, closed => closed', h'.att = h.att,
           \A n \in Attempts : chan'[n] \in {chan[n], NoResp},
           h'.resp \in {h.resp, NoResp},
           d'.cancelled = d.cancelled,
           d'.inFlight = d.inFlight \/ (d'.inFlight = 0 /\ (closed \/ h'.pc \notin Holding \cup {"send", "markSent"})),
           h'.pc \in Holding \cup {"send", "markSent"} /\ h.att # 0 =>
              h.pc \in Holding \cup {"send", "markSent"},
           ~closed /\ h.att # 0 /\ h.pc \in Holding \cup {"markSent"}
              /\ h'.pc \notin Holding \cup {"markSent"} =>
                 \/ tx[h.att] \notin {"calling", "proceeding"}
                 \/ a[h.att].sent /\ a[h.att].taken
    PROVE  RingInv'
<1> USE DEF Attempts
<1>1. h.att \in 0..N /\ NoResp.k = "none" /\ d.inFlight \in 0..N
  BY DEF TypeOK, HandlerStates, NoResp, Records
<1>2. ~closed' => \A n \in Attempts : tx'[n] \in {"calling", "proceeding"} =>
          \/ n = h'.att /\ h'.pc \in Holding \cup {"markSent"}
          \/ a'[n].sent /\ a'[n].taken
  BY <1>1 DEF RingInv
<1>3. ~closed' /\ h'.att # 0 /\ h'.pc \in Holding \cup {"send", "markSent"} =>
          d'.inFlight = h'.att \/ a'[h'.att].taken
  BY <1>1 DEF RingInv
<1>4. d'.cancelled => d'.inFlight = 0
  BY DEF RingInv
<1>5. \A n \in Attempts : /\ chan'[n].k = "2xx" => tx'[n] = "accepted"
                          /\ chan'[n].k = "fail" => tx'[n] = "completed"
  BY <1>1 DEF RingInv
<1>6. /\ h'.resp.k = "2xx" => tx'[h'.att] \in {"accepted", "dead"}
      /\ h'.resp.k = "fail" => tx'[h'.att] \in {"completed", "dead"}
  BY <1>1 DEF RingInv
<1> QED
  BY <1>2, <1>3, <1>4, <1>5, <1>6 DEF RingInv

\* Taking the attempt in flight keeps the accounts of what may still ring.
LEMMA RingTaken ==
    ASSUME TypeOK, RespInv, CancelInv, RingInv, NEW why, CancelSeries(why),
           UNCHANGED <<tx, chan, closed>>, h'.att = h.att, h'.resp = h.resp,
           h'.pc = h.pc \/ (h.pc = "abandon" /\ h'.pc = "drain")
    PROVE  RingInv'
<1> USE DEF Attempts
<1>1. h.att \in 0..N /\ d.inFlight \in 0..N
  BY DEF TypeOK, HandlerStates, Records
<1>2. d'.inFlight = 0
  BY InFlightEffect
<1>3. \A n \in Attempts : a'[n].sent = a[n].sent
                          /\ (a'[n].taken <=> a[n].taken \/ n = d.inFlight)
  BY <1>1 DEF CancelSeries, Takes, TypeOK
<1>4. ~closed' /\ h'.att # 0 /\ h'.pc \in Holding \cup {"send", "markSent"} =>
          d'.inFlight = h'.att \/ a'[h'.att].taken
  BY <1>1, <1>3 DEF RingInv, Holding, Allocating
<1>5. ASSUME ~closed', NEW n \in Attempts, tx'[n] \in {"calling", "proceeding"}
      PROVE  \/ n = h'.att /\ h'.pc \in Holding \cup {"markSent"}
             \/ a'[n].sent /\ a'[n].taken
  <2>1. CASE a[n].sent /\ a[n].taken
    BY <2>1, <1>3
  <2>2. CASE h'.pc = h.pc
    BY <2>2, <1>3, <1>5 DEF RingInv
  <2>3. CASE n = h.att /\ h.pc = "abandon"
    <3>1. a[n].sent
      BY <2>3, <1>1 DEF CancelInv, Holding
    <3>2. d.inFlight = n \/ a[n].taken
      BY <2>3, <1>1, <1>5 DEF RingInv, Holding
    <3> QED BY <1>3, <3>1, <3>2
  <2> QED BY <1>5, <2>1, <2>2, <2>3 DEF RingInv
<1> QED
  BY <1>2, <1>4, <1>5 DEF RingInv

\* Every step keeps the accounts of what may still ring.
LEMMA RingStep ==
    TypeOK /\ RespInv /\ CancelInv /\ StateInv /\ RingInv /\ [Next]_vars => RingInv'
<1> SUFFICES ASSUME TypeOK, RespInv, CancelInv, StateInv, RingInv, [Next]_vars PROVE RingInv'
  OBVIOUS
<1> USE DEF callee
<1>a. /\ h.pc \in Points /\ h.att \in 0..N /\ h.resp \in Responses \cup {NoResp}
      /\ h.att # 0 => h.att \in Attempts
      /\ NoResp.k = "none"
  BY NAssumption DEF TypeOK, HandlerStates, Attempts, NoResp
<1>b. /\ d.cancelled \in BOOLEAN /\ d.inFlight \in 0..N
      /\ \A n \in Attempts : tx[n] \in {"none", "calling", "proceeding", "accepted", "completed", "dead"}
  BY DEF TypeOK, Records
<1>1. CASE Begin \/ Open \/ Alloc \/ Attach
  <2>1. UNCHANGED <<a, tx, chan, closed>> /\ d'.cancelled = d.cancelled /\ d'.inFlight = d.inFlight
    BY <1>1 DEF Begin, Open, Alloc, Attach, TypeOK, Records
  <2>2. /\ h'.att = h.att /\ h'.resp \in {h.resp, NoResp}
        /\ h.pc \in {"begin", "open", "alloc", "attach"}
        /\ h'.pc \notin {"send", "markSent"}
    BY <1>1, GotoEffect, ToPumpEffect, MediaFailedMoves DEF Begin, Open, Alloc, Attach, At
  <2>3. h.att # 0 => h.pc # "begin" /\ h'.pc \in Holding
    BY <1>1, GotoEffect, ToPumpEffect, MediaFailedMoves
       DEF Begin, Open, Alloc, Attach, At, RespInv, Holding, Allocating
  <2> QED BY <2>1, <2>2, <2>3, RingFrame DEF Holding, Allocating
<1>2. CASE BridgeCancel \/ ArmAck \/ SetRelayed2xx \/ Respond2xx \/ GiveUp \/ Untrack \/ EndUnlessUp
  <2>1. UNCHANGED <<a, tx, chan, closed>> /\ d'.cancelled = d.cancelled
        /\ d'.inFlight \in {0, d.inFlight}
    BY <1>2, EndEffect, InFlightEffect DEF BridgeCancel, ArmAck, SetRelayed2xx, Respond2xx, GiveUp,
       Untrack, EndUnlessUp, TypeOK, Records
  <2>2. /\ h'.att = h.att /\ h'.resp \in {h.resp, NoResp}
        /\ h'.pc \in {"return", "loop", "record", "respond", "untrack", "done"}
        /\ h.pc \in {"bridge", "arm", "record", "respond", "giveUp", "untrack", "return"}
    <3>1. CASE EndUnlessUp
      BY <3>1 DEF EndUnlessUp, At, TypeOK, HandlerStates
    <3> QED BY <1>2, <3>1, GotoEffect DEF BridgeCancel, ArmAck, SetRelayed2xx, Respond2xx, GiveUp,
            Untrack, At
  <2> QED BY <2>1, <2>2, RingFrame DEF Holding, Allocating
<1>3. CASE PumpDone \/ PumpContext \/ Step
  <2>1. UNCHANGED <<a, tx, chan, closed, d>>
    BY <1>3 DEF PumpDone, PumpContext, Step
  <2>2. /\ h'.att = h.att /\ h'.resp \in {h.resp, NoResp} /\ h.pc \in Holding
        /\ h'.pc \notin {"send", "markSent"}
    BY <1>3, GotoEffect, AfterPumpEffect DEF PumpDone, PumpContext, Step, At, Holding
  <2>3. h.att # 0 /\ h'.pc \notin Holding => tx[h.att] \notin {"calling", "proceeding"}
    BY <1>3, GotoEffect, RespTx DEF PumpDone, PumpContext, Step, Holding
  <2> QED BY <2>1, <2>2, <2>3, RingFrame
<1>4. CASE Relay \/ Confirm
  <2>1. UNCHANGED <<a, tx, chan, closed>> /\ d'.cancelled = d.cancelled /\ d'.inFlight = d.inFlight
    BY <1>4 DEF Relay, Confirm, TypeOK, Records
  <2>2. /\ h'.att = h.att /\ h'.resp \in {h.resp, NoResp} /\ h.pc \in Holding
        /\ h'.pc \notin {"send", "markSent"}
    BY <1>4, GotoEffect, ToPumpEffect, MediaFailedMoves DEF Relay, Confirm, At, Holding
  <2>3. h'.pc \notin Holding => h.resp.k \in {"fail", "2xx"}
    BY <1>4, GotoEffect, ToPumpEffect, MediaFailedMoves DEF Relay, Confirm, At, Holding, Allocating, RespInv
  <2> QED BY <2>1, <2>2, <2>3, RespTx, RingFrame
<1>5. CASE RelayErr
  <2>1. UNCHANGED <<a, tx, chan, closed, d>>
    BY <1>5 DEF RelayErr
  <2>2. CASE d.cancelled
    <3>1. h'.att = h.att /\ h'.resp = NoResp /\ h'.pc \in {"untrack", "giveUp"}
      BY <1>5, <2>2, AfterPumpEffect DEF RelayErr
    <3>2. ~closed /\ h.att # 0 => a[h.att].sent /\ a[h.att].taken
      BY <1>5, <2>2 DEF RelayErr, At, RingInv, CancelInv, Holding
    <3> QED BY <2>1, <3>1, <3>2, RingFrame DEF Holding, Allocating
  <2>3. CASE ~d.cancelled
    <3>1. h'.att = h.att /\ h'.resp = h.resp /\ h'.pc = IF h.resp.k = "2xx" THEN "untrack" ELSE "abandon"
      BY <1>5, <2>3 DEF RelayErr, TypeOK, HandlerStates
    <3>2. h.pc \in Holding
      BY <1>5 DEF RelayErr, At, Holding
    <3> QED BY <2>1, <3>1, <3>2, RespTx, RingFrame DEF Holding, Allocating
  <2> QED BY <2>2, <2>3
<1>6. CASE NextAttempt
  <2>1. UNCHANGED <<a, tx, chan, closed, d>> /\ h.pc = "loop"
    BY <1>6 DEF NextAttempt, At
  <2>2. CASE Goto("giveUp") \/ Goto("untrack")
    BY <2>1, <2>2, GotoEffect, RingFrame DEF Holding, Allocating
  <2>3. CASE h' = [h EXCEPT !.pc = "track", !.att = @ + 1]
    <3>1. h'.pc = "track" /\ h'.resp = NoResp
      BY <2>1, <2>3 DEF TypeOK, HandlerStates, RespInv
    <3> QED BY <1>a, <2>1, <3>1 DEF RingInv, Holding, Allocating
  <2> QED BY <1>6, <2>2, <2>3 DEF NextAttempt
<1>7. CASE Track
  <2>1. UNCHANGED <<a, tx, chan, closed>> /\ h.pc = "track"
    BY <1>7 DEF Track, At
  <2>2. CASE d.cancelled
    <3>1. h'.pc = "giveUp" /\ h'.att = h.att /\ h'.resp = h.resp /\ UNCHANGED d
      BY <1>7, <2>2, GotoEffect DEF Track
    <3> QED BY <2>1, <3>1, RingFrame DEF Holding, Allocating
  <2>3. CASE ~d.cancelled
    <3>1. h'.pc = "send" /\ h'.att = h.att /\ h'.resp = h.resp
      BY <1>7, <2>3, GotoEffect DEF Track
    <3>2. d'.inFlight = h.att /\ d'.cancelled = d.cancelled
      BY <1>7, <2>3 DEF Track, TypeOK, Records
    <3> QED BY <2>1, <2>3, <3>1, <3>2 DEF RingInv, Holding, Allocating
  <2> QED BY <2>2, <2>3
<1>8. CASE Send
  <2>1. UNCHANGED <<a, chan, closed, d>> /\ h.pc = "send" /\ h.resp = NoResp
    BY <1>8 DEF Send, At, RespInv
  <2>2. CASE UNCHANGED tx /\ (Goto("giveUp") \/ Goto("loop"))
    BY <2>1, <2>2, GotoEffect, RingFrame DEF Holding, Allocating
  <2>3. CASE Goto("markSent") /\ tx' = [tx EXCEPT ![h.att] = "calling"]
    <3>1. h'.pc = "markSent" /\ h'.att = h.att /\ h'.resp = h.resp
      BY <2>3, GotoEffect
    <3>2. h.att \in Attempts /\ tx[h.att] = "none"
      BY <1>a, <2>1 DEF CancelInv
    <3>3. \A n \in Attempts : tx'[n] = IF n = h.att THEN "calling" ELSE tx[n]
      BY <2>3, <3>2 DEF TypeOK
    <3>4. chan[h.att].k \notin {"2xx", "fail"}
      BY <3>2 DEF RingInv
    <3> QED BY <1>a, <2>1, <3>1, <3>2, <3>3, <3>4 DEF RingInv, Holding, Allocating
  <2> QED BY <1>8, <2>2, <2>3 DEF Send
<1>9. CASE MarkSent
  <2>1. UNCHANGED <<tx, chan, closed, d>> /\ h.pc = "markSent"
    BY <1>9 DEF MarkSent, At
  <2>2. h'.pc = "pump" /\ h'.att = h.att /\ h'.resp = h.resp
    BY <1>9 DEF MarkSent, TypeOK, HandlerStates
  <2>3. h.att \in Attempts
    BY <1>a, <2>1 DEF CancelInv
  <2>4. \A n \in Attempts : a'[n].taken = a[n].taken /\ (a'[n].sent <=> a[n].sent \/ n = h.att)
    BY <1>9, <2>3 DEF MarkSent, TypeOK
  <2> QED BY <2>1, <2>2, <2>3, <2>4 DEF RingInv, Holding
<1>10. CASE PumpResponse
  <2>1. UNCHANGED <<tx, a, closed, d>> /\ h.pc = "pump"
    BY <1>10 DEF PumpResponse, At
  <2>2. h'.pc = "step" /\ h'.att = h.att /\ h'.resp = chan[h.att]
    BY <1>10 DEF PumpResponse, TypeOK, HandlerStates
  <2>3. h.att \in Attempts
    BY <1>a, <2>1 DEF RespInv, Allocating, Closing
  <2>4. \A n \in Attempts : chan'[n] = IF n = h.att THEN NoResp ELSE chan[n]
    BY <1>10, <2>3 DEF PumpResponse, TypeOK
  <2> QED BY <1>a, <2>1, <2>2, <2>3, <2>4 DEF RingInv, Holding
<1>11. CASE Abandon
  <2>1. h'.att = h.att /\ h'.resp = h.resp /\ h.pc = "abandon" /\ h'.pc = "drain"
    BY <1>11, GotoEffect DEF Abandon, At
  <2> QED BY <1>11, <2>1, RingTaken DEF Abandon
<1>12. CASE Drain
  <2>1. UNCHANGED <<a, closed, d>> /\ h.pc = "drain"
    BY <1>12 DEF Drain, At
  <2>2. /\ h'.att = h.att /\ h'.resp \in {h.resp, NoResp}
        /\ h'.pc \in {"drain", "untrack", "giveUp"}
    BY <1>12, AfterPumpEffect DEF Drain, At
  <2>3. h.att \in Attempts
    BY <1>a, <2>1 DEF RespInv, Allocating, Closing
  <2>4. \A n \in Attempts : chan'[n] \in {chan[n], NoResp}
    BY <1>12, <2>3 DEF Drain, DrainEnds, TypeOK
  <2>5. \A n \in Attempts : tx'[n] = tx[n] \/ (tx'[n] = "dead" /\ n = h.att /\ chan'[n] = NoResp)
    BY <1>12, <2>3 DEF Drain, TypeOK
  <2>6. \A n \in Attempts : /\ chan'[n].k = "2xx" => tx'[n] = "accepted"
                            /\ chan'[n].k = "fail" => tx'[n] = "completed"
    BY <1>a, <2>4, <2>5 DEF RingInv
  <2>7. /\ h'.resp.k = "2xx" => tx'[h'.att] \in {"accepted", "dead"}
        /\ h'.resp.k = "fail" => tx'[h'.att] \in {"completed", "dead"}
    BY <1>a, <2>2, <2>3, <2>5 DEF RingInv
  <2> QED BY <2>1, <2>2, <2>5, <2>6, <2>7 DEF RingInv, Holding, Allocating
<1>13. ASSUME UNCHANGED <<h, a, d, tx, chan>>, closed => closed' PROVE RingInv'
  BY <1>13, RingFrame
<1>14. ASSUME NEW t \in tasks, Linger(t) PROVE RingInv'
  <2>1. UNCHANGED <<h, a, d, closed>> /\ t.n \in Attempts
    BY <1>14 DEF Linger, CancelInv
  <2>2. \A n \in Attempts : chan'[n] \in {chan[n], NoResp}
    BY <1>14, <2>1 DEF Linger, TypeOK
  <2>3. \A n \in Attempts : tx'[n] = tx[n] \/ (tx'[n] = "dead" /\ chan'[n] = NoResp)
    BY <1>14, <2>1 DEF Linger, TypeOK
  <2>4. \A n \in Attempts : /\ chan'[n].k = "2xx" => tx'[n] = "accepted"
                            /\ chan'[n].k = "fail" => tx'[n] = "completed"
    BY <1>a, <2>2, <2>3 DEF RingInv
  <2>5. h.resp.k \in {"2xx", "fail"} => h.att \in Attempts
    BY <1>a DEF RespInv, Allocating, Closing
  <2>6. /\ h'.resp.k = "2xx" => tx'[h'.att] \in {"accepted", "dead"}
        /\ h'.resp.k = "fail" => tx'[h'.att] \in {"completed", "dead"}
    BY <2>1, <2>3, <2>5 DEF RingInv
  <2> QED BY <2>1, <2>3, <2>4, <2>6 DEF RingInv
<1>15. ASSUME NEW t \in tasks, Goroutine(t) PROVE RingInv'
  <2>1. CASE ~Linger(t)
    BY <1>13, <1>15, <2>1 DEF Goroutine, SendCancel, SendCancelDone, Late2xx, Late2xxEarly, AckCallee,
       CloseSession
  <2> QED BY <1>14, <2>1
<1>16. ASSUME NEW t \in tasks, OrphanCancel(t) PROVE RingInv'
  BY <1>16, RingTaken DEF OrphanCancel
<1>17. CASE CallerCancel
  <2>1. CASE caller.bridged /\ hook.live
    BY <1>17, <2>1, RingTaken DEF CallerCancel
  <2>2. CASE ~(caller.bridged /\ hook.live)
    BY <1>13, <1>17, <2>2 DEF CallerCancel
  <2> QED BY <2>1, <2>2
<1>18. CASE AckExpired \/ CallEnds \/ CloseAll
  <2>1. UNCHANGED <<h, a, tx, chan, closed>> /\ End /\ (closed \/ d.state = "Confirmed")
    BY <1>18 DEF AckExpired, CallEnds, CloseAll
  <2>2. d'.inFlight = 0 /\ d'.cancelled = d.cancelled
    BY <2>1, EndEffect, InFlightEffect
  <2>3. closed \/ h.pc \notin Holding \cup {"send", "markSent"}
    BY <2>1 DEF StateInv, Answered, Closing, Holding, Allocating
  <2> QED BY <2>1, <2>2, <2>3, RingFrame
<1>19. CASE CallerAck \/ Backstop \/ Close \/ OrphanLookup \/ UNCHANGED vars
  <2>1. UNCHANGED <<h, a, tx, chan>> /\ d'.inFlight = d.inFlight /\ d'.cancelled = d.cancelled
        /\ (closed => closed')
    BY <1>19 DEF CallerAck, Backstop, Close, OrphanLookup, vars, TypeOK, Records
  <2> QED BY <2>1, RingFrame
<1>20. ASSUME NEW n \in Attempts, UNCHANGED <<h, a, d, closed>>,
              \A m \in Attempts : m # n => tx'[m] = tx[m] /\ chan'[m] = chan[m],
              tx'[n] \in {"calling", "proceeding"} => tx[n] \in {"calling", "proceeding"},
              tx[n] \in {"accepted", "completed", "dead"} => tx'[n] \in {tx[n], "dead"},
              chan'[n].k = "2xx" => tx'[n] = "accepted",
              chan'[n].k = "fail" => tx'[n] = "completed"
       PROVE  RingInv'
  <2>1. h.resp.k \in {"2xx", "fail"} => h.att \in Attempts
    BY <1>a DEF RespInv, Allocating, Closing
  <2>2. /\ h.resp.k = "2xx" => tx'[h.att] \in {"accepted", "dead"}
        /\ h.resp.k = "fail" => tx'[h.att] \in {"completed", "dead"}
    BY <1>20, <2>1 DEF RingInv
  <2>3. \A m \in Attempts : tx'[m] \in {"calling", "proceeding"} => tx[m] \in {"calling", "proceeding"}
    BY <1>20
  <2>4. \A m \in Attempts : /\ chan'[m].k = "2xx" => tx'[m] = "accepted"
                            /\ chan'[m].k = "fail" => tx'[m] = "completed"
    BY <1>20 DEF RingInv
  <2> QED BY <1>20, <2>2, <2>3, <2>4 DEF RingInv
<1>21. ASSUME NEW n \in Attempts, Decline(n) \/ TxDies(n) PROVE RingInv'
  <2>1. /\ UNCHANGED <<h, a, d, closed>>
        /\ \A m \in Attempts : m # n => tx'[m] = tx[m] /\ chan'[m] = chan[m]
        /\ tx'[n] \in {"completed", "dead"} /\ tx[n] \in {"calling", "proceeding", "accepted"}
        /\ tx'[n] = "completed" => tx[n] # "accepted"
    BY <1>21 DEF Decline, TxDies, Pending, TypeOK
  <2>2. chan'[n].k \notin {"2xx", "fail"} \/ (chan'[n].k = "fail" /\ tx'[n] = "completed")
    BY <1>21, <1>a DEF Decline, TxDies, TypeOK
  <2> QED BY <1>20, <2>1, <2>2
<1>22. ASSUME NEW n \in Attempts, NEW f \in Forks, Ring(n, f) PROVE RingInv'
  <2>1. /\ UNCHANGED <<h, a, d, closed>>
        /\ \A m \in Attempts : m # n => tx'[m] = tx[m] /\ chan'[m] = chan[m]
        /\ tx'[n] = "proceeding" /\ tx[n] \in {"calling", "proceeding"}
        /\ chan'[n].k = "1xx"
    BY <1>22 DEF Ring, Pending, TypeOK
  <2> QED BY <1>20, <2>1
<1>23. ASSUME NEW n \in Attempts, NEW f \in Forks, Deliver2xx(n, f) PROVE RingInv'
  <2>1. CASE UNCHANGED <<tx, chan>>
    BY <1>13, <1>23, <2>1 DEF Deliver2xx
  <2>2. CASE Pending(n) /\ chan' = [chan EXCEPT ![n] = [k |-> "2xx", f |-> f]]
             /\ tx' = [tx EXCEPT ![n] = "accepted"]
    <3>1. /\ \A m \in Attempts : m # n => tx'[m] = tx[m] /\ chan'[m] = chan[m]
          /\ tx'[n] = "accepted" /\ tx[n] \in {"calling", "proceeding"}
          /\ chan'[n].k = "2xx"
      BY <2>2 DEF Pending, TypeOK
    <3> QED BY <1>20, <1>23, <3>1 DEF Deliver2xx
  <2> QED BY <1>23, <2>1, <2>2 DEF Deliver2xx
<1>24. ASSUME NEW n \in Attempts, NEW f \in Forks, Answer(n, f) PROVE RingInv'
  BY <1>13, <1>24 DEF Answer
<1> QED
  BY <1>1, <1>2, <1>3, <1>4, <1>5, <1>6, <1>7, <1>8, <1>9, <1>10, <1>11, <1>12, <1>15,
     <1>16, <1>17, <1>18, <1>19, <1>21, <1>22, <1>23, <1>24 DEF Next, Handler

----------------------------------------------------------------------------
(* The record is not confirmed behind the caller's back. *)

\* Refusing a 2xx leaves the hook on the record.
LEMMA HookEffect ==
    ASSUME TypeOK
    PROVE  /\ \A n, f : Refuse2xx(n, f) => hook'.live = hook.live
           /\ MediaFailed => hook'.live = hook.live
BY DEF TypeOK, Refuse2xx, MediaFailed

\* A step that leaves the hook and the record's state alone, and gives the
\* caller no final but the handler's.
LEMMA ConfirmFrame ==
    ASSUME TypeOK, ConfirmInv,
           hook'.live = hook.live, d'.state = d.state, Running("close")' => Running("close"),
           d'.callerGone = d.callerGone, d'.cancelled = d.cancelled,
           h'.att = h.att, h'.pc = "loop" => h.pc = "loop" \/ h.att # 0,
           caller'.bridged = caller.bridged,
           caller' = caller \/ caller'.tries = caller.tries + 1
    PROVE  ConfirmInv'
<1>1. caller.tries \in Nat
  BY DEF TypeOK, CallerStates
<1> QED
  BY <1>1 DEF ConfirmInv

\* Every step keeps a record that may be confirmed from a caller that has its
\* final.
LEMMA ConfirmStep ==
    TypeOK /\ FinalInv /\ RespInv /\ StateInv /\ ConfirmInv /\ [Next]_vars => ConfirmInv'
<1> SUFFICES ASSUME TypeOK, FinalInv, RespInv, StateInv, ConfirmInv, [Next]_vars PROVE ConfirmInv'
  OBVIOUS
<1> USE DEF callee, At
<1>a. /\ h.pc \in Points /\ h.att \in 0..N /\ caller.tries \in Nat
      /\ d.state \in {"none", "Early", "Confirmed", "Ended"}
  BY DEF TypeOK, HandlerStates, CallerStates, Records
<1>1. CASE Begin
  <2>1. CASE Final("refused") /\ Goto("done") /\ UNCHANGED <<d, hook>>
    BY <1>1, <2>1, ConfirmFrame, FinalEffect, GotoEffect, CloseTasks DEF Begin
  <2>2. CASE d' = [d EXCEPT !.state = "Early"] /\ hook' = [hook EXCEPT !.live = TRUE] /\ UNCHANGED caller
    <3>1. d'.state = "Early" /\ d'.callerGone = d.callerGone /\ d'.cancelled = d.cancelled /\ hook'.live
      BY <2>2 DEF TypeOK, Records
    <3>2. h.att = 0 /\ h'.att = 0 /\ h'.pc # "loop" /\ d.state = "none"
      BY <1>1, GotoEffect DEF Begin, RespInv, StateInv
    <3>3. ~Running("close")'
      BY <1>1, <3>2, CloseTasks DEF Begin, ConfirmInv
    <3> QED BY <2>2, <3>1, <3>2, <3>3 DEF ConfirmInv
  <2> QED BY <1>1, <2>1, <2>2 DEF Begin
<1>2. CASE Open \/ Alloc \/ Attach \/ Relay
  <2>1. /\ d'.state = d.state /\ d'.callerGone = d.callerGone /\ d'.cancelled = d.cancelled
        /\ hook'.live = hook.live
    BY <1>2, HookEffect DEF Open, Alloc, Attach, Relay, TypeOK, Records
  <2>2. Running("close")' <=> Running("close")
    BY <1>2, CloseTasks DEF Open, Alloc, Attach, Relay
  <2>3. h'.att = h.att /\ h'.pc # "loop"
    BY <1>2, GotoEffect, ToPumpEffect, MediaFailedMoves DEF Open, Alloc, Attach, Relay
  <2>4. UNCHANGED caller \/ Final("refused")
    BY <1>2 DEF Open, Alloc, Attach, Relay, MediaFailed
  <2> QED BY <2>1, <2>2, <2>3, <2>4, FinalEffect, ConfirmFrame
<1>3. CASE BridgeCancel
  <2>1. UNCHANGED <<d, hook, tasks>> /\ h'.att = h.att /\ d.state # "none"
    BY <1>3, GotoEffect DEF BridgeCancel, StateInv
  <2>2. \/ UNCHANGED caller /\ h'.pc = "return"
        \/ caller.final = "none" /\ caller'.final = "none" /\ caller'.bridged
    BY <1>3, GotoEffect DEF BridgeCancel, TypeOK, CallerStates
  <2> QED BY <2>1, <2>2, CloseTasks DEF ConfirmInv
<1>4. CASE NextAttempt
  <2>1. UNCHANGED <<d, hook, tasks>> /\ caller.bridged
    BY <1>4 DEF NextAttempt, ConfirmInv
  <2>2. caller'.bridged /\ (UNCHANGED caller \/ caller'.tries = caller.tries + 1)
    BY <1>4, <2>1, FinalEffect DEF NextAttempt
  <2> QED BY <1>a, <2>1, <2>2, CloseTasks DEF ConfirmInv
<1>5. CASE Track \/ Send \/ PumpDone \/ PumpContext \/ ArmAck \/ SetRelayed2xx \/ Untrack
  <2>1. /\ d'.state = d.state /\ d'.callerGone = d.callerGone /\ d'.cancelled = d.cancelled
        /\ UNCHANGED <<hook, tasks, caller>>
    BY <1>5 DEF Track, Send, PumpDone, PumpContext, ArmAck, SetRelayed2xx, Untrack, TypeOK, Records
  <2>2. h'.att = h.att /\ (h'.pc = "loop" => h.att # 0)
    BY <1>5, GotoEffect, AfterPumpEffect DEF Track, Send, PumpDone, PumpContext, ArmAck, SetRelayed2xx,
       Untrack, RespInv, Allocating, Closing
  <2> QED BY <2>1, <2>2, CloseTasks, ConfirmFrame
<1>6. CASE Respond2xx \/ GiveUp
  <2>1. UNCHANGED <<d, hook, tasks>> /\ h'.att = h.att /\ h'.pc = "untrack"
    BY <1>6, GotoEffect DEF Respond2xx, GiveUp
  <2>2. caller'.bridged = caller.bridged /\ (UNCHANGED caller \/ caller'.tries = caller.tries + 1)
    BY <1>6, FinalEffect DEF Respond2xx, GiveUp
  <2> QED BY <2>1, <2>2, CloseTasks, ConfirmFrame
<1>7. CASE MarkSent \/ PumpResponse
  <2>1. UNCHANGED <<d, hook, caller>> /\ h'.att = h.att /\ h'.pc \in {"pump", "step"}
    BY <1>7 DEF MarkSent, PumpResponse, TypeOK, HandlerStates
  <2>2. Running("close")' <=> Running("close")
    BY <1>7, CloseTasks DEF MarkSent, PumpResponse
  <2> QED BY <2>1, <2>2, ConfirmFrame
<1>8. CASE Step \/ Drain
  <2>1. UNCHANGED <<d, caller>> /\ hook'.live = hook.live
    BY <1>8, HookEffect DEF Step, Drain, DrainEnds
  <2>2. h'.att = h.att /\ h'.pc # "loop"
    BY <1>8, GotoEffect, AfterPumpEffect DEF Step, Drain
  <2>3. Running("close")' <=> Running("close")
    BY <1>8, CloseTasks DEF Step, Drain, DrainEnds
  <2> QED BY <2>1, <2>2, <2>3, ConfirmFrame
<1>9. CASE Confirm
  <2>1. CASE d.state = "Early" /\ d.media /\ ~d.cancelled
    <3>1. h'.att = h.att /\ h'.pc = "arm" /\ h.pc = "commit" /\ UNCHANGED <<hook, tasks, caller>>
      BY <1>9, <2>1, GotoEffect DEF Confirm
    <3>2. d'.state = "Confirmed" /\ d'.callerGone = d.callerGone /\ d'.cancelled = d.cancelled
      BY <1>9, <3>1, ConfirmEffect
    <3> QED BY <2>1, <3>1, <3>2, CloseTasks DEF ConfirmInv
  <2>2. CASE ~(d.state = "Early" /\ d.media /\ ~d.cancelled)
    <3>1. UNCHANGED <<d, caller>> /\ hook'.live = hook.live /\ h'.att = h.att /\ h'.pc = "relayErr"
      BY <1>9, <2>2, HookEffect, GotoEffect DEF Confirm
    <3>2. Running("close")' <=> Running("close")
      BY <1>9, <2>2, CloseTasks DEF Confirm
    <3> QED BY <3>1, <3>2, ConfirmFrame
  <2> QED BY <2>1, <2>2
<1>10. CASE RelayErr
  <2>1. UNCHANGED <<d, hook, tasks>> /\ h'.att = h.att /\ h'.pc \in {"untrack", "giveUp", "abandon"}
    <3>1. CASE d.cancelled
      BY <1>10, <3>1, AfterPumpEffect DEF RelayErr
    <3>2. CASE ~d.cancelled
      BY <1>10, <3>2 DEF RelayErr, TypeOK, HandlerStates
    <3> QED BY <3>1, <3>2
  <2>2. caller'.bridged = caller.bridged /\ (UNCHANGED caller \/ caller'.tries = caller.tries + 1)
    BY <1>10, FinalEffect DEF RelayErr
  <2> QED BY <2>1, <2>2, CloseTasks, ConfirmFrame
<1>11. ASSUME NEW why, CancelSeries(why), UNCHANGED hook, Running("close")' => Running("close"),
              h'.att = h.att, h'.pc = "loop" => h.pc = "loop",
              caller'.bridged = caller.bridged, caller'.tries = caller.tries,
              caller'.final = caller.final \/ why = "caller"
       PROVE  ConfirmInv'
  BY <1>11, CancelEffect DEF ConfirmInv
<1>12. CASE Abandon
  <2>1. h'.att = h.att /\ h'.pc = "drain" /\ UNCHANGED <<hook, caller>> /\ CancelSeries("backstop")
    BY <1>12, GotoEffect DEF Abandon
  <2>2. Running("close")' <=> Running("close")
    BY <1>12, CloseTasks DEF Abandon
  <2> QED BY <1>11, <2>1, <2>2
<1>13. ASSUME End, UNCHANGED <<hook, caller>>, h'.att = h.att, h'.pc = "loop" => h.pc = "loop"
       PROVE  ConfirmInv'
  BY <1>13, EndEffect DEF ConfirmInv
<1>14. CASE EndUnlessUp
  <2>1. h'.att = h.att /\ h'.pc = "done" /\ UNCHANGED <<hook, caller>>
    BY <1>14 DEF EndUnlessUp, TypeOK, HandlerStates
  <2>2. CASE UNCHANGED <<d, tasks>>
    BY <2>1, <2>2, CloseTasks, ConfirmFrame
  <2> QED BY <1>13, <1>14, <2>1, <2>2 DEF EndUnlessUp
<1>15. ASSUME NEW t \in tasks, Goroutine(t) PROVE ConfirmInv'
  <2>1. UNCHANGED <<h, d, caller>>
    BY <1>15 DEF Goroutine, SendCancel, SendCancelDone, Late2xx, Late2xxEarly, AckCallee, Linger,
       CloseSession
  <2>2. CASE CloseSession(t)
    <3>1. d.state = "Ended"
      BY <2>2 DEF CloseSession, ConfirmInv, Running
    <3> QED BY <2>1, <3>1 DEF ConfirmInv
  <2>3. CASE ~CloseSession(t)
    <3>1. hook'.live = hook.live
      BY <1>15, <2>3 DEF Goroutine, SendCancel, SendCancelDone, Late2xx, Late2xxEarly, AckCallee, Linger,
         TypeOK
    <3>2. \A u \in tasks' : u \in tasks \/ u.k # "close"
      BY <1>15, <2>3 DEF Goroutine, SendCancel, SendCancelDone, Late2xx, Late2xxEarly, AckCallee, Linger,
         Task
    <3> QED BY <2>1, <3>1, <3>2, ConfirmFrame DEF Running
  <2> QED BY <2>2, <2>3
<1>16. ASSUME NEW t \in tasks, OrphanCancel(t) PROVE ConfirmInv'
  <2>1. Running("close")' => Running("close")
    BY <1>16 DEF OrphanCancel, Running, Task
  <2> QED BY <1>11, <1>16, <2>1 DEF OrphanCancel
<1>17. CASE CallerCancel
  <2>1. /\ UNCHANGED <<h, hook>> /\ caller'.bridged = caller.bridged /\ caller'.tries = caller.tries
        /\ (Running("close")' <=> Running("close"))
    BY <1>17, CloseTasks DEF CallerCancel, TypeOK, CallerStates
  <2>2. CASE caller.bridged /\ hook.live
    BY <1>11, <1>17, <2>1, <2>2 DEF CallerCancel
  <2>3. CASE ~(caller.bridged /\ hook.live)
    BY <1>17, <2>1, <2>3 DEF CallerCancel, ConfirmInv
  <2> QED BY <2>2, <2>3
<1>18. CASE CallerAck \/ Backstop \/ Close \/ OrphanLookup \/ UNCHANGED vars
  <2>1. /\ UNCHANGED <<h, hook>> /\ d'.state = d.state /\ d'.callerGone = d.callerGone
        /\ d'.cancelled = d.cancelled
    BY <1>18 DEF CallerAck, Backstop, Close, OrphanLookup, vars, TypeOK, Records
  <2>2. /\ caller'.bridged = caller.bridged /\ caller'.final = caller.final
        /\ caller'.tries = caller.tries /\ (Running("close")' <=> Running("close"))
    BY <1>18, CloseTasks DEF CallerAck, Backstop, Close, OrphanLookup, vars, TypeOK, CallerStates
  <2> QED BY <2>1, <2>2 DEF ConfirmInv
<1>19. CASE AckExpired \/ CallEnds \/ CloseAll
  BY <1>13, <1>19 DEF AckExpired, CallEnds, CloseAll
<1>20. ASSUME NEW n \in Attempts, Decline(n) \/ TxDies(n) PROVE ConfirmInv'
  BY <1>20, ConfirmFrame, CloseTasks DEF Decline, TxDies
<1>21. ASSUME NEW n \in Attempts, NEW f \in Forks, Ring(n, f) \/ Answer(n, f) \/ Deliver2xx(n, f)
       PROVE  ConfirmInv'
  <2>1. Running("close")' <=> Running("close")
    BY <1>21, CloseTasks DEF Ring, Answer, Deliver2xx
  <2> QED BY <1>21, <2>1, ConfirmFrame DEF Ring, Answer, Deliver2xx
<1> QED
  BY <1>1, <1>2, <1>3, <1>4, <1>5, <1>6, <1>7, <1>8, <1>9, <1>10, <1>12, <1>14, <1>15,
     <1>16, <1>17, <1>18, <1>19, <1>20, <1>21 DEF Next, Handler

----------------------------------------------------------------------------
(* Failover stops at the first node that speaks. *)

\* A step that moves the handler away from the failover loop, or on with a
\* response in hand, and leaves the transactions alone.
LEMMA SpeakAway ==
    ASSUME TypeOK, SpeakInv, UNCHANGED <<tx, chan>>,
           \A m \in Attempts : Spoke(m)' => Spoke(m),
           \A t \in tasks' : t.k = "linger" => t \in tasks \/ h'.pc \in Closing \cup {"giveUp"},
           h.pc \in Closing \cup {"giveUp"} => h'.pc \in Closing \cup {"giveUp"},
           h'.pc \notin {"loop", "track", "send", "markSent"},
           h'.pc \in {"pump", "step", "relay"} => h'.responded,
           h'.pc \in Allocating /\ h'.att # 0 => h'.responded
    PROVE  SpeakInv'
BY DEF SpeakInv, Mute

\* A step that leaves the handler alone and, of the transactions, moves only
\* that of an attempt that is still alive.
LEMMA SpeakCallee ==
    ASSUME TypeOK, RespInv, SpeakInv, UNCHANGED h, NEW n \in Attempts,
           tx[n] \notin {"none", "dead"}, tx'[n] # "none",
           \A m \in Attempts : m # n =>
              tx'[m] = tx[m] /\ chan'[m] = chan[m] /\ (Spoke(m)' => Spoke(m)),
           Spoke(n)' /\ chan'[n] = NoResp => Spoke(n) /\ chan[n] = NoResp,
           \A t \in tasks' : t.k = "linger" => t \in tasks
    PROVE  SpeakInv'
<1>1. \A m \in Attempts : Mute(m) => m # n /\ Mute(m)'
  BY DEF Mute
<1>2. ASSUME h.pc = "markSent" \/ (h.pc = "pump" /\ ~h.responded), Spoke(h.att)'
      PROVE  chan'[h.att] # NoResp
  <2>1. h.att \in Attempts
    BY <1>2, NAssumption DEF RespInv, Allocating, Closing, TypeOK, HandlerStates, Attempts
  <2> DEFINE m == h.att
  <2>2. Spoke(m)' /\ (Spoke(m) => chan[m] # NoResp)
    BY <1>2 DEF SpeakInv
  <2> QED BY <2>1, <2>2
<1> QED
  BY <1>1, <1>2 DEF SpeakInv

\* No lingering wait is started by the steps that start no drain.
LEMMA LingerTasks ==
    /\ UNCHANGED tasks => \A t \in tasks' : t.k = "linger" => t \in tasks
    /\ End => \A t \in tasks' : t.k = "linger" => t \in tasks
    /\ MediaFailed => \A t \in tasks' : t.k = "linger" => t \in tasks
    /\ \A n, f : Refuse2xx(n, f) => \A t \in tasks' : t.k = "linger" => t \in tasks
    /\ \A k, n, f : k # "linger" /\ Spawn(Task(k, n, f)) => \A t \in tasks' : t.k = "linger" => t \in tasks
<1>1. ASSUME NEW k, NEW n, NEW f, k # "linger", Spawn(Task(k, n, f))
      PROVE  \A t \in tasks' : t.k = "linger" => t \in tasks
  <2>1. tasks' = tasks \cup {Task(k, n, f)} /\ Task(k, n, f).k # "linger"
    BY <1>1 DEF Spawn, Task
  <2> QED BY <2>1
<1>2. ASSUME NEW n, NEW f, Refuse2xx(n, f) PROVE \A t \in tasks' : t.k = "linger" => t \in tasks
  <2>1. Spawn(Task("ack", n, f)) \/ Spawn(Task("ackbye", n, f))
    BY <1>2 DEF Refuse2xx
  <2> QED BY <1>1, <2>1
<1>3. MediaFailed => \A t \in tasks' : t.k = "linger" => t \in tasks
  BY <1>2 DEF MediaFailed
<1>4. End => \A t \in tasks' : t.k = "linger" => t \in tasks
  BY <1>1 DEF End
<1> QED
  BY <1>1, <1>2, <1>3, <1>4

\* Every step keeps earlier nodes mute while another may still be tried.
LEMMA SpeakStep ==
    TypeOK /\ RespInv /\ CancelInv /\ SpeakInv /\ [Next]_vars => SpeakInv'
<1> SUFFICES ASSUME TypeOK, RespInv, CancelInv, SpeakInv, [Next]_vars PROVE SpeakInv'
  OBVIOUS
<1> USE DEF callee, At
<1>a. /\ h.pc \in Points /\ h.att \in 0..N
      /\ h.att # 0 => h.att \in Attempts
      /\ h.responded \in BOOLEAN /\ 0 \notin Attempts
  BY NAssumption DEF TypeOK, HandlerStates, Attempts
<1>b. ASSUME UNCHANGED <<tx, chan, leg>>
      PROVE  \A m \in Attempts : (Spoke(m)' <=> Spoke(m)) /\ (Mute(m)' <=> Mute(m))
  BY <1>b DEF Spoke, Mute
<1>c. UNCHANGED leg => \A m \in Attempts : Spoke(m)' <=> Spoke(m)
  BY DEF Spoke
<1>1. CASE Begin \/ Open \/ Alloc \/ Attach \/ Relay
  <2>1. UNCHANGED <<tx, chan, leg>>
    BY <1>1 DEF Begin, Open, Alloc, Attach, Relay
  <2>2. /\ h'.att = h.att /\ h'.responded = h.responded
        /\ h.pc \in {"begin", "open", "alloc", "attach", "relay"}
        /\ h'.pc \notin {"loop", "track", "send", "markSent", "step", "relay"}
        /\ h.att # 0 => h.pc # "begin"
        /\ h'.pc = "pump" => h.att # 0
    <3>1. h'.pc = "pump" => h.att # 0
      BY <1>1, GotoEffect, MediaFailedMoves DEF Begin, Open, Alloc, Attach, Relay, RespInv, Allocating, Closing
    <3> QED BY <1>1, <3>1, GotoEffect, ToPumpEffect, MediaFailedMoves DEF Begin, Open, Alloc, Attach, Relay, RespInv
  <2>3. \A t \in tasks' : t.k = "linger" => t \in tasks
    BY <1>1, LingerTasks DEF Begin, Open, Alloc, Attach, Relay
  <2>4. h.att # 0 => h.responded
    BY <2>2 DEF SpeakInv, Allocating
  <2> QED BY <1>b, <2>1, <2>2, <2>3, <2>4, SpeakAway DEF Closing
<1>2. CASE BridgeCancel
  <2>1. UNCHANGED <<tx, chan, leg, tasks>> /\ h.pc = "bridge" /\ h.att = 0 /\ h'.att = 0 /\ h'.pc \in {"return", "loop"}
    BY <1>2, GotoEffect DEF BridgeCancel, RespInv
  <2> QED BY <1>a, <1>b, <2>1 DEF SpeakInv, Closing, Allocating, Attempts
<1>3. CASE NextAttempt
  <2>1. UNCHANGED <<tx, chan, leg, tasks>> /\ h.pc = "loop"
    BY <1>3 DEF NextAttempt
  <2>2. CASE Goto("giveUp") \/ Goto("untrack")
    BY <1>b, <2>1, <2>2, GotoEffect, SpeakAway DEF Closing, Allocating
  <2>3. CASE h' = [h EXCEPT !.pc = "track", !.att = @ + 1]
    <3>1. h'.pc = "track" /\ h'.att = h.att + 1
      BY <2>3 DEF TypeOK, HandlerStates
    <3>2. \A m \in Attempts : m < h'.att => m <= h.att
      BY <1>a, <3>1 DEF Attempts
    <3> QED BY <1>b, <2>1, <3>1, <3>2 DEF SpeakInv, Closing, Allocating
  <2> QED BY <1>3, <2>2, <2>3 DEF NextAttempt
<1>4. CASE Track
  <2>1. UNCHANGED <<tx, chan, leg, tasks>> /\ h.pc = "track" /\ h'.att = h.att /\ h'.pc \in {"giveUp", "send"}
    BY <1>4, GotoEffect DEF Track
  <2> QED BY <1>b, <2>1 DEF SpeakInv, Closing, Allocating
<1>5. CASE Send
  <2>1. UNCHANGED <<chan, leg, tasks>> /\ h.pc = "send" /\ h'.att = h.att /\ h.att \in Attempts /\ tx[h.att] = "none"
    BY <1>5, <1>a, GotoEffect DEF Send, CancelInv
  <2>2. CASE UNCHANGED tx /\ (Goto("giveUp") \/ Goto("loop"))
    <3>1. h'.pc \in {"giveUp", "loop"}
      BY <2>2, GotoEffect
    <3>2. Mute(h.att)
      BY <2>1 DEF SpeakInv, Mute
    <3>3. \A m \in Attempts : m <= h.att => Mute(m)
      BY <1>a, <2>1, <3>2 DEF SpeakInv, Attempts
    <3> QED BY <1>b, <2>1, <2>2, <3>1, <3>3 DEF SpeakInv, Closing, Allocating
  <2>3. CASE Goto("markSent") /\ tx' = [tx EXCEPT ![h.att] = "calling"]
    <3>1. h'.pc = "markSent"
      BY <2>3, GotoEffect
    <3>2. \A m \in Attempts : tx'[m] = IF m = h.att THEN "calling" ELSE tx[m]
      BY <2>1, <2>3 DEF TypeOK
    <3>3. ~Spoke(h.att)
      BY <2>1 DEF SpeakInv
    <3>4. \A m \in Attempts : m < h.att => Mute(m)'
      BY <1>a, <1>c, <2>1, <3>2 DEF SpeakInv, Mute, Attempts
    <3>5. ~Spoke(h.att)'
      BY <1>c, <2>1, <3>3 DEF Spoke
    <3>6. \A m \in Attempts : tx'[m] = "none" => chan'[m] = NoResp /\ ~Spoke(m)'
      BY <1>c, <2>1, <3>2 DEF SpeakInv
    <3> QED BY <2>1, <3>1, <3>4, <3>5, <3>6 DEF SpeakInv, Closing, Allocating
  <2> QED BY <1>5, <2>2, <2>3 DEF Send
<1>6. CASE MarkSent
  <2>1. UNCHANGED <<tx, chan, leg>> /\ h.pc = "markSent"
    BY <1>6 DEF MarkSent
  <2>2. h'.pc = "pump" /\ h'.att = h.att /\ ~h'.responded
    BY <1>6 DEF MarkSent, TypeOK, HandlerStates
  <2>3. \A t \in tasks' : t.k = "linger" => t \in tasks
    BY <1>6, LingerTasks DEF MarkSent
  <2>4. Spoke(h.att)' <=> Spoke(h.att)
    BY <2>1, <2>2 DEF Spoke
  <2> QED BY <1>b, <2>1, <2>2, <2>3, <2>4 DEF SpeakInv, Closing, Allocating
<1>7. CASE PumpResponse
  <2>1. UNCHANGED <<tx, leg, tasks>> /\ h.pc = "pump" /\ h.att \in Attempts
    BY <1>7, <1>a DEF PumpResponse, RespInv, Allocating, Closing
  <2>2. h'.pc = "step" /\ h'.responded
    BY <1>7 DEF PumpResponse, TypeOK, HandlerStates
  <2>3. \A m \in Attempts : chan'[m] \in {chan[m], NoResp}
    BY <1>7, <2>1 DEF PumpResponse, TypeOK
  <2> QED BY <1>c, <2>1, <2>2, <2>3 DEF SpeakInv, Closing, Allocating
<1>8. CASE PumpDone
  <2>1. /\ UNCHANGED <<tx, chan, leg, tasks>> /\ h.pc = "pump" /\ h.att \in Attempts /\ h'.att = h.att
        /\ tx[h.att] = "dead" /\ chan[h.att] = NoResp
    BY <1>8, <1>a, GotoEffect, AfterPumpEffect DEF PumpDone, RespInv, Allocating, Closing
  <2>2. CASE CanRetry
    <3>1. h'.pc = "loop" /\ ~h.responded
      BY <1>8, <2>2, GotoEffect DEF PumpDone, CanRetry
    <3>2. Mute(h.att)
      BY <2>1, <3>1 DEF SpeakInv, Mute
    <3>3. \A m \in Attempts : m <= h.att => Mute(m)
      BY <1>a, <2>1, <3>1, <3>2 DEF SpeakInv, Attempts
    <3> QED BY <1>b, <2>1, <3>1, <3>3 DEF SpeakInv, Closing, Allocating
  <2>3. CASE ~CanRetry
    <3>1. h'.pc \in {"untrack", "giveUp"}
      BY <1>8, <2>3, AfterPumpEffect DEF PumpDone
    <3> QED BY <1>b, <2>1, <3>1, SpeakAway DEF Closing, Allocating
  <2> QED BY <2>2, <2>3
<1>9. CASE PumpContext \/ Step \/ Confirm \/ ArmAck \/ SetRelayed2xx \/ Respond2xx \/ Abandon \/ GiveUp \/ Untrack
  <2>1. UNCHANGED <<tx, chan, leg>>
    BY <1>9 DEF PumpContext, Step, Confirm, ArmAck, SetRelayed2xx, Respond2xx, Abandon, GiveUp, Untrack
  <2>2. /\ h'.att = h.att /\ h'.responded = h.responded
        /\ h'.pc \in {"abandon", "relay", "arm", "relayErr", "record", "respond", "drain", "untrack", "giveUp", "return"}
        /\ h'.pc = "relay" => h.pc = "step"
        /\ h.pc \in Closing \cup {"giveUp"} => h'.pc \in Closing
    BY <1>9, GotoEffect, AfterPumpEffect DEF PumpContext, Step, Confirm, ArmAck, SetRelayed2xx, Respond2xx, Abandon,
       GiveUp, Untrack, Closing
  <2>3. \A t \in tasks' : t.k = "linger" => t \in tasks
    BY <1>9, LingerTasks DEF PumpContext, Step, Confirm, ArmAck, SetRelayed2xx, Respond2xx, Abandon, GiveUp, Untrack
  <2>4. h'.pc = "relay" => h'.responded
    BY <2>2 DEF SpeakInv
  <2> QED BY <1>b, <2>1, <2>2, <2>3, <2>4, SpeakAway DEF Allocating
<1>10. CASE RelayErr
  <2>1. UNCHANGED <<tx, chan, leg, tasks>> /\ h.pc = "relayErr"
    BY <1>10 DEF RelayErr
  <2>2. h'.pc \in {"untrack", "giveUp", "abandon"}
    <3>1. CASE d.cancelled
      BY <1>10, <3>1, AfterPumpEffect DEF RelayErr
    <3>2. CASE ~d.cancelled
      BY <1>10, <3>2 DEF RelayErr, TypeOK, HandlerStates
    <3> QED BY <3>1, <3>2
  <2> QED BY <1>b, <2>1, <2>2, SpeakAway DEF Closing, Allocating
<1>11. CASE Drain
  <2>1. UNCHANGED leg /\ h.pc = "drain" /\ h.att \in Attempts /\ tx[h.att] # "none"
    BY <1>11, <1>a DEF Drain, CancelInv, RespInv, Allocating, Closing
  <2>2. h'.pc \in {"drain", "untrack", "giveUp"}
    BY <1>11, AfterPumpEffect DEF Drain
  <2>3. \A m \in Attempts : tx'[m] = "none" => tx[m] = "none" /\ m # h.att
    BY <1>11, <2>1 DEF Drain, TypeOK
  <2>4. \A m \in Attempts : chan'[m] \in {chan[m], NoResp}
    BY <1>11, <2>1 DEF Drain, DrainEnds, TypeOK
  <2>5. CASE h'.pc = "drain"
    <3>1. UNCHANGED tasks
      BY <1>11, <2>5, AfterPumpEffect DEF Drain
    <3> QED BY <1>c, <2>1, <2>3, <2>4, <2>5, <3>1 DEF SpeakInv, Closing, Allocating
  <2>6. CASE h'.pc \in {"untrack", "giveUp"}
    BY <1>c, <2>1, <2>3, <2>4, <2>6 DEF SpeakInv, Closing, Allocating
  <2> QED BY <2>2, <2>5, <2>6
<1>12. CASE EndUnlessUp
  <2>1. UNCHANGED <<tx, chan, leg>> /\ h'.pc = "done"
    BY <1>12 DEF EndUnlessUp, TypeOK, HandlerStates
  <2>2. \A t \in tasks' : t.k = "linger" => t \in tasks
    BY <1>12, LingerTasks DEF EndUnlessUp
  <2> QED BY <1>b, <2>1, <2>2, SpeakAway DEF Closing, Allocating
<1>13. ASSUME UNCHANGED <<h, tx, chan>>, \A m \in Attempts : Spoke(m)' => Spoke(m),
              \A t \in tasks' : t.k = "linger" => t \in tasks
       PROVE  SpeakInv'
  <2>1. \A m \in Attempts : Mute(m) => Mute(m)'
    BY <1>13 DEF Mute
  <2>2. ASSUME h.pc = "markSent" \/ (h.pc = "pump" /\ ~h.responded), Spoke(h.att)'
        PROVE  chan'[h.att] # NoResp
    <3>1. h.att \in Attempts
      BY <1>a, <2>2 DEF RespInv, Allocating, Closing
    <3> DEFINE m == h.att
    <3>2. Spoke(m)' /\ (Spoke(m) => chan[m] # NoResp)
      BY <1>13, <2>2 DEF SpeakInv
    <3> QED BY <1>13, <3>1, <3>2
  <2> QED BY <1>13, <2>1, <2>2 DEF SpeakInv
<1>14. ASSUME NEW t \in tasks, Goroutine(t) PROVE SpeakInv'
  <2>1. CASE Linger(t)
    <3>1. UNCHANGED <<h, leg>> /\ h.pc \in Closing \cup {"giveUp"} /\ t.n \in Attempts /\ tx[t.n] # "none"
      BY <2>1 DEF Linger, SpeakInv, CancelInv
    <3>2. \A m \in Attempts : tx'[m] = "none" => tx[m] = "none" /\ m # t.n
      BY <2>1, <3>1 DEF Linger, TypeOK
    <3>3. \A m \in Attempts : chan'[m] \in {chan[m], NoResp}
      BY <2>1, <3>1 DEF Linger, TypeOK
    <3> QED BY <1>c, <3>1, <3>2, <3>3 DEF SpeakInv, Closing, Allocating
  <2>2. CASE AckCallee(t)
    <3>1. UNCHANGED <<h, tx, chan>> /\ tasks' \subseteq tasks
      BY <2>2 DEF AckCallee
    <3>2. \A l \in Legs : leg'[l] = "early" => leg[l] = "early"
      BY <2>2 DEF AckCallee, TypeOK
    <3>3. \A m \in Attempts : Spoke(m)' => Spoke(m)
      BY <3>2 DEF Spoke, Legs
    <3> QED BY <1>13, <3>1, <3>3
  <2>3. CASE ~Linger(t) /\ ~AckCallee(t)
    <3>1. UNCHANGED <<h, tx, chan, leg>>
      BY <1>14, <2>3 DEF Goroutine, SendCancel, SendCancelDone, Late2xx, Late2xxEarly, CloseSession
    <3>2. \A u \in tasks' : u \in tasks \/ u.k # "linger"
      BY <1>14, <2>3 DEF Goroutine, SendCancel, SendCancelDone, Late2xx, Late2xxEarly, CloseSession, Task
    <3> QED BY <1>13, <1>c, <3>1, <3>2
  <2> QED BY <2>1, <2>2, <2>3
<1>15. ASSUME NEW t \in tasks, OrphanCancel(t) PROVE SpeakInv'
  <2>1. UNCHANGED <<h, tx, chan, leg>>
    BY <1>15 DEF OrphanCancel
  <2>2. \A u \in tasks' : u \in tasks \/ u.k # "linger"
    BY <1>15 DEF OrphanCancel, Task
  <2> QED BY <1>13, <1>c, <2>1, <2>2
<1>16. CASE Backstop \/ CallerCancel \/ OrphanLookup \/ Close \/ CloseAll \/ UNCHANGED vars
  <2>1. UNCHANGED <<h, tx, chan, leg>>
    BY <1>16 DEF Backstop, CallerCancel, OrphanLookup, Close, CloseAll, vars
  <2>2. \A u \in tasks' : u.k = "linger" => u \in tasks
    BY <1>16, LingerTasks DEF Backstop, CallerCancel, OrphanLookup, Close, CloseAll, vars
  <2> QED BY <1>13, <1>c, <2>1, <2>2
<1>17. CASE AckExpired \/ CallerAck \/ CallEnds
  <2>1. UNCHANGED <<h, tx, chan>>
    BY <1>17 DEF AckExpired, CallerAck, CallEnds
  <2>2. \A u \in tasks' : u.k = "linger" => u \in tasks
    BY <1>17, LingerTasks DEF AckExpired, CallerAck, CallEnds
  <2>3. \A l \in Legs : leg'[l] = "early" => leg[l] = "early"
    BY <1>17 DEF AckExpired, CallerAck, CallEnds, TypeOK
  <2>4. \A m \in Attempts : Spoke(m)' => Spoke(m)
    BY <2>3 DEF Spoke, Legs
  <2> QED BY <1>13, <2>1, <2>2, <2>4
<1>18. ASSUME NEW n \in Attempts, Decline(n) \/ TxDies(n) PROVE SpeakInv'
  <2>1. /\ UNCHANGED <<h, leg, tasks>> /\ tx[n] \notin {"none", "dead"} /\ tx'[n] # "none"
        /\ \A m \in Attempts : m # n => tx'[m] = tx[m] /\ chan'[m] = chan[m]
    BY <1>18 DEF Decline, TxDies, Pending, TypeOK
  <2>2. chan'[n] = NoResp => chan[n] = NoResp
    BY <1>18 DEF Decline, TxDies, Pending
  <2> QED BY <1>c, <2>1, <2>2, SpeakCallee
<1>19. ASSUME NEW n \in Attempts, NEW f \in Forks, Ring(n, f) PROVE SpeakInv'
  <2>1. /\ UNCHANGED <<h, tasks>> /\ tx[n] \notin {"none", "dead"} /\ tx'[n] # "none"
        /\ \A m \in Attempts : m # n => tx'[m] = tx[m] /\ chan'[m] = chan[m]
    BY <1>19 DEF Ring, Pending, TypeOK
  <2>2. chan'[n] # NoResp
    <3>1. chan'[n].k = "1xx"
      BY <1>19 DEF Ring, TypeOK
    <3> QED BY <3>1 DEF NoResp
  <2>3. \A m \in Attempts, g \in Forks : m # n => leg'[<<m, g>>] = leg[<<m, g>>]
    BY <1>19 DEF Ring, TypeOK, Legs
  <2>4. \A m \in Attempts : m # n => (Spoke(m)' => Spoke(m))
    BY <2>3 DEF Spoke
  <2> QED BY <2>1, <2>2, <2>4, SpeakCallee
<1>20. ASSUME NEW n \in Attempts, NEW f \in Forks, Answer(n, f) PROVE SpeakInv'
  <2>1. \A l \in Legs : leg'[l] = "early" => leg[l] = "early"
    BY <1>20 DEF Answer, TypeOK
  <2>2. \A m \in Attempts : Spoke(m)' => Spoke(m)
    BY <2>1 DEF Spoke, Legs
  <2> QED BY <1>13, <1>20, <2>2 DEF Answer
<1>21. ASSUME NEW n \in Attempts, NEW f \in Forks, Deliver2xx(n, f) PROVE SpeakInv'
  <2>1. UNCHANGED <<h, leg>> /\ \A t \in tasks' : t.k = "linger" => t \in tasks
    BY <1>21, LingerTasks DEF Deliver2xx
  <2>2. CASE UNCHANGED <<tx, chan>>
    BY <1>13, <1>c, <2>1, <2>2
  <2>3. CASE Pending(n) /\ chan' = [chan EXCEPT ![n] = [k |-> "2xx", f |-> f]]
             /\ tx' = [tx EXCEPT ![n] = "accepted"]
    <3>1. /\ tx[n] \notin {"none", "dead"} /\ tx'[n] # "none"
          /\ \A m \in Attempts : m # n => tx'[m] = tx[m] /\ chan'[m] = chan[m]
      BY <2>3 DEF Pending, TypeOK
    <3>2. chan[n] = NoResp
      BY <2>3 DEF Pending
    <3> QED BY <1>c, <2>1, <3>1, <3>2, SpeakCallee
  <2> QED BY <1>21, <2>2, <2>3 DEF Deliver2xx
<1> QED
  BY <1>1, <1>2, <1>3, <1>4, <1>5, <1>6, <1>7, <1>8, <1>9, <1>10, <1>11, <1>12, <1>14,
     <1>15, <1>16, <1>17, <1>18, <1>19, <1>20, <1>21 DEF Next, Handler

----------------------------------------------------------------------------
(* The theorems. *)

\* The inductive invariant: what each part says needs the others.
IInv ==
    /\ TypeOK
    /\ FinalInv /\ RespInv /\ CancelInv /\ StateInv
    /\ RingInv /\ MediaInv /\ ConfirmInv /\ SpeakInv

\* A call that has not begun satisfies the invariant.
LEMMA InitInv == Init => IInv
<1> SUFFICES ASSUME Init PROVE IInv
  OBVIOUS
<1> USE NAssumption
<1>0. 0 \in 0..N /\ NoResp.k = "none" /\ 0 \in 0..2 /\ 0 \in 0..1
  BY DEF NoResp
<1>1. TypeOK
  <2>1. h \in HandlerStates /\ d \in Records /\ caller \in CallerStates
    BY <1>0 DEF Init, HandlerStates, Points, Records, CallerStates
  <2>2. /\ a \in [Attempts -> [sent : BOOLEAN, taken : BOOLEAN]]
        /\ hook \in [live : BOOLEAN, rejected : SUBSET Legs]
    BY DEF Init
  <2>3. chan \in [Attempts -> Responses \cup {NoResp}] /\ cancels \in [Attempts -> 0..2]
    BY <1>0 DEF Init
  <2> QED BY <1>0, <2>1, <2>2, <2>3 DEF Init, TypeOK
<1>2. /\ h.pc = "begin" /\ h.att = 0 /\ h.resp = NoResp /\ ~h.finalised
      /\ d.state = "none" /\ ~d.cancelled /\ ~d.callerGone /\ d.inFlight = 0 /\ ~d.media
      /\ caller.tries = 0 /\ caller.final = "none" /\ ~caller.bridged
      /\ sess = "none" /\ tasks = {}
  BY DEF Init
<1>3. \A n \in Attempts : /\ ~a[n].sent /\ ~a[n].taken /\ tx[n] = "none" /\ chan[n] = NoResp
                          /\ cancels[n] = 0
  BY DEF Init
<1>4. \A n \in Attempts : ~Spoke(n)
  BY DEF Init, Spoke, Legs
<1>5. FinalInv /\ RespInv /\ StateInv /\ MediaInv /\ ConfirmInv
  BY <1>2 DEF FinalInv, OneFinal, RespInv, StateInv, MediaInv, ConfirmInv, Closing, Allocating, Answered, Running
<1>6. CancelInv
  BY <1>2, <1>3 DEF CancelInv, Holding, Allocating
<1>7. RingInv
  BY <1>0, <1>2, <1>3 DEF RingInv
<1>8. SpeakInv
  BY <1>2, <1>3, <1>4 DEF SpeakInv, Allocating
<1> QED
  BY <1>1, <1>5, <1>6, <1>7, <1>8 DEF IInv

\* Every step of every actor preserves the invariant.
LEMMA InvStep == IInv /\ [Next]_vars => IInv'
BY FinalStep, RespStep, TypeStep, CancelStep, StateStep, MediaStep, RingStep, ConfirmStep, SpeakStep DEF IInv

\* The invariant holds in every state of every behaviour.
LEMMA Invariance == Spec => []IInv
BY InitInv, InvStep, PTL DEF Spec

\* The handler never tries a second final response on the caller's INVITE,
\* across the pump, its own 488 and giveUp, and whatever the caller's CANCEL,
\* the backstop and shutdown do meanwhile.
THEOREM CallerToldOnce == Spec => []OneFinal
<1>1. IInv => OneFinal
  BY DEF IInv, FinalInv
<1> QED
  BY <1>1, Invariance, PTL

\* In every state of every call: types, no CANCEL before its INVITE and none
\* twice, no callee left ringing and no socket outliving its record once the
\* handler has returned.
THEOREM CleanDeparture == Spec => []NothingLeftBehind
<1>1. IInv => NothingLeftBehind
  <2> SUFFICES ASSUME IInv PROVE NothingLeftBehind
    OBVIOUS
  <2>1. CancelDiscipline
    <3> SUFFICES ASSUME NEW n \in Attempts PROVE cancels[n] <= IF tx[n] = "none" THEN 0 ELSE 1
      BY DEF CancelDiscipline
    <3>1. cancels[n] \in 0..1 /\ (cancels[n] = 1 => tx[n] # "none")
      BY DEF IInv, CancelInv
    <3> QED BY <3>1
  <2>2. NoneLeftRinging
    <3> SUFFICES ASSUME h.pc = "done", ~Running("cancel"), ~closed, NEW n \in Attempts, Pending(n)
                 PROVE  cancels[n] = 1
      BY DEF NoneLeftRinging, At
    <3>1. tx[n] \in {"calling", "proceeding"}
      BY DEF Pending
    <3>2. a[n].sent /\ a[n].taken
      BY <3>1 DEF IInv, RingInv, Holding, Allocating
    <3>3. cancels[n] = 1 \/ Task("cancel", n, {}) \in tasks
      BY <3>2 DEF IInv, CancelInv
    <3>4. Task("cancel", n, {}).k = "cancel"
      BY DEF Task
    <3> QED BY <3>3, <3>4 DEF Running
  <2>3. MediaFollowsRecord
    <3> SUFFICES ASSUME h.pc = "done", d.state # "Confirmed", ~Running("close"), sess = "open"
                 PROVE  FALSE
      BY DEF MediaFollowsRecord, At
    <3>1. d.state \in {"none", "Ended"}
      BY DEF IInv, TypeOK, Records, StateInv
    <3> QED BY <3>1 DEF IInv, MediaInv
  <2> QED
    BY <2>1, <2>2, <2>3 DEF NothingLeftBehind, IInv
<1> QED
  BY <1>1, Invariance, PTL

\* Only Send starts a transaction.
LEMMA OnlySendStarts ==
    ASSUME IInv, [Next]_vars, NEW n \in Attempts, tx[n] = "none", tx'[n] # "none"
    PROVE  h.pc = "send" /\ n = h.att
<1> USE DEF callee
<1>0. TypeOK /\ CancelInv /\ RespInv
  BY DEF IInv
<1>1. CASE Begin \/ Open \/ Alloc \/ Attach \/ BridgeCancel \/ NextAttempt \/ Track \/ MarkSent
           \/ PumpResponse \/ PumpDone \/ PumpContext \/ Step \/ Relay
  BY <1>1 DEF Begin, Open, Alloc, Attach, BridgeCancel, NextAttempt, Track, MarkSent, PumpResponse,
     PumpDone, PumpContext, Step, Relay
<1>2. CASE Confirm \/ ArmAck \/ SetRelayed2xx \/ Respond2xx \/ RelayErr \/ Abandon \/ GiveUp \/ Untrack
           \/ EndUnlessUp
  BY <1>2 DEF Confirm, ArmAck, SetRelayed2xx, Respond2xx, RelayErr, Abandon, GiveUp, Untrack, EndUnlessUp
<1>3. CASE Send
  BY <1>0, <1>3 DEF Send, At, TypeOK
<1>4. CASE Drain
  <2>1. h.att \in Attempts /\ tx[h.att] # "none"
    BY <1>0, <1>4, NAssumption DEF Drain, At, CancelInv, RespInv, Allocating, Closing, TypeOK,
       HandlerStates, Attempts
  <2> QED BY <1>0, <1>4, <2>1 DEF Drain, TypeOK
<1>5. ASSUME NEW t \in tasks, Goroutine(t) \/ OrphanCancel(t) PROVE FALSE
  <2>1. CASE Linger(t)
    BY <1>0, <2>1 DEF Linger, CancelInv, TypeOK
  <2> QED BY <1>5, <2>1 DEF Goroutine, SendCancel, SendCancelDone, Late2xx, Late2xxEarly, AckCallee,
          CloseSession, OrphanCancel
<1>6. CASE Backstop \/ AckExpired \/ CallerCancel \/ OrphanLookup \/ CallerAck \/ CallEnds \/ Close
           \/ CloseAll \/ UNCHANGED vars
  BY <1>6 DEF Backstop, AckExpired, CallerCancel, OrphanLookup, CallerAck, CallEnds, Close, CloseAll, vars
<1>7. ASSUME NEW m \in Attempts, Decline(m) \/ TxDies(m) PROVE FALSE
  BY <1>0, <1>7 DEF Decline, TxDies, Pending, TypeOK
<1>8. ASSUME NEW m \in Attempts, NEW f \in Forks, Ring(m, f) \/ Answer(m, f) \/ Deliver2xx(m, f)
      PROVE  FALSE
  BY <1>0, <1>8 DEF Ring, Answer, Deliver2xx, Pending, TypeOK
<1> QED
  BY <1>1, <1>2, <1>3, <1>4, <1>5, <1>6, <1>7, <1>8 DEF Next, Handler

\* Only Confirm, on an early record nobody has given up on, brings a call up.
LEMMA OnlyConfirmConfirms ==
    ASSUME IInv, [Next]_vars, d.state # "Confirmed", d'.state = "Confirmed"
    PROVE  h.pc = "commit" /\ d.state = "Early" /\ ~d.cancelled
<1> USE DEF callee
<1>0. TypeOK
  BY DEF IInv
<1>1. CASE Confirm
  BY <1>1 DEF Confirm, At
<1>2. CASE End
  BY <1>0, <1>2, EndEffect
<1>3. \A why : ~CancelSeries(why)
  BY <1>0, CancelEffect
<1>4. CASE Begin \/ Attach \/ Track \/ ArmAck \/ SetRelayed2xx \/ Untrack \/ CallerAck
  BY <1>0, <1>4 DEF Begin, Attach, Track, ArmAck, SetRelayed2xx, Untrack, CallerAck, TypeOK, Records
<1>5. CASE Open \/ Alloc \/ BridgeCancel \/ NextAttempt \/ Send \/ MarkSent \/ PumpResponse \/ PumpDone
           \/ PumpContext \/ Step \/ Relay \/ Respond2xx \/ RelayErr \/ Drain \/ GiveUp
  BY <1>5 DEF Open, Alloc, BridgeCancel, NextAttempt, Send, MarkSent, PumpResponse, PumpDone,
     PumpContext, Step, Relay, Respond2xx, RelayErr, Drain, GiveUp
<1>6. CASE Abandon \/ CallerCancel \/ EndUnlessUp
  BY <1>2, <1>3, <1>6 DEF Abandon, CallerCancel, EndUnlessUp
<1>7. ASSUME NEW t \in tasks, Goroutine(t) \/ OrphanCancel(t) PROVE FALSE
  BY <1>3, <1>7 DEF Goroutine, SendCancel, SendCancelDone, Late2xx, Late2xxEarly, AckCallee, Linger,
     CloseSession, OrphanCancel
<1>8. CASE Backstop \/ AckExpired \/ OrphanLookup \/ CallEnds \/ Close \/ CloseAll \/ UNCHANGED vars
  BY <1>2, <1>8 DEF Backstop, AckExpired, OrphanLookup, CallEnds, Close, CloseAll, vars
<1>9. ASSUME NEW m \in Attempts, Decline(m) \/ TxDies(m) PROVE FALSE
  BY <1>9 DEF Decline, TxDies
<1>10. ASSUME NEW m \in Attempts, NEW f \in Forks, Ring(m, f) \/ Answer(m, f) \/ Deliver2xx(m, f)
       PROVE  FALSE
  BY <1>10 DEF Ring, Answer, Deliver2xx
<1> QED
  BY <1>1, <1>4, <1>5, <1>6, <1>7, <1>8, <1>9, <1>10 DEF Next, Handler

\* No second node is sent the INVITE once an earlier one has spoken, and no
\* record is confirmed once the caller has its final: not by the handler's own
\* refusals, nor by a CANCEL whose 487 sipgo sends behind the handler's back.
THEOREM FailoverAndAnswerExclude == Spec => NothingAfterAnswer
<1>1. IInv /\ [Next]_vars =>
         [\A n \in Attempts : (tx[n] = "none" /\ tx'[n] # "none")
            => \A m \in Attempts : m < n => ~Spoke(m)]_vars
  <2> SUFFICES ASSUME IInv, [Next]_vars, NEW n \in Attempts, tx[n] = "none", tx'[n] # "none",
                      NEW m \in Attempts, m < n
               PROVE  ~Spoke(m)
    OBVIOUS
  <2>1. h.pc = "send" /\ n = h.att
    BY OnlySendStarts
  <2> QED BY <2>1 DEF IInv, SpeakInv, Mute
<1>2. IInv /\ [Next]_vars =>
         [(d.state # "Confirmed" /\ d'.state = "Confirmed") => caller.final = "none"]_vars
  <2> SUFFICES ASSUME IInv, [Next]_vars, d.state # "Confirmed", d'.state = "Confirmed"
               PROVE  caller.final = "none"
    OBVIOUS
  <2>1. h.pc = "commit" /\ d.state = "Early" /\ ~d.cancelled
    BY OnlyConfirmConfirms
  <2>2. caller.tries = 0
    BY <2>1 DEF IInv, FinalInv, Closing
  <2>3. h.att # 0
    BY <2>1 DEF IInv, RespInv, Allocating, Closing
  <2> QED BY <2>1, <2>2, <2>3 DEF IInv, ConfirmInv
<1> QED
  BY <1>1, <1>2, Invariance, PTL DEF NothingAfterAnswer, NoSecondNodeOnceAnswered, NoConfirmAfterFinal, Spec
============================================================================
