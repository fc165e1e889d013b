----------------------------- MODULE CallSetup -----------------------------
(***************************************************************************)
(* One proxied call being placed: internal/edge/invite.go (the handler and *)
(* its failover series), invite_leg.go (the response pump, the late-2xx    *)
(* hook, CANCEL and the drain) and the parts of dialog.go they drive.      *)
(*                                                                         *)
(* Actors that interleave: the INVITE handler's goroutine (variable h),    *)
(* the goroutines it and the hooks spawn (tasks), sipgo's transactions     *)
(* (external: tx, chan and caller), the caller, the callees and shutdown.  *)
(* Every critical section of the dialog table's mutex is one step.         *)
(***************************************************************************)
EXTENDS Naturals, FiniteSets

CONSTANTS
    N,          \* switch nodes of the failover order; attempt i goes to node i
    Forks,      \* To tags a node's forks may answer with
    Offerless,  \* TRUE: the INVITE carries no SDP, so media waits for an offer
    BadEarly,   \* may an 18x carry an SDP that cannot be anchored
    Mishaps     \* bound: of these rare events, at most one befalls a call

ASSUME NAssumption == N \in Nat \ {0}
ASSUME OfferlessAssumption == Offerless \in BOOLEAN
ASSUME BadEarlyAssumption == BadEarly \in BOOLEAN
\* An ACK FreeSBC writes itself fails, a CANCEL sipgo cannot match arrives,
\* the process shuts down.
ASSUME MishapsAssumption == Mishaps \subseteq {"ackWrite", "orphan", "shutdown"}

VARIABLES
    h,        \* the INVITE handler: program point, attempt, response in hand
    d,        \* the dialog record
    hook,     \* dialogHook: does it still name the record, which 2xx it refused
    a,        \* inviteAttempt.sent / .cancelled per attempt
    ctx,      \* the series context
    caller,   \* the caller's server transaction
    tasks,    \* goroutines and timers in flight
    tx,       \* client INVITE transaction per attempt
    chan,     \* response waiting in the transaction's Responses()
    leg,      \* what each callee fork believes
    cancels,  \* CANCELs put on the wire per attempt
    sess,     \* the media session's sockets
    closed,   \* dialogTable.closed
    faults    \* ACK writes that failed so far, at most one

vars == <<h, d, hook, a, ctx, caller, tasks, tx, chan, leg, cancels, sess,
          closed, faults>>
callee == <<tx, chan, leg>>

Attempts == 1..N
Legs == Attempts \X Forks
NoResp == [k |-> "none", f |-> {}]
NoTag == <<0, {}>>
Responses == [k : {"1xx", "2xx"}, f : Forks] \cup {[k |-> "fail", f |-> {}]}

\* A goroutine, timer or hook invocation in flight, about attempt n and fork f.
Task(k, n, f) == [k |-> k, n |-> n, f |-> f]
Tasks == [k : {"cancel", "cancelctx", "linger", "orphan", "close"},
          n : 0..N, f : {{}}]
         \cup [k : {"late", "lateEarly", "ackbye", "ack"}, n : Attempts, f : Forks]

\* The caller's finals: 2xx, 487 (its own CANCEL's, or giveUp's) and every
\* other refusal, FreeSBC's or the callee's.
Finals == {"2xx", "487", "refused"}

Points == {"begin", "open", "alloc", "attach", "bridge", "loop", "track", "send",
           "markSent", "pump", "step", "relay", "commit", "arm", "record", "respond",
           "relayErr", "abandon", "drain", "giveUp", "untrack", "return", "done"}
HandlerStates == [pc : Points, att : 0..N, resp : Responses \cup {NoResp},
                  responded : BOOLEAN, finalised : BOOLEAN]
Records == [state : {"none", "Early", "Confirmed", "Ended"}, cancelled : BOOLEAN,
            callerGone : BOOLEAN, inFlight : 0..N, media : BOOLEAN,
            tag : Legs \cup {NoTag}, ok : BOOLEAN, ack : BOOLEAN]
CallerStates == [final : Finals \cup {"none"}, tries : 0..2, bridged : BOOLEAN,
                 orphaned : BOOLEAN]

TypeOK ==
    /\ h \in HandlerStates
    /\ d \in Records
    /\ hook \in [live : BOOLEAN, rejected : SUBSET Legs]
    /\ a \in [Attempts -> [sent : BOOLEAN, taken : BOOLEAN]]
    /\ ctx \in {"live", "cancelled", "deadline"}
    /\ caller \in CallerStates
    /\ tasks \subseteq Tasks
    /\ tx \in [Attempts -> {"none", "calling", "proceeding", "accepted",
                            "completed", "dead"}]
    /\ chan \in [Attempts -> Responses \cup {NoResp}]
    /\ leg \in [Legs -> {"idle", "early", "answered", "acked", "byed"}]
    /\ cancels \in [Attempts -> 0..2]
    /\ sess \in {"none", "open", "closed"}
    /\ closed \in BOOLEAN
    /\ faults \in 0..1

Init ==
    /\ h = [pc |-> "begin", att |-> 0, resp |-> NoResp, responded |-> FALSE,
            finalised |-> FALSE]
    /\ d = [state |-> "none", cancelled |-> FALSE, callerGone |-> FALSE,
            inFlight |-> 0, media |-> FALSE, tag |-> NoTag, ok |-> FALSE,
            ack |-> FALSE]
    /\ hook = [live |-> FALSE, rejected |-> {}]
    /\ a = [i \in Attempts |-> [sent |-> FALSE, taken |-> FALSE]]
    /\ ctx = "live"
    /\ caller = [final |-> "none", tries |-> 0, bridged |-> FALSE, orphaned |-> FALSE]
    /\ tasks = {}
    /\ tx = [i \in Attempts |-> "none"]
    /\ chan = [i \in Attempts |-> NoResp]
    /\ leg = [l \in Legs |-> "idle"]
    /\ cancels = [i \in Attempts |-> 0]
    /\ sess = "none"
    /\ closed = FALSE
    /\ faults = 0

----------------------------------------------------------------------------
(* Building blocks: the table's critical sections and sipgo's Respond.     *)

\* The mishap m may happen now; no other one has.
May(m) == m \in Mishaps /\ faults = 0 /\ ~caller.orphaned /\ ~closed

At(p) == h.pc = p
Goto(p) == h' = [h EXCEPT !.pc = p]
Spawn(t) == tasks' = tasks \cup {t}

\* The handler sends a final on the caller's server transaction. sipgo
\* delivers the first final only (external); tries counts the attempts.
Final(code) ==
    caller' = [caller EXCEPT !.final = IF @ = "none" THEN code ELSE @,
                             !.tries = @ + 1]

CtxCancel == ctx' = IF ctx = "live" THEN "cancelled" ELSE ctx

\* dialog.cancelSeries as a pure update: the record, and the attempt it took.
Takes == d.inFlight # 0
CancelledRecord(why) ==
    IF why = "orphan" /\ ~Takes
    THEN d
    ELSE [d EXCEPT !.cancelled = TRUE, !.callerGone = @ \/ why = "caller",
                   !.inFlight = 0]
SendNow == Takes /\ a[d.inFlight].sent
CancelSeries(why) ==
    /\ d' = CancelledRecord(why)
    /\ a' = IF Takes THEN [a EXCEPT ![d.inFlight].taken = TRUE] ELSE a

\* dialog.endBy's critical section; hook.release and Session.Close follow
\* as the "close" task.
Ended(r) == [r EXCEPT !.state = "Ended", !.inFlight = 0, !.ack = FALSE]
End ==
    /\ d.state \in {"Early", "Confirmed"}
    /\ d' = Ended(d)
    /\ Spawn(Task("close", 0, {}))

\* refuse2xx: ACK and BYE the first time a tag is refused, ACK alone after.
Refuse2xx(n, f) ==
    /\ hook' = [hook EXCEPT !.rejected = @ \cup {<<n, f>>}]
    /\ Spawn(Task(IF <<n, f>> \in hook.rejected THEN "ack" ELSE "ackbye", n, f))

\* Where the handler goes when the pump ended without a retry being possible.
AfterPump(finalised) ==
    h' = [h EXCEPT !.pc = IF finalised THEN "untrack" ELSE "giveUp",
                   !.resp = NoResp]

----------------------------------------------------------------------------
(* The INVITE handler: inviteToUpstream up to the first attempt.           *)

\* beginDialog: closed for shutdown, or refused by another admission check
\* (drain, merged, session cap, rate limit: module DialogTable), or open.
Begin ==
    /\ At("begin")
    /\ \/ /\ Final("refused")
          /\ Goto("done")
          /\ UNCHANGED <<d, hook>>
       \/ /\ ~closed
          /\ d' = [d EXCEPT !.state = "Early"]
          /\ hook' = [hook EXCEPT !.live = TRUE]
          /\ Goto(IF Offerless THEN "bridge" ELSE "open")
          /\ UNCHANGED caller
    /\ UNCHANGED <<a, ctx, tasks, callee, cancels, sess, closed, faults>>

\* A failure to allocate or negotiate media. Before the INVITE went out it is
\* the caller's final; for a callee's body it is relayInviteResponse's error.
MediaFailed ==
    \/ /\ h.resp = NoResp
       /\ Final("refused")
       /\ Goto("return")
       /\ UNCHANGED <<hook, tasks>>
    \/ /\ h.resp.k = "2xx"
       /\ Refuse2xx(h.att, h.resp.f)
       /\ Goto("relayErr")
       /\ UNCHANGED caller
    \/ /\ h.resp.k = "1xx"
       /\ Goto("relayErr")
       /\ UNCHANGED <<hook, tasks, caller>>

\* buildUpstreamOffer / buildPublicOffer: dialog.open, then the allocation,
\* then dialog.attach: three separate critical sections.
Open ==
    /\ At("open")
    /\ \/ (closed \/ d.state = "Ended") /\ MediaFailed
       \/ /\ ~closed /\ d.state # "Ended"
          /\ Goto("alloc")
          /\ UNCHANGED <<hook, tasks, caller>>
    /\ UNCHANGED <<d, a, ctx, callee, cancels, sess, closed, faults>>

Alloc ==
    /\ At("alloc")
    /\ \/ MediaFailed /\ UNCHANGED sess
       \/ /\ sess' = "open"
          /\ Goto("attach")
          /\ UNCHANGED <<hook, tasks, caller>>
    /\ UNCHANGED <<d, a, ctx, callee, cancels, closed, faults>>

ToPump == h' = [h EXCEPT !.pc = "pump", !.resp = NoResp]

Attach ==
    /\ At("attach")
    /\ IF closed \/ d.state = "Ended"
       THEN sess' = "closed" /\ MediaFailed /\ UNCHANGED d
       ELSE /\ d' = [d EXCEPT !.media = TRUE]
            /\ CASE h.resp = NoResp  -> Goto("bridge")
                 [] h.resp.k = "2xx" -> Goto("commit")
                 [] OTHER            -> ToPump
            /\ UNCHANGED <<sess, hook, tasks, caller>>
    /\ UNCHANGED <<a, ctx, callee, cancels, closed, faults>>

\* bridgeCancel: refused when the CANCEL beat the registration.
BridgeCancel ==
    /\ At("bridge")
    /\ \/ caller.final # "none" /\ Goto("return") /\ UNCHANGED caller
       \/ /\ caller.final = "none"
          /\ caller' = [caller EXCEPT !.bridged = TRUE]
          /\ Goto("loop")
    /\ UNCHANGED <<d, hook, a, ctx, tasks, callee, cancels, sess, closed, faults>>

----------------------------------------------------------------------------
(* The failover series.                                                    *)

\* Loop head: the context check, the end of the order, and prepareForward
\* (Max-Forwards exhausted refuses the call before its first attempt).
NextAttempt ==
    /\ At("loop")
    /\ \/ /\ ctx # "live" \/ h.att = N
          /\ Goto("giveUp")
          /\ UNCHANGED caller
       \/ /\ ctx = "live" /\ h.att = 0
          /\ Final("refused")
          /\ Goto("untrack")
       \/ /\ ctx = "live" /\ h.att < N
          /\ h' = [h EXCEPT !.pc = "track", !.att = @ + 1]
          /\ UNCHANGED caller
    /\ UNCHANGED <<d, hook, a, ctx, tasks, callee, cancels, sess, closed, faults>>

Track ==
    /\ At("track")
    /\ IF d.cancelled
       THEN Goto("giveUp") /\ UNCHANGED d
       ELSE Goto("send") /\ d' = [d EXCEPT !.inFlight = h.att]
    /\ UNCHANGED <<hook, a, ctx, caller, tasks, callee, cancels, sess, closed, faults>>

\* clientTx: the INVITE is on the wire, or it never got out and the node is
\* cooled down (module Cooldown) before the next one is tried.
Send ==
    /\ At("send")
    /\ \/ /\ Goto(IF ctx # "live" THEN "giveUp" ELSE "loop")
          /\ UNCHANGED tx
       \/ /\ tx' = [tx EXCEPT ![h.att] = "calling"]
          /\ Goto("markSent")
    /\ UNCHANGED <<d, hook, a, ctx, caller, tasks, chan, leg, cancels, sess, closed, faults>>

MarkSentForgetsCancel ==
    /\ At("markSent")
    /\ a' = [a EXCEPT ![h.att].sent = TRUE]
    /\ h' = [h EXCEPT !.pc = "pump", !.responded = FALSE]
    /\ UNCHANGED <<d, hook, ctx, caller, tasks, callee, cancels, sess, closed, faults>>

\* dialog.markSent: a CANCEL that took the attempt before the INVITE was out
\* is sent by the sender now.
MarkSent ==
    /\ At("markSent")
    /\ a' = [a EXCEPT ![h.att].sent = TRUE]
    /\ IF a[h.att].taken THEN Spawn(Task("cancel", h.att, {})) ELSE UNCHANGED tasks
    /\ h' = [h EXCEPT !.pc = "pump", !.responded = FALSE]
    /\ UNCHANGED <<d, hook, ctx, caller, callee, cancels, sess, closed, faults>>

----------------------------------------------------------------------------
(* pumpInvite: the select over Responses(), Done() and the context.        *)

PumpResponse ==
    /\ At("pump") /\ chan[h.att] # NoResp
    /\ h' = [h EXCEPT !.pc = "step", !.resp = chan[h.att], !.responded = TRUE]
    /\ chan' = [chan EXCEPT ![h.att] = NoResp]
    /\ UNCHANGED <<d, hook, a, ctx, caller, tasks, tx, leg, cancels, sess, closed, faults>>

CanRetryAfterResponse == ctx = "live" /\ ~d.callerGone

\* The transaction died (Timer B or a transport error). Another node is tried
\* only when this one never said anything and the caller still waits.
CanRetry == ~h.responded /\ ctx = "live" /\ ~d.callerGone
PumpDone ==
    /\ At("pump") /\ tx[h.att] = "dead" /\ chan[h.att] = NoResp
    /\ IF CanRetry THEN Goto("loop") ELSE AfterPump(d.callerGone)
    /\ UNCHANGED <<d, hook, a, ctx, caller, tasks, callee, cancels, sess, closed, faults>>

PumpContext ==
    /\ At("pump") /\ ctx # "live"
    /\ Goto("abandon")
    /\ UNCHANGED <<d, hook, a, ctx, caller, tasks, callee, cancels, sess, closed, faults>>

\* step: nothing is relayed once the call was given up on; a 2xx is then
\* completed and torn down.
Step ==
    /\ At("step")
    /\ IF ctx # "live" \/ d.cancelled
       THEN IF h.resp.k = "2xx"
            THEN Refuse2xx(h.att, h.resp.f) /\ AfterPump(d.callerGone)
            ELSE Goto("abandon") /\ UNCHANGED <<hook, tasks>>
       ELSE Goto("relay") /\ UNCHANGED <<hook, tasks>>
    /\ UNCHANGED <<d, a, ctx, caller, callee, cancels, sess, closed, faults>>

\* relayInviteResponse up to the fork's answer: a body may fail to negotiate,
\* an offerless call allocates its media from the callee's first offer (in
\* the 2xx or a reliable 18x; an unreliable 18x touches none), and a body-less
\* 2xx of an offerless call with no media has no answer at all.
Relay ==
    /\ At("relay")
    /\ \/ /\ h.resp.k = "fail"
          /\ Final("refused")
          /\ Goto("untrack")
          /\ UNCHANGED <<hook, tasks>>
       \/ /\ h.resp.k = "2xx" \/ (h.resp.k = "1xx" /\ BadEarly)
          /\ MediaFailed
       \/ /\ h.resp.k # "fail" /\ Offerless /\ ~d.media
          /\ Goto("open")
          /\ UNCHANGED <<caller, hook, tasks>>
       \/ /\ h.resp.k = "1xx"
          /\ ToPump
          /\ UNCHANGED <<caller, hook, tasks>>
       \/ /\ h.resp.k = "2xx" /\ d.media
          /\ Goto("commit")
          /\ UNCHANGED <<caller, hook, tasks>>
    /\ UNCHANGED <<d, a, ctx, callee, cancels, sess, closed, faults>>

\* dialog.confirm
Confirm ==
    /\ At("commit")
    /\ IF d.state = "Early" /\ d.media /\ ~d.cancelled
       THEN /\ d' = [d EXCEPT !.state = "Confirmed", !.tag = <<h.att, h.resp.f>>]
            /\ Goto("arm")
            /\ UNCHANGED <<hook, tasks>>
       ELSE /\ Refuse2xx(h.att, h.resp.f)
            /\ Goto("relayErr")
            /\ UNCHANGED d
    /\ UNCHANGED <<a, ctx, caller, callee, cancels, sess, closed, faults>>

ArmAckNever ==
    /\ At("arm")
    /\ Goto("record")
    /\ UNCHANGED <<d, hook, a, ctx, caller, tasks, callee, cancels, sess, closed, faults>>

\* armOwedTimer and armAckTimer: one of them owns the teardown for a lost ACK.
ArmAck ==
    /\ At("arm")
    /\ d' = [d EXCEPT !.ack = d.state = "Confirmed"]
    /\ Goto("record")
    /\ UNCHANGED <<hook, a, ctx, caller, tasks, callee, cancels, sess, closed, faults>>

SetRelayed2xx ==
    /\ At("record")
    /\ d' = [d EXCEPT !.ok = TRUE]
    /\ Goto("respond")
    /\ UNCHANGED <<hook, a, ctx, caller, tasks, callee, cancels, sess, closed, faults>>

Respond2xx ==
    /\ At("respond")
    /\ Final("2xx")
    /\ Goto("untrack")
    /\ UNCHANGED <<d, hook, a, ctx, tasks, callee, cancels, sess, closed, faults>>

RelayErrUnmarked ==
    /\ At("relayErr") /\ ~d.cancelled
    /\ Final("refused")
    /\ Goto(IF h.resp.k = "2xx" THEN "untrack" ELSE "abandon")
    /\ UNCHANGED <<d, hook, a, ctx, tasks, callee, cancels, sess, closed, faults>>

\* step after an error: the CANCEL won the race, or the caller is refused 488
\* and a callee that is still ringing is abandoned.
RelayErr ==
    /\ At("relayErr")
    /\ IF d.cancelled
       THEN AfterPump(d.callerGone) /\ UNCHANGED caller
       ELSE /\ Final("refused")
            /\ h' = [h EXCEPT !.pc = IF h.resp.k = "2xx" THEN "untrack" ELSE "abandon",
                              !.finalised = TRUE]
    /\ UNCHANGED <<d, hook, a, ctx, tasks, callee, cancels, sess, closed, faults>>

\* abandonAttempt: CANCEL the attempt unless somebody already took it.
Abandon ==
    /\ At("abandon")
    /\ CancelSeries("backstop")
    /\ IF SendNow THEN Spawn(Task("cancel", d.inFlight, {})) ELSE UNCHANGED tasks
    /\ Goto("drain")
    /\ UNCHANGED <<hook, ctx, caller, callee, cancels, sess, closed, faults>>

\* awaitCancelledFinal on transaction n: leaves on a final or a dead
\* transaction; a 2xx is refused, everything else is swallowed.
DrainEnds(n) ==
    \/ /\ chan[n].k = "2xx"
       /\ Refuse2xx(n, chan[n].f)
       /\ chan' = [chan EXCEPT ![n] = NoResp]
    \/ /\ chan[n].k = "fail"
       /\ chan' = [chan EXCEPT ![n] = NoResp]
       /\ UNCHANGED <<hook, tasks>>
    \/ /\ chan[n] = NoResp /\ tx[n] = "dead"
       /\ UNCHANGED <<hook, tasks, chan>>

\* lingerForFinal inline: a final ends the drain; 300 ms later the wait goes
\* on in the background, or, over maxCancelLingers, the transaction is dropped.
Drain ==
    /\ At("drain")
    /\ \/ DrainEnds(h.att) /\ AfterPump(h.finalised \/ d.callerGone) /\ UNCHANGED tx
       \/ /\ chan[h.att].k = "1xx"
          /\ chan' = [chan EXCEPT ![h.att] = NoResp]
          /\ UNCHANGED <<h, hook, tasks, tx>>
       \/ /\ chan[h.att] = NoResp
          /\ AfterPump(h.finalised \/ d.callerGone)
          /\ \/ Spawn(Task("linger", h.att, {})) /\ UNCHANGED tx
             \/ tx' = [tx EXCEPT ![h.att] = "dead"] /\ UNCHANGED tasks
          /\ UNCHANGED <<hook, chan>>
    /\ UNCHANGED <<d, a, ctx, caller, leg, cancels, sess, closed, faults>>

GiveUpSilently ==
    /\ At("giveUp")
    /\ IF d.cancelled THEN UNCHANGED caller ELSE Final("refused")
    /\ Goto("untrack")
    /\ UNCHANGED <<d, hook, a, ctx, tasks, callee, cancels, sess, closed, faults>>

\* giveUp: the one final a caller is still owed, if any.
GiveUp ==
    /\ At("giveUp")
    /\ IF d.callerGone
       THEN UNCHANGED caller
       ELSE Final(IF ctx # "deadline" /\ (ctx = "cancelled" \/ d.cancelled)
                  THEN "487" ELSE "refused")
    /\ Goto("untrack")
    /\ UNCHANGED <<d, hook, a, ctx, tasks, callee, cancels, sess, closed, faults>>

\* The deferred calls: untrack, then endUnlessUp and the context's cancel.
Untrack ==
    /\ At("untrack")
    /\ d' = [d EXCEPT !.inFlight = 0]
    /\ Goto("return")
    /\ UNCHANGED <<hook, a, ctx, caller, tasks, callee, cancels, sess, closed, faults>>

EndUnlessUp ==
    /\ At("return")
    /\ IF d.state = "Early" THEN End ELSE UNCHANGED <<d, tasks>>
    /\ CtxCancel
    /\ h' = [h EXCEPT !.pc = "done", !.resp = NoResp]
    /\ UNCHANGED <<hook, a, caller, callee, cancels, sess, closed, faults>>

Handler ==
    \/ Begin \/ Open \/ Alloc \/ Attach \/ BridgeCancel
    \/ NextAttempt \/ Track \/ Send \/ MarkSent
    \/ PumpResponse \/ PumpDone \/ PumpContext \/ Step \/ Relay
    \/ Confirm \/ ArmAck \/ SetRelayed2xx \/ Respond2xx \/ RelayErr
    \/ Abandon \/ Drain \/ GiveUp \/ Untrack \/ EndUnlessUp

----------------------------------------------------------------------------
(* Goroutines, hooks and timers.                                           *)

\* sendCancel: the CANCEL goes on the wire, then the series is cancelled.
SendCancel(t) ==
    /\ t.k = "cancel"
    /\ cancels' = [cancels EXCEPT ![t.n] = @ + 1]
    /\ tasks' = (tasks \ {t}) \cup {Task("cancelctx", t.n, {})}
    /\ UNCHANGED <<h, d, hook, a, ctx, caller, callee, sess, closed, faults>>

SendCancelDone(t) ==
    /\ t.k = "cancelctx"
    /\ CtxCancel
    /\ tasks' = tasks \ {t}
    /\ UNCHANGED <<h, d, hook, a, caller, callee, cancels, sess, closed, faults>>

\* onLate2xx, first critical section: relay a retransmission of the confirmed
\* dialog's 2xx again, or look further.
Late2xx(t) ==
    /\ t.k = "late"
    /\ LET own == d.state = "Confirmed" /\ d.tag = <<t.n, t.f>> /\ d.ok
       IN  tasks' = (tasks \ {t}) \cup
                    CASE hook.live /\ own  -> {}
                      [] hook.live /\ ~own -> {Task("lateEarly", t.n, t.f)}
                      [] ~hook.live        -> {Task(IF <<t.n, t.f>> \in hook.rejected
                                                    THEN "ack" ELSE "ackbye", t.n, t.f)}
    /\ hook' = IF hook.live THEN hook
               ELSE [hook EXCEPT !.rejected = @ \cup {<<t.n, t.f>>}]
    /\ UNCHANGED <<h, d, a, ctx, caller, callee, cancels, sess, closed, faults>>

Late2xxAlwaysDropped(t) ==
    /\ t.k = "lateEarly"
    /\ tasks' = tasks \ {t}
    /\ UNCHANGED <<h, d, hook, a, ctx, caller, callee, cancels, sess, closed, faults>>

\* onLate2xx, second critical section: drop it while the record is early and
\* the tag was not refused, else refuse it.
Late2xxEarly(t) ==
    /\ t.k = "lateEarly"
    /\ IF d.state = "Early" /\ <<t.n, t.f>> \notin hook.rejected
       THEN tasks' = tasks \ {t} /\ UNCHANGED hook
       ELSE /\ hook' = [hook EXCEPT !.rejected = @ \cup {<<t.n, t.f>>}]
            /\ tasks' = (tasks \ {t}) \cup
                        {Task(IF <<t.n, t.f>> \in hook.rejected
                              THEN "ack" ELSE "ackbye", t.n, t.f)}
    /\ UNCHANGED <<h, d, a, ctx, caller, callee, cancels, sess, closed, faults>>

\* ack2xx alone, or ackThenBye: when the ACK cannot be written nothing else
\* is sent.
AckCallee(t) ==
    /\ t.k \in {"ack", "ackbye"}
    /\ tasks' = tasks \ {t}
    /\ \/ /\ leg' = [leg EXCEPT ![<<t.n, t.f>>] =
                        IF t.k = "ackbye" THEN "byed"
                        ELSE IF @ = "answered" THEN "acked" ELSE @]
          /\ UNCHANGED faults
       \/ /\ May("ackWrite")
          /\ faults' = faults + 1
          /\ UNCHANGED leg
    /\ UNCHANGED <<h, d, hook, a, ctx, caller, tx, chan, cancels, sess, closed>>

\* lingerForFinal's background wait, for up to 32 s.
Linger(t) ==
    /\ t.k = "linger"
    /\ \/ /\ chan[t.n].k = "2xx"
          /\ hook' = [hook EXCEPT !.rejected = @ \cup {<<t.n, chan[t.n].f>>}]
          /\ tasks' = (tasks \ {t}) \cup
                      {Task(IF <<t.n, chan[t.n].f>> \in hook.rejected
                            THEN "ack" ELSE "ackbye", t.n, chan[t.n].f)}
          /\ chan' = [chan EXCEPT ![t.n] = NoResp]
          /\ UNCHANGED tx
       \/ /\ chan[t.n].k \in {"fail", "1xx"}
          /\ chan' = [chan EXCEPT ![t.n] = NoResp]
          /\ tasks' = IF chan[t.n].k = "fail" THEN tasks \ {t} ELSE tasks
          /\ UNCHANGED <<hook, tx>>
       \/ /\ chan[t.n] = NoResp
          /\ tasks' = tasks \ {t}
          /\ tx' = [tx EXCEPT ![t.n] = "dead"]
          /\ UNCHANGED <<hook, chan>>
    /\ UNCHANGED <<h, d, a, ctx, caller, leg, cancels, sess, closed, faults>>

\* The rest of endBy, outside the mutex: hook.release and Session.Close.
CloseSession(t) ==
    /\ t.k = "close"
    /\ hook' = [hook EXCEPT !.live = FALSE]
    /\ sess' = IF d.media THEN "closed" ELSE sess
    /\ tasks' = tasks \ {t}
    /\ UNCHANGED <<h, d, a, ctx, caller, callee, cancels, closed, faults>>

\* The INVITE's own budget (inviteTimeout).
Backstop ==
    /\ h.pc \notin {"begin", "done"} /\ ctx = "live"
    /\ ctx' = "deadline"
    /\ UNCHANGED <<h, d, hook, a, caller, tasks, callee, cancels, sess, closed, faults>>

\* The ACK backstop (module CallTeardown has its races): the call ends and
\* both ends are sent a BYE.
AckExpired ==
    /\ d.state = "Confirmed" /\ d.ack
    /\ End
    /\ leg' = [leg EXCEPT ![d.tag] = "byed"]
    /\ UNCHANGED <<h, hook, a, ctx, caller, tx, chan, cancels, sess, closed, faults>>

Goroutine(t) ==
    \/ SendCancel(t) \/ SendCancelDone(t) \/ Late2xx(t) \/ Late2xxEarly(t)
    \/ AckCallee(t) \/ Linger(t) \/ CloseSession(t)

----------------------------------------------------------------------------
(* The caller.                                                             *)

\* A CANCEL sipgo matched: the OnCancel hook runs under the transaction's
\* lock (cancelCall), then sipgo answers the INVITE 487 (external).
CallerCancel ==
    /\ caller.final = "none"
    /\ caller' = [caller EXCEPT !.final = "487"]
    /\ IF caller.bridged /\ hook.live
       THEN /\ CancelSeries("caller")
            /\ IF SendNow
               THEN Spawn(Task("cancel", d.inFlight, {})) /\ UNCHANGED ctx
               ELSE CtxCancel /\ UNCHANGED tasks
       ELSE /\ IF caller.bridged THEN CtxCancel ELSE UNCHANGED ctx
            /\ UNCHANGED <<d, a, tasks>>
    /\ UNCHANGED <<h, hook, callee, cancels, sess, closed, faults>>

\* onCancel: a CANCEL sipgo could not match finds the early record by
\* Call-ID and From tag; at most one is modelled.
OrphanLookup ==
    /\ May("orphan") /\ d.state = "Early"
    /\ caller' = [caller EXCEPT !.orphaned = TRUE]
    /\ Spawn(Task("orphan", 0, {}))
    /\ UNCHANGED <<h, d, hook, a, ctx, callee, cancels, sess, closed, faults>>

OrphanCancel(t) ==
    /\ t.k = "orphan"
    /\ CancelSeries("orphan")
    /\ tasks' = (tasks \ {t}) \cup
                (IF SendNow THEN {Task("cancel", d.inFlight, {})} ELSE {})
    /\ IF Takes /\ ~SendNow THEN CtxCancel ELSE UNCHANGED ctx
    /\ UNCHANGED <<h, hook, caller, callee, cancels, sess, closed, faults>>

\* The caller's ACK for the relayed 2xx finds the record and is forwarded.
CallerAck ==
    /\ caller.final = "2xx" /\ d.state = "Confirmed"
    /\ d' = [d EXCEPT !.ack = FALSE]
    /\ leg' = [leg EXCEPT ![d.tag] = IF @ = "answered" THEN "acked" ELSE @]
    /\ UNCHANGED <<h, hook, a, ctx, caller, tasks, tx, chan, cancels, sess, closed, faults>>

\* A call that is up ends by a BYE, its media or a refused re-INVITE (module
\* CallTeardown); the callee is sent a BYE.
CallEnds ==
    /\ d.state = "Confirmed"
    /\ End
    /\ leg' = [leg EXCEPT ![d.tag] = "byed"]
    /\ UNCHANGED <<h, hook, a, ctx, caller, tx, chan, cancels, sess, closed, faults>>

----------------------------------------------------------------------------
(* The callees and sipgo's client transactions (external).                 *)

Pending(n) == tx[n] \in {"calling", "proceeding"} /\ chan[n] = NoResp

Ring(n, f) ==
    /\ Pending(n) /\ leg[<<n, f>>] = "idle"
    /\ leg' = [leg EXCEPT ![<<n, f>>] = "early"]
    /\ chan' = [chan EXCEPT ![n] = [k |-> "1xx", f |-> f]]
    /\ tx' = [tx EXCEPT ![n] = "proceeding"]
    /\ UNCHANGED <<h, d, hook, a, ctx, caller, tasks, cancels, sess, closed, faults>>

Answer(n, f) ==
    /\ tx[n] \notin {"none", "completed", "dead"}
    /\ leg[<<n, f>>] \in {"idle", "early"}
    /\ leg' = [leg EXCEPT ![<<n, f>>] = "answered"]
    /\ UNCHANGED <<h, d, hook, a, ctx, caller, tasks, tx, chan, cancels, sess, closed, faults>>

\* A fork sends its 2xx until it is ACKed. The first one of a transaction
\* goes to Responses(), every later one to the OnRetransmission hook. sipgo
\* holds the transaction's lock until a response on Responses() is read, so
\* an unread one keeps the hook from running (prov.go).
Deliver2xx(n, f) ==
    /\ leg[<<n, f>>] = "answered"
    /\ \/ /\ Pending(n)
          /\ chan' = [chan EXCEPT ![n] = [k |-> "2xx", f |-> f]]
          /\ tx' = [tx EXCEPT ![n] = "accepted"]
          /\ UNCHANGED tasks
       \/ /\ tx[n] = "accepted" /\ chan[n] = NoResp
          /\ \A t \in tasks : t.k \in {"late", "lateEarly"} => <<t.n, t.f>> # <<n, f>>
          /\ Spawn(Task("late", n, f))
          /\ UNCHANGED <<tx, chan>>
    /\ UNCHANGED <<h, d, hook, a, ctx, caller, leg, cancels, sess, closed, faults>>

\* A final other than 2xx: the callee's own, or the 487 a CANCEL provokes.
Decline(n) ==
    /\ Pending(n)
    /\ \A f \in Forks : leg[<<n, f>>] \in {"idle", "early"}
    /\ chan' = [chan EXCEPT ![n] = [k |-> "fail", f |-> {}]]
    /\ tx' = [tx EXCEPT ![n] = "completed"]
    /\ UNCHANGED <<h, d, hook, a, ctx, caller, tasks, leg, cancels, sess, closed, faults>>

\* Timer B or a transport error before a final; Timer M after a 2xx, which
\* outlasts a fork's 2xx retransmissions.
TxDies(n) ==
    /\ chan[n] = NoResp
    /\ \/ tx[n] \in {"calling", "proceeding"}
       \/ tx[n] = "accepted" /\ \A f \in Forks : leg[<<n, f>>] # "answered"
    /\ tx' = [tx EXCEPT ![n] = "dead"]
    /\ UNCHANGED <<h, d, hook, a, ctx, caller, tasks, chan, leg, cancels, sess, closed, faults>>

----------------------------------------------------------------------------
(* Shutdown: Run closes the table, then ends every dialog.                 *)

Close ==
    /\ May("shutdown")
    /\ closed' = TRUE
    /\ UNCHANGED <<h, d, hook, a, ctx, caller, tasks, callee, cancels, sess, faults>>

CloseAll ==
    /\ closed
    /\ End
    /\ UNCHANGED <<h, hook, a, ctx, caller, callee, cancels, sess, closed, faults>>

----------------------------------------------------------------------------
Next ==
    \/ Handler
    \/ \E t \in tasks : Goroutine(t) \/ OrphanCancel(t)
    \/ Backstop \/ AckExpired
    \/ CallerCancel \/ OrphanLookup \/ CallerAck \/ CallEnds
    \/ \E n \in Attempts : Decline(n) \/ TxDies(n)
    \/ \E n \in Attempts, f \in Forks : Ring(n, f) \/ Answer(n, f) \/ Deliver2xx(n, f)
    \/ Close \/ CloseAll

\* The Go scheduler runs every runnable goroutine and every timer fires; a
\* fork retransmits its 2xx until it is ACKed (RFC 3261 13.3.1.4). Nothing is
\* assumed of the caller, of a callee's decision or of shutdown.
Fairness ==
    /\ WF_vars(Handler)
    /\ WF_vars(\E t \in tasks : SendCancel(t))
    /\ WF_vars(\E t \in tasks : SendCancelDone(t))
    /\ WF_vars(\E t \in tasks : AckCallee(t))
    /\ WF_vars(\E t \in tasks : Linger(t))
    /\ WF_vars(\E t \in tasks : CloseSession(t))
    /\ WF_vars(Backstop) /\ WF_vars(AckExpired)
    /\ \A n \in Attempts, f \in Forks :
          /\ WF_vars(Deliver2xx(n, f))
          /\ WF_vars(\E t \in tasks : t.n = n /\ t.f = f /\ Late2xx(t))
          /\ WF_vars(\E t \in tasks : t.n = n /\ t.f = f /\ Late2xxEarly(t))

Spec == Init /\ [][Next]_vars /\ Fairness

----------------------------------------------------------------------------
(* Safety                                                                  *)

Running(k) == \E t \in tasks : t.k = k

\* A CANCEL never precedes the INVITE it cancels and no INVITE is CANCELled
\* twice, whichever of the OnCancel hook, the orphan CANCEL, the backstop and
\* the sender itself gives up on it (dialog.track, markSent, cancelSeries).
CancelDiscipline ==
    \A n \in Attempts : cancels[n] <= (IF tx[n] = "none" THEN 0 ELSE 1)

\* Once the handler has returned and its CANCELs are out, no callee is left
\* ringing: an INVITE with no final was CANCELled (RFC 3261 16.7 step 10,
\* 16.8). A dialog ended by shutdown is dropped without one.
NoneLeftRinging ==
    (At("done") /\ ~Running("cancel") /\ ~closed)
        => \A n \in Attempts : Pending(n) => cancels[n] = 1

\* The handler sends at most one final response on the caller's INVITE,
\* across the pump, its own 488 and giveUp (pumpResult.finalised).
OneFinal == caller.tries <= 1

\* A record is never confirmed once the caller has been told the call is
\* over: the CANCEL marks the call before sipgo sends the 487.
NoConfirmAfterFinal ==
    [][(d.state # "Confirmed" /\ d'.state = "Confirmed") => caller.final = "none"]_vars

\* A second node is never sent the INVITE once an earlier one has said
\* anything: its answer may already be applied to the media
\* (inviteToUpstream's !responded condition).
Spoke(n) == \E f \in Forks : leg[<<n, f>>] = "early"
NoSecondNodeOnceAnswered ==
    [][\A n \in Attempts : (tx[n] = "none" /\ tx'[n] # "none")
            => \A m \in Attempts : m < n => ~Spoke(m)]_vars

\* No media session outlives its record: when the handler has returned and
\* the record has ended, the sockets are closed, also when shutdown came
\* between the allocation and attach.
MediaFollowsRecord ==
    (At("done") /\ d.state # "Confirmed" /\ ~Running("close")) => sess # "open"

\* When the handler has gone no callee rings without a CANCEL, no CANCEL went
\* out unpaired and no socket outlives the record.
NothingLeftBehind == TypeOK /\ CancelDiscipline /\ NoneLeftRinging /\ MediaFollowsRecord

\* Once a node has spoken no other is tried, and once the caller has its final
\* the record is not confirmed.
NothingAfterAnswer == NoSecondNodeOnceAnswered /\ NoConfirmAfterFinal

\* FreeSBC never BYEs the callee of a call that is up: a retransmission of
\* the confirmed dialog's own 2xx is relayed again, not refused (onLate2xx).
LiveCalleeKept == d.state = "Confirmed" => leg[d.tag] # "byed"

----------------------------------------------------------------------------
(* Liveness                                                                *)

\* The caller of every INVITE gets a final response.
CallerAnswered == <>(caller.final # "none")

\* A 2xx a callee sent is always settled: ACKed by the caller, or ACKed and
\* BYEd by FreeSBC (refuse2xx, onLate2xx, the drain), unless its transaction
\* is gone and nothing can match it any more.
AnswerSettled ==
    \A n \in Attempts, f \in Forks :
        leg[<<n, f>>] = "answered" ~> (leg[<<n, f>>] # "answered" \/ tx[n] = "dead")

\* A call whose caller was told it is over (a CANCEL that landed between
\* confirm and the relayed 2xx included) does not stay up: the ACK that never
\* comes ends it.
GivenUpCallEnds ==
    (caller.final \notin {"none", "2xx"}) ~> (d.state \in {"none", "Ended"})

============================================================================
