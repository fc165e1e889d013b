---------------------------- MODULE CallTeardown ----------------------------
(***************************************************************************)
(* A call that is up and everything that can end it, racing: the ACK watch *)
(* (ack.go), the delayed answer's backstop (offerless.go), a BYE from      *)
(* either end, the ACK and PRACK handlers and a refused re-INVITE          *)
(* (indialog.go), the media watcher started by confirm and shutdown        *)
(* (dialog.go). It starts where module CallSetup's handler has confirmed   *)
(* the record and is about to relay the 2xx.                               *)
(*                                                                         *)
(* Every actor is a goroutine with a program point pc; every critical      *)
(* section of the dialog table's mutex is one step. All of them leave      *)
(* through dialog.endBy (points "end" ... "tell").                         *)
(***************************************************************************)
EXTENDS Naturals

CONSTANTS
    Acks,       \* handlers of the caller's ACK and its retransmissions
    Offerless,  \* TRUE: the 2xx (or a reliable 18x) carried the offer
    Prack,      \* TRUE: a PRACK carrying the answer is in flight
    Endings     \* which optional actors run together (bounds the instance)

Optional == {"byeCaller", "byeCallee", "reinvite", "media", "shutdown"}
Fixed == {"invite", "ackTimer", "owedTimer", "prack", "watcher"} \cup Optional
Actors == Acks \cup Fixed

ASSUME AcksAssumption == Acks \cap (Fixed \cup {"free"}) = {}
ASSUME ModeAssumption == Offerless \in BOOLEAN /\ Prack \in BOOLEAN /\ (Prack => Offerless)
ASSUME EndingsAssumption == Endings \subseteq SUBSET Optional

VARIABLES
    pc,       \* program point of every actor
    d,        \* the dialog record: state, the ACK owed, the answer owed and
              \* the one kept ("dropped": none, a later offer having begun)
    ackMu,    \* holder of dialog.ackMu, or "free"
    hook,     \* dialogHook still names the record
    sess,     \* the media session is open
    ok2xx,    \* the 2xx was relayed to the caller
    arrived,  \* the caller's ACK reached clearAck
    acks,     \* kinds of ACK written to the callee: with the answer, or bare
    told,     \* proxied BYE delivered, or own BYE accepted, per endpoint
    byes,     \* BYEs FreeSBC originated, per endpoint
    ends      \* metrics and log: reason recorded, reports, ACK misses

vars == <<pc, d, ackMu, hook, sess, ok2xx, arrived, acks, told, byes, ends>>
wire == <<acks, told, byes>>

Sides == {"caller", "callee"}
Byes == {"byeCaller", "byeCallee"}
Reasons == {"bye", "ack_timeout", "answer_timeout", "answer_unusable",
            "reinvite_refused", "media", "shutdown"}

\* Program points inside dialog.endBy once the state transition was won.
Ending == {"release", "report", "tell"}

Records == [state : {"Confirmed", "Ended"}, ack : BOOLEAN, counted : BOOLEAN,
            ackTimer : BOOLEAN, owed : {"none", "owed", "taken", "expired"},
            owedTimer : BOOLEAN, lastAck : {"none", "kept", "dropped"}]
Totals == [reason : Reasons \cup {"none"}, reports : Nat, misses : Nat]

TypeOK ==
    /\ pc \in [Actors -> {"idle", "armOwed", "armAck", "respond", "check", "note",
                          "lock", "clear", "take", "answer", "keep", "finish",
                          "failed", "restate", "begin", "wait", "grace", "graceWait",
                          "end", "endAck", "done"} \cup Ending]
    /\ d \in Records
    /\ ackMu \in Acks \cup {"free"}
    /\ hook \in BOOLEAN /\ sess \in BOOLEAN /\ ok2xx \in BOOLEAN /\ arrived \in BOOLEAN
    /\ acks \subseteq {"answer", "bare"}
    /\ told \subseteq Sides
    /\ byes \in [Sides -> Nat]
    /\ ends \in Totals

Init ==
    /\ \E running \in Endings :
          pc = [x \in Actors |-> CASE x = "invite"  -> "armOwed"
                                   [] x = "watcher" -> "wait"
                                   [] x = "prack"   -> IF Prack THEN "wait" ELSE "done"
                                   [] x \in Optional \ running -> "done"
                                   [] OTHER -> "idle"]
    /\ d = [state |-> "Confirmed", ack |-> FALSE, counted |-> FALSE, ackTimer |-> FALSE,
            owed |-> IF Offerless THEN "owed" ELSE "none", owedTimer |-> FALSE,
            lastAck |-> "none"]
    /\ ackMu = "free"
    /\ hook = TRUE /\ sess = TRUE /\ ok2xx = FALSE /\ arrived = FALSE
    /\ acks = {} /\ told = {}
    /\ byes = [s \in Sides |-> 0]
    /\ ends = [reason |-> "none", reports |-> 0, misses |-> 0]

At(x, p) == pc[x] = p
Goto(x, p) == pc' = [pc EXCEPT ![x] = p]
Up == d.state = "Confirmed"

----------------------------------------------------------------------------
(* The INVITE handler's last steps, in relayInviteResponse's order.        *)

ArmOwedTimerNever ==
    /\ At("invite", "armOwed")
    /\ Goto("invite", "armAck")
    /\ UNCHANGED <<d, ackMu, hook, sess, ok2xx, arrived, wire, ends>>

ArmOwedTimer ==
    /\ At("invite", "armOwed")
    /\ d' = [d EXCEPT !.owedTimer = Up /\ d.owed = "owed"]
    /\ Goto("invite", "armAck")
    /\ UNCHANGED <<ackMu, hook, sess, ok2xx, arrived, wire, ends>>

\* The ACK is watched from here; its own timer only when no owed answer's
\* timer runs the teardown.
ArmAckTimer ==
    /\ At("invite", "armAck")
    /\ d' = IF Up THEN [d EXCEPT !.ack = TRUE, !.ackTimer = d.owed # "owed"] ELSE d
    /\ Goto("invite", "respond")
    /\ UNCHANGED <<ackMu, hook, sess, ok2xx, arrived, wire, ends>>

Respond2xx ==
    /\ At("invite", "respond")
    /\ ok2xx' = TRUE
    /\ Goto("invite", "done")
    /\ UNCHANGED <<d, ackMu, hook, sess, arrived, wire, ends>>

----------------------------------------------------------------------------
(* The two backstops. A timer that was stopped no longer fires; one that   *)
(* fired runs to its own check.                                            *)

FireAckTimer ==
    /\ At("ackTimer", "idle") /\ d.ackTimer /\ hook
    /\ Goto("ackTimer", "check")
    /\ UNCHANGED <<d, ackMu, hook, sess, ok2xx, arrived, wire, ends>>

\* ackExpired reads d.ack under the mutex and lets go of it.
AckExpired ==
    /\ At("ackTimer", "check")
    /\ Goto("ackTimer", IF d.ack THEN "note" ELSE "done")
    /\ UNCHANGED <<d, ackMu, hook, sess, ok2xx, arrived, wire, ends>>

FireOwedTimer ==
    /\ At("owedTimer", "idle") /\ d.owedTimer /\ hook
    /\ Goto("owedTimer", "check")
    /\ UNCHANGED <<d, ackMu, hook, sess, ok2xx, arrived, wire, ends>>

\* owedExpired: dropOwed takes the answer away, so an ACK can no longer.
OwedExpired ==
    /\ At("owedTimer", "check")
    /\ IF d.owed = "owed"
       THEN d' = [d EXCEPT !.owed = "expired"] /\ Goto("owedTimer", "note")
       ELSE Goto("owedTimer", "done") /\ UNCHANGED d
    /\ UNCHANGED <<ackMu, hook, sess, ok2xx, arrived, wire, ends>>

\* takeAckMiss: counted once per transaction.
TakesMiss == d.ack /\ ~d.counted
NoteAckMiss(x) ==
    /\ At(x, "note")
    /\ d' = IF TakesMiss THEN [d EXCEPT !.counted = TRUE] ELSE d
    /\ ends' = IF TakesMiss THEN [ends EXCEPT !.misses = @ + 1] ELSE ends
    /\ Goto(x, IF x \in Byes THEN "endAck" ELSE "end")
    /\ UNCHANGED <<ackMu, hook, sess, ok2xx, arrived, wire>>

----------------------------------------------------------------------------
(* onAck: the caller's ACK, and each retransmission of it.                 *)

\* directionFor finds the record only while it is confirmed; an ACK with no
\* record is routed without one and touches nothing here.
AckArrives(x) ==
    /\ At(x, "idle") /\ ok2xx
    /\ Goto(x, IF Up THEN "lock" ELSE "done")
    /\ UNCHANGED <<d, ackMu, hook, sess, ok2xx, arrived, wire, ends>>

LockAckMuNot(x) ==
    /\ At(x, "lock")
    /\ Goto(x, "clear")
    /\ UNCHANGED <<d, ackMu, hook, sess, ok2xx, arrived, wire, ends>>

LockAckMu(x) ==
    /\ At(x, "lock") /\ ackMu = "free"
    /\ ackMu' = x
    /\ Goto(x, "clear")
    /\ UNCHANGED <<d, hook, sess, ok2xx, arrived, wire, ends>>

ClearAck(x) ==
    /\ At(x, "clear")
    /\ d' = IF d.ack THEN [d EXCEPT !.ack = FALSE, !.ackTimer = FALSE] ELSE d
    /\ arrived' = TRUE
    /\ Goto(x, "take")
    /\ UNCHANGED <<ackMu, hook, sess, ok2xx, wire, ends>>

TakeOwed(x) ==
    /\ At(x, "take")
    /\ IF d.owed = "owed"
       THEN d' = [d EXCEPT !.owed = "taken"] /\ Goto(x, "answer")
       ELSE Goto(x, "restate") /\ UNCHANGED d
    /\ UNCHANGED <<ackMu, hook, sess, ok2xx, arrived, wire, ends>>

\* answerFromACK: rebuilt and applied to the media, or missing or unusable.
AnswerFromACK(x) ==
    /\ At(x, "answer")
    /\ \E p \in {"keep", "failed"} : Goto(x, p)
    /\ UNCHANGED <<d, ackMu, hook, sess, ok2xx, arrived, wire, ends>>

SetAckAnswer(x) ==
    /\ At(x, "keep")
    /\ d' = [d EXCEPT !.lastAck = "kept"]
    /\ Goto(x, "finish")
    /\ UNCHANGED <<ackMu, hook, sess, ok2xx, arrived, wire, ends>>

Unlock(x) == ackMu' = IF ackMu = x THEN "free" ELSE ackMu

\* owed.finish stops the backstop, the ACK goes to the callee; without a
\* usable answer the call is ended, ackMu still held.
FinishAck(x) ==
    /\ pc[x] \in {"finish", "failed"}
    /\ d' = [d EXCEPT !.owedTimer = FALSE]
    /\ acks' = acks \cup {IF At(x, "finish") THEN "answer" ELSE "bare"}
    /\ IF At(x, "finish")
       THEN Goto(x, "done") /\ Unlock(x)
       ELSE Goto(x, "end") /\ UNCHANGED ackMu
    /\ UNCHANGED <<hook, sess, ok2xx, arrived, told, byes, ends>>

\* A retransmission restates the answer the first ACK was rebuilt into.
RestateAck(x) ==
    /\ At(x, "restate")
    /\ acks' = acks \cup {IF d.lastAck = "kept" THEN "answer" ELSE "bare"}
    /\ Goto(x, "done") /\ Unlock(x)
    /\ UNCHANGED <<d, hook, sess, ok2xx, arrived, told, byes, ends>>

\* The callee's answer to a PRACK that carries the owed answer: a 2xx drops
\* it and stops its backstop; any other final leaves it owed.
PrackAnswered ==
    /\ At("prack", "wait")
    /\ Goto("prack", "done")
    /\ \/ d' = IF d.owed = "owed" THEN [d EXCEPT !.owed = "taken", !.owedTimer = FALSE] ELSE d
       \/ UNCHANGED d
    /\ UNCHANGED <<ackMu, hook, sess, ok2xx, arrived, wire, ends>>

----------------------------------------------------------------------------
(* onInDialog for a BYE from either end.                                   *)

ByeArrives(x) ==
    /\ x \in Byes /\ At(x, "idle") /\ Up
    /\ Goto(x, "wait")
    /\ UNCHANGED <<d, ackMu, hook, sess, ok2xx, arrived, wire, ends>>

\* The far end's final: one that ends the dialog (2xx, 481, 408), none at all
\* (the BYE is sent once more and answered 200), or one that leaves it up.
ByeAnswered(x) ==
    /\ x \in Byes /\ At(x, "wait")
    /\ \/ Goto(x, "grace") /\ told' = Sides
       \/ Goto(x, "idle") /\ UNCHANGED told
    /\ UNCHANGED <<d, ackMu, hook, sess, ok2xx, arrived, acks, byes, ends>>

\* ackOwedAfterGrace: a callee that hangs up while the ACK is owed is given
\* byeAckGrace before the ACK counts as missing.
GraceStarts(x) ==
    /\ At(x, "grace")
    /\ Goto(x, IF x = "byeCallee" /\ d.ack THEN "graceWait" ELSE "end")
    /\ UNCHANGED <<d, ackMu, hook, sess, ok2xx, arrived, wire, ends>>

GraceEnds(x) ==
    /\ At(x, "graceWait")
    /\ Goto(x, IF d.ack THEN "note" ELSE "end")
    /\ UNCHANGED <<d, ackMu, hook, sess, ok2xx, arrived, wire, ends>>

----------------------------------------------------------------------------
(* The media session, a refused re-INVITE and shutdown.                    *)

\* The silence watchdog, a failed WebRTC leg or a relay fault closes it.
MediaCloses ==
    /\ At("media", "idle")
    /\ sess' = FALSE
    /\ Goto("media", "done")
    /\ UNCHANGED <<d, ackMu, hook, ok2xx, arrived, wire, ends>>

Watch ==
    /\ At("watcher", "wait") /\ ~sess
    /\ Goto("watcher", "end")
    /\ UNCHANGED <<d, ackMu, hook, sess, ok2xx, arrived, wire, ends>>

\* The record is found.
OnReInvite ==
    /\ At("reinvite", "idle") /\ Up
    /\ Goto("reinvite", "begin")
    /\ UNCHANGED <<d, ackMu, hook, sess, ok2xx, arrived, wire, ends>>

\* beginReInviteOffer: 491 while an answer is owed; otherwise a new exchange
\* starts and the answer kept for retransmitted ACKs is dropped.
BeginReInviteOffer ==
    /\ At("reinvite", "begin")
    /\ IF d.owed = "owed"
       THEN Goto("reinvite", "done") /\ UNCHANGED d
       ELSE /\ d' = [d EXCEPT !.lastAck = IF Up THEN "dropped" ELSE "none"]
            /\ Goto("reinvite", "wait")
    /\ UNCHANGED <<ackMu, hook, sess, ok2xx, arrived, wire, ends>>

\* The far end accepts a body that cannot be anchored, or the exchange ends
\* harmlessly.
ReInviteAnswered ==
    /\ At("reinvite", "wait")
    /\ \E p \in {"end", "done"} : Goto("reinvite", p)
    /\ UNCHANGED <<d, ackMu, hook, sess, ok2xx, arrived, wire, ends>>

\* A re-INVITE that carries its offer; offerless ones are module OfferAnswer's.
ReInvite == OnReInvite \/ BeginReInviteOffer \/ ReInviteAnswered

CloseAll ==
    /\ At("shutdown", "idle")
    /\ Goto("shutdown", "end")
    /\ UNCHANGED <<d, ackMu, hook, sess, ok2xx, arrived, wire, ends>>

----------------------------------------------------------------------------
(* dialog.endBy and byeBothEnds.                                           *)

Reason(x) ==
    CASE x \in Acks -> "answer_unusable"
      [] x \in Byes -> IF At(x, "endAck") THEN "ack_timeout" ELSE "bye"
      [] x = "ackTimer" -> "ack_timeout"
      [] x = "owedTimer" -> "answer_timeout"
      [] x = "reinvite" -> "reinvite_refused"
      [] x = "watcher" -> "media"
      [] OTHER -> "shutdown"

\* Who calls byeBothEnds after winning end().
Tellers == Acks \cup {"ackTimer", "owedTimer", "reinvite", "watcher"}

Elected == [d EXCEPT !.state = "Ended", !.ack = FALSE, !.ackTimer = FALSE,
                     !.owed = IF @ = "owed" THEN "none" ELSE @,
                     !.owedTimer = FALSE, !.lastAck = "none"]

EndByUnelected(x) ==
    /\ pc[x] \in {"end", "endAck"}
    /\ d' = Elected
    /\ ends' = [ends EXCEPT !.reason = Reason(x)]
    /\ Goto(x, "release")
    /\ UNCHANGED <<ackMu, hook, sess, ok2xx, arrived, wire>>

\* The state transition under the mutex elects the one caller that goes on.
EndBy(x) ==
    /\ pc[x] \in {"end", "endAck"}
    /\ IF Up
       THEN /\ d' = Elected
            /\ ends' = [ends EXCEPT !.reason = Reason(x)]
            /\ Goto(x, "release")
            /\ UNCHANGED ackMu
       ELSE /\ Goto(x, "done") /\ Unlock(x)
            /\ UNCHANGED <<d, ends>>
    /\ UNCHANGED <<hook, sess, ok2xx, arrived, wire>>

ReleaseAndLeak(x) ==
    /\ At(x, "release")
    /\ hook' = FALSE
    /\ Goto(x, "report")
    /\ UNCHANGED <<d, ackMu, sess, ok2xx, arrived, wire, ends>>

\* hook.release, then Session.Close.
ReleaseAndClose(x) ==
    /\ At(x, "release")
    /\ hook' = FALSE /\ sess' = FALSE
    /\ Goto(x, "report")
    /\ UNCHANGED <<d, ackMu, ok2xx, arrived, wire, ends>>

Report(x) ==
    /\ At(x, "report")
    /\ ends' = [ends EXCEPT !.reports = @ + 1]
    /\ IF x \in Tellers
       THEN Goto(x, "tell") /\ UNCHANGED ackMu
       ELSE Goto(x, "done") /\ Unlock(x)
    /\ UNCHANGED <<d, hook, sess, ok2xx, arrived, wire>>

ByeCallerOnly(x) ==
    /\ At(x, "tell")
    /\ byes' = [byes EXCEPT !["caller"] = @ + 1]
    /\ Goto(x, "done") /\ Unlock(x)
    /\ UNCHANGED <<d, hook, sess, ok2xx, arrived, acks, told, ends>>

ByeBothEnds(x) ==
    /\ At(x, "tell")
    /\ byes' = [s \in Sides |-> byes[s] + 1]
    /\ Goto(x, "done") /\ Unlock(x)
    /\ UNCHANGED <<d, hook, sess, ok2xx, arrived, acks, told, ends>>

----------------------------------------------------------------------------
Ack(x) ==
    \/ LockAckMu(x) \/ ClearAck(x) \/ TakeOwed(x) \/ AnswerFromACK(x)
    \/ SetAckAnswer(x) \/ FinishAck(x) \/ RestateAck(x)

\* The steps FreeSBC's own goroutines take once they are runnable.
Own(x) ==
    \/ x \in Acks /\ Ack(x)
    \/ x \in {"ackTimer", "owedTimer", "byeCallee"} /\ NoteAckMiss(x)
    \/ x \in Byes /\ (GraceStarts(x) \/ GraceEnds(x))
    \/ EndBy(x) \/ ReleaseAndClose(x) \/ Report(x) \/ ByeBothEnds(x)

Timers == FireAckTimer \/ AckExpired \/ FireOwedTimer \/ OwedExpired
Invite == ArmOwedTimer \/ ArmAckTimer \/ Respond2xx

Next ==
    \/ Invite \/ Timers \/ Watch
    \/ \E x \in Actors : Own(x)
    \/ \E x \in Acks : AckArrives(x)
    \/ \E x \in Byes : ByeArrives(x) \/ ByeAnswered(x)
    \/ PrackAnswered \/ MediaCloses \/ ReInvite \/ CloseAll

\* Runnable goroutines run and armed timers fire; nothing is assumed of the
\* endpoints, of the media or of shutdown.
Fairness ==
    /\ WF_vars(Invite) /\ WF_vars(Watch)
    /\ WF_vars(FireAckTimer) /\ WF_vars(AckExpired)
    /\ WF_vars(FireOwedTimer) /\ WF_vars(OwedExpired)
    /\ \A x \in Actors : WF_vars(Own(x))

Spec == Init /\ [][Next]_vars /\ Fairness

----------------------------------------------------------------------------
(* Safety                                                                  *)

\* The end of a call is reported exactly once, and FreeSBC sends an endpoint
\* a BYE of its own at most once and only for a call no endpoint hung up and
\* no shutdown dropped, however many of the actors race (dialog.end: "reports
\* the dialog's end exactly once").
EndedOnce ==
    /\ ends.reports <= 1
    /\ \A s \in Sides : byes[s] <= 1 /\ (byes[s] = 1 => ends.reason \notin {"bye", "shutdown"})

\* One transaction's missing ACK is counted once, although the ACK backstop,
\* the answer backstop and the callee's BYE may all note it (noteAckMiss).
MissCountedOnce == ends.misses <= 1

\* The owed answer is either applied or timed out: the answer backstop never
\* ends a call whose ACK or PRACK answer was taken (takeOwed, dropOwed).
AnswerOrTimeout == ends.reason = "answer_timeout" => d.owed # "taken"

\* However its endings race, a call ends once and for one reason: reported
\* once, one BYE per endpoint, its missing ACK counted once, and never for want
\* of an answer that was taken.
EndedForOneReason == TypeOK /\ EndedOnce /\ MissCountedOnce /\ AnswerOrTimeout

\* While the call is up, an ACK is forwarded bare only when its answer was
\* unusable, came too late, or a later offer exchange began and took it away:
\* a retransmitted ACK racing the first one still restates the answer
\* (dialog.ackMu, lastAck, beginReInviteOffer).
Unusable == \E x \in Acks : pc[x] \in {"failed", "end"} \cup Ending
AnswerRestated ==
    (Offerless /\ ~Prack /\ Up /\ "bare" \in acks)
        => (d.owed = "expired" \/ d.lastAck = "dropped" \/ Unusable)

----------------------------------------------------------------------------
(* Liveness                                                                *)

\* A call whose ACK never comes does not stay up: one of the two backstops
\* ends it (armAckTimer leaves the teardown to the owed answer's timer).
LostAckEnds == d.ack ~> ~d.ack

\* Both ends of a call that ended learn of it, unless shutdown dropped it:
\* each hung up, was relayed the other's BYE or is sent one by FreeSBC.
EndpointsTold ==
    (d.state = "Ended" /\ ends.reason # "shutdown")
        ~> \A s \in Sides : s \in told \/ byes[s] = 1

\* Media and call end together, whichever ends first (confirm's watcher and
\* endBy's Close).
MediaAndCallEndTogether ==
    /\ d.state = "Ended" ~> ~sess
    /\ ~sess ~> d.state = "Ended"

============================================================================
