------------------------- MODULE CallTeardownProofs -------------------------
(***************************************************************************)
(* The safety of CallTeardown for any number of ACK handlers and any       *)
(* choice of the optional actors.                                          *)
(***************************************************************************)
EXTENDS CallTeardown, TLAPS

\* The types of CallTeardown's state are preserved by every step.
LEMMA TypeStep == TypeOK /\ [Next]_vars => TypeOK'
<1> SUFFICES ASSUME TypeOK, [Next]_vars PROVE TypeOK'
  OBVIOUS
<1> USE AcksAssumption, ModeAssumption DEF TypeOK, At, Goto, Up, Ending, wire, Unlock, Records, Totals
<1>1. CASE Invite
  <2>1. CASE ArmOwedTimer
    BY <2>1 DEF ArmOwedTimer, Actors, Fixed
  <2>2. CASE ArmAckTimer
    BY <2>2 DEF ArmAckTimer, Actors, Fixed
  <2>3. CASE Respond2xx
    BY <2>3 DEF Respond2xx, Actors, Fixed
  <2> QED BY <1>1, <2>1, <2>2, <2>3 DEF Invite
<1>2. CASE Timers
  BY <1>2 DEF Timers, FireAckTimer, AckExpired, FireOwedTimer, OwedExpired, Actors, Fixed
<1>3. CASE Watch \/ PrackAnswered \/ MediaCloses \/ ReInvite \/ CloseAll
  <2>1. CASE Watch
    BY <2>1 DEF Watch, Actors, Fixed
  <2>2. CASE PrackAnswered
    <3>1. CASE UNCHANGED d
      BY <2>2, <3>1 DEF PrackAnswered, Actors, Fixed
    <3>2. CASE d' = [d EXCEPT !.owed = "taken", !.owedTimer = FALSE]
      BY <2>2, <3>2 DEF PrackAnswered, Actors, Fixed
    <3> QED BY <2>2, <3>1, <3>2 DEF PrackAnswered
  <2>3. CASE MediaCloses
    <3>1. sess' \in BOOLEAN
      BY <2>3, Zenon DEF MediaCloses
    <3> QED BY <2>3, <3>1 DEF MediaCloses, Actors, Fixed, Optional
  <2>4. CASE ReInvite
    BY <2>4 DEF ReInvite, OnReInvite, BeginReInviteOffer, ReInviteAnswered, Actors, Fixed, Optional
  <2>5. CASE CloseAll
    BY <2>5 DEF CloseAll, Actors, Fixed, Optional
  <2> QED BY <1>3, <2>1, <2>2, <2>3, <2>4, <2>5
<1>4. ASSUME NEW x \in Acks, AckArrives(x) PROVE TypeOK'
  BY <1>4 DEF AckArrives, Actors
<1>5. ASSUME NEW x \in Byes, ByeArrives(x) \/ ByeAnswered(x) PROVE TypeOK'
  <2>0. x \in Actors
    BY DEF Byes, Actors, Fixed, Optional
  <2>1. CASE ByeArrives(x)
    BY <2>0, <2>1 DEF ByeArrives
  <2>2. CASE ByeAnswered(x)
    <3>1. told' \subseteq Sides
      BY <2>2 DEF ByeAnswered
    <3>2. \E p \in {"grace", "idle"} : pc' = [pc EXCEPT ![x] = p]
      BY <2>2 DEF ByeAnswered
    <3> QED BY <2>0, <2>2, <3>1, <3>2 DEF ByeAnswered
  <2> QED BY <1>5, <2>1, <2>2
<1>6. ASSUME NEW x \in Acks, Ack(x) PROVE TypeOK'
  <2>1. CASE LockAckMu(x)
    BY <2>1 DEF LockAckMu, Actors
  <2>2. CASE ClearAck(x)
    BY <2>2 DEF ClearAck, Actors
  <2>3. CASE TakeOwed(x)
    BY <2>3 DEF TakeOwed, Actors
  <2>4. CASE AnswerFromACK(x)
    BY <2>4 DEF AnswerFromACK, Actors
  <2>5. CASE SetAckAnswer(x)
    BY <2>5 DEF SetAckAnswer, Actors
  <2>6. CASE FinishAck(x)
    <3>1. d' \in Records
      BY <2>6 DEF FinishAck
    <3>2. acks' \subseteq {"answer", "bare"}
      BY <2>6 DEF FinishAck
    <3>3. ackMu' \in Acks \cup {"free"}
      BY <2>6 DEF FinishAck
    <3>4. \E p \in {"done", "end"} : pc' = [pc EXCEPT ![x] = p]
      BY <2>6 DEF FinishAck
    <3> QED BY <2>6, <3>1, <3>2, <3>3, <3>4 DEF FinishAck, Actors
  <2>7. CASE RestateAck(x)
    BY <2>7 DEF RestateAck, Actors
  <2> QED BY <1>6, <2>1, <2>2, <2>3, <2>4, <2>5, <2>6, <2>7 DEF Ack
<1>7. ASSUME NEW x \in Actors, NoteAckMiss(x) PROVE TypeOK'
  <2>1. CASE TakesMiss
    <3>1. d' = [d EXCEPT !.counted = TRUE] /\ ends' = [ends EXCEPT !.misses = @ + 1]
      BY <1>7, <2>1 DEF NoteAckMiss
    <3>2. d' \in Records
      BY <3>1
    <3>3. ends' \in Totals
      BY <3>1
    <3> QED BY <1>7, <3>2, <3>3 DEF NoteAckMiss
  <2>2. CASE ~TakesMiss
    BY <1>7, <2>2 DEF NoteAckMiss
  <2> QED BY <2>1, <2>2
<1>8. ASSUME NEW x \in Actors, GraceStarts(x) \/ GraceEnds(x) PROVE TypeOK'
  <2>1. CASE GraceStarts(x)
    <3>1. \E p \in {"graceWait", "end"} : pc' = [pc EXCEPT ![x] = p]
      BY <2>1 DEF GraceStarts
    <3> QED BY <2>1, <3>1 DEF GraceStarts
  <2>2. CASE GraceEnds(x)
    <3>1. \E p \in {"note", "end"} : pc' = [pc EXCEPT ![x] = p]
      BY <2>2 DEF GraceEnds
    <3> QED BY <2>2, <3>1 DEF GraceEnds
  <2> QED BY <1>8, <2>1, <2>2
<1>9. ASSUME NEW x \in Actors, EndBy(x) PROVE TypeOK'
  <2>1. Reason(x) \in Reasons
    BY DEF Reason, Reasons
  <2>2. CASE Up
    <3>1. d' \in Records
      <4>1. d' = Elected
        BY <2>2, <1>9 DEF EndBy
      <4>2. CASE d.owed = "owed"
        BY <4>1, <4>2 DEF Elected
      <4>3. CASE d.owed # "owed"
        BY <4>1, <4>3 DEF Elected
      <4> QED BY <4>2, <4>3
    <3>2. ends' \in Totals
      BY <2>1, <2>2, <1>9 DEF EndBy
    <3> QED BY <2>2, <1>9, <3>1, <3>2 DEF EndBy
  <2>3. CASE ~Up
    BY <2>3, <1>9 DEF EndBy
  <2> QED BY <2>2, <2>3
<1>10. ASSUME NEW x \in Actors, ReleaseAndClose(x) \/ Report(x) \/ ByeBothEnds(x)
       PROVE TypeOK'
  <2>1. CASE ReleaseAndClose(x)
    <3>1. hook' \in BOOLEAN /\ sess' \in BOOLEAN
      BY <2>1, Zenon DEF ReleaseAndClose
    <3> QED BY <2>1, <3>1 DEF ReleaseAndClose
  <2>2. CASE Report(x)
    BY <2>2 DEF Report
  <2>3. CASE ByeBothEnds(x)
    BY <2>3 DEF ByeBothEnds
  <2> QED BY <1>10, <2>1, <2>2, <2>3
<1>11. CASE UNCHANGED vars
  BY <1>11 DEF vars
<1> QED
  BY <1>1, <1>2, <1>3, <1>4, <1>5, <1>6, <1>7, <1>8, <1>9, <1>10, <1>11 DEF Next, Own

\* CallTeardown's state keeps its types.
THEOREM TypeCorrect == Spec => []TypeOK
<1>1. ASSUME Init PROVE TypeOK
  <2>1. d \in Records
    <3>1. CASE Offerless
      BY <1>1, <3>1 DEF Init, Records
    <3>2. CASE ~Offerless
      BY <1>1, <3>2 DEF Init, Records
    <3> QED BY <3>1, <3>2
  <2>2. pc \in [Actors -> {"armOwed", "wait", "done", "idle"}]
    BY <1>1 DEF Init
  <2>3. hook \in BOOLEAN /\ sess \in BOOLEAN /\ ok2xx \in BOOLEAN /\ arrived \in BOOLEAN
    BY <1>1, Zenon DEF Init
  <2>4. byes \in [Sides -> Nat] /\ ends \in Totals
    BY <1>1 DEF Init, Totals, Reasons
  <2> QED BY <1>1, <2>1, <2>2, <2>3, <2>4 DEF Init, TypeOK
<1> QED
  BY <1>1, TypeStep, PTL DEF Spec

----------------------------------------------------------------------------
(* The election in dialog.endBy: while the call is up nobody is past it,   *)
(* afterwards at most one actor is, and what it still has to do has not    *)
(* been done.                                                              *)

ElectInv ==
    /\ Up => /\ \A x \in Actors : pc[x] \notin Ending
             /\ ends.reports = 0 /\ ends.reason = "none"
             /\ \A s \in Sides : byes[s] = 0
    /\ \A x, y \in Actors : (pc[x] \in Ending /\ pc[y] \in Ending) => x = y
    /\ \A x \in Actors : pc[x] \in {"release", "report"} => ends.reports = 0
    /\ \A x \in Actors : pc[x] \in Ending => \A s \in Sides : byes[s] = 0
    /\ \A x \in Actors : (pc[x] \in Ending /\ x \in Tellers)
            => ends.reason \notin {"bye", "shutdown"}
    /\ \A x \in Actors : pc[x] = "tell" => x \in Tellers
    /\ EndedOnce

\* Steps outside endBy leave the election alone.
LEMMA QuietStep ==
    ASSUME TypeOK, ElectInv,
           d'.state = d.state, byes' = byes,
           ends'.reports = ends.reports, ends'.reason = ends.reason,
           \A y \in Actors : pc'[y] \in Ending => pc'[y] = pc[y]
    PROVE  ElectInv'
BY DEF ElectInv, EndedOnce, Up, Ending

\* A move of one actor to a point outside Ending is such a step.
LEMMA QuietMove ==
    ASSUME TypeOK, NEW x \in Actors, NEW p, p \notin Ending, Goto(x, p)
    PROVE  \A y \in Actors : pc'[y] \in Ending => pc'[y] = pc[y]
BY DEF TypeOK, Goto

\* Every step keeps the election: only the actor that found the call up in
\* endBy goes on to release, report and send the BYEs.
LEMMA ElectStep == TypeOK /\ ElectInv /\ [Next]_vars => ElectInv'
<1> SUFFICES ASSUME TypeOK, ElectInv, [Next]_vars PROVE ElectInv'
  OBVIOUS
<1>1. CASE Invite \/ Timers \/ Watch \/ PrackAnswered \/ MediaCloses \/ ReInvite \/ CloseAll
  <2>1. d'.state = d.state /\ byes' = byes /\ ends' = ends
    BY <1>1 DEF Invite, ArmOwedTimer, ArmAckTimer, Respond2xx, Timers, FireAckTimer,
       AckExpired, FireOwedTimer, OwedExpired, Watch, PrackAnswered, MediaCloses,
       ReInvite, OnReInvite, BeginReInviteOffer, ReInviteAnswered, CloseAll, wire, TypeOK, Records
  <2>2. PICK x \in Actors, p \in {"armAck", "respond", "done", "check", "note", "end", "begin", "wait"} :
          Goto(x, p)
    BY <1>1 DEF Invite, ArmOwedTimer, ArmAckTimer, Respond2xx, Timers, FireAckTimer,
       AckExpired, FireOwedTimer, OwedExpired, Watch, PrackAnswered, MediaCloses,
       ReInvite, OnReInvite, BeginReInviteOffer, ReInviteAnswered, CloseAll, Actors, Fixed, Optional
  <2>3. p \notin Ending
    BY DEF Ending
  <2> QED BY <2>1, <2>2, <2>3, QuietMove, QuietStep
<1>2. ASSUME NEW x \in Acks, AckArrives(x) \/ Ack(x) PROVE ElectInv'
  <2>1. d'.state = d.state /\ byes' = byes /\ ends' = ends
    BY <1>2 DEF AckArrives, Ack, LockAckMu, ClearAck, TakeOwed, AnswerFromACK,
       SetAckAnswer, FinishAck, RestateAck, wire, TypeOK, Records
  <2>2. PICK p \in {"lock", "done", "clear", "take", "answer", "restate", "keep", "failed",
                    "finish", "end"} : Goto(x, p)
    BY <1>2 DEF AckArrives, Ack, LockAckMu, ClearAck, TakeOwed, AnswerFromACK,
       SetAckAnswer, FinishAck, RestateAck
  <2>3. p \notin Ending /\ x \in Actors
    BY DEF Ending, Actors
  <2> QED BY <2>1, <2>2, <2>3, QuietMove, QuietStep
<1>3. ASSUME NEW x \in Actors,
             NoteAckMiss(x) \/ GraceStarts(x) \/ GraceEnds(x) \/ ByeArrives(x) \/ ByeAnswered(x)
      PROVE  ElectInv'
  <2>1. d'.state = d.state /\ byes' = byes
    BY <1>3 DEF NoteAckMiss, GraceStarts, GraceEnds, ByeArrives, ByeAnswered, wire, TypeOK, Records
  <2>2. ends'.reports = ends.reports /\ ends'.reason = ends.reason
    BY <1>3 DEF NoteAckMiss, GraceStarts, GraceEnds, ByeArrives, ByeAnswered, wire, TypeOK, Totals
  <2>3. PICK p \in {"end", "endAck", "graceWait", "note", "wait", "grace", "idle"} : Goto(x, p)
    BY <1>3 DEF NoteAckMiss, GraceStarts, GraceEnds, ByeArrives, ByeAnswered
  <2>4. p \notin Ending
    BY DEF Ending
  <2> QED BY <2>1, <2>2, <2>3, <2>4, QuietMove, QuietStep
<1>4. ASSUME NEW x \in Actors, EndBy(x) PROVE ElectInv'
  <2>1. CASE ~Up
    <3>1. d' = d /\ ends' = ends /\ byes' = byes /\ Goto(x, "done")
      BY <1>4, <2>1 DEF EndBy, wire
    <3> QED BY <3>1, QuietMove, QuietStep DEF Ending
  <2>2. CASE Up
    <3>1. ~Up'
      BY <1>4, <2>2 DEF EndBy, Elected, Up, TypeOK, Records
    <3>2. /\ byes' = byes /\ ends'.reports = ends.reports
          /\ ends'.reason = Reason(x)
          /\ pc' = [pc EXCEPT ![x] = "release"]
      BY <1>4, <2>2 DEF EndBy, Goto, wire, TypeOK, Totals
    <3>3. x \in Tellers => Reason(x) \notin {"bye", "shutdown"}
      BY AcksAssumption DEF Reason, Tellers, Byes, Fixed, Optional
    <3>4. \A y \in Actors : pc'[y] \in Ending => y = x
      BY <2>2, <3>2 DEF ElectInv, TypeOK
    <3> QED BY <2>2, <3>1, <3>2, <3>3, <3>4 DEF ElectInv, EndedOnce, Ending, TypeOK
  <2> QED BY <2>1, <2>2
<1>5. ASSUME NEW x \in Actors, ReleaseAndClose(x) PROVE ElectInv'
  BY <1>5 DEF ReleaseAndClose, At, Goto, wire, ElectInv, EndedOnce, Ending, Up, TypeOK
<1>6. ASSUME NEW x \in Actors, Report(x) PROVE ElectInv'
  BY <1>6 DEF Report, At, Goto, wire, ElectInv, EndedOnce, Ending, Up, TypeOK, Totals
<1>7. ASSUME NEW x \in Actors, ByeBothEnds(x) PROVE ElectInv'
  BY <1>7 DEF ByeBothEnds, At, Goto, ElectInv, EndedOnce, Ending, Up, TypeOK
<1>8. CASE UNCHANGED vars
  BY <1>8, QuietStep DEF vars
<1>9. Byes \subseteq Actors
  BY DEF Byes, Actors, Fixed, Optional
<1> QED
  BY <1>1, <1>2, <1>3, <1>4, <1>5, <1>6, <1>7, <1>8, <1>9 DEF Next, Own

\* The election has not been held when the call is confirmed.
LEMMA ElectInit == Init => ElectInv
BY DEF Init, ElectInv, EndedOnce, Ending, Sides, Up

\* However many ACK handlers, BYEs, backstops, watchers and shutdowns race,
\* one of them ends the call: it is reported once and each endpoint is sent
\* at most one BYE by FreeSBC (dialog.endBy's state transition).
THEOREM EndedExactlyOnce == Spec => []EndedOnce
<1>1. ElectInv => EndedOnce
  BY DEF ElectInv
<1> QED
  BY <1>1, ElectInit, ElectStep, TypeCorrect, PTL DEF Spec

----------------------------------------------------------------------------
(* The ACK miss: counted (d.counted) remembers that it was noted.          *)

MissInv == ends.misses = IF d.counted THEN 1 ELSE 0

\* The missing ACK of one transaction is counted at most once, whoever notes
\* it (takeAckMiss's counted flag).
THEOREM MissedAckCountedOnce == Spec => []MissCountedOnce
<1>1. Init => MissInv
  BY DEF Init, MissInv
<1>2. TypeOK /\ MissInv /\ [Next]_vars => MissInv'
  <2> SUFFICES ASSUME TypeOK, MissInv, [Next]_vars PROVE MissInv'
    OBVIOUS
  <2>1. CASE Invite \/ Timers \/ Watch \/ PrackAnswered \/ MediaCloses \/ ReInvite \/ CloseAll
    <3>1. ends' = ends
      BY <2>1 DEF Invite, ArmOwedTimer, ArmAckTimer, Respond2xx, Timers, FireAckTimer,
         AckExpired, FireOwedTimer, OwedExpired, Watch, PrackAnswered, MediaCloses,
         ReInvite, OnReInvite, BeginReInviteOffer, ReInviteAnswered, CloseAll
    <3>2. d'.counted = d.counted
      <4>1. CASE Invite \/ Watch \/ PrackAnswered
        BY <4>1 DEF Invite, ArmOwedTimer, ArmAckTimer, Respond2xx, Watch, PrackAnswered,
           TypeOK, Records
      <4>2. CASE Timers \/ MediaCloses \/ ReInvite \/ CloseAll
        BY <4>2 DEF Timers, FireAckTimer, AckExpired, FireOwedTimer, OwedExpired,
           MediaCloses, ReInvite, OnReInvite, BeginReInviteOffer, ReInviteAnswered, CloseAll, TypeOK, Records
      <4> QED BY <2>1, <4>1, <4>2
    <3> QED BY <3>1, <3>2 DEF MissInv
  <2>2. ASSUME NEW x \in Acks, AckArrives(x) \/ Ack(x) PROVE MissInv'
    BY <2>2 DEF AckArrives, Ack, LockAckMu, ClearAck, TakeOwed, AnswerFromACK,
       SetAckAnswer, FinishAck, RestateAck, wire, TypeOK, Records, MissInv
  <2>3. ASSUME NEW x, NoteAckMiss(x) PROVE MissInv'
    <3>1. CASE TakesMiss
      BY <2>3, <3>1 DEF NoteAckMiss, TakesMiss, TypeOK, Records, Totals, MissInv
    <3>2. CASE ~TakesMiss
      BY <2>3, <3>2 DEF NoteAckMiss, MissInv
    <3> QED BY <3>1, <3>2
  <2>4. ASSUME NEW x, \/ GraceStarts(x) \/ GraceEnds(x) \/ ByeArrives(x) \/ ByeAnswered(x)
                      \/ ReleaseAndClose(x) \/ ByeBothEnds(x)
        PROVE  MissInv'
    BY <2>4 DEF GraceStarts, GraceEnds, ByeArrives, ByeAnswered, ReleaseAndClose,
       ByeBothEnds, MissInv
  <2>5. ASSUME NEW x, EndBy(x) \/ Report(x) PROVE MissInv'
    <3>1. d'.counted = d.counted
      <4>1. CASE Report(x)
        BY <4>1 DEF Report
      <4>2. CASE EndBy(x)
        <5>1. Elected.counted = d.counted
          BY DEF Elected, TypeOK, Records
        <5> QED BY <4>2, <5>1 DEF EndBy
      <4> QED BY <2>5, <4>1, <4>2
    <3>2. ends'.misses = ends.misses
      BY <2>5 DEF EndBy, Report, TypeOK, Totals
    <3> QED BY <3>1, <3>2 DEF MissInv
  <2>6. CASE UNCHANGED vars
    BY <2>6 DEF vars, MissInv
  <2> QED
    BY <2>1, <2>2, <2>3, <2>4, <2>5, <2>6 DEF Next, Own
<1>3. MissInv => MissCountedOnce
  BY DEF MissInv, MissCountedOnce
<1> QED
  BY <1>1, <1>2, <1>3, TypeCorrect, PTL DEF Spec

----------------------------------------------------------------------------
(* The answer backstop owns the answer before it ends the call.            *)

OwedInv ==
    /\ pc["owedTimer"] \in {"idle", "check", "note", "end", "done"} \cup Ending
    /\ pc["owedTimer"] \in {"note", "end"} \cup Ending => d.owed = "expired"
    /\ ends.reason = "answer_timeout" => d.owed = "expired"

\* A call whose delayed answer was taken, from an ACK or a PRACK, is never
\* ended for want of it (owedExpired's dropOwed).
THEOREM AnswerTakenOrTimedOut == Spec => []AnswerOrTimeout
<1> USE DEF OwedInv, Ending
<1>1. Init => OwedInv
  BY DEF Init, Actors, Fixed, Optional
<1>2. TypeOK /\ OwedInv /\ [Next]_vars => OwedInv'
  <2> SUFFICES ASSUME TypeOK, OwedInv, [Next]_vars PROVE OwedInv'
    OBVIOUS
  <2>0. "owedTimer" \in Actors /\ "owedTimer" \notin Acks \cup Byes
    BY AcksAssumption DEF Actors, Fixed, Byes
  <2> USE <2>0 DEF At, Goto
  <2>1. CASE Invite \/ Timers
    <3>1. CASE Invite \/ FireAckTimer \/ AckExpired
      <4>1. /\ d'.owed = d.owed /\ ends' = ends
            /\ pc'["owedTimer"] = pc["owedTimer"]
        BY <3>1 DEF Invite, ArmOwedTimer, ArmAckTimer, Respond2xx, FireAckTimer,
           AckExpired, wire, TypeOK, Records
      <4> QED BY <4>1
    <3>2. CASE FireOwedTimer \/ OwedExpired
      BY <3>2 DEF FireOwedTimer, OwedExpired, wire, TypeOK, Records
    <3> QED BY <2>1, <3>1, <3>2 DEF Timers
  <2>2. CASE Watch \/ PrackAnswered \/ MediaCloses \/ ReInvite \/ CloseAll
    <3>1. /\ d'.owed = d.owed \/ d.owed = "owed"
          /\ ends' = ends
          /\ pc'["owedTimer"] = pc["owedTimer"]
      BY <2>2 DEF Watch, PrackAnswered, MediaCloses, ReInvite, OnReInvite, BeginReInviteOffer, ReInviteAnswered, CloseAll, wire, TypeOK, Records
    <3> QED BY <3>1
  <2>3. ASSUME NEW x \in Acks, AckArrives(x) \/ Ack(x) PROVE OwedInv'
    <3>1. ends' = ends /\ pc'["owedTimer"] = pc["owedTimer"]
      BY <2>3 DEF AckArrives, Ack, LockAckMu, ClearAck, TakeOwed, AnswerFromACK,
         SetAckAnswer, FinishAck, RestateAck, wire, TypeOK
    <3>2. d'.owed = d.owed \/ d.owed = "owed"
      <4>1. CASE TakeOwed(x)
        BY <4>1 DEF TakeOwed, TypeOK, Records
      <4>2. CASE AckArrives(x) \/ LockAckMu(x) \/ ClearAck(x) \/ AnswerFromACK(x)
        BY <4>2 DEF AckArrives, LockAckMu, ClearAck, AnswerFromACK, TypeOK, Records
      <4>3. CASE SetAckAnswer(x) \/ FinishAck(x) \/ RestateAck(x)
        BY <4>3 DEF SetAckAnswer, FinishAck, RestateAck, TypeOK, Records
      <4> QED BY <2>3, <4>1, <4>2, <4>3 DEF Ack
    <3> QED BY <3>1, <3>2
  <2>4. ASSUME NEW x \in Actors, NoteAckMiss(x) PROVE OwedInv'
    <3>1. d'.owed = d.owed /\ ends'.reason = ends.reason
      BY <2>4 DEF NoteAckMiss, TypeOK, Records, Totals
    <3> QED BY <2>4, <3>1 DEF NoteAckMiss, TypeOK
  <2>5. ASSUME NEW x \in Byes, GraceStarts(x) \/ GraceEnds(x) \/ ByeArrives(x) \/ ByeAnswered(x)
        PROVE  OwedInv'
    BY <2>5 DEF GraceStarts, GraceEnds, ByeArrives, ByeAnswered, TypeOK
  <2>6. ASSUME NEW x \in Actors, EndBy(x) PROVE OwedInv'
    <3>1. d.owed = "expired" => d'.owed = "expired"
      BY <2>6 DEF EndBy, Elected, TypeOK, Records
    <3>2. ends'.reason = "answer_timeout" => (ends.reason = "answer_timeout" \/ x = "owedTimer")
      BY <2>6 DEF EndBy, Reason, TypeOK, Totals
    <3>3. x = "owedTimer" => d.owed = "expired"
      BY <2>6 DEF EndBy
    <3>4. pc'["owedTimer"] = pc["owedTimer"] \/ (x = "owedTimer" /\ pc'["owedTimer"] \in {"release", "done"})
      BY <2>6 DEF EndBy, TypeOK
    <3> QED BY <3>1, <3>2, <3>3, <3>4
  <2>7. ASSUME NEW x \in Actors, ReleaseAndClose(x) \/ Report(x) \/ ByeBothEnds(x) PROVE OwedInv'
    <3>1. d' = d /\ ends'.reason = ends.reason
      BY <2>7 DEF ReleaseAndClose, Report, ByeBothEnds, TypeOK, Totals
    <3> QED BY <2>7, <3>1 DEF ReleaseAndClose, Report, ByeBothEnds, TypeOK
  <2>8. CASE UNCHANGED vars
    BY <2>8 DEF vars
  <2> QED
    BY <2>1, <2>2, <2>3, <2>4, <2>5, <2>6, <2>7, <2>8 DEF Next, Own
<1>3. OwedInv => AnswerOrTimeout
  BY DEF AnswerOrTimeout
<1> QED
  BY <1>1, <1>2, <1>3, TypeCorrect, PTL DEF Spec

----------------------------------------------------------------------------
(* dialog.ackMu serialises the ACK handlers, so between taking the owed    *)
(* answer and remembering its rebuilt form no other ACK is forwarded.      *)

Held == {"clear", "take", "answer", "keep", "finish", "failed", "restate",
         "end", "endAck"} \cup Ending
Rebuilding == \E x \in Acks : pc[x] \in {"answer", "keep"}
Delayed == Offerless /\ ~Prack

MutexInv == \A x \in Acks : pc[x] \in Held => ackMu = x

RestateInv ==
    /\ MutexInv
    /\ Delayed =>
        /\ pc["prack"] = "done"
        /\ Up => d.owed # "none"
        /\ \A x \in Acks : pc[x] = "restate" => d.owed # "owed"
        /\ (Up /\ d.owed = "taken") => (d.lastAck # "none" \/ Rebuilding \/ Unusable)
        /\ (Up /\ "bare" \in acks) =>
              \/ d.owed = "expired" \/ Unusable
              \/ d.lastAck = "dropped" /\ d.owed = "taken" /\ ~Rebuilding

\* Steps of the other actors leave the ACK handlers' facts alone.
LEMMA RestateFrame ==
    ASSUME TypeOK, RestateInv,
           ackMu' = ackMu, acks' = acks,
           d'.state = d.state, ~Up \/ d'.lastAck = d.lastAck \/ d'.lastAck = "dropped",
           d'.owed = d.owed \/ (d.owed = "owed" /\ d'.owed = "expired"),
           pc'["prack"] = pc["prack"],
           \A x \in Acks : pc'[x] = pc[x]
    PROVE  RestateInv'
BY DEF RestateInv, MutexInv, Rebuilding, Unusable, Up

\* Every step keeps the invariant under the ACK handlers' lock.
LEMMA RestateStep == TypeOK /\ ElectInv /\ RestateInv /\ [Next]_vars => RestateInv'
<1> SUFFICES ASSUME TypeOK, ElectInv, RestateInv, [Next]_vars PROVE RestateInv'
  OBVIOUS
<1>0. /\ Acks \subseteq Actors /\ Fixed \subseteq Actors
      /\ \A x \in Acks : x \notin Fixed
  BY AcksAssumption DEF Actors
<1> USE <1>0 DEF At, Goto
<1>1. CASE Invite \/ Timers \/ Watch \/ MediaCloses \/ ReInvite \/ CloseAll
  <2>1. /\ ackMu' = ackMu /\ acks' = acks
        /\ d'.state = d.state /\ (~Up \/ d'.lastAck = d.lastAck \/ d'.lastAck = "dropped")
        /\ d'.owed = d.owed \/ (d.owed = "owed" /\ d'.owed = "expired")
    BY <1>1 DEF Invite, ArmOwedTimer, ArmAckTimer, Respond2xx, Timers, FireAckTimer,
       AckExpired, FireOwedTimer, OwedExpired, Watch, MediaCloses, ReInvite, OnReInvite, BeginReInviteOffer, ReInviteAnswered, CloseAll,
       wire, TypeOK, Records
  <2>2. \E x \in Fixed \ {"prack"} : \E p : pc' = [pc EXCEPT ![x] = p]
    BY <1>1 DEF Invite, ArmOwedTimer, ArmAckTimer, Respond2xx, Timers, FireAckTimer,
       AckExpired, FireOwedTimer, OwedExpired, Watch, MediaCloses, ReInvite, OnReInvite, BeginReInviteOffer, ReInviteAnswered, CloseAll,
       Fixed, Optional
  <2>3. pc'["prack"] = pc["prack"] /\ \A x \in Acks : pc'[x] = pc[x]
    BY <2>2 DEF TypeOK, Fixed
  <2> QED BY <2>1, <2>3, RestateFrame
<1>2. CASE PrackAnswered
  <2>1. ~Delayed /\ ackMu' = ackMu /\ \A x \in Acks : pc'[x] = pc[x]
    BY <1>2 DEF PrackAnswered, RestateInv, TypeOK, Fixed
  <2> QED BY <2>1 DEF RestateInv, MutexInv, Delayed
<1>3. ASSUME NEW x \in Fixed \ {"prack"},
             \/ NoteAckMiss(x) \/ GraceStarts(x) \/ GraceEnds(x)
             \/ ByeArrives(x) \/ ByeAnswered(x)
      PROVE  RestateInv'
  <2>1. /\ ackMu' = ackMu /\ acks' = acks
        /\ d'.state = d.state /\ d'.lastAck = d.lastAck /\ d'.owed = d.owed
    BY <1>3 DEF NoteAckMiss, GraceStarts, GraceEnds, ByeArrives, ByeAnswered, wire,
       TypeOK, Records
  <2>2. \E p : pc' = [pc EXCEPT ![x] = p]
    BY <1>3 DEF NoteAckMiss, GraceStarts, GraceEnds, ByeArrives, ByeAnswered
  <2>3. pc'["prack"] = pc["prack"] /\ \A y \in Acks : pc'[y] = pc[y]
    BY <2>2 DEF TypeOK, Fixed
  <2> QED BY <2>1, <2>3, RestateFrame
<1>4. ASSUME NEW x \in Actors, EndBy(x) PROVE RestateInv'
  <2>1. MutexInv'
    BY <1>4 DEF EndBy, Unlock, RestateInv, MutexInv, Held, Ending, TypeOK, Actors
  <2>2. Delayed => pc'["prack"] = "done"
    BY <1>4 DEF EndBy, RestateInv, TypeOK, Fixed
  <2>3. ~Up'
    BY <1>4 DEF EndBy, Elected, Up, TypeOK, Records
  <2>4. Delayed => \A y \in Acks : pc'[y] = "restate" => d'.owed # "owed"
    BY <1>4 DEF EndBy, Elected, RestateInv, TypeOK, Records
  <2> QED BY <2>1, <2>2, <2>3, <2>4 DEF RestateInv
<1>5. ASSUME NEW x \in Actors, ReleaseAndClose(x) \/ Report(x) \/ ByeBothEnds(x)
      PROVE  RestateInv'
  <2>1. d' = d /\ acks' = acks
    BY <1>5 DEF ReleaseAndClose, Report, ByeBothEnds, wire
  <2>2. PICK p \in {"report", "tell", "done"} : pc' = [pc EXCEPT ![x] = p]
    BY <1>5 DEF ReleaseAndClose, Report, ByeBothEnds
  <2>3. MutexInv'
    BY <1>5 DEF ReleaseAndClose, Report, ByeBothEnds, Unlock, RestateInv, MutexInv,
       Held, Ending, TypeOK, Actors
  <2>4. ~Up /\ pc[x] \in Ending
    BY <1>5 DEF ReleaseAndClose, Report, ByeBothEnds, ElectInv, Ending
  <2>5. Delayed => pc'["prack"] = "done"
    BY <2>2, <2>4 DEF RestateInv, TypeOK, Fixed, Ending
  <2>6. \A y \in Acks : pc'[y] = "restate" => pc[y] = "restate"
    BY <2>2 DEF TypeOK
  <2> QED BY <2>1, <2>3, <2>4, <2>5, <2>6 DEF RestateInv, Up
<1>6. ASSUME NEW x \in Acks, AckArrives(x) \/ LockAckMu(x) \/ ClearAck(x) PROVE RestateInv'
  <2>1. d'.state = d.state /\ d'.lastAck = d.lastAck /\ d'.owed = d.owed /\ acks' = acks
    BY <1>6 DEF AckArrives, LockAckMu, ClearAck, wire, TypeOK, Records
  <2>2. PICK p \in {"lock", "done", "clear", "take"} : pc' = [pc EXCEPT ![x] = p]
    BY <1>6 DEF AckArrives, LockAckMu, ClearAck
  <2>3. MutexInv'
    BY <1>6, AcksAssumption DEF AckArrives, LockAckMu, ClearAck, RestateInv, MutexInv,
       Held, Ending, TypeOK
  <2>4. pc[x] \in {"idle", "lock", "clear"}
    BY <1>6 DEF AckArrives, LockAckMu, ClearAck
  <2>5. (Rebuilding <=> Rebuilding') /\ (Unusable => Unusable')
    BY <2>2, <2>4 DEF Rebuilding, Unusable, Ending, TypeOK
  <2> QED BY <2>1, <2>2, <2>3, <2>5 DEF RestateInv, Up, TypeOK, Fixed
<1>7. ASSUME NEW x \in Acks, TakeOwed(x) \/ AnswerFromACK(x) \/ SetAckAnswer(x)
      PROVE  RestateInv'
  <2>1. MutexInv'
    BY <1>7 DEF TakeOwed, AnswerFromACK, SetAckAnswer, RestateInv, MutexInv, Held, TypeOK
  <2>2. acks' = acks /\ d'.state = d.state
    BY <1>7 DEF TakeOwed, AnswerFromACK, SetAckAnswer, wire, TypeOK, Records
  <2>3. CASE TakeOwed(x)
    BY <2>1, <2>2, <2>3 DEF TakeOwed, RestateInv, Up, TypeOK, Records, Rebuilding,
       Unusable, Fixed, Ending
  <2>4. CASE AnswerFromACK(x)
    BY <2>1, <2>2, <2>4 DEF AnswerFromACK, RestateInv, Up, TypeOK, Rebuilding,
       Unusable, Fixed, Ending
  <2>5. CASE SetAckAnswer(x)
    BY <2>1, <2>2, <2>5 DEF SetAckAnswer, RestateInv, Up, TypeOK, Records, Rebuilding,
       Unusable, Fixed, Ending
  <2> QED BY <1>7, <2>3, <2>4, <2>5
<1>8. ASSUME NEW x \in Acks, FinishAck(x) PROVE RestateInv'
  <2>1. d'.state = d.state /\ d'.lastAck = d.lastAck /\ d'.owed = d.owed
    BY <1>8 DEF FinishAck, TypeOK, Records
  <2>2. MutexInv'
    BY <1>8 DEF FinishAck, Unlock, RestateInv, MutexInv, Held, Ending, TypeOK
  <2>3. (Rebuilding <=> Rebuilding') /\ (Unusable => Unusable')
    BY <1>8 DEF FinishAck, Rebuilding, Unusable, Ending, TypeOK
  <2>4. "bare" \in acks' => ("bare" \in acks \/ Unusable')
    BY <1>8 DEF FinishAck, Unusable, TypeOK
  <2>5. pc'["prack"] = pc["prack"] /\ \A y \in Acks : pc'[y] = "restate" => pc[y] = "restate"
    BY <1>8 DEF FinishAck, TypeOK, Fixed
  <2> QED BY <2>1, <2>2, <2>3, <2>4, <2>5 DEF RestateInv, Up
<1>9. ASSUME NEW x \in Acks, RestateAck(x) PROVE RestateInv'
  <2>1. d' = d
    BY <1>9 DEF RestateAck
  <2>2. MutexInv'
    BY <1>9 DEF RestateAck, Unlock, RestateInv, MutexInv, Held, Ending, TypeOK
  <2>3. (Rebuilding => Rebuilding') /\ (Unusable => Unusable')
    BY <1>9 DEF RestateAck, Rebuilding, Unusable, Ending, TypeOK
  <2>4. ~Rebuilding /\ ~Unusable
    BY <1>9 DEF RestateAck, Rebuilding, Unusable, RestateInv, MutexInv, Held, Ending
  <2>5. (Delayed /\ Up /\ "bare" \in acks')
          => \/ d.owed = "expired"
             \/ d.lastAck = "dropped" /\ d.owed = "taken" /\ ~Rebuilding'
    <3>1. ~Rebuilding'
      BY <1>9, <2>4 DEF RestateAck, Rebuilding, TypeOK
    <3> QED BY <1>9, <2>4, <3>1 DEF RestateAck, RestateInv, TypeOK, Records
  <2>6. pc'["prack"] = pc["prack"] /\ \A y \in Acks : pc'[y] = "restate" => pc[y] = "restate"
    BY <1>9 DEF RestateAck, TypeOK, Fixed
  <2> QED BY <2>1, <2>2, <2>3, <2>5, <2>6 DEF RestateInv, Up
<1>10. CASE UNCHANGED vars
  BY <1>10, RestateFrame DEF vars
<1>11. Byes \subseteq Fixed \ {"prack"} /\ {"ackTimer", "owedTimer", "byeCallee"} \subseteq Fixed \ {"prack"}
  BY DEF Byes, Fixed, Optional
<1> QED
  BY <1>1, <1>2, <1>3, <1>4, <1>5, <1>6, <1>7, <1>8, <1>9, <1>10, <1>11 DEF Next, Own, Ack

\* In a delayed-offer call that is up, every ACK forwarded to the callee
\* carries the answer unless it was unusable, came too late or a later offer
\* exchange dropped it, however many retransmissions of the ACK are handled at
\* once (dialog.ackMu, lastAck, beginReInviteOffer).
THEOREM RetransmittedAckKeepsAnswer == Spec => []AnswerRestated
<1>1. Init => RestateInv
  BY AcksAssumption DEF Init, RestateInv, MutexInv, Held, Ending, Actors, Fixed, Optional,
     Delayed, Up
<1>2. RestateInv => AnswerRestated
  BY DEF RestateInv, AnswerRestated, Delayed
<1> QED
  BY <1>1, <1>2, RestateStep, ElectStep, ElectInit, TypeCorrect, PTL DEF Spec

\* BYEs of both ends, the two backstops, a refused re-INVITE, media silence and
\* shutdown race to end a call: it ends once and for one reason.
THEOREM EndedOnceForOneReason == Spec => []EndedForOneReason
<1>1. TypeOK /\ EndedOnce /\ MissCountedOnce /\ AnswerOrTimeout => EndedForOneReason
  BY DEF EndedForOneReason
<1> QED
  BY <1>1, TypeCorrect, EndedExactlyOnce, MissedAckCountedOnce, AnswerTakenOrTimedOut, PTL

============================================================================
