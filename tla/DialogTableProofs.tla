------------------------- MODULE DialogTableProofs -------------------------
(***************************************************************************)
(* The safety of DialogTable for any finite set of INVITEs, any range      *)
(* capacity and any sequence of max_sessions reloads.                      *)
(***************************************************************************)
EXTENDS DialogTable, FiniteSetTheorems, TLAPS

\* The clamp always yields a positive cap the rtp range can anchor.
LEMMA SessionLimitClamped ==
  ASSUME NEW c \in Caps PROVE SessionLimit(c) \in 1..Pairs
BY PairsAssumption, CapsAssumption DEF SessionLimit

\* Ending a record keeps the types of what end() writes.
LEMMA EndTypes ==
  ASSUME TypeOK, NEW i \in Invites, NEW who \in {"call", "run"}, End(i, who)
  PROVE  /\ state' \in [Invites -> {"none", "Early", "Confirmed", "Ended"}]
         /\ sessions' \in Int
         /\ closer' \in [Invites -> {"none", "call", "run"}]
BY DEF TypeOK, End

\* Every step of DialogTable keeps its types.
LEMMA TypeStep == TypeOK /\ [Next]_vars => TypeOK'
<1> SUFFICES ASSUME TypeOK, [Next]_vars PROVE TypeOK'
  OBVIOUS
<1> USE DEF At, Goto, table, server
<1>1. ASSUME NEW i \in Invites, Handler(i) PROVE TypeOK'
  <2>1. CASE ReadLimit(i)
    <3>1. SessionLimit(cap) \in 0..Pairs
      BY SessionLimitClamped DEF TypeOK
    <3> QED BY <2>1, <3>1 DEF TypeOK, ReadLimit
  <2>2. CASE Begin(i)
    BY <2>2 DEF TypeOK, Begin
  <2>3. CASE Rate(i) \/ Open(i) \/ Alloc(i) \/ Confirm(i)
    BY <2>3 DEF TypeOK, Rate, Open, Alloc, Confirm
  <2>4. CASE Attach(i)
    <3>1. media' \in [Invites -> BOOLEAN]
      BY <2>4 DEF TypeOK, Attach
    <3> QED BY <2>4, <3>1 DEF TypeOK, Attach
  <2>5. CASE EndUnlessUp(i)
    BY <2>5, EndTypes DEF TypeOK, EndUnlessUp
  <2> QED BY <1>1, <2>1, <2>2, <2>3, <2>4, <2>5 DEF Handler
<1>2. ASSUME NEW i \in Invites, CallEnds(i) PROVE TypeOK'
  BY <1>2, EndTypes DEF TypeOK, CallEnds
<1>3. ASSUME NEW i \in Invites, CloseSession(i) PROVE TypeOK'
  BY <1>3 DEF TypeOK, CloseSession
<1>4. ASSUME NEW i \in Invites, CloseAllEnd(i) PROVE TypeOK'
  BY <1>4, EndTypes DEF TypeOK, CloseAllEnd
<1>5. ASSUME NEW c \in Caps, Reload(c) PROVE TypeOK'
  BY <1>5 DEF TypeOK, Reload
<1>6. CASE Close
  BY <1>6 DEF TypeOK, Close
<1>7. CASE CloseAll \/ RunReturns
  BY <1>7 DEF TypeOK, CloseAll, RunReturns, Live
<1>8. CASE UNCHANGED vars
  BY <1>8 DEF TypeOK, vars
<1> QED BY <1>1, <1>2, <1>3, <1>4, <1>5, <1>6, <1>7, <1>8 DEF Next

\* The table's types hold throughout; in particular no handler ever acts on
\* a session cap above what the rtp range can anchor.
THEOREM TypeCorrect == Spec => []TypeOK
<1>1. Init => media \in [Invites -> BOOLEAN] /\ closed \in BOOLEAN
  BY Zenon DEF Init
<1>2. Init => TypeOK
  BY <1>1, PairsAssumption DEF Init, TypeOK
<1> QED BY <1>2, TypeStep, PTL DEF Spec

----------------------------------------------------------------------------
(* The slot counter. A handler opens its record once: before Begin it has  *)
(* none, and its cap is a positive number of calls.                        *)

NotBegun ==
    \A i \in Invites :
        /\ pc[i] \in {"new", "begin"} => state[i] = "none"
        /\ pc[i] = "begin" => lim[i] >= 1

SlotInv == NotBegun /\ SlotsExact /\ WithinPairs

\* Ending a live record takes it out of the table: one slot fewer.
LEMMA EndSlots ==
  ASSUME TypeOK, NotBegun, SlotsExact, WithinPairs, NEW i \in Invites, NEW who, End(i, who)
  PROVE  SlotsExact' /\ WithinPairs' /\ \A j \in Invites : state[j] = "none" => state'[j] = "none"
<1>1. i \in Live /\ Live' = Live \ {i}
  BY DEF End, Live, TypeOK
<1>2. IsFiniteSet(Live)
  BY InvitesAssumption, FS_Subset DEF Live
<1>3. Cardinality(Live') = Cardinality(Live) - 1
  BY <1>1, <1>2, FS_RemoveElement
<1>4. SlotsExact' /\ WithinPairs'
  BY <1>3, PairsAssumption DEF SlotsExact, WithinPairs, End, TypeOK
<1>5. \A j \in Invites : state[j] = "none" => state'[j] = "none"
  BY DEF End, Live, TypeOK
<1> QED BY <1>4, <1>5

\* A step that neither opens nor ends a record leaves the count alone.
LEMMA SlotFrame ==
  ASSUME TypeOK, SlotInv, Live' = Live, sessions' = sessions, NotBegun'
  PROVE  SlotInv'
BY DEF SlotInv, SlotsExact, WithinPairs

\* Every step of DialogTable keeps the slot counter exact and in range.
LEMMA SlotStep == TypeOK /\ SlotInv /\ [Next]_vars => SlotInv'
<1> SUFFICES ASSUME TypeOK, SlotInv, [Next]_vars PROVE SlotInv'
  OBVIOUS
<1> USE DEF At, Goto, table, server
<1>1. ASSUME NEW i \in Invites, ReadLimit(i) PROVE SlotInv'
  <2>1. SessionLimit(cap) >= 1
    BY SessionLimitClamped, PairsAssumption DEF TypeOK
  <2>2. NotBegun'
    BY <1>1, <2>1 DEF ReadLimit, SlotInv, NotBegun, TypeOK
  <2>3. Live' = Live
    BY <1>1 DEF ReadLimit, Live
  <2> QED BY <1>1, <2>2, <2>3, SlotFrame DEF ReadLimit
<1>2. ASSUME NEW i \in Invites, Begin(i) PROVE SlotInv'
  <2>1. NotBegun'
    BY <1>2 DEF Begin, SlotInv, NotBegun, TypeOK
  <2>2. CASE closed \/ Merged(i) \/ Full(i)
    <3>1. Live' = Live /\ sessions' = sessions
      BY <1>2, <2>2 DEF Begin, Live
    <3> QED BY <2>1, <3>1, SlotFrame
  <2>3. CASE ~(closed \/ Merged(i) \/ Full(i))
    <3>1. state[i] = "none" /\ lim[i] >= 1 /\ lim[i] <= Pairs /\ lim[i] \in Int
      BY <1>2, PairsAssumption DEF Begin, SlotInv, NotBegun, TypeOK
    <3>2. i \notin Live /\ Live' = Live \cup {i} /\ sessions' = sessions + 1
      BY <1>2, <2>3, <3>1 DEF Begin, Live, TypeOK
    <3>3. IsFiniteSet(Live)
      BY InvitesAssumption, FS_Subset DEF Live
    <3>4. Cardinality(Live') = Cardinality(Live) + 1
      BY <3>2, <3>3, FS_AddElement
    <3>5. SlotsExact'
      BY <3>2, <3>4 DEF SlotInv, SlotsExact
    <3>6. WithinPairs'
      BY <2>3, <3>1, <3>2, PairsAssumption DEF SlotInv, WithinPairs, Full, TypeOK
    <3> QED BY <2>1, <3>5, <3>6 DEF SlotInv
  <2> QED BY <2>2, <2>3
<1>3. ASSUME NEW i \in Invites,
             Rate(i) \/ Open(i) \/ Alloc(i) \/ Attach(i) \/ Confirm(i)
      PROVE  SlotInv'
  <2>1. NotBegun'
    BY <1>3 DEF Rate, Open, Alloc, Attach, Confirm, SlotInv, NotBegun, TypeOK
  <2>2. Live' = Live /\ sessions' = sessions
    BY <1>3 DEF Rate, Open, Alloc, Attach, Confirm, Live, TypeOK
  <2> QED BY <2>1, <2>2, SlotFrame
<1>4. ASSUME NEW i \in Invites, EndUnlessUp(i) PROVE SlotInv'
  <2>1. CASE End(i, "call")
    <3>1. NotBegun'
      BY <1>4, <2>1, EndSlots DEF EndUnlessUp, SlotInv, NotBegun, TypeOK
    <3> QED BY <2>1, <3>1, EndSlots DEF SlotInv
  <2>2. CASE UNCHANGED <<state, sessions, closer>>
    <3>1. NotBegun'
      BY <1>4, <2>2 DEF EndUnlessUp, SlotInv, NotBegun, TypeOK
    <3> QED BY <2>2, <3>1, SlotFrame DEF Live
  <2> QED BY <1>4, <2>1, <2>2 DEF EndUnlessUp
<1>5. ASSUME NEW i \in Invites, CallEnds(i) \/ CloseAllEnd(i) PROVE SlotInv'
  <2>1. pc' = pc /\ lim' = lim
    BY <1>5 DEF CallEnds, CloseAllEnd
  <2>2. ASSUME NEW who, End(i, who) PROVE SlotInv'
    <3>1. NotBegun'
      BY <2>1, <2>2, EndSlots DEF SlotInv, NotBegun
    <3> QED BY <2>2, <3>1, EndSlots DEF SlotInv
  <2>3. CASE UNCHANGED <<state, sessions, closer>>
    <3>1. NotBegun'
      BY <2>1, <2>3 DEF SlotInv, NotBegun
    <3> QED BY <2>3, <3>1, SlotFrame DEF Live
  <2> QED BY <1>5, <2>2, <2>3 DEF CallEnds, CloseAllEnd
<1>6. CASE UNCHANGED <<pc, state, lim, sessions>>
  <2>1. NotBegun' /\ Live' = Live
    BY <1>6 DEF SlotInv, NotBegun, Live
  <2> QED BY <1>6, <2>1, SlotFrame
<1>7. ASSUME NEW i \in Invites, CloseSession(i) PROVE SlotInv'
  BY <1>6, <1>7 DEF CloseSession
<1>8. ASSUME NEW c \in Caps, Reload(c) PROVE SlotInv'
  BY <1>6, <1>8 DEF Reload
<1>9. CASE Close \/ CloseAll \/ RunReturns \/ UNCHANGED vars
  BY <1>6, <1>9 DEF Close, CloseAll, RunReturns, vars
<1> QED
  BY <1>1, <1>2, <1>3, <1>4, <1>5, <1>7, <1>8, <1>9 DEF Next, Handler

\* The slot counter is zero of an empty table when the server starts.
LEMMA SlotInit == Init => SlotInv
<1> SUFFICES ASSUME Init PROVE SlotInv
  OBVIOUS
<1>1. Live = {}
  BY DEF Init, Live
<1> QED
  BY <1>1, FS_EmptySet, PairsAssumption DEF Init, SlotInv, NotBegun, SlotsExact, WithinPairs

\* dialogTable.sessions is always the number of records in the table: a slot
\* neither leaks nor is freed twice, whichever goroutine ends a call.
THEOREM SlotsNeverLeak == Spec => []SlotsExact
<1>1. SlotInv => SlotsExact
  BY DEF SlotInv
<1> QED BY <1>1, SlotInit, SlotStep, TypeCorrect, PTL DEF Spec

\* Whatever max_sessions is reloaded to, no more calls are admitted than the
\* boot rtp range can anchor (sessionLimit's clamp).
THEOREM CapNeverExceeded == Spec => []WithinPairs
<1>1. SlotInv => WithinPairs
  BY DEF SlotInv
<1> QED BY <1>1, SlotInit, SlotStep, TypeCorrect, PTL DEF Spec

----------------------------------------------------------------------------
(* Merged requests.                                                        *)

\* Only Begin makes a record early, and it checked every early record of its
\* key in the same critical section.
LEMMA EarlyStep == TypeOK /\ OneEarlyPerKey /\ [Next]_vars => OneEarlyPerKey'
<1> SUFFICES ASSUME TypeOK, OneEarlyPerKey, [Next]_vars PROVE OneEarlyPerKey'
  OBVIOUS
<1> USE DEF At, Goto, table, server
<1>1. ASSUME NEW i \in Invites, Begin(i) PROVE OneEarlyPerKey'
  <2>1. CASE state' = state
    BY <2>1 DEF OneEarlyPerKey
  <2>2. CASE ~Merged(i) /\ state' = [state EXCEPT ![i] = "Early"]
    BY <2>2 DEF Merged, OneEarlyPerKey, TypeOK
  <2> QED BY <1>1, <2>1, <2>2 DEF Begin
<1>2. ASSUME \A i \in Invites : state'[i] = "Early" => state[i] = "Early"
      PROVE  OneEarlyPerKey'
  BY <1>2 DEF OneEarlyPerKey
<1>3. ASSUME NEW i \in Invites, Handler(i), ~Begin(i) PROVE OneEarlyPerKey'
  <2>1. \A j \in Invites : state'[j] = "Early" => state[j] = "Early"
    BY <1>3 DEF Handler, ReadLimit, Rate, Open, Alloc, Attach, Confirm, EndUnlessUp, End, TypeOK
  <2> QED BY <1>2, <2>1
<1>4. ASSUME NEW i \in Invites, CallEnds(i) \/ CloseSession(i) \/ CloseAllEnd(i)
      PROVE  OneEarlyPerKey'
  <2>1. \A j \in Invites : state'[j] = "Early" => state[j] = "Early"
    BY <1>4 DEF CallEnds, CloseSession, CloseAllEnd, End, TypeOK
  <2> QED BY <1>2, <2>1
<1>5. ASSUME NEW c \in Caps, Reload(c) PROVE OneEarlyPerKey'
  BY <1>2, <1>5 DEF Reload
<1>6. CASE Close \/ CloseAll \/ RunReturns \/ UNCHANGED vars
  BY <1>2, <1>6 DEF Close, CloseAll, RunReturns, vars
<1> QED BY <1>1, <1>3, <1>4, <1>5, <1>6 DEF Next

\* Two INVITEs with one Call-ID and From tag are never both in progress,
\* however their handlers interleave (begin's merge check, RFC 3261 8.2.2.2).
THEOREM MergedRequestsRefused == Spec => []OneEarlyPerKey
<1>1. Init => OneEarlyPerKey
  BY DEF Init, OneEarlyPerKey
<1> QED BY <1>1, EarlyStep, TypeCorrect, PTL DEF Spec

----------------------------------------------------------------------------
(* Shutdown. close() bars new records before closeAll takes its snapshot,  *)
(* so the snapshot covers every record that is still live.                 *)

Admitted == {"rate", "open", "alloc", "attach", "ring", "return"}
BeforeMedia == {"new", "begin", "rate", "open", "alloc", "attach"}

ShutdownInv ==
    /\ run # "up" => closed
    /\ run = "ending" => Live \subseteq todo
    /\ run = "returned" => Live = {}
    /\ \A i \in Invites :
          /\ pc[i] \in Admitted => state[i] # "none"
          /\ pc[i] \in BeforeMedia => ~media[i]
          /\ (media[i] /\ sess[i] = "open") => i \in Live \/ closer[i] # "none"

\* No handler is admitted, or goes back before its media, in this step.
Forward ==
    \A j \in Invites :
        /\ pc'[j] \in Admitted => pc[j] \in Admitted
        /\ pc'[j] \in BeforeMedia => pc[j] \in BeforeMedia

\* Ending one record keeps what shutdown relies on about the others.
LEMMA EndShutdown ==
  ASSUME TypeOK, ShutdownInv, NEW i \in Invites, NEW who \in {"call", "run"}, End(i, who)
  PROVE  /\ Live' = Live \ {i}
         /\ \A j \in Invites : state[j] # "none" => state'[j] # "none"
         /\ \A j \in Invites :
               (j \in Live \/ closer[j] # "none") => j \in Live' \/ closer'[j] # "none"
BY DEF End, Live, TypeOK

\* A step that leaves records, media and shutdown alone, or only moves a
\* handler on, keeps the shutdown invariant.
LEMMA ShutdownFrame ==
  ASSUME TypeOK, ShutdownInv,
         UNCHANGED <<state, media, closer, closed, run, todo>>,
         Forward,
         \A j \in Invites : media[j] /\ sess'[j] = "open" => sess[j] = "open"
  PROVE  ShutdownInv'
BY DEF ShutdownInv, Live, TypeOK, Forward

\* Every step of DialogTable keeps the shutdown invariant.
LEMMA ShutdownStep == TypeOK /\ ShutdownInv /\ [Next]_vars => ShutdownInv'
<1> SUFFICES ASSUME TypeOK, ShutdownInv, [Next]_vars PROVE ShutdownInv'
  OBVIOUS
<1> USE DEF At, Goto, table, server, Admitted, BeforeMedia, Forward
<1>1. ASSUME NEW i \in Invites, ReadLimit(i) \/ Rate(i) \/ Open(i) PROVE ShutdownInv'
  <2>1. Forward
    BY <1>1 DEF ReadLimit, Rate, Open, TypeOK
  <2> QED BY <1>1, <2>1, ShutdownFrame DEF ReadLimit, Rate, Open
<1>2. ASSUME NEW i \in Invites, Begin(i) PROVE ShutdownInv'
  <2>1. CASE UNCHANGED <<state, sessions>> /\ Goto(i, "done")
    <3>1. Forward
      BY <2>1 DEF TypeOK
    <3> QED BY <1>2, <2>1, <3>1, ShutdownFrame DEF Begin
  <2>2. CASE /\ ~closed /\ state' = [state EXCEPT ![i] = "Early"] /\ Goto(i, "rate")
    <3>1. Live \subseteq Live'
      BY <2>2 DEF Live, TypeOK
    <3>2. run = "up" /\ run' = run
      BY <1>2, <2>2 DEF Begin, ShutdownInv, TypeOK
    <3> QED BY <1>2, <2>2, <3>1, <3>2 DEF Begin, ShutdownInv, TypeOK
  <2> QED BY <1>2, <2>1, <2>2 DEF Begin
<1>3. ASSUME NEW i \in Invites, Alloc(i) PROVE ShutdownInv'
  <2>1. \A j \in Invites : media[j] /\ sess'[j] = "open" => sess[j] = "open"
    BY <1>3 DEF Alloc, ShutdownInv, TypeOK
  <2>2. Forward
    BY <1>3 DEF Alloc, TypeOK
  <2> QED BY <1>3, <2>1, <2>2, ShutdownFrame DEF Alloc
<1>4. ASSUME NEW i \in Invites, Attach(i) PROVE ShutdownInv'
  <2>1. CASE closed \/ state[i] = "Ended"
    <3>1. Forward
      BY <1>4, <2>1 DEF Attach, TypeOK
    <3>2. \A j \in Invites : sess'[j] = "open" => sess[j] = "open"
      BY <1>4, <2>1 DEF Attach, TypeOK
    <3> QED BY <1>4, <2>1, <3>1, <3>2, ShutdownFrame DEF Attach
  <2>2. CASE ~(closed \/ state[i] = "Ended")
    <3>1. i \in Live /\ Live' = Live
      BY <1>4, <2>2 DEF Attach, Live, ShutdownInv, TypeOK
    <3> QED BY <1>4, <2>2, <3>1 DEF Attach, ShutdownInv, TypeOK
  <2> QED BY <2>1, <2>2
<1>5. ASSUME NEW i \in Invites, Confirm(i) PROVE ShutdownInv'
  <2>1. Live' = Live
    BY <1>5 DEF Confirm, Live, TypeOK
  <2> QED BY <1>5, <2>1 DEF Confirm, ShutdownInv, TypeOK
<1>6. ASSUME NEW i \in Invites, EndUnlessUp(i) PROVE ShutdownInv'
  <2>1. CASE End(i, "call")
    BY <1>6, <2>1, EndShutdown DEF EndUnlessUp, ShutdownInv, TypeOK
  <2>2. CASE UNCHANGED <<state, sessions, closer>>
    <3>1. Forward
      BY <1>6 DEF EndUnlessUp, TypeOK
    <3> QED BY <1>6, <2>2, <3>1, ShutdownFrame DEF EndUnlessUp
  <2> QED BY <1>6, <2>1, <2>2 DEF EndUnlessUp
<1>7. ASSUME NEW i \in Invites, CallEnds(i) PROVE ShutdownInv'
  BY <1>7, EndShutdown DEF CallEnds, ShutdownInv
<1>8. ASSUME NEW i \in Invites, CloseSession(i) PROVE ShutdownInv'
  <2>1. \A j \in Invites : (media'[j] /\ sess'[j] = "open") => media[j] /\ sess[j] = "open" /\ closer'[j] = closer[j]
    BY <1>8 DEF CloseSession, TypeOK
  <2> QED BY <1>8, <2>1 DEF CloseSession, ShutdownInv, Live
<1>9. ASSUME NEW i \in Invites, CloseAllEnd(i) PROVE ShutdownInv'
  <2>1. CASE End(i, "run")
    BY <1>9, <2>1, EndShutdown DEF CloseAllEnd, ShutdownInv
  <2>2. CASE i \notin Live /\ UNCHANGED <<state, sessions, closer>>
    BY <1>9, <2>2 DEF CloseAllEnd, ShutdownInv, Live
  <2> QED BY <1>9, <2>1, <2>2 DEF CloseAllEnd
<1>10. ASSUME NEW c \in Caps, Reload(c) PROVE ShutdownInv'
  BY <1>10, ShutdownFrame DEF Reload
<1>11. CASE Close \/ CloseAll \/ RunReturns
  <2>1. Live' = Live
    BY <1>11 DEF Close, CloseAll, RunReturns, Live
  <2> QED BY <1>11, <2>1 DEF Close, CloseAll, RunReturns, ShutdownInv
<1>12. CASE UNCHANGED vars
  BY <1>12, ShutdownFrame DEF vars
<1> QED
  BY <1>1, <1>2, <1>3, <1>4, <1>5, <1>6, <1>7, <1>8, <1>9, <1>10, <1>11, <1>12
     DEF Next, Handler

\* When Run returns the table is empty, and any session still open belongs to
\* a goroutine that has ended its call and is closing it (Run, closeAll).
THEOREM ShutdownLeavesNoCall == Spec => []ShutdownEndsAll
<1>1. Init => ShutdownInv
  BY DEF Init, ShutdownInv, Admitted, BeforeMedia
<1>2. SlotInv /\ ShutdownInv => ShutdownEndsAll
  BY FS_EmptySet DEF SlotInv, SlotsExact, ShutdownInv, ShutdownEndsAll
<1> QED
  BY <1>1, <1>2, SlotInit, SlotStep, ShutdownStep, TypeCorrect, PTL DEF Spec

----------------------------------------------------------------------------
(* Sockets a handler bound and has not handed over yet.                    *)

OwnedInv == \A i \in Invites : (sess[i] = "open" /\ ~media[i]) => At(i, "attach")

\* A step that leaves the media of every call alone keeps the invariant when
\* no handler leaves "attach".
LEMMA OwnedFrame ==
  ASSUME OwnedInv, UNCHANGED <<sess, media>>,
         \A j \in Invites : At(j, "attach") => At(j, "attach")'
  PROVE  OwnedInv'
BY DEF OwnedInv

\* Every step of DialogTable keeps the sockets owned.
LEMMA OwnedStep == TypeOK /\ ShutdownInv /\ OwnedInv /\ [Next]_vars => OwnedInv'
<1> SUFFICES ASSUME TypeOK, ShutdownInv, OwnedInv, [Next]_vars PROVE OwnedInv'
  OBVIOUS
<1> USE DEF At, Goto, table, server
<1>1. ASSUME NEW i \in Invites, Alloc(i) PROVE OwnedInv'
  BY <1>1 DEF Alloc, OwnedInv, TypeOK
<1>2. ASSUME NEW i \in Invites, Attach(i) PROVE OwnedInv'
  <2>1. ~(sess'[i] = "open" /\ ~media'[i])
    BY <1>2 DEF Attach, TypeOK
  <2>2. \A j \in Invites \ {i} : /\ sess'[j] = sess[j] /\ media'[j] = media[j]
                                /\ pc'[j] = pc[j]
    BY <1>2 DEF Attach, TypeOK
  <2> QED BY <2>1, <2>2 DEF OwnedInv
<1>3. ASSUME NEW i \in Invites, CloseSession(i) PROVE OwnedInv'
  BY <1>3 DEF CloseSession, OwnedInv, TypeOK
<1>4. ASSUME NEW i \in Invites,
             \/ ReadLimit(i) \/ Begin(i) \/ Rate(i) \/ Open(i) \/ Confirm(i)
             \/ EndUnlessUp(i) \/ CallEnds(i) \/ CloseAllEnd(i)
      PROVE  OwnedInv'
  BY <1>4, OwnedFrame
     DEF ReadLimit, Begin, Rate, Open, Confirm, EndUnlessUp, CallEnds, CloseAllEnd, TypeOK
<1>5. ASSUME NEW c \in Caps, Reload(c) PROVE OwnedInv'
  BY <1>5, OwnedFrame DEF Reload
<1>6. CASE Close \/ CloseAll \/ RunReturns \/ UNCHANGED vars
  BY <1>6, OwnedFrame DEF Close, CloseAll, RunReturns, vars
<1> QED BY <1>1, <1>2, <1>3, <1>4, <1>5, <1>6 DEF Next, Handler

\* Sockets bound for a call always have an owner that closes them, whenever
\* the call ended or shutdown began (open, attach, end).
THEOREM SocketsNeverOrphaned == Spec => []SocketsOwned
<1>1. Init => OwnedInv /\ ShutdownInv
  BY DEF Init, OwnedInv, ShutdownInv, Admitted, BeforeMedia
<1>2. TypeOK /\ ShutdownInv /\ OwnedInv => SocketsOwned
  <2> SUFFICES ASSUME TypeOK, ShutdownInv, OwnedInv,
                      NEW i \in Invites, sess[i] = "open", ~At(i, "attach")
               PROVE  media[i] /\ (i \in Live \/ closer[i] # "none")
    BY DEF SocketsOwned
  <2>1. media[i]
    BY DEF OwnedInv
  <2> QED BY <2>1 DEF ShutdownInv
<1> QED
  BY <1>1, <1>2, ShutdownStep, OwnedStep, TypeCorrect, PTL DEF Spec

\* begin admits exactly: whatever is reloaded, merged, ended or shut down, the
\* slots are the records and fit the range.
THEOREM AdmissionIsExact == Spec => []AdmissionExact
<1>1. TypeOK /\ SlotsExact /\ WithinPairs /\ OneEarlyPerKey => AdmissionExact
  BY DEF AdmissionExact
<1> QED
  BY <1>1, TypeCorrect, SlotsNeverLeak, CapNeverExceeded, MergedRequestsRefused, PTL

============================================================================
