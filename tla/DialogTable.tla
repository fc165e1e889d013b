---------------------------- MODULE DialogTable ----------------------------
(***************************************************************************)
(* The table of calls (internal/edge/dialog.go: dialogTable) shared by all *)
(* INVITE handlers: admission by beginDialog (invite.go), the session cap, *)
(* merged requests, the media session a record owns, and shutdown          *)
(* (edge.go: Run). Modules CallSetup and CallTeardown look inside a call;  *)
(* here a call is only admitted, given media, confirmed and ended.         *)
(***************************************************************************)
EXTENDS Integers, FiniteSets

CONSTANTS
    Invites,    \* the out-of-dialog INVITEs that arrive, one record each
    Keys,       \* Call-ID and From tag of an INVITE
    Key,        \* the key of every INVITE
    Pairs,      \* calls the boot rtp range can anchor
    Caps        \* values shield.max_sessions takes across reloads

ASSUME InvitesAssumption == IsFiniteSet(Invites)
ASSUME KeyAssumption == Key \in [Invites -> Keys]
ASSUME PairsAssumption == Pairs \in Nat \ {0}
ASSUME CapsAssumption == Caps \subseteq Int /\ Caps # {}

VARIABLES
    pc,       \* program point of each INVITE's handler
    state,    \* state of each record
    lim,      \* session cap the handler read from its config snapshot
    sess,     \* sockets of the media session allocated for the INVITE
    media,    \* the record owns that session (dialog.media)
    closer,   \* who won end() and still has to close the session
    sessions, \* dialogTable.sessions
    closed,   \* dialogTable.closed
    cap,      \* shield.max_sessions of the current snapshot
    run,      \* where Server.Run is
    todo      \* closeAll's snapshot of the records still to end

vars == <<pc, state, lim, sess, media, closer, sessions, closed, cap, run, todo>>
table == <<sessions, closed>>
server == <<cap, run, todo>>

Live == {i \in Invites : state[i] \in {"Early", "Confirmed"}}

TypeOK ==
    /\ pc \in [Invites -> {"new", "begin", "rate", "open", "alloc", "attach",
                           "ring", "return", "done"}]
    /\ state \in [Invites -> {"none", "Early", "Confirmed", "Ended"}]
    /\ lim \in [Invites -> 0..Pairs]
    /\ sess \in [Invites -> {"none", "open", "closed"}]
    /\ media \in [Invites -> BOOLEAN]
    /\ closer \in [Invites -> {"none", "call", "run"}]
    /\ sessions \in Int
    /\ closed \in BOOLEAN
    /\ cap \in Caps
    /\ run \in {"up", "listeners", "ending", "returned"}
    /\ todo \subseteq Invites

Init ==
    /\ pc = [i \in Invites |-> "new"]
    /\ state = [i \in Invites |-> "none"]
    /\ lim = [i \in Invites |-> 0]
    /\ sess = [i \in Invites |-> "none"]
    /\ media = [i \in Invites |-> FALSE]
    /\ closer = [i \in Invites |-> "none"]
    /\ sessions = 0
    /\ closed = FALSE
    /\ cap \in Caps
    /\ run = "up"
    /\ todo = {}

At(i, p) == pc[i] = p
Goto(i, p) == pc' = [pc EXCEPT ![i] = p]

----------------------------------------------------------------------------
(* beginDialog: drain, the cap, the merge check and the rate limit.        *)

\* sessionLimit: the configured cap, clamped to what rtp can anchor.
SessionLimit(c) == IF c <= 0 \/ c > Pairs THEN Pairs ELSE c

\* The handler reads one config snapshot, or is refused: draining.
ReadLimit(i) ==
    /\ At(i, "new")
    /\ \/ Goto(i, "begin") /\ lim' = [lim EXCEPT ![i] = SessionLimit(cap)]
       \/ Goto(i, "done") /\ UNCHANGED lim
    /\ UNCHANGED <<state, sess, media, closer, table, server>>

Merged(i) == \E j \in Invites : state[j] = "Early" /\ Key[j] = Key[i]
Full(i) == lim[i] > 0 /\ sessions >= lim[i]

BeginAfterClose(i) ==
    /\ At(i, "begin")
    /\ IF Merged(i) \/ Full(i)
       THEN Goto(i, "done") /\ UNCHANGED <<state, sessions>>
       ELSE /\ state' = [state EXCEPT ![i] = "Early"]
            /\ sessions' = sessions + 1
            /\ Goto(i, "rate")
    /\ UNCHANGED <<lim, sess, media, closer, closed, server>>

\* dialogTable.begin, one critical section.
Begin(i) ==
    /\ At(i, "begin")
    /\ IF closed \/ Merged(i) \/ Full(i)
       THEN Goto(i, "done") /\ UNCHANGED <<state, sessions>>
       ELSE /\ state' = [state EXCEPT ![i] = "Early"]
            /\ sessions' = sessions + 1
            /\ Goto(i, "rate")
    /\ UNCHANGED <<lim, sess, media, closer, closed, server>>

\* The rate limiter runs after the slot is taken; a refusal ends the record.
Rate(i) ==
    /\ At(i, "rate")
    /\ \E p \in {"open", "return"} : Goto(i, p)
    /\ UNCHANGED <<state, lim, sess, media, closer, table, server>>

----------------------------------------------------------------------------
(* The media of a call: open, allocate, attach.                            *)

Open(i) ==
    /\ At(i, "open")
    /\ Goto(i, IF closed \/ state[i] = "Ended" THEN "return" ELSE "alloc")
    /\ UNCHANGED <<state, lim, sess, media, closer, table, server>>

Alloc(i) ==
    /\ At(i, "alloc")
    /\ \/ Goto(i, "return") /\ UNCHANGED sess
       \/ Goto(i, "attach") /\ sess' = [sess EXCEPT ![i] = "open"]
    /\ UNCHANGED <<state, lim, media, closer, table, server>>

AttachAnyway(i) ==
    /\ At(i, "attach")
    /\ media' = [media EXCEPT ![i] = TRUE]
    /\ Goto(i, "ring")
    /\ UNCHANGED <<state, lim, sess, closer, table, server>>

Attach(i) ==
    /\ At(i, "attach")
    /\ IF closed \/ state[i] = "Ended"
       THEN /\ sess' = [sess EXCEPT ![i] = "closed"]
            /\ Goto(i, "return")
            /\ UNCHANGED media
       ELSE /\ media' = [media EXCEPT ![i] = TRUE]
            /\ Goto(i, "ring")
            /\ UNCHANGED sess
    /\ UNCHANGED <<state, lim, closer, table, server>>

\* The callee answered or the call was given up; either way the handler
\* returns through endUnlessUp.
Confirm(i) ==
    /\ At(i, "ring")
    /\ \/ state[i] = "Early" /\ media[i] /\ state' = [state EXCEPT ![i] = "Confirmed"]
       \/ UNCHANGED state
    /\ Goto(i, "return")
    /\ UNCHANGED <<lim, sess, media, closer, table, server>>

----------------------------------------------------------------------------
(* dialog.end, from any of its callers: the critical section, then Close.  *)

EndForgetsSlot(i, who) ==
    /\ i \in Live
    /\ state' = [state EXCEPT ![i] = "Ended"]
    /\ sessions' = IF state[i] = "Confirmed" THEN sessions - 1 ELSE sessions
    /\ closer' = [closer EXCEPT ![i] = who]

End(i, who) ==
    /\ i \in Live
    /\ state' = [state EXCEPT ![i] = "Ended"]
    /\ sessions' = sessions - 1
    /\ closer' = [closer EXCEPT ![i] = who]

\* Every INVITE path's deferred endUnlessUp.
EndUnlessUp(i) ==
    /\ At(i, "return")
    /\ Goto(i, "done")
    /\ IF state[i] = "Early" THEN End(i, "call") ELSE UNCHANGED <<state, sessions, closer>>
    /\ UNCHANGED <<lim, sess, media, closed, server>>

\* A BYE, the media watcher, a timer or a refused re-INVITE.
CallEnds(i) ==
    /\ state[i] = "Confirmed"
    /\ End(i, "call")
    /\ UNCHANGED <<pc, lim, sess, media, closed, server>>

CloseSession(i) ==
    /\ closer[i] # "none"
    /\ sess' = IF media[i] THEN [sess EXCEPT ![i] = "closed"] ELSE sess
    /\ closer' = [closer EXCEPT ![i] = "none"]
    /\ UNCHANGED <<pc, state, lim, media, table, server>>

----------------------------------------------------------------------------
(* A config reload, and Run's shutdown.                                    *)

Reload(c) ==
    /\ c # cap
    /\ cap' = c
    /\ UNCHANGED <<pc, state, lim, sess, media, closer, table, run, todo>>

Close ==
    /\ run = "up"
    /\ closed' = TRUE
    /\ run' = "listeners"
    /\ UNCHANGED <<pc, state, lim, sess, media, closer, sessions, cap, todo>>

CloseAll ==
    /\ run = "listeners"
    /\ todo' = Live
    /\ run' = "ending"
    /\ UNCHANGED <<pc, state, lim, sess, media, closer, table, cap>>

\* closeAll ends them one by one, each end() closing its session itself.
CloseAllEnd(i) ==
    /\ run = "ending" /\ i \in todo /\ \A j \in Invites : closer[j] # "run"
    /\ todo' = todo \ {i}
    /\ IF i \in Live THEN End(i, "run") ELSE UNCHANGED <<state, sessions, closer>>
    /\ UNCHANGED <<pc, lim, sess, media, closed, cap, run>>

RunReturns ==
    /\ run = "ending" /\ todo = {} /\ \A j \in Invites : closer[j] # "run"
    /\ run' = "returned"
    /\ UNCHANGED <<pc, state, lim, sess, media, closer, table, cap, todo>>

----------------------------------------------------------------------------
Handler(i) ==
    \/ ReadLimit(i) \/ Begin(i) \/ Rate(i) \/ Open(i) \/ Alloc(i) \/ Attach(i)
    \/ Confirm(i) \/ EndUnlessUp(i)

Next ==
    \/ \E i \in Invites : Handler(i) \/ CallEnds(i) \/ CloseSession(i) \/ CloseAllEnd(i)
    \/ \E c \in Caps : Reload(c)
    \/ Close \/ CloseAll \/ RunReturns

Spec == Init /\ [][Next]_vars

----------------------------------------------------------------------------
\* The slot counter is exactly the records in the table, whatever path a
\* record leaves by: "it cannot leak" (dialogTable.sessions).
SlotsExact == sessions = Cardinality(Live)

\* Reloads of max_sessions included, no more calls hold a slot than the boot
\* rtp range can anchor (sessionLimit's clamp against a stale snapshot).
WithinPairs == sessions <= Pairs

\* An INVITE that repeats one still in progress opens no second early record
\* (RFC 3261 8.2.2.2, beginMerged).
OneEarlyPerKey ==
    \A i, j \in Invites :
        (state[i] = "Early" /\ state[j] = "Early" /\ Key[i] = Key[j]) => i = j

\* Admission is exact: the slots are the records, at most as many as the range
\* anchors, and no INVITE in progress has two.
AdmissionExact == TypeOK /\ SlotsExact /\ WithinPairs /\ OneEarlyPerKey

\* When Run has returned no record is left, and a record's session is only
\* still open while the goroutine that ended it is closing it.
ShutdownEndsAll ==
    run = "returned" =>
        /\ sessions = 0
        /\ \A i \in Invites : (media[i] /\ sess[i] = "open") => closer[i] # "none"

\* Sockets are never orphaned: whoever bound them still has to attach them,
\* the record that owns them is in the table, or the goroutine that ended it
\* has their close ahead (attach's refusal, end's Close).
SocketsOwned ==
    \A i \in Invites :
        sess[i] = "open" =>
            \/ At(i, "attach")
            \/ media[i] /\ (i \in Live \/ closer[i] # "none")

============================================================================
