----------------------------- MODULE Registrar -----------------------------
(***************************************************************************)
(* The location table (location.go) with everything that changes it: the   *)
(* REGISTER handlers (register.go, registerproof.go), stream connections   *)
(* that close (stream.go), expiry and pruning; and the subscription table  *)
(* (subscribe.go), which is charged to bindings and told of their removal  *)
(* by a hook that runs after the location lock is released. The registrar  *)
(* (a switch) and the devices are external.                                *)
(*                                                                         *)
(* A device stands for one (AoR, Call-ID) pair, the key of a binding; a    *)
(* token for the REGISTER that drew it.                                    *)
(***************************************************************************)
EXTENDS Naturals, FiniteSets

CONSTANTS
    Devices, Aor(_), Sources(_),  \* transport sources a device sends from, in turn
    Ip(_),                        \* the address of a source
    Streams,                      \* devices on a stream connection
    Requests, Dev(_), Kinds(_),   \* REGISTERs: the device, what each may ask
    Subs, SubDev(_),              \* SUBSCRIBEs of registered devices
    MaxBindings, MaxPerAOR, MaxSubs, MaxPerBinding

AllSources == UNION {Sources(d) : d \in Devices}
IPs == {Ip(s) : s \in AllSources}
Aors == {Aor(d) : d \in Devices}

RequestKinds == {"bind", "query", "unbind", "wildcard"}

ASSUME DeviceAssumption ==
    /\ IsFiniteSet(Devices)
    /\ \A d \in Devices : /\ IsFiniteSet(Sources(d)) /\ Sources(d) # {}
                          /\ "none" \notin Sources(d)
ASSUME RequestAssumption ==
    /\ IsFiniteSet(Requests) /\ "none" \notin Requests \cup Devices
    /\ \A r \in Requests : /\ Dev(r) \in Devices
                           /\ Kinds(r) \subseteq [kind : RequestKinds, auth : BOOLEAN]
ASSUME StreamAssumption == Streams \subseteq Devices
ASSUME SubAssumption == IsFiniteSet(Subs) /\ \A q \in Subs : SubDev(q) \in Devices
ASSUME BoundAssumption == {MaxBindings, MaxPerAOR, MaxSubs, MaxPerBinding} \subseteq Nat

VARIABLES
    at,        \* where each device sends from, "none" between two connections
    pc, req,   \* the REGISTER handlers and what each carries
    store,     \* the registrar: the token it holds for a device
    loc,       \* byAOR: the binding of a device, if any
    byToken, bySource, byIP,  \* the other three indexes
    removed,   \* Location.removed, tokens the hook has not been told of
    dropping,  \* batches of tokens taken by a flushRemoved that is about to call the hook
    proven,    \* addresses a credential for the AoR was accepted from
    sub, subToken, subPc, total  \* subTable and the SUBSCRIBE handlers

vars == <<at, pc, req, store, loc, byToken, bySource, byIP, removed, dropping,
          proven, sub, subToken, subPc, total>>
table == <<loc, byToken, bySource, byIP, removed>>
subs == <<sub, subToken, subPc, total>>

NoBinding == [token |-> "none", src |-> "none", live |-> FALSE]
Held(d) == loc[d] # NoBinding
Live(d) == Held(d) /\ loc[d].live

RequestStates == [kind : RequestKinds \cup {"none"}, auth : BOOLEAN,
                  src : AllSources \cup {"none"}, token : Requests \cup {"none"},
                  todo : SUBSET Devices]
Bindings == [token : Requests \cup {"none"}, src : AllSources \cup {"none"}, live : BOOLEAN]

TypeOK ==
    /\ at \in [Devices -> AllSources \cup {"none"}]
    /\ pc \in [Requests -> {"idle", "sent", "ok", "wildcard", "put", "done"}]
    /\ req \in [Requests -> RequestStates]
    /\ store \in [Devices -> Requests \cup {"none"}]
    /\ loc \in [Devices -> Bindings]
    /\ byToken \in [Requests -> Devices \cup {"none"}]
    /\ bySource \in [AllSources -> SUBSET Devices] /\ byIP \in [IPs -> Nat]
    /\ removed \subseteq Requests /\ dropping \subseteq SUBSET Requests
    /\ proven \in [Aors -> SUBSET IPs]
    /\ sub \in [Subs -> {"none", "pending", "active", "ended"}]
    /\ subToken \in [Subs -> Requests \cup {"none"}]
    /\ subPc \in [Subs -> {"idle", "begin", "recheck", "wait", "done"}]
    /\ total \in Nat

NoRequest == [kind |-> "none", auth |-> FALSE, src |-> "none", token |-> "none", todo |-> {}]

Init ==
    /\ at = [d \in Devices |-> CHOOSE s \in Sources(d) : TRUE]
    /\ pc = [r \in Requests |-> "idle"]
    /\ req = [r \in Requests |-> NoRequest]
    /\ store = [d \in Devices |-> "none"] /\ loc = [d \in Devices |-> NoBinding]
    /\ byToken = [t \in Requests |-> "none"] /\ bySource = [s \in AllSources |-> {}]
    /\ byIP = [i \in IPs |-> 0] /\ removed = {} /\ dropping = {}
    /\ proven = [a \in Aors |-> {}]
    /\ sub = [q \in Subs |-> "none"] /\ subToken = [q \in Subs |-> "none"]
    /\ subPc = [q \in Subs |-> "idle"] /\ total = 0

Goto(r, p) == pc' = [pc EXCEPT ![r] = p]

\* The handler returns and its locals go; where it sent from is remembered.
Return(r) == Goto(r, "done") /\ req' = [req EXCEPT ![r] = [NoRequest EXCEPT !.src = req[r].src]]


----------------------------------------------------------------------------
(* The location table's critical sections, over the set gone of devices    *)
(* whose bindings are deleted (deleteLocked) and the binding b put for d.  *)

\* unindexSourceLocked, once per binding deleted.
Uncounted(gone) == [i \in IPs |-> byIP[i] - Cardinality({e \in gone : Ip(loc[e].src) = i})]

DeleteLocked(gone) ==
    /\ loc' = [e \in Devices |-> IF e \in gone THEN NoBinding ELSE loc[e]]
    /\ byToken' = [t \in Requests |-> IF byToken[t] \in gone THEN "none" ELSE byToken[t]]
    /\ bySource' = [s \in AllSources |-> bySource[s] \ gone]
    /\ byIP' = Uncounted(gone)
    /\ removed' = removed \cup {loc[e].token : e \in gone}

\* pruneAORLocked.
Lapsed(a) == {e \in Devices : Aor(e) = a /\ Held(e) /\ ~loc[e].live}

\* Put: the AoR's lapsed bindings go first; the same (AoR, Call-ID) keeps its
\* token under the new source; a new one is held to both caps.
Put(d, src, token) ==
    LET gone == Lapsed(Aor(d))
        Room == /\ Cardinality({e \in Devices \ gone : Aor(e) = Aor(d) /\ Held(e)}) < MaxPerAOR
                /\ Cardinality({e \in Devices \ gone : Held(e)}) < MaxBindings
        Refreshed == Held(d) /\ d \notin gone
        kept == IF Refreshed THEN loc[d].token ELSE token
        freed == Uncounted(gone \cup IF Refreshed THEN {d} ELSE {})
    IN IF ~Refreshed /\ ~Room
       THEN DeleteLocked(gone)
       ELSE /\ loc' = [e \in Devices |-> IF e = d THEN [token |-> kept, src |-> src, live |-> TRUE]
                                         ELSE IF e \in gone THEN NoBinding ELSE loc[e]]
            /\ byToken' = [t \in Requests |-> IF t = kept THEN d
                                              ELSE IF byToken[t] \in gone THEN "none" ELSE byToken[t]]
            /\ bySource' = [s \in AllSources |-> (bySource[s] \ (gone \cup {d}))
                                                 \cup IF s = src THEN {d} ELSE {}]
            /\ byIP' = [freed EXCEPT ![Ip(src)] = @ + 1]
            /\ removed' = removed \cup {loc[e].token : e \in gone}

\* flushRemoved, deferred by every method that deletes: it takes what was
\* collected, by whomever, and calls the hook once the lock is released.
TakeRemoved ==
    /\ removed # {}
    /\ dropping' = dropping \cup {removed} /\ removed' = {}
    /\ UNCHANGED <<at, pc, req, store, loc, byToken, bySource, byIP, proven, subs>>

\* subTable.dropTokens, the hook.
DropTokens ==
    \E batch \in dropping :
       LET ending == {q \in Subs : sub[q] \in {"pending", "active"} /\ subToken[q] \in batch}
       IN /\ sub' = [q \in Subs |-> IF q \in ending THEN "ended" ELSE sub[q]]
          /\ total' = total - Cardinality(ending)
          /\ dropping' = dropping \ {batch}
          /\ UNCHANGED <<at, pc, req, store, table, proven, subToken, subPc>>

----------------------------------------------------------------------------
(* onRegister, pumpRegister and recordBinding.                             *)

ChooseNew(d, r) == r

\* existingToken, or a new one.
ChooseToken(d, r) == IF Live(d) THEN loc[d].token ELSE r

\* A device sends from where it is, one REGISTER at a time; a connection that
\* is lost ends the REGISTER the device had open on it, not the handler's.
Register(r) ==
    /\ pc[r] = "idle" /\ at[Dev(r)] # "none"
    /\ \A o \in Requests : Dev(o) = Dev(r) /\ (Dev(r) \in Streams => req[o].src = at[Dev(r)])
                              => pc[o] \in {"idle", "done"}
    /\ \E k \in Kinds(r) :
          req' = [req EXCEPT ![r] = [kind |-> k.kind, auth |-> k.auth, src |-> at[Dev(r)],
                                     token |-> ChooseToken(Dev(r), r), todo |-> {}]]
    /\ Goto(r, "sent")
    /\ UNCHANGED <<at, store, table, dropping, proven, subs>>

\* The registrar accepts (the 2xx reaches the handler, or is lost and the
\* series times out) or refuses. An AoR's wildcard clears every contact.
Stored(r) ==
    [d \in Devices |->
        CASE d = Dev(r) /\ req[r].kind = "bind" -> req[r].token
          [] d = Dev(r) /\ req[r].kind = "unbind" -> "none"
          [] Aor(d) = Aor(Dev(r)) /\ req[r].kind = "wildcard" -> "none"
          [] OTHER -> store[d]]

Decide(r) ==
    /\ pc[r] = "sent"
    /\ \/ store' = Stored(r) /\ Goto(r, "ok") /\ UNCHANGED req
       \/ store' \in {Stored(r), store} /\ Return(r)
    /\ UNCHANGED <<at, table, dropping, proven, subs>>

\* refreshesBinding: a live binding of the same AoR and Call-ID at the same
\* address; or a credential for the AoR.
Proof(r) == \/ req[r].auth
            \/ Live(Dev(r)) /\ Ip(loc[Dev(r)].src) = Ip(req[r].src)

RemoveBinding(r) ==
    /\ DeleteLocked({Dev(r)} \cap {d \in Devices : Held(d)})
    /\ Return(r) /\ UNCHANGED proven

RecordBinding(r) ==
    /\ pc[r] = "ok"
    /\ CASE req[r].kind = "wildcard" ->
              /\ req' = [req EXCEPT ![r].todo =
                           {d \in Devices : Aor(d) = Aor(Dev(r)) /\ Live(d)}]
              /\ Goto(r, "wildcard") /\ UNCHANGED <<table, proven>>
         [] req[r].kind = "query" ->
              Return(r) /\ UNCHANGED <<table, proven>>
         [] req[r].kind = "unbind" -> RemoveBinding(r)
         [] req[r].kind = "bind" ->
              \/ RemoveBinding(r)  \* granted no lifetime
              \/ /\ IF Proof(r) THEN Goto(r, "put") /\ UNCHANGED req ELSE Return(r)
                 /\ proven' = IF req[r].auth
                              THEN [proven EXCEPT ![Aor(Dev(r))] = @ \cup {Ip(req[r].src)}]
                              ELSE proven
                 /\ UNCHANGED table
    /\ UNCHANGED <<at, store, dropping, subs>>

\* A wildcard un-REGISTER removes the bindings it saw, one lock at a time.
RemoveOne(r) ==
    /\ pc[r] = "wildcard"
    /\ IF req[r].todo = {}
       THEN Return(r) /\ UNCHANGED table
       ELSE \E d \in req[r].todo :
              /\ DeleteLocked({d} \cap {e \in Devices : Held(e)})
              /\ req' = [req EXCEPT ![r].todo = @ \ {d}]
              /\ UNCHANGED pc
    /\ UNCHANGED <<at, store, dropping, proven, subs>>

PutBinding(r) ==
    /\ pc[r] = "put"
    /\ Put(Dev(r), req[r].src, req[r].token)
    /\ Return(r)
    /\ UNCHANGED <<at, store, dropping, proven, subs>>

----------------------------------------------------------------------------
(* Time, NAT and connections.                                              *)

Expire(d) ==
    /\ Live(d)
    /\ loc' = [loc EXCEPT ![d].live = FALSE]
    /\ UNCHANGED <<at, pc, req, store, byToken, bySource, byIP, removed, dropping, proven, subs>>

PruneNothing == FALSE /\ UNCHANGED vars

Prune ==
    /\ \E a \in Aors : Lapsed(a) # {}
    /\ DeleteLocked(UNION {Lapsed(a) : a \in Aors})
    /\ UNCHANGED <<at, pc, req, store, dropping, proven, subs>>

\* A source the device has not used yet: NAT mappings and connections are
\* not reused within the instance.
Fresh(d) == {s \in Sources(d) \ {at[d]} : \A r \in Requests : req[r].src # s}

\* A phone's NAT mapping moves: its next REGISTER comes from another source.
Remap(d) ==
    /\ d \notin Streams
    /\ \E r \in Requests : req[r].src = at[d]
    /\ \E s \in Fresh(d) : at' = [at EXCEPT ![d] = s]
    /\ UNCHANGED <<pc, req, store, table, dropping, proven, subs>>

\* streamConn.Close: the bindings made over the connection go. The device
\* comes back on another connection.
ConnClose(d) ==
    /\ d \in Streams /\ at[d] # "none"
    /\ at' = [at EXCEPT ![d] = "none"]
    /\ DeleteLocked(bySource[at[d]])
    /\ UNCHANGED <<pc, req, store, dropping, proven, subs>>

Reconnect(d) ==
    /\ at[d] = "none"
    /\ \E s \in Fresh(d) : at' = [at EXCEPT ![d] = s]
    /\ UNCHANGED <<pc, req, store, table, dropping, proven, subs>>

----------------------------------------------------------------------------
(* onSubscribe, beginSubscription, relaySubscribe and the record's end.    *)

SubGoto(q, p) == subPc' = [subPc EXCEPT ![q] = p]
Record(q) == sub[q] \in {"pending", "active"}

\* Admission reads the live binding at the source.
Subscribe(q) ==
    /\ subPc[q] = "idle" /\ Live(SubDev(q))
    /\ subToken' = [subToken EXCEPT ![q] = loc[SubDev(q)].token]
    /\ SubGoto(q, "begin")
    /\ UNCHANGED <<at, pc, req, store, table, dropping, proven, sub, total>>

BeginUncharged(q) ==
    /\ subPc[q] = "begin" /\ total < MaxSubs
    /\ sub' = [sub EXCEPT ![q] = "pending"] /\ total' = total + 1
    /\ SubGoto(q, "recheck")
    /\ UNCHANGED <<at, pc, req, store, table, dropping, proven, subToken>>

BeginSub(q) ==
    /\ subPc[q] = "begin"
    /\ IF total < MaxSubs
          /\ Cardinality({o \in Subs : Record(o) /\ subToken[o] = subToken[q]}) < MaxPerBinding
       THEN /\ sub' = [sub EXCEPT ![q] = "pending"] /\ total' = total + 1
            /\ SubGoto(q, "recheck")
       ELSE SubGoto(q, "done") /\ UNCHANGED <<sub, total>>
    /\ UNCHANGED <<at, pc, req, store, table, dropping, proven, subToken>>

\* end is idempotent.
EndSub(q) ==
    /\ sub' = [sub EXCEPT ![q] = IF Record(q) THEN "ended" ELSE @]
    /\ total' = IF Record(q) THEN total - 1 ELSE total

RecheckNot(q) ==
    /\ subPc[q] = "recheck"
    /\ SubGoto(q, "wait") /\ UNCHANGED <<sub, total>>
    /\ UNCHANGED <<at, pc, req, store, table, dropping, proven, subToken>>

\* The binding may have left between admission and begin.
Recheck(q) ==
    /\ subPc[q] = "recheck"
    /\ IF byToken[subToken[q]] # "none" /\ Live(byToken[subToken[q]])
       THEN SubGoto(q, "wait") /\ UNCHANGED <<sub, total>>
       ELSE SubGoto(q, "done") /\ EndSub(q)
    /\ UNCHANGED <<at, pc, req, store, table, dropping, proven, subToken>>

\* The 2xx confirms a record that has not ended; anything else ends it.
Confirm(q) ==
    /\ subPc[q] = "wait" /\ SubGoto(q, "done")
    /\ \/ sub' = [sub EXCEPT ![q] = IF Record(q) THEN "active" ELSE @] /\ UNCHANGED total
       \/ EndSub(q)
    /\ UNCHANGED <<at, pc, req, store, table, dropping, proven, subToken>>

\* A terminated NOTIFY (it may beat the 2xx), a 481 or the deadline.
SubOver(q) ==
    /\ Record(q) /\ EndSub(q)
    /\ UNCHANGED <<at, pc, req, store, table, dropping, proven, subToken, subPc>>

----------------------------------------------------------------------------
Handle(r) ==
    Decide(r) \/ RecordBinding(r) \/ RemoveOne(r) \/ PutBinding(r)
Hook == TakeRemoved \/ DropTokens
SubHandle(q) == BeginSub(q) \/ Recheck(q) \/ Confirm(q)

Next ==
    \/ \E r \in Requests : Register(r) \/ Handle(r)
    \/ \E d \in Devices : Expire(d) \/ Remap(d) \/ ConnClose(d) \/ Reconnect(d)
    \/ Prune
    \/ Hook
    \/ \E q \in Subs : Subscribe(q) \/ SubHandle(q) \/ SubOver(q)

\* Handlers and hooks run, granted lifetimes pass and the sweeper runs.
Fairness ==
    /\ WF_vars(\E r \in Requests : Handle(r))
    /\ WF_vars(\E d \in Devices : Expire(d))
    /\ WF_vars(Prune)

Spec == Init /\ [][Next]_vars /\ Fairness

----------------------------------------------------------------------------
(* Properties.                                                             *)

\* The four indexes of the location table and the subscription count tell
\* one story whatever interleaving of refresh, removal, expiry and hook made
\* it: deleteLocked, indexSourceLocked/unindexSourceLocked, endLocked.
TablesExact ==
    /\ \A t \in Requests : byToken[t] = IF \E d \in Devices : loc[d].token = t
                                         THEN CHOOSE d \in Devices : loc[d].token = t ELSE "none"
    /\ \A s \in AllSources : bySource[s] = {d \in Devices : loc[d].src = s}
    /\ \A i \in IPs : byIP[i] = Cardinality({d \in Devices : Held(d) /\ Ip(loc[d].src) = i})
    /\ total = Cardinality({q \in Subs : Record(q)})

Quiet(d) == \A r \in Requests : Dev(r) = d => pc[r] \in {"idle", "done"}
Resolves(d) == Live(d) /\ store[d] # "none" /\ Quiet(d) => loc[d].token = store[d]

\* The contact the registrar stored for a phone carries the token of the
\* phone's live binding, so its inbound calls resolve: the token is chosen
\* before the registrar answers and the binding may lapse, be removed by a
\* wildcard or be refreshed in between (onRegister, Location.Put).
TokensResolve == \A d \in Devices \ Streams : Resolves(d)

\* The same of a phone on a stream connection, which may reconnect and
\* register while the handler of its lost connection still waits.
StreamTokensResolve == \A d \in Streams : Resolves(d)

\* A binding, which admits INVITEs, is only ever at an address from which a
\* credential for its AoR was accepted, however many credential-less
\* refreshes and moves came since (bindingProof, refreshesBinding).
BindingsProven == \A d \in Devices : Held(d) => Ip(loc[d].src) \in proven[Aor(d)]

\* No subscription outlives its registration: a record whose handler is past
\* the second look at the binding is charged to one in the table, or to one
\* whose removal is on its way to dropTokens (beginSubscription).
NoOrphanSubscriptions ==
    \A q \in Subs : Record(q) /\ subPc[q] \in {"wait", "done"} =>
        \/ byToken[subToken[q]] # "none"
        \/ subToken[q] \in removed \cup UNION dropping

\* The location and the subscription tables agree with their indexes and with
\* each other.
TablesAgree == TypeOK /\ TablesExact /\ NoOrphanSubscriptions

\* A binding can be called and was earned: the registrar's contact resolves to
\* it, and a credential was accepted from where it is.
BindingsHonest == TokensResolve /\ BindingsProven

\* A binding made over a connection that has closed does not stay: it goes
\* with the close, or, put back by a late 2xx, when its lifetime ends.
BindingsReclaimed ==
    \A d \in Streams : \A s \in Sources(d) :
        (\E r \in Requests : req[r].src = s) /\ at[d] # s
            ~> \A e \in Devices : loc[e].src # s

\* Subscriptions are admitted and end as the abstract pool says.
SubPool == INSTANCE AdmissionPool WITH
    Ids <- Subs, Groups <- Requests, Max <- MaxSubs, MaxPerGroup <- MaxPerBinding,
    held <- {<<q, subToken[q]>> : q \in {o \in Subs : Record(o)}},
    left <- {q \in Subs : sub[q] = "ended"}

\* The subscription table implements the abstract pool: at the insertion both
\* caps hold, the table's and that of the binding charged, and a record that
\* has ended, by a NOTIFY that beat the 2xx, by the hook or by the sweep, never
\* comes back (begin, confirm, end).
SubsArePooled == SubPool!Spec
=============================================================================
