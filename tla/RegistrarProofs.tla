-------------------------- MODULE RegistrarProofs --------------------------
(***************************************************************************)
(* The safety of Registrar for every set of devices, REGISTERs and         *)
(* SUBSCRIBEs and every cap: the tables agree with their indexes, tokens   *)
(* resolve, bindings are earned and no subscription outlives its binding.  *)
(***************************************************************************)
EXTENDS Registrar, FiniteSetTheorems, TLAPS

(* The inductive invariant, part by part. *)

AtIp(i) == {d \in Devices : Held(d) /\ Ip(loc[d].src) = i}

\* The location table by itself. A token names the REGISTER that drew it, so
\* it can only ever be its own device's.
TableInv ==
    /\ loc \in [Devices -> Bindings]
    /\ \A d \in Devices : Held(d) =>
          loc[d].token \in Requests /\ Dev(loc[d].token) = d /\ loc[d].src \in AllSources
    /\ byToken \in [Requests -> Devices \cup {"none"}]
    /\ \A t \in Requests : byToken[t] = IF loc[Dev(t)].token = t THEN Dev(t) ELSE "none"
    /\ bySource \in [AllSources -> SUBSET Devices]
    /\ \A s \in AllSources : bySource[s] = {d \in Devices : loc[d].src = s}
    /\ byIP \in [IPs -> Nat]
    /\ \A i \in IPs : byIP[i] = Cardinality(AtIp(i))
    /\ removed \subseteq Requests

Open == {"sent", "ok", "wildcard", "put"}

\* The REGISTER handlers: the token an open one carries is its device's.
RequestInv ==
    /\ at \in [Devices -> AllSources \cup {"none"}]
    /\ pc \in [Requests -> {"idle", "sent", "ok", "wildcard", "put", "done"}]
    /\ req \in [Requests -> RequestStates]
    /\ store \in [Devices -> Requests \cup {"none"}]
    /\ dropping \subseteq SUBSET Requests
    /\ proven \in [Aors -> SUBSET IPs]
    /\ \A r \in Requests : pc[r] \in Open =>
          /\ req[r].kind \in RequestKinds /\ req[r].src \in AllSources
          /\ req[r].token \in Requests /\ Dev(req[r].token) = Dev(r)
    /\ \A r \in Requests : pc[r] = "put" => req[r].kind = "bind"

\* The subscription table: a handler that has not begun holds no record.
SubInv ==
    /\ sub \in [Subs -> {"none", "pending", "active", "ended"}]
    /\ subToken \in [Subs -> Requests \cup {"none"}]
    /\ subPc \in [Subs -> {"idle", "begin", "recheck", "wait", "done"}]
    /\ total = Cardinality({q \in Subs : Record(q)})
    /\ \A q \in Subs : /\ subPc[q] \in {"idle", "begin"} => sub[q] = "none"
                       /\ subPc[q] # "idle" => subToken[q] \in Requests

\* Bindings are earned, also the one about to be put.
EarnedInv ==
    /\ BindingsProven
    /\ \A r \in Requests : pc[r] = "put" => Ip(req[r].src) \in proven[Aor(Dev(r))]

\* A phone off a stream has one REGISTER open; the token it carries is the
\* live binding's, and the registrar holds that one or none while the binding
\* is being put.
ResolveInv ==
    /\ \A r, o \in Requests : pc[r] \in Open /\ pc[o] \in Open /\ Dev(r) = Dev(o)
                                /\ Dev(r) \notin Streams => r = o
    /\ \A d \in Devices \ Streams : Live(d) /\ store[d] # "none" => loc[d].token = store[d]
    /\ \A r \in Requests : Dev(r) \notin Streams =>
          /\ pc[r] \in Open /\ Live(Dev(r)) => loc[Dev(r)].token = req[r].token
          /\ pc[r] \in {"ok", "put"} /\ req[r].kind = "bind" =>
                store[Dev(r)] \in {req[r].token, "none"}

IInv == TableInv /\ RequestInv /\ SubInv /\ NoOrphanSubscriptions /\ EarnedInv /\ ResolveInv

----------------------------------------------------------------------------
(* The location table's critical sections. *)

\* What no source and no token is.
LEMMA NoneIsNone ==
    /\ "none" \notin AllSources /\ "none" \notin Requests /\ "none" \notin Devices
    /\ \A s \in AllSources : Ip(s) \in IPs
    /\ \A d \in Devices : Aor(d) \in Aors /\ Sources(d) \subseteq AllSources
    /\ \A r \in Requests : Dev(r) \in Devices
<1>1. "none" \notin AllSources
  BY DeviceAssumption DEF AllSources
<1>2. \A d \in Devices : Aor(d) \in Aors /\ Sources(d) \subseteq AllSources
  BY DEF Aors, AllSources
<1> QED
  BY <1>1, <1>2, RequestAssumption DEF IPs

\* A device without a binding has neither token nor source.
LEMMA HeldFields ==
    ASSUME TableInv, NEW d \in Devices
    PROVE  /\ Held(d) <=> loc[d].token # "none"
           /\ Held(d) <=> loc[d].src # "none"
BY NoneIsNone DEF TableInv, Held, NoBinding

\* Finitely many bindings.
LEMMA AtIpFinite == \A i : IsFiniteSet(AtIp(i)) /\ Cardinality(AtIp(i)) \in Nat
BY DeviceAssumption, FS_Subset, FS_CardinalityType DEF AtIp

\* Counting out the bindings deleted: Uncounted is exact for those that stay.
LEMMA UncountedExact ==
    ASSUME TableInv, NEW gone \in SUBSET {d \in Devices : Held(d)}, NEW i \in IPs
    PROVE  Uncounted(gone)[i] = Cardinality(AtIp(i) \ gone)
<1> DEFINE G == {e \in gone : Ip(loc[e].src) = i}
<1>1. AtIp(i) \cap gone = G
  BY DEF AtIp
<1>2. Cardinality(AtIp(i) \ gone) = Cardinality(AtIp(i)) - Cardinality(G)
  BY <1>1, AtIpFinite, FS_Difference
<1>3. Uncounted(gone)[i] = byIP[i] - Cardinality(G)
  BY DEF Uncounted
<1> QED
  BY <1>2, <1>3 DEF TableInv

\* What a step of the table leaves of the bindings it does not put.
Spares(d) == loc'[d] \in {loc[d], NoBinding}

\* A token leaves byToken only by way of removed.
TokensFollowed ==
    /\ removed \subseteq removed'
    /\ \A t \in Requests : byToken[t] # "none" => byToken'[t] # "none" \/ t \in removed'

\* deleteLocked keeps the indexes exact.
LEMMA DeleteTable ==
    ASSUME TableInv, NEW gone \in SUBSET {d \in Devices : Held(d)}, DeleteLocked(gone)
    PROVE  TableInv' /\ TokensFollowed /\ \A d \in Devices : Spares(d)
<1> USE NoneIsNone
<1>1. \A e \in Devices : loc'[e] = IF e \in gone THEN NoBinding ELSE loc[e]
  BY DEF DeleteLocked
<1>2. loc' \in [Devices -> Bindings]
  <2>1. NoBinding \in Bindings
    BY DEF NoBinding, Bindings
  <2> QED BY <2>1 DEF DeleteLocked, TableInv
<1>3. \A e \in Devices : Held(e)' <=> Held(e) /\ e \notin gone
  BY <1>1 DEF Held
<1>4. \A e \in Devices : Held(e)' =>
          loc'[e].token \in Requests /\ Dev(loc'[e].token) = e /\ loc'[e].src \in AllSources
  BY <1>1, <1>3 DEF TableInv
<1>5. NoBinding.token = "none" /\ NoBinding.src = "none"
  BY DEF NoBinding
<1>6. \A t \in Requests : byToken'[t] = IF byToken[t] \in gone THEN "none" ELSE byToken[t]
  BY DEF DeleteLocked
<1>7. \A t \in Requests : byToken'[t] = IF loc'[Dev(t)].token = t THEN Dev(t) ELSE "none"
  BY <1>1, <1>5, <1>6 DEF TableInv
<1>8. \A s \in AllSources : bySource'[s] = {d \in Devices : loc'[d].src = s}
  <2> TAKE s \in AllSources
  <2>1. bySource'[s] = {d \in Devices : loc[d].src = s} \ gone
    BY DEF DeleteLocked, TableInv
  <2>2. \A d \in Devices : loc'[d].src = s <=> loc[d].src = s /\ d \notin gone
    BY <1>1, <1>5
  <2> QED BY <2>1, <2>2
<1>9. \A i \in IPs : AtIp(i)' = AtIp(i) \ gone
  BY <1>1, <1>3 DEF AtIp
<1>10. \A i \in IPs : byIP'[i] = Cardinality(AtIp(i)')
  BY <1>9, UncountedExact DEF DeleteLocked
<1>11. \A i \in IPs : Cardinality(AtIp(i)') \in Nat
  BY <1>9, AtIpFinite, FS_Difference, FS_CardinalityType
<1>12. byIP' \in [IPs -> Nat]
  BY <1>10, <1>11 DEF DeleteLocked, Uncounted
<1>13. byToken' \in [Requests -> Devices \cup {"none"}] /\ bySource' \in [AllSources -> SUBSET Devices]
  BY DEF DeleteLocked, TableInv
<1>14. removed' \subseteq Requests
  BY DEF DeleteLocked, TableInv
<1>15. TableInv'
  BY <1>2, <1>4, <1>7, <1>8, <1>10, <1>12, <1>13, <1>14 DEF TableInv
<1>16. ASSUME NEW t \in Requests, byToken[t] # "none", byToken'[t] = "none" PROVE t \in removed'
  <2>1. byToken[t] \in gone /\ loc[byToken[t]].token = t
    BY <1>6, <1>16 DEF TableInv
  <2> QED BY <2>1 DEF DeleteLocked
<1> QED
  BY <1>1, <1>15, <1>16 DEF DeleteLocked, TokensFollowed, Spares

\* Put keeps the indexes exact: the AoR's lapsed bindings go, and the device's
\* binding is at its new source under the token of the live one, or is refused.
LEMMA PutTable ==
    ASSUME TableInv, NEW d \in Devices, NEW src \in AllSources, NEW token \in Requests,
           Dev(token) = d, Put(d, src, token)
    PROVE  /\ TableInv' /\ TokensFollowed
           /\ \A e \in Devices \ {d} : Spares(e)
           /\ \/ Spares(d)
              \/ loc'[d] = [token |-> IF Live(d) THEN loc[d].token ELSE token, src |-> src, live |-> TRUE]
<1> USE NoneIsNone
<1> DEFINE gone == Lapsed(Aor(d))
           Refreshed == Held(d) /\ d \notin gone
           Room == /\ Cardinality({e \in Devices \ gone : Aor(e) = Aor(d) /\ Held(e)}) < MaxPerAOR
                   /\ Cardinality({e \in Devices \ gone : Held(e)}) < MaxBindings
           kept == IF Refreshed THEN loc[d].token ELSE token
           G == gone \cup IF Refreshed THEN {d} ELSE {}
           new == [token |-> kept, src |-> src, live |-> TRUE]
<1>1. gone \in SUBSET {e \in Devices : Held(e)} /\ G \in SUBSET {e \in Devices : Held(e)}
  BY DEF Lapsed
<1>2. Refreshed <=> Live(d)
  <2>1. Held(d) => (d \in gone <=> ~loc[d].live)
    BY DEF Lapsed
  <2> QED BY <2>1 DEF Live
<1>3. CASE ~Refreshed /\ ~Room
  <2>1. DeleteLocked(gone)
    BY <1>3 DEF Put
  <2> QED BY <1>1, <2>1, DeleteTable
<1>4. CASE Refreshed \/ Room
  <2>1. /\ loc' = [e \in Devices |-> IF e = d THEN new ELSE IF e \in gone THEN NoBinding ELSE loc[e]]
        /\ byToken' = [t \in Requests |-> IF t = kept THEN d
                                          ELSE IF byToken[t] \in gone THEN "none" ELSE byToken[t]]
        /\ bySource' = [s \in AllSources |-> (bySource[s] \ (gone \cup {d}))
                                             \cup IF s = src THEN {d} ELSE {}]
        /\ byIP' = [Uncounted(G) EXCEPT ![Ip(src)] = @ + 1]
        /\ removed' = removed \cup {loc[e].token : e \in gone}
    BY <1>4 DEF Put
  <2>2. kept \in Requests /\ Dev(kept) = d
    BY DEF TableInv
  <2> HIDE DEF kept, gone, G, Refreshed
  <2>3. /\ new.token = kept /\ new.src = src /\ new # NoBinding
        /\ NoBinding.token = "none" /\ NoBinding.src = "none"
        /\ new \in Bindings /\ NoBinding \in Bindings
    BY <2>2 DEF NoBinding, Bindings
  <2> HIDE DEF new
  <2>4. \A e \in Devices : loc'[e] = IF e = d THEN new ELSE IF e \in gone THEN NoBinding ELSE loc[e]
    BY <2>1
  <2>5. \A e \in Devices : Held(e)' <=> e = d \/ (Held(e) /\ e \notin gone)
    BY <2>3, <2>4 DEF Held
  <2>6. \A e \in Devices : Held(e)' =>
          loc'[e].token \in Requests /\ Dev(loc'[e].token) = e /\ loc'[e].src \in AllSources
    BY <2>2, <2>3, <2>4, <2>5 DEF TableInv
  <2>7. \A t \in Requests : byToken'[t] = IF loc'[Dev(t)].token = t THEN Dev(t) ELSE "none"
    <3> TAKE t \in Requests
    <3>1. CASE t = kept
      BY <2>1, <2>2, <2>3, <2>4, <3>1
    <3>2. CASE t # kept /\ Dev(t) = d
      <4>1. loc[d].token = t => d \in gone
        BY <3>2, HeldFields DEF kept, Refreshed
      <4> QED BY <2>1, <2>3, <2>4, <3>2, <4>1 DEF TableInv
    <3>3. CASE Dev(t) # d
      BY <2>1, <2>2, <2>3, <2>4, <3>3 DEF TableInv
    <3> QED BY <3>1, <3>2, <3>3
  <2>8. \A s \in AllSources : bySource'[s] = {e \in Devices : loc'[e].src = s}
    <3> TAKE s \in AllSources
    <3>1. bySource'[s] = ({e \in Devices : loc[e].src = s} \ (gone \cup {d}))
                            \cup IF s = src THEN {d} ELSE {}
      BY <2>1 DEF TableInv
    <3>2. \A e \in Devices : loc'[e].src = s <=>
             \/ loc[e].src = s /\ e \notin gone \cup {d}
             \/ s = src /\ e = d
      BY <2>3, <2>4
    <3> QED BY <3>1, <3>2
  <2>9. \A i \in IPs : AtIp(i)' = (AtIp(i) \ G) \cup IF i = Ip(src) THEN {d} ELSE {}
    <3> TAKE i \in IPs
    <3>1. \A e \in Devices : e # d => (e \in G <=> e \in gone)
      BY DEF G
    <3>2. \A e \in Devices : e # d => (e \in AtIp(i)' <=> e \in AtIp(i) \ G)
      BY <2>4, <2>5, <3>1 DEF AtIp
    <3>3. d \in AtIp(i)' <=> i = Ip(src)
      BY <2>3, <2>4, <2>5 DEF AtIp
    <3>4. d \notin AtIp(i) \ G
      BY DEF AtIp, G, Refreshed
    <3> QED BY <3>2, <3>3, <3>4 DEF AtIp
  <2>10. \A i \in IPs : /\ byIP'[i] = Cardinality(AtIp(i)')
                        /\ Cardinality(AtIp(i)') \in Nat
    <3> TAKE i \in IPs
    <3>1. /\ Uncounted(G)[i] = Cardinality(AtIp(i) \ G)
          /\ IsFiniteSet(AtIp(i) \ G) /\ Cardinality(AtIp(i) \ G) \in Nat
      BY <1>1, UncountedExact, AtIpFinite, FS_Difference, FS_CardinalityType
    <3>2. d \notin AtIp(i) \ G
      BY DEF AtIp, G, Refreshed
    <3>3. byIP'[i] = IF i = Ip(src) THEN Uncounted(G)[i] + 1 ELSE Uncounted(G)[i]
      BY <2>1 DEF Uncounted
    <3>4. CASE i = Ip(src)
      <4>1. AtIp(i)' = (AtIp(i) \ G) \cup {d}
        BY <2>9, <3>4
      <4>2. Cardinality((AtIp(i) \ G) \cup {d}) = Cardinality(AtIp(i) \ G) + 1
        BY <3>1, <3>2, FS_AddElement
      <4> QED BY <3>1, <3>3, <3>4, <4>1, <4>2
    <3>5. CASE i # Ip(src)
      <4>1. AtIp(i)' = AtIp(i) \ G
        BY <2>9, <3>5
      <4> QED BY <3>1, <3>3, <3>5, <4>1
    <3> QED BY <3>4, <3>5
  <2>11. byIP' \in [IPs -> Nat]
    BY <2>1, <2>10 DEF Uncounted
  <2>12. /\ byToken' \in [Requests -> Devices \cup {"none"}]
         /\ bySource' \in [AllSources -> SUBSET Devices]
    BY <2>1 DEF TableInv
  <2>13. removed' \subseteq Requests
    BY <1>1, <2>1 DEF TableInv
  <2>14. loc' \in [Devices -> Bindings]
    BY <2>1, <2>3 DEF TableInv
  <2>15. TableInv'
    BY <2>6, <2>7, <2>8, <2>10, <2>11, <2>12, <2>13, <2>14 DEF TableInv
  <2>16. ASSUME NEW t \in Requests, byToken[t] # "none", byToken'[t] = "none" PROVE t \in removed'
    <3>1. byToken[t] \in gone /\ loc[byToken[t]].token = t
      BY <2>1, <2>16 DEF TableInv
    <3> QED BY <2>1, <3>1
  <2> QED BY <1>2, <2>1, <2>4, <2>15, <2>16 DEF TokensFollowed, Spares, new, kept
<1> QED
  BY <1>3, <1>4

\* Every step keeps the location table exact, and no token leaves it unseen.
LEMMA TableStep ==
    ASSUME TableInv, RequestInv, [Next]_vars
    PROVE  TableInv' /\ (TokensFollowed \/ TakeRemoved)
<1> USE NoneIsNone DEF table
<1>1. CASE UNCHANGED table
  BY <1>1 DEF TableInv, AtIp, Held, TokensFollowed
<1>2. ASSUME NEW r \in Requests, RecordBinding(r) PROVE TableInv' /\ TokensFollowed
  <2>1. CASE UNCHANGED table
    BY <1>1, <2>1 DEF TableInv, AtIp, Held, TokensFollowed
  <2>2. CASE DeleteLocked({Dev(r)} \cap {d \in Devices : Held(d)})
    BY <2>2, DeleteTable
  <2>3. req[r].kind \in RequestKinds
    BY <1>2 DEF RecordBinding, RemoveBinding, RequestInv, Open
  <2> QED BY <1>2, <2>1, <2>2, <2>3 DEF RecordBinding, RemoveBinding, RequestKinds
<1>3. ASSUME NEW r \in Requests, RemoveOne(r) PROVE TableInv' /\ TokensFollowed
  <2>1. CASE UNCHANGED table
    BY <1>1, <2>1 DEF TableInv, AtIp, Held, TokensFollowed
  <2>2. ASSUME NEW d, DeleteLocked({d} \cap {e \in Devices : Held(e)})
        PROVE  TableInv' /\ TokensFollowed
    BY <2>2, DeleteTable
  <2> QED BY <1>3, <2>1, <2>2 DEF RemoveOne
<1>4. ASSUME NEW r \in Requests, PutBinding(r) PROVE TableInv' /\ TokensFollowed
  <2>1. req[r].token \in Requests /\ Dev(req[r].token) = Dev(r) /\ req[r].src \in AllSources
    BY <1>4 DEF PutBinding, RequestInv, Open
  <2> QED BY <1>4, <2>1, PutTable DEF PutBinding
<1>5. ASSUME NEW d \in Devices, Expire(d) PROVE TableInv' /\ TokensFollowed
  <2>1. /\ loc' \in [Devices -> Bindings]
        /\ \A e \in Devices : loc'[e].token = loc[e].token /\ loc'[e].src = loc[e].src
    <3>1. \A b \in Bindings : /\ [b EXCEPT !.live = FALSE] \in Bindings
                              /\ [b EXCEPT !.live = FALSE].token = b.token
                              /\ [b EXCEPT !.live = FALSE].src = b.src
      BY DEF Bindings
    <3>2. loc' = [loc EXCEPT ![d] = [loc[d] EXCEPT !.live = FALSE]]
      BY <1>5 DEF Expire
    <3> QED BY <3>1, <3>2 DEF TableInv
  <2>2. UNCHANGED <<byToken, bySource, byIP, removed>>
    BY <1>5 DEF Expire
  <2>3. \A e \in Devices : Held(e)' <=> Held(e)
    <3>1. \A e \in Devices : e # d => loc'[e] = loc[e]
      BY <1>5 DEF Expire, TableInv
    <3>2. Held(d) /\ loc'[d].token # "none"
      BY <1>5, <2>1 DEF Expire, Live, TableInv
    <3>3. NoBinding.token = "none"
      BY DEF NoBinding
    <3> QED BY <3>1, <3>2, <3>3 DEF Held
  <2>4. \A i : AtIp(i)' = AtIp(i)
    BY <2>1, <2>3 DEF AtIp
  <2> QED BY <2>1, <2>2, <2>3, <2>4 DEF TableInv, TokensFollowed
<1>6. CASE Prune
  <2>1. UNION {Lapsed(a) : a \in Aors} \in SUBSET {d \in Devices : Held(d)}
    BY DEF Lapsed
  <2> QED BY <1>6, <2>1, DeleteTable DEF Prune
<1>7. ASSUME NEW d \in Devices, ConnClose(d) PROVE TableInv' /\ TokensFollowed
  <2>1. at[d] \in AllSources
    BY <1>7 DEF ConnClose, RequestInv
  <2>2. bySource[at[d]] \in SUBSET {e \in Devices : Held(e)}
    BY <2>1, HeldFields DEF TableInv
  <2> QED BY <1>7, <2>2, DeleteTable DEF ConnClose
<1>8. CASE TakeRemoved
  <2>1. UNCHANGED <<loc, byToken, bySource, byIP>> /\ removed' = {}
    BY <1>8 DEF TakeRemoved
  <2> QED BY <1>8, <2>1 DEF TableInv, AtIp, Held
<1>9. ASSUME NEW r \in Requests, Register(r) \/ Decide(r) PROVE UNCHANGED table
  BY <1>9 DEF Register, Decide
<1>10. ASSUME NEW d \in Devices, Remap(d) \/ Reconnect(d) PROVE UNCHANGED table
  BY <1>10 DEF Remap, Reconnect
<1>11. ASSUME NEW q \in Subs, Subscribe(q) \/ SubHandle(q) \/ SubOver(q) PROVE UNCHANGED table
  BY <1>11 DEF Subscribe, SubHandle, BeginSub, Recheck, Confirm, SubOver
<1>12. DropTokens => UNCHANGED table
  BY DEF DropTokens
<1> QED
  BY <1>1, <1>2, <1>3, <1>4, <1>5, <1>6, <1>7, <1>8, <1>9, <1>10, <1>11, <1>12
     DEF Next, Handle, Hook, vars

----------------------------------------------------------------------------
(* The REGISTER handlers. *)

\* A handler moves on, or returns: nothing of another handler changes.
LEMMA MoveEffect ==
    ASSUME RequestInv, NEW r \in Requests
    PROVE  /\ \A p \in Open \cup {"done"} : Goto(r, p) =>
                 /\ pc' \in [Requests -> {"idle", "sent", "ok", "wildcard", "put", "done"}]
                 /\ pc'[r] = p /\ \A o \in Requests : o # r => pc'[o] = pc[o]
           /\ Return(r) =>
                 /\ pc' \in [Requests -> {"idle", "sent", "ok", "wildcard", "put", "done"}]
                 /\ pc'[r] = "done" /\ \A o \in Requests : o # r => pc'[o] = pc[o]
                 /\ req' \in [Requests -> RequestStates]
                 /\ \A o \in Requests : o # r => req'[o] = req[o]
<1>1. ASSUME NEW p \in Open \cup {"done"}, Goto(r, p)
      PROVE  /\ pc' \in [Requests -> {"idle", "sent", "ok", "wildcard", "put", "done"}]
             /\ pc'[r] = p /\ \A o \in Requests : o # r => pc'[o] = pc[o]
  BY <1>1 DEF Goto, RequestInv, Open
<1>2. ASSUME Return(r)
      PROVE  /\ req' \in [Requests -> RequestStates]
             /\ \A o \in Requests : o # r => req'[o] = req[o]
  <2>1. req[r].src \in AllSources \cup {"none"}
    BY DEF RequestInv, RequestStates
  <2>2. [NoRequest EXCEPT !.src = req[r].src] \in RequestStates
    BY <2>1 DEF NoRequest, RequestStates
  <2> QED BY <1>2, <2>2 DEF Return, RequestInv
<1> QED
  BY <1>1, <1>2 DEF Return

\* A step of one handler, or of none.
LEMMA RequestFrame ==
    ASSUME RequestInv, NEW r \in Requests, UNCHANGED at,
           pc' \in [Requests -> {"idle", "sent", "ok", "wildcard", "put", "done"}],
           req' \in [Requests -> RequestStates],
           store' \in [Devices -> Requests \cup {"none"}],
           dropping' \subseteq SUBSET Requests, proven' \in [Aors -> SUBSET IPs],
           \A o \in Requests : o # r => pc'[o] = pc[o] /\ req'[o] = req[o],
           pc'[r] \in Open => /\ req'[r].kind \in RequestKinds /\ req'[r].src \in AllSources
                              /\ req'[r].token \in Requests /\ Dev(req'[r].token) = Dev(r),
           pc'[r] = "put" => req'[r].kind = "bind"
    PROVE  RequestInv'
BY DEF RequestInv

\* Every step keeps what an open REGISTER carries.
LEMMA RequestStep ==
    ASSUME TableInv, RequestInv, [Next]_vars
    PROVE  RequestInv'
<1> USE NoneIsNone DEF table, subs
<1>1. ASSUME NEW r \in Requests, Register(r) PROVE RequestInv'
  <2>1. PICK k \in Kinds(r) :
           req' = [req EXCEPT ![r] = [kind |-> k.kind, auth |-> k.auth, src |-> at[Dev(r)],
                                      token |-> ChooseToken(Dev(r), r), todo |-> {}]]
    BY <1>1 DEF Register
  <2>2. k \in [kind : RequestKinds, auth : BOOLEAN]
    BY RequestAssumption
  <2>3. at[Dev(r)] \in AllSources
    BY <1>1 DEF Register, RequestInv
  <2>4. ChooseToken(Dev(r), r) \in Requests /\ Dev(ChooseToken(Dev(r), r)) = Dev(r)
    BY DEF ChooseToken, Live, TableInv
  <2> DEFINE new == [kind |-> k.kind, auth |-> k.auth, src |-> at[Dev(r)],
                     token |-> ChooseToken(Dev(r), r), todo |-> {}]
  <2>5. new \in RequestStates /\ new.kind \in RequestKinds /\ new.src = at[Dev(r)]
        /\ new.token = ChooseToken(Dev(r), r)
    BY <2>2, <2>3, <2>4 DEF RequestStates
  <2>6. req'[r] = new /\ req' \in [Requests -> RequestStates] /\ \A o \in Requests : o # r => req'[o] = req[o]
    <3> HIDE DEF new
    <3>1. req' = [req EXCEPT ![r] = new]
      BY <2>1 DEF new
    <3> QED BY <2>5, <3>1 DEF RequestInv
  <2>7. pc'[r] = "sent" /\ pc' \in [Requests -> {"idle", "sent", "ok", "wildcard", "put", "done"}]
        /\ \A o \in Requests : o # r => pc'[o] = pc[o]
    BY <1>1, MoveEffect DEF Register, Open
  <2>8. UNCHANGED <<at, store, dropping, proven>>
    BY <1>1 DEF Register
  <2> HIDE DEF new
  <2>9. /\ req'[r].kind \in RequestKinds /\ req'[r].src \in AllSources
        /\ req'[r].token \in Requests /\ Dev(req'[r].token) = Dev(r)
    BY <2>3, <2>4, <2>5, <2>6
  <2> QED BY <2>6, <2>7, <2>8, <2>9, RequestFrame DEF RequestInv
<1>2. ASSUME NEW r \in Requests, Decide(r) PROVE RequestInv'
  <2>1. UNCHANGED <<at, dropping, proven>> /\ pc[r] = "sent"
    BY <1>2 DEF Decide
  <2>2. store' \in [Devices -> Requests \cup {"none"}]
    <3>1. Stored(r) \in [Devices -> Requests \cup {"none"}]
      BY <2>1 DEF Stored, RequestInv, Open
    <3> QED BY <1>2, <3>1 DEF Decide, RequestInv
  <2>3. CASE Goto(r, "ok") /\ UNCHANGED req
    BY <2>1, <2>2, <2>3, MoveEffect, RequestFrame DEF RequestInv, Open
  <2>4. CASE Return(r)
    BY <2>1, <2>2, <2>4, MoveEffect, RequestFrame DEF RequestInv, Open
  <2> QED BY <1>2, <2>3, <2>4 DEF Decide
<1>3. ASSUME NEW r \in Requests, RecordBinding(r) PROVE RequestInv'
  <2>1. UNCHANGED <<at, store, dropping>> /\ pc[r] = "ok"
    BY <1>3 DEF RecordBinding, RemoveBinding
  <2>2. req[r].kind \in RequestKinds
    BY <2>1 DEF RequestInv, Open
  <2>3. CASE req[r].kind = "wildcard"
    <3> DEFINE todo == {d \in Devices : Aor(d) = Aor(Dev(r)) /\ Live(d)}
    <3>1. UNCHANGED proven /\ req' = [req EXCEPT ![r].todo = todo] /\ Goto(r, "wildcard")
      BY <1>3, <2>3 DEF RecordBinding, RemoveBinding
    <3>2. todo \in SUBSET Devices
      OBVIOUS
    <3> HIDE DEF todo
    <3>3. \A x \in RequestStates : /\ [x EXCEPT !.todo = todo] \in RequestStates
                                   /\ [x EXCEPT !.todo = todo].kind = x.kind
                                   /\ [x EXCEPT !.todo = todo].src = x.src
                                   /\ [x EXCEPT !.todo = todo].token = x.token
      BY <3>2 DEF RequestStates
    <3>4. /\ req' \in [Requests -> RequestStates] /\ \A o \in Requests : o # r => req'[o] = req[o]
          /\ req'[r].kind = req[r].kind /\ req'[r].src = req[r].src /\ req'[r].token = req[r].token
      BY <3>1, <3>3 DEF RequestInv
    <3> QED BY <2>1, <3>1, <3>4, MoveEffect, RequestFrame DEF RequestInv, Open
  <2>4. CASE req[r].kind \in {"query", "unbind"}
    <3>1. Return(r) /\ UNCHANGED proven
      BY <1>3, <2>4 DEF RecordBinding, RemoveBinding
    <3> QED BY <2>1, <3>1, MoveEffect, RequestFrame DEF RequestInv, Open
  <2>5. CASE req[r].kind = "bind"
    <3>1. proven' \in [Aors -> SUBSET IPs]
      <4>1. Ip(req[r].src) \in IPs
        BY <2>1 DEF RequestInv, Open
      <4> QED BY <1>3, <2>5, <4>1 DEF RecordBinding, RemoveBinding, RequestInv
    <3>2. (Goto(r, "put") /\ UNCHANGED req) \/ Return(r)
      BY <1>3, <2>5 DEF RecordBinding, RemoveBinding
    <3> QED BY <2>1, <2>5, <3>1, <3>2, MoveEffect, RequestFrame DEF RequestInv, Open
  <2> QED BY <2>2, <2>3, <2>4, <2>5 DEF RequestKinds
<1>4. ASSUME NEW r \in Requests, RemoveOne(r) PROVE RequestInv'
  <2>1. UNCHANGED <<at, store, dropping, proven>> /\ pc[r] = "wildcard"
    BY <1>4 DEF RemoveOne
  <2>2. CASE Return(r)
    BY <2>1, <2>2, MoveEffect, RequestFrame DEF RequestInv, Open
  <2>3. ASSUME NEW d, req' = [req EXCEPT ![r].todo = @ \ {d}], UNCHANGED pc PROVE RequestInv'
    <3>1. \A x \in RequestStates : /\ [x EXCEPT !.todo = @ \ {d}] \in RequestStates
                                   /\ [x EXCEPT !.todo = @ \ {d}].kind = x.kind
                                   /\ [x EXCEPT !.todo = @ \ {d}].src = x.src
                                   /\ [x EXCEPT !.todo = @ \ {d}].token = x.token
      BY DEF RequestStates
    <3>2. /\ req' \in [Requests -> RequestStates] /\ \A o \in Requests : o # r => req'[o] = req[o]
          /\ req'[r].kind = req[r].kind /\ req'[r].src = req[r].src /\ req'[r].token = req[r].token
      BY <2>3, <3>1 DEF RequestInv
    <3> QED BY <2>1, <2>3, <3>2, RequestFrame DEF RequestInv, Open
  <2> QED BY <1>4, <2>2, <2>3 DEF RemoveOne
<1>5. ASSUME NEW r \in Requests, PutBinding(r) PROVE RequestInv'
  BY <1>5, MoveEffect, RequestFrame DEF PutBinding, RequestInv, Open
<1>6. ASSUME NEW d \in Devices, Remap(d) \/ ConnClose(d) \/ Reconnect(d) PROVE RequestInv'
  <2>1. at' \in [Devices -> AllSources \cup {"none"}]
    BY <1>6 DEF Remap, ConnClose, Reconnect, Fresh, RequestInv
  <2>2. UNCHANGED <<pc, req, store, dropping, proven>>
    BY <1>6 DEF Remap, ConnClose, Reconnect
  <2> QED BY <2>1, <2>2 DEF RequestInv
<1>7. CASE TakeRemoved \/ DropTokens
  <2>1. UNCHANGED <<at, pc, req, store, proven>>
    BY <1>7 DEF TakeRemoved, DropTokens
  <2>2. dropping' \subseteq SUBSET Requests
    <3>1. CASE TakeRemoved
      BY <3>1 DEF TakeRemoved, RequestInv, TableInv
    <3>2. CASE DropTokens
      <4>1. \E batch \in dropping : dropping' = dropping \ {batch}
        BY <3>2 DEF DropTokens
      <4> QED BY <4>1 DEF RequestInv
    <3> QED BY <1>7, <3>1, <3>2
  <2> QED BY <2>1, <2>2 DEF RequestInv
<1>8. ASSUME UNCHANGED <<at, pc, req, store, dropping, proven>> PROVE RequestInv'
  BY <1>8 DEF RequestInv
<1>9. ASSUME NEW d \in Devices, Expire(d) PROVE RequestInv'
  BY <1>8, <1>9 DEF Expire
<1>10. ASSUME NEW q \in Subs, Subscribe(q) \/ SubHandle(q) \/ SubOver(q) PROVE RequestInv'
  BY <1>8, <1>10 DEF Subscribe, SubHandle, BeginSub, Recheck, Confirm, SubOver
<1>11. CASE Prune \/ UNCHANGED vars
  BY <1>8, <1>11 DEF Prune, vars
<1> QED
  BY <1>1, <1>2, <1>3, <1>4, <1>5, <1>6, <1>7, <1>9, <1>10, <1>11 DEF Next, Handle, Hook

----------------------------------------------------------------------------
(* The subscription table. *)

Recorded == {q \in Subs : Record(q)}
Over == {q \in Subs : sub[q] = "ended"}

\* Pairing each element of a set with something does not change its size.
LEMMA PairedCount ==
    ASSUME NEW S, IsFiniteSet(S), NEW f
    PROVE  Cardinality({<<x, f[x]>> : x \in S}) = Cardinality(S)
<1> DEFINE T == {<<x, f[x]>> : x \in S}
           pair == [x \in S |-> <<x, f[x]>>]
<1>1. pair \in [S -> T]
  OBVIOUS
<1>2. \A a, b \in S : pair[a] = pair[b] => a = b
  OBVIOUS
<1>3. \A t \in T : \E x \in S : pair[x] = t
  OBVIOUS
<1>4. ExistsBijection(S, T)
  BY <1>1, <1>2, <1>3 DEF ExistsBijection, Bijection, Injection, Surjection, IsInjective
<1> QED
  BY <1>4, FS_Bijection

\* Finitely many records.
LEMMA RecordedFinite ==
    ASSUME NEW S \in SUBSET Subs
    PROVE  IsFiniteSet(S) /\ Cardinality(S) \in Nat
BY SubAssumption, FS_Subset, FS_CardinalityType

\* The records a step ends, all at once, are counted out.
LEMMA EndedEffect ==
    ASSUME SubInv, NEW ending \in SUBSET Recorded,
           sub' = [q \in Subs |-> IF q \in ending THEN "ended" ELSE sub[q]],
           total' = total - Cardinality(ending)
    PROVE  /\ sub' \in [Subs -> {"none", "pending", "active", "ended"}]
           /\ Recorded' = Recorded \ ending /\ Over' = Over \cup ending
           /\ total' = Cardinality(Recorded')
           /\ \A q \in Subs : sub'[q] = IF q \in ending THEN "ended" ELSE sub[q]
<1>1. \A q \in Subs : sub'[q] = IF q \in ending THEN "ended" ELSE sub[q]
  OBVIOUS
<1>2. Recorded' = Recorded \ ending
  BY <1>1 DEF Recorded, Record
<1>3. Over' = Over \cup ending
  BY <1>1 DEF Over, Recorded
<1>4. Recorded \cap ending = ending /\ IsFiniteSet(Recorded)
  BY RecordedFinite DEF Recorded
<1>5. Cardinality(Recorded \ ending) = Cardinality(Recorded) - Cardinality(ending)
  BY <1>4, FS_Difference
<1>6. total = Cardinality(Recorded)
  BY DEF SubInv, Recorded
<1>7. sub' \in [Subs -> {"none", "pending", "active", "ended"}]
  BY DEF SubInv
<1> QED
  BY <1>1, <1>2, <1>3, <1>5, <1>6, <1>7

\* end, for one record, and nothing if it has ended already.
LEMMA EndSubEffect ==
    ASSUME SubInv, NEW q \in Subs, EndSub(q)
    PROVE  \E ending \in SUBSET Recorded :
              /\ ending = Recorded \cap {q}
              /\ sub' = [p \in Subs |-> IF p \in ending THEN "ended" ELSE sub[p]]
              /\ total' = total - Cardinality(ending)
<1> DEFINE ending == Recorded \cap {q}
<1>1. total \in Nat
  BY RecordedFinite DEF SubInv
<1>2. CASE Record(q)
  <2>1. ending = {q} /\ Cardinality(ending) = 1
    BY <1>2, FS_Singleton DEF Recorded
  <2>2. sub' = [sub EXCEPT ![q] = "ended"] /\ total' = total - 1
    BY <1>2 DEF EndSub
  <2>3. sub' = [p \in Subs |-> IF p \in ending THEN "ended" ELSE sub[p]]
    BY <2>1, <2>2 DEF SubInv
  <2> QED BY <2>1, <2>2, <2>3
<1>3. CASE ~Record(q)
  <2>1. ending = {} /\ Cardinality(ending) = 0
    BY <1>3, FS_EmptySet DEF Recorded
  <2>2. sub' = [sub EXCEPT ![q] = sub[q]] /\ total' = total
    BY <1>3 DEF EndSub
  <2>3. sub' = [p \in Subs |-> IF p \in ending THEN "ended" ELSE sub[p]]
    BY <2>1, <2>2 DEF SubInv
  <2>4. total' = total - Cardinality(ending)
    BY <1>1, <2>1, <2>2
  <2> QED BY <2>1, <2>3, <2>4
<1> QED
  BY <1>2, <1>3

\* dropTokens ends the records charged to a batch of removed bindings.
LEMMA DropEffect ==
    ASSUME DropTokens
    PROVE  \E batch \in dropping :
              LET ending == {q \in Recorded : subToken[q] \in batch}
              IN  /\ sub' = [p \in Subs |-> IF p \in ending THEN "ended" ELSE sub[p]]
                  /\ total' = total - Cardinality(ending)
                  /\ dropping' = dropping \ {batch} /\ UNCHANGED <<table, subToken, subPc>>
<1>1. PICK batch \in dropping :
        LET ending == {q \in Subs : sub[q] \in {"pending", "active"} /\ subToken[q] \in batch}
        IN  /\ sub' = [q \in Subs |-> IF q \in ending THEN "ended" ELSE sub[q]]
            /\ total' = total - Cardinality(ending)
            /\ dropping' = dropping \ {batch}
            /\ UNCHANGED <<table, subToken, subPc>>
  BY DEF DropTokens
<1>2. {q \in Recorded : subToken[q] \in batch}
        = {q \in Subs : sub[q] \in {"pending", "active"} /\ subToken[q] \in batch}
  BY DEF Recorded, Record
<1> QED
  BY <1>1, <1>2

\* Admission: the record is new and counted in.
LEMMA BeginEffect ==
    ASSUME SubInv, NEW q \in Subs, subPc[q] = "begin", total < MaxSubs,
           sub' = [sub EXCEPT ![q] = "pending"], total' = total + 1
    PROVE  /\ q \notin Recorded \cup Over /\ Cardinality(Recorded) < MaxSubs
           /\ Recorded' = Recorded \cup {q} /\ Over' = Over
           /\ total' = Cardinality(Recorded')
<1>1. \A p \in Subs : sub'[p] = IF p = q THEN "pending" ELSE sub[p]
  BY DEF SubInv
<1>2. sub[q] = "none" /\ total = Cardinality(Recorded)
  BY DEF SubInv, Recorded
<1>3. q \notin Recorded \cup Over
  BY <1>2 DEF Recorded, Over, Record
<1>4. Recorded' = Recorded \cup {q} /\ Over' = Over
  BY <1>1, <1>2 DEF Recorded, Over, Record
<1>5. IsFiniteSet(Recorded)
  BY RecordedFinite DEF Recorded
<1> QED
  BY <1>2, <1>3, <1>4, <1>5, FS_AddElement

\* The records charged to the binding of token t.
ChargedTo(t) == {q \in Recorded : subToken[q] = t}

\* What a step may do to the records: nothing, admit one or end some. A record
\* stays charged to the token it was admitted with.
SubChange ==
    /\ \A q \in Recorded : subToken'[q] = subToken[q]
    /\ \/ Recorded' = Recorded /\ Over' = Over
       \/ \E q \in Subs :
             /\ q \notin Recorded \cup Over /\ subToken[q] \in Requests
             /\ Cardinality(Recorded) < MaxSubs
             /\ Cardinality(ChargedTo(subToken[q])) < MaxPerBinding
             /\ Recorded' = Recorded \cup {q} /\ Over' = Over /\ subToken' = subToken
       \/ \E ending \in SUBSET Recorded : Recorded' = Recorded \ ending /\ Over' = Over \cup ending

\* Every step keeps the subscription count and only admits or ends records.
LEMMA SubStep ==
    ASSUME TableInv, SubInv, [Next]_vars
    PROVE  SubInv' /\ SubChange
<1> USE NoneIsNone DEF table, subs
<1>1. ASSUME UNCHANGED subs PROVE SubInv' /\ SubChange
  BY <1>1 DEF SubInv, Record, SubChange, Recorded, Over
<1>2. ASSUME NEW q \in Subs, SubGoto(q, "done") \/ SubGoto(q, "wait") \/ SubGoto(q, "recheck") \/ SubGoto(q, "begin")
      PROVE  /\ subPc' \in [Subs -> {"idle", "begin", "recheck", "wait", "done"}]
             /\ \A p \in Subs : p # q => subPc'[p] = subPc[p]
             /\ subPc'[q] # "idle" /\ (~SubGoto(q, "begin") => subPc'[q] # "begin")
  BY <1>2 DEF SubGoto, SubInv
<1>3. ASSUME NEW q \in Subs, Subscribe(q) PROVE SubInv' /\ SubChange
  <2>1. subToken'[q] \in Requests /\ subToken' \in [Subs -> Requests \cup {"none"}]
        /\ \A p \in Subs : p # q => subToken'[p] = subToken[p]
    <3>1. loc[SubDev(q)].token \in Requests
      BY <1>3, SubAssumption DEF Subscribe, Live, TableInv
    <3> QED BY <1>3, <3>1 DEF Subscribe, SubInv
  <2>2. UNCHANGED <<sub, total>> /\ subPc[q] = "idle" /\ SubGoto(q, "begin")
    BY <1>3 DEF Subscribe
  <2> QED BY <1>2, <2>1, <2>2 DEF SubInv, Record, SubChange, Recorded, Over
<1>4. ASSUME NEW q \in Subs, BeginSub(q) PROVE SubInv' /\ SubChange
  <2>1. subPc[q] = "begin" /\ UNCHANGED subToken
    BY <1>4 DEF BeginSub
  <2>2. CASE SubGoto(q, "done") /\ UNCHANGED <<sub, total>>
    BY <1>2, <2>1, <2>2 DEF SubInv, Record, SubChange, Recorded, Over, SubGoto
  <2>3. CASE total < MaxSubs /\ sub' = [sub EXCEPT ![q] = "pending"] /\ total' = total + 1
             /\ Cardinality({o \in Subs : Record(o) /\ subToken[o] = subToken[q]}) < MaxPerBinding
             /\ SubGoto(q, "recheck")
    <3>1. {o \in Subs : Record(o) /\ subToken[o] = subToken[q]} = ChargedTo(subToken[q])
      BY DEF ChargedTo, Recorded
    <3>2. subToken[q] \in Requests /\ Cardinality(ChargedTo(subToken[q])) < MaxPerBinding
      BY <2>1, <2>3, <3>1 DEF SubInv
    <3>3. /\ q \notin Recorded \cup Over /\ Cardinality(Recorded) < MaxSubs
          /\ Recorded' = Recorded \cup {q} /\ Over' = Over
          /\ total' = Cardinality(Recorded')
      BY <2>1, <2>3, BeginEffect
    <3>4. SubChange /\ total' = Cardinality({p \in Subs : Record(p)}')
      BY <2>1, <3>2, <3>3 DEF SubChange, Recorded
    <3>5. sub' \in [Subs -> {"none", "pending", "active", "ended"}]
          /\ \A p \in Subs : p # q => sub'[p] = sub[p]
      BY <2>3 DEF SubInv
    <3>6. subPc'[q] = "recheck"
      BY <2>3 DEF SubGoto, SubInv
    <3> QED BY <1>2, <2>1, <2>3, <3>4, <3>5, <3>6 DEF SubInv
  <2> QED BY <1>4, <2>2, <2>3 DEF BeginSub
<1>5. ASSUME NEW ending \in SUBSET Recorded,
             sub' = [q \in Subs |-> IF q \in ending THEN "ended" ELSE sub[q]],
             total' = total - Cardinality(ending), UNCHANGED subToken,
             subPc' \in [Subs -> {"idle", "begin", "recheck", "wait", "done"}],
             \A p \in Subs : subPc'[p] = subPc[p] \/ (subPc[p] # "idle" /\ subPc'[p] \notin {"idle", "begin"})
      PROVE  SubInv' /\ SubChange
  <2>1. /\ sub' \in [Subs -> {"none", "pending", "active", "ended"}]
        /\ Recorded' = Recorded \ ending /\ Over' = Over \cup ending
        /\ total' = Cardinality(Recorded')
        /\ \A q \in Subs : sub'[q] = IF q \in ending THEN "ended" ELSE sub[q]
    BY <1>5, EndedEffect
  <2>2. total' = Cardinality({p \in Subs : Record(p)}')
    BY <2>1 DEF Recorded
  <2>3. \A q \in Subs : subPc'[q] \in {"idle", "begin"} => sub'[q] = "none"
    BY <1>5, <2>1 DEF SubInv, Recorded, Record
  <2> QED BY <1>5, <2>1, <2>2, <2>3 DEF SubInv, SubChange
<1>6. ASSUME NEW q \in Subs, Recheck(q) \/ Confirm(q) \/ SubOver(q) PROVE SubInv' /\ SubChange
  <2>1. UNCHANGED subToken
    BY <1>6 DEF Recheck, Confirm, SubOver
  <2>2. /\ subPc' \in [Subs -> {"idle", "begin", "recheck", "wait", "done"}]
        /\ \A p \in Subs : subPc'[p] = subPc[p] \/ (subPc[p] # "idle" /\ subPc'[p] \notin {"idle", "begin"})
    BY <1>6 DEF Recheck, Confirm, SubOver, SubGoto, SubInv
  <2>3. CASE EndSub(q)
    BY <1>5, <2>1, <2>2, <2>3, EndSubEffect
  <2>4. CASE UNCHANGED <<sub, total>>
    BY <2>1, <2>2, <2>4 DEF SubInv, Record, SubChange, Recorded, Over
  <2>5. CASE sub' = [sub EXCEPT ![q] = IF Record(q) THEN "active" ELSE @] /\ UNCHANGED total
    <3>1. \A p \in Subs : /\ sub'[p] \in {"none", "pending", "active", "ended"}
                          /\ sub'[p] = sub[p] \/ (Record(p) /\ sub'[p] = "active")
      BY <2>5 DEF SubInv, Record
    <3>2. Recorded' = Recorded /\ Over' = Over
      BY <3>1 DEF Recorded, Over, Record
    <3>3. total' = Cardinality({p \in Subs : Record(p)}')
      BY <2>5, <3>2 DEF SubInv, Recorded
    <3>4. sub' \in [Subs -> {"none", "pending", "active", "ended"}]
      BY <2>5 DEF SubInv
    <3>5. \A p \in Subs : subPc'[p] \in {"idle", "begin"} => sub'[p] = "none"
      BY <2>2, <3>1 DEF SubInv, Record
    <3> QED BY <2>1, <2>2, <3>2, <3>3, <3>4, <3>5 DEF SubInv, SubChange
  <2> QED BY <1>6, <2>3, <2>4, <2>5 DEF Recheck, Confirm, SubOver
<1>7. CASE DropTokens
  <2>1. PICK batch \in dropping :
          LET ending == {q \in Recorded : subToken[q] \in batch}
          IN  /\ sub' = [p \in Subs |-> IF p \in ending THEN "ended" ELSE sub[p]]
              /\ total' = total - Cardinality(ending)
              /\ UNCHANGED <<subToken, subPc>>
    BY <1>7, DropEffect
  <2> DEFINE ending == {q \in Recorded : subToken[q] \in batch}
  <2>2. ending \in SUBSET Recorded
    OBVIOUS
  <2>3. /\ sub' = [p \in Subs |-> IF p \in ending THEN "ended" ELSE sub[p]]
        /\ total' = total - Cardinality(ending)
        /\ UNCHANGED <<subToken, subPc>>
    BY <2>1
  <2> HIDE DEF ending
  <2> QED BY <1>5, <2>2, <2>3 DEF SubInv
<1>8. ASSUME NEW r \in Requests, Register(r) \/ Handle(r) PROVE UNCHANGED subs
  BY <1>8 DEF Register, Handle, Decide, RecordBinding, RemoveBinding, RemoveOne, PutBinding
<1>9. ASSUME NEW d \in Devices, Expire(d) \/ Remap(d) \/ ConnClose(d) \/ Reconnect(d) PROVE UNCHANGED subs
  BY <1>9 DEF Expire, Remap, ConnClose, Reconnect
<1>10. Prune \/ TakeRemoved \/ UNCHANGED vars => UNCHANGED subs
  BY DEF Prune, TakeRemoved, vars
<1> QED
  BY <1>1, <1>3, <1>4, <1>6, <1>7, <1>8, <1>9, <1>10 DEF Next, Hook, SubHandle

----------------------------------------------------------------------------
(* Subscriptions and the bindings they are charged to. *)

\* Every step keeps a confirmed record charged to a binding in the table, or
\* to one whose removal the hook will be told of.
LEMMA OrphanStep ==
    ASSUME TableInv, RequestInv, SubInv, NoOrphanSubscriptions, [Next]_vars
    PROVE  NoOrphanSubscriptions'
<1> USE NoneIsNone DEF table, subs
<1>1. TokensFollowed \/ TakeRemoved
  BY TableStep
<1>2. CASE UNCHANGED <<subs, dropping>> /\ TokensFollowed
  <2> SUFFICES ASSUME NEW q \in Subs, Record(q), subPc[q] \in {"wait", "done"}
               PROVE  \/ byToken'[subToken[q]] # "none"
                      \/ subToken[q] \in removed' \cup UNION dropping
    BY <1>2 DEF NoOrphanSubscriptions, Record
  <2>1. subToken[q] \in Requests
    BY DEF SubInv
  <2> QED BY <1>2, <2>1 DEF NoOrphanSubscriptions, TokensFollowed
<1>3. CASE TakeRemoved
  BY <1>3 DEF TakeRemoved, NoOrphanSubscriptions, Record
<1>4. CASE DropTokens
  <2>1. PICK batch \in dropping :
          LET ending == {q \in Recorded : subToken[q] \in batch}
          IN  /\ sub' = [p \in Subs |-> IF p \in ending THEN "ended" ELSE sub[p]]
              /\ dropping' = dropping \ {batch} /\ UNCHANGED <<table, subToken, subPc>>
    BY <1>4, DropEffect
  <2>2. \A q \in Subs : Record(q)' => Record(q) /\ subToken[q] \notin batch
    BY <2>1 DEF Record, Recorded
  <2> SUFFICES ASSUME NEW q \in Subs, Record(q)', subPc'[q] \in {"wait", "done"}
               PROVE  byToken'[subToken'[q]] # "none" \/ subToken'[q] \in removed' \cup UNION dropping'
    BY DEF NoOrphanSubscriptions
  <2> QED BY <2>1, <2>2 DEF NoOrphanSubscriptions
<1>5. ASSUME NEW q \in Subs, Subscribe(q) \/ SubHandle(q) \/ SubOver(q) PROVE NoOrphanSubscriptions'
  <2>1. UNCHANGED <<byToken, removed, dropping>>
    BY <1>5 DEF Subscribe, SubHandle, BeginSub, Recheck, Confirm, SubOver
  <2>2. \A p \in Subs : p # q => UNCHANGED <<sub[p], subToken[p], subPc[p]>>
    BY <1>5 DEF Subscribe, SubHandle, BeginSub, Recheck, Confirm, SubOver, EndSub, SubGoto, SubInv
  <2>3. ASSUME Record(q)', subPc'[q] \in {"wait", "done"}
        PROVE  subToken'[q] = subToken[q] /\ (byToken[subToken[q]] # "none"
                  \/ (Record(q) /\ subPc[q] \in {"wait", "done"}))
    <3>1. CASE Subscribe(q)
      BY <2>3, <3>1 DEF Subscribe, SubGoto, SubInv
    <3>2. CASE BeginSub(q)
      BY <2>3, <3>2 DEF BeginSub, SubGoto, SubInv, Record
    <3>3. CASE Recheck(q)
      BY <2>3, <3>3 DEF Recheck, EndSub, SubGoto, SubInv, Record
    <3>4. CASE Confirm(q)
      BY <2>3, <3>4 DEF Confirm, EndSub, SubGoto, SubInv, Record
    <3>5. CASE SubOver(q)
      BY <2>3, <3>5 DEF SubOver, EndSub, SubInv, Record
    <3> QED BY <1>5, <3>1, <3>2, <3>3, <3>4, <3>5 DEF SubHandle
  <2> SUFFICES ASSUME NEW p \in Subs, Record(p)', subPc'[p] \in {"wait", "done"}
               PROVE  byToken'[subToken'[p]] # "none" \/ subToken'[p] \in removed' \cup UNION dropping'
    BY DEF NoOrphanSubscriptions
  <2>4. CASE p = q
    BY <2>1, <2>3, <2>4 DEF NoOrphanSubscriptions
  <2>5. CASE p # q
    BY <2>1, <2>2, <2>5 DEF NoOrphanSubscriptions, Record
  <2> QED BY <2>4, <2>5
<1>6. ASSUME NEW r \in Requests, Register(r) \/ Handle(r) PROVE UNCHANGED <<subs, dropping>>
  BY <1>6 DEF Register, Handle, Decide, RecordBinding, RemoveBinding, RemoveOne, PutBinding
<1>7. ASSUME NEW d \in Devices, Expire(d) \/ Remap(d) \/ ConnClose(d) \/ Reconnect(d)
      PROVE  UNCHANGED <<subs, dropping>>
  BY <1>7 DEF Expire, Remap, ConnClose, Reconnect
<1>8. Prune \/ UNCHANGED vars => UNCHANGED <<subs, dropping>>
  BY DEF Prune, vars
<1> QED
  BY <1>1, <1>2, <1>3, <1>4, <1>5, <1>6, <1>7, <1>8 DEF Next, Hook

----------------------------------------------------------------------------
(* What one step does to one device's binding, REGISTER and contact. *)

\* The binding stays as it was, lapses or goes.
Kept(d) == /\ Held(d)' => /\ Held(d) /\ loc'[d].token = loc[d].token /\ loc'[d].src = loc[d].src
                          /\ Live(d)' => Live(d)
           /\ ~Held(d)' => ~Live(d)'

\* Only the device's own REGISTER gives it a binding.
LEMMA BindingStep ==
    ASSUME TableInv, RequestInv, [Next]_vars, NEW d \in Devices
    PROVE  \/ Kept(d)
           \/ \E r \in Requests :
                /\ PutBinding(r) /\ Dev(r) = d
                /\ loc'[d] = [token |-> IF Live(d) THEN loc[d].token ELSE req[r].token,
                              src |-> req[r].src, live |-> TRUE]
<1> USE NoneIsNone DEF table
<1>0. Spares(d) => Kept(d)
  <2>1. NoBinding.live = FALSE
    BY DEF NoBinding
  <2> QED BY <2>1 DEF Spares, Kept, Held, Live
<1>1. UNCHANGED loc => Kept(d)
  BY <1>0 DEF Spares
<1>2. ASSUME NEW r \in Requests, RecordBinding(r) PROVE Kept(d)
  <2>1. CASE DeleteLocked({Dev(r)} \cap {e \in Devices : Held(e)})
    BY <1>0, <2>1, DeleteTable
  <2>2. req[r].kind \in RequestKinds
    BY <1>2 DEF RecordBinding, RemoveBinding, RequestInv, Open
  <2> QED BY <1>1, <1>2, <2>1, <2>2 DEF RecordBinding, RemoveBinding, RequestKinds
<1>3. ASSUME NEW r \in Requests, RemoveOne(r) PROVE Kept(d)
  <2>1. ASSUME NEW e, DeleteLocked({e} \cap {x \in Devices : Held(x)}) PROVE Kept(d)
    BY <1>0, <2>1, DeleteTable
  <2> QED BY <1>1, <1>3, <2>1 DEF RemoveOne
<1>4. ASSUME NEW r \in Requests, PutBinding(r)
      PROVE  \/ Kept(d)
             \/ /\ Dev(r) = d
                /\ loc'[d] = [token |-> IF Live(d) THEN loc[d].token ELSE req[r].token,
                              src |-> req[r].src, live |-> TRUE]
  <2>1. req[r].token \in Requests /\ Dev(req[r].token) = Dev(r) /\ req[r].src \in AllSources
    BY <1>4 DEF PutBinding, RequestInv, Open
  <2>2. Put(Dev(r), req[r].src, req[r].token)
    BY <1>4 DEF PutBinding
  <2>3. CASE d # Dev(r)
    BY <1>0, <2>1, <2>2, <2>3, PutTable
  <2>4. CASE d = Dev(r)
    <3> HIDE DEF Put
    <3>1. \/ Spares(d)
          \/ loc'[d] = [token |-> IF Live(d) THEN loc[d].token ELSE req[r].token,
                        src |-> req[r].src, live |-> TRUE]
      BY <2>1, <2>2, <2>4, PutTable
    <3> QED BY <1>0, <2>4, <3>1
  <2> QED BY <2>3, <2>4
<1>5. ASSUME NEW e \in Devices, Expire(e) PROVE Kept(d)
  <2>1. CASE e # d
    BY <1>0, <1>5, <2>1 DEF Expire, TableInv, Spares
  <2>2. CASE e = d
    <3>1. \A b \in Bindings : /\ [b EXCEPT !.live = FALSE].token = b.token
                              /\ [b EXCEPT !.live = FALSE].src = b.src
                              /\ [b EXCEPT !.live = FALSE].live = FALSE
      BY DEF Bindings
    <3>2. loc'[d] = [loc[d] EXCEPT !.live = FALSE] /\ loc[d] \in Bindings /\ Live(d)
      BY <1>5, <2>2 DEF Expire, TableInv
    <3>3. loc'[d].token = loc[d].token /\ loc'[d].src = loc[d].src /\ loc'[d].live = FALSE
      BY <3>1, <3>2
    <3>4. Held(d) /\ ~Live(d)'
      BY <3>2, <3>3 DEF Live
    <3> QED BY <3>3, <3>4 DEF Kept
  <2> QED BY <2>1, <2>2
<1>6. CASE Prune
  <2>1. UNION {Lapsed(a) : a \in Aors} \in SUBSET {e \in Devices : Held(e)}
    BY DEF Lapsed
  <2> QED BY <1>0, <1>6, <2>1, DeleteTable DEF Prune
<1>7. ASSUME NEW e \in Devices, ConnClose(e) PROVE Kept(d)
  <2>1. at[e] \in AllSources
    BY <1>7 DEF ConnClose, RequestInv
  <2>2. bySource[at[e]] \in SUBSET {x \in Devices : Held(x)}
    BY <2>1, HeldFields DEF TableInv
  <2> QED BY <1>0, <1>7, <2>2, DeleteTable DEF ConnClose
<1>8. TakeRemoved \/ DropTokens \/ UNCHANGED vars => UNCHANGED loc
  BY DEF TakeRemoved, DropTokens, vars
<1>9. ASSUME NEW r \in Requests, Register(r) \/ Decide(r) PROVE UNCHANGED loc
  BY <1>9 DEF Register, Decide
<1>10. ASSUME NEW e \in Devices, Remap(e) \/ Reconnect(e) PROVE UNCHANGED loc
  BY <1>10 DEF Remap, Reconnect
<1>11. ASSUME NEW q \in Subs, Subscribe(q) \/ SubHandle(q) \/ SubOver(q) PROVE UNCHANGED loc
  BY <1>11 DEF Subscribe, SubHandle, BeginSub, Recheck, Confirm, SubOver
<1> QED
  BY <1>1, <1>2, <1>3, <1>4, <1>5, <1>6, <1>7, <1>8, <1>9, <1>10, <1>11 DEF Next, Handle, Hook

\* The steps outside the REGISTER handlers leave them and the registrar alone.
LEMMA OutsideHandlers ==
    ASSUME [Next]_vars
    PROVE  \/ UNCHANGED <<pc, req, store, proven>>
           \/ \E r \in Requests : Register(r) \/ Handle(r)
<1>1. ASSUME NEW d \in Devices, Expire(d) \/ Remap(d) \/ ConnClose(d) \/ Reconnect(d)
      PROVE  UNCHANGED <<pc, req, store, proven>>
  BY <1>1 DEF Expire, Remap, ConnClose, Reconnect
<1>2. ASSUME NEW q \in Subs, Subscribe(q) \/ SubHandle(q) \/ SubOver(q)
      PROVE  UNCHANGED <<pc, req, store, proven>>
  BY <1>2 DEF Subscribe, SubHandle, BeginSub, Recheck, Confirm, SubOver
<1>3. Prune \/ TakeRemoved \/ DropTokens \/ UNCHANGED vars => UNCHANGED <<pc, req, store, proven>>
  BY DEF Prune, TakeRemoved, DropTokens, vars
<1> QED
  BY <1>1, <1>2, <1>3 DEF Next, Hook

\* An open REGISTER was just received, or carries what it carried.
LEMMA HandlerStep ==
    ASSUME RequestInv, [Next]_vars, NEW r \in Requests, pc'[r] \in Open
    PROVE  \/ Register(r)
           \/ /\ pc[r] \in Open
              /\ req'[r].kind = req[r].kind /\ req'[r].src = req[r].src /\ req'[r].token = req[r].token
              /\ \/ pc'[r] = pc[r]
                 \/ Decide(r) /\ pc'[r] = "ok" /\ store' = Stored(r)
                 \/ RecordBinding(r) /\ pc[r] = "ok"
<1>1. CASE UNCHANGED <<pc, req>>
  BY <1>1
<1>2. ASSUME NEW o \in Requests, Register(o), o # r PROVE UNCHANGED <<pc[r], req[r]>>
  BY <1>2 DEF Register, Goto, RequestInv
<1>3. ASSUME NEW o \in Requests, Handle(o), o # r PROVE UNCHANGED <<pc[r], req[r]>>
  <2>1. CASE Decide(o)
    BY <1>3, <2>1, MoveEffect DEF Decide, Open
  <2>2. CASE RecordBinding(o)
    <3>1. req[o].kind \in RequestKinds
      BY <2>2 DEF RecordBinding, RemoveBinding, RequestInv, Open
    <3> QED BY <1>3, <2>2, <3>1 DEF RecordBinding, RemoveBinding, RequestKinds, Return, Goto, RequestInv
  <2>3. CASE RemoveOne(o)
    BY <1>3, <2>3 DEF RemoveOne, Return, Goto, RequestInv
  <2>4. CASE PutBinding(o)
    BY <1>3, <2>4, MoveEffect DEF PutBinding
  <2> QED BY <1>3, <2>1, <2>2, <2>3, <2>4 DEF Handle
<1>4. ~Return(r)
  BY MoveEffect DEF Open
<1>5. CASE Decide(r)
  BY <1>4, <1>5, MoveEffect DEF Decide, Open
<1>6. CASE RecordBinding(r)
  <2>1. pc[r] = "ok" /\ req[r].kind \in RequestKinds
    BY <1>6 DEF RecordBinding, RemoveBinding, RequestInv, Open
  <2>2. CASE req[r].kind = "wildcard"
    <3>1. req' = [req EXCEPT ![r].todo = {d \in Devices : Aor(d) = Aor(Dev(r)) /\ Live(d)}]
      BY <1>6, <2>2 DEF RecordBinding, RemoveBinding
    <3>2. req'[r].kind = req[r].kind /\ req'[r].src = req[r].src /\ req'[r].token = req[r].token
      BY <3>1 DEF RequestInv, RequestStates
    <3> QED BY <1>6, <2>1, <3>2 DEF Open
  <2> QED BY <1>4, <1>6, <2>1, <2>2 DEF RecordBinding, RemoveBinding, RequestKinds, Open
<1>7. CASE RemoveOne(r)
  <2>1. UNCHANGED pc /\ \E d : req' = [req EXCEPT ![r].todo = @ \ {d}]
    BY <1>4, <1>7 DEF RemoveOne
  <2>2. req'[r].kind = req[r].kind /\ req'[r].src = req[r].src /\ req'[r].token = req[r].token
    BY <2>1 DEF RequestInv, RequestStates
  <2> QED BY <2>1, <2>2
<1>8. ~PutBinding(r)
  BY <1>4 DEF PutBinding
<1> QED
  BY <1>1, <1>2, <1>3, <1>5, <1>6, <1>7, <1>8, OutsideHandlers DEF Handle

\* Only a device's own REGISTER stores a contact for it.
LEMMA StoreStep ==
    ASSUME RequestInv, [Next]_vars, NEW d \in Devices
    PROVE  \/ store'[d] \in {store[d], "none"}
           \/ \E r \in Requests : /\ Decide(r) /\ Dev(r) = d /\ req[r].kind = "bind"
                                  /\ store'[d] = req[r].token
<1>1. ASSUME NEW r \in Requests, Decide(r)
      PROVE  \/ store'[d] \in {store[d], "none"}
             \/ Dev(r) = d /\ req[r].kind = "bind" /\ store'[d] = req[r].token
  BY <1>1 DEF Decide, Stored
<1>2. ASSUME NEW r \in Requests, Register(r) \/ RecordBinding(r) \/ RemoveOne(r) \/ PutBinding(r)
      PROVE  UNCHANGED store
  BY <1>2 DEF Register, RecordBinding, RemoveBinding, RemoveOne, PutBinding
<1> QED
  BY <1>1, <1>2, OutsideHandlers DEF Handle

\* Proofs of address are never taken back.
LEMMA ProvenStep ==
    ASSUME RequestInv, [Next]_vars, NEW x \in Aors
    PROVE  proven[x] \subseteq proven'[x]
<1>1. ASSUME NEW r \in Requests, RecordBinding(r) PROVE proven[x] \subseteq proven'[x]
  <2>1. req[r].kind \in RequestKinds
    BY <1>1 DEF RecordBinding, RemoveBinding, RequestInv, Open
  <2>2. UNCHANGED proven \/ proven' = [proven EXCEPT ![Aor(Dev(r))] = @ \cup {Ip(req[r].src)}]
    BY <1>1, <2>1 DEF RecordBinding, RemoveBinding, RequestKinds
  <2> QED BY <2>2 DEF RequestInv
<1>2. ASSUME NEW r \in Requests, Register(r) \/ Decide(r) \/ RemoveOne(r) \/ PutBinding(r)
      PROVE  UNCHANGED proven
  BY <1>2 DEF Register, Decide, RemoveOne, PutBinding
<1> QED
  BY <1>1, <1>2, OutsideHandlers DEF Handle

----------------------------------------------------------------------------
(* Bindings are earned. *)

\* Every step keeps bindings at proven addresses: a put was preceded by a
\* credential, or by a refresh from where the live binding already was.
LEMMA EarnedStep ==
    ASSUME TableInv, RequestInv, EarnedInv, [Next]_vars
    PROVE  EarnedInv'
<1> USE NoneIsNone
<1>1. ASSUME NEW d \in Devices, Held(d)' PROVE Ip(loc'[d].src) \in proven'[Aor(d)]
  <2>1. CASE Kept(d)
    BY <1>1, <2>1, ProvenStep DEF Kept, EarnedInv, BindingsProven
  <2>2. ASSUME NEW r \in Requests, PutBinding(r), Dev(r) = d,
               loc'[d] = [token |-> IF Live(d) THEN loc[d].token ELSE req[r].token,
                          src |-> req[r].src, live |-> TRUE]
        PROVE  Ip(loc'[d].src) \in proven'[Aor(d)]
    <3>1. loc'[d].src = req[r].src
      BY <2>2
    <3> QED BY <2>2, <3>1, ProvenStep DEF PutBinding, EarnedInv
  <2> QED BY <2>1, <2>2, BindingStep
<1>2. ASSUME NEW r \in Requests, pc'[r] = "put" PROVE Ip(req'[r].src) \in proven'[Aor(Dev(r))]
  <2>1. ~Register(r)
    BY <1>2, MoveEffect DEF Register, Open
  <2>2. CASE pc[r] = "put" /\ req'[r].src = req[r].src
    BY <2>2, ProvenStep DEF EarnedInv
  <2>3. CASE RecordBinding(r) /\ pc[r] = "ok" /\ req'[r].src = req[r].src
    <3>1. req[r].kind = "bind"
      <4>1. req[r].kind \in RequestKinds
        BY <2>3 DEF RequestInv, Open
      <4>2. ~Return(r) /\ ~Goto(r, "wildcard")
        BY <1>2, MoveEffect DEF Open
      <4> QED BY <2>3, <4>1, <4>2 DEF RecordBinding, RemoveBinding, RequestKinds
    <3>2. Proof(r)
      <4>1. ~Return(r)
        BY <1>2, MoveEffect
      <4> QED BY <2>3, <3>1, <4>1 DEF RecordBinding, RemoveBinding
    <3>3. CASE req[r].auth
      <4>1. proven' = [proven EXCEPT ![Aor(Dev(r))] = @ \cup {Ip(req[r].src)}]
        BY <1>2, <2>3, <3>1, <3>3, MoveEffect DEF RecordBinding, RemoveBinding
      <4> QED BY <2>3, <4>1 DEF RequestInv
    <3>4. CASE ~req[r].auth
      <4>1. Held(Dev(r)) /\ Ip(loc[Dev(r)].src) = Ip(req[r].src)
        BY <3>2, <3>4 DEF Proof, Live
      <4> QED BY <2>3, <4>1, ProvenStep DEF EarnedInv, BindingsProven
    <3> QED BY <3>3, <3>4
  <2> QED BY <1>2, <2>1, <2>2, <2>3, HandlerStep DEF Open
<1> QED
  BY <1>1, <1>2 DEF EarnedInv, BindingsProven

----------------------------------------------------------------------------
(* The registrar's contact resolves. *)

\* Every step keeps the registrar's contact, the token in flight and the live
\* binding of a phone off a stream in agreement.
LEMMA ResolveStep ==
    ASSUME TableInv, RequestInv, ResolveInv, [Next]_vars
    PROVE  ResolveInv'
<1> USE NoneIsNone
<1>1. ASSUME NEW r \in Requests, NEW o \in Requests, pc'[r] \in Open, pc'[o] \in Open,
             Dev(r) = Dev(o), Dev(r) \notin Streams, r # o
      PROVE  FALSE
  <2>1. ASSUME NEW x \in Requests, NEW y \in Requests, Register(x), pc'[y] \in Open, x # y,
               Dev(x) = Dev(y), Dev(x) \notin Streams
        PROVE  FALSE
    <3>1. pc[y] \notin Open
      BY <2>1 DEF Register, Open
    <3>2. pc'[y] = pc[y]
      BY <2>1, MoveEffect DEF Register, Open
    <3> QED BY <2>1, <3>1, <3>2
  <2>2. pc[r] \in Open /\ pc[o] \in Open
    BY <1>1, <2>1, HandlerStep
  <2> QED BY <1>1, <2>2 DEF ResolveInv
<1>2. ASSUME NEW d \in Devices \ Streams, Live(d)', store'[d] # "none"
      PROVE  loc'[d].token = store'[d]
  <2>1. CASE Kept(d)
    <3>1. Live(d) /\ loc'[d].token = loc[d].token
      BY <1>2, <2>1 DEF Kept
    <3>2. CASE store'[d] = store[d]
      BY <1>2, <3>1, <3>2 DEF ResolveInv
    <3>3. ASSUME NEW r \in Requests, Decide(r), Dev(r) = d, store'[d] = req[r].token
          PROVE  loc'[d].token = store'[d]
      <4>1. pc[r] \in Open
        BY <3>3 DEF Decide, Open
      <4> QED BY <3>1, <3>3, <4>1 DEF ResolveInv
    <3> QED BY <1>2, <3>2, <3>3, StoreStep
  <2>2. ASSUME NEW r \in Requests, PutBinding(r), Dev(r) = d,
               loc'[d] = [token |-> IF Live(d) THEN loc[d].token ELSE req[r].token,
                          src |-> req[r].src, live |-> TRUE]
        PROVE  loc'[d].token = store'[d]
    <3>1. UNCHANGED store /\ pc[r] = "put" /\ req[r].kind = "bind"
      BY <2>2 DEF PutBinding, RequestInv
    <3>2. loc'[d].token = IF Live(d) THEN loc[d].token ELSE req[r].token
      BY <2>2
    <3> QED BY <1>2, <2>2, <3>1, <3>2 DEF ResolveInv
  <2> QED BY <2>1, <2>2, BindingStep
<1>3. ASSUME NEW r \in Requests, Dev(r) \notin Streams, pc'[r] \in Open, Live(Dev(r))'
      PROVE  loc'[Dev(r)].token = req'[r].token
  <2>1. CASE Register(r)
    <3>1. UNCHANGED loc /\ \E k \in Kinds(r) :
            req' = [req EXCEPT ![r] = [kind |-> k.kind, auth |-> k.auth, src |-> at[Dev(r)],
                                       token |-> ChooseToken(Dev(r), r), todo |-> {}]]
      BY <2>1 DEF Register, table
    <3>2. req'[r].token = ChooseToken(Dev(r), r)
      BY <3>1 DEF RequestInv
    <3>3. Live(Dev(r))
      BY <1>3, <3>1 DEF Live, Held
    <3> QED BY <3>1, <3>2, <3>3 DEF ChooseToken
  <2>2. CASE pc[r] \in Open /\ req'[r].token = req[r].token
    <3>1. CASE Kept(Dev(r))
      <4>1. Live(Dev(r)) /\ loc'[Dev(r)].token = loc[Dev(r)].token
        BY <1>3, <3>1 DEF Kept
      <4> QED BY <1>3, <2>2, <4>1 DEF ResolveInv
    <3>2. ASSUME NEW o \in Requests, PutBinding(o), Dev(o) = Dev(r) PROVE FALSE
      <4>1. pc[o] \in Open
        BY <3>2 DEF PutBinding, Open
      <4>2. o = r
        BY <1>3, <2>2, <3>2, <4>1 DEF ResolveInv
      <4>3. pc'[r] = "done"
        BY <3>2, <4>2, MoveEffect DEF PutBinding
      <4> QED BY <1>3, <4>3 DEF Open
    <3> QED BY <3>1, <3>2, BindingStep
  <2> QED BY <1>3, <2>1, <2>2, HandlerStep
<1>4. ASSUME NEW r \in Requests, Dev(r) \notin Streams, pc'[r] \in {"ok", "put"}, req'[r].kind = "bind"
      PROVE  store'[Dev(r)] \in {req'[r].token, "none"}
  <2>1. ~Register(r)
    BY <1>4, MoveEffect DEF Register, Open
  <2>2. pc[r] \in Open /\ req'[r].token = req[r].token /\ req[r].kind = "bind"
    BY <1>4, <2>1, HandlerStep DEF Open
  <2>3. CASE Decide(r) /\ store' = Stored(r)
    BY <2>2, <2>3 DEF Stored
  <2>4. CASE pc[r] \in {"ok", "put"}
    <3>1. store[Dev(r)] \in {req[r].token, "none"}
      BY <1>4, <2>2, <2>4 DEF ResolveInv
    <3>2. ASSUME NEW o \in Requests, Decide(o), Dev(o) = Dev(r) PROVE FALSE
      <4>1. pc[o] = "sent"
        BY <3>2 DEF Decide
      <4>2. o = r
        BY <1>4, <2>2, <3>2, <4>1 DEF ResolveInv, Open
      <4> QED BY <2>4, <4>1, <4>2
    <3> QED BY <2>2, <3>1, <3>2, StoreStep
  <2> QED BY <1>4, <2>1, <2>3, <2>4, HandlerStep DEF Open
<1> QED
  BY <1>1, <1>2, <1>3, <1>4 DEF ResolveInv

----------------------------------------------------------------------------
(* The theorems. *)

\* The empty tables satisfy the invariant.
LEMMA InitInv == Init => IInv
<1> SUFFICES ASSUME Init PROVE IInv
  OBVIOUS
<1> USE NoneIsNone
<1>1. /\ \A d \in Devices : loc[d] = NoBinding /\ ~Held(d) /\ ~Live(d)
      /\ NoBinding.token = "none" /\ NoBinding.src = "none" /\ NoBinding \in Bindings
  BY DEF Init, Held, Live, NoBinding, Bindings
<1>2. \A i \in IPs : AtIp(i) = {}
  BY <1>1 DEF AtIp
<1>3. TableInv
  <2>1. \A i \in IPs : byIP[i] = Cardinality(AtIp(i))
    BY <1>2, FS_EmptySet DEF Init
  <2>2. loc \in [Devices -> Bindings]
    BY <1>1 DEF Init
  <2> QED BY <1>1, <2>1, <2>2 DEF Init, TableInv
<1>4. RequestInv
  <2>1. at \in [Devices -> AllSources \cup {"none"}]
    <3>1. \A d \in Devices : (CHOOSE s \in Sources(d) : TRUE) \in Sources(d)
      BY DeviceAssumption
    <3> QED BY <3>1 DEF Init
  <2>2. NoRequest \in RequestStates
    BY DEF NoRequest, RequestStates
  <2> QED BY <2>1, <2>2 DEF Init, RequestInv, Open
<1>5. SubInv
  <2>1. {q \in Subs : Record(q)} = {}
    BY DEF Init, Record
  <2> QED BY <2>1, FS_EmptySet DEF Init, SubInv
<1>6. NoOrphanSubscriptions
  BY DEF Init, NoOrphanSubscriptions, Record
<1>7. EarnedInv
  BY <1>1 DEF Init, EarnedInv, BindingsProven
<1>8. ResolveInv
  BY <1>1 DEF Init, ResolveInv, Open
<1> QED
  BY <1>3, <1>4, <1>5, <1>6, <1>7, <1>8 DEF IInv

\* Every step of every handler, timer and hook preserves the invariant.
LEMMA InvStep == IInv /\ [Next]_vars => IInv'
BY TableStep, RequestStep, SubStep, OrphanStep, EarnedStep, ResolveStep DEF IInv

\* The invariant holds in every state of every behaviour.
LEMMA Invariance == Spec => []IInv
BY InitInv, InvStep, PTL DEF Spec

\* The four indexes of the location table and the subscription count are exact
\* in every state, and no subscription outlives its registration: not when the
\* hook of a removal runs late, in batches or against a handler between its
\* two looks at the binding.
THEOREM TablesTellOneStory == Spec => []TablesAgree
<1>1. IInv => TablesAgree
  <2> SUFFICES ASSUME IInv PROVE TablesAgree
    OBVIOUS
  <2> USE NoneIsNone
  <2>0. TableInv /\ RequestInv /\ SubInv
    BY DEF IInv
  <2>1. \A t \in Requests : byToken[t] = IF \E d \in Devices : loc[d].token = t
                                          THEN CHOOSE d \in Devices : loc[d].token = t ELSE "none"
    <3> TAKE t \in Requests
    <3>1. \A d \in Devices : loc[d].token = t => d = Dev(t)
      BY <2>0, HeldFields DEF TableInv
    <3>2. CASE loc[Dev(t)].token = t
      <4>1. (CHOOSE d \in Devices : loc[d].token = t) = Dev(t)
        BY <3>1, <3>2
      <4> QED BY <2>0, <3>2, <4>1 DEF TableInv
    <3>3. CASE loc[Dev(t)].token # t
      BY <2>0, <3>1, <3>3 DEF TableInv
    <3> QED BY <3>2, <3>3
  <2>2. \A i \in IPs : byIP[i] = Cardinality({d \in Devices : Held(d) /\ Ip(loc[d].src) = i})
    BY <2>0 DEF TableInv, AtIp
  <2>3. TablesExact
    BY <2>0, <2>1, <2>2 DEF TablesExact, TableInv, SubInv
  <2>4. total \in Nat
    BY <2>0, RecordedFinite DEF SubInv
  <2>5. TypeOK
    BY <2>0, <2>4 DEF TypeOK, TableInv, RequestInv, SubInv
  <2> QED BY <2>3, <2>5 DEF TablesAgree, IInv
<1> QED
  BY <1>1, Invariance, PTL

\* A phone off a stream that has a live binding is reachable under the contact
\* the registrar stored for it, and every binding is where a credential for its
\* AoR was accepted, whatever lapses, wildcards, refreshes and address changes
\* came between a REGISTER, the registrar's answer and Put.
THEOREM BindingsResolveAndAreEarned == Spec => []BindingsHonest
<1>1. IInv => BindingsHonest
  BY DEF IInv, BindingsHonest, TokensResolve, Resolves, ResolveInv, EarnedInv
<1> QED
  BY <1>1, Invariance, PTL

\* The subscription table implements the abstract admission pool: no record is
\* admitted beyond the table's cap or that of the binding it is charged to, and
\* none that has ended comes back.
THEOREM SubscriptionsArePooled == Spec => SubsArePooled
<1> DEFINE paired == {<<q, subToken[q]>> : q \in {o \in Subs : Record(o)}}
<1>0. paired = {<<q, subToken[q]>> : q \in Recorded}
  BY DEF Recorded
<1>1. Init => SubPool!Init
  <2> SUFFICES ASSUME Init PROVE SubPool!Init
    OBVIOUS
  <2>1. \A q \in Subs : sub[q] = "none"
    BY DEF Init
  <2> QED BY <2>1 DEF SubPool!Init, Record
<1>2. IInv /\ [Next]_vars => [SubPool!Next]_(SubPool!vars)
  <2> SUFFICES ASSUME IInv, [Next]_vars PROVE [SubPool!Next]_(SubPool!vars)
    OBVIOUS
  <2>0. SubInv /\ SubChange
    BY SubStep DEF IInv
  <2>1. \A q \in Recorded : subToken'[q] = subToken[q]
    BY <2>0 DEF SubChange
  <2>2. paired' = {<<q, subToken'[q]>> : q \in Recorded'}
    BY DEF Recorded
  <2>3. CASE Recorded' = Recorded /\ Over' = Over
    <3>1. paired' = paired
      BY <1>0, <2>1, <2>2, <2>3
    <3> QED BY <2>3, <3>1 DEF SubPool!vars, Over
  <2>4. ASSUME NEW q \in Subs, q \notin Recorded \cup Over, subToken[q] \in Requests,
               Cardinality(Recorded) < MaxSubs,
               Cardinality(ChargedTo(subToken[q])) < MaxPerBinding,
               Recorded' = Recorded \cup {q}, Over' = Over, subToken' = subToken
        PROVE  SubPool!Next
    <3>1. paired' = paired \cup {<<q, subToken[q]>>}
      BY <1>0, <2>2, <2>4
    <3>2. \A p \in paired : p[1] # q
      BY <1>0, <2>4
    <3>3. q \notin {p \in Subs : sub[p] = "ended"}
      BY <2>4 DEF Over
    <3>4. {p \in Subs : sub[p] = "ended"}' = {p \in Subs : sub[p] = "ended"}
      BY <2>4 DEF Over
    <3>5. Cardinality(paired) < MaxSubs
      BY <1>0, <2>4, PairedCount, RecordedFinite DEF Recorded
    <3>6. Cardinality({p \in paired : p[2] = subToken[q]}) < MaxPerBinding
      <4>1. {p \in paired : p[2] = subToken[q]}
              = {<<o, subToken[o]>> : o \in ChargedTo(subToken[q])}
        BY <1>0 DEF ChargedTo
      <4>2. Cardinality({<<o, subToken[o]>> : o \in ChargedTo(subToken[q])})
              = Cardinality(ChargedTo(subToken[q]))
        BY PairedCount, RecordedFinite DEF ChargedTo, Recorded
      <4> QED BY <2>4, <4>1, <4>2
    <3>7. PICK t \in Requests : t = subToken[q]
      BY <2>4
    <3>8. SubPool!Admit(q, t)
      <4>1. SubPool!Cardinality(paired) < MaxSubs
            /\ SubPool!Cardinality(SubPool!Charged(t)) < MaxPerBinding
        BY <3>5, <3>6, <3>7 DEF SubPool!Cardinality, Cardinality, SubPool!Charged
      <4> QED BY <3>1, <3>2, <3>3, <3>4, <3>7, <4>1 DEF SubPool!Admit
    <3> QED BY <2>4, <3>8 DEF SubPool!Next
  <2>5. ASSUME NEW ending \in SUBSET Recorded, Recorded' = Recorded \ ending, Over' = Over \cup ending
        PROVE  [SubPool!Next]_(SubPool!vars)
    <3> DEFINE gone == {<<q, subToken[q]>> : q \in ending}
    <3>1. paired' = paired \ gone
      BY <1>0, <2>1, <2>2, <2>5
    <3>2. gone \in SUBSET paired
      BY <1>0, <2>5
    <3>3. ending = {p[1] : p \in gone}
      <4>1. \A q \in ending : <<q, subToken[q]>> \in gone /\ <<q, subToken[q]>>[1] = q
        OBVIOUS
      <4>2. \A p \in gone : p[1] \in ending
        OBVIOUS
      <4> QED BY <4>1, <4>2
    <3>4. CASE ending = {}
      <4>1. paired' = paired
        BY <3>1, <3>4
      <4> QED BY <2>5, <3>4, <4>1 DEF SubPool!vars, Over
    <3>5. CASE ending # {}
      <4>1. {p \in Subs : sub[p] = "ended"}' = {p \in Subs : sub[p] = "ended"} \cup {p[1] : p \in gone}
        BY <2>5, <3>3 DEF Over
      <4>2. gone # {}
        BY <3>5
      <4>3. PICK out \in SUBSET paired : out = gone
        BY <3>2
      <4>4. SubPool!Leave(out)
        BY <3>1, <4>1, <4>2, <4>3 DEF SubPool!Leave
      <4> QED BY <4>4 DEF SubPool!Next
    <3> QED BY <3>4, <3>5
  <2> QED BY <2>0, <2>3, <2>4, <2>5 DEF SubChange
<1> QED
  BY <1>1, <1>2, Invariance, PTL DEF Spec, SubsArePooled, SubPool!Spec
============================================================================
