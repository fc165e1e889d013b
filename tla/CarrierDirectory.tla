-------------------------- MODULE CarrierDirectory --------------------------
(***************************************************************************)
(* The carrier directory (carrierdns.go): the refresh goroutine resolves   *)
(* each named carrier through SRV and A lookups with no lock held, applies *)
(* the outcome to the cached entry and publishes a snapshot that admission *)
(* and the dial path read without a lock. The resolver is external: its    *)
(* records change and any one query may fail. A carrier without SRV        *)
(* records has its own host for its one target.                            *)
(***************************************************************************)
EXTENDS Naturals, FiniteSets

CONSTANTS
    Carriers,   \* edge.carriers entries that are DNS names
    Targets,    \* hosts an SRV record may name, or the carrier's own host
    Addrs,      \* addresses they resolve to
    Renumber,   \* may the DNS records change
    TTL, NegTTL \* carrierDNSTTL and carrierDNSNegTTL, in ticks of the sweep

\* What the constants are assumed to be: a failed lookup is tried again no
\* later than a good one (10 s and 300 s in the code).
ConstantsOK == TTL \in Nat /\ NegTTL \in 0..TTL

VARIABLES
    srv, host,                     \* the DNS: SRV targets of a carrier, addresses of a host
    addrs, expiry, failing,        \* carrierEntry; expiry in ticks from now, 0 when passed
    snap,                          \* the published snapshot's addresses
    pc, todo, c, recs, out, changed, elapsed  \* refresh and resolve

vars == <<srv, host, addrs, expiry, failing, snap,
          pc, todo, c, recs, out, changed, elapsed>>
dns == <<srv, host>>
entries == <<addrs, expiry, failing>>
locals == <<todo, c, recs, out, changed, elapsed>>

Nobody == "none"

TypeOK ==
    /\ srv \in [Carriers -> SUBSET Targets] /\ host \in [Targets -> Addrs]
    /\ addrs \in [Carriers -> SUBSET Addrs] /\ expiry \in [Carriers -> 0..TTL]
    /\ failing \subseteq Carriers /\ snap \in [Carriers -> SUBSET Addrs]
    /\ pc \in {"sleep", "check", "srv", "host", "apply"}
    /\ todo \subseteq Carriers /\ c \in Carriers \cup {Nobody} /\ recs \subseteq Targets /\ out \subseteq Addrs
    /\ changed \in BOOLEAN /\ elapsed \in 0..TTL

Init ==
    /\ srv \in [Carriers -> {S \in SUBSET Targets : S # {}}] /\ host \in [Targets -> Addrs]
    /\ addrs = [k \in Carriers |-> {}] /\ expiry = [k \in Carriers |-> 0] /\ failing = {}
    /\ snap = addrs /\ pc = "sleep" /\ todo = {} /\ c = Nobody
    /\ recs = {} /\ out = {} /\ changed = FALSE /\ elapsed = 0

----------------------------------------------------------------------------
(* Run and refresh.                                                        *)

Sweep ==
    /\ pc = "sleep" /\ pc' = "check" /\ todo' = Carriers /\ changed' = FALSE
    /\ UNCHANGED <<dns, entries, snap, c, recs, out, elapsed>>

\* The entry is read, and the clock with it: a fresh one is skipped.
Check ==
    /\ pc = "check" /\ todo # {}
    /\ \E k \in todo :
          /\ todo' = todo \ {k}
          /\ IF expiry[k] > 0 THEN UNCHANGED <<pc, c>> ELSE pc' = "srv" /\ c' = k
    /\ UNCHANGED <<dns, entries, snap, recs, out, changed, elapsed>>

\* lookupSRV: a failure other than "not found" ends the lookup.
LookupSRV ==
    /\ pc = "srv"
    /\ \/ recs' = srv[c] /\ pc' = "host"
       \/ pc' = "apply" /\ UNCHANGED recs
    /\ UNCHANGED <<dns, entries, snap, todo, c, out, changed, elapsed>>

\* hostAddrs, per target: one that fails is skipped.
LookupHost ==
    /\ pc = "host" /\ recs # {}
    /\ \E t \in recs :
          /\ recs' = recs \ {t}
          /\ out' \in {out, out \cup {host[t]}}
    /\ UNCHANGED <<pc, dns, entries, snap, todo, c, changed, elapsed>>

LookupDone ==
    /\ pc = "host" /\ recs = {} /\ pc' = "apply"
    /\ UNCHANGED <<dns, entries, snap, locals>>

Left(ttl) == IF elapsed < ttl THEN ttl - elapsed ELSE 0

\* apply, of a failed lookup: the last good set stays.
Kept(k) == IF out = {} THEN addrs[k] ELSE out

\* apply: a set that resolved replaces the one in use for the TTL, counted
\* from when the lookup began.
Apply ==
    /\ pc = "apply" /\ pc' = "check"
    /\ addrs' = [addrs EXCEPT ![c] = Kept(c)]
    /\ expiry' = [expiry EXCEPT ![c] = Left(IF out = {} THEN NegTTL ELSE TTL)]
    /\ failing' = IF out = {} THEN failing \cup {c} ELSE failing \ {c}
    /\ changed' = (changed \/ out # {})
    /\ out' = {} /\ elapsed' = 0 /\ c' = Nobody
    /\ UNCHANGED <<dns, snap, todo, recs>>

\* publish: every carrier's set, in one atomic store.
Published == IF changed THEN addrs ELSE snap

Publish ==
    /\ pc = "check" /\ todo = {} /\ pc' = "sleep"
    /\ snap' = Published
    /\ UNCHANGED <<dns, entries, locals>>

----------------------------------------------------------------------------
(* The resolver's data, and time: a tick is half a negative TTL.           *)

Readdress ==
    /\ Renumber
    /\ \E t \in Targets, a \in Addrs : host[t] # a /\ host' = [host EXCEPT ![t] = a]
    /\ UNCHANGED <<srv, entries, snap, pc, locals>>

Tick ==
    /\ \E k \in Carriers : expiry[k] > 0
    /\ pc \in {"sleep", "srv", "host"}
    /\ expiry' = [k \in Carriers |-> IF expiry[k] > 0 THEN expiry[k] - 1 ELSE 0]
    /\ elapsed' = IF pc # "sleep" /\ elapsed < TTL THEN elapsed + 1 ELSE elapsed
    /\ UNCHANGED <<dns, addrs, failing, snap, pc, todo, c, recs, out, changed>>

Refresh == Sweep \/ Check \/ LookupSRV \/ LookupHost \/ LookupDone \/ Apply \/ Publish

Next == Refresh \/ Readdress \/ Tick

Spec == Init /\ [][Next]_vars /\ WF_vars(Refresh) /\ WF_vars(Tick)

----------------------------------------------------------------------------
\* A carrier that resolved once keeps a published address: no failed or slow
\* lookup, of it or of another carrier, leaves its calls without a
\* destination or its address unknown (apply, publish).
StaysResolved == [][\A k \in Carriers : snap[k] # {} => snap'[k] # {}]_vars

\* What admission and the dial path read is what the entries hold, but for
\* the refresh that is in progress.
SnapshotCurrent == pc = "sleep" => snap = addrs

\* A resolver outage never turns a carrier's address into an unknown source:
\* a refresh drops an address only when the DNS no longer lists it.
SourcesKept == [][\A k \in Carriers : \A a \in addrs[k] \ addrs'[k] :
                     a \notin {host[t] : t \in srv[k]}]_vars
=============================================================================
