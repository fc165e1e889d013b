-------------------------- MODULE MediaLatchProofs --------------------------
(***************************************************************************)
(* The safety of MediaLatch for any hosts, ports, addresses and number of  *)
(* moves.                                                                  *)
(***************************************************************************)
EXTENDS MediaLatch, TLAPS

SideType == side \in [plane : Planes, pin : BOOLEAN, callee : BOOLEAN, home : Peers, talks : Talks]

\* An absent address is an address, and has no host.
LEMMA NoAddrType == NoAddr \in Addr /\ NoAddr.ip = NoIP /\ NoAddr.port = 0
BY AddressAssumption DEF NoAddr, Addr

\* What seed may change: the host it expects, the address it names and the
\* destination, which is the old one or one the rules allow.
LEMMA SeedFields ==
  ASSUME NEW r \in Latch, NEW a \in Addr, SideType
  PROVE  LET q == Seeded(r, a) IN
         /\ q \in Latch
         /\ q.rank = r.rank /\ q.remote = r.remote /\ q.sig = r.sig /\ q.aged = r.aged
         /\ \/ q = r /\ (a.ip = NoIP \/ a.port = 0)
            \/ a.ip \in IPs /\ a # NoAddr /\ q.exp = a.ip /\ q.named = a
         /\ \/ q.dst = r.dst
            \/ side.pin /\ q.dst.ip = r.sig /\ r.sig # NoIP /\ r.sig \notin Barred
            \/ ~side.pin /\ q.dst.ip = a.ip /\ a.ip \notin Barred /\ ~Refuses(a.ip)
<1> DEFINE q == Seeded(r, a)
           d == IF Installs(r, a) THEN Destination(r, a) ELSE r.dst
<1>1. CASE a.ip = NoIP \/ a.port = 0
  BY <1>1 DEF Seeded
<1>2. CASE ~(a.ip = NoIP \/ a.port = 0)
  <2>1. a.ip \in IPs /\ a.port \in 0..MaxPort /\ a # NoAddr
    BY <1>2 DEF Addr, NoAddr
  <2>2. d \in Addr
    BY <2>1 DEF d, Destination, Latch, Addr
  <2>3. q = [r EXCEPT !.exp = a.ip, !.named = a, !.dst = d]
    BY <1>2 DEF Seeded
  <2> HIDE DEF d
  <2>4. /\ q \in Latch /\ q.exp = a.ip /\ q.named = a /\ q.dst = d
        /\ q.rank = r.rank /\ q.remote = r.remote /\ q.sig = r.sig /\ q.aged = r.aged
    BY <2>1, <2>2, <2>3 DEF Latch
  <2>5. \/ d = r.dst
        \/ side.pin /\ d.ip = r.sig /\ r.sig # NoIP /\ r.sig \notin Barred
        \/ ~side.pin /\ d.ip = a.ip /\ a.ip \notin Barred /\ ~Refuses(a.ip)
    BY DEF d, Installs, Destination, PinnedOK, SideType
  <2> QED BY <2>1, <2>4, <2>5
<1> QED BY <1>1, <1>2

\* relatch forgets the source and expects the new host.
LEMMA ClearFields ==
  ASSUME NEW r \in Latch, NEW a \in Addr
  PROVE  LET q == Cleared(r, a) IN
         /\ q \in Latch
         /\ q.exp = a.ip /\ q.named = NoAddr /\ q.dst = NoAddr /\ q.remote = NoAddr
         /\ q.rank = RankNone /\ q.sig = r.sig
<1>1. a.ip \in IPs \cup {NoIP} /\ NoAddr \in Addr /\ RankNone \in RankNone..RankExact
  BY NoAddrType DEF Addr, RankNone, RankExact
<1> QED BY <1>1 DEF Cleared, Latch

\* A new signalling source changes the destination of a pinned side only.
LEMMA SourceFields ==
  ASSUME NEW r \in Latch, NEW ip \in IPs \cup {NoIP}, SideType
  PROVE  LET q == Sourced(r, ip) IN
         /\ q \in Latch
         /\ q.rank = r.rank /\ q.remote = r.remote /\ q.exp = r.exp /\ q.named = r.named
         /\ q.sig = ip
         /\ \/ q.dst = r.dst
            \/ q.dst = NoAddr
            \/ side.pin /\ q.dst.ip = ip /\ ip # NoIP /\ ip \notin Barred
<1> DEFINE d == IF ~(side.pin /\ r.named # NoAddr /\ r.rank = RankNone) THEN r.dst
                ELSE IF PinnedOK(ip) THEN [ip |-> ip, port |-> r.named.port] ELSE NoAddr
<1>1. d \in Addr
  BY NoAddrType DEF Latch, Addr
<1>2. Sourced(r, ip) = [r EXCEPT !.sig = ip, !.dst = d]
  BY DEF Sourced
<1>3. \/ d = r.dst
      \/ d = NoAddr
      \/ side.pin /\ d.ip = ip /\ ip # NoIP /\ ip \notin Barred
  BY DEF PinnedOK
<1> HIDE DEF d
<1> QED BY <1>1, <1>2, <1>3 DEF Latch

\* A packet changes a latch only by latching it, at a better rank.
LEMMA AcceptFields ==
  ASSUME NEW r \in Latch, NEW src \in Sources
  PROVE  LET q == Accepted(r, src) IN
         /\ q \in Latch
         /\ q.exp = r.exp /\ q.named = r.named /\ q.sig = r.sig /\ q.dst = r.dst
         /\ ~Better(r, src) => q = r
         /\ Better(r, src) => /\ q.remote = src /\ q.rank = RankOf(r, src)
                              /\ q.rank > r.rank
<1>1. src \in Addr /\ RankOf(r, src) \in RankNone..RankExact
  BY AddressAssumption DEF Addr, RankOf, RankNone, RankAny, RankSignalled, RankExact
<1>2. CASE Better(r, src)
  <2>1. Accepted(r, src) = [r EXCEPT !.remote = src, !.rank = RankOf(r, src), !.aged = FALSE]
    BY <1>2 DEF Accepted
  <2>2. RankOf(r, src) > r.rank
    BY <1>2 DEF Better
  <2>3. Accepted(r, src) \in Latch
    BY <1>1, <2>1 DEF Latch
  <2> QED BY <1>1, <1>2, <2>1, <2>2, <2>3 DEF Latch
<1>3. CASE ~Better(r, src)
  BY <1>3 DEF Accepted
<1> QED BY <1>2, <1>3

\* A latch that ages stays a latch.
LEMMA AgedType ==
  ASSUME NEW r \in Latch
  PROVE  LET q == [r EXCEPT !.aged = TRUE] IN
         /\ q \in Latch
         /\ q.exp = r.exp /\ q.named = r.named /\ q.sig = r.sig /\ q.dst = r.dst
         /\ q.remote = r.remote /\ q.rank = r.rank
BY DEF Latch

\* The addresses a handler applies.
LEMMA PointedAddrs ==
  ASSUME NEW a \in Addr, NEW p \in 0..MaxPort
  PROVE  /\ NextPort(a) \in Addr /\ NextPort(a).ip \in {NoIP, a.ip}
         /\ Explicit(a, p) \in Addr /\ Explicit(a, p).ip \in {NoIP, a.ip}
         /\ [a EXCEPT !.port = 0] \in Addr /\ [a EXCEPT !.port = 0].ip = a.ip
<1>1. NextPort(a) \in Addr /\ NextPort(a).ip \in {NoIP, a.ip}
  BY NoAddrType, AddressAssumption DEF NextPort, HasNext, Addr
<1>2. Explicit(a, p) \in Addr /\ Explicit(a, p).ip \in {NoIP, a.ip}
  BY NoAddrType, AddressAssumption DEF Explicit, Addr
<1>3. [a EXCEPT !.port = 0] \in Addr /\ [a EXCEPT !.port = 0].ip = a.ip
  BY AddressAssumption DEF Addr
<1> QED BY <1>1, <1>2, <1>3
-----------------------------------------------------------------------------
\* One critical section keeps the types of the latches and the histories.
LEMMA SetTypes ==
  ASSUME TypeOK, NEW k \in Kinds, NEW r \in Latch, Set(k, r)
  PROVE  /\ l' \in [Kinds -> Latch]
         /\ heard' \in [Kinds -> [vouched : BOOLEAN, exact : BOOLEAN, early : BOOLEAN]]
         /\ trusted' \in [Kinds -> SUBSET (IPs \cup {NoIP})]
<1> DEFINE e == heard[k].exact /\ r.named = l[k].named
<1>1. l' \in [Kinds -> Latch]
  BY DEF TypeOK, Set
<1>2. heard' \in [Kinds -> [vouched : BOOLEAN, exact : BOOLEAN, early : BOOLEAN]]
  <2>1. heard' = [heard EXCEPT ![k].exact = e]
    BY DEF Set
  <2>2. e \in BOOLEAN
    BY DEF TypeOK
  <2> HIDE DEF e
  <2> QED BY <2>1, <2>2 DEF TypeOK
<1>3. trusted' \in [Kinds -> SUBSET (IPs \cup {NoIP})]
  <2>1. Vouched(r) \subseteq IPs \cup {NoIP}
    BY DEF Vouched, Latch
  <2> QED BY <2>1 DEF TypeOK, Set
<1> QED BY <1>1, <1>2, <1>3

\* The addresses of the two latches, as the handler seeds and clears them.
LEMMA StepAddrs ==
  ASSUME TypeOK, NEW k \in Kinds
  PROVE  /\ SeedAddr(k) \in Addr /\ SeedAddr(k).ip \in {NoIP, new.remote.ip}
         /\ ClearAddr(k) \in Addr /\ ClearAddr(k).ip = new.remote.ip
         /\ SeedAddr("rtp") = new.remote /\ ClearAddr("rtp") = new.remote
         /\ Explicit(new.remote, new.rtcp) \in Addr
         /\ Explicit(new.remote, new.rtcp).ip \in {NoIP, new.remote.ip}
<1>1. new.remote \in Addr /\ new.rtcp \in 0..MaxPort
  BY DEF TypeOK
<1>2. HasNext(new.remote) => NextPort(new.remote).ip = new.remote.ip
  BY <1>1 DEF NextPort, Addr
<1> QED BY <1>1, <1>2, PointedAddrs DEF SeedAddr, ClearAddr

\* Each step keeps the types.
LEMMA TypeStep == TypeOK /\ [Next]_vars => TypeOK'
<1> SUFFICES ASSUME TypeOK, [Next]_vars PROVE TypeOK'
  OBVIOUS
<1> DEFINE Points == {"idle", "source", "point", "clear", "reseed", "seed", "explicit", "start"}
<1>0. SideType /\ AddressAssumption!1
  BY AddressAssumption DEF TypeOK, SideType
<1>1. ASSUME NEW a \in SdpAddrs, NEW p \in RtcpPorts, NEW ip \in Peers, Signal(a, p, ip)
      PROVE  TypeOK'
  <2>1. a \in Addr /\ p \in 0..MaxPort /\ ip \in IPs
    BY AddressAssumption DEF Addr
  <2>2. new' \in [remote : Addr, rtcp : 0..MaxPort, src : IPs \cup {NoIP}]
    BY <1>1, <2>1 DEF Signal
  <2>3. points' \in 0..MaxPoints
    BY <1>1, AddressAssumption DEF Signal, TypeOK
  <2> QED BY <1>1, <2>2, <2>3 DEF Signal, TypeOK, Kinds
<1>2. CASE Point
  BY <1>2 DEF Point, TypeOK, Kinds
<1>3. ASSUME NEW k \in Kinds, SetSource(k) PROVE TypeOK'
  <2>1. l[k] \in Latch /\ new.src \in IPs \cup {NoIP}
    BY DEF TypeOK
  <2>2. Sourced(l[k], new.src) \in Latch
    BY <1>0, <2>1, SourceFields
  <2> QED BY <1>3, <2>2, SetTypes DEF SetSource, TypeOK, Kinds
<1>4. ASSUME NEW k \in Kinds, Clear(k) PROVE TypeOK'
  <2> DEFINE r == Cleared(l[k], ClearAddr(k))
  <2>1. l[k] \in Latch /\ r \in Latch
    BY StepAddrs, ClearFields DEF TypeOK
  <2>2. Vouched(r) \subseteq IPs \cup {NoIP}
    BY <2>1 DEF Vouched, Latch
  <2>3. l' = [l EXCEPT ![k] = r] /\ trusted' = [trusted EXCEPT ![k] = Vouched(r)]
        /\ left' = [left EXCEPT ![k] = l[k].remote]
    BY <1>4 DEF Clear
  <2> HIDE DEF r
  <2>4. /\ l' \in [Kinds -> Latch] /\ trusted' \in [Kinds -> SUBSET (IPs \cup {NoIP})]
        /\ left' \in [Kinds -> Addr]
    BY <2>1, <2>2, <2>3 DEF TypeOK, Latch
  <2>5. heard' \in [Kinds -> [vouched : BOOLEAN, exact : BOOLEAN, early : BOOLEAN]]
    BY <1>4 DEF Clear, TypeOK, Unheard
  <2> QED BY <1>4, <2>4, <2>5 DEF Clear, TypeOK
<1>5. ASSUME NEW k \in Kinds, Reseed(k) PROVE TypeOK'
  <2>1. l[k] \in Latch /\ ClearAddr(k) \in Addr
    BY StepAddrs DEF TypeOK
  <2>2. Seeded(l[k], ClearAddr(k)) \in Latch
    BY <1>0, <2>1, SeedFields
  <2> QED BY <1>5, <2>2, SetTypes DEF Reseed, TypeOK, Kinds
<1>6. ASSUME NEW k \in Kinds, SetRemote(k) PROVE TypeOK'
  <2>1. l[k] \in Latch /\ SeedAddr(k) \in Addr
    BY StepAddrs DEF TypeOK
  <2>2. Seeded(l[k], SeedAddr(k)) \in Latch
    BY <1>0, <2>1, SeedFields
  <2> QED BY <1>6, <2>2, SetTypes DEF SetRemote, TypeOK, Kinds
<1>7. CASE SetRTCPRemote
  <2>1. "rtcp" \in Kinds /\ l["rtcp"] \in Latch /\ Explicit(new.remote, new.rtcp) \in Addr
    BY StepAddrs DEF TypeOK, Kinds
  <2>2. Seeded(l["rtcp"], Explicit(new.remote, new.rtcp)) \in Latch
    BY <1>0, <2>1, SeedFields
  <2> QED BY <1>7, <2>1, <2>2, SetTypes DEF SetRTCPRemote, TypeOK, Kinds
<1>8. CASE Start \/ StartOther
  <2>1. Nothing \in [remote : Addr, rtcp : 0..MaxPort, src : IPs \cup {NoIP}]
    BY NoAddrType, AddressAssumption DEF Nothing
  <2>2. TRUE \in BOOLEAN /\ Idle \in Points \X Kinds
    BY DEF Idle, Kinds
  <2> QED BY <1>8, <2>1, <2>2 DEF Start, StartOther, TypeOK
<1>9. ASSUME NEW k \in Kinds, NEW src \in Sources, Hear(k, src) PROVE TypeOK'
  <2> DEFINE h == [vouched |-> heard[k].vouched \/ RankOf(l[k], src) >= RankSignalled,
                   exact |-> heard[k].exact \/ src = l[k].named,
                   early |-> heard[k].early \/ (Better(l[k], src) /\ l[k].named = NoAddr)]
  <2>1. Accepted(l[k], src) \in Latch
    BY AcceptFields DEF TypeOK
  <2>2. h \in [vouched : BOOLEAN, exact : BOOLEAN, early : BOOLEAN]
    BY DEF TypeOK, Better, Same
  <2>3. heard' = [heard EXCEPT ![k] = h]
    BY <1>9 DEF Hear
  <2> HIDE DEF h
  <2>4. l' \in [Kinds -> Latch] /\ heard' \in [Kinds -> [vouched : BOOLEAN, exact : BOOLEAN, early : BOOLEAN]]
    BY <1>9, <2>1, <2>2, <2>3 DEF Hear, TypeOK
  <2> QED BY <1>9, <2>4 DEF Hear, TypeOK
<1>10. ASSUME NEW k \in Kinds, Age(k) PROVE TypeOK'
  <2> DEFINE r == [l[k] EXCEPT !.aged = TRUE]
  <2>1. r \in Latch
    BY AgedType DEF TypeOK
  <2>2. l' = [l EXCEPT ![k] = r]
    BY <1>10 DEF Age
  <2> HIDE DEF r
  <2>3. l' \in [Kinds -> Latch]
    BY <2>1, <2>2 DEF TypeOK
  <2> QED BY <1>10, <2>3 DEF Age, TypeOK
<1>11. CASE UNCHANGED vars
  BY <1>11 DEF vars, TypeOK
<1> QED BY <1>1, <1>2, <1>3, <1>4, <1>5, <1>6, <1>7, <1>8, <1>9, <1>10, <1>11 DEF Next, Signalling

-----------------------------------------------------------------------------
\* The inductive invariant behind the safety properties.

\* A re-arming is under way and has not reached latch k.
PendingClear(k) ==
    \/ at = <<"clear", k>>
    \/ k = "rtcp" /\ at \in {<<"clear", "rtp">>, <<"reseed", "rtp">>}

\* The handler applies the address it recorded; a client has one SIP host.
PointInv ==
    /\ at[1] \in {"clear", "reseed", "seed", "explicit"} => new.remote = applied
    /\ side.pin => new.src \in {NoIP, side.home}

\* A latch expects the host the side was last pointed at, or none.
ArmInv(k) ==
    /\ l[k].named # NoAddr => l[k].named.ip = l[k].exp /\ l[k].exp \in IPs
    /\ ~PendingClear(k) => l[k].exp \in {NoIP, applied.ip}
    /\ l[k].rank # RankNone => l[k].remote.ip \in IPs
    /\ side.pin => l[k].sig \in {NoIP, side.home}

TrustInv(k) ==
    /\ Vouched(l[k]) \subseteq trusted[k]
    /\ l[k].rank >= RankSignalled => l[k].remote.ip \in trusted[k]

\* Unless it latched early, RTP's latch is exact just when it is latched to
\* the named address.
HomeInv ==
    LET r == l["rtp"] IN
    /\ at # <<"clear", "rtp">> => r.named \in {NoAddr, applied}
    /\ ~heard["rtp"].early =>
           /\ r.named = NoAddr => r.rank = RankNone
           /\ r.rank = RankExact => r.remote = r.named
           /\ r.rank # RankNone /\ r.remote = r.named => r.rank = RankExact
           /\ heard["rtp"].exact => r.rank = RankExact

\* The safety properties of one latch.
StrictAt(k) == ~Loose /\ l[k].rank # RankNone => l[k].remote.ip = l[k].exp
DestAt(k) ==
    l[k].dst # NoAddr =>
        /\ l[k].dst.ip \notin Barred
        /\ side.pin => l[k].dst.ip = side.home
        /\ ~side.pin => ~Refuses(l[k].dst.ip)
TakenAt(k) == heard[k].vouched => l[k].rank # RankNone /\ l[k].remote.ip \in trusted[k]

Good(k) == ArmInv(k) /\ TrustInv(k) /\ StrictAt(k) /\ DestAt(k) /\ TakenAt(k)

IInv == TypeOK /\ PointInv /\ (\A k \in Kinds : Good(k)) /\ HomeInv

\* The invariant is as strong as the properties.
LEMMA InvSuffices == IInv => StrictSource /\ DestinationSafe /\ TakenBack /\ MediaGoesHome
<1> SUFFICES ASSUME IInv PROVE StrictSource /\ DestinationSafe /\ TakenBack /\ MediaGoesHome
  OBVIOUS
<1>1. StrictSource
  BY DEF IInv, Good, StrictAt, StrictSource
<1>2. DestinationSafe
  BY DEF IInv, Good, DestAt, DestinationSafe, Refuses
<1>3. TakenBack
  BY DEF IInv, Good, TakenAt, TakenBack
<1>4. MediaGoesHome
  BY DEF IInv, HomeInv, MediaGoesHome, GoesHome, Dest, Waiting, RankNone, RankExact
<1> QED BY <1>1, <1>2, <1>3, <1>4

\* A latch that a step leaves alone stays good.
LEMMA GoodFrame ==
  ASSUME NEW k \in Kinds, Good(k), side' = side, applied' = applied,
         l'[k] = l[k], heard'[k] = heard[k], trusted'[k] = trusted[k],
         PendingClear(k) => PendingClear(k)'
  PROVE  Good(k)'
<1>1. ArmInv(k)'
  BY DEF Good, ArmInv
<1>2. TrustInv(k)' /\ TakenAt(k)'
  BY DEF Good, TrustInv, TakenAt, Vouched
<1>3. StrictAt(k)' /\ DestAt(k)'
  BY DEF Good, StrictAt, DestAt, Loose, Barred, Refuses, Restrict
<1> QED BY <1>1, <1>2, <1>3 DEF Good

\* seed on latch k, which expects no other host than the one it is seeded with.
LEMMA SeedStep ==
  ASSUME TypeOK, NEW k \in Kinds, Good(k), NEW a \in Addr, a.ip \in {NoIP, applied.ip},
         ~PendingClear(k), Set(k, Seeded(l[k], a)), side' = side, applied' = applied
  PROVE  Good(k)'
<1> DEFINE r == l[k]
           q == Seeded(l[k], a)
<1>1. r \in Latch /\ SideType
  BY DEF TypeOK, SideType
<1>2. /\ q \in Latch
      /\ q.rank = r.rank /\ q.remote = r.remote /\ q.sig = r.sig
      /\ \/ q = r
         \/ a.ip \in IPs /\ q.exp = a.ip /\ q.named = a
      /\ \/ q.dst = r.dst
         \/ side.pin /\ q.dst.ip = r.sig /\ r.sig # NoIP /\ r.sig \notin Barred
         \/ ~side.pin /\ q.dst.ip = a.ip /\ a.ip \notin Barred /\ ~Refuses(a.ip)
  BY <1>1, SeedFields
<1>3. l'[k] = q /\ heard'[k].vouched = heard[k].vouched /\ trusted'[k] = trusted[k] \cup Vouched(q)
  BY DEF Set, TypeOK
<1> HIDE DEF q
<1>4. ArmInv(k)'
  BY <1>2, <1>3 DEF Good, ArmInv
<1>5. TrustInv(k)' /\ TakenAt(k)'
  BY <1>2, <1>3 DEF Good, TrustInv, TakenAt, Vouched
<1>6. StrictAt(k)'
  BY <1>2, <1>3, AddressAssumption DEF Good, StrictAt, ArmInv, Loose
<1>7. DestAt(k)'
  BY <1>2, <1>3 DEF Good, DestAt, ArmInv, Barred, Refuses, Restrict
<1> QED BY <1>4, <1>5, <1>6, <1>7 DEF Good

\* setSignallingSource on latch k: a client's source is its one SIP host.
LEMMA SourceStep ==
  ASSUME TypeOK, PointInv, NEW k \in Kinds, Good(k), Set(k, Sourced(l[k], new.src)),
         side' = side, applied' = applied, ~PendingClear(k)
  PROVE  Good(k)'
<1> DEFINE r == l[k]
           q == Sourced(l[k], new.src)
<1>1. r \in Latch /\ SideType /\ new.src \in IPs \cup {NoIP}
  BY DEF TypeOK, SideType
<1>2. /\ q.rank = r.rank /\ q.remote = r.remote /\ q.exp = r.exp /\ q.named = r.named
      /\ q.sig = new.src
      /\ \/ q.dst = r.dst
         \/ q.dst = NoAddr
         \/ side.pin /\ q.dst.ip = new.src /\ new.src # NoIP /\ new.src \notin Barred
  BY <1>1, SourceFields
<1>3. l'[k] = q /\ heard'[k].vouched = heard[k].vouched /\ trusted'[k] = trusted[k] \cup Vouched(q)
  BY DEF Set, TypeOK
<1> HIDE DEF q
<1>4. ArmInv(k)'
  BY <1>2, <1>3 DEF Good, ArmInv, PointInv
<1>5. TrustInv(k)' /\ TakenAt(k)'
  BY <1>2, <1>3 DEF Good, TrustInv, TakenAt, Vouched
<1>6. StrictAt(k)'
  BY <1>2, <1>3 DEF Good, StrictAt, Loose
<1>7. DestAt(k)'
  BY <1>2, <1>3 DEF Good, DestAt, PointInv, Barred, Refuses, Restrict
<1> QED BY <1>4, <1>5, <1>6, <1>7 DEF Good

\* The first half of relatch on latch k.
LEMMA ClearStep ==
  ASSUME TypeOK, NEW k \in Kinds, Good(k), new.remote = applied, Clear(k)
  PROVE  Good(k)'
<1> DEFINE r == l[k]
           q == Cleared(l[k], ClearAddr(k))
<1>1. r \in Latch /\ ClearAddr(k) \in Addr /\ ClearAddr(k).ip = applied.ip
  BY StepAddrs DEF TypeOK
<1>2. /\ q.exp = applied.ip /\ q.named = NoAddr /\ q.dst = NoAddr /\ q.remote = NoAddr
      /\ q.rank = RankNone /\ q.sig = r.sig
  BY <1>1, ClearFields
<1>3. /\ l'[k] = q /\ heard'[k].vouched = FALSE /\ trusted'[k] = Vouched(q)
      /\ side' = side /\ applied' = applied
  BY DEF Clear, TypeOK, Unheard
<1> HIDE DEF q
<1>4. ArmInv(k)'
  BY <1>2, <1>3 DEF Good, ArmInv
<1>5. TrustInv(k)'
  BY <1>2, <1>3 DEF TrustInv, Vouched, RankNone, RankSignalled
<1>6. StrictAt(k)' /\ DestAt(k)' /\ TakenAt(k)'
  BY <1>2, <1>3 DEF StrictAt, DestAt, TakenAt
<1> QED BY <1>4, <1>5, <1>6 DEF Good

\* A packet on latch k.
LEMMA HearStep ==
  ASSUME TypeOK, NEW k \in Kinds, Good(k), NEW src \in Sources, Hear(k, src)
  PROVE  Good(k)'
<1> DEFINE r == l[k]
           q == Accepted(l[k], src)
<1>1. r \in Latch /\ src.ip \in IPs /\ src.ip # NoIP
  BY AddressAssumption DEF TypeOK
<1>2. /\ q.exp = r.exp /\ q.named = r.named /\ q.sig = r.sig /\ q.dst = r.dst
      /\ ~Better(r, src) => q = r
      /\ Better(r, src) => q.remote = src /\ q.rank = RankOf(r, src) /\ q.rank > r.rank
  BY <1>1, AcceptFields
<1>3. /\ l'[k] = q /\ trusted'[k] = trusted[k] /\ side' = side /\ applied' = applied /\ at' = at
      /\ heard'[k].vouched = (heard[k].vouched \/ RankOf(r, src) >= RankSignalled)
  BY DEF Hear, TypeOK
<1>4. r.rank \in 0..3 /\ RankOf(r, src) \in 0..3
  BY <1>1 DEF Latch, RankOf, RankNone, RankAny, RankSignalled, RankExact
<1>5. RankOf(r, src) >= RankSignalled => src.ip \in trusted[k]
  BY <1>1 DEF RankOf, RankNone, RankAny, RankSignalled, RankExact, Good, ArmInv, TrustInv, Vouched, NoAddr
<1>6. ~Loose /\ RankOf(r, src) # RankNone => src.ip = r.exp
  BY DEF RankOf
<1> HIDE DEF q
<1>7. ArmInv(k)'
  BY <1>1, <1>2, <1>3 DEF Good, ArmInv, PendingClear
<1>8. TrustInv(k)'
  BY <1>2, <1>3, <1>5 DEF Good, TrustInv, Vouched
<1>9. StrictAt(k)'
  BY <1>2, <1>3, <1>4, <1>6 DEF Good, StrictAt, Loose, RankNone
<1>10. DestAt(k)'
  BY <1>2, <1>3 DEF Good, DestAt, Barred, Refuses, Restrict
<1>11. TakenAt(k)'
  <2>1. CASE Better(r, src)
    <3>1. heard[k].vouched => RankOf(r, src) >= RankSignalled
      BY <1>2, <1>4, <2>1 DEF Good, TakenAt, RankNone, RankSignalled
    <3>2. heard'[k].vouched => RankOf(r, src) >= RankSignalled
      BY <1>3, <3>1
    <3>3. RankOf(r, src) >= RankSignalled => q.rank # RankNone /\ q.remote.ip \in trusted[k]
      BY <1>2, <1>4, <1>5, <2>1 DEF RankNone, RankSignalled
    <3> QED BY <1>3, <3>2, <3>3 DEF TakenAt
  <2>2. CASE ~Better(r, src)
    <3>1. RankOf(r, src) >= RankSignalled => r.rank # RankNone /\ r.remote.ip \in trusted[k]
      BY <1>4, <1>5, <2>2 DEF Better, Same, Good, TrustInv, RankNone, RankSignalled
    <3> QED BY <1>2, <1>3, <2>2, <3>1 DEF Good, TakenAt
  <2> QED BY <2>1, <2>2
<1> QED BY <1>7, <1>8, <1>9, <1>10, <1>11 DEF Good

\* Time passing on latch k.
LEMMA AgeStep ==
  ASSUME TypeOK, NEW k \in Kinds, Good(k), Age(k)
  PROVE  Good(k)'
<1> DEFINE r == l[k]
           q == [l[k] EXCEPT !.aged = TRUE]
<1>1. r \in Latch
  BY DEF TypeOK
<1>2. /\ q.exp = r.exp /\ q.named = r.named /\ q.sig = r.sig /\ q.dst = r.dst
      /\ q.remote = r.remote /\ q.rank = r.rank
  BY <1>1, AgedType
<1>3. l'[k] = q /\ UNCHANGED <<side, applied, at, heard, trusted>>
  BY DEF Age, TypeOK
<1> HIDE DEF q
<1>4. ArmInv(k)' /\ TrustInv(k)' /\ TakenAt(k)'
  BY <1>2, <1>3 DEF Good, ArmInv, TrustInv, TakenAt, PendingClear, Vouched
<1>5. StrictAt(k)' /\ DestAt(k)'
  BY <1>2, <1>3 DEF Good, StrictAt, DestAt, Loose, Barred, Refuses, Restrict
<1> QED BY <1>4, <1>5 DEF Good

-----------------------------------------------------------------------------
\* HomeInv looks at what RTP is latched to and at its history only.
LEMMA HomeFrame ==
  ASSUME HomeInv, at # <<"clear", "rtp">>, applied' = applied, heard'["rtp"] = heard["rtp"],
         l'["rtp"].named = l["rtp"].named, l'["rtp"].rank = l["rtp"].rank,
         l'["rtp"].remote = l["rtp"].remote
  PROVE  HomeInv'
BY DEF HomeInv

\* Seeding RTP with the recorded address.
LEMMA HomeSeed ==
  ASSUME TypeOK, HomeInv, at # <<"clear", "rtp">>, applied' = applied,
         Set("rtp", Seeded(l["rtp"], applied))
  PROVE  HomeInv'
<1> DEFINE r == l["rtp"]
           q == Seeded(l["rtp"], applied)
<1>1. "rtp" \in Kinds /\ r \in Latch /\ SideType /\ applied \in Addr
  BY DEF TypeOK, SideType, Kinds
<1>2. /\ q.rank = r.rank /\ q.remote = r.remote
      /\ \/ q = r
         \/ q.named = applied /\ applied # NoAddr
  BY <1>1, SeedFields
<1>3. /\ l'["rtp"] = q
      /\ heard'["rtp"].exact = (heard["rtp"].exact /\ q.named = r.named)
      /\ heard'["rtp"].early = heard["rtp"].early
  BY <1>1 DEF Set, TypeOK
<1>4. r.named \in {NoAddr, applied} /\ q.named \in {NoAddr, applied}
  BY <1>2 DEF HomeInv
<1> HIDE DEF q
<1>5. CASE q.named = r.named
  <2>1. heard'["rtp"].exact = heard["rtp"].exact
    BY <1>1, <1>3, <1>5 DEF TypeOK
  <2> QED BY <1>2, <1>3, <1>4, <1>5, <2>1 DEF HomeInv
<1>6. CASE q.named # r.named
  <2>1. r.named = NoAddr /\ q.named # NoAddr
    BY <1>2, <1>4, <1>6
  <2>2. ~heard'["rtp"].exact
    BY <1>3, <1>6
  <2>3. ~heard["rtp"].early => q.rank = RankNone
    BY <1>2, <2>1 DEF HomeInv
  <2> QED BY <1>3, <1>4, <2>1, <2>2, <2>3 DEF HomeInv, RankNone, RankExact
<1> QED BY <1>5, <1>6

\* A packet on the RTP latch.
LEMMA HomeHear ==
  ASSUME TypeOK, HomeInv, Good("rtp"), NEW src \in Sources, Hear("rtp", src)
  PROVE  HomeInv'
<1> DEFINE r == l["rtp"]
           q == Accepted(l["rtp"], src)
<1>1. "rtp" \in Kinds /\ r \in Latch /\ src.ip \in IPs /\ src # NoAddr
  BY AddressAssumption DEF TypeOK, Kinds, NoAddr
<1>2. /\ q.named = r.named
      /\ ~Better(r, src) => q = r
      /\ Better(r, src) => q.remote = src /\ q.rank = RankOf(r, src) /\ q.rank > r.rank
  BY <1>1, AcceptFields
<1>3. /\ l'["rtp"] = q /\ applied' = applied /\ at' = at
      /\ heard'["rtp"].exact = (heard["rtp"].exact \/ src = r.named)
      /\ heard'["rtp"].early = (heard["rtp"].early \/ (Better(r, src) /\ r.named = NoAddr))
  BY <1>1 DEF Hear, TypeOK
<1>4. r.rank \in 0..3 /\ RankOf(r, src) \in 0..3
  BY <1>1 DEF Latch, RankOf, RankNone, RankAny, RankSignalled, RankExact
<1>5. RankOf(r, src) = RankExact <=> src = r.named
  BY <1>1 DEF RankOf, RankNone, RankAny, RankSignalled, RankExact, Good, ArmInv
<1> HIDE DEF q
<1>6. CASE Better(r, src)
  <2>1. q.remote = src /\ q.rank = RankOf(r, src) /\ q.rank # RankNone /\ r.rank # RankExact
    BY <1>2, <1>4, <1>6 DEF RankNone, RankExact
  <2> SUFFICES ASSUME ~heard'["rtp"].early
               PROVE  /\ q.named # NoAddr
                      /\ q.rank = RankExact => q.remote = q.named
                      /\ q.rank # RankNone /\ q.remote = q.named => q.rank = RankExact
                      /\ heard'["rtp"].exact => q.rank = RankExact
    BY <1>2, <1>3 DEF HomeInv
  <2>2. r.named # NoAddr /\ ~heard["rtp"].early
    BY <1>3, <1>6
  <2>3. ~heard["rtp"].exact
    BY <2>1, <2>2 DEF HomeInv
  <2>4. heard'["rtp"].exact => src = r.named
    BY <1>3, <2>3
  <2> QED BY <1>2, <1>5, <2>1, <2>2, <2>4
<1>7. CASE ~Better(r, src)
  <2>1. q = r
    BY <1>2, <1>7
  <2>2. ~heard["rtp"].early /\ src = r.named => r.rank = RankExact
    <3> SUFFICES ASSUME ~heard["rtp"].early, src = r.named PROVE r.rank = RankExact
      OBVIOUS
    <3>1. CASE Same(r, src)
      BY <3>1 DEF Same, HomeInv
    <3>2. CASE ~Same(r, src)
      BY <1>4, <1>5, <1>7, <3>2 DEF Better, RankExact
    <3> QED BY <3>1, <3>2
  <2>3. (heard'["rtp"].early) = heard["rtp"].early
    BY <1>1, <1>3, <1>7 DEF TypeOK
  <2>4. ~heard["rtp"].early /\ heard'["rtp"].exact => r.rank = RankExact
    BY <1>3, <2>2 DEF HomeInv
  <2> QED BY <1>3, <2>1, <2>3, <2>4 DEF HomeInv
<1> QED BY <1>6, <1>7

-----------------------------------------------------------------------------
\* A latch as an allocation leaves it: unlatched, expecting nobody or the
\* host of the offer.
AllocatedOK(r, a) ==
    /\ r \in Latch
    /\ r.rank = RankNone /\ r.remote = NoAddr
    /\ r.named # NoAddr => r.named.ip = r.exp /\ r.exp \in IPs
    /\ r.exp \in {NoIP, a.ip}
    /\ side.pin => r.sig \in {NoIP, side.home}
    /\ r.dst # NoAddr =>
           /\ r.dst.ip \notin Barred
           /\ side.pin => r.dst.ip = side.home
           /\ ~side.pin => ~Refuses(r.dst.ip)

\* Seeding at allocation.
LEMMA SeedAllocated ==
  ASSUME SideType, NEW a \in Addr, NEW b \in Addr, b.ip \in {NoIP, a.ip}, NEW r, AllocatedOK(r, a)
  PROVE  AllocatedOK(Seeded(r, b), a)
<1> DEFINE q == Seeded(r, b)
<1>1. r \in Latch
  BY DEF AllocatedOK
<1>2. /\ q \in Latch
      /\ q.rank = r.rank /\ q.remote = r.remote /\ q.sig = r.sig
      /\ \/ q = r
         \/ b.ip \in IPs /\ q.exp = b.ip /\ q.named = b
      /\ \/ q.dst = r.dst
         \/ side.pin /\ q.dst.ip = r.sig /\ r.sig # NoIP /\ r.sig \notin Barred
         \/ ~side.pin /\ q.dst.ip = b.ip /\ b.ip \notin Barred /\ ~Refuses(b.ip)
  BY <1>1, SeedFields
<1> HIDE DEF q
<1>3. AllocatedOK(q, a)
  BY <1>2 DEF AllocatedOK
<1> QED BY <1>3 DEF q

\* The initial states satisfy the invariant.
LEMMA InitInv == Init => IInv
<1> SUFFICES ASSUME Init PROVE IInv
  OBVIOUS
<1> DEFINE f == Fresh(IF side.plane = "public" /\ ~side.callee THEN side.home ELSE NoIP)
<1>1. SideType
  BY DEF Init, SideType
<1>2. side.home \in IPs
  BY <1>1, AddressAssumption DEF SideType
<1>3. ASSUME NEW a \in Addr PROVE AllocatedOK(f, a)
  <2> DEFINE ip == IF side.plane = "public" /\ ~side.callee THEN side.home ELSE NoIP
  <2>1. ip \in IPs \cup {NoIP} /\ ip \in {NoIP, side.home}
    BY <1>2
  <2> HIDE DEF ip
  <2>2. /\ Fresh(ip) \in Latch /\ Fresh(ip).sig = ip /\ Fresh(ip).rank = RankNone
        /\ Fresh(ip).exp = NoIP /\ Fresh(ip).named = NoAddr /\ Fresh(ip).dst = NoAddr
        /\ Fresh(ip).remote = NoAddr
    BY <2>1, NoAddrType DEF Fresh, Latch, RankNone, RankExact
  <2>3. AllocatedOK(Fresh(ip), a)
    BY <2>1, <2>2 DEF AllocatedOK
  <2> QED BY <2>3 DEF ip
<1> HIDE DEF f
<1> DEFINE Loaded ==
             /\ applied \in Addr
             /\ \A k \in Kinds : AllocatedOK(l[k], applied)
             /\ l["rtp"].named \in {NoAddr, applied}
             /\ l \in [Kinds -> Latch]
<1>4. Loaded
  <2>1. CASE l = [k \in Kinds |-> f] /\ applied = NoAddr
    <3>1. AllocatedOK(f, NoAddr) /\ f.named = NoAddr
      BY <1>3, NoAddrType DEF f, Fresh
    <3> QED BY <2>1, <3>1, NoAddrType DEF AllocatedOK, Kinds
  <2>2. ASSUME NEW a \in SdpAddrs, NEW p \in RtcpPorts, applied = a,
               l = [k \in Kinds |-> IF k = "rtp" THEN Seeded(f, a)
                                    ELSE Seeded(Seeded(f, NextPort(a)), Explicit(a, p))]
        PROVE  Loaded
    <3>1. a \in Addr /\ p \in 0..MaxPort
      BY AddressAssumption DEF Addr
    <3>2. /\ NextPort(a) \in Addr /\ NextPort(a).ip \in {NoIP, a.ip}
          /\ Explicit(a, p) \in Addr /\ Explicit(a, p).ip \in {NoIP, a.ip}
      BY <3>1, PointedAddrs
    <3>3. AllocatedOK(f, a)
      BY <1>3, <3>1
    <3>4. AllocatedOK(Seeded(f, a), a) /\ AllocatedOK(Seeded(f, NextPort(a)), a)
      BY <1>1, <3>1, <3>2, <3>3, SeedAllocated
    <3>5. AllocatedOK(Seeded(Seeded(f, NextPort(a)), Explicit(a, p)), a)
      BY <1>1, <3>1, <3>2, <3>4, SeedAllocated
    <3>6. Seeded(f, a).named \in {NoAddr, a}
      <4>1. f \in Latch
        BY <3>3 DEF AllocatedOK
      <4>2. Seeded(f, a) = f \/ Seeded(f, a).named = a
        BY <1>1, <3>1, <4>1, SeedFields
      <4>3. f.named = NoAddr
        BY DEF f, Fresh
      <4> QED BY <4>2, <4>3
    <3> QED BY <2>2, <3>1, <3>4, <3>5, <3>6 DEF AllocatedOK, Kinds
  <2>3. \/ l = [k \in Kinds |-> f] /\ applied = NoAddr
        \/ \E a \in SdpAddrs, p \in RtcpPorts :
               /\ l = [k \in Kinds |-> IF k = "rtp" THEN Seeded(f, a)
                                       ELSE Seeded(Seeded(f, NextPort(a)), Explicit(a, p))]
               /\ applied = a
    BY DEF Init, f
  <2> QED BY <2>1, <2>2, <2>3
<1>5. heard \in [Kinds -> [vouched : BOOLEAN, exact : BOOLEAN, early : BOOLEAN]]
  BY DEF Init, Unheard
<1>6. \A k \in Kinds : ~heard[k].vouched /\ ~heard[k].exact /\ ~heard[k].early
  BY DEF Init, Unheard
<1>7. \A k \in Kinds : trusted[k] = Vouched(l[k]) /\ Vouched(l[k]) \subseteq IPs \cup {NoIP}
  BY <1>4 DEF Init, Vouched, Latch
<1>8. TypeOK
  <2>1. new \in [remote : Addr, rtcp : 0..MaxPort, src : IPs \cup {NoIP}] /\ points \in 0..MaxPoints
    BY NoAddrType, AddressAssumption DEF Init, Nothing
  <2>2. trusted \in [Kinds -> SUBSET (IPs \cup {NoIP})] /\ left \in [Kinds -> Addr]
    BY <1>7, NoAddrType DEF Init
  <2> QED BY <1>1, <1>4, <1>5, <2>1, <2>2 DEF Init, TypeOK, SideType, Idle, Kinds
<1>9. PointInv
  BY DEF Init, PointInv, Idle, Nothing
<1>10. ASSUME NEW k \in Kinds PROVE Good(k)
  <2>1. AllocatedOK(l[k], applied)
    BY <1>4
  <2>2. ArmInv(k) /\ StrictAt(k)
    BY <2>1 DEF ArmInv, StrictAt, AllocatedOK
  <2>3. TrustInv(k) /\ TakenAt(k)
    BY <1>6, <1>7, <2>1 DEF TrustInv, TakenAt, AllocatedOK, RankNone, RankSignalled
  <2>4. DestAt(k)
    BY <2>1 DEF DestAt, AllocatedOK
  <2> QED BY <2>2, <2>3, <2>4 DEF Good
<1>11. HomeInv
  <2>1. l["rtp"].rank = RankNone /\ ~heard["rtp"].exact
    BY <1>4, <1>6 DEF AllocatedOK, Kinds
  <2> QED BY <1>4, <2>1 DEF HomeInv, RankNone, RankExact
<1> QED BY <1>8, <1>9, <1>10, <1>11 DEF IInv

-----------------------------------------------------------------------------
\* A step on latch k leaves the other one good.
LEMMA OtherGood ==
  ASSUME TypeOK, \A j \in Kinds : Good(j), NEW k \in Kinds, NEW r, NEW h, NEW t,
         l' = [l EXCEPT ![k] = r], heard' = [heard EXCEPT ![k] = h],
         trusted' = [trusted EXCEPT ![k] = t],
         side' = side, applied' = applied, Good(k)',
         \A j \in Kinds : PendingClear(j) /\ j # k => PendingClear(j)'
  PROVE  \A j \in Kinds : Good(j)'
<1> SUFFICES ASSUME NEW j \in Kinds PROVE Good(j)'
  OBVIOUS
<1>1. CASE j = k
  BY <1>1
<1>2. CASE j # k
  <2>1. l'[j] = l[j] /\ heard'[j] = heard[j] /\ trusted'[j] = trusted[j]
    BY <1>2 DEF TypeOK
  <2> QED BY <1>2, <2>1, GoodFrame
<1> QED BY <1>1, <1>2

\* The same for a critical section of the handler.
LEMMA OtherGoodSet ==
  ASSUME TypeOK, \A j \in Kinds : Good(j), NEW k \in Kinds, NEW r, Set(k, r),
         side' = side, applied' = applied, Good(k)',
         \A j \in Kinds : PendingClear(j) /\ j # k => PendingClear(j)'
  PROVE  \A j \in Kinds : Good(j)'
<1> SUFFICES ASSUME NEW j \in Kinds PROVE Good(j)'
  OBVIOUS
<1>1. CASE j = k
  BY <1>1
<1>2. CASE j # k
  <2>1. l'[j] = l[j] /\ heard'[j] = heard[j] /\ trusted'[j] = trusted[j]
    BY <1>2 DEF TypeOK, Set
  <2> QED BY <1>2, <2>1, GoodFrame
<1> QED BY <1>1, <1>2

\* Every step of the handler that seeds or sources a latch keeps the invariant.
LEMMA SetStep ==
  ASSUME IInv, TypeOK', NEW k \in Kinds, SetSource(k) \/ Reseed(k) \/ SetRemote(k)
  PROVE  IInv'
<1>1. TypeOK /\ PointInv /\ (\A j \in Kinds : Good(j)) /\ HomeInv /\ Good(k)
  BY DEF IInv
<1>2. k = "rtp" \/ k = "rtcp"
  BY DEF Kinds
<1>3. side' = side /\ applied' = applied /\ new' = new
  BY DEF SetSource, Reseed, SetRemote
<1>4. PointInv'
  BY <1>1, <1>3 DEF PointInv, SetSource, Reseed, SetRemote
<1>5. /\ ~PendingClear(k) /\ at # <<"clear", "rtp">>
      /\ \A j \in Kinds : PendingClear(j) /\ j # k => PendingClear(j)'
  BY <1>2 DEF PendingClear, SetSource, Reseed, SetRemote, Kinds
<1>6. CASE SetSource(k)
  <2>1. Set(k, Sourced(l[k], new.src))
    BY <1>6 DEF SetSource
  <2>2. Good(k)'
    BY <1>1, <1>3, <1>5, <2>1, SourceStep
  <2>3. \A j \in Kinds : Good(j)'
    BY <1>1, <1>3, <1>5, <2>1, <2>2, OtherGoodSet
  <2>4. HomeInv'
    <3>1. l[k] \in Latch /\ SideType /\ new.src \in IPs \cup {NoIP}
      BY <1>1 DEF TypeOK, SideType
    <3>2. LET q == Sourced(l[k], new.src) IN
          q.named = l[k].named /\ q.rank = l[k].rank /\ q.remote = l[k].remote
      BY <3>1, SourceFields
    <3>3. heard' = heard
      BY <1>1, <2>1, <3>2 DEF Set, TypeOK
    <3>4. l' = [l EXCEPT ![k] = Sourced(l[k], new.src)]
      BY <2>1 DEF Set
    <3>5. /\ l'["rtp"].named = l["rtp"].named /\ l'["rtp"].rank = l["rtp"].rank
          /\ l'["rtp"].remote = l["rtp"].remote
      BY <1>1, <3>2, <3>4 DEF TypeOK, Kinds
    <3> QED BY <1>1, <1>3, <1>5, <3>3, <3>5, HomeFrame
  <2> QED BY <1>4, <2>3, <2>4 DEF IInv
<1>7. ASSUME NEW a \in Addr, a.ip \in {NoIP, applied.ip}, k = "rtp" => a = applied,
             Set(k, Seeded(l[k], a))
      PROVE  IInv'
  <2>1. Good(k)'
    BY <1>1, <1>3, <1>5, <1>7, SeedStep
  <2>2. \A j \in Kinds : Good(j)'
    BY <1>1, <1>3, <1>5, <1>7, <2>1, OtherGoodSet
  <2>3. HomeInv'
    <3>1. CASE k = "rtp"
      BY <1>1, <1>3, <1>5, <1>7, <3>1, HomeSeed
    <3>2. CASE k # "rtp"
      <4>1. l'["rtp"] = l["rtp"] /\ heard'["rtp"] = heard["rtp"]
        BY <1>1, <1>7, <3>2 DEF Set, TypeOK, Kinds
      <4> QED BY <1>1, <1>3, <1>5, <4>1, HomeFrame
    <3> QED BY <3>1, <3>2
  <2> QED BY <1>4, <2>2, <2>3 DEF IInv
<1>8. CASE Reseed(k)
  <2>1. new.remote = applied /\ Set(k, Seeded(l[k], ClearAddr(k)))
    BY <1>1, <1>8 DEF Reseed, PointInv
  <2>2. ClearAddr(k) \in Addr /\ ClearAddr(k).ip = applied.ip /\ (k = "rtp" => ClearAddr(k) = applied)
    BY <1>1, <2>1, StepAddrs
  <2> QED BY <1>7, <2>1, <2>2
<1>9. CASE SetRemote(k)
  <2>1. new.remote = applied /\ Set(k, Seeded(l[k], SeedAddr(k)))
    BY <1>1, <1>9 DEF SetRemote, PointInv
  <2>2. SeedAddr(k) \in Addr /\ SeedAddr(k).ip \in {NoIP, applied.ip} /\ (k = "rtp" => SeedAddr(k) = applied)
    BY <1>1, <2>1, StepAddrs
  <2> QED BY <1>7, <2>1, <2>2
<1> QED BY <1>6, <1>8, <1>9

\* The invariant is inductive.
LEMMA InvStep == IInv /\ [Next]_vars => IInv'
<1> SUFFICES ASSUME IInv, [Next]_vars PROVE IInv'
  OBVIOUS
<1>0. TypeOK /\ PointInv /\ (\A j \in Kinds : Good(j)) /\ HomeInv
  BY DEF IInv
<1>t. TypeOK'
  BY <1>0, TypeStep
<1>1. ASSUME UNCHANGED <<side, l, applied, heard, trusted>>, PointInv', at # <<"clear", "rtp">>,
             \A j \in Kinds : PendingClear(j) => PendingClear(j)'
      PROVE  IInv'
  <2>1. \A j \in Kinds : Good(j)'
    BY <1>0, <1>1, GoodFrame
  <2>2. HomeInv'
    BY <1>0, <1>1, HomeFrame
  <2> QED BY <1>t, <1>1, <2>1, <2>2 DEF IInv
<1>2. ASSUME NEW a \in SdpAddrs, NEW p \in RtcpPorts, NEW ip \in Peers, Signal(a, p, ip)
      PROVE  IInv'
  <2>1. UNCHANGED <<side, l, applied, heard, trusted>>
    BY <1>2 DEF Signal
  <2>2. PointInv'
    BY <1>0, <1>2 DEF Signal, PointInv
  <2>3. at # <<"clear", "rtp">> /\ \A j \in Kinds : ~PendingClear(j)
    BY <1>2 DEF Signal, PendingClear, Idle
  <2> QED BY <1>1, <2>1, <2>2, <2>3
<1>3. CASE Point
  <2>1. UNCHANGED <<side, l, heard, trusted, new>> /\ applied' = new.remote /\ at = <<"point", "rtp">>
    BY <1>3 DEF Point
  <2>2. PointInv'
    BY <1>0, <1>3 DEF Point, PointInv
  <2>3. CASE Moved
    <3>1. at' = <<"clear", "rtp">>
      BY <1>3, <2>3 DEF Point
    <3>2. ASSUME NEW k \in Kinds PROVE Good(k)'
      <4>1. PendingClear(k)' /\ Good(k)
        BY <1>0, <3>1 DEF PendingClear, Kinds
      <4>2. ArmInv(k)'
        BY <2>1, <4>1 DEF Good, ArmInv
      <4>3. TrustInv(k)' /\ TakenAt(k)'
        BY <2>1, <4>1 DEF Good, TrustInv, TakenAt, Vouched
      <4>4. StrictAt(k)' /\ DestAt(k)'
        BY <2>1, <4>1 DEF Good, StrictAt, DestAt, Loose, Barred, Refuses, Restrict
      <4> QED BY <4>2, <4>3, <4>4 DEF Good
    <3>3. HomeInv'
      BY <1>0, <2>1, <3>1 DEF HomeInv
    <3> QED BY <1>t, <2>2, <3>2, <3>3 DEF IInv
  <2>4. CASE ~Moved
    <3>1. at' = <<"seed", "rtp">> /\ (applied.ip = NoIP \/ applied' = applied)
      BY <1>3, <2>1, <2>4 DEF Point, Moved
    <3>2. \A k \in Kinds : ~PendingClear(k)
      BY <2>1 DEF PendingClear
    <3>3. ASSUME NEW k \in Kinds PROVE Good(k)'
      <4>1. Good(k) /\ ~PendingClear(k)
        BY <1>0, <3>2
      <4>2. ArmInv(k)'
        BY <2>1, <3>1, <4>1 DEF Good, ArmInv
      <4>3. TrustInv(k)' /\ TakenAt(k)'
        BY <2>1, <4>1 DEF Good, TrustInv, TakenAt, Vouched
      <4>4. StrictAt(k)' /\ DestAt(k)'
        BY <2>1, <4>1 DEF Good, StrictAt, DestAt, Loose, Barred, Refuses, Restrict
      <4> QED BY <4>2, <4>3, <4>4 DEF Good
    <3>4. l["rtp"].named \in {NoAddr, applied'}
      <4>1. l["rtp"].named \in {NoAddr, applied}
        BY <1>0, <2>1 DEF HomeInv
      <4>2. Good("rtp")
        BY <1>0 DEF Kinds
      <4> QED BY <3>1, <4>1, <4>2, AddressAssumption DEF Good, ArmInv
    <3>5. HomeInv'
      BY <1>0, <2>1, <3>1, <3>4 DEF HomeInv
    <3> QED BY <1>t, <2>2, <3>3, <3>5 DEF IInv
  <2> QED BY <2>3, <2>4
<1>4. ASSUME NEW k \in Kinds, SetSource(k) \/ Reseed(k) \/ SetRemote(k) PROVE IInv'
  BY <1>t, <1>4, SetStep
<1>5. ASSUME NEW k \in Kinds, Clear(k) PROVE IInv'
  <2>1. new.remote = applied /\ Good(k) /\ at = <<"clear", k>>
    BY <1>0, <1>5 DEF Clear, PointInv
  <2>2. Good(k)'
    BY <1>0, <1>5, <2>1, ClearStep
  <2>3. \A j \in Kinds : PendingClear(j) /\ j # k => PendingClear(j)'
    BY <1>5, <2>1 DEF Clear, PendingClear, Kinds
  <2>4. \A j \in Kinds : Good(j)'
    BY <1>0, <1>5, <2>2, <2>3, OtherGood DEF Clear
  <2>5. PointInv'
    BY <1>0, <1>5, <2>1 DEF Clear, PointInv
  <2>6. HomeInv'
    <3>1. CASE k = "rtp"
      <4>1. "rtp" \in Kinds /\ l["rtp"] \in Latch /\ ClearAddr("rtp") \in Addr
        BY <1>0, StepAddrs DEF TypeOK, Kinds
      <4>2. l'["rtp"].named = NoAddr /\ l'["rtp"].rank = RankNone
        BY <1>0, <1>5, <3>1, <4>1, ClearFields DEF Clear, TypeOK
      <4>3. ~heard'["rtp"].exact
        BY <1>0, <1>5, <3>1, <4>1 DEF Clear, TypeOK, Unheard
      <4> QED BY <4>2, <4>3 DEF HomeInv, RankNone, RankExact
    <3>2. CASE k # "rtp"
      <4>1. l'["rtp"] = l["rtp"] /\ heard'["rtp"] = heard["rtp"] /\ applied' = applied
        BY <1>0, <1>5, <3>2 DEF Clear, TypeOK, Kinds
      <4>2. at # <<"clear", "rtp">>
        BY <2>1, <3>2
      <4> QED BY <1>0, <4>1, <4>2, HomeFrame
    <3> QED BY <3>1, <3>2
  <2> QED BY <1>t, <2>4, <2>5, <2>6 DEF IInv
<1>6. CASE SetRTCPRemote
  <2> DEFINE a == Explicit(new.remote, new.rtcp)
  <2>1. /\ new.remote = applied /\ Set("rtcp", Seeded(l["rtcp"], a)) /\ "rtcp" \in Kinds
        /\ UNCHANGED <<side, applied, new>> /\ at = <<"explicit", "rtcp">>
        /\ at' = <<"start", "rtp">>
    BY <1>0, <1>6 DEF SetRTCPRemote, PointInv, Kinds
  <2>2. a \in Addr /\ a.ip \in {NoIP, applied.ip}
    BY <1>0, <2>1, StepAddrs
  <2> HIDE DEF a
  <2>3. \A j \in Kinds : ~PendingClear(j)
    BY <2>1 DEF PendingClear
  <2>4. Good("rtcp")'
    BY <1>0, <2>1, <2>2, <2>3, SeedStep
  <2>5. \A j \in Kinds : Good(j)'
    BY <1>0, <2>1, <2>3, <2>4, OtherGoodSet
  <2>6. PointInv'
    BY <1>0, <2>1 DEF PointInv
  <2>7. HomeInv'
    <3>1. l'["rtp"] = l["rtp"] /\ heard'["rtp"] = heard["rtp"]
      BY <1>0, <2>1 DEF Set, TypeOK, Kinds
    <3> QED BY <1>0, <2>1, <3>1, HomeFrame
  <2> QED BY <1>t, <2>5, <2>6, <2>7 DEF IInv
<1>7. CASE Start
  <2>1. UNCHANGED <<side, l, applied, heard, trusted>> /\ at = <<"start", "rtp">>
    BY <1>7 DEF Start
  <2>2. PointInv'
    BY <1>7 DEF Start, PointInv, Nothing, Idle
  <2>3. at # <<"clear", "rtp">> /\ \A j \in Kinds : ~PendingClear(j)
    BY <2>1 DEF PendingClear
  <2> QED BY <1>1, <2>1, <2>2, <2>3
<1>8. CASE StartOther \/ UNCHANGED vars
  <2>1. UNCHANGED <<side, l, applied, heard, trusted, at, new>>
    BY <1>8 DEF StartOther, vars
  <2>2. PointInv'
    BY <1>0, <2>1 DEF PointInv
  <2>3. \A j \in Kinds : Good(j)'
    BY <1>0, <2>1, GoodFrame DEF PendingClear
  <2>4. HomeInv'
    BY <1>0, <2>1 DEF HomeInv
  <2> QED BY <1>t, <2>2, <2>3, <2>4 DEF IInv
<1>9. ASSUME NEW k \in Kinds, NEW src \in Sources, Hear(k, src) PROVE IInv'
  <2>1. UNCHANGED <<side, applied, at, new, trusted>>
    BY <1>9 DEF Hear
  <2>2. Good(k)'
    BY <1>0, <1>9, HearStep
  <2>3. trusted' = [trusted EXCEPT ![k] = trusted[k]]
    BY <1>0, <2>1 DEF TypeOK
  <2>4. \A j \in Kinds : PendingClear(j) => PendingClear(j)'
    BY <2>1 DEF PendingClear
  <2>5. \A j \in Kinds : Good(j)'
    BY <1>0, <1>9, <2>1, <2>2, <2>3, <2>4, OtherGood DEF Hear
  <2>6. PointInv'
    BY <1>0, <2>1 DEF PointInv
  <2>7. HomeInv'
    <3>1. CASE k = "rtp"
      BY <1>0, <1>9, <3>1, HomeHear
    <3>2. CASE k # "rtp"
      <4>1. l'["rtp"] = l["rtp"] /\ heard'["rtp"] = heard["rtp"]
        BY <1>0, <1>9, <3>2 DEF Hear, TypeOK, Kinds
      <4> QED BY <1>0, <2>1, <4>1 DEF HomeInv
    <3> QED BY <3>1, <3>2
  <2> QED BY <1>t, <2>5, <2>6, <2>7 DEF IInv
<1>10. ASSUME NEW k \in Kinds, Age(k) PROVE IInv'
  <2> DEFINE q == [l[k] EXCEPT !.aged = TRUE]
  <2>1. UNCHANGED <<side, applied, at, new, heard, trusted>> /\ l' = [l EXCEPT ![k] = q]
    BY <1>10 DEF Age
  <2>2. Good(k)'
    BY <1>0, <1>10, AgeStep
  <2>3. q.named = l[k].named /\ q.rank = l[k].rank /\ q.remote = l[k].remote
    BY <1>0, AgedType DEF TypeOK
  <2> HIDE DEF q
  <2>4. heard' = [heard EXCEPT ![k] = heard[k]] /\ trusted' = [trusted EXCEPT ![k] = trusted[k]]
    BY <1>0, <2>1 DEF TypeOK
  <2>5. \A j \in Kinds : PendingClear(j) => PendingClear(j)'
    BY <2>1 DEF PendingClear
  <2>6. \A j \in Kinds : Good(j)'
    BY <1>0, <2>1, <2>2, <2>4, <2>5, OtherGood
  <2>7. PointInv'
    BY <1>0, <2>1 DEF PointInv
  <2>8. /\ l'["rtp"].named = l["rtp"].named /\ l'["rtp"].rank = l["rtp"].rank
        /\ l'["rtp"].remote = l["rtp"].remote
    BY <1>0, <2>1, <2>3 DEF TypeOK, Kinds
  <2>9. HomeInv'
    BY <1>0, <2>1, <2>8 DEF HomeInv
  <2> QED BY <1>t, <2>6, <2>7, <2>9 DEF IInv
<1> QED
  BY <1>2, <1>3, <1>4, <1>5, <1>6, <1>7, <1>8, <1>9, <1>10 DEF Next, Signalling

\* MediaLatch keeps its types, whatever hosts, ports and moves there are.
THEOREM TypeCorrect == Spec => []TypeOK
<1>1. Init => TypeOK
  BY InitInv DEF IInv
<1> QED BY <1>1, TypeStep, PTL DEF Spec

\* Every reachable state satisfies the invariant.
THEOREM LatchInvariant == Spec => []IInv
BY InitInv, InvStep, PTL DEF Spec

\* The private leg is strict at every moment, also between the critical
\* sections of pointMedia and relatch.
THEOREM PrivateLegStrict == Spec => []StrictSource
BY LatchInvariant, InvSuffices, PTL

\* seed, relatch and setSignallingSource never install a destination on
\* loopback, off a client's own host or in a class the policy refuses.
THEOREM SdpNeverSteers == Spec => []DestinationSafe
BY LatchInvariant, InvSuffices, PTL

\* acceptFrom gives the stream to a vouched source, whoever sent first.
THEOREM EndpointTakesBack == Spec => []TakenBack
BY LatchInvariant, InvSuffices, PTL

\* Once the named address is heard, RTP is sent to it.
THEOREM NamedAddressHasMedia == Spec => []MediaGoesHome
BY LatchInvariant, InvSuffices, PTL

\* Whatever SDP and strangers say, media is heard from and sent to hosts the
\* signalling allows, between the critical sections of a move included.
THEOREM OnlySignalledHosts == Spec => []SignalledOnly
<1>1. TypeOK /\ StrictSource /\ DestinationSafe => SignalledOnly
  BY DEF SignalledOnly
<1> QED BY <1>1, TypeCorrect, PrivateLegStrict, SdpNeverSteers, PTL

=============================================================================
