----------------------------- MODULE MediaLatch -----------------------------
(***************************************************************************)
(* Where the media of one side of a plain RTP session goes                 *)
(* (internal/media/session.go: latch, seedPair, relatchPair). The side has *)
(* two latches, one for RTP and one for RTCP. Signalling points them at    *)
(* the address an SDP body names (edge/media.go: allocateRTP,              *)
(* negotiateFork, pointMedia), one critical section at a time, while the   *)
(* relay (media/relay.go: forward) shows them the source of every packet   *)
(* that arrives. On an SDES side only packets that authenticate get as far *)
(* as acceptFrom, which is the action below.                               *)
(*                                                                         *)
(* The parser (sip/sdp) lets no multicast, broadcast or link-local address *)
(* through, and gives a held body (0.0.0.0) no address; IPv4-mapped forms  *)
(* and zones are equal to the plain address and are not told apart here.   *)
(***************************************************************************)
EXTENDS Integers

CONSTANTS
    IPs,         \* hosts
    NoIP,        \* the zero netip.Addr
    Loops,       \* the loopback addresses among them
    LabPlanes,   \* planes that are on loopback themselves (a single-host lab)
    Private,     \* what DestPolicy refuses: private, CGNAT and own addresses
    MaxPort,     \* 65535
    SdpAddrs,    \* media addresses a body may name; a held body names NoIP
    RtcpPorts,   \* ports of a=rtcp, 0 when there is none
    Sources,     \* addresses packets come from
    Peers,       \* addresses SIP comes from or is sent to
    Talks,       \* bound: the sets of streams on which packets may arrive
    MaxPoints    \* bound: calls of pointMedia

Kinds == {"rtp", "rtcp"}
NoAddr == [ip |-> NoIP, port |-> 0]
Addr == [ip : IPs \cup {NoIP}, port : 0..MaxPort]

ASSUME AddressAssumption ==
    /\ NoIP \notin IPs
    /\ MaxPort \in Nat \ {0} /\ MaxPoints \in Nat
    /\ SdpAddrs \subseteq [ip : IPs \cup {NoIP}, port : 1..MaxPort]
    /\ RtcpPorts \subseteq 0..MaxPort
    /\ Sources \subseteq [ip : IPs, port : 1..MaxPort]
    /\ Peers \subseteq IPs
    /\ Talks \subseteq SUBSET Kinds

Planes == {"public", "private"}

\* latchRank
RankNone == 0
RankAny == 1
RankSignalled == 2
RankExact == 3

Latch == [exp : IPs \cup {NoIP}, sig : IPs \cup {NoIP}, named : Addr, dst : Addr,
          remote : Addr, rank : RankNone..RankExact, aged : BOOLEAN]

VARIABLES
    side,      \* plane, pin, whether the party answers the call, the host its
               \* SIP comes from, the streams it is heard on; fixed
    l,         \* the two latches; aged: LearnDelay has passed since learnedAt
    applied,   \* mediaSession.applied of this plane
    running,   \* the relay is started
    at,        \* program point of the signalling handler
    new,       \* the addresses it is applying
    points,    \* calls of pointMedia so far
    heard,     \* history: what was heard of vouched sources, and whether the
               \* stream latched while no address was named
    trusted,   \* history: hosts vouched for since the latch was last re-armed
    left       \* history: the source each latch forgot when last re-armed

vars == <<side, l, applied, running, at, new, points, heard, trusted, left>>

Idle == <<"idle", "rtp">>

TypeOK ==
    /\ side \in [plane : Planes, pin : BOOLEAN, callee : BOOLEAN, home : Peers, talks : Talks]
    /\ l \in [Kinds -> Latch]
    /\ applied \in Addr
    /\ running \in BOOLEAN
    /\ at \in {"idle", "source", "point", "clear", "reseed", "seed", "explicit", "start"} \X Kinds
    /\ new \in [remote : Addr, rtcp : 0..MaxPort, src : IPs \cup {NoIP}]
    /\ points \in 0..MaxPoints
    /\ heard \in [Kinds -> [vouched : BOOLEAN, exact : BOOLEAN, early : BOOLEAN]]
    /\ trusted \in [Kinds -> SUBSET (IPs \cup {NoIP})]
    /\ left \in [Kinds -> Addr]

-----------------------------------------------------------------------------
\* The latch's own operations, each one critical section.

Loose == side.plane = "public"
Restrict == side.plane = "public"
Barred == IF side.plane \in LabPlanes THEN {} ELSE Loops

\* DestPolicy.refuses, which leaves loopback alone.
Refuses(ip) == Restrict /\ ip \in Private \ Loops

\* latch.pinnedOK
PinnedOK(ip) == ip # NoIP /\ ip \notin Barred

\* latch.seed: the source check is armed, and a destination installed if the
\* pin or the pool's policy lets the address be sent to.
InstallsAny(r, a) == side.pin => PinnedOK(r.sig)
Installs(r, a) == IF side.pin THEN PinnedOK(r.sig) ELSE ~Refuses(a.ip) /\ a.ip \notin Barred
Destination(r, a) == [ip |-> IF side.pin THEN r.sig ELSE a.ip, port |-> a.port]
Seeded(r, a) ==
    IF a.ip = NoIP \/ a.port = 0 THEN r
    ELSE [r EXCEPT !.exp = a.ip, !.named = a,
                   !.dst = IF Installs(r, a) THEN Destination(r, a) ELSE @]

\* The first critical section of latch.relatch.
Cleared(r, a) ==
    [r EXCEPT !.exp = a.ip, !.named = NoAddr, !.dst = NoAddr, !.remote = NoAddr, !.rank = RankNone]

\* latch.setSignallingSource: a pinned, unlatched side follows the source.
Sourced(r, ip) ==
    [r EXCEPT !.sig = ip,
              !.dst = IF ~(side.pin /\ r.named # NoAddr /\ r.rank = RankNone) THEN @
                      ELSE IF PinnedOK(ip) THEN [ip |-> ip, port |-> r.named.port] ELSE NoAddr]

Vouched(r) == {r.exp, r.sig}

\* latch.rankOf
RankOf(r, src) ==
    IF ~Loose /\ src.ip # r.exp THEN RankNone
    ELSE IF src = r.named THEN RankExact
    ELSE IF src.ip \in Vouched(r) THEN RankSignalled
    ELSE RankAny

\* latch.acceptFrom: the first acceptable source, or a better vouched one.
Same(r, src) == r.rank # RankNone /\ r.remote = src
FirstWins(r, src) == ~Same(r, src) /\ r.rank = RankNone /\ RankOf(r, src) > RankNone
Better(r, src) == ~Same(r, src) /\ RankOf(r, src) > r.rank
Accepted(r, src) ==
    IF Better(r, src)
    THEN [r EXCEPT !.remote = src, !.rank = RankOf(r, src), !.aged = FALSE]
    ELSE r

\* latch.learningDelayed and latch.dest
LearningDelayed(r) == r.dst # NoAddr /\ r.sig # NoIP /\ r.named.ip = r.sig
WaitsForever(r) == r.rank < RankExact /\ LearningDelayed(r)
Waiting(r) == r.rank < RankExact /\ LearningDelayed(r) /\ ~r.aged
Dest(r) == IF r.rank = RankNone \/ Waiting(r) THEN r.dst ELSE r.remote

-----------------------------------------------------------------------------
\* Addresses of the pair: rtcpAddr, an explicit a=rtcp, and what relatchPair
\* arms when the media port has no successor.
HasNext(a) == a.port < MaxPort
NextPort(a) == IF HasNext(a) THEN [a EXCEPT !.port = @ + 1] ELSE NoAddr
Explicit(a, p) == IF p > 0 THEN [ip |-> a.ip, port |-> p] ELSE NoAddr
SeedAddr(k) == IF k = "rtp" THEN new.remote ELSE NextPort(new.remote)
ClearAddr(k) ==
    IF k = "rtp" \/ HasNext(new.remote) THEN SeedAddr(k) ELSE [new.remote EXCEPT !.port = 0]

Nothing == [remote |-> NoAddr, rtcp |-> 0, src |-> NoIP]
Unheard == [vouched |-> FALSE, exact |-> FALSE, early |-> FALSE]
Fresh(ip) == [exp |-> NoIP, sig |-> ip, named |-> NoAddr, dst |-> NoAddr,
              remote |-> NoAddr, rank |-> RankNone, aged |-> FALSE]

\* A session as its allocation leaves it. The party that made the offer has
\* its side seeded (allocateRTP, buildPublicOffer) and recorded as applied;
\* the one still to answer has not. Only the public side has a signalling
\* source and can be pinned.
Init ==
    /\ side \in [plane : Planes, pin : BOOLEAN, callee : BOOLEAN, home : Peers, talks : Talks]
    /\ side.plane = "private" => ~side.pin
    /\ LET f == Fresh(IF side.plane = "public" /\ ~side.callee THEN side.home ELSE NoIP)
       IN  \/ /\ l = [k \in Kinds |-> f]
              /\ applied = NoAddr
           \/ /\ ~side.callee
              /\ \E a \in SdpAddrs, p \in RtcpPorts :
                     /\ l = [k \in Kinds |->
                                 IF k = "rtp" THEN Seeded(f, a)
                                 ELSE Seeded(Seeded(f, NextPort(a)), Explicit(a, p))]
                     /\ applied = a
    /\ running = FALSE
    /\ at = Idle
    /\ new = Nothing
    /\ points = 0
    /\ heard = [k \in Kinds |-> Unheard]
    /\ trusted = [k \in Kinds |-> Vouched(l[k])]
    /\ left = [k \in Kinds |-> NoAddr]

\* One critical section on latch k. What was heard of the exact address
\* counts until another address is named.
Set(k, r) ==
    /\ l' = [l EXCEPT ![k] = r]
    /\ heard' = [heard EXCEPT ![k].exact = @ /\ r.named = l[k].named]
    /\ trusted' = [trusted EXCEPT ![k] = @ \cup Vouched(r)]

-----------------------------------------------------------------------------
\* Signalling: an answer, an answer of another fork or gateway, or a
\* completed re-INVITE or UPDATE names an address.

\* negotiateFork on a public callee first records where its INVITE went, one
\* place for a client, one per gateway for a carrier; every other caller
\* goes straight to pointMedia.
Records == side.callee /\ side.plane = "public"
Signal(a, p, ip) ==
    /\ at = Idle
    /\ points < MaxPoints
    /\ side.pin \/ ~Records => ip = side.home
    /\ new' = [remote |-> a, rtcp |-> p, src |-> ip]
    /\ at' = IF Records THEN <<"source", "rtp">> ELSE <<"point", "rtp">>
    /\ points' = points + 1
    /\ UNCHANGED <<side, l, applied, running, heard, trusted, left>>

\* Session.SetSignallingSource
SetSource(k) ==
    /\ at = <<"source", k>>
    /\ Set(k, Sourced(l[k], new.src))
    /\ at' = IF k = "rtp" THEN <<"source", "rtcp">> ELSE <<"point", "rtp">>
    /\ UNCHANGED <<side, applied, running, new, points, left>>

\* pointMedia: an address other than the one the side follows re-arms first.
NeverMoved == FALSE
Moved == applied.ip # NoIP /\ applied # new.remote
Point ==
    /\ at = <<"point", "rtp">>
    /\ applied' = new.remote
    /\ at' = IF Moved THEN <<"clear", "rtp">> ELSE <<"seed", "rtp">>
    /\ UNCHANGED <<side, l, running, new, points, heard, trusted, left>>

\* relatchPair: latch.relatch is two critical sections, first RTP, then RTCP.
Clear(k) ==
    /\ at = <<"clear", k>>
    /\ l' = [l EXCEPT ![k] = Cleared(@, ClearAddr(k))]
    /\ heard' = [heard EXCEPT ![k] = Unheard]
    /\ trusted' = [trusted EXCEPT ![k] = Vouched(Cleared(l[k], ClearAddr(k)))]
    /\ left' = [left EXCEPT ![k] = l[k].remote]
    /\ at' = <<"reseed", k>>
    /\ UNCHANGED <<side, applied, running, new, points>>

Reseed(k) ==
    /\ at = <<"reseed", k>>
    /\ Set(k, Seeded(l[k], ClearAddr(k)))
    /\ at' = IF k = "rtp" THEN <<"clear", "rtcp">> ELSE <<"seed", "rtp">>
    /\ UNCHANGED <<side, applied, running, new, points, left>>

\* Session.SetRemote: seedPair.
SetRemote(k) ==
    /\ at = <<"seed", k>>
    /\ Set(k, Seeded(l[k], SeedAddr(k)))
    /\ at' = IF k = "rtp" THEN <<"seed", "rtcp">> ELSE <<"explicit", "rtcp">>
    /\ UNCHANGED <<side, applied, running, new, points, left>>

\* Session.SetRTCPRemote, when the body has an a=rtcp port.
SetRTCPRemote ==
    /\ at = <<"explicit", "rtcp">>
    /\ Set("rtcp", Seeded(l["rtcp"], Explicit(new.remote, new.rtcp)))
    /\ at' = <<"start", "rtp">>
    /\ UNCHANGED <<side, applied, running, new, points, left>>

\* Session.Start, idempotent. The caller's side is started by the first
\* answer, which points the other side.
StartOther ==
    /\ ~running
    /\ ~side.callee
    /\ running' = TRUE
    /\ UNCHANGED <<side, l, applied, at, new, points, heard, trusted, left>>

Start ==
    /\ at = <<"start", "rtp">>
    /\ running' = TRUE
    /\ at' = Idle
    /\ new' = Nothing
    /\ UNCHANGED <<side, l, applied, points, heard, trusted, left>>

-----------------------------------------------------------------------------
\* forward: a packet from src arrives on the socket of latch k.
Hear(k, src) ==
    /\ running
    /\ k \in side.talks
    /\ l' = [l EXCEPT ![k] = Accepted(@, src)]
    /\ heard' = [heard EXCEPT ![k] =
                     [vouched |-> @.vouched \/ RankOf(l[k], src) >= RankSignalled,
                      exact |-> @.exact \/ src = l[k].named,
                      early |-> @.early \/ (Better(l[k], src) /\ l[k].named = NoAddr)]]
    /\ UNCHANGED <<side, applied, running, at, new, points, trusted, left>>

\* LearnDelay passes after a source was latched.
Age(k) ==
    /\ l[k].rank # RankNone /\ ~l[k].aged
    /\ l' = [l EXCEPT ![k].aged = TRUE]
    /\ UNCHANGED <<side, applied, running, at, new, points, heard, trusted, left>>

Signalling ==
    \/ \E a \in SdpAddrs, p \in RtcpPorts, ip \in Peers : Signal(a, p, ip)
    \/ Point
    \/ \E k \in Kinds : SetSource(k) \/ Clear(k) \/ Reseed(k) \/ SetRemote(k)
    \/ SetRTCPRemote
    \/ Start
    \/ StartOther

Next ==
    \/ Signalling
    \/ \E k \in Kinds : Age(k) \/ \E src \in Sources : Hear(k, src)

Fairness == \A k \in Kinds : WF_vars(Age(k))

Spec == Init /\ [][Next]_vars /\ Fairness

-----------------------------------------------------------------------------
\* The private leg is strict at every moment, between the critical sections
\* of a move included: what it is latched to sends from the host the latest
\* SDP named.
StrictSource ==
    ~Loose => \A k \in Kinds : l[k].rank # RankNone => l[k].remote.ip = l[k].exp

\* SDP never steers the media socket: a destination taken from SDP is not
\* on the SBC's own loopback; a client's is the host its SIP comes from, and
\* a carrier's is in none of the classes the public plane refuses.
DestinationSafe ==
    \A k \in Kinds : LET d == l[k].dst IN
        d # NoAddr =>
            /\ d.ip \notin Barred
            /\ side.pin => d.ip = side.home
            /\ Restrict /\ ~side.pin => d.ip \notin Private \ Loops

\* Media is heard from and sent to hosts the signalling allows, at every moment.
SignalledOnly == TypeOK /\ StrictSource /\ DestinationSafe

\* Whoever sprayed the ports first loses the stream to the endpoint: once a
\* source signalling vouched for was heard since the stream was last re-armed,
\* the latched source is on a host signalling has vouched for.
TakenBack ==
    \A k \in Kinds :
        heard[k].vouched => l[k].rank # RankNone /\ l[k].remote.ip \in trusted[k]

\* Once the address the latest SDP names has sent a packet the stream's RTP
\* goes there, whatever was heard before and while the learning delay runs.
\* Excepted is a stream that latched before any address was named: its rank
\* is not raised when that source turns out to be the one SDP names.
GoesHome(k) == heard[k].exact /\ ~heard[k].early => Dest(l[k]) = l[k].named
MediaGoesHome == GoesHome("rtp")

\* A latched source is not kept waiting forever: the reverse direction comes
\* to follow it, unless the stream is re-armed first.
LearnedInTheEnd ==
    \A k \in Kinds :
        l[k].rank # RankNone ~> l[k].rank = RankNone \/ Dest(l[k]) = l[k].remote

\* RTCP's counterpart of MediaGoesHome: a packet from the exact signalled
\* address "takes the latch back from whoever sent first".
FeedbackGoesHome == at = Idle => GoesHome("rtcp")

\* relatch forgets the source it had, so that "media keeps flowing to the
\* new address before (or without) its first packet": an old source that no
\* signalling vouches for any more gets no media once the move is complete.
OldSourceForgotten ==
    \A k \in Kinds :
        at = Idle /\ left[k] # NoAddr /\ left[k].ip \notin Vouched(l[k])
            => Dest(l[k]) # left[k]
=============================================================================
