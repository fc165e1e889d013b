----------------------------- MODULE RateLimit -----------------------------
(***************************************************************************)
(* The shield's token buckets: rateLimiter.take and prune (ratelimit.go)   *)
(* behind Shield.AllowRate (shield.go). Buckets are per address and        *)
(* transport class, with a floor per vouched socket, in an LRU table; the  *)
(* two buckets of one request are two critical sections.                   *)
(*                                                                         *)
(* A token is Interval units, so that a tick refills Rate whole units; a   *)
(* bucket remembers how long ago it was used, up to Interval.              *)
(***************************************************************************)
EXTENDS Integers, FiniteSets, Recency

CONSTANTS
    Sockets, Ip(_), Vouched,  \* source sockets; those with a live binding
    Rate, Interval, Cap       \* shield.rate_limit and bucketCap

\* take lets everything through when there is no rate or no interval.
ConstantsOK ==
    /\ IsFiniteSet(Sockets) /\ Vouched \subseteq Sockets
    /\ Rate \in Nat \ {0} /\ Interval \in Nat \ {0} /\ Cap \in Nat \ {0}

Classes == {"udp", "stream"}
IpKey(s, c) == [src |-> Ip(s), class |-> c, socket |-> FALSE]
FloorKey(s, c) == [src |-> s, class |-> c, socket |-> TRUE]
Keys == {IpKey(s, c) : s \in Sockets, c \in Classes} \cup {FloorKey(s, c) : s \in Vouched, c \in Classes}

VARIABLES
    buckets,  \* the buckets the table holds, by key
    newer,    \* and their order in its list
    floor,    \* requests refused by their address's bucket, about to try the
              \* floor, and whether the socket by itself keeps to the rate
    exact,    \* what a limiter that forgets nothing would hold
    evicted,  \* keys whose bucket the cap pushed out before it was full again,
    ahead,    \* and how many requests of theirs were let through since then
              \* beyond those such a limiter lets through
    own,      \* per vouched socket and class, a bucket for all that it sends
    unfair    \* a socket was refused though it keeps to the rate by itself

vars == <<buckets, newer, floor, exact, evicted, ahead, own, unfair>>

Full == Rate * Interval
Bucket == [tokens : 0..Full, idle : 0..Interval]
Fresh == [tokens |-> Full, idle |-> 0]
Flows == Vouched \X Classes

TypeOK ==
    /\ DOMAIN buckets \subseteq Keys /\ \A k \in DOMAIN buckets : buckets[k] \in Bucket
    /\ Lists(newer, DOMAIN buckets) /\ Cardinality(DOMAIN buckets) <= Cap
    /\ floor \subseteq Vouched \X Classes \X BOOLEAN
    /\ exact \in [Keys -> Bucket] /\ evicted \subseteq Keys /\ ahead \in [Keys -> Int]
    /\ own \in [Flows -> Bucket] /\ unfair \in BOOLEAN

Init ==
    /\ buckets = [k \in {} |-> Fresh] /\ newer = {} /\ floor = {} /\ evicted = {} /\ unfair = FALSE
    /\ exact = [k \in Keys |-> Fresh] /\ ahead = [k \in Keys |-> 0] /\ own = [f \in Flows |-> Fresh]

----------------------------------------------------------------------------
BucketOf(k) == IF k \in DOMAIN buckets THEN buckets[k] ELSE Fresh
Refilled(b) == IF b.tokens + b.idle * Rate > Full THEN Full ELSE b.tokens + b.idle * Rate
Allows(b) == Refilled(b) >= Interval
Charged(b) == [tokens |-> IF Allows(b) THEN Refilled(b) - Interval ELSE Refilled(b), idle |-> 0]
IdleTick(b) == [b EXCEPT !.idle = IF @ < Interval THEN @ + 1 ELSE @]

\* Who sends faster than the rate spends all it has.
Spent(b) == [tokens |-> IF Allows(b) THEN Refilled(b) - Interval ELSE 0, idle |-> 0]

\* A full table drops the least recently used bucket for a new key.
Dropped(k) ==
    IF k \in DOMAIN buckets \/ Cardinality(DOMAIN buckets) < Cap THEN {{}}
    ELSE {{x} : x \in Backmost(newer, DOMAIN buckets)}

\* An evicted key is even again once its bucket and the exact one are full.
Uneven(k) == Refilled(BucketOf(k)) < Full \/ Refilled(exact[k]) < Full

One(admitted) == IF admitted THEN 1 ELSE 0

\* rateLimiter.take, one critical section.
Take(k) ==
    \E out \in Dropped(k) :
       LET kept == DOMAIN buckets \ out IN
       /\ buckets' = [x \in kept \cup {k} |-> IF x = k THEN Charged(BucketOf(k)) ELSE buckets[x]]
       /\ newer' = ToFront(newer, k, kept)
       /\ exact' = [exact EXCEPT ![k] = Charged(@)]
       /\ evicted' = {x \in evicted \cup out : Uneven(x)'}
       /\ ahead' = [x \in Keys |->
                       IF x \in out \/ x \notin evicted' THEN 0
                       ELSE IF x = k THEN ahead[k] + One(Allows(BucketOf(k))) - One(Allows(exact[k]))
                       ELSE ahead[x]]

\* AllowRate: the address's bucket first.
Request(s, c) ==
    LET k == IpKey(s, c) IN
    /\ \A f \in floor : <<f[1], f[2]>> # <<s, c>>
    /\ Take(k)
    /\ floor' = IF Allows(BucketOf(k)) \/ s \notin Vouched THEN floor
                ELSE floor \cup {<<s, c, Allows(own[<<s, c>>])>>}
    /\ own' = IF s \in Vouched THEN [own EXCEPT ![<<s, c>>] = Spent(@)] ELSE own
    /\ UNCHANGED unfair

\* Then, for a vouched socket, its floor.
TryFloor(s, c, keeps) ==
    LET k == FloorKey(s, c) IN
    /\ <<s, c, keeps>> \in floor
    /\ Take(k) /\ floor' = floor \ {<<s, c, keeps>>}
    /\ unfair' = (unfair \/ (keeps /\ ~Allows(BucketOf(k))))
    /\ UNCHANGED own

\* rateLimiter.prune: a bucket idle for its interval has refilled to full.
PruneIdle ==
    LET kept == {k \in DOMAIN buckets : buckets[k].idle < Interval} IN
    /\ kept # DOMAIN buckets
    /\ buckets' = [k \in kept |-> buckets[k]] /\ newer' = Among(newer, kept)

Prune == PruneIdle /\ UNCHANGED <<floor, exact, evicted, ahead, own, unfair>>

\* Time passes between requests, not within one.
Tick ==
    /\ floor = {}
    /\ buckets' = [k \in DOMAIN buckets |-> IdleTick(buckets[k])]
    /\ exact' = [k \in Keys |-> IdleTick(exact[k])]
    /\ evicted' = {k \in evicted : Uneven(k)'}
    /\ ahead' = [k \in Keys |-> IF k \in evicted' THEN ahead[k] ELSE 0]
    /\ own' = [f \in Flows |-> IdleTick(own[f])]
    /\ UNCHANGED <<newer, floor, unfair>>

Next == \/ \E s \in Sockets, c \in Classes : Request(s, c)
        \/ \E s \in Vouched, c \in Classes, keeps \in BOOLEAN : TryFloor(s, c, keeps)
        \/ Prune \/ Tick

Spec == Init /\ [][Next]_vars

----------------------------------------------------------------------------
\* Pruning loses no state: every key holds what a limiter that never drops a
\* bucket would hold, but for the keys a full table pushed out early; of those
\* at least as many requests have been let through since (take, prune).
NothingForgotten ==
    \A k \in Keys : /\ ahead[k] >= 0
                    /\ k \notin evicted => Refilled(BucketOf(k)) = Refilled(exact[k])

\* A proven socket keeps its rate whatever else names its address: it is
\* never refused while all it sent since its bucket was full fits the rate.
FloorKept == ~unfair
=============================================================================
