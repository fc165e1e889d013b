---------------------------- MODULE ServiceParts ----------------------------
(***************************************************************************)
(* Services around the calls: what reaches a carrier (the connections      *)
(* dialed to it, its lines, its addresses), the shield and the other       *)
(* limiters, the replay of provisionals and the mirror. They share nothing *)
(* here; what they promise is named once, for the model checker and for    *)
(* the proofs.                                                             *)
(***************************************************************************)
EXTENDS Naturals

CONSTANTS Dialers

VARIABLES dialPc, lock, dialReady, pool, late, shut

Dials == INSTANCE CarrierConns WITH Requests <- Dialers, pc <- dialPc, ready <- dialReady

CONSTANTS TrunkNodes, TrunkLines, LineNode(_), MaxRestarts

VARIABLES byToken, live, linePc, lineKind, contacts, believes, restarts

Lines == INSTANCE CarrierRegs WITH
    Nodes <- TrunkNodes, Lines <- TrunkLines, Node <- LineNode, pc <- linePc, kind <- lineKind

ASSUME LinesAssumption == Lines!ConstantsOK

CONSTANTS Trunks, Targets, Addrs, Renumber, TTL, NegTTL

VARIABLES srv, host, addrs, expiry, failing, dirSnap, dnsPc, todo, resolving, recs, resolved,
          changed, elapsed

Directory == INSTANCE CarrierDirectory WITH
    Carriers <- Trunks, snap <- dirSnap, pc <- dnsPc, c <- resolving, out <- resolved

ASSUME DirectoryAssumption == Directory!ConstantsOK

\* One connection per carrier address (CarrierConns), and a carrier's call reaches
\* the line its Contact names, across restarts (CarrierRegs); between refreshes
\* admission and the dial path read what the directory holds (CarrierDirectory).
CarriersReached ==
    /\ Dials!TypeOK /\ Dials!OneConnection
    /\ Lines!TypeOK /\ Lines!ContactsResolve
    /\ Directory!TypeOK /\ Directory!SnapshotCurrent

CONSTANTS Sockets, SocketIp(_), Vouched, Rate, Interval, BucketCap

VARIABLES buckets, newer, floor, exact, evicted, ahead, own, unfair

Rates == INSTANCE RateLimit WITH Ip <- SocketIp, Cap <- BucketCap

ASSUME RatesAssumption == Rates!ConstantsOK

CONSTANTS AorNames, AorCap, AorScan, AorStrikes, AorWindow, AorBan, MaxNow

VARIABLES now, entries, aorNewer, strikes, earned

Aors == INSTANCE AorLocks WITH
    Aors <- AorNames, Cap <- AorCap, Scan <- AorScan, N <- AorStrikes, Window <- AorWindow,
    Ban <- AorBan, newer <- aorNewer

ASSUME AorsAssumption == Aors!ConstantsOK

CONSTANTS Hosts, Honest, CarrierHosts, Messages, Forgiven, Slots, Flight

VARIABLES doorPc, delivery, count, bans, bindings, nonces, branches, struck, known, again,
          counted, forgotten, blamed

Door == INSTANCE FrontDoor WITH
    Carriers <- CarrierHosts, N <- Forgiven, pc <- doorPc, msg <- delivery, bound <- bindings

ASSUME DoorAssumption == Door!ConstantsOK

CONSTANTS Logins, LoginSources, AuthLimit, AuthWindow, MaxIPs, CredsTTL, MaxSessions,
          IdleTimeout, MaxAge

VARIABLES req, budgets, windows, credsAge, sessions, reports, guesses

Admin == INSTANCE AdminAuth WITH
    Requests <- Logins, Sources <- LoginSources, Limit <- AuthLimit, Window <- AuthWindow,
    perIP <- budgets, seen <- credsAge

ASSUME AdminAssumption == Admin!ConstantsOK

\* Nobody is throttled, locked out, banned or refused for what they did not do:
\* no token bucket forgets a debt and a proven socket keeps its rate (RateLimit),
\* only failures close together lock an AoR (AorLocks), no honest host is struck
\* or banned by address for what others send in its name, nor for more than two
\* kinds of its own messages, and a refused credential is one strike while it is
\* remembered (FrontDoor), and a login budget is charged exactly its guesses
\* (AdminAuth).
ThrottledFairly ==
    /\ Rates!TypeOK /\ Rates!NothingForgotten /\ Rates!FloorKept
    /\ Aors!TypeOK /\ Aors!LocksEarned
    /\ Door!TypeOK /\ Door!NoBlame /\ Door!CountedOnce
    /\ Admin!TypeOK /\ Admin!BudgetsExact

\* What was found out is kept until it is due: the lock of an AoR until its time,
\* a registration or a table full of locks (AorLocks), a source's login lockout
\* (AdminAuth), and the addresses of a carrier that resolved (CarrierDirectory).
KeptUntilDue == Aors!LocksKept /\ Admin!LockoutsKept /\ Directory!StaysResolved

CONSTANTS WireLength, Finals, ProvCap

VARIABLES wire, spawned, flying, accepted, chan, recorded, provSeen, relayed, pumped, finalRead,
          toReplay

Replay == INSTANCE ProvReplay WITH
    Length <- WireLength, Cap <- ProvCap, resp <- recorded, seen <- provSeen, ended <- pumped,
    final <- finalRead, todo <- toReplay

ASSUME ReplayAssumption == Replay!ConstantsOK

CONSTANTS Packets, QueueSize

VARIABLES hepPc, queue, hand, hepClosed, stop, abort, wpc, draining, collector, hepFailed,
          backing, closerPc, sent, dropped, writeErrs, encodeErrs, stray

Hep == INSTANCE HepSender WITH
    pc <- hepPc, closed <- hepClosed, conn <- collector, failed <- hepFailed, cpc <- closerPc

ASSUME HepAssumption == Hep!ConstantsOK

\* No final response overtakes a provisional (ProvReplay), and every packet
\* given to the mirror is sent, queued or counted as lost (HepSender).
NothingLostOnTheWay ==
    /\ Replay!TypeOK /\ Replay!NothingOvertaken
    /\ Hep!TypeOK /\ Hep!PacketsCounted
=============================================================================
