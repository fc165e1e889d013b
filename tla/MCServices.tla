----------------------------- MODULE MCServices -----------------------------
(***************************************************************************)
(* The front door and the services around the calls, for TLC. Each has a   *)
(* lock, or a goroutine, and state of its own and reads none of the        *)
(* others': the first state picks which one the behaviour is about.        *)
(***************************************************************************)
EXTENDS ServiceParts

VARIABLES part, sip, sipRef, ws, wsRef

OneIp(s) == "ip"
NodeOf(l) == IF l = "l2" THEN "n2" ELSE "n1"

Framing == INSTANCE StreamFramers WITH
    MaxMessage <- 8, MaxRead <- 2, WsBytes <- {0, 1, 10, 13, 126, 129}, WsMax <- 2,
    UpgradeMax <- 6

ratesVars == <<buckets, newer, floor, exact, evicted, ahead, own, unfair>>
aorsVars == <<now, entries, aorNewer, strikes, earned>>
doorVars == <<doorPc, delivery, count, bans, bindings, nonces, branches, struck, known, again,
              counted, forgotten, blamed>>
framingVars == <<sip, sipRef, ws, wsRef>>
dialsVars == <<dialPc, lock, dialReady, pool, late, shut>>
directoryVars == <<srv, host, addrs, expiry, failing, dirSnap, dnsPc, todo, resolving, recs,
                   resolved, changed, elapsed>>
linesVars == <<byToken, live, linePc, lineKind, contacts, believes, restarts>>
replayVars == <<wire, spawned, flying, accepted, chan, recorded, provSeen, relayed, pumped,
                finalRead, toReplay>>
hepVars == <<hepPc, queue, hand, hepClosed, stop, abort, wpc, draining, collector,
             hepFailed, backing, closerPc, sent, dropped, writeErrs, encodeErrs, stray>>
adminVars == <<req, budgets, windows, credsAge, sessions, reports, guesses>>
vars == <<part, ratesVars, aorsVars, doorVars, framingVars, dialsVars,
          directoryVars, linesVars, replayVars, hepVars, adminVars>>

Init ==
    /\ part \in {"rates", "aors", "door", "framing", "dials", "directory", "lines",
                 "replay", "hep", "admin"}
    /\ Rates!Init /\ Aors!Init /\ Door!Init /\ Framing!Init /\ Dials!Init
    /\ Directory!Init /\ Lines!Init /\ Replay!Init /\ Hep!Init /\ Admin!Init
    /\ part # "directory" => srv = [k \in {"k1", "k2"} |-> {"t1"}] /\ host = [t \in {"t1", "t2"} |-> "a"]

Next ==
    /\ UNCHANGED part
    /\ \/ part = "rates" /\ Rates!Next /\ UNCHANGED <<aorsVars, doorVars,
          framingVars, dialsVars, directoryVars, linesVars, replayVars, hepVars, adminVars>>
       \/ part = "aors" /\ Aors!Next /\ UNCHANGED <<ratesVars, doorVars,
          framingVars, dialsVars, directoryVars, linesVars, replayVars, hepVars, adminVars>>
       \/ part = "door" /\ Door!Next /\ UNCHANGED <<ratesVars, aorsVars,
          framingVars, dialsVars, directoryVars, linesVars, replayVars, hepVars, adminVars>>
       \/ part = "framing" /\ Framing!Next /\ UNCHANGED <<ratesVars, aorsVars, doorVars,
          dialsVars, directoryVars, linesVars, replayVars, hepVars, adminVars>>
       \/ part = "dials" /\ Dials!Next /\ UNCHANGED <<ratesVars, aorsVars, doorVars,
          framingVars, directoryVars, linesVars, replayVars, hepVars, adminVars>>
       \/ part = "directory" /\ Directory!Next /\ UNCHANGED <<ratesVars, aorsVars, doorVars,
          framingVars, dialsVars, linesVars, replayVars, hepVars, adminVars>>
       \/ part = "lines" /\ Lines!Next /\ UNCHANGED <<ratesVars, aorsVars, doorVars,
          framingVars, dialsVars, directoryVars, replayVars, hepVars, adminVars>>
       \/ part = "replay" /\ Replay!Next /\ UNCHANGED <<ratesVars, aorsVars, doorVars,
          framingVars, dialsVars, directoryVars, linesVars, hepVars, adminVars>>
       \/ part = "hep" /\ Hep!Next /\ UNCHANGED <<ratesVars, aorsVars, doorVars,
          framingVars, dialsVars, directoryVars, linesVars, replayVars, adminVars>>
       \/ part = "admin" /\ Admin!Next /\ UNCHANGED <<ratesVars, aorsVars, doorVars,
          framingVars, dialsVars, directoryVars, linesVars, replayVars, hepVars>>

Spec == Init /\ [][Next]_vars

\* However a stream is cut into reads the framers see the messages that are in
\* it (see StreamFramers).
FramesSeen == Framing!SipFraming /\ Framing!WsFraming
=============================================================================
